--------------------------- MODULE AdvisoryRuntime --------------------------
(***************************************************************************)
(* The V3 advisory runtime (runtime/advisory_runtime.cpp) as Product uses   *)
(* it (runtime/product.cpp): advisory requests to the gateway, the facts    *)
(* its answers become, and the demo reset that the backend commands.  All   *)
(* calls hold Product's mutex, so they do not interleave; each changes      *)
(* state.json through one journalled commit, whose durable steps a crash    *)
(* or a failing system call can separate.                                   *)
(*                                                                         *)
(* The V2 state store is reduced to what these calls see of it (StateStore  *)
(* has its steps): whether the band calls for an inspection, the last       *)
(* assessment, the size of its outbox, and a demo reset that happens, does  *)
(* not, or is left half done in reset-journal for the next start.           *)
(***************************************************************************)
EXTENDS Integers, Sequences, FiniteSets

CONSTANTS
    CommandIds,     \* ids of demo reset commands
    Releases,       \* installed releases; a process runs one
    Assessments,    \* assessment ids
    GatewayStates,  \* answers of the gateway to a request
    Kept,           \* requests remembered (16)
    Budget,         \* messages in both outboxes (64)
    Lifetime,       \* of a command (60 s)
    RefreshSet, RefreshClear,   \* 20 s, 5 s between requests of one decision
    Horizon, MaxSequence, MaxMishaps,    \* bounds for model checking
    Mishaps,        \* what can go wrong: "crash", "fault" (a system call fails)
    StoreFails      \* may the state store cease to be ready?

ASSUME AdvisoryAssumption ==
    /\ {"APPLIED", "CLEARED"} \subseteq GatewayStates
    /\ {Kept, Lifetime, RefreshSet, RefreshClear} \subseteq Nat \ {0}
    /\ {Budget, Horizon, MaxSequence, MaxMishaps} \subseteq Nat
    /\ Mishaps \subseteq {"crash", "fault"} /\ StoreFails \in BOOLEAN
    /\ Releases # {}

VARIABLES
    state_json,     \* advisory-state/v1/state.json
    journal,        \* journal.json: {} or one [before, after, fact]
    outbox,         \* facts in v3/outbox: <<sequence, gateway state>>
    quarantined,    \* facts with a .quarantined marker
    model,          \* [inspect, last]: band and last assessment of the V2 store
    derived,        \* messages in the V2 outbox
    store_ready,
    demo_reset_id, reset_journal,   \* of the V2 store: {} or one command id
    pc,             \* where the call in progress stands
    then,           \* what follows its commit
    booting,        \* the call is the constructor of Product
    release, now,
    order,          \* external: the command the backend serves, {} or one
    sent,           \* requests handed to the advisory session
    answered,       \* external: <<sequence, state>> the gateway has reported
    stored,         \* external: facts the backend has stored
    acks,           \* external: <<command id, result>> the backend has received
    resets,         \* ids under which the model was reset
    mishaps

disk == <<state_json, journal, outbox, quarantined>>
store == <<model, derived, store_ready, demo_reset_id, reset_journal, resets>>
outside == <<order, sent, answered, stored, acks>>
vars == <<disk, store, pc, then, booting, release, now, outside, mishaps>>

Requests == [sequence : 1..MaxSequence, clear : BOOLEAN,
             decision : CommandIds \union Assessments, issued : 0..Horizon]
Commands == [id : CommandIds, release : Releases, expires : 0..(Horizon + Lifetime)]
Resets == [command : Commands, applied : BOOLEAN, delivered : BOOLEAN,
           ack : {"NONE", "CLEARED", "FAILED", "REJECTED"}]
Entries == [request : Requests, written : BOOLEAN,
            statuses : SUBSET GatewayStates, admitted : SUBSET GatewayStates]
States == [next : 1..(MaxSequence + 1), requests : Seq(Entries), reset : SUBSET Resets]
Facts == (1..MaxSequence) \X GatewayStates
Journals == [before : States, after : States, fact : SUBSET Facts]

\* The files and the commands have the form their readers check.
TypeOK ==
    /\ state_json \in States /\ journal \subseteq Journals
    /\ outbox \subseteq Facts /\ quarantined \subseteq Facts
    /\ model \in [inspect : BOOLEAN, last : SUBSET Assessments] /\ derived \in Nat
    /\ store_ready \in BOOLEAN
    /\ demo_reset_id \subseteq CommandIds /\ reset_journal \subseteq CommandIds
    /\ pc \in {"idle", "down", "recover", "state", "fact", "remove", "complete", "applied"}
    /\ then \in {"idle", "complete"} /\ booting \in BOOLEAN
    /\ release \in Releases /\ now \in 0..Horizon
    /\ order \subseteq Commands /\ sent \subseteq Requests
    /\ answered \subseteq Facts /\ stored \subseteq Facts
    /\ acks \subseteq CommandIds \X {"CLEARED", "FAILED", "REJECTED"}
    /\ resets \subseteq CommandIds /\ mishaps \in Nat

\* The first process of the first release has started in empty directories.
Init ==
    /\ state_json = [next |-> 1, requests |-> <<>>, reset |-> {}]
    /\ journal = {} /\ outbox = {} /\ quarantined = {}
    /\ model = [inspect |-> FALSE, last |-> {}] /\ derived = 0 /\ store_ready = TRUE
    /\ demo_reset_id = {} /\ reset_journal = {}
    /\ pc = "idle" /\ then = "idle" /\ booting = FALSE /\ now = 0
    /\ release = CHOOSE r \in Releases : TRUE
    /\ order = {} /\ sent = {} /\ answered = {} /\ stored = {} /\ acks = {}
    /\ resets = {} /\ mishaps = 0

\* validate_state: an acknowledgement is CLEARED or FAILED.
Valid(s) == \A r \in s.reset : r.ack # "REJECTED"

Pending == {r \in state_json.reset : r.ack = "NONE"}      \* reset_pending
WithReset(r) == [state_json EXCEPT !.reset = {r}]

-----------------------------------------------------------------------------
(* commit() and recover()                                                  *)

\* What a call does that throws: an exception in the constructor ends the
\* process, any other is caught by the calling thread.
Thrown == pc' = IF booting THEN "down" ELSE "idle"

\* commit: refuse while a journal is left, else publish the journal.
commit(after, fact, continuation) ==
    \/ /\ journal # {} /\ Thrown
       /\ UNCHANGED <<journal, then>>
    \/ /\ journal = {}
       /\ journal' = {[before |-> state_json, after |-> after, fact |-> fact]}
       /\ pc' = "recover" /\ then' = continuation

\* recover: check the journal; nothing is written for one that is refused.
Recover ==
    /\ pc = "recover"
    /\ \E j \in journal :
         IF Valid(j.before) /\ Valid(j.after) /\ state_json \in {j.before, j.after}
         THEN pc' = "state" ELSE Thrown
    /\ UNCHANGED <<disk, store, then, booting, release, now, outside, mishaps>>

RecoverState ==
    /\ pc = "state"
    /\ \E j \in journal : state_json' = j.after
    /\ pc' = "fact"
    /\ UNCHANGED <<journal, outbox, quarantined, store, then, booting, release,
                   now, outside, mishaps>>

RecoverFact ==
    /\ pc = "fact"
    /\ \E j \in journal : outbox' = outbox \union j.fact
    /\ pc' = "remove"
    /\ UNCHANGED <<state_json, journal, quarantined, store, then, booting, release,
                   now, outside, mishaps>>

RemoveJournal ==
    /\ pc = "remove"
    /\ journal' = {}
    /\ pc' = then
    /\ booting' = (booting /\ then # "idle")
    /\ UNCHANGED <<state_json, outbox, quarantined, store, then, release, now,
                   outside, mishaps>>

Step == Recover \/ RecoverState \/ RecoverFact \/ RemoveJournal

\* The process starts: the state store completes a reset it finds, then the
\* advisory runtime a journal.
Boot ==
    /\ pc = "down"
    /\ \E r \in Releases : release' = r
    /\ booting' = TRUE /\ store_ready' = TRUE
    /\ demo_reset_id' = IF reset_journal = {} THEN demo_reset_id ELSE reset_journal
    /\ resets' = resets \union reset_journal
    /\ model' = IF reset_journal = {} THEN model ELSE [model EXCEPT !.inspect = FALSE]
    /\ reset_journal' = {}
    /\ pc' = IF journal = {} THEN "complete" ELSE "recover"
    /\ then' = "complete"
    /\ UNCHANGED <<disk, derived, now, outside, mishaps>>

-----------------------------------------------------------------------------
(* The demo reset                                                          *)

\* reconcile_demo_reset: the command was bound to another release.
Foreign(r) == r.command.release # release

Expired(r) == now >= r.command.expires

CompleteNothing ==
    /\ pc = "complete"
    /\ \A r \in Pending : r.applied /\ ~Foreign(r)
    /\ pc' = "idle" /\ booting' = FALSE
    /\ UNCHANGED <<disk, store, then, release, now, outside, mishaps>>

CompleteReject ==
    /\ pc = "complete"
    /\ \E r \in Pending : /\ Foreign(r)
                         /\ commit(WithReset([r EXCEPT !.ack = "REJECTED"]), {}, "idle")
    /\ UNCHANGED <<state_json, outbox, quarantined, store, booting, release,
                   now, outside, mishaps>>

CompleteFail ==
    /\ pc = "complete"
    /\ \E r \in Pending :
          /\ ~Foreign(r) /\ ~r.applied /\ Expired(r)
          /\ demo_reset_id # {r.command.id}
          /\ commit(WithReset([r EXCEPT !.ack = "FAILED"]), {}, "idle")
    /\ UNCHANGED <<state_json, outbox, quarantined, store, booting, release,
                   now, outside, mishaps>>

\* The model is to be reset now, or was when a crash hid the fact.
Resetting(r) ==
    /\ ~Foreign(r) /\ ~r.applied
    /\ ~Expired(r) \/ demo_reset_id = {r.command.id}

\* StateStore::reset_demo.
CompleteModel ==
    /\ pc = "complete"
    /\ \E r \in Pending :
          /\ Resetting(r)
          /\ \/ /\ store_ready
                /\ reset_journal = {} \/ demo_reset_id = {r.command.id}
                /\ demo_reset_id' = {r.command.id}
                /\ resets' = resets \union {r.command.id}
                /\ model' = IF demo_reset_id = {r.command.id} THEN model
                            ELSE [model EXCEPT !.inspect = FALSE]
                /\ pc' = "applied"
             \/ /\ ~store_ready \/ (reset_journal # {} /\ demo_reset_id # {r.command.id})
                /\ Thrown
                /\ UNCHANGED <<demo_reset_id, resets, model>>
    /\ UNCHANGED <<disk, derived, store_ready, reset_journal, then, booting,
                   release, now, outside, mishaps>>

\* A crash or a failing system call in reset_demo, after reset-journal is
\* published: state.json may be replaced or not, the marker is not.
CompleteHalf ==
    /\ pc = "complete" /\ mishaps < MaxMishaps
    /\ store_ready /\ reset_journal = {}
    /\ \E r \in Pending :
          /\ Resetting(r) /\ demo_reset_id # {r.command.id}
          /\ reset_journal' = {r.command.id}
          /\ \/ UNCHANGED <<model, resets>>
             \/ /\ model' = [model EXCEPT !.inspect = FALSE]
                /\ resets' = resets \union {r.command.id}
    /\ \/ "fault" \in Mishaps /\ Thrown
       \/ "crash" \in Mishaps /\ pc' = "down"
    /\ mishaps' = mishaps + 1
    /\ UNCHANGED <<disk, derived, store_ready, demo_reset_id, then, booting,
                   release, now, outside>>

model_reset_applied ==
    /\ pc = "applied"
    /\ \E r \in Pending : commit(WithReset([r EXCEPT !.applied = TRUE]), {}, "idle")
    /\ UNCHANGED <<state_json, outbox, quarantined, store, booting, release,
                   now, outside, mishaps>>

\* begin_demo_reset: the backend serves a command; a known one is only
\* completed, a new one recorded unless it is late or another is pending.
begin_demo_reset ==
    /\ pc = "idle"
    /\ \E c \in order :
          /\ c.release = release
          /\ \/ /\ \E r \in state_json.reset : r.command = c
                /\ pc' = "complete" /\ UNCHANGED <<journal, then>>
             \/ /\ \A r \in state_json.reset : r.command.id # c.id
                /\ now < c.expires /\ Pending = {}
                /\ commit(WithReset([command |-> c, applied |-> FALSE,
                                     delivered |-> FALSE, ack |-> "NONE"]),
                          {}, "complete")
    /\ UNCHANGED <<state_json, outbox, quarantined, store, booting, release,
                   now, outside, mishaps>>

\* Mutant: the deadline also overtakes an answer that is not yet delivered.
reset_ack_expire_late ==
    /\ pc = "idle"
    /\ \E r \in state_json.reset :
          /\ Expired(r) /\ ~r.delivered
          /\ commit(WithReset([r EXCEPT !.ack = "FAILED"]), {}, "idle")
    /\ UNCHANGED <<state_json, outbox, quarantined, store, booting, release,
                   now, outside, mishaps>>

\* Mutant: a command whose reset was applied waits for the gateway for ever.
reset_ack_expire_unapplied ==
    /\ pc = "idle"
    /\ \E r \in Pending : /\ Expired(r) /\ ~r.applied
                         /\ commit(WithReset([r EXCEPT !.ack = "FAILED"]), {}, "idle")
    /\ UNCHANGED <<state_json, outbox, quarantined, store, booting, release,
                   now, outside, mishaps>>

\* reset_ack: a command not answered by its deadline has failed.
reset_ack_expire ==
    /\ pc = "idle"
    /\ \E r \in Pending : /\ Expired(r)
                         /\ commit(WithReset([r EXCEPT !.ack = "FAILED"]), {}, "idle")
    /\ UNCHANGED <<state_json, outbox, quarantined, store, booting, release,
                   now, outside, mishaps>>

\* reset_ack: the answer is posted until the backend confirms it.
reset_ack_post ==
    /\ pc = "idle"
    /\ \E r \in state_json.reset :
          /\ r.ack # "NONE" /\ ~r.delivered
          /\ acks' = acks \union {<<r.command.id, r.ack>>}
          /\ order' = {c \in order : c.id # r.command.id}
    /\ UNCHANGED <<disk, store, pc, then, booting, release, now, sent, answered,
                   stored, mishaps>>

reset_acknowledged ==
    /\ pc = "idle"
    /\ \E r \in state_json.reset :
          /\ ~r.delivered /\ <<r.command.id, r.ack>> \in acks
          /\ commit(WithReset([r EXCEPT !.delivered = TRUE]), {}, "idle")
    /\ UNCHANGED <<state_json, outbox, quarantined, store, booting, release,
                   now, outside, mishaps>>

-----------------------------------------------------------------------------
(* Requests, answers and facts                                             *)

Change(i, entry) == [state_json EXCEPT !.requests = [@ EXCEPT ![i] = entry]]

Last(entries) == entries[Len(entries)].request

\* Mutant: the CLEAR does not wait for the model to be reset.
Decisions_early ==
    IF Pending # {}
    THEN {[clear |-> TRUE, decision |-> r.command.id] :
             r \in {q \in Pending : ~Expired(q)}}
    ELSE {[clear |-> FALSE, decision |-> a] :
             a \in IF model.inspect THEN model.last ELSE {}}

\* A CLEAR for the reset in progress, else a SET while the band calls for an
\* inspection; none when neither is due.
Decisions ==
    IF Pending # {}
    THEN {[clear |-> TRUE, decision |-> r.command.id] :
             r \in {q \in Pending : q.applied /\ ~Expired(q)}}
    ELSE {[clear |-> FALSE,
           decision |-> IF state_json.requests # <<>> /\ ~Last(state_json.requests).clear
                        THEN Last(state_json.requests).decision ELSE a] :
             a \in IF model.inspect THEN model.last ELSE {}}

\* The last request already says it, and is not due for a refresh.
Fresh(d) ==
    /\ state_json.requests # <<>>
    /\ LET old == Last(state_json.requests)
       IN  /\ old.clear = d.clear /\ old.decision = d.decision
           /\ now - old.issued < IF d.clear THEN RefreshClear ELSE RefreshSet

\* The newest entries, at most Kept of them.
Keep(entries) ==
    IF Len(entries) > Kept THEN SubSeq(entries, Len(entries) - Kept + 1, Len(entries))
    ELSE entries

\* Mutant: the number of a request that was not written is used again.
next_request_reuse ==
    /\ pc = "idle" /\ store_ready
    /\ \E d \in Decisions :
         /\ ~Fresh(d) /\ state_json.next <= MaxSequence
         /\ LET r == [sequence |-> state_json.next, clear |-> d.clear,
                      decision |-> d.decision, issued |-> now]
                e == [request |-> r, written |-> FALSE, statuses |-> {}, admitted |-> {}]
                p == state_json.requests
                unsent == p # <<>> /\ ~p[Len(p)].written
            IN  commit(IF unsent THEN Change(Len(p), [e EXCEPT !.request.sequence = @ - 1])
                       ELSE [state_json EXCEPT !.next = @ + 1, !.requests = Keep(Append(@, e))],
                       {}, "idle")
    /\ UNCHANGED <<state_json, outbox, quarantined, store, booting, release,
                   now, outside, mishaps>>

\* next_request makes a new request durable; next_request below hands it out.
next_request_new ==
    /\ pc = "idle" /\ store_ready
    /\ \E d \in Decisions :
         /\ ~Fresh(d) /\ state_json.next <= MaxSequence
         /\ LET r == [sequence |-> state_json.next, clear |-> d.clear,
                      decision |-> d.decision, issued |-> now]
                e == [request |-> r, written |-> FALSE, statuses |-> {}, admitted |-> {}]
            IN  commit([next |-> state_json.next + 1,
                        requests |-> Keep(Append(state_json.requests, e)),
                        reset |-> state_json.reset], {}, "idle")
    /\ UNCHANGED <<state_json, outbox, quarantined, store, booting, release,
                   now, outside, mishaps>>

\* next_request hands out the last request until it is written.
next_request ==
    /\ pc = "idle" /\ store_ready
    /\ \E d \in Decisions : Fresh(d)
    /\ LET e == state_json.requests[Len(state_json.requests)]
       IN  ~e.written /\ sent' = sent \union {e.request}
    /\ UNCHANGED <<disk, store, pc, then, booting, release, now, order, answered,
                   stored, acks, mishaps>>

written ==
    /\ pc = "idle"
    /\ \E i \in DOMAIN state_json.requests :
         LET e == state_json.requests[i]
         IN  /\ e.request \in sent /\ ~e.written
             /\ commit(Change(i, [e EXCEPT !.written = TRUE]), {}, "idle")
    /\ UNCHANGED <<state_json, outbox, quarantined, store, booting, release,
                   now, outside, mishaps>>

\* External: the gateway answers a request; the status can be read from then
\* on, again and again.
Answer ==
    /\ \E r \in sent, s \in GatewayStates :
         /\ s # (IF r.clear THEN "APPLIED" ELSE "CLEARED")
         /\ <<r.sequence, s>> \notin answered
         /\ answered' = answered \union {<<r.sequence, s>>}
    /\ UNCHANGED <<disk, store, pc, then, booting, release, now, order, sent,
                   stored, acks, mishaps>>

\* derived_usage: a store that is not ready lists nothing.
other_count == IF store_ready THEN derived ELSE 0

\* The acknowledgement a CLEARED answer to the command's own CLEAR gives.
ClearedBy(r, s) ==
    {[q EXCEPT !.ack = "CLEARED"] :
        q \in {p \in Pending : r.decision = p.command.id /\ s = "CLEARED"}}

observe ==
    /\ pc = "idle"
    /\ \E i \in DOMAIN state_json.requests, s \in GatewayStates :
         LET e == state_json.requests[i]
             r == e.request
             admit == ~r.clear /\ Cardinality(outbox) + other_count + 1 <= Budget
             after == Change(i, [request |-> r, written |-> TRUE,
                                 statuses |-> e.statuses \union {s},
                                 admitted |-> IF admit THEN e.admitted \union {s}
                                              ELSE e.admitted])
             cleared == IF r.clear THEN ClearedBy(r, s) ELSE {}
         IN  /\ <<r.sequence, s>> \in answered /\ s \notin e.statuses
             /\ commit(IF cleared = {} THEN after ELSE [after EXCEPT !.reset = cleared],
                       IF admit THEN {<<r.sequence, s>>} ELSE {}, "idle")
    /\ UNCHANGED <<state_json, outbox, quarantined, store, booting, release,
                   now, outside, mishaps>>

\* External: a fact that is being posted reaches the backend.
StoreFact ==
    /\ \E f \in outbox \ (quarantined \union stored) : stored' = stored \union {f}
    /\ UNCHANGED <<disk, store, pc, then, booting, release, now, order, sent,
                   answered, acks, mishaps>>

\* Mutant: a fact leaves the outbox whatever the answer is.
accept_any ==
    /\ pc = "idle"
    /\ \E f \in outbox \ quarantined : outbox' = outbox \ {f}
    /\ UNCHANGED <<state_json, journal, quarantined, store, pc, then, booting,
                   release, now, outside, mishaps>>

\* accept: a matching receipt removes the fact, a conflict marks it.
accept ==
    /\ pc = "idle"
    /\ \E f \in outbox \ quarantined :
         \/ f \in stored /\ outbox' = outbox \ {f} /\ UNCHANGED quarantined
         \/ quarantined' = quarantined \union {f} /\ UNCHANGED outbox
    /\ UNCHANGED <<state_json, journal, store, pc, then, booting, release, now,
                   outside, mishaps>>

-----------------------------------------------------------------------------
(* The surroundings                                                        *)

\* Product::ingest completes an episode: not while a reset is pending.  Its
\* message or pair enters the V2 outbox if the shared budget allows.
Process ==
    /\ pc = "idle" /\ store_ready /\ Pending = {}
    /\ \E a \in Assessments, n \in {1, 2}, band \in {model.inspect, TRUE} :
         /\ model' = [inspect |-> band, last |-> {a}]
         /\ derived' = IF derived + Cardinality(outbox) + n <= Budget
                       THEN derived + n ELSE derived
    /\ UNCHANGED <<disk, store_ready, demo_reset_id, reset_journal, resets, pc,
                   then, booting, release, now, outside, mishaps>>

AcknowledgeDerived ==
    /\ pc = "idle" /\ store_ready /\ derived > 0
    /\ derived' = derived - 1
    /\ UNCHANGED <<disk, model, store_ready, demo_reset_id, reset_journal, resets,
                   pc, then, booting, release, now, outside, mishaps>>

\* External: the backend has a new command for the running release.
Issue ==
    /\ order = {} /\ now + Lifetime <= Horizon
    /\ \E id \in CommandIds :
         /\ \A a \in acks : a[1] # id
         /\ order' = {[id |-> id, release |-> release, expires |-> now + Lifetime]}
    /\ UNCHANGED <<disk, store, pc, then, booting, release, now, sent, answered,
                   stored, acks, mishaps>>

Tick ==
    /\ now < Horizon /\ now' = now + 1
    /\ UNCHANGED <<disk, store, pc, then, booting, release, outside, mishaps>>

\* The state store meets an error and is not ready until the next start.
StoreFail ==
    /\ StoreFails /\ pc = "idle" /\ store_ready
    /\ store_ready' = FALSE
    /\ UNCHANGED <<disk, model, derived, demo_reset_id, reset_journal, resets, pc,
                   then, booting, release, now, outside, mishaps>>

\* A system call of a commit fails: the journal stays, the call throws.
Fault ==
    /\ pc \in {"recover", "state", "fact", "remove"} /\ mishaps < MaxMishaps
    /\ "fault" \in Mishaps /\ Thrown
    /\ mishaps' = mishaps + 1
    /\ UNCHANGED <<disk, store, then, booting, release, now, outside>>

Crash ==
    /\ pc # "down" /\ mishaps < MaxMishaps
    /\ "crash" \in Mishaps /\ pc' = "down"
    /\ mishaps' = mishaps + 1
    /\ UNCHANGED <<disk, store, then, booting, release, now, outside>>

Complete ==
    \/ CompleteNothing \/ CompleteReject \/ CompleteFail \/ CompleteModel
    \/ model_reset_applied

Next ==
    \/ Boot \/ Step \/ Complete \/ CompleteHalf
    \/ begin_demo_reset \/ reset_ack_expire \/ reset_ack_post \/ reset_acknowledged
    \/ next_request_new \/ next_request \/ written \/ observe \/ accept
    \/ Process \/ AcknowledgeDerived
    \/ Answer \/ StoreFact \/ Issue \/ Tick
    \/ StoreFail \/ Fault \/ Crash

Spec == Init /\ [][Next]_vars

\* A process that ended is started again, a call that has begun goes on, time
\* passes, and each pass of the delivery loop asks for an acknowledgement
\* before it polls for a command.
Fairness ==
    /\ WF_vars(Boot) /\ WF_vars(Step) /\ WF_vars(Complete) /\ WF_vars(Tick)
    /\ SF_vars(reset_ack_expire) /\ SF_vars(reset_ack_post)

FairSpec == Spec /\ Fairness

-----------------------------------------------------------------------------
\* The fact of an admitted status is not lost, whatever step of observe(),
\* recover() or accept() was the last: it is in the outbox, stored by the
\* backend, or in the journal.
AdmittedKept ==
    \A i \in DOMAIN state_json.requests :
        LET e == state_json.requests[i]
        IN  \A s \in e.admitted :
               <<e.request.sequence, s>> \in
                   outbox \union stored \union UNION {j.fact : j \in journal}

\* The gateway never sees one sequence number on two requests, not even after
\* a commit that failed or was cut short: the replay protection it applies to
\* (epoch, sequence) never refuses a genuine request.
OneRequestPerSequence ==
    \A a, b \in sent : a.sequence = b.sequence => a = b

\* "Only a correlated Gateway CLEARED result produces a successful
\* acknowledgement": and only for a command whose reset was carried out.
SuccessIsReal ==
    \A id \in CommandIds : <<id, "CLEARED">> \in acks =>
        /\ id \in resets
        /\ \E r \in sent : /\ r.clear /\ r.decision = id
                           /\ <<r.sequence, "CLEARED">> \in answered

\* The backend never receives two different answers to one command, although
\* the deadline races the gateway's answer and acknowledgements are repeated.
OneAnswer == \A a, b \in acks : a[1] = b[1] => a[2] = b[2]

\* Pairs of the V2 store and facts together keep to the shared budget.
SharedBudget == derived + Cardinality(outbox) <= Budget

\* A commit that failed has left its journal in a process that goes on, where
\* it holds up every later commit; or one that recover() refuses, where it
\* holds up every later start.
Blocked == \E j \in journal : pc = "idle" \/ ~Valid(j.after)

\* Every command that was recorded is answered: by the gateway's CLEARED or,
\* at the latest, by its deadline; unless a journal blocks the answer (for
\* the change of release see RejectedOnChange).
ResetAnswered ==
    \A id \in CommandIds :
        (\E r \in Pending : r.command.id = id)
            ~> (Blocked \/ \E a \in acks : a[1] = id)

\* "A release/instance change rejects the pending command": it does not stay
\* pending once the service runs another release.
RejectedOnChange ==
    \A id \in CommandIds :
        (\E r \in Pending : r.command.id = id /\ Foreign(r))
            ~> (\A r \in Pending : r.command.id # id)

\* A command "expires after 60 seconds": once it is answered FAILED without a
\* reset, no later step resets the model in its name.
ExpiredNeverResets ==
    [][\A id \in CommandIds :
        <<id, "FAILED">> \in acks /\ id \notin resets => id \notin resets']_vars

=============================================================================
