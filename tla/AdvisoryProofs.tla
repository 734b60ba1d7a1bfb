--------------------------- MODULE AdvisoryProofs ---------------------------
(***************************************************************************)
(* Proofs about AdvisoryRuntime: its files keep their form, no admitted     *)
(* fact is lost, a sequence number names one request, and a demo reset      *)
(* command gets one answer, which is CLEARED only if the reset was carried  *)
(* out.  For any number of commands, requests, releases and mishaps.        *)
(***************************************************************************)
EXTENDS AdvisoryRuntime, TLAPS

(* The operators that build the next state                                 *)

\* Keep returns a sequence of the same entries, each from some position.
LEMMA KeepEntries ==
    ASSUME NEW S, NEW q \in Seq(S), Kept \in Nat \ {0}
    PROVE  /\ Keep(q) \in Seq(S)
           /\ \A i \in DOMAIN Keep(q) : \E k \in DOMAIN q : Keep(q)[i] = q[k]
  <1>1. CASE Len(q) > Kept
    <2> DEFINE m == Len(q) - Kept + 1
    <2>1. m \in 1..Len(q) /\ Len(q) \in Nat
      BY <1>1
    <2>2. Keep(q) = SubSeq(q, m, Len(q))
      BY <1>1, Zenon DEF Keep
    <2>3. /\ SubSeq(q, m, Len(q)) \in Seq(S)
          /\ Len(SubSeq(q, m, Len(q))) = Kept
          /\ \A i \in 1..Kept : SubSeq(q, m, Len(q))[i] = q[m + i - 1]
      BY <2>1
    <2>4. \A i \in 1..Kept : m + i - 1 \in DOMAIN q
      BY <2>1
    <2>5. DOMAIN SubSeq(q, m, Len(q)) = 1..Kept
      BY <2>3
    <2> QED
      BY <2>2, <2>3, <2>4, <2>5, Zenon
  <1>2. CASE ~(Len(q) > Kept)
    BY <1>2, Zenon DEF Keep
  <1> QED
    BY <1>1, <1>2, Zenon

\* An entry of an extended and cut list is an old one or the new one.
LEMMA KeepAppend ==
    ASSUME NEW S, NEW q \in Seq(S), NEW e \in S, Kept \in Nat \ {0}
    PROVE  /\ Keep(Append(q, e)) \in Seq(S)
           /\ \A i \in DOMAIN Keep(Append(q, e)) :
                 \/ Keep(Append(q, e))[i] = e
                 \/ \E k \in DOMAIN q : Keep(Append(q, e))[i] = q[k]
  <1>1. /\ Append(q, e) \in Seq(S)
        /\ \A k \in DOMAIN Append(q, e) :
              Append(q, e)[k] = e \/ (k \in DOMAIN q /\ Append(q, e)[k] = q[k])
    OBVIOUS
  <1> DEFINE x == Append(q, e)
  <1>2. /\ Keep(x) \in Seq(S)
        /\ \A i \in DOMAIN Keep(x) : \E k \in DOMAIN x : Keep(x)[i] = x[k]
    <2> HIDE DEF x
    <2>1. x \in Seq(S)
      BY <1>1, Zenon DEF x
    <2> QED
      BY <2>1, KeepEntries, Zenon
  <1> QED
    BY <1>1, <1>2, Zenon

\* A commit that replaces the reset writes a state.
LEMMA WithResetState ==
    ASSUME TypeOK, NEW r \in Resets
    PROVE  /\ WithReset(r) \in States
           /\ WithReset(r).next = state_json.next
           /\ WithReset(r).requests = state_json.requests
           /\ WithReset(r).reset = {r}
  BY Zenon DEF TypeOK, States, WithReset

\* So does one that replaces an entry.
LEMMA ChangeState ==
    ASSUME TypeOK, NEW i \in DOMAIN state_json.requests, NEW e \in Entries
    PROVE  /\ Change(i, e) \in States
           /\ Change(i, e).next = state_json.next
           /\ Change(i, e).reset = state_json.reset
           /\ DOMAIN Change(i, e).requests = DOMAIN state_json.requests
           /\ Change(i, e).requests[i] = e
           /\ \A k \in DOMAIN state_json.requests \ {i} :
                 Change(i, e).requests[k] = state_json.requests[k]
  <1>1. state_json.requests \in Seq(Entries)
    BY Zenon DEF TypeOK, States
  <1>2. [state_json.requests EXCEPT ![i] = e] \in Seq(Entries)
    BY <1>1
  <1>3. Change(i, e).requests = [state_json.requests EXCEPT ![i] = e]
    BY Zenon DEF TypeOK, States, Change
  <1> QED
    BY <1>1, <1>2, <1>3, Zenon DEF TypeOK, States, Change

\* A record with one field changed.
LEMMA ResetFields ==
    ASSUME NEW r \in Resets
    PROVE  /\ \A a \in {"NONE", "CLEARED", "FAILED", "REJECTED"} :
                 /\ [r EXCEPT !.ack = a] \in Resets
                 /\ [r EXCEPT !.ack = a].command = r.command
                 /\ [r EXCEPT !.ack = a].applied = r.applied
                 /\ [r EXCEPT !.ack = a].ack = a
           /\ [r EXCEPT !.applied = TRUE] \in Resets
           /\ [r EXCEPT !.applied = TRUE].command = r.command
           /\ [r EXCEPT !.applied = TRUE].ack = r.ack
           /\ [r EXCEPT !.delivered = TRUE] \in Resets
           /\ [r EXCEPT !.delivered = TRUE].command = r.command
           /\ [r EXCEPT !.delivered = TRUE].applied = r.applied
           /\ [r EXCEPT !.delivered = TRUE].ack = r.ack
  BY Zenon DEF Resets

-----------------------------------------------------------------------------
(* Types                                                                   *)

\* The entry next_request_new adds.
NewEntry(d) ==
    [request |-> [sequence |-> state_json.next, clear |-> d.clear,
                  decision |-> d.decision, issued |-> now],
     written |-> FALSE, statuses |-> {}, admitted |-> {}]

\* Each entry of the list is one.
LEMMA EntryType ==
    ASSUME TypeOK, NEW i \in DOMAIN state_json.requests
    PROVE  state_json.requests[i] \in Entries
  BY DEF TypeOK, States

\* A decision names a command or an assessment.
LEMMA DecisionType ==
    ASSUME TypeOK, NEW d \in Decisions
    PROVE  d.clear \in BOOLEAN /\ d.decision \in CommandIds \union Assessments
  <1>1. CASE Pending # {}
    <2>1. Pending \subseteq Resets
      BY Zenon DEF TypeOK, States, Pending
    <2>2. PICK r \in Pending : d = [clear |-> TRUE, decision |-> r.command.id]
      BY <1>1, Zenon DEF Decisions
    <2> QED
      BY <2>1, <2>2, Zenon DEF Resets, Commands
  <1>2. CASE Pending = {}
    <2>1. PICK a \in Assessments :
             d = [clear |-> FALSE,
                  decision |-> IF state_json.requests # <<>> /\ ~Last(state_json.requests).clear
                               THEN Last(state_json.requests).decision ELSE a]
      BY <1>2, Zenon DEF Decisions, TypeOK
    <2>2. ASSUME state_json.requests # <<>>
          PROVE  Last(state_json.requests) \in Requests
      <3>1. Len(state_json.requests) \in DOMAIN state_json.requests
        BY <2>2 DEF TypeOK, States
      <3> QED
        BY <3>1, EntryType, Zenon DEF Last, Entries
    <2> QED
      BY <2>1, <2>2, Zenon DEF Requests
  <1> QED
    BY <1>1, <1>2, Zenon

\* The entry next_request_new adds has the next number and the decision.
LEMMA NewEntryType ==
    ASSUME TypeOK, NEW d \in Decisions, state_json.next <= MaxSequence
    PROVE  /\ NewEntry(d) \in Entries /\ NewEntry(d).admitted = {}
           /\ NewEntry(d).request.sequence = state_json.next
           /\ NewEntry(d).request.clear = d.clear
           /\ NewEntry(d).request.decision = d.decision
  <1>1. d.clear \in BOOLEAN /\ d.decision \in CommandIds \union Assessments
    BY DecisionType, Zenon
  <1>2. state_json \in States /\ now \in 0..Horizon
    BY Zenon DEF TypeOK
  <1>3. state_json.next \in 1..MaxSequence
    BY <1>2, AdvisoryAssumption DEF States
  <1> QED
    BY <1>1, <1>2, <1>3, Zenon DEF NewEntry, Entries, Requests

\* What observe() commits for status g of the i-th request.
Admit(i) ==
    /\ ~state_json.requests[i].request.clear
    /\ Cardinality(outbox) + other_count + 1 <= Budget
ObservedEntry(i, g) ==
    [request |-> state_json.requests[i].request, written |-> TRUE,
     statuses |-> state_json.requests[i].statuses \union {g},
     admitted |-> IF Admit(i) THEN state_json.requests[i].admitted \union {g}
                  ELSE state_json.requests[i].admitted]
Cleared(i, g) ==
    IF state_json.requests[i].request.clear
    THEN ClearedBy(state_json.requests[i].request, g) ELSE {}
ObservedState(i, g) ==
    IF Cleared(i, g) = {} THEN Change(i, ObservedEntry(i, g))
    ELSE [Change(i, ObservedEntry(i, g)) EXCEPT !.reset = Cleared(i, g)]
ObservedFact(i, g) ==
    IF Admit(i) THEN {<<state_json.requests[i].request.sequence, g>>} ELSE {}

\* It is a state and at most one fact.
LEMMA ObservedType ==
    ASSUME TypeOK, NEW i \in DOMAIN state_json.requests, NEW g \in GatewayStates
    PROVE  /\ ObservedEntry(i, g) \in Entries
           /\ ObservedState(i, g) \in States
           /\ ObservedState(i, g).next = state_json.next
           /\ ObservedState(i, g).requests = Change(i, ObservedEntry(i, g)).requests
           /\ ObservedState(i, g).reset =
                 IF Cleared(i, g) = {} THEN state_json.reset ELSE Cleared(i, g)
           /\ ObservedFact(i, g) \in SUBSET Facts
  <1>1. state_json.requests[i] \in Entries
    BY EntryType, Zenon
  <1>2. ObservedEntry(i, g) \in Entries
    BY <1>1, Zenon DEF ObservedEntry, Entries
  <1>3. Pending \subseteq Resets
    BY Zenon DEF TypeOK, States, Pending
  <1>4. Cleared(i, g) \subseteq Resets
    <2>1. SUFFICES ASSUME NEW c \in Cleared(i, g) PROVE c \in Resets
      BY Zenon
    <2>2. PICK q \in Pending : c = [q EXCEPT !.ack = "CLEARED"]
      BY <2>1, Zenon DEF Cleared, ClearedBy
    <2> QED
      BY <1>3, <2>2, ResetFields, Zenon
  <1>5. Change(i, ObservedEntry(i, g)) \in States
        /\ Change(i, ObservedEntry(i, g)).next = state_json.next
        /\ Change(i, ObservedEntry(i, g)).reset = state_json.reset
    BY <1>2, ChangeState, Zenon
  <1>6. ObservedFact(i, g) \in SUBSET Facts
    BY <1>1 DEF ObservedFact, Facts, Entries, Requests
  <1> QED
    BY <1>2, <1>4, <1>5, <1>6, Zenon DEF ObservedState, States

\* commit publishes a journal of the right form, or none.
LEMMA CommitType ==
    ASSUME TypeOK, NEW after \in States, NEW fact \in SUBSET Facts,
           NEW c \in {"idle", "complete"}, commit(after, fact, c)
    PROVE  /\ journal' \subseteq Journals
           /\ pc' \in {"idle", "down", "recover"}
           /\ then' \in {"idle", "complete"}
  BY DEF TypeOK, commit, Thrown, Journals

\* Every operation keeps the types of the files and of its own variables.
LEMMA TypeStep == TypeOK /\ [Next]_vars => TypeOK'
  <1> SUFFICES ASSUME TypeOK, [Next]_vars PROVE TypeOK'
    BY Zenon
  <1> USE AdvisoryAssumption
  <1>0. Pending \subseteq Resets /\ state_json.reset \subseteq Resets
    BY Zenon DEF TypeOK, States, Pending
  <1>1. CASE Boot
    BY <1>1, Zenon DEF TypeOK, Boot, disk, outside
  <1>2. CASE Step
    <2>1. CASE Recover
      BY <2>1, Zenon DEF TypeOK, Recover, disk, store, outside, Thrown
    <2>2. CASE RecoverState
      BY <2>2, Zenon DEF TypeOK, RecoverState, store, outside, Journals
    <2>3. CASE RecoverFact
      BY <2>3, Zenon DEF TypeOK, RecoverFact, store, outside, Journals
    <2>4. CASE RemoveJournal
      BY <2>4, Zenon DEF TypeOK, RemoveJournal, store, outside
    <2> QED
      BY <1>2, <2>1, <2>2, <2>3, <2>4, Zenon DEF Step
  <1>3. CASE Complete
    <2>1. CASE CompleteNothing
      BY <2>1, Zenon DEF TypeOK, CompleteNothing, disk, store, outside
    <2>2. CASE CompleteReject
      <3>1. PICK r \in Pending : commit(WithReset([r EXCEPT !.ack = "REJECTED"]), {}, "idle")
        BY <2>2, Zenon DEF CompleteReject
      <3>2. WithReset([r EXCEPT !.ack = "REJECTED"]) \in States
        BY <1>0, ResetFields, WithResetState, Zenon
      <3>3. journal' \subseteq Journals /\ pc' \in {"idle", "down", "recover"}
            /\ then' \in {"idle", "complete"}
        BY <3>1, <3>2, CommitType, Zenon
      <3> QED
        BY <2>2, <3>3, Zenon DEF TypeOK, CompleteReject, store, outside
    <2>3. CASE CompleteFail
      <3>1. PICK r \in Pending : commit(WithReset([r EXCEPT !.ack = "FAILED"]), {}, "idle")
        BY <2>3, Zenon DEF CompleteFail
      <3>2. WithReset([r EXCEPT !.ack = "FAILED"]) \in States
        BY <1>0, ResetFields, WithResetState, Zenon
      <3>3. journal' \subseteq Journals /\ pc' \in {"idle", "down", "recover"}
            /\ then' \in {"idle", "complete"}
        BY <3>1, <3>2, CommitType, Zenon
      <3> QED
        BY <2>3, <3>3, Zenon DEF TypeOK, CompleteFail, store, outside
    <2>4. CASE CompleteModel
      <3>1. PICK r \in Pending :
               \/ /\ demo_reset_id' = {r.command.id}
                  /\ resets' = resets \union {r.command.id}
                  /\ model' \in {model, [model EXCEPT !.inspect = FALSE]}
                  /\ pc' = "applied"
               \/ Thrown /\ UNCHANGED <<demo_reset_id, resets, model>>
        BY <2>4, Zenon DEF CompleteModel
      <3>2. r.command.id \in CommandIds
        BY <1>0, Zenon DEF Resets, Commands
      <3> QED
        BY <2>4, <3>1, <3>2, Zenon DEF TypeOK, CompleteModel, disk, outside, Thrown
    <2>5. CASE model_reset_applied
      <3>1. PICK r \in Pending : commit(WithReset([r EXCEPT !.applied = TRUE]), {}, "idle")
        BY <2>5, Zenon DEF model_reset_applied
      <3>2. WithReset([r EXCEPT !.applied = TRUE]) \in States
        BY <1>0, ResetFields, WithResetState, Zenon
      <3>3. journal' \subseteq Journals /\ pc' \in {"idle", "down", "recover"}
            /\ then' \in {"idle", "complete"}
        BY <3>1, <3>2, CommitType, Zenon
      <3> QED
        BY <2>5, <3>3, Zenon DEF TypeOK, model_reset_applied, store, outside
    <2> QED
      BY <1>3, <2>1, <2>2, <2>3, <2>4, <2>5, Zenon DEF Complete
  <1>4. CASE CompleteHalf
    <2>1. PICK r \in Pending :
             /\ reset_journal' = {r.command.id}
             /\ \/ UNCHANGED <<model, resets>>
                \/ /\ model' = [model EXCEPT !.inspect = FALSE]
                   /\ resets' = resets \union {r.command.id}
      BY <1>4, Zenon DEF CompleteHalf
    <2>2. r.command.id \in CommandIds
      BY <1>0, Zenon DEF Resets, Commands
    <2>3. pc' \in {"idle", "down"} /\ mishaps' \in Nat
      BY <1>4 DEF TypeOK, CompleteHalf, Thrown
    <2>4. /\ model' \in [inspect : BOOLEAN, last : SUBSET Assessments]
          /\ resets' \subseteq CommandIds /\ reset_journal' \subseteq CommandIds
      BY <2>1, <2>2, Zenon DEF TypeOK
    <2> QED
      BY <1>4, <2>3, <2>4, Zenon DEF TypeOK, CompleteHalf, disk, outside
  <1>5. CASE begin_demo_reset
    <2>1. PICK c \in order :
             \/ pc' = "complete" /\ UNCHANGED <<journal, then>>
             \/ commit(WithReset([command |-> c, applied |-> FALSE,
                                  delivered |-> FALSE, ack |-> "NONE"]), {}, "complete")
      BY <1>5, Zenon DEF begin_demo_reset
    <2>2. [command |-> c, applied |-> FALSE, delivered |-> FALSE, ack |-> "NONE"] \in Resets
      BY Zenon DEF TypeOK, Resets
    <2>3. journal' \subseteq Journals /\ pc' \in {"idle", "down", "recover", "complete"}
          /\ then' \in {"idle", "complete"}
      BY <2>1, <2>2, CommitType, WithResetState, Zenon DEF TypeOK
    <2> QED
      BY <1>5, <2>3, Zenon DEF TypeOK, begin_demo_reset, store, outside
  <1>6. CASE reset_ack_expire
    <2>1. PICK r \in Pending : commit(WithReset([r EXCEPT !.ack = "FAILED"]), {}, "idle")
      BY <1>6, Zenon DEF reset_ack_expire
    <2>2. WithReset([r EXCEPT !.ack = "FAILED"]) \in States
      BY <1>0, ResetFields, WithResetState, Zenon
    <2>3. journal' \subseteq Journals /\ pc' \in {"idle", "down", "recover"}
          /\ then' \in {"idle", "complete"}
      BY <2>1, <2>2, CommitType, Zenon
    <2> QED
      BY <1>6, <2>3, Zenon DEF TypeOK, reset_ack_expire, store, outside
  <1>7. CASE reset_ack_post
    <2>1. PICK r \in state_json.reset :
             /\ r.ack # "NONE"
             /\ acks' = acks \union {<<r.command.id, r.ack>>}
             /\ order' \subseteq order
      BY <1>7, Zenon DEF reset_ack_post
    <2>2. <<r.command.id, r.ack>> \in CommandIds \X {"CLEARED", "FAILED", "REJECTED"}
      BY <1>0, <2>1, Zenon DEF Resets, Commands
    <2>3. acks' \subseteq CommandIds \X {"CLEARED", "FAILED", "REJECTED"}
      BY <2>1, <2>2, Zenon DEF TypeOK
    <2> QED
      BY <1>7, <2>1, <2>3, Zenon DEF TypeOK, reset_ack_post, disk, store
  <1>8. CASE reset_acknowledged
    <2>1. PICK r \in state_json.reset :
             commit(WithReset([r EXCEPT !.delivered = TRUE]), {}, "idle")
      BY <1>8, Zenon DEF reset_acknowledged
    <2>2. WithReset([r EXCEPT !.delivered = TRUE]) \in States
      BY <1>0, ResetFields, WithResetState, Zenon
    <2>3. journal' \subseteq Journals /\ pc' \in {"idle", "down", "recover"}
          /\ then' \in {"idle", "complete"}
      BY <2>1, <2>2, CommitType, Zenon
    <2> QED
      BY <1>8, <2>3, Zenon DEF TypeOK, reset_acknowledged, store, outside
  <1>9. CASE next_request_new
    <2>1. PICK d \in Decisions :
             /\ state_json.next <= MaxSequence
             /\ commit([next |-> state_json.next + 1,
                        requests |-> Keep(Append(state_json.requests, NewEntry(d))),
                        reset |-> state_json.reset], {}, "idle")
      BY <1>9, Zenon DEF next_request_new, NewEntry
    <2>2. NewEntry(d) \in Entries
      BY <2>1, NewEntryType, Zenon
    <2>3. Keep(Append(state_json.requests, NewEntry(d))) \in Seq(Entries)
      BY <2>2, KeepAppend, Zenon DEF TypeOK, States
    <2>4. [next |-> state_json.next + 1,
           requests |-> Keep(Append(state_json.requests, NewEntry(d))),
           reset |-> state_json.reset] \in States
      <3>1. state_json \in States
        BY Zenon DEF TypeOK
      <3>2. state_json.next <= MaxSequence
        BY <2>1, Zenon
      <3> QED
        BY ONLY <2>3, <3>1, <3>2, AdvisoryAssumption DEF States
    <2>5. journal' \subseteq Journals /\ pc' \in {"idle", "down", "recover"}
          /\ then' \in {"idle", "complete"}
      BY <2>1, <2>4, CommitType, Zenon
    <2> QED
      BY <1>9, <2>5, Zenon DEF TypeOK, next_request_new, store, outside
  <1>10. CASE next_request
    <2>1. \E d \in Decisions : Fresh(d)
      BY <1>10, Zenon DEF next_request
    <2>2. state_json.requests \in Seq(Entries) /\ state_json.requests # <<>>
      BY <2>1, Zenon DEF Fresh, TypeOK, States
    <2>3. state_json.requests[Len(state_json.requests)] \in Entries
      BY <2>2
    <2>4. sent' \subseteq Requests
      <3>1. sent \subseteq Requests
        BY Zenon DEF TypeOK
      <3> QED
        BY <1>10, <2>3, <3>1, Zenon DEF next_request, Entries
    <2> QED
      BY <1>10, <2>4, Zenon DEF TypeOK, next_request, disk, store
  <1>11. CASE written
    <2>1. PICK i \in DOMAIN state_json.requests :
             commit(Change(i, [state_json.requests[i] EXCEPT !.written = TRUE]), {}, "idle")
      BY <1>11, Zenon DEF written
    <2>2. [state_json.requests[i] EXCEPT !.written = TRUE] \in Entries
      BY <2>1, EntryType, Zenon DEF Entries
    <2>3. journal' \subseteq Journals /\ pc' \in {"idle", "down", "recover"}
          /\ then' \in {"idle", "complete"}
      BY <2>1, <2>2, ChangeState, CommitType, Zenon
    <2> QED
      BY <1>11, <2>3, Zenon DEF TypeOK, written, store, outside
  <1>12. CASE observe
    <2>1. PICK i \in DOMAIN state_json.requests, g \in GatewayStates :
             /\ <<state_json.requests[i].request.sequence, g>> \in answered
             /\ commit(ObservedState(i, g), ObservedFact(i, g), "idle")
      BY <1>12, Zenon DEF observe, ObservedState, ObservedFact, ObservedEntry, Admit, Cleared
    <2>2. ObservedState(i, g) \in States /\ ObservedFact(i, g) \in SUBSET Facts
      BY <2>1, ObservedType, Zenon
    <2>3. journal' \subseteq Journals /\ pc' \in {"idle", "down", "recover"}
          /\ then' \in {"idle", "complete"}
      BY <2>1, <2>2, CommitType, Zenon
    <2> QED
      BY <1>12, <2>3, Zenon DEF TypeOK, observe, store, outside
  <1>13. CASE accept
    BY <1>13, Zenon DEF TypeOK, accept, store, outside
  <1>14. CASE Process
    <2>1. model' \in [inspect : BOOLEAN, last : SUBSET Assessments]
      <3>1. PICK a \in Assessments, band \in {model.inspect, TRUE} :
               model' = [inspect |-> band, last |-> {a}]
        BY <1>14, Zenon DEF Process
      <3>2. band \in BOOLEAN /\ {a} \in SUBSET Assessments
        BY <3>1, Zenon DEF TypeOK
      <3> QED
        BY <3>1, <3>2, Zenon
    <2>2. PICK n \in {1, 2} : derived' \in {derived + n, derived}
      BY <1>14, Zenon DEF Process
    <2>3. derived' \in Nat
      BY <2>2 DEF TypeOK
    <2> QED
      BY <1>14, <2>1, <2>3, Zenon DEF TypeOK, Process, disk, outside
  <1>15. CASE AcknowledgeDerived
    BY <1>15 DEF TypeOK, AcknowledgeDerived, disk, outside
  <1>16. CASE Answer
    <2>1. PICK r \in sent, g \in GatewayStates : answered' = answered \union {<<r.sequence, g>>}
      BY <1>16, Zenon DEF Answer
    <2>2. <<r.sequence, g>> \in Facts
      BY Zenon DEF TypeOK, Requests, Facts
    <2>3. answered' \subseteq Facts
      BY <2>1, <2>2, Zenon DEF TypeOK
    <2> QED
      BY <1>16, <2>3, Zenon DEF TypeOK, Answer, disk, store
  <1>17. CASE StoreFact
    BY <1>17, Zenon DEF TypeOK, StoreFact, disk, store
  <1>18. CASE Issue
    <2>1. PICK id \in CommandIds :
             order' = {[id |-> id, release |-> release, expires |-> now + Lifetime]}
      BY <1>18, Zenon DEF Issue
    <2>2. now + Lifetime \in 0..(Horizon + Lifetime)
      BY DEF TypeOK
    <2>3. order' \subseteq Commands
      BY <2>1, <2>2 DEF TypeOK, Commands
    <2> QED
      BY <1>18, <2>3, Zenon DEF TypeOK, Issue, disk, store
  <1>19. CASE Tick
    BY <1>19 DEF TypeOK, Tick, disk, store, outside
  <1>20. CASE StoreFail
    BY <1>20, Zenon DEF TypeOK, StoreFail, disk, outside
  <1>21. CASE Fault
    <2>1. pc' \in {"idle", "down"} /\ mishaps' \in Nat
      BY <1>21 DEF TypeOK, Fault, Thrown
    <2> QED
      BY <1>21, <2>1, Zenon DEF TypeOK, Fault, disk, store, outside
  <1>22. CASE Crash
    BY <1>22 DEF TypeOK, Crash, disk, store, outside
  <1>23. CASE UNCHANGED vars
    BY <1>23, Zenon DEF TypeOK, vars, disk, store, outside
  <1> QED
    BY <1>1, <1>2, <1>3, <1>4, <1>5, <1>6, <1>7, <1>8, <1>9, <1>10, <1>11, <1>12,
       <1>13, <1>14, <1>15, <1>16, <1>17, <1>18, <1>19, <1>20, <1>21, <1>22, <1>23, Zenon
       DEF Next

\* The first process starts with files of this form.
LEMMA InitType == Init => TypeOK
  <1> SUFFICES ASSUME Init PROVE TypeOK
    BY Zenon
  <1>1. state_json \in States
    BY AdvisoryAssumption DEF Init, States
  <1>2. release \in Releases
    BY AdvisoryAssumption, Zenon DEF Init
  <1>3. model \in [inspect : BOOLEAN, last : SUBSET Assessments]
    BY Zenon DEF Init
  <1>4. now \in 0..Horizon /\ derived \in Nat /\ mishaps \in Nat
    BY AdvisoryAssumption DEF Init
  <1> QED
    BY <1>1, <1>2, <1>3, <1>4, Zenon DEF Init, TypeOK

\* Spec keeps the form of state.json, of the journal and of everything the
\* advisory runtime exchanges with gateway and backend.
THEOREM TypeCorrect == Spec => []TypeOK
  BY InitType, TypeStep, PTL DEF Spec

-----------------------------------------------------------------------------
(* The inductive invariant                                                 *)

\* The requests of a state, and the states that a recovery can leave.
RequestsOf(s) == {s.requests[i].request : i \in DOMAIN s.requests}
AfterStates == {state_json} \union {j.after : j \in journal}

\* Each admitted status of s has its fact in F.
FactsIn(s, F) ==
    \A i \in DOMAIN s.requests : \A g \in s.requests[i].admitted :
        <<s.requests[i].request.sequence, g>> \in F
Safe == outbox \union stored \union UNION {j.fact : j \in journal}

\* The reset of a command was carried out, and the gateway has answered the
\* CLEAR that was sent for it.
Real(id) ==
    /\ id \in resets
    /\ \E r \in sent : /\ r.clear /\ r.decision = id
                       /\ <<r.sequence, "CLEARED">> \in answered

\* There is one journal; its facts are in the outbox before it is removed.
FactInv ==
    /\ \A j, k \in journal : j = k
    /\ pc = "remove" => \A j \in journal : j.fact \subseteq outbox
    /\ \A s \in AfterStates : FactsIn(s, Safe)

\* Numbers in use are below the next one, and a recovery does not lower it.
RequestInv ==
    /\ \A a \in sent : a.sequence < state_json.next
    /\ \A j \in journal : state_json.next <= j.after.next
    /\ \A s \in AfterStates : \A a \in RequestsOf(s) :
          /\ a.sequence < s.next
          /\ a.clear => a.decision \in resets
          /\ \A b \in sent : a.sequence = b.sequence => a = b
          /\ \A t \in AfterStates : \A b \in RequestsOf(t) :
                a.sequence = b.sequence => a = b
    /\ OneRequestPerSequence

\* A command counts as reset, and as cleared, only if it was; what the
\* backend has been told agrees with every state a recovery can leave.
ResetInv ==
    /\ pc = "applied" => \A r \in Pending : r.command.id \in resets
    /\ \A s \in AfterStates : \A r \in s.reset :
          /\ \A q \in s.reset : q = r
          /\ r.applied => r.command.id \in resets
          /\ r.ack = "CLEARED" => Real(r.command.id)
          /\ \A a \in acks : a[1] = r.command.id => a[2] = r.ack
    /\ \A j \in journal : \A r \in state_json.reset, q \in j.after.reset :
          r.command.id = q.command.id /\ r.ack # "NONE" => q.ack = r.ack
    /\ \A a \in acks : a[2] = "CLEARED" => Real(a[1])
    /\ \A c \in order : \A a \in acks : a[1] # c.id
    /\ OneAnswer

\* The gateway answers only what it was sent.
AnswerInv == \A a \in answered : \E r \in sent : r.sequence = a[1]

RuntimeInv == TypeOK /\ FactInv /\ RequestInv /\ ResetInv /\ AnswerInv

\* The types the steps of the runtime rely on: an acknowledgement that was
\* published says how the reset ended.
LEMMA RuntimeTypes ==
    ASSUME RuntimeInv
    PROVE  /\ state_json \in States /\ state_json.requests \in Seq(Entries)
           /\ state_json.next \in Nat
           /\ \A a \in acks : a[2] # "NONE"
  <1>1. state_json \in States
    BY Zenon DEF RuntimeInv, TypeOK
  <1>2. acks \subseteq CommandIds \X {"CLEARED", "FAILED", "REJECTED"}
    BY Zenon DEF RuntimeInv, TypeOK
  <1>3. \A a \in acks : a[2] # "NONE"
    BY ONLY <1>2, Zenon
  <1> QED
    BY ONLY <1>1, <1>3 DEF States

-----------------------------------------------------------------------------
(* Commits                                                                 *)

\* What a commit owes: the state it is to leave has its facts, only numbers
\* that are known or new, and a reset that agrees with what was said of it.
Sound(after, fact) ==
    /\ FactsIn(after, outbox \union stored \union fact)
    /\ state_json.next <= after.next
    /\ \A a \in RequestsOf(after) :
          /\ a.sequence < after.next
          /\ a.clear => a.decision \in resets
          /\ \A b \in sent \union RequestsOf(state_json) \union RequestsOf(after) :
                a.sequence = b.sequence => a = b
    /\ \A r \in after.reset :
          /\ \A q \in after.reset : q = r
          /\ r.applied => r.command.id \in resets
          /\ r.ack = "CLEARED" => Real(r.command.id)
          /\ \A a \in acks : a[1] = r.command.id => a[2] = r.ack
          /\ \A q \in state_json.reset :
                q.command.id = r.command.id /\ q.ack # "NONE" => r.ack = q.ack

\* A commit that owes nothing more keeps the invariant, whether it publishes
\* its journal or finds another one in the way.
LEMMA CommitStep ==
    ASSUME FactInv, RequestInv, ResetInv,
           NEW after, NEW fact, NEW c \in {"idle", "complete"}, commit(after, fact, c),
           journal = {} => Sound(after, fact),
           UNCHANGED <<state_json, outbox, stored, sent, resets, answered, acks, order>>
    PROVE  FactInv' /\ RequestInv' /\ ResetInv'
  <1>0. /\ pc' \notin {"remove", "applied"}
        /\ \A id : Real(id)' <=> Real(id)
        /\ OneRequestPerSequence' <=> OneRequestPerSequence
        /\ OneAnswer' <=> OneAnswer
    BY Zenon DEF commit, Thrown, Real, OneRequestPerSequence, OneAnswer
  <1>1. CASE journal # {}
    <2>1. UNCHANGED journal
      BY <1>1, Zenon DEF commit
    <2>2. Safe' = Safe /\ AfterStates' = AfterStates
      BY <2>1, Zenon DEF Safe, AfterStates
    <2>3. FactInv'
      BY <1>0, <2>1, <2>2, Zenon DEF FactInv
    <2>4. RequestInv'
      BY <1>0, <2>1, <2>2, Zenon DEF RequestInv
    <2>5. ResetInv'
      BY <1>0, <2>1, <2>2, Zenon DEF ResetInv
    <2> QED
      BY <2>3, <2>4, <2>5, Zenon
  <1>2. CASE journal = {}
    <2> DEFINE j == [before |-> state_json, after |-> after, fact |-> fact]
    <2>1. journal' = {j} /\ j.after = after /\ j.fact = fact
      BY <1>2, Zenon DEF commit
    <2> HIDE DEF j
    <2>2. /\ Safe = outbox \union stored
          /\ Safe' = outbox \union stored \union fact
          /\ AfterStates = {state_json} /\ AfterStates' = {state_json, after}
      BY <1>2, <2>1, Zenon DEF Safe, AfterStates
    <2>3. Sound(after, fact)
      BY <1>2, Zenon
    <2>4. FactInv'
      <3>1. FactsIn(state_json, Safe')
        BY <2>2, Zenon DEF FactInv, FactsIn
      <3>2. FactsIn(after, Safe')
        BY <2>2, <2>3, Zenon DEF Sound
      <3> QED
        BY <1>0, <2>1, <2>2, <3>1, <3>2, Zenon DEF FactInv
    <2>5. RequestInv'
      BY <1>0, <2>1, <2>2, <2>3 DEF RequestInv, Sound
    <2>6. ResetInv'
      BY <1>0, <2>1, <2>2, <2>3 DEF ResetInv, Sound
    <2> QED
      BY <2>4, <2>5, <2>6, Zenon
  <1> QED
    BY <1>1, <1>2, Zenon

\* A commit that only changes the reset owes what it says of the reset.
LEMMA ResetSound ==
    ASSUME RuntimeInv, journal = {}, NEW r \in Resets,
           r.applied => r.command.id \in resets,
           r.ack = "CLEARED" => Real(r.command.id),
           \A a \in acks : a[1] = r.command.id => a[2] = r.ack,
           \A q \in state_json.reset :
              q.command.id = r.command.id /\ q.ack # "NONE" => r.ack = q.ack
    PROVE  Sound(WithReset(r), {})
  <1> DEFINE after == WithReset(r)
  <1>1. after.next = state_json.next /\ after.requests = state_json.requests
        /\ after.reset = {r}
    BY WithResetState, Zenon DEF RuntimeInv
  <1> HIDE DEF after
  <1>2. Safe = outbox \union stored /\ AfterStates = {state_json}
    BY Zenon DEF Safe, AfterStates
  <1>3. FactsIn(after, outbox \union stored \union {})
    BY <1>1, <1>2, Zenon DEF RuntimeInv, FactInv, FactsIn
  <1>4. RequestsOf(after) = RequestsOf(state_json)
    BY <1>1, Zenon DEF RequestsOf
  <1>5. state_json.next <= after.next
    BY <1>1 DEF RuntimeInv, TypeOK, States
  <1>6. Sound(after, {})
    BY <1>1, <1>2, <1>3, <1>4, <1>5, Zenon DEF RuntimeInv, RequestInv, Sound
  <1> QED
    BY <1>6, Zenon DEF after

\* A commit that replaces an entry and keeps its request owes the facts of
\* the new entry, and what it says of the reset.
LEMMA EntrySound ==
    ASSUME RuntimeInv, journal = {}, NEW after, NEW fact,
           NEW i \in DOMAIN state_json.requests, NEW e \in Entries,
           after.next = state_json.next, after.requests = Change(i, e).requests,
           e.request = state_json.requests[i].request,
           \A g \in e.admitted : <<e.request.sequence, g>> \in outbox \union stored \union fact,
           \A r \in after.reset :
              /\ \A q \in after.reset : q = r
              /\ r.applied => r.command.id \in resets
              /\ r.ack = "CLEARED" => Real(r.command.id)
              /\ \A a \in acks : a[1] = r.command.id => a[2] = r.ack
              /\ \A q \in state_json.reset :
                    q.command.id = r.command.id /\ q.ack # "NONE" => r.ack = q.ack
    PROVE  Sound(after, fact)
  <1>1. /\ DOMAIN after.requests = DOMAIN state_json.requests
        /\ after.requests[i] = e
        /\ \A k \in DOMAIN state_json.requests \ {i} :
              after.requests[k] = state_json.requests[k]
    BY ChangeState DEF RuntimeInv
  <1>2. Safe = outbox \union stored /\ AfterStates = {state_json}
    BY Zenon DEF Safe, AfterStates
  <1>3. FactsIn(after, outbox \union stored \union fact)
    BY <1>1, <1>2, Zenon DEF RuntimeInv, FactInv, FactsIn
  <1>4. RequestsOf(after) = RequestsOf(state_json)
    BY <1>1 DEF RequestsOf
  <1>5. state_json.next <= after.next
    BY RuntimeTypes
  <1> QED
    BY <1>2, <1>3, <1>4, <1>5, Zenon DEF RuntimeInv, RequestInv, Sound

\* A step that leaves state.json, the journal, the requests sent and the
\* answers given alone, and loses no fact, keeps the invariant.
LEMMA QuietStep ==
    ASSUME FactInv, RequestInv, ResetInv,
           UNCHANGED <<state_json, journal, sent, acks>>,
           outbox \union stored \subseteq outbox' \union stored',
           resets \subseteq resets', answered \subseteq answered',
           \A c \in order' : \A a \in acks : a[1] # c.id,
           pc' = "remove" => \A j \in journal : j.fact \subseteq outbox',
           pc' = "applied" => \A r \in Pending : r.command.id \in resets'
    PROVE  FactInv' /\ RequestInv' /\ ResetInv'
  <1>1. /\ Safe \subseteq Safe' /\ AfterStates' = AfterStates /\ Pending' = Pending
        /\ \A id : Real(id) => Real(id)'
        /\ OneRequestPerSequence' <=> OneRequestPerSequence
        /\ OneAnswer' <=> OneAnswer
    BY Zenon DEF Safe, AfterStates, Pending, Real, OneRequestPerSequence, OneAnswer
  <1>2. FactInv'
    <2>1. ASSUME NEW t \in AfterStates PROVE FactsIn(t, Safe')
      BY <1>1, Zenon DEF FactInv, FactsIn
    <2> QED
      BY <1>1, <2>1, Zenon DEF FactInv
  <1>3. RequestInv'
    BY <1>1 DEF RequestInv
  <1>4. ResetInv'
    BY <1>1, Zenon DEF ResetInv
  <1> QED
    BY <1>2, <1>3, <1>4, Zenon

-----------------------------------------------------------------------------
(* The steps                                                               *)

\* The steps of recover().
LEMMA RecoverSteps ==
    ASSUME RuntimeInv, Step
    PROVE  FactInv' /\ RequestInv' /\ ResetInv'
  <1>1. CASE Recover
    <2>1. pc' \notin {"remove", "applied"}
      BY <1>1, Zenon DEF Recover, Thrown
    <2> QED
      BY <1>1, <2>1, QuietStep, Zenon DEF RuntimeInv, ResetInv, Recover, disk, store, outside
  <1>2. CASE RecoverState
    <2>1. PICK j \in journal : state_json' = j.after
      BY <1>2, Zenon DEF RecoverState
    <2>2. /\ pc' = "fact"
          /\ UNCHANGED <<journal, outbox, stored, sent, resets, answered, acks, order>>
      BY <1>2, Zenon DEF RecoverState, store, outside
    <2>3. /\ Safe' = Safe /\ AfterStates' = {j.after} /\ j.after \in AfterStates
          /\ \A id : Real(id)' <=> Real(id)
          /\ OneRequestPerSequence' <=> OneRequestPerSequence
          /\ OneAnswer' <=> OneAnswer
          /\ journal = {j}
      BY <2>1, <2>2, Zenon DEF RuntimeInv, FactInv, Safe, AfterStates, Real,
                        OneRequestPerSequence, OneAnswer
    <2>4. FactInv'
      BY <2>1, <2>2, <2>3, Zenon DEF RuntimeInv, FactInv
    <2>5. RequestInv'
      <3>1. j.after.next \in Nat /\ state_json.next \in Nat /\ state_json.next <= j.after.next
        BY <2>1 DEF RuntimeInv, RequestInv, TypeOK, Journals, States
      <3>2. \A a \in sent : a.sequence \in Nat /\ a.sequence < state_json.next
        BY DEF RuntimeInv, RequestInv, TypeOK, Requests
      <3>3. \A a \in sent : a.sequence < j.after.next
        BY <3>1, <3>2
      <3>4. j.after.next <= j.after.next
        BY <3>1
      <3> QED
        BY <2>1, <2>2, <2>3, <3>3, <3>4 DEF RuntimeInv, RequestInv
    <2>6. ResetInv'
      <3>1. \A r, q \in j.after.reset : r = q
        BY <2>3, Zenon DEF RuntimeInv, ResetInv
      <3> QED
        BY <2>1, <2>2, <2>3, <3>1, Zenon DEF RuntimeInv, ResetInv
    <2> QED
      BY <2>4, <2>5, <2>6, Zenon
  <1>3. CASE RecoverFact
    <2>1. PICK j \in journal : outbox' = outbox \union j.fact
      BY <1>3, Zenon DEF RecoverFact
    <2>2. \A k \in journal : k.fact \subseteq outbox'
      BY <2>1, Zenon DEF RuntimeInv, FactInv
    <2>3. pc' = "remove"
          /\ UNCHANGED <<state_json, journal, stored, sent, resets, answered, acks, order>>
      BY <1>3, Zenon DEF RecoverFact, store, outside
    <2> QED
      BY <2>1, <2>2, <2>3, QuietStep, Zenon DEF RuntimeInv, ResetInv
  <1>4. CASE RemoveJournal
    <2>1. /\ journal' = {} /\ pc' \in {"idle", "complete"}
          /\ UNCHANGED <<state_json, outbox, stored, sent, resets, answered, acks, order>>
      BY <1>4, Zenon DEF RemoveJournal, store, outside, RuntimeInv, TypeOK
    <2>2. \A j \in journal : j.fact \subseteq outbox
      BY <1>4, Zenon DEF RuntimeInv, FactInv, RemoveJournal
    <2>3. /\ Safe \subseteq outbox \union stored /\ Safe' = outbox \union stored
          /\ AfterStates' = {state_json} /\ state_json \in AfterStates
          /\ \A id : Real(id)' <=> Real(id)
          /\ OneRequestPerSequence' <=> OneRequestPerSequence
          /\ OneAnswer' <=> OneAnswer
      BY <2>1, <2>2, Zenon DEF Safe, AfterStates, Real, OneRequestPerSequence, OneAnswer
    <2>4. FactInv'
      <3>1. FactsIn(state_json, Safe')
        BY <2>3, Zenon DEF RuntimeInv, FactInv, FactsIn
      <3> QED
        BY <2>1, <2>3, <3>1, Zenon DEF RuntimeInv, FactInv
    <2>5. RequestInv'
      BY <2>1, <2>3 DEF RuntimeInv, RequestInv
    <2>6. ResetInv'
      BY <2>1, <2>3, Zenon DEF RuntimeInv, ResetInv
    <2> QED
      BY <2>4, <2>5, <2>6, Zenon
  <1> QED
    BY <1>1, <1>2, <1>3, <1>4, Zenon DEF Step

\* The steps of a demo reset: what is pending has no answer yet.
LEMMA CompleteSteps ==
    ASSUME RuntimeInv, Complete \/ CompleteHalf
    PROVE  FactInv' /\ RequestInv' /\ ResetInv'
  <1>0. ASSUME NEW r \in Pending
        PROVE  /\ r \in Resets /\ r \in state_json.reset /\ r.ack = "NONE"
               /\ \A q \in state_json.reset : q = r
               /\ r.applied => r.command.id \in resets
               /\ \A a \in acks : a[1] # r.command.id
    <2>1. r \in state_json.reset /\ r.ack = "NONE" /\ state_json \in AfterStates
      BY Zenon DEF Pending, AfterStates
    <2>2. \A a \in acks : a[2] # "NONE"
      BY RuntimeTypes, Zenon
    <2> QED
      BY <2>1, <2>2, RuntimeTypes, Zenon DEF RuntimeInv, ResetInv, States
  <1>1. CASE CompleteNothing
    BY <1>1, QuietStep, Zenon DEF RuntimeInv, ResetInv, CompleteNothing, disk, store, outside
  <1>2. CASE CompleteReject
    <2>1. PICK r \in Pending : commit(WithReset([r EXCEPT !.ack = "REJECTED"]), {}, "idle")
      BY <1>2, Zenon DEF CompleteReject
    <2>2. journal = {} => Sound(WithReset([r EXCEPT !.ack = "REJECTED"]), {})
      <3> DEFINE n == [r EXCEPT !.ack = "REJECTED"]
      <3>1. /\ n \in Resets /\ n.command = r.command /\ n.ack = "REJECTED"
            /\ n.applied => r.command.id \in resets
        BY <1>0, ResetFields, Zenon
      <3> HIDE DEF n
      <3>2. journal = {} => Sound(WithReset(n), {})
        BY <1>0, <3>1, ResetSound, Zenon
      <3> QED
        BY <3>2, Zenon DEF n
    <2> QED
      BY <1>2, <2>1, <2>2, CommitStep, Zenon DEF RuntimeInv, CompleteReject, store, outside
  <1>3. CASE CompleteFail
    <2>1. PICK r \in Pending : commit(WithReset([r EXCEPT !.ack = "FAILED"]), {}, "idle")
      BY <1>3, Zenon DEF CompleteFail
    <2>2. journal = {} => Sound(WithReset([r EXCEPT !.ack = "FAILED"]), {})
      <3> DEFINE n == [r EXCEPT !.ack = "FAILED"]
      <3>1. /\ n \in Resets /\ n.command = r.command /\ n.ack = "FAILED"
            /\ n.applied => r.command.id \in resets
        BY <1>0, ResetFields, Zenon
      <3> HIDE DEF n
      <3>2. journal = {} => Sound(WithReset(n), {})
        BY <1>0, <3>1, ResetSound, Zenon
      <3> QED
        BY <3>2, Zenon DEF n
    <2> QED
      BY <1>3, <2>1, <2>2, CommitStep, Zenon DEF RuntimeInv, CompleteFail, store, outside
  <1>4. CASE CompleteModel
    <2>1. PICK r \in Pending :
             \/ resets' = resets \union {r.command.id} /\ pc' = "applied"
             \/ Thrown /\ UNCHANGED resets
      BY <1>4, Zenon DEF CompleteModel
    <2>2. pc' = "applied" => \A q \in Pending : q.command.id \in resets'
      <3>1. \A q \in Pending : q = r
        BY <1>0, Zenon
      <3> QED
        BY <2>1, <3>1, Zenon DEF Thrown
    <2>3. pc' # "remove" /\ resets \subseteq resets'
      BY <2>1, Zenon DEF Thrown
    <2> QED
      BY <1>4, <2>2, <2>3, QuietStep, Zenon DEF RuntimeInv, ResetInv, CompleteModel, disk, outside
  <1>5. CASE model_reset_applied
    <2>1. PICK r \in Pending : commit(WithReset([r EXCEPT !.applied = TRUE]), {}, "idle")
      BY <1>5, Zenon DEF model_reset_applied
    <2>2. r.command.id \in resets
      BY <1>5, Zenon DEF model_reset_applied, RuntimeInv, ResetInv
    <2>3. journal = {} => Sound(WithReset([r EXCEPT !.applied = TRUE]), {})
      <3> DEFINE n == [r EXCEPT !.applied = TRUE]
      <3>1. r \in Resets /\ r.ack = "NONE"
        BY <1>0, Zenon
      <3>2. n \in Resets /\ n.command = r.command /\ n.ack = "NONE"
        BY <3>1, ResetFields, Zenon
      <3> HIDE DEF n
      <3>3. journal = {} => Sound(WithReset(n), {})
        BY <1>0, <2>2, <3>2, ResetSound, Zenon
      <3> QED
        BY <3>3, Zenon DEF n
    <2> QED
      BY <1>5, <2>1, <2>3, CommitStep, Zenon DEF RuntimeInv, model_reset_applied, store, outside
  <1>6. CASE CompleteHalf
    <2>1. pc' \in {"idle", "down"} /\ resets \subseteq resets'
      BY <1>6, Zenon DEF CompleteHalf, Thrown
    <2> QED
      BY <1>6, <2>1, QuietStep, Zenon DEF RuntimeInv, ResetInv, CompleteHalf, disk, outside
  <1> QED
    BY <1>1, <1>2, <1>3, <1>4, <1>5, <1>6, Zenon DEF Complete

\* The command, its deadline and its answer.
LEMMA CommandSteps ==
    ASSUME RuntimeInv,
           begin_demo_reset \/ reset_ack_expire \/ reset_ack_post \/ reset_acknowledged
    PROVE  FactInv' /\ RequestInv' /\ ResetInv'
  <1>0. ASSUME NEW r \in state_json.reset
        PROVE  /\ r \in Resets
               /\ \A q \in state_json.reset : q = r
               /\ r.applied => r.command.id \in resets
               /\ r.ack = "CLEARED" => Real(r.command.id)
               /\ \A a \in acks : a[1] = r.command.id => a[2] = r.ack
    BY Zenon DEF RuntimeInv, ResetInv, AfterStates, TypeOK, States
  <1>1. CASE begin_demo_reset
    <2>1. PICK c \in order :
             \/ pc' = "complete" /\ UNCHANGED <<journal, then>>
             \/ /\ \A r \in state_json.reset : r.command.id # c.id
                /\ commit(WithReset([command |-> c, applied |-> FALSE,
                                     delivered |-> FALSE, ack |-> "NONE"]), {}, "complete")
      BY <1>1, Zenon DEF begin_demo_reset
    <2>2. UNCHANGED <<state_json, outbox, stored, sent, resets, answered, acks, order>>
      BY <1>1, Zenon DEF begin_demo_reset, store, outside
    <2>3. CASE pc' = "complete" /\ UNCHANGED <<journal, then>>
      BY <2>2, <2>3, QuietStep, Zenon DEF RuntimeInv, ResetInv
    <2> DEFINE n == [command |-> c, applied |-> FALSE, delivered |-> FALSE, ack |-> "NONE"]
    <2>4. CASE /\ \A r \in state_json.reset : r.command.id # c.id
               /\ commit(WithReset(n), {}, "complete")
      <3>1. /\ n \in Resets /\ n.command.id = c.id /\ ~n.applied
            /\ n.ack = "NONE"
        BY Zenon DEF RuntimeInv, TypeOK, Resets
      <3>2. \A a \in acks : a[1] # c.id
        BY Zenon DEF RuntimeInv, ResetInv
      <3> HIDE DEF n
      <3>3. journal = {} => Sound(WithReset(n), {})
        BY <2>4, <3>1, <3>2, ResetSound, Zenon
      <3> QED
        BY <2>2, <2>4, <3>3, CommitStep, Zenon DEF RuntimeInv
    <2> QED
      BY <2>1, <2>3, <2>4, Zenon
  <1>2. CASE reset_ack_expire
    <2>1. PICK r \in Pending : commit(WithReset([r EXCEPT !.ack = "FAILED"]), {}, "idle")
      BY <1>2, Zenon DEF reset_ack_expire
    <2> DEFINE n == [r EXCEPT !.ack = "FAILED"]
    <2>2. r \in state_json.reset /\ r.ack = "NONE"
      BY Zenon DEF Pending
    <2>3. /\ n \in Resets /\ n.command = r.command /\ n.ack = "FAILED"
          /\ n.applied => r.command.id \in resets
      BY <1>0, <2>2, ResetFields, Zenon
    <2>4. \A a \in acks : a[1] # r.command.id
      <3>1. \A a \in acks : a[2] # "NONE"
        BY Zenon DEF RuntimeInv, TypeOK
      <3> QED
        BY <1>0, <2>2, <3>1, Zenon
    <2> HIDE DEF n
    <2>5. journal = {} => Sound(WithReset(n), {})
      BY <1>0, <2>2, <2>3, <2>4, ResetSound, Zenon
    <2>6. commit(WithReset(n), {}, "idle")
      BY <2>1, Zenon DEF n
    <2> QED
      BY <1>2, <2>5, <2>6, CommitStep, Zenon DEF RuntimeInv, reset_ack_expire, store, outside
  <1>3. CASE reset_ack_post
    <2>1. PICK r \in state_json.reset :
             /\ r.ack # "NONE"
             /\ acks' = acks \union {<<r.command.id, r.ack>>}
             /\ order' = {c \in order : c.id # r.command.id}
      BY <1>3, Zenon DEF reset_ack_post
    <2>2. /\ pc' = pc /\ pc = "idle"
          /\ UNCHANGED <<state_json, journal, outbox, stored, sent, resets, answered>>
      BY <1>3, Zenon DEF reset_ack_post, disk, store
    <2>3. /\ AfterStates' = AfterStates /\ Safe' = Safe
          /\ \A id : Real(id)' <=> Real(id)
          /\ OneRequestPerSequence' <=> OneRequestPerSequence
      BY <2>2, Zenon DEF AfterStates, Safe, Real, OneRequestPerSequence
    <2>4. FactInv' /\ RequestInv'
      BY <2>2, <2>3 DEF RuntimeInv, FactInv, RequestInv
    <2>5. ResetInv'
      <3>1. ASSUME NEW t \in AfterStates, NEW q \in t.reset, q.command.id = r.command.id
            PROVE  q.ack = r.ack
        <4>1. CASE t = state_json
          BY <1>0, <3>1, <4>1, Zenon
        <4>2. CASE \E j \in journal : t = j.after
          BY <2>1, <3>1, <4>2 DEF RuntimeInv, ResetInv
        <4> QED
          BY <4>1, <4>2, Zenon DEF AfterStates
      <3>2. \A a \in acks' : a \in acks \/ (a[1] = r.command.id /\ a[2] = r.ack)
        BY <2>1
      <3>3. OneAnswer'
        <4>1. OneAnswer /\ \A a \in acks : a[1] = r.command.id => a[2] = r.ack
          BY <1>0, <2>1, Zenon DEF RuntimeInv, ResetInv
        <4> QED
          BY ONLY <3>2, <4>1 DEF OneAnswer
      <3>4. \A t \in AfterStates' : \A q \in t.reset :
                \A a \in acks' : a[1] = q.command.id => a[2] = q.ack
        BY <2>3, <3>1, <3>2 DEF RuntimeInv, ResetInv
      <3>5. \A a \in acks' : a[2] = "CLEARED" => Real(a[1])'
        BY <1>0, <2>1, <2>3, <3>2, Zenon DEF RuntimeInv, ResetInv
      <3>6. \A c \in order' : \A a \in acks' : a[1] # c.id
        BY <2>1, <3>2, Zenon DEF RuntimeInv, ResetInv
      <3> QED
        BY <2>2, <2>3, <3>3, <3>4, <3>5, <3>6, Zenon DEF RuntimeInv, ResetInv
    <2> QED
      BY <2>4, <2>5, Zenon
  <1>4. CASE reset_acknowledged
    <2>1. PICK r \in state_json.reset :
             commit(WithReset([r EXCEPT !.delivered = TRUE]), {}, "idle")
      BY <1>4, Zenon DEF reset_acknowledged
    <2> DEFINE n == [r EXCEPT !.delivered = TRUE]
    <2>2. /\ n \in Resets /\ n.command = r.command /\ n.ack = r.ack
          /\ n.applied = r.applied
      BY <1>0, ResetFields, Zenon
    <2> HIDE DEF n
    <2>3. journal = {} => Sound(WithReset(n), {})
      BY <1>0, <2>2, ResetSound, Zenon
    <2>4. commit(WithReset(n), {}, "idle")
      BY <2>1, Zenon DEF n
    <2> QED
      BY <1>4, <2>3, <2>4, CommitStep, Zenon DEF RuntimeInv, reset_acknowledged, store, outside
  <1> QED
    BY <1>1, <1>2, <1>3, <1>4, Zenon

\* Requests and the gateway's answers.
LEMMA RequestSteps ==
    ASSUME RuntimeInv, next_request_new \/ next_request \/ written \/ observe
    PROVE  FactInv' /\ RequestInv' /\ ResetInv'
  <1> USE AdvisoryAssumption
  <1>0. /\ state_json \in AfterStates /\ state_json \in States
        /\ state_json.requests \in Seq(Entries) /\ state_json.next \in Nat
    BY RuntimeTypes, Zenon DEF AfterStates
  <1>r. ASSUME NEW r \in state_json.reset
        PROVE  /\ r \in Resets
               /\ \A q \in state_json.reset : q = r
               /\ r.applied => r.command.id \in resets
               /\ r.ack = "CLEARED" => Real(r.command.id)
               /\ \A a \in acks : a[1] = r.command.id => a[2] = r.ack
    BY <1>0, Zenon DEF RuntimeInv, ResetInv, States
  <1>1. CASE next_request_new
    <2> DEFINE after(d) == [next |-> state_json.next + 1,
                            requests |-> Keep(Append(state_json.requests, NewEntry(d))),
                            reset |-> state_json.reset]
    <2>1. PICK d \in Decisions :
             /\ state_json.next <= MaxSequence
             /\ commit(after(d), {}, "idle")
      BY <1>1, Zenon DEF next_request_new, NewEntry
    <2> DEFINE e == NewEntry(d)
               p == Keep(Append(state_json.requests, e))
    <2>2. e \in Entries /\ e.request.sequence = state_json.next /\ e.admitted = {}
          /\ e.request.clear = d.clear /\ e.request.decision = d.decision
      BY <2>1, NewEntryType, Zenon DEF RuntimeInv
    <2>3. \A i \in DOMAIN p : p[i] = e \/ \E k \in DOMAIN state_json.requests :
                                              p[i] = state_json.requests[k]
      <3> HIDE DEF e
      <3>1. state_json.requests \in Seq(Entries) /\ e \in Entries /\ Kept \in Nat \ {0}
        BY <1>0, <2>2, AdvisoryAssumption, Zenon
      <3> QED
        BY ONLY <3>1, KeepAppend
    <2>4. d.clear => d.decision \in resets
      <3>1. CASE Pending # {}
        <4>1. PICK r \in Pending : d = [clear |-> TRUE, decision |-> r.command.id] /\ r.applied
          BY <3>1, Zenon DEF Decisions
        <4> QED
          BY <1>r, <4>1, Zenon DEF Pending
      <3>2. CASE Pending = {}
        BY <3>2 DEF Decisions
      <3> QED
        BY <3>1, <3>2, Zenon
    <2>5. ASSUME journal = {} PROVE Sound(after(d), {})
      <3>1. Safe = outbox \union stored
        BY <2>5, Zenon DEF Safe
      <3> DEFINE t == after(d)
      <3>2. /\ t.next = state_json.next + 1 /\ t.requests = p
            /\ t.reset = state_json.reset
        BY Zenon
      <3> HIDE DEF t, p, e
      <3>3. FactsIn(t, outbox \union stored \union {})
        <4>1. FactsIn(state_json, outbox \union stored)
          BY <1>0, <3>1, Zenon DEF RuntimeInv, FactInv
        <4> QED
          BY ONLY <2>2, <2>3, <3>2, <4>1, Zenon DEF FactsIn
      <3>4. \A a \in RequestsOf(t) : a = e.request \/ a \in RequestsOf(state_json)
        BY ONLY <2>3, <3>2 DEF RequestsOf
      <3>5. \A b \in sent \union RequestsOf(state_json) :
               b.sequence \in Nat /\ b.sequence < state_json.next
        <4>1. \A b \in RequestsOf(state_json) : b \in Requests
          <5>1. \A x \in Entries : x.request \in Requests
            BY Zenon DEF Entries
          <5>2. \A k \in DOMAIN state_json.requests : state_json.requests[k] \in Entries
            BY EntryType, Zenon DEF RuntimeInv
          <5> QED
            BY <5>1, <5>2, Zenon DEF RequestsOf
        <4>2. \A b \in sent : b \in Requests /\ b.sequence < state_json.next
          BY Zenon DEF RuntimeInv, RequestInv, TypeOK
        <4>3. \A b \in RequestsOf(state_json) : b.sequence < state_json.next
          BY <1>0, Zenon DEF RuntimeInv, RequestInv
        <4>4. \A b \in Requests : b.sequence \in Nat
          BY DEF Requests
        <4> QED
          BY <4>1, <4>2, <4>3, <4>4, Zenon
      <3>6. \A a \in RequestsOf(state_json) :
               /\ a.clear => a.decision \in resets
               /\ \A b \in sent \union RequestsOf(state_json) : a.sequence = b.sequence => a = b
        BY <1>0, Zenon DEF RuntimeInv, RequestInv
      <3>7. \A a \in RequestsOf(t) :
               /\ a.sequence < t.next
               /\ a.clear => a.decision \in resets
               /\ \A b \in sent \union RequestsOf(state_json) \union RequestsOf(t) :
                     a.sequence = b.sequence => a = b
        <4> SUFFICES ASSUME NEW a \in RequestsOf(t)
                     PROVE  /\ a.sequence < t.next
                            /\ a.clear => a.decision \in resets
                            /\ \A b \in sent \union RequestsOf(state_json) \union {e.request} :
                                  a.sequence = b.sequence => a = b
          BY <3>4, Zenon
        <4>1. t.next = state_json.next + 1
          BY <3>2, Zenon
        <4>2. CASE a = e.request
          BY <1>0, <2>2, <2>4, <3>5, <4>1, <4>2
        <4>3. CASE a \in RequestsOf(state_json)
          BY <1>0, <2>2, <3>5, <3>6, <4>1, <4>3
        <4> QED
          BY <3>4, <4>2, <4>3, Zenon
      <3>8. state_json.next <= t.next /\ t.reset = state_json.reset
        BY <1>0, <3>2
      <3>9. \A r, q \in state_json.reset : r = q
        BY <1>r, Zenon
      <3>10. Sound(t, {})
        BY <1>r, <3>3, <3>7, <3>8, <3>9, Zenon DEF Sound
      <3> QED
        BY ONLY <3>10, Zenon DEF t
    <2>6. UNCHANGED <<state_json, outbox, stored, sent, resets, answered, acks, order>>
      BY <1>1, Zenon DEF next_request_new, store, outside
    <2> HIDE DEF after
    <2> QED
      BY <2>1, <2>5, <2>6, CommitStep, Zenon DEF RuntimeInv
  <1>2. CASE next_request
    <2> DEFINE n == state_json.requests[Len(state_json.requests)].request
    <2>1. sent' = sent \union {n}
      BY <1>2, Zenon DEF next_request
    <2>2. n \in RequestsOf(state_json)
      <3>1. state_json.requests # <<>>
        BY <1>2, Zenon DEF next_request, Fresh
      <3>2. Len(state_json.requests) \in DOMAIN state_json.requests
        BY <1>0, <3>1
      <3> QED
        BY <3>2, Zenon DEF RequestsOf
    <2>3. UNCHANGED <<state_json, journal, outbox, stored, resets, answered, acks, order, pc>>
      BY <1>2, Zenon DEF next_request, disk, store
    <2> HIDE DEF n
    <2>4. /\ Safe' = Safe /\ AfterStates' = AfterStates /\ Pending' = Pending
          /\ \A id : Real(id) => Real(id)'
          /\ OneAnswer' <=> OneAnswer
      BY <2>1, <2>3, Zenon DEF Safe, AfterStates, Pending, Real, OneAnswer
    <2>5. FactInv'
      BY <2>3, <2>4, Zenon DEF RuntimeInv, FactInv
    <2>6. RequestInv'
      <3>0. RequestInv
        BY Zenon DEF RuntimeInv
      <3>1. OneRequestPerSequence'
        BY ONLY <1>0, <2>1, <2>2, <3>0, SMTT(30) DEF RequestInv, OneRequestPerSequence
      <3> QED
        BY <1>0, <2>1, <2>2, <2>3, <2>4, <3>1 DEF RuntimeInv, RequestInv
    <2>7. ResetInv'
      BY <2>3, <2>4, Zenon DEF RuntimeInv, ResetInv
    <2> QED
      BY <2>5, <2>6, <2>7, Zenon
  <1>3. CASE written
    <2>1. PICK i \in DOMAIN state_json.requests :
             commit(Change(i, [state_json.requests[i] EXCEPT !.written = TRUE]), {}, "idle")
      BY <1>3, Zenon DEF written
    <2> DEFINE e == [state_json.requests[i] EXCEPT !.written = TRUE]
    <2>2. e \in Entries /\ e.request = state_json.requests[i].request
          /\ e.admitted = state_json.requests[i].admitted
      BY EntryType, Zenon DEF RuntimeInv, Entries
    <2> HIDE DEF e
    <2>3. ASSUME journal = {} PROVE Sound(Change(i, e), {})
      <3>1. Change(i, e).next = state_json.next /\ Change(i, e).reset = state_json.reset
        BY <2>2, ChangeState, Zenon DEF RuntimeInv
      <3>2. FactsIn(state_json, outbox \union stored)
        BY <1>0, <2>3, Zenon DEF RuntimeInv, FactInv, Safe
      <3>3. \A g \in e.admitted : <<e.request.sequence, g>> \in outbox \union stored \union {}
        BY <2>2, <3>2, Zenon DEF FactsIn
      <3>4. \A r, q \in state_json.reset : r = q
        BY <1>r, Zenon
      <3> QED
        BY <1>r, <2>2, <2>3, <3>1, <3>3, <3>4, EntrySound, Zenon
    <2>4. commit(Change(i, e), {}, "idle")
      BY <2>1, Zenon DEF e
    <2> QED
      BY <1>3, <2>3, <2>4, CommitStep, Zenon DEF RuntimeInv, written, store, outside
  <1>4. CASE observe
    <2>1. PICK i \in DOMAIN state_json.requests, g \in GatewayStates :
             /\ <<state_json.requests[i].request.sequence, g>> \in answered
             /\ commit(ObservedState(i, g), ObservedFact(i, g), "idle")
      BY <1>4, Zenon DEF observe, ObservedState, ObservedFact, ObservedEntry, Admit, Cleared
    <2> DEFINE e == ObservedEntry(i, g)
               n == state_json.requests[i].request
               after == ObservedState(i, g)
               fact == ObservedFact(i, g)
    <2>2. /\ e \in Entries /\ after.next = state_json.next
          /\ after.requests = Change(i, e).requests
          /\ after.reset = IF Cleared(i, g) = {} THEN state_json.reset ELSE Cleared(i, g)
          /\ e.request = n
      BY ObservedType, Zenon DEF RuntimeInv, ObservedEntry
    <2>3. ASSUME journal = {}, NEW h \in e.admitted
          PROVE  <<e.request.sequence, h>> \in outbox \union stored \union fact
      <3>1. FactsIn(state_json, outbox \union stored)
        BY <1>0, <2>3, Zenon DEF RuntimeInv, FactInv, Safe
      <3> QED
        BY <2>2, <2>3, <3>1, Zenon DEF FactsIn, ObservedEntry, ObservedFact
    <2>4. ASSUME NEW r \in Cleared(i, g)
          PROVE  \E q \in state_json.reset :
                    /\ r.command = q.command /\ r.applied = q.applied
                    /\ q.ack = "NONE" /\ r = [q EXCEPT !.ack = "CLEARED"]
                    /\ r.ack = "CLEARED"
                    /\ n.clear /\ n.decision = q.command.id /\ g = "CLEARED"
      <3>1. PICK q \in Pending : /\ r = [q EXCEPT !.ack = "CLEARED"]
                                 /\ n.clear /\ n.decision = q.command.id /\ g = "CLEARED"
        BY <2>4, Zenon DEF Cleared, ClearedBy
      <3>2. q \in state_json.reset /\ q.ack = "NONE"
        BY Zenon DEF Pending
      <3>3. q \in Resets
        BY <1>r, <3>2, Zenon
      <3>4. r.command = q.command /\ r.applied = q.applied /\ r.ack = "CLEARED"
        BY <3>1, <3>3, ResetFields, Zenon
      <3> QED
        BY <3>1, <3>2, <3>4, Zenon
    <2>5. ASSUME NEW r \in Cleared(i, g)
          PROVE  /\ \A q \in Cleared(i, g) : q = r
                 /\ r.applied => r.command.id \in resets
                 /\ Real(r.command.id)
                 /\ \A a \in acks : a[1] # r.command.id
                 /\ \A q \in state_json.reset : q.ack = "NONE"
      <3>1. PICK q \in state_json.reset :
               /\ r.command = q.command /\ r.applied = q.applied
               /\ q.ack = "NONE" /\ r = [q EXCEPT !.ack = "CLEARED"]
               /\ n.clear /\ n.decision = q.command.id /\ g = "CLEARED"
        BY <2>4, Zenon
      <3>2. \A x \in Cleared(i, g) : x = r
        BY <1>r, <2>4, <3>1
      <3>3. n \in RequestsOf(state_json) /\ <<n.sequence, "CLEARED">> \in answered
        BY <2>1, <3>1, Zenon DEF RequestsOf
      <3>4. PICK b \in sent : b.sequence = n.sequence
        BY <3>3, Zenon DEF RuntimeInv, AnswerInv
      <3>5. b = n
        <4>1. RequestInv
          BY Zenon DEF RuntimeInv
        <4> QED
          BY ONLY <1>0, <3>3, <3>4, <4>1 DEF RequestInv
      <3>6. Real(r.command.id)
        BY <1>0, <3>1, <3>3, <3>5, Zenon DEF Real, RuntimeInv, RequestInv
      <3>7. \A a \in acks : a[2] # "NONE"
        BY RuntimeTypes, Zenon
      <3> QED
        BY <1>r, <3>1, <3>2, <3>6, <3>7
    <2> HIDE DEF after, fact, e, n
    <2>6. \A r \in after.reset :
             /\ \A q \in after.reset : q = r
             /\ r.applied => r.command.id \in resets
             /\ r.ack = "CLEARED" => Real(r.command.id)
             /\ \A a \in acks : a[1] = r.command.id => a[2] = r.ack
             /\ \A q \in state_json.reset :
                   q.command.id = r.command.id /\ q.ack # "NONE" => r.ack = q.ack
      <3>1. CASE Cleared(i, g) = {}
        BY <1>r, <2>2, <3>1, Zenon
      <3>2. CASE Cleared(i, g) # {}
        BY <2>2, <2>5, <3>2, Zenon
      <3> QED
        BY <3>1, <3>2, Zenon
    <2>7. journal = {} => Sound(after, fact)
      BY <2>2, <2>3, <2>6, EntrySound, Zenon DEF n
    <2>8. commit(after, fact, "idle")
      BY <2>1, Zenon DEF after, fact
    <2> QED
      BY <1>4, <2>7, <2>8, CommitStep, Zenon DEF RuntimeInv, observe, store, outside
  <1> QED
    BY <1>1, <1>2, <1>3, <1>4, Zenon

\* The outbox, the surroundings, and mishaps.
LEMMA OtherSteps ==
    ASSUME RuntimeInv,
           \/ Boot \/ accept \/ Process \/ AcknowledgeDerived \/ Answer \/ StoreFact
           \/ Issue \/ Tick \/ StoreFail \/ Fault \/ Crash \/ UNCHANGED vars
    PROVE  FactInv' /\ RequestInv' /\ ResetInv'
  <1> USE DEF RuntimeInv
  <1>0. /\ pc = "remove" => \A j \in journal : j.fact \subseteq outbox
        /\ pc = "applied" => \A r \in Pending : r.command.id \in resets
        /\ \A c \in order : \A a \in acks : a[1] # c.id
    BY Zenon DEF FactInv, ResetInv
  <1>1. CASE Boot
    <2>1. pc' \in {"complete", "recover"} /\ resets \subseteq resets'
      BY <1>1, Zenon DEF Boot
    <2> QED
      BY <1>0, <1>1, <2>1, QuietStep, Zenon DEF Boot, disk, outside
  <1>2. CASE accept
    <2>1. outbox \union stored \subseteq outbox' \union stored' /\ pc' = "idle"
      BY <1>2, Zenon DEF accept, outside
    <2> QED
      BY <1>0, <1>2, <2>1, QuietStep, Zenon DEF accept, store, outside
  <1>3. CASE Process \/ AcknowledgeDerived \/ Tick \/ StoreFail \/ UNCHANGED vars
    BY <1>0, <1>3, QuietStep, Zenon DEF Process, AcknowledgeDerived, Tick, StoreFail, vars, disk, store, outside
  <1>4. CASE Answer
    <2>1. answered \subseteq answered'
      BY <1>4, Zenon DEF Answer
    <2> QED
      BY <1>0, <1>4, <2>1, QuietStep, Zenon DEF Answer, disk, store
  <1>5. CASE StoreFact
    <2>1. stored \subseteq stored'
      BY <1>5, Zenon DEF StoreFact
    <2> QED
      BY <1>0, <1>5, <2>1, QuietStep, Zenon DEF StoreFact, disk, store
  <1>6. CASE Issue
    <2>1. \A c \in order' : \A a \in acks : a[1] # c.id
      BY ONLY <1>0, <1>6 DEF Issue
    <2> QED
      BY <1>0, <1>6, <2>1, QuietStep, Zenon DEF Issue, disk, store
  <1>7. CASE Fault \/ Crash
    <2>1. pc' \in {"idle", "down"}
      BY <1>7, Zenon DEF Fault, Crash, Thrown
    <2>2. /\ UNCHANGED <<state_json, journal, sent, acks, order>>
          /\ UNCHANGED <<outbox, stored, resets, answered>>
      BY <1>7, Zenon DEF Fault, Crash, disk, store, outside
    <2>3. FactInv /\ RequestInv /\ ResetInv
      BY Zenon
    <2> QED
      BY ONLY <1>0, <2>1, <2>2, <2>3, QuietStep, Zenon
  <1> QED
    BY <1>1, <1>2, <1>3, <1>4, <1>5, <1>6, <1>7, Zenon

\* Answer is the only step that adds an answer, and no step unsends a request.
LEMMA AnswerStep == TypeOK /\ AnswerInv /\ [Next]_vars => AnswerInv'
  <1> SUFFICES ASSUME TypeOK, AnswerInv, [Next]_vars PROVE AnswerInv'
    BY Zenon
  <1>1. CASE Answer
    BY <1>1 DEF Answer, AnswerInv
  <1>2. CASE next_request
    BY <1>2, Zenon DEF next_request, AnswerInv
  <1>3. CASE ~Answer /\ ~next_request
    <2>1. UNCHANGED <<answered, sent>>
      BY <1>3, Zenon DEF Next, vars, Boot, Step, Recover, RecoverState, RecoverFact, RemoveJournal,
         Complete, CompleteNothing, CompleteReject, CompleteFail, CompleteModel,
         model_reset_applied, CompleteHalf, begin_demo_reset, reset_ack_expire,
         reset_ack_post, reset_acknowledged, next_request_new, written, observe, accept,
         Process, AcknowledgeDerived, StoreFact, Issue, Tick, StoreFail, Fault, Crash, outside
    <2> QED
      BY <2>1, Zenon DEF AnswerInv
  <1> QED
    BY <1>1, <1>2, <1>3, Zenon

-----------------------------------------------------------------------------
(* Theorems                                                                *)

\* The invariant holds in every behaviour of the advisory runtime, with any
\* number of crashes and failing system calls.
THEOREM RuntimeInvariant == Spec => []RuntimeInv
  <1>1. Init => RuntimeInv
    <2> SUFFICES ASSUME Init PROVE RuntimeInv
      BY Zenon
    <2>1. TypeOK
      BY InitType, Zenon
    <2>2. /\ AfterStates = {state_json} /\ RequestsOf(state_json) = {}
          /\ state_json.requests = <<>> /\ state_json.reset = {} /\ journal = {}
      BY DEF Init, AfterStates, RequestsOf
    <2>3. FactInv
      BY <2>2 DEF Init, FactInv, FactsIn
    <2>4. RequestInv /\ ResetInv /\ AnswerInv
      BY <2>2, Zenon DEF Init, RequestInv, ResetInv, AnswerInv, OneRequestPerSequence, OneAnswer
    <2> QED
      BY <2>1, <2>3, <2>4, Zenon DEF RuntimeInv
  <1>2. RuntimeInv /\ [Next]_vars => RuntimeInv'
    <2> SUFFICES ASSUME RuntimeInv, [Next]_vars PROVE RuntimeInv'
      BY Zenon
    <2>1. TypeOK' /\ AnswerInv'
      BY TypeStep, AnswerStep, Zenon DEF RuntimeInv
    <2>2. FactInv' /\ RequestInv' /\ ResetInv'
      BY RecoverSteps, CompleteSteps, CommandSteps, RequestSteps, OtherSteps, Zenon DEF Next
    <2> QED
      BY <2>1, <2>2, Zenon DEF RuntimeInv
  <1> QED
    BY <1>1, <1>2, PTL DEF Spec

\* observe(), recover() and accept() never lose the fact of an admitted
\* status, whichever of their steps is the last before a crash.
THEOREM FactsSurvive == Spec => []AdmittedKept
  <1>1. RuntimeInv => AdmittedKept
    BY Zenon DEF RuntimeInv, FactInv, AfterStates, FactsIn, Safe, AdmittedKept
  <1> QED
    BY <1>1, RuntimeInvariant, PTL

\* next_request() never hands out two requests under one sequence number.
THEOREM SequencesUnique == Spec => []OneRequestPerSequence
  <1>1. RuntimeInv => OneRequestPerSequence
    BY Zenon DEF RuntimeInv, RequestInv
  <1> QED
    BY <1>1, RuntimeInvariant, PTL

\* reset_ack() reports CLEARED only for a command whose reset was carried
\* out and whose CLEAR the gateway answered.
THEOREM SuccessJustified == Spec => []SuccessIsReal
  <1>1. RuntimeInv => SuccessIsReal
    <2> SUFFICES ASSUME RuntimeInv, NEW id \in CommandIds, <<id, "CLEARED">> \in acks
                 PROVE  Real(id)
      BY Zenon DEF SuccessIsReal, Real
    <2> QED
      BY Zenon DEF RuntimeInv, ResetInv
  <1> QED
    BY <1>1, RuntimeInvariant, PTL

\* The backend never receives two different answers to one command.
THEOREM AnswersAgree == Spec => []OneAnswer
  <1>1. RuntimeInv => OneAnswer
    BY Zenon DEF RuntimeInv, ResetInv
  <1> QED
    BY <1>1, RuntimeInvariant, PTL

=============================================================================
