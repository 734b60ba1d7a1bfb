------------------------- MODULE FunctionObservation ------------------------
(***************************************************************************)
(* The durable stream of function observations                             *)
(* (aosedge/function_observation.hpp) and the part of the delivery worker   *)
(* that drives it (deliver() in runtime/grpc_main.cpp).  One thread         *)
(* observes, offers the oldest pending message to the backend and retires   *)
(* it; every change is a commit of the whole ledger by write, rename and    *)
(* directory sync.  After a failed commit the worker drops the stream, as   *)
(* poisoned_ would; only the next process opens it again.                   *)
(***************************************************************************)
EXTENDS Integers, Sequences, FiniteSets

CONSTANTS
    Contents,       \* observation contents; only equality matters
    QueueLimit,     \* pending messages (64)
    MaxInteger,     \* largest generation and sequence (2^53 - 1)
    EmitGap,        \* 5000 ms between two observations
    RepeatGap,      \* 30000 ms before the same content is sent again
    Horizon,        \* bound on the clock, for model checking
    MaxMishaps      \* bound on crashes and failing system calls

ASSUME ObservationAssumption ==
    /\ QueueLimit \in Nat \ {0} /\ MaxInteger \in Nat
    /\ EmitGap \in Nat /\ RepeatGap \in Nat
    /\ Horizon \in Nat /\ MaxMishaps \in Nat

VARIABLES
    ledger_json,    \* the ledger a reader of the directory sees
    synced,         \* the ledger a power loss falls back to
    ledger,         \* ledger_: the ledger in memory
    target,         \* the ledger being committed
    then,           \* what follows the commit: "idle" or "posting"
    worker,         \* "off", "lost", "idle", "posting" or a step of commit()
    now,            \* the boot clock
    last_emit, last_content,        \* last_emit_ (-1: none yet), last_content_
    stored,         \* external: messages the backend has stored
    posted,         \* messages that next() ever handed out
    mishaps         \* crashes and failures so far

vars == <<ledger_json, synced, ledger, target, then, worker, now, last_emit,
          last_content, stored, posted, mishaps>>

Messages == [generation : 0..MaxInteger, sequence : 1..MaxInteger, content : Contents]
Entries == [attempted : BOOLEAN, message : Messages]
Ledgers == [generation : 0..MaxInteger, sequence : 0..MaxInteger, pending : Seq(Entries)]

\* The ledger of a directory that has none yet.
NoLedger == [generation |-> 0, sequence |-> 0, pending |-> <<>>]

Init ==
    /\ ledger_json = NoLedger /\ synced = NoLedger
    /\ ledger = NoLedger /\ target = NoLedger
    /\ then = "idle" /\ worker = "off" /\ now = 0
    /\ last_emit = -1 /\ last_content \in Contents
    /\ stored = {} /\ posted = {} /\ mishaps = 0

\* (generation, sequence) identifies a message; earlier in the stream.
Before(m, n) ==
    \/ m.generation < n.generation
    \/ m.generation = n.generation /\ m.sequence < n.sequence

commit(next, continuation) ==
    /\ target' = next /\ then' = continuation
    /\ worker' = "write"

\* The constructor: take the ledger, reserve the next generation; when none is
\* left the worker goes on without the stream.
Construct ==
    /\ worker = "off"
    /\ ledger' = ledger_json
    /\ \/ /\ ledger_json.generation < MaxInteger
          /\ commit([generation |-> ledger_json.generation + 1, sequence |-> 0,
                     pending |-> ledger_json.pending], "idle")
       \/ /\ ledger_json.generation = MaxInteger
          /\ worker' = "lost" /\ UNCHANGED <<target, then>>
    /\ last_emit' = -1
    /\ UNCHANGED <<ledger_json, synced, now, last_content, stored, posted, mishaps>>

\* Mutant: the oldest entry makes room, attempted or not.
Evict_oldest(pending) == Tail(pending)

\* The newest entry that was never attempted makes room.
Evict(pending) ==
    LET unsent == {i \in DOMAIN pending : ~pending[i].attempted}
        last == CHOOSE i \in unsent : \A j \in unsent : j <= i
    IN  SubSeq(pending, 1, last - 1) \o SubSeq(pending, last + 1, Len(pending))

Due(c) ==
    last_emit >= 0 => /\ now - last_emit >= EmitGap
                      /\ c = last_content => now - last_emit >= RepeatGap

\* Mutant: the limit is noticed one entry late.
Full_late == Len(ledger.pending) > QueueLimit

Full == Len(ledger.pending) = QueueLimit
Evictable == \E i \in DOMAIN ledger.pending : ~ledger.pending[i].attempted

observe(c) ==
    /\ worker = "idle" /\ Due(c)
    /\ Full => Evictable
    /\ ledger.sequence < MaxInteger
    /\ LET m == [generation |-> ledger.generation, sequence |-> ledger.sequence + 1,
                 content |-> c]
           kept == IF Full THEN Evict(ledger.pending) ELSE ledger.pending
       IN  commit([generation |-> m.generation, sequence |-> m.sequence,
                   pending |-> Append(kept, [attempted |-> FALSE, message |-> m])], "idle")
    /\ last_emit' = now /\ last_content' = c
    /\ UNCHANGED <<ledger_json, synced, ledger, now, stored, posted, mishaps>>

\* observe() in a generation whose sequence numbers are used up.
Exhausted ==
    /\ worker = "idle" /\ \E c \in Contents : Due(c)
    /\ Full => Evictable
    /\ ledger.sequence = MaxInteger
    /\ worker' = "lost"
    /\ UNCHANGED <<ledger_json, synced, ledger, target, then, now, last_emit,
                   last_content, stored, posted, mishaps>>

\* next(): the first attempt is made durable before the bytes are handed out.
next ==
    /\ worker = "idle" /\ ledger.pending # <<>>
    /\ \/ /\ Head(ledger.pending).attempted
          /\ worker' = "posting"
          /\ posted' = posted \union {Head(ledger.pending).message}
          /\ UNCHANGED <<target, then>>
       \/ /\ ~Head(ledger.pending).attempted
          /\ commit([ledger EXCEPT !.pending[1].attempted = TRUE], "posting")
          /\ UNCHANGED posted
    /\ UNCHANGED <<ledger_json, synced, ledger, now, last_emit, last_content,
                   stored, mishaps>>

\* External: the backend stores the message that is being posted.
Store ==
    /\ worker = "posting"
    /\ stored' = stored \union {Head(ledger.pending).message}
    /\ UNCHANGED <<ledger_json, synced, ledger, target, then, worker, now,
                   last_emit, last_content, posted, mishaps>>

\* Mutant: the numbering starts again with an empty queue.
accept_renumbers ==
    /\ worker = "posting"
    /\ \/ /\ Head(ledger.pending).message \in stored
          /\ commit([ledger EXCEPT !.pending = Tail(@),
                        !.sequence = IF Tail(ledger.pending) = <<>> THEN 0 ELSE @], "idle")
       \/ worker' = "idle" /\ UNCHANGED <<target, then>>
    /\ UNCHANGED <<ledger_json, synced, ledger, now, last_emit, last_content,
                   stored, posted, mishaps>>

\* Mutant: any answer retires the message.
accept_any ==
    /\ worker = "posting"
    /\ commit([ledger EXCEPT !.pending = Tail(@)], "idle")
    /\ UNCHANGED <<ledger_json, synced, ledger, now, last_emit, last_content,
                   stored, posted, mishaps>>

\* accept(): a matching receipt retires the message; without one (a timeout, a
\* refusal, another receipt) it stays for a later attempt.
accept ==
    /\ worker = "posting"
    /\ \/ /\ Head(ledger.pending).message \in stored
          /\ commit([ledger EXCEPT !.pending = Tail(@)], "idle")
       \/ worker' = "idle" /\ UNCHANGED <<target, then>>
    /\ UNCHANGED <<ledger_json, synced, ledger, now, last_emit, last_content,
                   stored, posted, mishaps>>

CommitWrite ==
    /\ worker = "write"
    /\ worker' = "rename"
    /\ UNCHANGED <<ledger_json, synced, ledger, target, then, now, last_emit,
                   last_content, stored, posted, mishaps>>

CommitRename ==
    /\ worker = "rename"
    /\ ledger_json' = target
    /\ worker' = "sync"
    /\ UNCHANGED <<synced, ledger, target, then, now, last_emit, last_content,
                   stored, posted, mishaps>>

CommitSync ==
    /\ worker = "sync"
    /\ synced' = ledger_json
    /\ ledger' = target
    /\ worker' = then
    /\ posted' = IF then = "posting" THEN posted \union {Head(target.pending).message}
                 ELSE posted
    /\ UNCHANGED <<ledger_json, target, then, now, last_emit, last_content,
                   stored, mishaps>>

\* A system call of commit() fails: the outcome is uncertain, the stream is
\* poisoned and deliver() drops it.
Fail ==
    /\ worker \in {"write", "rename", "sync"}
    /\ mishaps < MaxMishaps
    /\ worker' = "lost"
    /\ mishaps' = mishaps + 1
    /\ UNCHANGED <<ledger_json, synced, ledger, target, then, now, last_emit,
                   last_content, stored, posted>>

\* The process ends; a power loss may undo a rename that was never synced.
Crash ==
    /\ worker # "off"
    /\ mishaps < MaxMishaps
    /\ \E disk \in {ledger_json, synced} : ledger_json' = disk
    /\ worker' = "off"
    /\ mishaps' = mishaps + 1
    /\ UNCHANGED <<synced, ledger, target, then, now, last_emit, last_content,
                   stored, posted>>

Tick ==
    /\ now < Horizon
    /\ now' = now + 1
    /\ UNCHANGED <<ledger_json, synced, ledger, target, then, worker, last_emit,
                   last_content, stored, posted, mishaps>>

Step == CommitWrite \/ CommitRename \/ CommitSync

Next ==
    \/ Construct \/ next \/ Store \/ accept \/ Step
    \/ Exhausted \/ Fail \/ Crash \/ Tick
    \/ \E c \in Contents : observe(c)

Spec == Init /\ [][Next]_vars

\* The worker loop goes on, a process that ended is started again, and a
\* backend that is offered a message again and again stores it once and
\* answers.
Receive == Store /\ stored' # stored
Retire == accept /\ worker' = "write"

Fairness ==
    /\ WF_vars(Construct) /\ WF_vars(Step) /\ WF_vars(next) /\ WF_vars(accept)
    /\ SF_vars(Receive) /\ SF_vars(Retire)

FairSpec == Spec /\ Fairness

-----------------------------------------------------------------------------
\* The backend never meets two contents under one (generation, sequence),
\* whatever commits failed or were undone by a power loss: the key validate()
\* computes names one message.
OneContentPerIdentity ==
    \A m, n \in posted : Before(m, n) \/ Before(n, m) \/ m = n

\* A message that was handed out and is not stored stays pending, marked as
\* attempted, in every ledger that a crash can leave behind.
AttemptedKept ==
    \A m \in posted \ stored : \A l \in {ledger_json, synced} :
        [attempted |-> TRUE, message |-> m] \in {l.pending[i] : i \in DOMAIN l.pending}

\* Whatever ledger a crash leaves behind, the next constructor accepts it: not
\* too long, no identity twice, none beyond the ledger's own numbers.
Restartable ==
    \A l \in {ledger_json, synced} :
        /\ Len(l.pending) <= QueueLimit
        /\ \A i \in DOMAIN l.pending : ~Before(l, l.pending[i].message)
        /\ \A i, j \in DOMAIN l.pending :
              LET m == l.pending[i].message  n == l.pending[j].message
              IN  Before(m, n) \/ Before(n, m) \/ i = j

\* A message that was handed out is stored in the end, unless the stream was
\* dropped after a failed commit.
Delivered ==
    \A k \in (0..MaxInteger) \X (1..MaxInteger) :
        (\E m \in posted : <<m.generation, m.sequence>> = k)
            ~> (worker = "lost" \/ \E m \in stored : <<m.generation, m.sequence>> = k)

=============================================================================
