-------------------------- MODULE StateStoreProofs --------------------------
(***************************************************************************)
(* The durable state of the V2 store, for every set of events,             *)
(* configurations and commands, every window length and every outbox       *)
(* budget: type correctness, where a transaction journal may be on disk,   *)
(* that no admitted message is lost, that a demo reset is applied once,    *)
(* and that what a crash leaves on disk can be recovered.                  *)
(***************************************************************************)
EXTENDS StateStore, TLAPS

-----------------------------------------------------------------------------
(* What the computations of BrakeModel preserve: evaluating an episode and *)
(* resetting the model keep the types, and keep the ledger bound to the    *)
(* state.                                                                  *)

\* The initial state and the empty ledger are well typed and bound.
LEMMA InitialTypes ==
    /\ initial_state \in ModelStates
    /\ [state_sha256 |-> initial_state, entries |-> <<>>] \in Ledgers
    /\ Binds([state_sha256 |-> initial_state, entries |-> <<>>], initial_state)
<1>1. initial_state \in ModelStates
  BY ModelAssumption DEF initial_state, ModelStates
<1>2. [state_sha256 |-> initial_state, entries |-> <<>>] \in Ledgers
  BY <1>1 DEF Ledgers
<1>3. Binds([state_sha256 |-> initial_state, entries |-> <<>>], initial_state)
  BY DEF Binds, initial_state
<1>. QED  BY <1>1, <1>2, <1>3, Zenon

\* How far Remember shifts a window of n entries.
Shift(n) == IF n + 1 > RecentLimit THEN 1 ELSE 0

\* r is the window q followed by x, shifted when it is full.
Shifted(r, q, x) ==
    /\ Len(q) \in Nat
    /\ Len(r) = Len(q) + 1 - Shift(Len(q))
    /\ Len(r) \in Nat \ {0}
    /\ r[Len(r)] = x
    /\ \A i \in 1..Len(r) : i # Len(r) =>
          i + Shift(Len(q)) \in 1..Len(q) /\ r[i] = q[i + Shift(Len(q))]

\* Remember appends x and, above the limit, shifts the window by one.
LEMMA RememberShift ==
    ASSUME NEW S, NEW seq \in Seq(S), NEW x \in S
    PROVE  /\ Remember(seq, x) \in Seq(S)
           /\ Shifted(Remember(seq, x), seq, x)
<1>. DEFINE longer == Append(seq, x)
<1>1. /\ longer \in Seq(S) /\ Len(longer) = Len(seq) + 1
      /\ longer[Len(seq) + 1] = x
      /\ \A i \in 1..Len(seq) : longer[i] = seq[i]
      /\ Len(seq) \in Nat
  OBVIOUS
<1>2. CASE Len(seq) + 1 > RecentLimit
  <2>1. Len(seq) >= 1
    BY <1>1, <1>2, ModelAssumption
  <2>2. Remember(seq, x) = Tail(longer)
    BY <1>1, <1>2, Zenon DEF Remember
  <2>3. longer # <<>>
    BY <1>1
  <2>4. /\ Tail(longer) \in Seq(S)
        /\ Len(Tail(longer)) = Len(longer) - 1
        /\ \A i \in 1..Len(longer) - 1 : Tail(longer)[i] = longer[i + 1]
    BY <1>1, <2>3
  <2>. HIDE DEF longer
  <2>5. Shift(Len(seq)) = 1
    BY <1>2, Zenon DEF Shift
  <2>. QED  BY <1>1, <1>2, <2>1, <2>2, <2>4, <2>5 DEF Shifted
<1>3. CASE ~ (Len(seq) + 1 > RecentLimit)
  <2>1. Remember(seq, x) = longer
    BY <1>1, <1>3, Zenon DEF Remember
  <2>. HIDE DEF longer
  <2>2. Shift(Len(seq)) = 0
    BY <1>3, Zenon DEF Shift
  <2>. QED  BY <1>1, <1>3, <2>1, <2>2 DEF Shifted
<1>. QED  BY <1>2, <1>3, Zenon

\* Evaluating an episode below the last generation yields a model state.
LEMMA EvaluateType ==
    ASSUME NEW s \in ModelStates, NEW id \in AssessmentIds,
           NEW inc \in Increments, s.generation < MaxGeneration
    PROVE  evaluate(s, id, inc) \in ModelStates
<1>1. id[1] \in SourceEvents
  BY Zenon DEF AssessmentIds
<1>2. Remember(s.recent, id[1]) \in Seq(SourceEvents)
  BY <1>1, RememberShift, Zenon DEF ModelStates
<1>3. WearAfter(s.wear, inc) \in 0..100
  <2>1. s.wear \in 0..100
    BY Zenon DEF ModelStates
  <2>2. inc \in 4..10
    BY ModelAssumption, Zenon
  <2>. QED  BY <2>1, <2>2 DEF WearAfter
<1>4. s.generation + 1 \in 0..MaxGeneration
  BY ModelAssumption DEF ModelStates
<1>. QED  BY <1>2, <1>3, <1>4, Zenon DEF evaluate, ModelStates

\* An entry for an assessment id is a binding.
LEMMA BindingType ==
    ASSUME NEW id \in AssessmentIds
    PROVE  [source_event_id |-> id[1], assessment_id |-> id] \in Bindings
BY Zenon DEF AssessmentIds, Bindings

\* The ledger written with an evaluated state is well typed.
LEMMA LedgerAfterType ==
    ASSUME NEW l \in Ledgers, NEW after \in ModelStates,
           NEW id \in AssessmentIds
    PROVE  ledger_after(l, after, id) \in Ledgers
<1>1. l.entries \in Seq(Bindings)
  BY Zenon DEF Ledgers
<1>2. Remember(l.entries, [source_event_id |-> id[1], assessment_id |-> id])
        \in Seq(Bindings)
  BY <1>1, BindingType, RememberShift, Zenon
<1>. QED  BY <1>2, Zenon DEF ledger_after, Ledgers

\* A new event's assessment binds: process() extends a bound pair of state
\* and ledger to a bound pair, window shift included.
LEMMA EvaluateBinds ==
    ASSUME NEW s \in ModelStates, NEW l \in Ledgers, Binds(l, s),
           NEW id \in AssessmentIds, id[1] \notin Recent(s),
           NEW inc \in Increments
    PROVE  Binds(ledger_after(l, evaluate(s, id, inc), id),
                 evaluate(s, id, inc))
<1>. DEFINE b == [source_event_id |-> id[1], assessment_id |-> id]
            after == evaluate(s, id, inc)
            es == Remember(l.entries, b)
            rs == Remember(s.recent, id[1])
            k == Shift(Len(l.entries))
<1>1. /\ l.entries \in Seq(Bindings) /\ s.recent \in Seq(SourceEvents)
      /\ Len(l.entries) = Len(s.recent) /\ Len(l.entries) \in Nat
      /\ DOMAIN l.entries = 1..Len(l.entries)
      /\ \A i \in 1..Len(l.entries) :
            l.entries[i].source_event_id = s.recent[i]
  BY DEF Ledgers, ModelStates, Binds
<1>2. b \in Bindings /\ id[1] \in SourceEvents
  BY BindingType, Zenon DEF AssessmentIds
<1>3. /\ es \in Seq(Bindings) /\ Len(es) = Len(l.entries) + 1 - k
      /\ Len(es) \in Nat \ {0} /\ es[Len(es)] = b
      /\ \A i \in 1..Len(es) : i # Len(es) =>
            i + k \in 1..Len(l.entries) /\ es[i] = l.entries[i + k]
  <2>1. l.entries \in Seq(Bindings)
    BY <1>1, Zenon
  <2>2. b \in Bindings
    BY <1>2, Zenon
  <2>. HIDE DEF b
  <2>3. es \in Seq(Bindings) /\ Shifted(es, l.entries, b)
    BY <2>1, <2>2, RememberShift, Zenon
  <2>. HIDE DEF es
  <2>. QED  BY <2>3, Zenon DEF Shifted
<1>4. /\ rs \in Seq(SourceEvents) /\ Len(rs) = Len(s.recent) + 1 - k
      /\ rs[Len(rs)] = id[1]
      /\ \A i \in 1..Len(rs) : i # Len(rs) =>
            i + k \in 1..Len(s.recent) /\ rs[i] = s.recent[i + k]
  <2>1. k = Shift(Len(s.recent))
    BY <1>1, Zenon
  <2>2. s.recent \in Seq(SourceEvents)
    BY <1>1, Zenon
  <2>3. id[1] \in SourceEvents
    BY <1>2, Zenon
  <2>. HIDE DEF k
  <2>4. rs \in Seq(SourceEvents) /\ Shifted(rs, s.recent, id[1])
    BY <2>2, <2>3, RememberShift, Zenon
  <2>. HIDE DEF rs
  <2>. QED  BY <2>1, <2>4, Zenon DEF Shifted
<1>5. \A i \in 1..Len(l.entries) :
         /\ l.entries[i] \in Bindings
         /\ l.entries[i].assessment_id[1] = s.recent[i]
         /\ s.recent[i] # id[1]
  <2>. TAKE i \in 1..Len(l.entries)
  <2>1. l.entries[i] \in Bindings
    BY <1>1
  <2>2. l.entries[i].assessment_id[1] = s.recent[i]
    BY <1>1, <2>1, Zenon DEF Bindings
  <2>3. s.recent[i] \in Recent(s)
    BY <1>1 DEF Recent
  <2>. QED  BY <2>1, <2>2, <2>3, Zenon
<1>6. \A i, j \in 1..Len(l.entries) :
         l.entries[i].assessment_id = l.entries[j].assessment_id => i = j
  BY <1>1, Zenon DEF Binds
<1>. k \in {0, 1}
  BY Zenon DEF Shift
<1>. HIDE DEF es, rs, after, k
<1>7. Len(es) = Len(rs)
  BY <1>1, <1>3, <1>4, Zenon
<1>8. \A i \in 1..Len(es) : es[i].source_event_id = rs[i]
  <2>. TAKE i \in 1..Len(es)
  <2>1. CASE i = Len(es)
    BY <2>1, <1>3, <1>4, <1>7
  <2>2. CASE i # Len(es)
    <3>1. /\ i + k \in 1..Len(l.entries) /\ es[i] = l.entries[i + k]
          /\ i + k \in 1..Len(s.recent) /\ rs[i] = s.recent[i + k]
      BY ONLY <2>2, <1>3, <1>4, <1>7, i \in 1..Len(es), Zenon
    <3>2. l.entries[i + k].source_event_id = s.recent[i + k]
      BY ONLY <1>1, <3>1, Zenon
    <3>. QED  BY ONLY <3>1, <3>2, Zenon
  <2>. QED  BY <2>1, <2>2, Zenon
<1>9. \A i, j \in 1..Len(es) :
         es[i].assessment_id = es[j].assessment_id => i = j
  <2>1. ASSUME NEW i \in 1..Len(es), i # Len(es)
        PROVE  es[i].assessment_id # id
    <3>1. i + k \in 1..Len(l.entries) /\ es[i] = l.entries[i + k]
      BY <1>3, <2>1, Zenon
    <3>2. l.entries[i + k].assessment_id[1] # id[1]
      BY ONLY <1>5, <3>1, Zenon
    <3>. QED  BY <3>1, <3>2, Zenon
  <2>2. es[Len(es)].assessment_id = id
    BY <1>3
  <2>3. \A i, j \in 1..Len(es) :
           i # Len(es) /\ j # Len(es)
           /\ es[i].assessment_id = es[j].assessment_id => i = j
    <3>. SUFFICES ASSUME NEW i \in 1..Len(es), NEW j \in 1..Len(es),
                         i # Len(es), j # Len(es),
                         es[i].assessment_id = es[j].assessment_id
                  PROVE  i = j
      BY Zenon
    <3>1. /\ i + k \in 1..Len(l.entries) /\ es[i] = l.entries[i + k]
          /\ j + k \in 1..Len(l.entries) /\ es[j] = l.entries[j + k]
      BY <1>3, Zenon
    <3>2. i + k = j + k
      BY <3>1, <1>6, Zenon
    <3>. QED  BY <3>2, <1>3
  <2>. QED  BY <2>1, <2>2, <2>3, Zenon
<1>10. /\ ledger_after(l, after, id) = [state_sha256 |-> after, entries |-> es]
       /\ after.recent = rs /\ after.last = {id}
  BY Zenon DEF ledger_after, after, es, rs, evaluate
<1>11. DOMAIN es = 1..Len(es) /\ es[Len(es)].assessment_id = id
  BY <1>3
<1>. QED
  BY <1>7, <1>8, <1>9, <1>10, <1>11 DEF Binds, after

\* A reset below the last generation yields a model state and a ledger, and
\* keeps them bound.
LEMMA ResetKeeps ==
    ASSUME NEW s \in ModelStates, NEW l \in Ledgers, Binds(l, s),
           s.generation < MaxGeneration
    PROVE  /\ reset_state(s) \in ModelStates
           /\ reset_ledger(l, reset_state(s)) \in Ledgers
           /\ Binds(reset_ledger(l, reset_state(s)), reset_state(s))
<1>1. s.generation + 1 \in 0..MaxGeneration
  BY ModelAssumption DEF ModelStates
<1>2. reset_state(s) \in ModelStates
  <2>1. initial_state.wear = 54
    BY Zenon DEF initial_state
  <2>2. 54 \in 0..100
    OBVIOUS
  <2>. QED  BY <1>1, <2>1, <2>2, Zenon DEF ModelStates, reset_state
<1>3. /\ reset_state(s).recent = s.recent
      /\ reset_state(s).last = s.last
  BY Zenon DEF reset_state, ModelStates
<1>4. /\ reset_ledger(l, reset_state(s)).state_sha256 = reset_state(s)
      /\ reset_ledger(l, reset_state(s)).entries = l.entries
      /\ reset_ledger(l, reset_state(s)) \in Ledgers
  BY <1>2, Zenon DEF reset_ledger, Ledgers
<1>. QED  BY <1>2, <1>3, <1>4 DEF Binds

-----------------------------------------------------------------------------
(* The store.                                                              *)

\* The values of absent directories are well typed.
LEMMA EmptyTypes ==
    /\ initial_ledger \in Ledgers /\ Binds(initial_ledger, initial_state)
    /\ NoTransaction \in Transactions
    /\ NoJournal \in Journals
    /\ NoBundle \in Bundles
    /\ NoReset \in ResetJournals
<1>1. initial_ledger \in Ledgers /\ Binds(initial_ledger, initial_state)
  BY InitialTypes, Zenon DEF initial_ledger
<1>2. (CHOOSE id \in AssessmentIds : TRUE) \in AssessmentIds
  <2>1. AssessmentIds # {}
    <3>1. PICK e \in SourceEvents, c \in Configs : TRUE
      BY ModelAssumption, Zenon
    <3>2. <<e, c>> \in AssessmentIds
      BY <3>1, Zenon DEF AssessmentIds
    <3>. QED  BY <3>2, Zenon
  <2>. QED  BY <2>1, Zenon
<1>3. NoTransaction \in Transactions
  BY <1>1, <1>2, InitialTypes, Zenon DEF NoTransaction, Transactions
<1>4. NoJournal \in Journals
  BY <1>3, Zenon DEF NoJournal, Journals
<1>5. NoBundle \in Bundles
  BY InitialTypes, Zenon DEF NoBundle, Bundles
<1>6. NoReset \in ResetJournals
  BY <1>1, InitialTypes, Zenon DEF NoReset, ResetJournals
<1>. QED  BY <1>1, <1>3, <1>4, <1>5, <1>6, Zenon

\* The fields of what is on disk are well typed.
LEMMA FieldTypes ==
    ASSUME TypeOK
    PROVE  /\ txn \in Transactions
           /\ txn.id \in AssessmentIds
           /\ txn.before \in ModelStates /\ txn.after \in ModelStates
           /\ txn.before_ids \in Ledgers /\ txn.after_ids \in Ledgers
           /\ reset.before \in ModelStates /\ reset.after \in ModelStates
           /\ reset.before_ids \in Ledgers /\ reset.after_ids \in Ledgers
           /\ reset.command \subseteq Commands
           /\ \A a \in AssessmentIds : outbox[a] \in Bundles
BY Zenon DEF TypeOK, txn, Journals, Transactions, ResetJournals

\* The generations the store compares are numbers.
LEMMA GenerationTypes ==
    ASSUME TypeOK
    PROVE  /\ state.generation \in Nat
           /\ txn.before.generation \in Nat /\ txn.after.generation \in Nat
           /\ reset.before.generation \in Nat
           /\ reset.after.generation \in Nat
<1>1. \A s \in ModelStates : s.generation \in Nat
  BY ModelAssumption DEF ModelStates
<1>. QED  BY <1>1, FieldTypes, Zenon DEF TypeOK

\* What the edits of the journal change and what they leave.
LEMMA JournalEdits ==
    ASSUME TypeOK
    PROVE  /\ \A b \in BOOLEAN :
                 LET j == [journal EXCEPT !.committed = b]
                 IN  /\ j.committed = b /\ j.exists = journal.exists
                     /\ j.body = journal.body /\ j.txn = journal.txn
                     /\ j.quarantined = journal.quarantined
           /\ LET j == [journal EXCEPT !.body = FALSE]
              IN  /\ ~ j.body /\ j.exists = journal.exists
                  /\ j.committed = journal.committed /\ j.txn = journal.txn
                  /\ j.quarantined = journal.quarantined
           /\ /\ QuarantinedJournal.exists /\ QuarantinedJournal.quarantined
              /\ QuarantinedJournal.body = journal.body
              /\ QuarantinedJournal.committed = journal.committed
              /\ QuarantinedJournal.txn = journal.txn
<1>1. journal \in Journals
  BY Zenon DEF TypeOK
<1>. QED  BY ONLY <1>1, Zenon DEF Journals, QuarantinedJournal

\* The transaction of an accepted episode is well typed.
LEMMA TransactionType ==
    ASSUME TypeOK, NEW id \in AssessmentIds, NEW i \in Increments, NEW n,
           state.generation < MaxGeneration
    PROVE  TransactionFor(id, i, n) \in Transactions
<1>1. state \in ModelStates /\ ledger \in Ledgers
  BY Zenon DEF TypeOK
<1>2. evaluate(state, id, i) \in ModelStates
  BY <1>1, EvaluateType, Zenon
<1>3. ledger_after(ledger, evaluate(state, id, i), id) \in Ledgers
  BY <1>1, <1>2, LedgerAfterType, Zenon
<1>. QED
  BY <1>1, <1>2, <1>3, Zenon DEF TransactionFor, Transactions,
       derived_outbox_admissible

\* A published bundle is well typed.
LEMMA BundleType ==
    ASSUME NEW t \in Transactions
    PROVE  BundleOf(t) \in Bundles
BY Zenon DEF BundleOf, Bundles, Transactions, messages_of, Kinds

-----------------------------------------------------------------------------
(* Type correctness, one step per action.                                  *)

\* Every step of the store keeps its variables well typed.
LEMMA TypeStep ==
    ASSUME TypeOK, [Next]_vars
    PROVE  TypeOK'
<1>. USE FieldTypes, EmptyTypes
<1>. USE DEF TypeOK, outside
<1>1. CASE Open
  BY <1>1, Zenon DEF Open, disk, Ops, Steps
<1>2. CASE OpenState
  BY <1>2, InitialTypes, Zenon DEF OpenState, Continue, At, Ops, Steps
<1>3. CASE OpenLedger
  BY <1>3 DEF OpenLedger, Continue, At, Ledgers, Ops, Steps
<1>4. CASE OpenReset \/ OpenResetConflict \/ RecoverNothing
  BY <1>4, Zenon DEF OpenReset, OpenResetConflict,
       RecoverNothing, Continue, Finish, disk, Ops, Steps
<1>5. CASE OpenInventory
  BY <1>5, Zenon DEF OpenInventory, Finish, Bundles, BundleReadable, Ops, Steps
<1>6. CASE RecoverQuarantined \/ RecoverVerify \/ RecoverState
  BY <1>6, Zenon DEF RecoverQuarantined,
       RecoverVerify, RecoverState, Continue, Finish, disk, Ops, Steps
<1>7. CASE RecoverLedger \/ RecoverCommit
  BY <1>7, Zenon DEF RecoverLedger, RecoverCommit,
       Continue, Journals, Ops, Steps
<1>8. CASE RecoverBundle
  BY <1>8, BundleType, Zenon DEF RecoverBundle, Continue, Ops, Steps
<1>9. CASE RecoverFails
  BY <1>9, Zenon DEF RecoverFails, QuarantinedJournal, Journals, Finish,
       Ops, Steps
<1>10. CASE WriteState \/ WriteLedger
  BY <1>10, Zenon DEF WriteState, WriteLedger, Continue, Ops, Steps
<1>11. CASE PublishBundle
  BY <1>11, BundleType, Zenon DEF PublishBundle, Continue, Ops, Steps
<1>12. CASE Commit \/ Verify \/ PersistFails
  BY <1>12, Zenon DEF Commit, Verify, PersistFails,
       Continue, Finish, disk, Journals, Ops, Steps
<1>13. CASE UnlinkBody \/ UnlinkCommitted
  BY <1>13, Zenon DEF UnlinkBody, UnlinkCommitted,
       process, Journals
<1>14. CASE RemoveJournal \/ SyncTransactions
  BY <1>14, Zenon DEF RemoveJournal, SyncTransactions,
       Continue, Finish, disk, Ops, Steps
<1>15. CASE ResetState \/ ResetLedger
  BY <1>15, Zenon DEF ResetState, ResetLedger, Continue, Ops, Steps
<1>16. CASE ResetMark \/ ResetRetire
  BY <1>16, Zenon DEF ResetMark, ResetRetire, Continue, Finish,
       Ops, Steps
<1>17. CASE RemoveMessage
  <2>1. PICK m \in target :
           outbox' = [outbox EXCEPT ![m[1]].messages = @ \ {m[2]}]
    BY <1>17, Zenon DEF RemoveMessage
  <2>2. m[1] \in AssessmentIds /\ outbox[m[1]].messages \ {m[2]} \subseteq Kinds
    BY <2>1, Zenon DEF Bundles
  <2>3. outbox' \in [AssessmentIds -> Bundles]
    BY <2>1, <2>2 DEF Bundles
  <2>. QED  BY <1>17, <2>3, Zenon DEF RemoveMessage, Continue, Finish, Ops, Steps
<1>18. CASE SweepManifest \/ SweepAck
  <2>1. PICK m \in target :
           \/ outbox' = [outbox EXCEPT ![m[1]].manifest = FALSE]
           \/ \E kind \in outbox[m[1]].acks :
                 outbox' = [outbox EXCEPT ![m[1]].acks = @ \ {kind}]
    BY <1>18, Zenon DEF SweepManifest, SweepAck
  <2>2. m[1] \in AssessmentIds
    BY <2>1, Zenon
  <2>3. outbox' \in [AssessmentIds -> Bundles]
    <3>1. [outbox EXCEPT ![m[1]].manifest = FALSE]
             \in [AssessmentIds -> Bundles]
      BY <2>2, Zenon DEF Bundles
    <3>2. ASSUME NEW kind
          PROVE  [outbox EXCEPT ![m[1]].acks = @ \ {kind}]
                    \in [AssessmentIds -> Bundles]
      <4>1. outbox[m[1]].acks \ {kind} \subseteq Kinds
        BY <2>2, Zenon DEF Bundles
      <4>. QED  BY <2>2, <4>1, Zenon DEF Bundles
    <3>3. CASE outbox' = [outbox EXCEPT ![m[1]].manifest = FALSE]
      BY <3>1, <3>3, Zenon
    <3>4. ASSUME NEW kind, outbox' = [outbox EXCEPT ![m[1]].acks = @ \ {kind}]
          PROVE  outbox' \in [AssessmentIds -> Bundles]
      BY <3>2, <3>4, Zenon
    <3>. QED  BY ONLY <2>1, <3>3, <3>4, Zenon
  <2>. QED  BY <1>18, <2>3, Zenon DEF SweepManifest, SweepAck, process
<1>19. CASE RemoveBundle
  BY <1>19, Zenon DEF RemoveBundle, Finish, Ops, Steps
<1>20. ASSUME NEW id \in AssessmentIds, NEW i \in Increments, NEW k \in OtherCounts,
              Process(id, i, k)
       PROVE  TypeOK'
  <2>1. TransactionFor(id, i, k) \in Transactions
    BY <1>20, TransactionType, Zenon DEF Process, PublishJournal
  <2>2. journal' \in Journals
    BY <1>20, <2>1, Zenon DEF Process, PublishJournal, Journals
  <2>. QED  BY <1>20, <2>2, Zenon DEF Process, PublishJournal, Ops, Steps
<1>21. ASSUME NEW e \in SourceEvents,
              ProcessRefused(e) \/ ProcessDuplicateConflict(e)
       PROVE  TypeOK'
  BY <1>21, Zenon DEF ProcessRefused, ProcessDuplicateConflict, Finish, disk,
       Ops, Steps
<1>22. ASSUME NEW c \in Commands, ResetDemo(c)
       PROVE  TypeOK'
  <2>1. /\ reset_state(state) \in ModelStates
        /\ reset_ledger(ledger, reset_state(state)) \in Ledgers
    BY <1>22, ResetKeeps, Zenon DEF ResetDemo
  <2>2. reset' \in ResetJournals
    BY <1>22, <2>1, Zenon DEF ResetDemo, ResetJournals
  <2>. QED  BY <1>22, <2>2, Zenon DEF ResetDemo, Ops, Steps
<1>23. ASSUME NEW a \in AssessmentIds, NEW kind \in Kinds,
              Deliver(a, kind) \/ Acknowledge(a, kind)
       PROVE  TypeOK'
  <2>1. outbox[a].after.generation \in Nat
    BY ModelAssumption DEF Bundles, ModelStates
  <2>2. Message(a, kind) \in AssessmentIds \X Kinds \X Nat
    BY <2>1, Zenon DEF Message
  <2>. QED
    BY <1>23, <2>2 DEF Deliver, Acknowledge, WriteReceipt, disk, process,
         Bundles, Ops, Steps
<1>24. ASSUME NEW a \in AssessmentIds, QuarantineBundle(a)
       PROVE  TypeOK'
  BY <1>24, Zenon DEF QuarantineBundle, process, Bundles
<1>25. CASE Crash \/ FaultInStep
  BY <1>25, Zenon DEF Crash, FaultInStep, Finish, disk, Ops, Steps
<1>26. CASE FaultInRecover
  BY <1>26, Zenon DEF FaultInRecover, QuarantinedJournal, Journals, Finish,
       Ops, Steps
<1>27. CASE FaultInInventory
  <2>1. outbox' \in [AssessmentIds -> Bundles]
    <3>1. ASSUME NEW a \in AssessmentIds
          PROVE  [outbox EXCEPT ![a].quarantined = TRUE]
                    \in [AssessmentIds -> Bundles]
      BY Zenon DEF Bundles
    <3>. QED  BY <1>27, <3>1, Zenon DEF FaultInInventory
  <2>. QED  BY <1>27, <2>1, Zenon DEF FaultInInventory, Finish, Ops, Steps
<1>28. CASE Upgrade \/ UNCHANGED vars
  BY <1>28, StoreAssumption, Zenon DEF Upgrade, vars, disk, process, outside
<1>. QED
  BY <1>1, <1>2, <1>3, <1>4, <1>5, <1>6, <1>7, <1>8, <1>9, <1>10, <1>11, Zenon,
     <1>12, <1>13, <1>14, <1>15, <1>16, <1>17, <1>18, <1>19, <1>20, <1>21,
     <1>22, <1>23, <1>24, <1>25, <1>26, <1>27, <1>28 DEF Next, Step, Call,
     Failure

\* The variables of the store always have their types.
THEOREM TypeCorrect == Spec => []TypeOK
<1>1. Init => TypeOK
  <2>. USE EmptyTypes, InitialTypes
  <2>. QED  BY Zenon DEF Init, TypeOK, Ops, Steps
<1>2. TypeOK /\ [Next]_vars => TypeOK'
  BY TypeStep, Zenon
<1>. QED  BY <1>1, <1>2, PTL DEF Spec

-----------------------------------------------------------------------------
(* A store that serves callers has no transaction journal.                 *)

\* Where an operation stands when no journal may be on disk.
JournalFreeSteps == {"Inventory", "Unlinked", "RemoveMessage", "Sweep"}

ResetSteps == {"ResetState", "ResetLedger", "ResetMark", "ResetRetire"}

\* Only process() publishes a journal, and it does so when there is none.
JournalFree ==
    /\ journal.body => journal.exists
    /\ Callable \/ pc \in JournalFreeSteps \/ op = "reset" => ~ journal.exists
    /\ op = "reset" => pc \in ResetSteps
    /\ pc \in ResetSteps => op \in {"open", "reset"}
    /\ op = "none" <=> pc \in {"Down", "Idle"}

\* Every step keeps the store free of a journal it does not expect.
LEMMA JournalFreeStep ==
    ASSUME TypeOK, JournalFree, [Next]_vars
    PROVE  JournalFree'
<1>. USE DEF JournalFree, JournalFreeSteps, ResetSteps, Callable, TypeOK, Journals
<1>1. CASE Open
  BY <1>1, Zenon DEF Open, disk
<1>2. CASE OpenState \/ OpenLedger
  BY <1>2, Zenon DEF OpenState, OpenLedger, Continue, At
<1>3. CASE OpenReset \/ OpenResetConflict \/ RecoverNothing
  BY <1>3, Zenon DEF OpenReset, OpenResetConflict, RecoverNothing, Continue,
       Finish, At, disk
<1>4. CASE OpenInventory
  BY <1>4, Zenon DEF OpenInventory, Finish, At
<1>5. CASE RecoverQuarantined \/ RecoverVerify \/ RecoverState
  BY <1>5, Zenon DEF RecoverQuarantined, RecoverVerify, RecoverState, Continue,
       Finish, At, disk
<1>6. CASE RecoverLedger \/ RecoverCommit
  BY <1>6, Zenon DEF RecoverLedger, RecoverCommit, Continue, At
<1>7. CASE RecoverBundle
  BY <1>7, Zenon DEF RecoverBundle, Continue, At
<1>8. CASE RecoverFails
  BY <1>8, Zenon DEF RecoverFails, QuarantinedJournal, Finish
<1>9. CASE WriteState \/ WriteLedger
  BY <1>9, Zenon DEF WriteState, WriteLedger, Continue, At
<1>10. CASE PublishBundle
  BY <1>10, Zenon DEF PublishBundle, Continue, At
<1>11. CASE Commit \/ Verify \/ PersistFails
  BY <1>11, Zenon DEF Commit, Verify, PersistFails, Continue, Finish, At, disk
<1>12. CASE UnlinkBody \/ UnlinkCommitted
  BY <1>12, Zenon DEF UnlinkBody, UnlinkCommitted, process
<1>13. CASE RemoveJournal \/ SyncTransactions
  BY <1>13 DEF RemoveJournal, SyncTransactions, Continue, Finish, disk,
       NoJournal
<1>14. CASE ResetState \/ ResetLedger
  BY <1>14, Zenon DEF ResetState, ResetLedger, Continue
<1>15. CASE ResetMark \/ ResetRetire
  BY <1>15, Zenon DEF ResetMark, ResetRetire, Continue, Finish
<1>16. CASE RemoveMessage
  BY <1>16, Zenon DEF RemoveMessage, Continue, Finish
<1>17. CASE SweepManifest \/ SweepAck
  BY <1>17, Zenon DEF SweepManifest, SweepAck, process
<1>18. CASE RemoveBundle
  BY <1>18, Zenon DEF RemoveBundle, Finish
<1>19. ASSUME NEW id \in AssessmentIds, NEW i \in Increments,
              NEW k \in OtherCounts, Process(id, i, k)
       PROVE  JournalFree'
  BY <1>19, Zenon DEF Process, PublishJournal
<1>20. ASSUME NEW e \in SourceEvents,
              ProcessRefused(e) \/ ProcessDuplicateConflict(e)
       PROVE  JournalFree'
  BY <1>20, Zenon DEF ProcessRefused, ProcessDuplicateConflict, Finish, disk
<1>21. ASSUME NEW c \in Commands, ResetDemo(c)
       PROVE  JournalFree'
  BY <1>21, Zenon DEF ResetDemo
<1>22. ASSUME NEW a \in AssessmentIds, NEW kind \in Kinds,
              Deliver(a, kind)
       PROVE  JournalFree'
  BY <1>22, Zenon DEF Deliver, disk, process
<1>23. ASSUME NEW a \in AssessmentIds, NEW kind \in Kinds,
              Acknowledge(a, kind)
       PROVE  JournalFree'
  BY <1>23, Zenon DEF Acknowledge, WriteReceipt
<1>24. ASSUME NEW a \in AssessmentIds, QuarantineBundle(a)
       PROVE  JournalFree'
  BY <1>24, Zenon DEF QuarantineBundle, process
<1>25. CASE Crash \/ FaultInStep
  BY <1>25, Zenon DEF Crash, FaultInStep, Finish, disk
<1>26. CASE FaultInRecover
  BY <1>26, Zenon DEF FaultInRecover, QuarantinedJournal, Finish
<1>27. CASE FaultInInventory
  BY <1>27, Zenon DEF FaultInInventory, Finish, At
<1>28. CASE Upgrade \/ UNCHANGED vars
  BY <1>28 DEF Upgrade, vars, disk, process, outside
<1>. QED
  BY <1>1, <1>2, <1>3, <1>4, <1>5, <1>6, <1>7, <1>8, <1>9, <1>10, <1>11, Zenon,
     <1>12, <1>13, <1>14, <1>15, <1>16, <1>17, <1>18, <1>19, <1>20, <1>21,
     <1>22, <1>23, <1>24, <1>25, <1>26, <1>27, <1>28 DEF Next, Step, Call,
     Failure

-----------------------------------------------------------------------------
(* No admitted message is lost.                                            *)

\* What the removals rely on: a bundle directory that does not exist holds
\* nothing, the journal is unlinked after its bundle is in the outbox, a
\* message is removed after the backend has it, and a bundle is swept after
\* its last message is gone.
MessagesGuarded ==
    /\ \A a \in AssessmentIds :
          ~ outbox[a].exists => outbox[a].messages = {}
    /\ pc = "Unlink" /\ txn.admit => BundleMatches(txn)
    /\ pc \in {"RemoveMessage", "Sweep"} => \E m \in target : target = {m}
    /\ pc = "RemoveMessage" =>
          \A m \in target : Message(m[1], m[2]) \in backend
    /\ pc = "Sweep" => \A m \in target : outbox[m[1]].messages = {}

\* Every step keeps the removals guarded.
LEMMA MessagesGuardedStep ==
    ASSUME TypeOK, JournalFree, MessagesGuarded, [Next]_vars
    PROVE  MessagesGuarded'
<1>. USE DEF MessagesGuarded, BundleMatches, Message, txn, outside
<1>0. /\ outbox \in [AssessmentIds -> Bundles] /\ txn.id \in AssessmentIds
      /\ \A m \in target : m[1] \in AssessmentIds
  BY FieldTypes, Zenon DEF TypeOK
<1>a. \A a \in AssessmentIds : ~ outbox[a].exists => outbox[a].messages = {}
  BY Zenon
<1>1. CASE Open
  BY <1>1, Zenon DEF Open, disk
<1>2. CASE OpenState \/ OpenLedger
  BY <1>2, Zenon DEF OpenState, OpenLedger, Continue, At
<1>3. CASE OpenReset \/ OpenResetConflict \/ RecoverNothing
  BY <1>3, Zenon DEF OpenReset, OpenResetConflict, RecoverNothing, Continue,
       Finish, At, disk
<1>4. CASE OpenInventory
  <2>1. \A a \in AssessmentIds : /\ outbox'[a].messages = outbox[a].messages
                                /\ outbox'[a].exists = outbox[a].exists
    BY <1>0, <1>4 DEF OpenInventory, Bundles
  <2>. QED  BY <1>4, <2>1, Zenon DEF OpenInventory, Finish
<1>5. CASE RecoverQuarantined \/ RecoverVerify \/ RecoverState
  BY <1>5, Zenon DEF RecoverQuarantined, RecoverVerify, RecoverState, Continue,
       Finish, At, disk, TransactionVerified
<1>6. CASE RecoverLedger \/ RecoverCommit
  BY <1>6, JournalEdits, Zenon DEF RecoverLedger, RecoverCommit, Continue, At
<1>7. CASE RecoverBundle
  <2>1. \A a \in AssessmentIds : outbox'[a] \in {outbox[a], BundleOf(txn)}
    <3>1. outbox' \in {outbox, [outbox EXCEPT ![txn.id] = BundleOf(txn)]}
      BY <1>7, Zenon DEF RecoverBundle
    <3>. QED  BY ONLY <1>0, <3>1, Zenon
  <2>2. \A a \in AssessmentIds : ~ outbox'[a].exists => outbox'[a].messages = {}
    BY ONLY <1>a, <2>1 DEF BundleOf
  <2>. QED  BY <1>7, <2>2, Zenon DEF RecoverBundle, Continue, At
<1>8. CASE RecoverFails
  BY <1>8, Zenon DEF RecoverFails, Finish
<1>9. CASE WriteState \/ WriteLedger
  BY <1>9, Zenon DEF WriteState, WriteLedger, Continue, At
<1>10. CASE PublishBundle
  <2>1. \A a \in AssessmentIds : outbox'[a] \in {outbox[a], BundleOf(txn)}
    <3>1. outbox' \in {outbox, [outbox EXCEPT ![txn.id] = BundleOf(txn)]}
      BY <1>10, Zenon DEF PublishBundle
    <3>. QED  BY ONLY <1>0, <3>1, Zenon
  <2>2. \A a \in AssessmentIds : ~ outbox'[a].exists => outbox'[a].messages = {}
    BY ONLY <1>a, <2>1 DEF BundleOf
  <2>. QED  BY <1>10, <2>2, Zenon DEF PublishBundle, Continue, At
<1>11. CASE Commit \/ Verify \/ PersistFails
  <2>1. CASE Commit
    BY <2>1, JournalEdits, Zenon DEF Commit, Continue, At
  <2>2. CASE Verify \/ PersistFails
    BY <2>2, Zenon DEF Verify, PersistFails, Continue, Finish, At, disk,
         TransactionVerified
  <2>. QED  BY <1>11, <2>1, <2>2, Zenon
<1>12. CASE UnlinkBody \/ UnlinkCommitted
  <2>1. txn' = txn
    BY <1>12, JournalEdits, Zenon DEF UnlinkBody, UnlinkCommitted
  <2>. QED  BY <1>12, <2>1, Zenon DEF UnlinkBody, UnlinkCommitted, process
<1>13. CASE RemoveJournal \/ SyncTransactions
  BY <1>13, Zenon DEF RemoveJournal, SyncTransactions, Continue, Finish, disk
<1>14. CASE ResetState \/ ResetLedger
  BY <1>14, Zenon DEF ResetState, ResetLedger, Continue
<1>15. CASE ResetMark \/ ResetRetire
  BY <1>15, Zenon DEF ResetMark, ResetRetire, Continue, Finish
<1>16. CASE RemoveMessage
  <2>1. PICK m \in target :
           /\ outbox' = [outbox EXCEPT ![m[1]].messages = @ \ {m[2]}]
           /\ \/ /\ pc' = "Sweep" /\ target' = target
                 /\ outbox[m[1]].messages \subseteq {m[2]}
              \/ pc' = "Idle"
    BY <1>16, Zenon DEF RemoveMessage, Continue, Finish
  <2>2. /\ \A a \in AssessmentIds :
              /\ outbox'[a].messages \subseteq outbox[a].messages
              /\ outbox'[a].exists = outbox[a].exists
        /\ outbox'[m[1]].messages = outbox[m[1]].messages \ {m[2]}
    BY ONLY <1>0, <2>1, Zenon DEF Bundles
  <2>3. target = {m}
    BY <1>16, <2>1, Zenon DEF RemoveMessage
  <2>4. \A a \in AssessmentIds : ~ outbox'[a].exists => outbox'[a].messages = {}
    BY ONLY <1>a, <2>2, Zenon
  <2>5. pc' = "Sweep" => target' = {m} /\ outbox'[m[1]].messages = {}
    BY ONLY <2>1, <2>2, <2>3, Zenon
  <2>. QED  BY <2>1, <2>4, <2>5, Zenon
<1>17. CASE SweepManifest \/ SweepAck
  <2>1. PICK m \in target :
           \/ outbox' = [outbox EXCEPT ![m[1]].manifest = FALSE]
           \/ \E kind \in outbox[m[1]].acks :
                 outbox' = [outbox EXCEPT ![m[1]].acks = @ \ {kind}]
    BY <1>17, Zenon DEF SweepManifest, SweepAck
  <2>2. \A a \in AssessmentIds : /\ outbox'[a].messages = outbox[a].messages
                                /\ outbox'[a].exists = outbox[a].exists
    <3>1. CASE outbox' = [outbox EXCEPT ![m[1]].manifest = FALSE]
      BY ONLY <1>0, <3>1, Zenon DEF Bundles
    <3>2. ASSUME NEW kind, outbox' = [outbox EXCEPT ![m[1]].acks = @ \ {kind}]
          PROVE  \A a \in AssessmentIds :
                    /\ outbox'[a].messages = outbox[a].messages
                    /\ outbox'[a].exists = outbox[a].exists
      BY ONLY <1>0, <3>2, Zenon DEF Bundles
    <3>. QED  BY ONLY <2>1, <3>1, <3>2, Zenon
  <2>. QED  BY <1>0, <1>17, <2>2, Zenon DEF SweepManifest, SweepAck, process
<1>18. CASE RemoveBundle
  <2>1. \A a \in AssessmentIds : outbox'[a] \in {outbox[a], NoBundle}
    <3>1. PICK m \in target : outbox' = [outbox EXCEPT ![m[1]] = NoBundle]
      BY <1>18, Zenon DEF RemoveBundle
    <3>. QED  BY ONLY <1>0, <3>1, Zenon
  <2>2. \A a \in AssessmentIds : ~ outbox'[a].exists => outbox'[a].messages = {}
    BY ONLY <1>a, <2>1 DEF NoBundle
  <2>. QED  BY <1>18, <2>2, Zenon DEF RemoveBundle, Finish
<1>19. ASSUME NEW id \in AssessmentIds, NEW i \in Increments,
              NEW k \in OtherCounts, Process(id, i, k)
       PROVE  MessagesGuarded'
  BY <1>19, Zenon DEF Process, PublishJournal
<1>20. ASSUME NEW e \in SourceEvents,
              ProcessRefused(e) \/ ProcessDuplicateConflict(e)
       PROVE  MessagesGuarded'
  BY <1>20, Zenon DEF ProcessRefused, ProcessDuplicateConflict, Finish, disk
<1>21. ASSUME NEW c \in Commands, ResetDemo(c)
       PROVE  MessagesGuarded'
  BY <1>21, Zenon DEF ResetDemo
<1>22. ASSUME NEW a \in AssessmentIds, NEW kind \in Kinds,
              Deliver(a, kind)
       PROVE  MessagesGuarded'
  BY <1>22, Zenon DEF Deliver, disk, process
<1>23. ASSUME NEW a \in AssessmentIds, NEW kind \in Kinds,
              Acknowledge(a, kind)
       PROVE  MessagesGuarded'
  BY <1>0, <1>23 DEF Acknowledge, WriteReceipt
<1>24. ASSUME NEW a \in AssessmentIds, QuarantineBundle(a)
       PROVE  MessagesGuarded'
  BY <1>0, <1>24 DEF QuarantineBundle, process
<1>25. CASE Crash \/ FaultInStep
  BY <1>25, Zenon DEF Crash, FaultInStep, Finish, disk
<1>26. CASE FaultInRecover
  BY <1>26, Zenon DEF FaultInRecover, Finish
<1>27. CASE FaultInInventory
  <2>1. \A a \in AssessmentIds : /\ outbox'[a].messages = outbox[a].messages
                                /\ outbox'[a].exists = outbox[a].exists
    BY <1>0, <1>27 DEF FaultInInventory, Bundles
  <2>. QED  BY <1>27, <2>1, Zenon DEF FaultInInventory, Finish
<1>28. CASE Upgrade \/ UNCHANGED vars
  BY <1>28, Zenon DEF Upgrade, vars, disk, process, outside
<1>. QED
  BY <1>1, <1>2, <1>3, <1>4, <1>5, <1>6, <1>7, <1>8, <1>9, <1>10, <1>11, Zenon,
     <1>12, <1>13, <1>14, <1>15, <1>16, <1>17, <1>18, <1>19, <1>20, <1>21,
     <1>22, <1>23, <1>24, <1>25, <1>26, <1>27, <1>28 DEF Next, Step, Call,
     Failure

\* A step that leaves the messages and what their manifests bind loses none.
LEMMA StoredKept ==
    ASSUME \A a \in AssessmentIds : \A kind \in outbox[a].messages :
              kind \in outbox'[a].messages /\ outbox'[a].after = outbox[a].after
    PROVE  Stored \subseteq Stored'
<1>1. ASSUME NEW a \in AssessmentIds
      PROVE  StoredIn(a) \subseteq StoredIn(a)'
  BY Zenon DEF StoredIn, Message
<1>. QED  BY <1>1, Zenon DEF Stored

\* A step that keeps an intact journal keeps the messages it will publish.
LEMMA JournalledKept ==
    ASSUME Intact /\ txn.admit => Intact' /\ txn' = txn
    PROVE  Journalled \subseteq Journalled'
BY Zenon DEF Journalled

\* No step makes an admitted message disappear before the backend has it.
LEMMA KeptStep ==
    ASSUME TypeOK, JournalFree, MessagesGuarded, [Next]_vars
    PROVE  Kept \subseteq Kept' \union backend
<1>. USE FieldTypes
<1>. USE DEF TypeOK, Kept, Intact, txn, Journals
<1>1. CASE Open
  BY <1>1, StoredKept, JournalledKept, Zenon
     DEF Open, disk
<1>2. CASE OpenState \/ OpenLedger
  BY <1>2, StoredKept, JournalledKept, Zenon
     DEF OpenState, OpenLedger, Continue, At
<1>3. CASE OpenReset \/ OpenResetConflict \/ RecoverNothing
  BY <1>3, StoredKept, JournalledKept, Zenon
     DEF OpenReset, OpenResetConflict, RecoverNothing, Continue,
       Finish, At, disk
<1>4. CASE OpenInventory
  <2>1. \A a \in AssessmentIds : \A kind \in outbox[a].messages :
           kind \in outbox'[a].messages /\ outbox'[a].after = outbox[a].after
    BY <1>4, Zenon DEF OpenInventory, Bundles
  <2>. QED  BY <1>4, <2>1, StoredKept, JournalledKept, Zenon DEF OpenInventory
<1>5. CASE RecoverQuarantined \/ RecoverVerify \/ RecoverState
  BY <1>5, StoredKept, JournalledKept, Zenon
     DEF RecoverQuarantined, RecoverVerify, RecoverState, Continue,
       Finish, At, disk
<1>6. CASE RecoverLedger \/ RecoverCommit
  BY <1>6, StoredKept, JournalledKept, Zenon
     DEF RecoverLedger, RecoverCommit, Continue, At
<1>7. CASE RecoverBundle
  <2>1. \A a \in AssessmentIds : \A kind \in outbox[a].messages :
           kind \in outbox'[a].messages /\ outbox'[a].after = outbox[a].after
    BY <1>7, Zenon DEF RecoverBundle, MessagesGuarded
  <2>. QED  BY <1>7, <2>1, StoredKept, JournalledKept, Zenon DEF RecoverBundle
<1>8. CASE RecoverFails
  BY <1>8, StoredKept, JournalledKept, Zenon DEF RecoverFails, QuarantinedJournal,
       Journals
<1>9. CASE WriteState \/ WriteLedger
  BY <1>9, StoredKept, JournalledKept, Zenon
     DEF WriteState, WriteLedger, Continue, At
<1>10. CASE PublishBundle
  <2>1. \A a \in AssessmentIds : \A kind \in outbox[a].messages :
           kind \in outbox'[a].messages /\ outbox'[a].after = outbox[a].after
    BY <1>10, Zenon DEF PublishBundle, MessagesGuarded
  <2>. QED  BY <1>10, <2>1, StoredKept, JournalledKept, Zenon DEF PublishBundle
<1>11. CASE Commit \/ Verify \/ PersistFails
  BY <1>11, StoredKept, JournalledKept, Zenon
     DEF Commit, Verify, PersistFails, Continue, Finish, At, disk
<1>12. CASE UnlinkBody \/ UnlinkCommitted
  <2>1. outbox' = outbox
    BY <1>12, Zenon DEF UnlinkBody, UnlinkCommitted
  <2>2. Stored \subseteq Stored'
    BY <2>1, StoredKept, Zenon
  <2>3. CASE UnlinkBody
    <3>1. CASE txn.admit
      <4>1. BundleMatches(txn)
        BY <2>3, <3>1, Zenon DEF UnlinkBody, MessagesGuarded
      <4>2. Journalled \subseteq StoredIn(txn.id)
        BY <4>1, Zenon DEF Journalled, StoredIn, Message, BundleMatches
      <4>3. StoredIn(txn.id) \subseteq Stored
        BY Zenon DEF Stored
      <4>. QED  BY <2>2, <4>2, <4>3, Zenon
    <3>2. CASE ~ txn.admit
      BY <2>2, <3>2, Zenon DEF Journalled
    <3>. QED  BY <3>1, <3>2, Zenon
  <2>4. CASE UnlinkCommitted
    BY <2>2, <2>4, JournalledKept, Zenon DEF UnlinkCommitted, Intact, txn, Journals
  <2>. QED  BY <1>12, <2>3, <2>4, Zenon
<1>13. CASE RemoveJournal \/ SyncTransactions
  <2>1. Stored \subseteq Stored'
    BY <1>13, StoredKept, Zenon DEF RemoveJournal, SyncTransactions, disk
  <2>2. Journalled \subseteq Journalled'
    BY <1>13, JournalledKept, Zenon DEF RemoveJournal, SyncTransactions, disk, Intact, txn
  <2>. QED  BY <2>1, <2>2, Zenon
<1>14. CASE ResetState \/ ResetLedger
  BY <1>14, StoredKept, JournalledKept, Zenon
     DEF ResetState, ResetLedger, Continue
<1>15. CASE ResetMark \/ ResetRetire
  BY <1>15, StoredKept, JournalledKept, Zenon
     DEF ResetMark, ResetRetire, Continue, Finish
<1>16. CASE RemoveMessage
  <2>1. PICK x \in target :
           outbox' = [outbox EXCEPT ![x[1]].messages = @ \ {x[2]}]
    BY <1>16, Zenon DEF RemoveMessage
  <2>2. Journalled \subseteq Journalled'
    BY <1>16, JournalledKept, Zenon DEF RemoveMessage, Intact, txn
  <2>3. ASSUME NEW a \in AssessmentIds, NEW kind \in outbox[a].messages
        PROVE  Message(a, kind) \in Stored' \union backend
    <3>1. CASE <<a, kind>> = x
      <4>1. Message(x[1], x[2]) \in backend
        BY <1>16, Zenon DEF RemoveMessage, MessagesGuarded
      <4>. QED  BY <3>1, <4>1, Zenon
    <3>2. CASE <<a, kind>> # x
      <4>1. kind \in outbox'[a].messages /\ outbox'[a].after = outbox[a].after
        BY <2>1, <3>2 DEF Bundles
      <4>. QED  BY <4>1 DEF Stored, StoredIn, Message
    <3>. QED  BY <3>1, <3>2, Zenon
  <2>4. Stored \subseteq Stored' \union backend
    BY <2>3 DEF Stored, StoredIn
  <2>. QED  BY <2>2, <2>4, Zenon
<1>17. CASE SweepManifest \/ SweepAck
  <2>1. PICK m \in target :
           \/ outbox' = [outbox EXCEPT ![m[1]].manifest = FALSE]
           \/ \E kind \in outbox[m[1]].acks :
                 outbox' = [outbox EXCEPT ![m[1]].acks = @ \ {kind}]
    BY <1>17, Zenon DEF SweepManifest, SweepAck
  <2>2. \A a \in AssessmentIds : /\ outbox'[a].messages = outbox[a].messages
                                /\ outbox'[a].after = outbox[a].after
    <3>1. CASE outbox' = [outbox EXCEPT ![m[1]].manifest = FALSE]
      BY <3>1, Zenon DEF Bundles
    <3>2. ASSUME NEW kind, outbox' = [outbox EXCEPT ![m[1]].acks = @ \ {kind}]
          PROVE  \A a \in AssessmentIds :
                    /\ outbox'[a].messages = outbox[a].messages
                    /\ outbox'[a].after = outbox[a].after
      BY <3>2, Zenon DEF Bundles
    <3>. QED  BY ONLY <2>1, <3>1, <3>2, Zenon
  <2>. QED  BY <1>17, <2>2, StoredKept, JournalledKept, Zenon DEF SweepManifest, SweepAck
<1>18. CASE RemoveBundle
  <2>1. \A a \in AssessmentIds : \A kind \in outbox[a].messages :
           outbox'[a] = outbox[a]
    BY <1>18, Zenon DEF RemoveBundle, MessagesGuarded
  <2>. QED  BY <1>18, <2>1, StoredKept, JournalledKept, Zenon DEF RemoveBundle
<1>19. ASSUME NEW id \in AssessmentIds, NEW i \in Increments,
              NEW k \in OtherCounts, Process(id, i, k)
       PROVE  Kept \subseteq Kept' \union backend
  <2>1. Stored \subseteq Stored'
    BY <1>19, StoredKept, Zenon DEF Process, PublishJournal
  <2>2. Callable
    BY ONLY <1>19, Zenon DEF Process
  <2>3. ~ journal.exists
    BY ONLY <2>2, JournalFree, Zenon DEF JournalFree
  <2>4. Journalled = {}
    BY ONLY <2>3, Zenon DEF Journalled, Intact
  <2>. QED  BY ONLY <2>1, <2>4, Zenon DEF Kept
<1>20. ASSUME NEW e \in SourceEvents,
              ProcessRefused(e) \/ ProcessDuplicateConflict(e)
       PROVE  Kept \subseteq Kept' \union backend
  BY <1>20, StoredKept, JournalledKept, Zenon
     DEF ProcessRefused, ProcessDuplicateConflict, Finish, disk
<1>21. ASSUME NEW c \in Commands, ResetDemo(c)
       PROVE  Kept \subseteq Kept' \union backend
  BY <1>21, StoredKept, JournalledKept, Zenon
     DEF ResetDemo
<1>22. ASSUME NEW a \in AssessmentIds, NEW kind \in Kinds,
              Deliver(a, kind)
       PROVE  Kept \subseteq Kept' \union backend
  BY <1>22, StoredKept, JournalledKept, Zenon
     DEF Deliver, disk, process
<1>23. ASSUME NEW a \in AssessmentIds, NEW kind \in Kinds,
              Acknowledge(a, kind)
       PROVE  Kept \subseteq Kept' \union backend
  <2>1. \A b \in AssessmentIds : \A kd \in outbox[b].messages :
           kd \in outbox'[b].messages /\ outbox'[b].after = outbox[b].after
    BY <1>23 DEF Acknowledge, WriteReceipt, Bundles
  <2>. QED  BY <1>23, <2>1, StoredKept, JournalledKept, Zenon DEF Acknowledge, WriteReceipt
<1>24. ASSUME NEW a \in AssessmentIds, QuarantineBundle(a)
       PROVE  Kept \subseteq Kept' \union backend
  <2>1. \A b \in AssessmentIds : \A kd \in outbox[b].messages :
           kd \in outbox'[b].messages /\ outbox'[b].after = outbox[b].after
    BY <1>24 DEF QuarantineBundle, Bundles
  <2>. QED  BY <1>24, <2>1, StoredKept, JournalledKept, Zenon DEF QuarantineBundle
<1>25. CASE Crash \/ FaultInStep
  BY <1>25, StoredKept, JournalledKept, Zenon
     DEF Crash, FaultInStep, Finish, disk
<1>26. CASE FaultInRecover
  BY <1>26, StoredKept, JournalledKept, Zenon DEF FaultInRecover, QuarantinedJournal, Finish
<1>27. CASE FaultInInventory
  <2>1. \A a \in AssessmentIds : \A kind \in outbox[a].messages :
           kind \in outbox'[a].messages /\ outbox'[a].after = outbox[a].after
    BY <1>27 DEF FaultInInventory, Bundles
  <2>. QED  BY <1>27, <2>1, StoredKept, JournalledKept, Zenon DEF FaultInInventory
<1>28. CASE Upgrade \/ UNCHANGED vars
  BY <1>28, StoredKept, JournalledKept, Zenon
     DEF Upgrade, vars, disk, process, outside
<1>. QED
  BY <1>1, <1>2, <1>3, <1>4, <1>5, <1>6, <1>7, <1>8, <1>9, <1>10, <1>11,
     <1>12, <1>13, <1>14, <1>15, <1>16, <1>17, <1>18, <1>19, <1>20, <1>21,
     <1>22, <1>23, <1>24, <1>25, <1>26, <1>27, <1>28 DEF Next, Step, Call,
     Failure

\* No admitted message leaves the store before the backend has stored it,
\* whatever crashes and faults interrupt process(), recover() and
\* acknowledge().
THEOREM MessagesSurvive == Spec => NoMessageLost
<1>. DEFINE IInv == TypeOK /\ JournalFree /\ MessagesGuarded
<1>1. Init => IInv
  <2>1. Init => TypeOK
    BY EmptyTypes, InitialTypes, Zenon DEF Init, TypeOK, Ops, Steps
  <2>2. Init => JournalFree
    BY DEF Init, JournalFree, JournalFreeSteps, ResetSteps, Callable, NoJournal
  <2>3. Init => MessagesGuarded
    BY DEF Init, MessagesGuarded, NoBundle
  <2>. QED  BY <2>1, <2>2, <2>3, Zenon
<1>2. IInv /\ [Next]_vars => IInv'
  BY TypeStep, JournalFreeStep, MessagesGuardedStep, Zenon
<1>3. IInv /\ [Next]_vars =>
         [\A m \in Kept : m \in Kept' \/ m \in backend]_vars
  BY KeptStep, Zenon
<1>. HIDE DEF IInv
<1>. QED  BY <1>1, <1>2, <1>3, PTL DEF Spec, NoMessageLost

-----------------------------------------------------------------------------
(* While the store serves callers its files are in phase, whichever calls  *)
(* fail.                                                                   *)

\* The steps of process().
ProcessSteps ==
    {"WriteState", "WriteLedger", "PublishBundle", "Commit", "Verify",
     "Unlink", "Unlinked"}

\* Which operation a step belongs to.
StepsPlaced ==
    /\ op = "process" => pc \in ProcessSteps
    /\ op = "acknowledge" <=> pc \in {"RemoveMessage", "Sweep"}
    /\ pc \in {"Unlink", "Unlinked"} => op \in {"open", "process"}
    /\ pc = "PublishBundle" => op = "process" /\ txn.admit

\* While the store serves, the two files bind each other, or the journal of
\* the running call holds the pair that will.
FilesServed ==
    /\ Callable \/ op = "acknowledge" => Binds(ledger, state) \/ reset.exists
    /\ op = "process" /\ pc # "Unlinked" => Binds(txn.after_ids, txn.after)
    /\ op = "process" /\ pc \in {"Unlink", "Unlinked"} => Binds(ledger, state)
    /\ op = "reset" => reset.exists /\ Binds(reset.after_ids, reset.after)
    /\ op = "reset" /\ pc # "ResetState" => state = reset.after
    /\ op = "reset" /\ pc \in {"ResetMark", "ResetRetire"} =>
          ledger = reset.after_ids

\* The operation a step belongs to, with the files it leaves.
FilesPlaced == StepsPlaced /\ FilesServed

\* Every step keeps the files and the journals of a serving store in phase.
LEMMA FilesServedStep ==
    ASSUME TypeOK, JournalFree, FilesPlaced, [Next]_vars
    PROVE  FilesPlaced'
<1>. USE DEF FilesPlaced, StepsPlaced, FilesServed, ProcessSteps, JournalFree,
       JournalFreeSteps, ResetSteps, Callable, At, txn
<1>1. CASE Open
  BY <1>1, Zenon DEF Open, disk
<1>2. CASE OpenState \/ OpenLedger
  BY <1>2, Zenon DEF OpenState, OpenLedger, Continue, At
<1>3. CASE OpenReset \/ OpenResetConflict \/ RecoverNothing
  BY <1>3, Zenon DEF OpenReset, OpenResetConflict, RecoverNothing, Continue,
       Finish, At, disk
<1>4. CASE OpenInventory
  BY <1>4, Zenon DEF OpenInventory, Finish
<1>5. CASE RecoverQuarantined \/ RecoverVerify \/ RecoverState
  BY <1>5, Zenon DEF RecoverQuarantined, RecoverVerify, RecoverState, Continue,
       Finish, At, disk
<1>6. CASE RecoverLedger \/ RecoverCommit
  BY <1>6, Zenon DEF RecoverLedger, RecoverCommit, Continue, At
<1>7. CASE RecoverBundle
  BY <1>7, Zenon DEF RecoverBundle, Continue, At
<1>8. CASE RecoverFails
  BY <1>8, Zenon DEF RecoverFails, QuarantinedJournal, Finish
<1>9. CASE WriteState \/ WriteLedger
  BY <1>9, Zenon DEF WriteState, WriteLedger, Continue, At
<1>10. CASE PublishBundle
  BY <1>10, Zenon DEF PublishBundle, Continue, At
<1>11. CASE Commit \/ Verify \/ PersistFails
  <2>1. CASE Commit
    BY <2>1, JournalEdits, Zenon DEF Commit, Continue
  <2>2. CASE Verify
    BY <2>2, Zenon DEF Verify, Continue, TransactionVerified, disk
  <2>3. CASE PersistFails
    BY <2>3, Zenon DEF PersistFails, Finish, disk
  <2>. QED  BY <1>11, <2>1, <2>2, <2>3, Zenon
<1>12. CASE UnlinkBody \/ UnlinkCommitted
  BY <1>12, JournalEdits, Zenon DEF UnlinkBody, UnlinkCommitted, process
<1>13. CASE RemoveJournal \/ SyncTransactions
  <2>1. CASE RemoveJournal
    BY <2>1, Zenon DEF RemoveJournal, Continue, NoJournal
  <2>2. CASE SyncTransactions
    <3>1. CASE op = "open"
      BY <2>2, <3>1, Zenon DEF SyncTransactions, Continue, disk
    <3>2. CASE op # "open"
      BY <2>2, <3>2, Zenon DEF SyncTransactions, Finish, disk
    <3>. QED  BY <3>1, <3>2, Zenon
  <2>. QED  BY <1>13, <2>1, <2>2, Zenon
<1>14. CASE ResetState \/ ResetLedger
  BY <1>14, Zenon DEF ResetState, ResetLedger, Continue
<1>15. CASE ResetMark \/ ResetRetire
  BY <1>15, Zenon DEF ResetMark, ResetRetire, Continue, Finish
<1>16. CASE RemoveMessage
  BY <1>16, Zenon DEF RemoveMessage, Continue, Finish
<1>17. CASE SweepManifest \/ SweepAck
  BY <1>17, Zenon DEF SweepManifest, SweepAck, process
<1>18. CASE RemoveBundle
  BY <1>18, Zenon DEF RemoveBundle, Finish
<1>19. ASSUME NEW id \in AssessmentIds, NEW i \in Increments,
              NEW k \in OtherCounts, Process(id, i, k)
       PROVE  FilesPlaced'
  <2>1. Binds(ledger, state) /\ id[1] \notin Recent(state)
    BY <1>19, Zenon DEF Process
  <2>2. Binds(ledger_after(ledger, evaluate(state, id, i), id),
              evaluate(state, id, i))
    BY <2>1, EvaluateBinds, Zenon DEF TypeOK
  <2>3. /\ TransactionFor(id, i, k).after = evaluate(state, id, i)
        /\ TransactionFor(id, i, k).after_ids =
              ledger_after(ledger, evaluate(state, id, i), id)
    BY Zenon DEF TransactionFor
  <2>. QED  BY <1>19, <2>2, <2>3, Zenon DEF Process, PublishJournal
<1>20. ASSUME NEW e \in SourceEvents,
              ProcessRefused(e) \/ ProcessDuplicateConflict(e)
       PROVE  FilesPlaced'
  BY <1>20, Zenon DEF ProcessRefused, ProcessDuplicateConflict, Finish, disk
<1>21. ASSUME NEW c \in Commands, ResetDemo(c)
       PROVE  FilesPlaced'
  <2>1. Binds(reset_ledger(ledger, reset_state(state)), reset_state(state))
    BY <1>21, ResetKeeps, Zenon DEF ResetDemo, TypeOK
  <2>. QED  BY <1>21, <2>1, Zenon DEF ResetDemo
<1>22. ASSUME NEW a \in AssessmentIds, NEW kind \in Kinds,
              Deliver(a, kind)
       PROVE  FilesPlaced'
  BY <1>22, Zenon DEF Deliver, disk, process
<1>23. ASSUME NEW a \in AssessmentIds, NEW kind \in Kinds,
              Acknowledge(a, kind)
       PROVE  FilesPlaced'
  BY <1>23, Zenon DEF Acknowledge, WriteReceipt
<1>24. ASSUME NEW a \in AssessmentIds, QuarantineBundle(a)
       PROVE  FilesPlaced'
  BY <1>24, Zenon DEF QuarantineBundle, process
<1>25. CASE Crash \/ FaultInStep
  BY <1>25, Zenon DEF Crash, FaultInStep, Finish, disk
<1>26. CASE FaultInRecover
  BY <1>26, Zenon DEF FaultInRecover, QuarantinedJournal, Finish
<1>27. CASE FaultInInventory
  BY <1>27, Zenon DEF FaultInInventory, Finish, At
<1>28. CASE Upgrade \/ UNCHANGED vars
  BY <1>28 DEF Upgrade, vars, disk, process, outside
<1>. QED
  BY <1>1, <1>2, <1>3, <1>4, <1>5, <1>6, <1>7, <1>8, <1>9, <1>10, <1>11, Zenon,
     <1>12, <1>13, <1>14, <1>15, <1>16, <1>17, <1>18, <1>19, <1>20, <1>21,
     <1>22, <1>23, <1>24, <1>25, <1>26, <1>27, <1>28 DEF Next, Step, Call,
     Failure

-----------------------------------------------------------------------------
(* A reset is applied once, whichever calls fail.                          *)

\* Before the first start has written both files, nothing else has.
FirstStart ==
    /\ "state.json" \notin present => "identity-ledger.json" \notin present
    /\ At("open", "OpenLedger") => "state.json" \in present
    /\ "identity-ledger.json" \notin present =>
          /\ state = initial_state /\ ledger = initial_ledger
          /\ ~ journal.exists /\ ~ reset.exists /\ ~ Callable
          /\ pc \in {"Down", "Idle", "OpenState", "OpenLedger"}

\* What the generation says: a journal advances it, and once the command of
\* a reset is recorded the state is past the one the reset began with.
GenerationsAdvance ==
    /\ journal.body => txn.before.generation < txn.after.generation
    /\ pc = "WriteState" => journal.body /\ state = txn.before
    /\ reset.exists => reset.before.generation < reset.after.generation
    /\ reset.exists /\ resetId = reset.command =>
          reset.before.generation < state.generation

\* How far a reset has come.
ResetProgress ==
    /\ reset.exists => Binds(reset.after_ids, reset.after)
    /\ pc \in ResetSteps => reset.exists
    /\ pc = "ResetState" => state \in {reset.before, reset.after}
    /\ pc \in ResetSteps \ {"ResetState"} => state = reset.after
    /\ pc \in {"ResetMark", "ResetRetire"} => ledger = reset.after_ids
    /\ pc = "ResetRetire" => resetId = reset.command

ResetInv == FirstStart /\ GenerationsAdvance /\ ResetProgress

\* Every step keeps what the reset relies on.
LEMMA ResetInvStep ==
    ASSUME TypeOK, JournalFree, ResetInv, [Next]_vars
    PROVE  ResetInv'
<1>0. /\ state.generation \in Nat
      /\ txn.before.generation \in Nat /\ txn.after.generation \in Nat
      /\ reset.before.generation \in Nat /\ reset.after.generation \in Nat
  BY GenerationTypes, Zenon
<1>. USE DEF ResetInv, FirstStart, GenerationsAdvance, ResetProgress,
       JournalFree, JournalFreeSteps, ResetSteps, Callable, At, txn
<1>1. CASE Open
  BY <1>1, Zenon DEF Open, disk
<1>2. CASE OpenState \/ OpenLedger
  <2>1. state' = state /\ ledger' = ledger
    BY <1>2, Zenon DEF OpenState, OpenLedger, initial_ledger
  <2>. QED  BY <1>2, <2>1, Zenon DEF OpenState, OpenLedger, Continue
<1>3. CASE OpenReset \/ OpenResetConflict \/ RecoverNothing
  BY <1>3, Zenon DEF OpenReset, OpenResetConflict, RecoverNothing, Continue,
       Finish, disk, ResetApplies
<1>4. CASE OpenInventory
  BY <1>4, Zenon DEF OpenInventory, Finish, At
<1>5. CASE RecoverQuarantined \/ RecoverVerify \/ RecoverState
  <2>1. CASE RecoverQuarantined \/ RecoverVerify
    BY <2>1, Zenon DEF RecoverQuarantined, RecoverVerify, Continue, Finish, disk
  <2>2. CASE RecoverState
    <3>1. state.generation <= state'.generation
      BY <1>0, <2>2 DEF RecoverState
    <3>. QED  BY <1>0, <2>2, <3>1 DEF RecoverState, Continue
  <2>. QED  BY <1>5, <2>1, <2>2, Zenon
<1>6. CASE RecoverLedger \/ RecoverCommit
  BY <1>6, JournalEdits, Zenon DEF RecoverLedger, RecoverCommit, Continue, At
<1>7. CASE RecoverBundle
  BY <1>7, Zenon DEF RecoverBundle, Continue, At
<1>8. CASE RecoverFails
  <2>1. pc \in {"Recover", "RecoverLedger", "RecoverBundle", "RecoverVerify"}
    BY <1>8, Zenon DEF RecoverFails, RecoverConflict
  <2>. QED  BY <1>8, <2>1, JournalEdits, Zenon DEF RecoverFails, Finish
<1>9. CASE WriteState \/ WriteLedger
  <2>1. CASE WriteState
    BY <1>0, <2>1 DEF WriteState, Continue
  <2>2. CASE WriteLedger
    BY <2>2, Zenon DEF WriteLedger, Continue
  <2>. QED  BY <1>9, <2>1, <2>2, Zenon
<1>10. CASE PublishBundle
  BY <1>10, Zenon DEF PublishBundle, Continue, At
<1>11. CASE Commit \/ Verify \/ PersistFails
  BY <1>11, JournalEdits, Zenon DEF Commit, Verify, PersistFails, Continue, Finish, At, disk,
       TransactionVerified
<1>12. CASE UnlinkBody \/ UnlinkCommitted
  BY <1>12, JournalEdits, Zenon DEF UnlinkBody, UnlinkCommitted, process
<1>13. CASE RemoveJournal \/ SyncTransactions
  BY <1>13, JournalEdits DEF RemoveJournal, SyncTransactions, Continue, Finish, disk,
       NoJournal
<1>14. CASE ResetState \/ ResetLedger
  <2>1. CASE ResetState
    BY <2>1, Zenon DEF ResetState, Continue
  <2>2. CASE ResetLedger
    BY <2>2, Zenon DEF ResetLedger, Continue
  <2>. QED  BY <1>14, <2>1, <2>2, Zenon
<1>15. CASE ResetMark \/ ResetRetire
  <2>1. CASE ResetMark
    BY <2>1, Zenon DEF ResetMark, Continue
  <2>2. CASE ResetRetire
    BY <2>2, Zenon DEF ResetRetire, Continue, Finish, NoReset
  <2>. QED  BY <1>15, <2>1, <2>2, Zenon
<1>16. CASE RemoveMessage
  BY <1>16, Zenon DEF RemoveMessage, Continue, Finish
<1>17. CASE SweepManifest \/ SweepAck
  BY <1>17, Zenon DEF SweepManifest, SweepAck, process
<1>18. CASE RemoveBundle
  BY <1>18, Zenon DEF RemoveBundle, Finish
<1>19. ASSUME NEW id \in AssessmentIds, NEW i \in Increments,
              NEW k \in OtherCounts, Process(id, i, k)
       PROVE  ResetInv'
  <2>1. /\ TransactionFor(id, i, k).before = state
        /\ TransactionFor(id, i, k).after.generation = state.generation + 1
    BY Zenon DEF TransactionFor, evaluate
  <2>2. /\ txn' = TransactionFor(id, i, k) /\ journal'.body
        /\ op' = "process" /\ pc' = "WriteState" /\ Callable
        /\ UNCHANGED <<present, state, ledger, reset, resetId>>
    BY <1>19, Zenon DEF Process, PublishJournal
  <2>3. txn'.before = state /\ txn'.before.generation < txn'.after.generation
    BY ONLY <1>0, <2>1, <2>2
  <2>. QED  BY <2>2, <2>3, Zenon
<1>20. ASSUME NEW e \in SourceEvents,
              ProcessRefused(e) \/ ProcessDuplicateConflict(e)
       PROVE  ResetInv'
  BY <1>20, Zenon DEF ProcessRefused, ProcessDuplicateConflict, Finish, disk
<1>21. ASSUME NEW c \in Commands, ResetDemo(c)
       PROVE  ResetInv'
  <2>1. /\ Binds(reset_ledger(ledger, reset_state(state)), reset_state(state))
        /\ reset_state(state).generation = state.generation + 1
    BY <1>21, ResetKeeps, Zenon DEF ResetDemo, TypeOK, reset_state, ModelStates
  <2>2. state.generation < reset_state(state).generation
    BY ONLY <1>0, <2>1
  <2>3. /\ reset'.before = state /\ reset'.after = reset_state(state)
        /\ reset'.after_ids = reset_ledger(ledger, reset_state(state))
        /\ reset'.command = {c} /\ resetId # {c} /\ reset'.exists
        /\ op' = "reset" /\ pc' = "ResetState" /\ Callable
        /\ UNCHANGED <<present, state, ledger, journal, resetId>>
    BY <1>21, Zenon DEF ResetDemo
  <2>. QED  BY <2>1, <2>2, <2>3, Zenon
<1>22. ASSUME NEW a \in AssessmentIds, NEW kind \in Kinds,
              Deliver(a, kind)
       PROVE  ResetInv'
  BY <1>22, Zenon DEF Deliver, disk, process
<1>23. ASSUME NEW a \in AssessmentIds, NEW kind \in Kinds,
              Acknowledge(a, kind)
       PROVE  ResetInv'
  BY <1>23, Zenon DEF Acknowledge, WriteReceipt
<1>24. ASSUME NEW a \in AssessmentIds, QuarantineBundle(a)
       PROVE  ResetInv'
  BY <1>24, Zenon DEF QuarantineBundle, process
<1>25. CASE Crash \/ FaultInStep
  BY <1>25, Zenon DEF Crash, FaultInStep, Finish, disk
<1>26. CASE FaultInRecover
  BY <1>26, JournalEdits, Zenon DEF FaultInRecover, Finish
<1>27. CASE FaultInInventory
  BY <1>27, Zenon DEF FaultInInventory, Finish, At
<1>28. CASE Upgrade \/ UNCHANGED vars
  <2>1. UNCHANGED <<present, state, ledger, journal, outbox, reset, resetId,
                    ready, op, pc, target>>
    BY <1>28, Zenon DEF Upgrade, vars, disk, process, outside
  <2>. QED  BY <2>1, Zenon
<1>. QED
  BY <1>1, <1>2, <1>3, <1>4, <1>5, <1>6, <1>7, <1>8, <1>9, <1>10, <1>11, Zenon,
     <1>12, <1>13, <1>14, <1>15, <1>16, <1>17, <1>18, <1>19, <1>20, <1>21,
     <1>22, <1>23, <1>24, <1>25, <1>26, <1>27, <1>28 DEF Next, Step, Call,
     Failure

\* Every action of the store, for leaves that look at one variable.
LEMMA ResetWrites ==
    ASSUME TypeOK, JournalFree, [Next]_vars
    PROVE  /\ pc = "ResetState" => state' \in {state, reset.after}
           /\ reset.exists /\ ~ reset'.exists => pc = "ResetRetire"
<1>. DEFINE Goal == /\ pc = "ResetState" => state' \in {state, reset.after}
                    /\ reset.exists /\ ~ reset'.exists => pc = "ResetRetire"
<1>. SUFFICES Goal
  BY Zenon
<1>. USE DEF Callable, At, JournalFree
<1>1. CASE Open
  BY <1>1, Zenon DEF Open, disk
<1>2. CASE OpenState \/ OpenLedger
  BY <1>2, Zenon DEF OpenState, OpenLedger, Continue, At
<1>3. CASE OpenReset \/ OpenResetConflict \/ RecoverNothing
  BY <1>3, Zenon DEF OpenReset, OpenResetConflict, RecoverNothing, Continue,
       Finish, At, disk
<1>4. CASE OpenInventory
  BY <1>4, Zenon DEF OpenInventory, Finish, At
<1>5. CASE RecoverQuarantined \/ RecoverVerify \/ RecoverState
  BY <1>5, Zenon DEF RecoverQuarantined, RecoverVerify, RecoverState, Continue,
       Finish, At, disk
<1>6. CASE RecoverLedger \/ RecoverCommit
  BY <1>6, Zenon DEF RecoverLedger, RecoverCommit, Continue, At
<1>7. CASE RecoverBundle
  BY <1>7, Zenon DEF RecoverBundle, Continue, At
<1>8. CASE RecoverFails
  BY <1>8, Zenon DEF RecoverFails, QuarantinedJournal, Finish
<1>9. CASE WriteState \/ WriteLedger
  BY <1>9, Zenon DEF WriteState, WriteLedger, Continue, At
<1>10. CASE PublishBundle
  BY <1>10, Zenon DEF PublishBundle, Continue, At
<1>11. CASE Commit \/ Verify \/ PersistFails
  BY <1>11, Zenon DEF Commit, Verify, PersistFails, Continue, Finish, At, disk,
       TransactionVerified
<1>12. CASE UnlinkBody \/ UnlinkCommitted
  BY <1>12, Zenon DEF UnlinkBody, UnlinkCommitted, process
<1>13. CASE RemoveJournal \/ SyncTransactions
  BY <1>13, Zenon DEF RemoveJournal, SyncTransactions, Continue, Finish, disk,
       NoJournal
<1>14. CASE ResetState \/ ResetLedger
  BY <1>14, Zenon DEF ResetState, ResetLedger, Continue
<1>15. CASE ResetMark \/ ResetRetire
  BY <1>15, Zenon DEF ResetMark, ResetRetire, Continue, Finish
<1>16. CASE RemoveMessage
  BY <1>16, Zenon DEF RemoveMessage, Continue, Finish
<1>17. CASE SweepManifest \/ SweepAck
  BY <1>17, Zenon DEF SweepManifest, SweepAck, process
<1>18. CASE RemoveBundle
  BY <1>18, Zenon DEF RemoveBundle, Finish
<1>19. ASSUME NEW id \in AssessmentIds, NEW i \in Increments,
              NEW k \in OtherCounts, Process(id, i, k)
       PROVE  Goal
  BY <1>19, Zenon DEF Process, PublishJournal
<1>20. ASSUME NEW e \in SourceEvents,
              ProcessRefused(e) \/ ProcessDuplicateConflict(e)
       PROVE  Goal
  BY <1>20, Zenon DEF ProcessRefused, ProcessDuplicateConflict, Finish, disk
<1>21. ASSUME NEW c \in Commands, ResetDemo(c)
       PROVE  Goal
  BY <1>21, Zenon DEF ResetDemo
<1>22. ASSUME NEW a \in AssessmentIds, NEW kind \in Kinds,
              Deliver(a, kind)
       PROVE  Goal
  BY <1>22, Zenon DEF Deliver, disk, process
<1>23. ASSUME NEW a \in AssessmentIds, NEW kind \in Kinds,
              Acknowledge(a, kind)
       PROVE  Goal
  BY <1>23, Zenon DEF Acknowledge, WriteReceipt
<1>24. ASSUME NEW a \in AssessmentIds, QuarantineBundle(a)
       PROVE  Goal
  BY <1>24, Zenon DEF QuarantineBundle, process
<1>25. CASE Crash \/ FaultInStep
  BY <1>25, Zenon DEF Crash, FaultInStep, Finish, disk
<1>26. CASE FaultInRecover
  BY <1>26, Zenon DEF FaultInRecover, QuarantinedJournal, Finish
<1>27. CASE FaultInInventory
  BY <1>27, Zenon DEF FaultInInventory, Finish, At
<1>28. CASE Upgrade \/ UNCHANGED vars
  BY <1>28, Zenon DEF Upgrade, vars, disk, process, outside
<1>. QED
  BY <1>1, <1>2, <1>3, <1>4, <1>5, <1>6, <1>7, <1>8, <1>9, <1>10, <1>11, Zenon,
     <1>12, <1>13, <1>14, <1>15, <1>16, <1>17, <1>18, <1>19, <1>20, <1>21,
     <1>22, <1>23, <1>24, <1>25, <1>26, <1>27, <1>28 DEF Next, Step, Call,
     Failure

\* A reset changes the state only for a command that is not recorded, and its
\* journal is retired only when the command is recorded and the two files
\* bind: no duplicate, restart or failing call resets twice.
THEOREM ResetsOnce == Spec => ResetOnce
<1>. DEFINE IInv == TypeOK /\ JournalFree /\ ResetInv
<1>1. Init => IInv
  <2>. SUFFICES ASSUME Init PROVE IInv
    BY Zenon
  <2>1. TypeOK
    BY EmptyTypes, InitialTypes, Zenon DEF Init, TypeOK, Ops, Steps
  <2>2. JournalFree
    BY Zenon DEF Init, JournalFree, JournalFreeSteps, ResetSteps, Callable, NoJournal
  <2>3. ResetInv
    BY Zenon DEF Init, ResetInv, FirstStart, GenerationsAdvance, ResetProgress,
         ResetSteps, Callable, At, NoJournal, NoReset
  <2>. QED  BY <2>1, <2>2, <2>3, Zenon
<1>2. IInv /\ [Next]_vars => IInv'
  BY TypeStep, JournalFreeStep, ResetInvStep, Zenon
<1>3. IInv /\ [Next]_vars =>
         [ /\ pc = "ResetState" /\ state' # state => resetId # reset.command
           /\ reset.exists /\ ~ reset'.exists =>
                 resetId = reset.command /\ Binds(ledger, state) ]_vars
  <2>. SUFFICES ASSUME TypeOK, JournalFree, ResetInv, Next
                PROVE  /\ pc = "ResetState" /\ state' # state =>
                             resetId # reset.command
                       /\ reset.exists /\ ~ reset'.exists =>
                             resetId = reset.command /\ Binds(ledger, state)
    BY Zenon DEF vars, disk
  <2>1. ASSUME pc = "ResetState", state' # state
        PROVE  resetId # reset.command
    <3>1. state' \in {state, reset.after}
      BY <2>1, ResetWrites, Zenon
    <3>2. state = reset.before /\ reset.exists
      BY <2>1, <3>1, Zenon DEF ResetInv, ResetProgress, ResetSteps
    <3>3. reset.before.generation \in Nat
      BY GenerationTypes, Zenon
    <3>. QED  BY <3>2, <3>3 DEF ResetInv, GenerationsAdvance
  <2>2. ASSUME reset.exists, ~ reset'.exists
        PROVE  resetId = reset.command /\ Binds(ledger, state)
    <3>1. pc = "ResetRetire"
      BY <2>2, ResetWrites, Zenon
    <3>. QED  BY <2>2, <3>1, Zenon DEF ResetInv, ResetProgress, ResetSteps
  <2>. QED  BY <2>1, <2>2, Zenon
<1>. HIDE DEF IInv
<1>. QED  BY <1>1, <1>2, <1>3, PTL DEF Spec, ResetOnce

-----------------------------------------------------------------------------
(* What a crash leaves on disk can always be explained, as long as no      *)
(* system call fails inside reset_demo().  With such a failure process()   *)
(* runs beside an unfinished reset and the claim is false                  *)
(* (ResetInterference.cfg has the trace).                                  *)

\* Steps of a transaction whose journal is complete.
JournalledSteps ==
    {"WriteState", "WriteLedger", "PublishBundle", "Commit", "Verify",
     "RecoverLedger", "RecoverBundle", "RecoverCommit", "RecoverVerify"}

\* Steps after the one that brought the ledger up to date.
LedgerWritten ==
    {"PublishBundle", "Commit", "Verify", "RecoverBundle", "RecoverCommit",
     "RecoverVerify"}

\* What the transaction journal says of the two files, step by step.
TransactionPhases ==
    /\ Intact => /\ Binds(txn.before_ids, txn.before)
                 /\ Binds(txn.after_ids, txn.after)
    /\ pc \in JournalledSteps => Intact
    /\ pc = "WriteState" => state = txn.before /\ ledger = txn.before_ids
    /\ pc \in JournalledSteps \ {"WriteState"} => state = txn.after
    /\ pc \in {"WriteLedger", "RecoverLedger"} =>
          ledger \in {txn.before_ids, txn.after_ids}
    /\ pc \in LedgerWritten => ledger = txn.after_ids
    /\ pc = "Unlink" => journal.exists /\ Binds(ledger, state)
    /\ pc = "Unlink" => state = txn.after /\ ledger = txn.after_ids

\* What the reset journal says of them, and that the two journals exclude
\* each other.
ResetPhases ==
    /\ reset.exists => /\ Binds(reset.before_ids, reset.before)
                       /\ Binds(reset.after_ids, reset.after)
                       /\ ~ journal.exists
    /\ Callable \/ pc \in JournalFreeSteps \union {"Recover"} => ~ reset.exists
    /\ pc \in ResetSteps => reset.exists
    /\ pc = "ResetState" => ResetApplies
    /\ pc \in ResetSteps \ {"ResetState"} => state = reset.after
    /\ pc = "ResetLedger" => ledger \in {reset.before_ids, reset.after_ids}
    /\ pc \in {"ResetMark", "ResetRetire"} => ledger = reset.after_ids

Phases == TransactionPhases /\ ResetPhases /\ FirstStart /\ DiskExplained

\* Every step of a store whose resets do not fail keeps the phases.
LEMMA PhasesStep ==
    ASSUME TypeOK, JournalFree, Phases, [Next]_vars, "reset" \notin Faulty
    PROVE  Phases'
<1>. USE EmptyTypes
<1>. USE DEF Phases, TransactionPhases, ResetPhases, FirstStart, DiskExplained,
       JournalledSteps, LedgerWritten, JournalFree, JournalFreeSteps,
       ResetSteps, ResetApplies, Callable, Intact, At, txn
<1>1. CASE Open
  BY <1>1, Zenon DEF Open, disk
<1>2. CASE OpenState \/ OpenLedger
  <2>1. state' = state /\ ledger' = ledger
    BY <1>2, Zenon DEF OpenState, OpenLedger, initial_ledger
  <2>. QED  BY <1>2, <2>1, Zenon DEF OpenState, OpenLedger, Continue, At
<1>3. CASE OpenReset \/ OpenResetConflict \/ RecoverNothing
  BY <1>3, Zenon DEF OpenReset, OpenResetConflict, RecoverNothing, Continue,
       Finish, At, disk
<1>4. CASE OpenInventory
  BY <1>4, Zenon DEF OpenInventory, Finish, At
<1>5. CASE RecoverQuarantined \/ RecoverVerify \/ RecoverState
  <2>1. CASE RecoverQuarantined
    BY <2>1, Zenon DEF RecoverQuarantined, Continue, Finish, At, disk
  <2>2. CASE RecoverVerify
    BY <2>2, Zenon DEF RecoverVerify, Continue, Finish, At, disk
  <2>3. CASE RecoverState
    BY <2>3, Zenon DEF RecoverState, Continue, Finish, At, disk
  <2>. QED  BY <1>5, <2>1, <2>2, <2>3, Zenon
<1>6. CASE RecoverLedger \/ RecoverCommit
  BY <1>6, JournalEdits, Zenon DEF RecoverLedger, RecoverCommit, Continue, At
<1>7. CASE RecoverBundle
  BY <1>7, Zenon DEF RecoverBundle, Continue, At
<1>8. CASE RecoverFails
  <2>1. journal.exists
    BY <1>8, Zenon DEF RecoverFails, RecoverConflict
  <2>. QED  BY <1>8, <2>1, JournalEdits, Zenon DEF RecoverFails, Finish
<1>9. CASE WriteState \/ WriteLedger
  <2>1. CASE WriteState
    BY <2>1, Zenon DEF WriteState, Continue, At
  <2>2. CASE WriteLedger
    BY <2>2, Zenon DEF WriteLedger, Continue, At
  <2>. QED  BY <1>9, <2>1, <2>2, Zenon
<1>10. CASE PublishBundle
  BY <1>10, Zenon DEF PublishBundle, Continue, At
<1>11. CASE Commit \/ Verify \/ PersistFails
  <2>1. CASE Commit
    BY <2>1, JournalEdits, Zenon DEF Commit, Continue, At
  <2>2. CASE Verify \/ PersistFails
    BY <2>2, JournalEdits, Zenon DEF Verify, PersistFails, Continue, Finish,
         At, disk
  <2>. QED  BY <1>11, <2>1, <2>2, Zenon
<1>12. CASE UnlinkBody \/ UnlinkCommitted
  <2>1. CASE UnlinkBody
    BY <2>1, JournalEdits, Zenon DEF UnlinkBody, process
  <2>2. CASE UnlinkCommitted
    BY <2>2, JournalEdits, Zenon DEF UnlinkCommitted, process
  <2>. QED  BY <1>12, <2>1, <2>2, Zenon
<1>13. CASE RemoveJournal \/ SyncTransactions
  BY <1>13, JournalEdits DEF RemoveJournal, SyncTransactions, Continue, Finish, disk,
       NoJournal
<1>14. CASE ResetState \/ ResetLedger
  <2>1. CASE ResetState
    BY <2>1, Zenon DEF ResetState, Continue
  <2>2. CASE ResetLedger
    BY <2>2, Zenon DEF ResetLedger, Continue
  <2>. QED  BY <1>14, <2>1, <2>2, Zenon
<1>15. CASE ResetMark \/ ResetRetire
  <2>1. CASE ResetMark
    BY <2>1, Zenon DEF ResetMark, Continue, Finish, NoReset
  <2>2. CASE ResetRetire
    BY <2>2, Zenon DEF ResetRetire, Continue, Finish, NoReset
  <2>. QED  BY <1>15, <2>1, <2>2, Zenon
<1>16. CASE RemoveMessage
  BY <1>16, Zenon DEF RemoveMessage, Continue, Finish
<1>17. CASE SweepManifest \/ SweepAck
  BY <1>17, Zenon DEF SweepManifest, SweepAck, process
<1>18. CASE RemoveBundle
  BY <1>18, Zenon DEF RemoveBundle, Finish
<1>19. ASSUME NEW id \in AssessmentIds, NEW i \in Increments,
              NEW k \in OtherCounts, Process(id, i, k)
       PROVE  Phases'
  <2>1. /\ Binds(ledger, state) /\ id[1] \notin Recent(state)
        /\ ~ journal.exists /\ ~ reset.exists
    BY <1>19, Zenon DEF Process, PublishJournal
  <2>2. Binds(ledger_after(ledger, evaluate(state, id, i), id),
              evaluate(state, id, i))
    BY <2>1, EvaluateBinds, Zenon DEF TypeOK
  <2>3. /\ TransactionFor(id, i, k).before = state
        /\ TransactionFor(id, i, k).before_ids = ledger
        /\ TransactionFor(id, i, k).after = evaluate(state, id, i)
        /\ TransactionFor(id, i, k).after_ids =
              ledger_after(ledger, evaluate(state, id, i), id)
    BY Zenon DEF TransactionFor
  <2>. QED  BY <1>19, <2>1, <2>2, <2>3, Zenon DEF Process, PublishJournal
<1>20. ASSUME NEW e \in SourceEvents,
              ProcessRefused(e) \/ ProcessDuplicateConflict(e)
       PROVE  Phases'
  BY <1>20, Zenon DEF ProcessRefused, ProcessDuplicateConflict, Finish, disk
<1>21. ASSUME NEW c \in Commands, ResetDemo(c)
       PROVE  Phases'
  <2>1. Binds(reset_ledger(ledger, reset_state(state)), reset_state(state))
    BY <1>21, ResetKeeps, Zenon DEF ResetDemo, TypeOK
  <2>. QED  BY <1>21, <2>1, Zenon DEF ResetDemo
<1>22. ASSUME NEW a \in AssessmentIds, NEW kind \in Kinds,
              Deliver(a, kind)
       PROVE  Phases'
  BY <1>22, Zenon DEF Deliver, disk, process
<1>23. ASSUME NEW a \in AssessmentIds, NEW kind \in Kinds,
              Acknowledge(a, kind)
       PROVE  Phases'
  BY <1>23, Zenon DEF Acknowledge, WriteReceipt
<1>24. ASSUME NEW a \in AssessmentIds, QuarantineBundle(a)
       PROVE  Phases'
  BY <1>24, Zenon DEF QuarantineBundle, process
<1>25. CASE Crash \/ FaultInStep
  BY <1>25, Zenon DEF Crash, FaultInStep, Finish, disk
<1>26. CASE FaultInRecover
  BY <1>26, JournalEdits, Zenon DEF FaultInRecover, Finish
<1>27. CASE FaultInInventory
  BY <1>27, Zenon DEF FaultInInventory, Finish, At
<1>28. CASE Upgrade \/ UNCHANGED vars
  <2>1. UNCHANGED <<disk, process>>
    BY <1>28, Zenon DEF Upgrade, vars
  <2>. QED  BY <2>1, Zenon DEF disk, process
<1>. QED
  BY <1>1, <1>2, <1>3, <1>4, <1>5, <1>6, <1>7, <1>8, <1>9, <1>10, <1>11, Zenon,
     <1>12, <1>13, <1>14, <1>15, <1>16, <1>17, <1>18, <1>19, <1>20, <1>21,
     <1>22, <1>23, <1>24, <1>25, <1>26, <1>27, <1>28 DEF Next, Step, Call,
     Failure

\* Before the service first runs the phases hold.
LEMMA InitPhases ==
    ASSUME Init
    PROVE  Phases
<1>1. /\ ~ Intact /\ ~ journal.exists /\ ~ reset.exists
      /\ pc = "Down" /\ op = "none" /\ present = {}
      /\ state = initial_state /\ ledger = initial_ledger
  BY Zenon DEF Init, Intact, NoJournal, NoReset
<1>2. TransactionPhases /\ ResetPhases
  BY <1>1, Zenon DEF TransactionPhases, ResetPhases, JournalledSteps,
       LedgerWritten, JournalFreeSteps, ResetSteps, Callable
<1>3. FirstStart /\ DiskExplained
  BY <1>1, EmptyTypes, Zenon DEF FirstStart, DiskExplained, Callable, At
<1>. QED  BY <1>2, <1>3, Zenon DEF Phases

\* Whatever step of the store a crash or a fault interrupted, state.json and
\* identity-ledger.json bind each other or a journal explains the difference.
THEOREM RecoveryExact ==
    ASSUME "reset" \notin Faulty
    PROVE  Spec => []DiskExplained
<1>. DEFINE IInv == TypeOK /\ JournalFree /\ Phases
<1>1. Init => IInv
  <2>1. Init => TypeOK
    BY EmptyTypes, InitialTypes, Zenon DEF Init, TypeOK, Ops, Steps
  <2>2. Init => JournalFree
    BY DEF Init, JournalFree, JournalFreeSteps, ResetSteps, Callable, NoJournal
  <2>3. Init => Phases
    BY InitPhases, Zenon
  <2>. QED  BY <2>1, <2>2, <2>3, Zenon
<1>2. IInv /\ [Next]_vars => IInv'
  BY TypeStep, JournalFreeStep, PhasesStep, Zenon
<1>3. IInv => DiskExplained
  BY Zenon DEF Phases
<1>. HIDE DEF IInv
<1>. QED  BY <1>1, <1>2, <1>3, PTL DEF Spec

\* What the refinement needs besides the phases: the reset journal holds the
\* reset of its before state, a bundle without manifest has no message left,
\* and acknowledge() does not remove a message of a quarantined bundle.
Attributed ==
    /\ reset.exists => /\ reset.before.generation < MaxGeneration
                       /\ reset.after = reset_state(reset.before)
                       /\ reset.after_ids.entries = reset.before_ids.entries
    /\ \A a \in AssessmentIds :
          outbox[a].exists /\ ~ outbox[a].manifest => outbox[a].messages = {}
    /\ pc = "RemoveMessage" => \A m \in target : ~ outbox[m[1]].quarantined

\* Every step keeps the attributes.
LEMMA AttributedStep ==
    ASSUME TypeOK, JournalFree, MessagesGuarded, Attributed, [Next]_vars
    PROVE  Attributed'
<1>. USE DEF Attributed, outside
<1>0. outbox \in [AssessmentIds -> Bundles] /\ ledger \in Ledgers
  BY Zenon DEF TypeOK
<1>a. \A a \in AssessmentIds :
         outbox[a].exists /\ ~ outbox[a].manifest => outbox[a].messages = {}
  BY Zenon
<1>1. CASE Open
  BY <1>1, Zenon DEF Open, disk
<1>2. CASE OpenState \/ OpenLedger
  BY <1>2, Zenon DEF OpenState, OpenLedger, Continue, At
<1>3. CASE OpenReset \/ OpenResetConflict \/ RecoverNothing
  BY <1>3, Zenon DEF OpenReset, OpenResetConflict, RecoverNothing, Continue,
       Finish, At, disk
<1>4. CASE OpenInventory
  <2>1. \A a \in AssessmentIds : /\ outbox'[a].messages = outbox[a].messages
                                 /\ outbox'[a].exists = outbox[a].exists
                                 /\ outbox'[a].manifest = outbox[a].manifest
    BY <1>0, <1>4, Zenon DEF OpenInventory, Bundles
  <2>. QED  BY <1>4, <2>1 DEF OpenInventory, Finish, At
<1>5. CASE RecoverQuarantined \/ RecoverVerify \/ RecoverState
  BY <1>5, Zenon DEF RecoverQuarantined, RecoverVerify, RecoverState, Continue,
       Finish, At, disk
<1>6. CASE RecoverLedger \/ RecoverCommit
  BY <1>6, Zenon DEF RecoverLedger, RecoverCommit, Continue, At
<1>7. CASE RecoverBundle
  <2>1. \A a \in AssessmentIds : outbox'[a] \in {outbox[a], BundleOf(txn)}
    <3>1. outbox' \in {outbox, [outbox EXCEPT ![txn.id] = BundleOf(txn)]}
      BY <1>7, Zenon DEF RecoverBundle
    <3>. QED  BY ONLY <1>0, <3>1, Zenon
  <2>2. \A a \in AssessmentIds :
           outbox'[a].exists /\ ~ outbox'[a].manifest => outbox'[a].messages = {}
    BY ONLY <1>a, <2>1 DEF BundleOf
  <2>. QED  BY <1>7, <2>2, Zenon DEF RecoverBundle, Continue, At
<1>8. CASE RecoverFails
  BY <1>8, Zenon DEF RecoverFails, Finish
<1>9. CASE WriteState \/ WriteLedger
  BY <1>9, Zenon DEF WriteState, WriteLedger, Continue, At
<1>10. CASE PublishBundle
  <2>1. \A a \in AssessmentIds : outbox'[a] \in {outbox[a], BundleOf(txn)}
    <3>1. outbox' \in {outbox, [outbox EXCEPT ![txn.id] = BundleOf(txn)]}
      BY <1>10, Zenon DEF PublishBundle
    <3>. QED  BY ONLY <1>0, <3>1, Zenon
  <2>2. \A a \in AssessmentIds :
           outbox'[a].exists /\ ~ outbox'[a].manifest => outbox'[a].messages = {}
    BY ONLY <1>a, <2>1 DEF BundleOf
  <2>. QED  BY <1>10, <2>2, Zenon DEF PublishBundle, Continue, At
<1>11. CASE Commit \/ Verify \/ PersistFails
  BY <1>11, Zenon DEF Commit, Verify, PersistFails, Continue, Finish, At, disk,
       TransactionVerified
<1>12. CASE UnlinkBody \/ UnlinkCommitted
  BY <1>12, Zenon DEF UnlinkBody, UnlinkCommitted, process
<1>13. CASE RemoveJournal \/ SyncTransactions
  BY <1>13, Zenon DEF RemoveJournal, SyncTransactions, Continue, Finish, disk,
       NoJournal
<1>14. CASE ResetState \/ ResetLedger
  BY <1>14, Zenon DEF ResetState, ResetLedger, Continue
<1>15. CASE ResetMark \/ ResetRetire
  BY <1>15 DEF ResetMark, ResetRetire, Continue, Finish, NoReset
<1>16. CASE RemoveMessage
  <2>1. PICK m \in target :
           outbox' = [outbox EXCEPT ![m[1]].messages = @ \ {m[2]}]
    BY <1>16, Zenon DEF RemoveMessage
  <2>2. \A a \in AssessmentIds :
           /\ outbox'[a].messages \subseteq outbox[a].messages
           /\ outbox'[a].exists = outbox[a].exists
           /\ outbox'[a].manifest = outbox[a].manifest
    BY <1>0, <2>1, Zenon DEF Bundles
  <2>. QED  BY <1>16, <2>2, Zenon DEF RemoveMessage, Continue, Finish
<1>17. CASE SweepManifest \/ SweepAck
  <2>1. PICK m \in target :
           \/ outbox' = [outbox EXCEPT ![m[1]].manifest = FALSE]
           \/ \E kind \in outbox[m[1]].acks :
                 outbox' = [outbox EXCEPT ![m[1]].acks = @ \ {kind}]
    BY <1>17, Zenon DEF SweepManifest, SweepAck
  <2>2. m[1] \in AssessmentIds /\ outbox[m[1]].messages = {}
    <3>1. pc = "Sweep" /\ target \subseteq AssessmentIds \X Kinds
      BY <1>17, Zenon DEF SweepManifest, SweepAck, TypeOK
    <3>2. outbox[m[1]].messages = {}
      BY <2>1, <3>1, Zenon DEF MessagesGuarded
    <3>. QED  BY ONLY <2>1, <3>1, <3>2, Zenon
  <2>3. \A a \in AssessmentIds :
           /\ outbox'[a].messages = outbox[a].messages
           /\ a # m[1] => outbox'[a] = outbox[a]
    <3>1. CASE outbox' = [outbox EXCEPT ![m[1]].manifest = FALSE]
      BY <1>0, <2>2, <3>1, Zenon DEF Bundles
    <3>2. ASSUME NEW kind, outbox' = [outbox EXCEPT ![m[1]].acks = @ \ {kind}]
          PROVE  \A a \in AssessmentIds :
                    /\ outbox'[a].messages = outbox[a].messages
                    /\ a # m[1] => outbox'[a] = outbox[a]
      BY <1>0, <2>2, <3>2, Zenon DEF Bundles
    <3>. QED  BY ONLY <2>1, <3>1, <3>2, Zenon
  <2>. QED  BY <1>17, <2>2, <2>3, Zenon DEF SweepManifest, SweepAck, process
<1>18. CASE RemoveBundle
  <2>1. \A a \in AssessmentIds : outbox'[a] \in {outbox[a], NoBundle}
    <3>1. PICK m \in target : outbox' = [outbox EXCEPT ![m[1]] = NoBundle]
      BY <1>18, Zenon DEF RemoveBundle
    <3>. QED  BY ONLY <1>0, <3>1, Zenon
  <2>2. \A a \in AssessmentIds :
           outbox'[a].exists /\ ~ outbox'[a].manifest => outbox'[a].messages = {}
    BY ONLY <1>a, <2>1 DEF NoBundle
  <2>. QED  BY <1>18, <2>2, Zenon DEF RemoveBundle, Finish
<1>19. ASSUME NEW id \in AssessmentIds, NEW i \in Increments,
              NEW k \in OtherCounts, Process(id, i, k)
       PROVE  Attributed'
  BY <1>19, Zenon DEF Process, PublishJournal
<1>20. ASSUME NEW e \in SourceEvents,
              ProcessRefused(e) \/ ProcessDuplicateConflict(e)
       PROVE  Attributed'
  BY <1>20, Zenon DEF ProcessRefused, ProcessDuplicateConflict, Finish, disk
<1>21. ASSUME NEW c \in Commands, ResetDemo(c)
       PROVE  Attributed'
  <2>1. reset_ledger(ledger, reset_state(state)).entries = ledger.entries
    BY <1>0, Zenon DEF reset_ledger, Ledgers
  <2>. QED  BY <1>21, <2>1, Zenon DEF ResetDemo
<1>22. ASSUME NEW a \in AssessmentIds, NEW kind \in Kinds,
              Deliver(a, kind)
       PROVE  Attributed'
  BY <1>22, Zenon DEF Deliver, disk, process
<1>23. ASSUME NEW a \in AssessmentIds, NEW kind \in Kinds,
              Acknowledge(a, kind)
       PROVE  Attributed'
  <2>1. \A b \in AssessmentIds :
           /\ outbox'[b].messages = outbox[b].messages
           /\ outbox'[b].exists = outbox[b].exists
           /\ outbox'[b].manifest = outbox[b].manifest
           /\ outbox'[b].quarantined = outbox[b].quarantined
    BY <1>0, <1>23, Zenon DEF Acknowledge, WriteReceipt, Bundles
  <2>. QED  BY <1>23, <2>1 DEF Acknowledge, WriteReceipt
<1>24. ASSUME NEW a \in AssessmentIds, QuarantineBundle(a)
       PROVE  Attributed'
  <2>1. \A b \in AssessmentIds :
           /\ outbox'[b].messages = outbox[b].messages
           /\ outbox'[b].exists = outbox[b].exists
           /\ outbox'[b].manifest = outbox[b].manifest
    BY <1>0, <1>24, Zenon DEF QuarantineBundle, Bundles
  <2>. QED  BY <1>24, <2>1, Zenon DEF QuarantineBundle, process, Callable
<1>25. CASE Crash \/ FaultInStep
  BY <1>25, Zenon DEF Crash, FaultInStep, Finish, disk
<1>26. CASE FaultInRecover
  BY <1>26, Zenon DEF FaultInRecover, Finish
<1>27. CASE FaultInInventory
  <2>1. \A a \in AssessmentIds : /\ outbox'[a].messages = outbox[a].messages
                                 /\ outbox'[a].exists = outbox[a].exists
                                 /\ outbox'[a].manifest = outbox[a].manifest
    BY <1>0, <1>27 DEF FaultInInventory, Bundles
  <2>. QED  BY <1>27, <2>1, Zenon DEF FaultInInventory, Finish
<1>28. CASE Upgrade \/ UNCHANGED vars
  BY <1>28, Zenon DEF Upgrade, vars, disk, process, outside
<1>. QED
  BY <1>1, <1>2, <1>3, <1>4, <1>5, <1>6, <1>7, <1>8, <1>9, <1>10, <1>11, Zenon,
     <1>12, <1>13, <1>14, <1>15, <1>16, <1>17, <1>18, <1>19, <1>20, <1>21,
     <1>22, <1>23, <1>24, <1>25, <1>26, <1>27, <1>28 DEF Next, Step, Call,
     Failure
=============================================================================
