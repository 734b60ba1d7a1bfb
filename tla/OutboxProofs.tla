---------------------------- MODULE OutboxProofs ----------------------------
(***************************************************************************)
(* The outbox of the V2 store, for every set of events, configurations and *)
(* commands, every window length and every outbox budget: a store which    *)
(* answers its callers is clean whatever failed before, and the store      *)
(* implements ModelLedger.                                                 *)
(***************************************************************************)
EXTENDS StateStoreProofs, FiniteSetTheorems

-----------------------------------------------------------------------------
(* A store that serves callers is clean, whichever calls fail.             *)

\* The calls that a ready store runs, and returns from as it was.
Serving == Callable \/ op \in {"process", "reset", "acknowledge"}

\* The bundle that acknowledge() is sweeping.
Swept(a) == pc = "Sweep" /\ \E m \in target : m[1] = a

\* While the store serves, the outbox is within its budget with the messages
\* the running transaction has yet to publish, and only the bundle that
\* acknowledge() is sweeping may lack its manifest.
OutboxServed ==
    /\ IsFiniteSet(Stored)
    /\ Serving =>
          /\ Cardinality(Stored) <= MaxMessages
          /\ \A a \in AssessmentIds :
                BundleReadable(a) \/ Swept(a)
    /\ op = "process" /\ pc \in {"WriteState", "WriteLedger", "PublishBundle"} =>
          (txn.admit => Cardinality(Stored) + Cardinality(messages_of(txn.pair))
                          <= MaxMessages)

\* The messages a transaction publishes.
Published(t) ==
    {<<t.id, kind, t.after.generation>> : kind \in messages_of(t.pair)}

\* A transaction publishes as many messages as its group has kinds, one or
\* two.
LEMMA PublishedSize ==
    ASSUME NEW t
    PROVE  /\ IsFiniteSet(Published(t))
           /\ Cardinality(Published(t)) = Cardinality(messages_of(t.pair))
           /\ Cardinality(Published(t)) \in Nat
<1>. DEFINE first == <<t.id, "assessment", t.after.generation>>
            second == <<t.id, "event", t.after.generation>>
<1>1. ASSUME NEW x, NEW y, x # y
      PROVE  IsFiniteSet({x, y}) /\ Cardinality({x, y}) = 2
  <2>1. {x, y} = {x} \union {y}
    BY Zenon
  <2>2. IsFiniteSet({x}) /\ Cardinality({x}) = 1 /\ y \notin {x}
    BY <1>1, FS_Singleton, Zenon
  <2>. QED  BY <2>1, <2>2, FS_AddElement
<1>2. CASE t.pair
  <2>1. messages_of(t.pair) = {"assessment", "event"}
    BY <1>2, Zenon DEF messages_of, Kinds
  <2>2. Published(t) = {first, second}
    BY <2>1, Zenon DEF Published
  <2>3. first # second
    BY Zenon
  <2>. HIDE DEF first, second
  <2>4. IsFiniteSet({first, second}) /\ Cardinality({first, second}) = 2
    BY <1>1, <2>3, Zenon
  <2>5. Cardinality({"assessment", "event"}) = 2
    BY <1>1, Zenon
  <2>. QED  BY <2>1, <2>2, <2>4, <2>5
<1>3. CASE ~ t.pair
  <2>1. messages_of(t.pair) = {"assessment"}
    BY <1>3, Zenon DEF messages_of
  <2>2. Published(t) = {first}
    BY <2>1, Zenon DEF Published
  <2>. HIDE DEF first
  <2>3. IsFiniteSet({first}) /\ Cardinality({first}) = 1
    BY FS_Singleton, Zenon
  <2>4. Cardinality({"assessment"}) = 1
    BY FS_Singleton, Zenon
  <2>. QED  BY <2>1, <2>2, <2>3, <2>4
<1>. QED  BY <1>2, <1>3, Zenon

\* A step that leaves the messages and what their manifests bind leaves the
\* stored messages.
LEMMA StoredSame ==
    ASSUME \A a \in AssessmentIds :
              /\ outbox'[a].messages = outbox[a].messages
              /\ outbox[a].messages # {} => outbox'[a].after = outbox[a].after
    PROVE  Stored' = Stored
<1>1. ASSUME NEW a \in AssessmentIds
      PROVE  StoredIn(a)' = StoredIn(a)
  BY Zenon DEF StoredIn, Message
<1>. QED  BY <1>1, Zenon DEF Stored

\* Renaming a staged bundle into the outbox adds the transaction's messages.
LEMMA PublishStored ==
    ASSUME TypeOK, MessagesGuarded, NEW t \in Transactions,
           ~ outbox[t.id].exists,
           outbox' = [outbox EXCEPT ![t.id] = BundleOf(t)]
    PROVE  Stored' = Stored \union Published(t)
<1>1. t.id \in AssessmentIds
  BY Zenon DEF Transactions
<1>2. \A a \in AssessmentIds \ {t.id} : StoredIn(a)' = StoredIn(a)
  BY <1>1, Zenon DEF TypeOK, StoredIn, Message
<1>3. StoredIn(t.id) = {}
  BY <1>1, Zenon DEF MessagesGuarded, StoredIn
<1>4. StoredIn(t.id)' = Published(t)
  <2>1. outbox'[t.id] = BundleOf(t)
    BY <1>1, Zenon DEF TypeOK
  <2>. QED  BY <2>1 DEF StoredIn, Message, Published, BundleOf
<1>. QED  BY <1>1, <1>2, <1>3, <1>4, Zenon DEF Stored

\* acknowledge() removes the message it was called for, if it is still there.
LEMMA RemoveStored ==
    ASSUME TypeOK, NEW a \in AssessmentIds, NEW kind,
           outbox' = [outbox EXCEPT ![a].messages = @ \ {kind}]
    PROVE  Stored' = Stored \ {Message(a, kind)}
<1>1. \A b \in AssessmentIds \ {a} : StoredIn(b)' = StoredIn(b)
  BY Zenon DEF TypeOK, StoredIn, Message
<1>2. StoredIn(a)' = StoredIn(a) \ {Message(a, kind)}
  <2>1. /\ outbox'[a].messages = outbox[a].messages \ {kind}
        /\ outbox'[a].after = outbox[a].after
    BY Zenon DEF TypeOK, Bundles
  <2>. QED  BY <2>1 DEF StoredIn, Message
<1>3. \A b \in AssessmentIds \ {a} : Message(a, kind) \notin StoredIn(b)
  BY Zenon DEF StoredIn, Message
<1>. QED  BY <1>1, <1>2, <1>3 DEF Stored

\* A step after which the store does not serve owes the outbox nothing but
\* that it is finite.
LEMMA Unserved ==
    ASSUME OutboxServed, Stored' = Stored, ~ Serving'
    PROVE  OutboxServed'
BY Zenon DEF OutboxServed, Serving

\* A step of a serving store that leaves the outbox alone keeps it in order.
LEMMA ServedQuiet ==
    ASSUME OutboxServed, outbox' = outbox, Serving, pc # "Sweep",
           op' = "process" /\ pc' \in {"WriteState", "WriteLedger", "PublishBundle"} =>
              /\ op = "process" /\ pc \in {"WriteState", "WriteLedger"}
              /\ journal' = journal
    PROVE  OutboxServed'
<1>1. Stored' = Stored
  BY DEF Stored, StoredIn, Message
<1>2. \A a \in AssessmentIds : BundleReadable(a)'
  BY Zenon DEF OutboxServed, Swept, BundleReadable
<1>. QED  BY <1>1, <1>2, Zenon DEF OutboxServed, txn

\* Every step keeps the outbox of a serving store in order.
LEMMA OutboxServedStep ==
    ASSUME TypeOK, JournalFree, MessagesGuarded, StepsPlaced, OutboxServed,
           [Next]_vars
    PROVE  OutboxServed'
<1>t. /\ txn \in Transactions /\ \A m \in target : m[1] \in AssessmentIds
      /\ outbox \in [AssessmentIds -> Bundles]
  BY FieldTypes, Zenon DEF TypeOK
<1>0. outbox' = outbox => Stored' = Stored
  BY DEF Stored, StoredIn, Message
<1>1. CASE Open \/ OpenState \/ OpenLedger \/ OpenReset \/ OpenResetConflict
           \/ RecoverNothing
  BY <1>0, <1>1, Unserved, Zenon DEF Open, OpenState, OpenLedger, OpenReset,
       OpenResetConflict, RecoverNothing, Continue, Finish, At, disk, Serving,
       Callable
<1>2. CASE RecoverQuarantined \/ RecoverVerify \/ RecoverState
           \/ RecoverLedger \/ RecoverCommit \/ RecoverFails \/ FaultInRecover
  BY <1>0, <1>2, Unserved, Zenon DEF RecoverQuarantined, RecoverVerify, RecoverState,
       RecoverLedger, RecoverCommit, RecoverFails, FaultInRecover, Continue,
       Finish, At, disk, Serving, Callable
<1>3. CASE OpenInventory
  <2>1. \A a \in AssessmentIds : /\ outbox'[a].messages = outbox[a].messages
                                 /\ outbox'[a].after = outbox[a].after
                                 /\ outbox'[a].exists = outbox[a].exists
                                 /\ outbox'[a].manifest = outbox[a].manifest
    BY <1>3 DEF OpenInventory, Bundles
  <2>2. Stored' = Stored
    BY <2>1, StoredSame, Zenon
  <2>3. /\ op' = "none"
        /\ Serving' => InventoryVerified
    BY <1>3, Zenon DEF OpenInventory, Finish, Serving, Callable
  <2>4. InventoryVerified => \A a \in AssessmentIds : BundleReadable(a)'
    BY <2>1, Zenon DEF InventoryVerified, BundleReadable
  <2>. QED  BY <2>2, <2>3, <2>4, Zenon DEF OutboxServed, InventoryVerified
<1>4. CASE RecoverBundle
  <2>1. IsFiniteSet(Stored)'
    <3>1. CASE txn.admit /\ ~ outbox[txn.id].exists
      <4>1. Stored' = Stored \union Published(txn)
        BY <1>t, <1>4, <3>1, PublishStored, Zenon DEF RecoverBundle
      <4>. QED  BY <4>1, PublishedSize, FS_Union, Zenon DEF OutboxServed
    <3>2. CASE ~ (txn.admit /\ ~ outbox[txn.id].exists)
      BY <1>0, <1>4, <3>2, Zenon DEF RecoverBundle, OutboxServed
    <3>. QED  BY <3>1, <3>2, Zenon
  <2>2. ~ Serving' /\ op' = "open"
    BY <1>4, Zenon DEF RecoverBundle, Continue, At, Serving, Callable
  <2>. QED  BY <2>1, <2>2, Zenon DEF OutboxServed
<1>5. CASE WriteState \/ WriteLedger
  BY <1>5, ServedQuiet, Zenon DEF WriteState, WriteLedger, Continue, At, Serving
<1>6. CASE PublishBundle
  <2>1. /\ op = "process" /\ op' = "process" /\ pc = "PublishBundle"
        /\ pc' = "Commit" /\ ~ outbox[txn.id].exists
        /\ outbox' = [outbox EXCEPT ![txn.id] = BundleOf(txn)]
    BY <1>6, Zenon DEF PublishBundle, Continue, At
  <2>2. Stored' = Stored \union Published(txn)
    BY <1>t, <2>1, PublishStored, Zenon
  <2>3. IsFiniteSet(Stored) /\ IsFiniteSet(Published(txn))
    BY PublishedSize, Zenon DEF OutboxServed
  <2>4. /\ IsFiniteSet(Stored)'
        /\ Cardinality(Stored') <= Cardinality(Stored) + Cardinality(Published(txn))
    <3>1. Cardinality(Stored \cap Published(txn)) \in Nat
      BY <2>3, FS_Intersection, FS_CardinalityType, Zenon
    <3>2. /\ IsFiniteSet(Stored \union Published(txn))
          /\ Cardinality(Stored \union Published(txn)) =
                Cardinality(Stored) + Cardinality(Published(txn))
                  - Cardinality(Stored \cap Published(txn))
      BY <2>3, FS_Union, Zenon
    <3>3. Cardinality(Stored) \in Nat /\ Cardinality(Published(txn)) \in Nat
      BY <2>3, FS_CardinalityType, Zenon
    <3>. QED  BY <2>2, <3>1, <3>2, <3>3
  <2>5. txn.admit
    BY <2>1, Zenon DEF StepsPlaced
  <2>6. Cardinality(Stored) + Cardinality(Published(txn)) <= MaxMessages
    BY <2>1, <2>5, PublishedSize, Zenon DEF OutboxServed
  <2>7. Cardinality(Stored') <= MaxMessages
    <3>1. /\ Cardinality(Stored) \in Nat /\ Cardinality(Published(txn)) \in Nat
          /\ Cardinality(Stored') \in Nat /\ MaxMessages \in Nat
      BY <2>3, <2>4, FS_CardinalityType, StoreAssumption, Zenon
    <3>. QED  BY <2>4, <2>6, <3>1
  <2>8. \A a \in AssessmentIds : BundleReadable(a)'
    <3>1. \A a \in AssessmentIds : BundleReadable(a)
      BY <2>1, Zenon DEF OutboxServed, Serving, Swept
    <3>2. \A a \in AssessmentIds : outbox'[a] \in {outbox[a], BundleOf(txn)}
      BY <2>1
    <3>. QED  BY <3>1, <3>2 DEF BundleReadable, BundleOf
  <2>. QED  BY <2>1, <2>4, <2>7, <2>8, Zenon DEF OutboxServed
<1>7. CASE Commit \/ Verify \/ PersistFails
  BY <1>0, <1>7, Unserved, ServedQuiet, Zenon DEF Commit, Verify, PersistFails,
       Continue, Finish, At, disk, Serving, Callable
<1>8. CASE UnlinkBody \/ UnlinkCommitted
  <2>1. outbox' = outbox /\ pc = "Unlink" /\ UNCHANGED process
    BY <1>8, Zenon DEF UnlinkBody, UnlinkCommitted
  <2>2. CASE Serving
    BY <2>1, <2>2, ServedQuiet, Zenon DEF process
  <2>3. CASE ~ Serving
    BY <1>0, <2>1, <2>3, Unserved, Zenon DEF process, Serving, Callable
  <2>. QED  BY <2>2, <2>3, Zenon
<1>9. CASE RemoveJournal \/ SyncTransactions
  <2>1. outbox' = outbox /\ pc \in {"Unlink", "Unlinked"}
    BY <1>9, Zenon DEF RemoveJournal, SyncTransactions, disk
  <2>2. CASE op = "process"
    BY <1>9, <2>1, <2>2, ServedQuiet, Zenon DEF RemoveJournal, SyncTransactions,
         Continue, Finish, Serving
  <2>3. CASE op = "open"
    BY <1>0, <1>9, <2>1, <2>3, Unserved, Zenon DEF RemoveJournal, SyncTransactions,
         Continue, Serving, Callable
  <2>. QED  BY <2>1, <2>2, <2>3, Zenon DEF StepsPlaced
<1>10. CASE ResetState \/ ResetLedger \/ ResetMark \/ ResetRetire
  <2>1. /\ outbox' = outbox /\ pc \in ResetSteps /\ op' \in {op, "none"}
        /\ op = "open" => op' = "open" /\ pc' # "Idle"
    BY <1>10, Zenon DEF ResetState, ResetLedger, ResetMark, ResetRetire, Continue,
         Finish, ResetSteps
  <2>2. CASE op = "reset"
    BY <2>1, <2>2, ServedQuiet, Zenon DEF Serving, ResetSteps
  <2>3. CASE op = "open"
    BY <1>0, <2>1, <2>3, Unserved, Zenon DEF Serving, Callable
  <2>. QED  BY <2>1, <2>2, <2>3, Zenon DEF JournalFree
<1>11. CASE RemoveMessage
  <2>1. PICK m \in target :
           /\ outbox' = [outbox EXCEPT ![m[1]].messages = @ \ {m[2]}]
           /\ pc = "RemoveMessage" /\ pc' \in {"Sweep", "Idle"}
           /\ op' \in {"acknowledge", "none"} /\ op = "acknowledge"
    BY <1>11, Zenon DEF RemoveMessage, Continue, Finish, StepsPlaced
  <2>2. m[1] \in AssessmentIds
    BY <1>t, <2>1, Zenon
  <2>3. Stored' = Stored \ {Message(m[1], m[2])}
    BY <2>1, <2>2, RemoveStored, Zenon
  <2>4. IsFiniteSet(Stored)' /\ Cardinality(Stored') <= Cardinality(Stored)
    BY <2>3, FS_Subset, Zenon DEF OutboxServed
  <2>5. Cardinality(Stored') <= MaxMessages
    <3>1. /\ Cardinality(Stored) \in Nat /\ Cardinality(Stored') \in Nat
          /\ MaxMessages \in Nat
      BY <2>4, FS_CardinalityType, StoreAssumption, Zenon DEF OutboxServed
    <3>2. Cardinality(Stored) <= MaxMessages
      BY <2>1, Zenon DEF OutboxServed, Serving
    <3>. QED  BY <2>4, <3>1, <3>2
  <2>6. \A a \in AssessmentIds : BundleReadable(a)'
    <3>1. \A a \in AssessmentIds : BundleReadable(a)
      BY <2>1, Zenon DEF OutboxServed, Serving, Swept
    <3>2. \A a \in AssessmentIds : /\ outbox'[a].exists = outbox[a].exists
                                   /\ outbox'[a].manifest = outbox[a].manifest
      BY <2>1, <2>2 DEF Bundles
    <3>. QED  BY <3>1, <3>2, Zenon DEF BundleReadable
  <2>. QED  BY <2>1, <2>4, <2>5, <2>6, Zenon DEF OutboxServed
<1>12. CASE SweepManifest \/ SweepAck
  <2>1. PICK m \in target :
           \/ outbox' = [outbox EXCEPT ![m[1]].manifest = FALSE]
           \/ \E kind \in outbox[m[1]].acks :
                 outbox' = [outbox EXCEPT ![m[1]].acks = @ \ {kind}]
    BY <1>12, Zenon DEF SweepManifest, SweepAck
  <2>2. m[1] \in AssessmentIds
    BY <1>t, <2>1, Zenon
  <2>3. \A a \in AssessmentIds :
           /\ outbox'[a].messages = outbox[a].messages
           /\ outbox'[a].after = outbox[a].after
           /\ a # m[1] => outbox'[a] = outbox[a]
    <3>1. CASE outbox' = [outbox EXCEPT ![m[1]].manifest = FALSE]
      BY <2>2, <3>1 DEF Bundles
    <3>2. ASSUME NEW kind, outbox' = [outbox EXCEPT ![m[1]].acks = @ \ {kind}]
          PROVE  \A a \in AssessmentIds :
                    /\ outbox'[a].messages = outbox[a].messages
                    /\ outbox'[a].after = outbox[a].after
                    /\ a # m[1] => outbox'[a] = outbox[a]
      BY <2>2, <3>2 DEF Bundles
    <3>. QED  BY ONLY <2>1, <3>1, <3>2, Zenon
  <2>4. Stored' = Stored
    BY <2>3, StoredSame, Zenon
  <2>5. pc = "Sweep" /\ UNCHANGED process /\ Swept(m[1])
    BY <1>12, <2>1, Zenon DEF SweepManifest, SweepAck, Swept
  <2>6. \A a \in AssessmentIds :
           BundleReadable(a) \/ Swept(a) => BundleReadable(a)' \/ Swept(a)'
    BY <2>3, <2>5, Zenon DEF BundleReadable, Swept, process
  <2>. QED  BY <2>4, <2>5, <2>6, Zenon DEF OutboxServed, Serving, Callable, process
<1>13. CASE RemoveBundle
  <2>1. PICK m \in target : /\ outbox' = [outbox EXCEPT ![m[1]] = NoBundle]
                            /\ pc = "Sweep" /\ op' = "none" /\ pc' = "Idle"
    BY <1>13, Zenon DEF RemoveBundle, Finish
  <2>2. m[1] \in AssessmentIds /\ target = {m}
    BY <1>t, <2>1, Zenon DEF MessagesGuarded
  <2>3. outbox[m[1]].messages = {}
    BY <2>1, Zenon DEF MessagesGuarded
  <2>4. Stored' = Stored
    <3>1. \A a \in AssessmentIds :
             /\ outbox'[a].messages = outbox[a].messages
             /\ outbox[a].messages # {} => outbox'[a].after = outbox[a].after
      <4>1. /\ outbox'[m[1]].messages = {}
            /\ \A a \in AssessmentIds \ {m[1]} : outbox'[a] = outbox[a]
        BY <1>t, <2>1, <2>2, Zenon DEF NoBundle
      <4>. QED  BY <2>3, <4>1, Zenon
    <3>. QED  BY <3>1, StoredSame, Zenon
  <2>5. Serving
    BY <2>1, Zenon DEF Serving, StepsPlaced
  <2>6. \A a \in AssessmentIds : BundleReadable(a)'
    <3>1. \A a \in AssessmentIds : a = m[1] \/ BundleReadable(a)
      BY <2>2, <2>5, Zenon DEF OutboxServed, Swept
    <3>. QED  BY <1>t, <2>1, <2>2, <3>1, Zenon DEF BundleReadable, NoBundle
  <2>. QED  BY <2>1, <2>4, <2>5, <2>6, Zenon DEF OutboxServed
<1>14. ASSUME NEW id \in AssessmentIds, NEW i \in Increments,
              NEW k \in OtherCounts, Process(id, i, k)
       PROVE  OutboxServed'
  <2>. DEFINE t == TransactionFor(id, i, k)
  <2>1. /\ outbox' = outbox /\ txn' = t /\ InventoryVerified
        /\ op' = "process" /\ pc' = "WriteState"
    BY <1>14, Zenon DEF Process, PublishJournal, txn
  <2>2. Stored' = Stored
    BY <1>0, <2>1, Zenon
  <2>3. t.admit => derived_outbox_admissible(Cardinality(Stored) + k,
                                             Cardinality(messages_of(t.pair)))
    BY Zenon DEF TransactionFor
  <2>. HIDE DEF t
  <2>4. Cardinality(messages_of(t.pair)) \in Nat
    BY PublishedSize, Zenon
  <2>5. Cardinality(Stored) \in Nat /\ k \in Nat /\ MaxMessages \in Nat
    BY FS_CardinalityType, StoreAssumption, Zenon DEF OutboxServed
  <2>6. t.admit => Cardinality(Stored) + Cardinality(messages_of(t.pair))
                     <= MaxMessages
    BY <2>3, <2>4, <2>5 DEF derived_outbox_admissible
  <2>7. \A a \in AssessmentIds : BundleReadable(a)'
    BY <2>1, Zenon DEF InventoryVerified, BundleReadable
  <2>. QED  BY <2>1, <2>2, <2>6, <2>7, Zenon DEF OutboxServed, InventoryVerified
<1>15. ASSUME NEW e \in SourceEvents,
              ProcessRefused(e) \/ ProcessDuplicateConflict(e)
       PROVE  OutboxServed'
  BY <1>0, <1>15, Unserved, Zenon DEF ProcessRefused, ProcessDuplicateConflict,
       Finish, disk, Serving, Callable
<1>16. ASSUME NEW c \in Commands, ResetDemo(c)
       PROVE  OutboxServed'
  BY <1>16, ServedQuiet, Zenon DEF ResetDemo, Callable, Serving
<1>17. ASSUME NEW a \in AssessmentIds, NEW kind \in Kinds, Deliver(a, kind)
       PROVE  OutboxServed'
  BY <1>17, ServedQuiet, Zenon DEF Deliver, Callable, Serving, disk, process
<1>18. ASSUME NEW a \in AssessmentIds, NEW kind \in Kinds,
              Acknowledge(a, kind) \/ QuarantineBundle(a)
       PROVE  OutboxServed'
  <2>1. \A b \in AssessmentIds : /\ outbox'[b].messages = outbox[b].messages
                                 /\ outbox'[b].after = outbox[b].after
                                 /\ outbox'[b].exists = outbox[b].exists
                                 /\ outbox'[b].manifest = outbox[b].manifest
    <3>1. CASE Acknowledge(a, kind)
      BY <3>1 DEF Acknowledge, WriteReceipt, Bundles
    <3>2. CASE QuarantineBundle(a)
      BY <3>2 DEF QuarantineBundle, Bundles
    <3>. QED  BY <1>18, <3>1, <3>2, Zenon
  <2>2. Stored' = Stored
    BY <2>1, StoredSame, Zenon
  <2>3. InventoryVerified /\ op' # "process"
    BY <1>18, Zenon DEF Acknowledge, WriteReceipt, QuarantineBundle, process,
         Callable, JournalFree
  <2>4. \A b \in AssessmentIds : BundleReadable(b)'
    BY <2>1, <2>3, Zenon DEF InventoryVerified, BundleReadable
  <2>. QED  BY <2>2, <2>3, <2>4, Zenon DEF OutboxServed, InventoryVerified
<1>19. CASE Crash
  BY <1>0, <1>19, Unserved, Zenon DEF Crash, disk, Serving, Callable
<1>20. CASE FaultInStep
  <2>1. outbox' = outbox /\ op' = "none" /\ pc' = "Idle"
        /\ ready' = (op = "reset" /\ ready)
    BY <1>20, Zenon DEF FaultInStep, Finish, disk
  <2>2. CASE op = "reset"
    BY <2>1, <2>2, ServedQuiet, Zenon DEF Serving, JournalFree, ResetSteps
  <2>3. CASE op # "reset"
    BY <1>0, <2>1, <2>3, Unserved, Zenon DEF Serving, Callable
  <2>. QED  BY <2>2, <2>3, Zenon
<1>21. CASE FaultInInventory
  <2>1. \A a \in AssessmentIds : /\ outbox'[a].messages = outbox[a].messages
                                 /\ outbox'[a].after = outbox[a].after
    BY <1>t, <1>21 DEF FaultInInventory, Bundles
  <2>. QED
    BY <1>21, <2>1, StoredSame, Unserved, Zenon DEF FaultInInventory, Finish,
         Serving, Callable
<1>22. CASE Upgrade \/ UNCHANGED vars
  <2>1. UNCHANGED <<disk, process>>
    BY <1>22, Zenon DEF Upgrade, vars
  <2>2. \A a \in AssessmentIds : /\ BundleReadable(a)' <=> BundleReadable(a)
                                 /\ Swept(a)' <=> Swept(a)
    BY <2>1, Zenon DEF disk, process, BundleReadable, Swept
  <2>. QED
    BY <1>0, <2>1, <2>2, Zenon DEF disk, process, OutboxServed, Serving, Callable, txn
<1>. QED
  BY <1>1, <1>2, <1>3, <1>4, <1>5, <1>6, <1>7, <1>8, <1>9, <1>10, <1>11,
     <1>12, <1>13, <1>14, <1>15, <1>16, <1>17, <1>18, <1>19, <1>20, <1>21,
     <1>22, Zenon DEF Next, Step, Call, Failure, Kinds

\* Before the service first runs nothing is served.
LEMMA InitServed ==
    ASSUME Init
    PROVE  TypeOK /\ JournalFree /\ MessagesGuarded /\ FilesPlaced /\ OutboxServed
<1>1. TypeOK
  BY EmptyTypes, InitialTypes, Zenon DEF Init, TypeOK, Ops, Steps
<1>2. JournalFree
  BY Zenon DEF Init, JournalFree, JournalFreeSteps, ResetSteps, Callable, NoJournal
<1>3. MessagesGuarded
  BY Zenon DEF Init, MessagesGuarded, NoBundle
<1>4. FilesPlaced
  BY Zenon DEF Init, FilesPlaced, StepsPlaced, FilesServed, Callable
<1>5. Stored = {}
  BY Zenon DEF Init, Stored, StoredIn, NoBundle
<1>6. OutboxServed
  BY <1>5, FS_EmptySet, Zenon DEF Init, OutboxServed, Serving, Callable
<1>. QED  BY <1>1, <1>2, <1>3, <1>4, <1>6, Zenon

\* A store that answers callers has no unfinished transaction, can read
\* every bundle, is within its budget, and holds a state its ledger binds
\* unless a failed reset awaits the next start: whichever call of the
\* constructor, of process(), of acknowledge() or of reset_demo() failed
\* before, and wherever the service was killed.
THEOREM ReadyStoreClean == Spec => []ReadyIsClean
<1>. DEFINE IInv == /\ TypeOK /\ JournalFree /\ MessagesGuarded
                    /\ FilesPlaced /\ OutboxServed
<1>1. Init => IInv
  BY InitServed, Zenon
<1>2. IInv /\ [Next]_vars => IInv'
  BY TypeStep, JournalFreeStep, MessagesGuardedStep, FilesServedStep,
     OutboxServedStep, Zenon DEF FilesPlaced
<1>3. IInv => ReadyIsClean
  BY Zenon DEF ReadyIsClean, JournalFree, FilesPlaced, FilesServed, OutboxServed,
       Serving, Swept, Callable, InventoryVerified
<1>. HIDE DEF IInv
<1>. QED  BY <1>1, <1>2, <1>3, PTL DEF Spec

-----------------------------------------------------------------------------
(* The store implements the ledger it promises.                            *)

\* What the store shows of the ledger: the model state and the entries a
\* reader may rely on, and the messages held back.
Model == IF Intact THEN txn.after ELSE state
Entries == IF Intact THEN txn.after_ids.entries ELSE ledger.entries
Held == UNION {StoredIn(a) : a \in {b \in AssessmentIds : outbox[b].quarantined}}

\* A step that changes nothing the ledger shows is a stuttering step of it.
LEMMA Stutters ==
    ASSUME Model' = Model, Entries' = Entries, Kept' = Kept, Held' = Held,
           backend' = backend
    PROVE  UNCHANGED Ledger!vars
BY Zenon DEF Ledger!vars, Model, Entries, Held

\* A step that leaves the outbox, and the files an intact journal does not
\* stand for, changes nothing the ledger shows.
LEMMA FilesQuiet ==
    ASSUME outbox' = outbox, backend' = backend, Intact' = Intact,
           Intact => txn' = txn,
           Intact \/ (state' = state /\ ledger'.entries = ledger.entries)
    PROVE  UNCHANGED Ledger!vars
<1>1. Model' = Model /\ Entries' = Entries
  BY Zenon DEF Model, Entries
<1>2. Stored' = Stored /\ Held' = Held
  BY DEF Stored, Held, StoredIn, Message
<1>3. Journalled' = Journalled
  BY Zenon DEF Journalled
<1>. QED  BY <1>1, <1>2, <1>3, Stutters, Zenon DEF Kept

\* A step that leaves the files, the messages and what is quarantined of
\* them changes nothing the ledger shows.
LEMMA OutboxQuiet ==
    ASSUME state' = state, ledger' = ledger, journal' = journal,
           backend' = backend, Kept' = Kept,
           \A a \in AssessmentIds :
              outbox[a].quarantined /\ StoredIn(a) # {} =>
                 outbox'[a].quarantined /\ StoredIn(a)' = StoredIn(a),
           \A a \in AssessmentIds :
              outbox'[a].quarantined /\ StoredIn(a)' # {} =>
                 outbox[a].quarantined /\ StoredIn(a)' = StoredIn(a)
    PROVE  UNCHANGED Ledger!vars
<1>1. Model' = Model /\ Entries' = Entries
  BY Zenon DEF Model, Entries, Intact, txn
<1>2. Held' = Held
  BY Zenon DEF Held
<1>. QED  BY <1>1, <1>2, Stutters, Zenon

\* The ledger computes what the store computes.
LEMMA SameComputations ==
    /\ \A s, id, i : Ledger!evaluate(s, id, i) = evaluate(s, id, i)
    /\ \A s : Ledger!reset_state(s) = reset_state(s)
    /\ \A s : Ledger!Recent(s) = Recent(s) /\ Ledger!Band(s) = Band(s)
    /\ \A q, x : Ledger!Remember(q, x) = Remember(q, x)
    /\ Ledger!initial_state = initial_state
    /\ Ledger!AssessmentIds = AssessmentIds
BY Zenon DEF Ledger!evaluate, evaluate, Ledger!reset_state, reset_state,
     Ledger!Recent, Recent, Ledger!Band, Band, Ledger!band_for_score,
     band_for_score, Ledger!Remember, Remember, Ledger!WearAfter, WearAfter,
     Ledger!initial_state, initial_state, Ledger!AssessmentIds, AssessmentIds

\* The ledger counts as the store counts.
LEMMA SameCardinality ==
    ASSUME NEW S
    PROVE  Ledger!Cardinality(S) = Cardinality(S)
BY Zenon DEF Ledger!Cardinality, Cardinality

\* The invariant under which every step of the store is one of the ledger.
StoreInv ==
    /\ TypeOK /\ JournalFree /\ MessagesGuarded /\ FilesPlaced /\ OutboxServed
    /\ Phases /\ Attributed

\* process() publishes its journal: the ledger assesses the episode, and
\* queues its group or none of it.
LEMMA ProcessAssesses ==
    ASSUME StoreInv, NEW id \in AssessmentIds, NEW i \in Increments,
           NEW k \in OtherCounts, Process(id, i, k)
    PROVE  Ledger!Assess(id, i)
<1>. DEFINE t == TransactionFor(id, i, k)
            after == evaluate(state, id, i)
<1>1. /\ Callable /\ id[1] \notin Recent(state)
      /\ state.generation < MaxGeneration
      /\ outbox' = outbox /\ backend' = backend
      /\ journal' = [exists |-> TRUE, body |-> TRUE, committed |-> FALSE,
                     quarantined |-> FALSE, txn |-> t]
  BY Zenon DEF Process, PublishJournal, outside
<1>2. /\ ~ Intact /\ Model = state /\ Entries = ledger.entries /\ Kept = Stored
  BY <1>1, Zenon DEF StoreInv, JournalFree, Intact, Model, Entries, Kept, Journalled
<1>3. Intact' /\ txn' = t
  BY <1>1, Zenon DEF Intact, txn
<1>4. /\ t.id = id /\ t.after = after
      /\ t.after_ids = ledger_after(ledger, after, id)
  BY Zenon DEF TransactionFor
<1>4a. t.pair = (Band(after) # Band(state))
  BY Zenon DEF TransactionFor
<1>4b. t.admit => derived_outbox_admissible(Cardinality(Stored) + k,
                                            Cardinality(messages_of(t.pair)))
  BY Zenon DEF TransactionFor
<1>. HIDE DEF t, after
<1>5. Model' = after /\ Held' = Held /\ Stored' = Stored
  BY <1>1, <1>3, <1>4 DEF Model, Held, Stored, StoredIn, Message
<1>6. Entries' = Remember(ledger.entries, [source_event_id |-> id[1],
                                           assessment_id |-> id])
  BY <1>3, <1>4 DEF Entries, ledger_after
<1>7. Ledger!Group(id, state, after) = Published(t)
  <2>1. messages_of(t.pair) = IF Band(after) # Band(state)
                              THEN {"assessment", "event"} ELSE {"assessment"}
    BY <1>4a, Zenon DEF messages_of, Kinds
  <2>2. Ledger!Band(after) = Band(after) /\ Ledger!Band(state) = Band(state)
    BY SameComputations, Zenon
  <2>3. Published(t) = {<<id, kind, after.generation>> : kind \in messages_of(t.pair)}
    BY <1>4, Zenon DEF Published
  <2>. QED  BY <2>1, <2>2, <2>3, Zenon DEF Ledger!Group
<1>8. t.admit => /\ Cardinality(Kept) + Cardinality(Published(t)) <= MaxMessages
                 /\ Kept' = Kept \union Published(t)
  <2>1. /\ Cardinality(Stored) \in Nat /\ k \in Nat /\ MaxMessages \in Nat
        /\ Cardinality(Published(t)) \in Nat
        /\ Cardinality(Published(t)) = Cardinality(messages_of(t.pair))
    BY FS_CardinalityType, StoreAssumption, PublishedSize, Zenon
       DEF StoreInv, OutboxServed
  <2>2. t.admit => Cardinality(Stored) + Cardinality(Published(t)) <= MaxMessages
    BY <1>4b, <2>1 DEF derived_outbox_admissible
  <2>3. t.admit => Journalled' = Published(t)
    BY <1>3, Zenon DEF Journalled, Published
  <2>. QED  BY <1>2, <1>5, <2>2, <2>3, Zenon DEF Kept
<1>9. ~ t.admit => Kept' = Kept
  BY <1>2, <1>3, <1>5, Zenon DEF Kept, Journalled
<1>10. /\ Ledger!evaluate(Model, id, i) = after
       /\ Ledger!Recent(Model) = Recent(state)
       /\ \A q, x : Ledger!Remember(q, x) = Remember(q, x)
  BY <1>2, SameComputations, Zenon DEF after
<1>11. Ledger!Assess(id, i) <=>
         LET next  == Ledger!evaluate(Model, id, i)
             group == Ledger!Group(id, Model, next)
         IN  /\ id[1] \notin Ledger!Recent(Model)
             /\ Model.generation < MaxGeneration
             /\ Model' = next
             /\ Entries' = Ledger!Remember(Entries,
                              [source_event_id |-> id[1], assessment_id |-> id])
             /\ \/ /\ Cardinality(Kept) + Cardinality(group) <= MaxMessages
                   /\ Kept' = Kept \union group
                \/ UNCHANGED Kept
             /\ UNCHANGED <<Held, backend>>
  BY SameCardinality, Zenon DEF Ledger!Assess, Model, Entries, Held
<1>. QED
  BY <1>1, <1>2, <1>5, <1>6, <1>7, <1>8, <1>9, <1>10, <1>11, SMTT(30)

\* The reset writes state.json: the ledger resets, once.
LEMMA ResetResets ==
    ASSUME StoreInv, ResetState
    PROVE  Ledger!Reset \/ UNCHANGED Ledger!vars
<1>1. /\ pc = "ResetState" /\ state' = reset.after /\ ledger' = ledger
      /\ outbox' = outbox /\ backend' = backend /\ journal' = journal
  BY Zenon DEF ResetState, outside
<1>2. reset.exists /\ ~ journal.exists /\ state \in {reset.before, reset.after}
  BY <1>1, Zenon DEF StoreInv, Phases, ResetPhases, ResetSteps, ResetApplies
<1>3. ~ Intact /\ ~ Intact'
  BY <1>1, <1>2, Zenon DEF Intact
<1>4. CASE state = reset.after
  <2>1. Intact' = Intact /\ state' = state /\ ledger'.entries = ledger.entries
    BY <1>1, <1>3, <1>4, Zenon DEF Intact
  <2>. QED  BY <1>1, <1>3, <2>1, FilesQuiet, Zenon
<1>5. CASE state = reset.before
  <2>1. /\ state.generation < MaxGeneration
        /\ state' = reset_state(state)
    BY <1>1, <1>2, <1>5, Zenon DEF StoreInv, Attributed
  <2>2. Model = state /\ Model' = state' /\ Entries' = Entries
    BY <1>1, <1>3, Zenon DEF Model, Entries
  <2>3. Stored' = Stored /\ Held' = Held /\ Journalled = {} /\ Journalled' = {}
    BY <1>1, <1>3 DEF Stored, Held, StoredIn, Message, Journalled
  <2>4. Kept' = Kept
    BY <2>3, Zenon DEF Kept
  <2>5. Ledger!reset_state(Model) = reset_state(state)
    BY <2>2, SameComputations, Zenon
  <2>. QED
    <3>1. Ledger!Reset <=>
             /\ Model.generation < MaxGeneration
             /\ Model' = Ledger!reset_state(Model)
             /\ UNCHANGED <<Entries, Kept, Held, backend>>
      BY Zenon DEF Ledger!Reset, Model, Entries, Held
    <3>. QED  BY <1>1, <2>1, <2>2, <2>3, <2>4, <2>5, <3>1, Zenon
<1>. QED  BY <1>2, <1>4, <1>5, Zenon

\* The backend takes a message: it was queued, and not held.
LEMMA DeliverStores ==
    ASSUME StoreInv, NEW a \in AssessmentIds, NEW kind \in Kinds,
           Deliver(a, kind)
    PROVE  /\ Message(a, kind) \in Kept
           /\ Ledger!Store(Message(a, kind))
<1>1. /\ kind \in outbox[a].messages /\ ~ outbox[a].quarantined
      /\ backend' = backend \union {Message(a, kind)}
      /\ UNCHANGED disk
  BY Zenon DEF Deliver
<1>2. Message(a, kind) \in Stored
  BY <1>1 DEF Stored, StoredIn
<1>3. Message(a, kind) \notin Held
  BY <1>1 DEF Held, StoredIn, Message
<1>4. /\ Model' = Model /\ Entries' = Entries /\ Kept' = Kept /\ Held' = Held
  BY <1>1 DEF disk, Model, Entries, Kept, Held, Stored, StoredIn, Message,
       Journalled, Intact, txn
<1>. QED
  BY <1>1, <1>2, <1>3, <1>4, Zenon DEF Ledger!Store, Model, Entries, Kept, Held

\* acknowledge() removes a message: the backend has it and it was not held.
LEMMA RemoveRetires ==
    ASSUME StoreInv, RemoveMessage
    PROVE  \/ UNCHANGED Ledger!vars
           \/ \E m \in Kept : Ledger!Retire(m)
<1>1. PICK x \in target :
         outbox' = [outbox EXCEPT ![x[1]].messages = @ \ {x[2]}]
  BY Zenon DEF RemoveMessage
<1>2. /\ pc = "RemoveMessage" /\ state' = state /\ ledger' = ledger
      /\ journal' = journal /\ backend' = backend
  BY Zenon DEF RemoveMessage, outside
<1>3. x[1] \in AssessmentIds /\ outbox \in [AssessmentIds -> Bundles]
  BY <1>1, Zenon DEF StoreInv, TypeOK
<1>. DEFINE m == Message(x[1], x[2])
<1>4. m \in backend /\ ~ outbox[x[1]].quarantined
  BY <1>1, <1>2, Zenon DEF StoreInv, MessagesGuarded, Attributed
<1>5. ~ Intact /\ ~ Intact'
  BY <1>2, Zenon DEF StoreInv, JournalFree, JournalFreeSteps, Intact
<1>6. Stored' = Stored \ {m}
  BY <1>1, <1>3, RemoveStored, Zenon DEF StoreInv
<1>7. Kept = Stored /\ Kept' = Stored'
  BY <1>5, Zenon DEF Kept, Journalled
<1>8. \A a \in AssessmentIds :
         /\ outbox'[a].quarantined = outbox[a].quarantined
         /\ outbox[a].quarantined => StoredIn(a)' = StoredIn(a)
  <2>1. \A a \in AssessmentIds : a # x[1] => outbox'[a] = outbox[a]
    BY <1>1, <1>3, Zenon
  <2>2. outbox'[x[1]].quarantined = outbox[x[1]].quarantined
    BY <1>1, <1>3, Zenon DEF Bundles
  <2>. QED  BY <1>4, <2>1, <2>2 DEF StoredIn, Message
<1>9. Held' = Held /\ Model' = Model /\ Entries' = Entries
  BY <1>2, <1>5, <1>8, Zenon DEF Held, Model, Entries
<1>10. m \notin Held
  BY <1>4 DEF Held, StoredIn, Message
<1>. HIDE DEF m
<1>11. CASE m \in Stored
  BY <1>2, <1>4, <1>6, <1>7, <1>9, <1>10, <1>11, Zenon
     DEF Ledger!Retire, Model, Entries, Held
<1>12. CASE m \notin Stored
  <2>1. Kept' = Kept
    BY <1>6, <1>7, <1>12, Zenon
  <2>. QED  BY <1>2, <1>9, <2>1, Stutters, Zenon
<1>. QED  BY <1>11, <1>12, Zenon

\* Quarantining a bundle holds its messages.
LEMMA QuarantineHolds ==
    ASSUME StoreInv, NEW a \in AssessmentIds, ~ journal.exists,
           outbox' = [outbox EXCEPT ![a].quarantined = TRUE],
           UNCHANGED <<state, ledger, journal, backend>>
    PROVE  Ledger!Hold(a)
<1>1. ~ Intact /\ ~ Intact'
  BY Zenon DEF Intact
<1>2. outbox \in [AssessmentIds -> Bundles]
  BY Zenon DEF StoreInv, TypeOK
<1>3. \A b \in AssessmentIds :
         /\ StoredIn(b)' = StoredIn(b)
         /\ outbox'[b].quarantined <=> outbox[b].quarantined \/ b = a
  BY <1>2, Zenon DEF StoredIn, Message, Bundles
<1>4. Stored' = Stored /\ Kept = Stored /\ Kept' = Stored'
  BY <1>1, <1>3, Zenon DEF Stored, Kept, Journalled
<1>5. Held' = Held \union StoredIn(a)
  BY <1>3, Zenon DEF Held
<1>6. {m \in Stored : m[1] = a} = StoredIn(a)
  BY DEF Stored, StoredIn, Message
<1>7. Model' = Model /\ Entries' = Entries
  BY <1>1, Zenon DEF Model, Entries
<1>. QED
  BY <1>4, <1>5, <1>6, <1>7, Zenon DEF Ledger!Hold, Model, Entries, Held

\* A bundle reaches the outbox: its messages were queued with the journal.
LEMMA PublishQuiet ==
    ASSUME StoreInv, Intact, txn.admit, ~ outbox[txn.id].exists,
           outbox' = [outbox EXCEPT ![txn.id] = BundleOf(txn)],
           UNCHANGED <<state, ledger, journal, backend>>
    PROVE  UNCHANGED Ledger!vars
<1>1. txn \in Transactions /\ txn.id \in AssessmentIds
  BY FieldTypes, Zenon DEF StoreInv
<1>2. Stored' = Stored \union Published(txn)
  BY <1>1, PublishStored, Zenon DEF StoreInv
<1>3. Journalled = Published(txn) /\ Journalled' = Journalled
  BY Zenon DEF Journalled, Published, Intact, txn
<1>4. Kept' = Kept
  BY <1>2, <1>3, Zenon DEF Kept
<1>5. \A a \in AssessmentIds : a # txn.id => outbox'[a] = outbox[a]
  BY Zenon DEF StoreInv, TypeOK
<1>6. ~ outbox'[txn.id].quarantined
  BY <1>1, Zenon DEF StoreInv, TypeOK, BundleOf
<1>7. StoredIn(txn.id) = {}
  BY <1>1, Zenon DEF StoreInv, MessagesGuarded, StoredIn
<1>8. \A a \in AssessmentIds : a # txn.id => StoredIn(a)' = StoredIn(a)
  BY <1>5, Zenon DEF StoredIn, Message
<1>. QED  BY <1>4, <1>5, <1>6, <1>7, <1>8, OutboxQuiet, Zenon

\* A change of a bundle directory that touches neither its messages nor its
\* marker shows nothing.
LEMMA BundleQuiet ==
    ASSUME UNCHANGED <<state, ledger, journal, backend>>,
           \A a \in AssessmentIds :
              /\ outbox'[a].messages = outbox[a].messages
              /\ outbox[a].messages # {} =>
                    /\ outbox'[a].after = outbox[a].after
                    /\ outbox'[a].quarantined = outbox[a].quarantined
    PROVE  UNCHANGED Ledger!vars
<1>1. Stored' = Stored
  BY StoredSame, Zenon
<1>2. Journalled' = Journalled
  BY Zenon DEF Journalled, Intact, txn
<1>3. Kept' = Kept
  BY <1>1, <1>2, Zenon DEF Kept
<1>4. \A a \in AssessmentIds : StoredIn(a)' = StoredIn(a)
  BY Zenon DEF StoredIn, Message
<1>5. \A a \in AssessmentIds : StoredIn(a) # {} => outbox[a].messages # {}
  BY Zenon DEF StoredIn
<1>. QED  BY <1>3, <1>4, <1>5, OutboxQuiet, Zenon

\* Every step of the store is a step of the ledger or none.
LEMMA LedgerStep ==
    ASSUME StoreInv, [Next]_vars
    PROVE  Ledger!Next \/ UNCHANGED Ledger!vars
<1>. USE DEF outside
<1>0. /\ TypeOK /\ JournalFree /\ journal \in Journals
      /\ outbox \in [AssessmentIds -> Bundles]
  BY Zenon DEF StoreInv, TypeOK
<1>1. CASE Open \/ OpenReset \/ OpenResetConflict \/ RecoverNothing
           \/ RecoverQuarantined \/ RecoverVerify \/ Verify \/ PersistFails
           \/ SyncTransactions \/ Crash \/ FaultInStep
           \/ (\E e \in SourceEvents :
                 ProcessRefused(e) \/ ProcessDuplicateConflict(e))
           \/ Upgrade \/ UNCHANGED vars
  <2>1. UNCHANGED <<disk, backend>>
    BY <1>1, Zenon DEF Open, OpenReset, OpenResetConflict, RecoverNothing,
         RecoverQuarantined, RecoverVerify, Verify, PersistFails,
         SyncTransactions, Crash, FaultInStep, ProcessRefused,
         ProcessDuplicateConflict, Upgrade, vars
  <2>2. Intact' = Intact /\ txn' = txn
    BY <2>1, Zenon DEF disk, Intact, txn
  <2>. QED  BY <2>1, <2>2, FilesQuiet, Zenon DEF disk
<1>2. CASE OpenState \/ OpenLedger
  <2>1. state' = state /\ ledger' = ledger
    BY <1>2, Zenon DEF OpenState, OpenLedger, initial_ledger, StoreInv, Phases,
         FirstStart
  <2>2. UNCHANGED <<outbox, backend, journal>>
    BY <1>2, Zenon DEF OpenState, OpenLedger
  <2>3. Intact' = Intact /\ txn' = txn
    BY <2>2, Zenon DEF Intact, txn
  <2>. QED  BY <2>1, <2>2, <2>3, FilesQuiet, Zenon
<1>3. CASE OpenInventory
  <2>1. UNCHANGED <<state, ledger, journal, backend>>
    BY <1>3, Zenon DEF OpenInventory
  <2>2. \A a \in AssessmentIds :
           /\ outbox'[a].messages = outbox[a].messages
           /\ outbox'[a].after = outbox[a].after
           /\ BundleReadable(a) => outbox'[a].quarantined = outbox[a].quarantined
    BY <1>0, <1>3, Zenon DEF OpenInventory, Bundles
  <2>3. \A a \in AssessmentIds : outbox[a].messages # {} => BundleReadable(a)
    BY Zenon DEF StoreInv, Attributed, BundleReadable
  <2>. QED  BY <2>1, <2>2, <2>3, BundleQuiet, Zenon
<1>4. CASE RecoverState \/ RecoverLedger \/ WriteState \/ WriteLedger
  <2>1. Intact
    BY <1>4, Zenon DEF RecoverState, RecoverLedger, WriteState, WriteLedger, At,
         StoreInv, Phases, TransactionPhases, JournalledSteps, Intact
  <2>2. UNCHANGED <<outbox, journal, backend>>
    BY <1>4, Zenon DEF RecoverState, RecoverLedger, WriteState, WriteLedger
  <2>3. Intact' = Intact /\ txn' = txn
    BY <2>2, Zenon DEF Intact, txn
  <2>4. Intact \/ (state' = state /\ ledger'.entries = ledger.entries)
    BY <2>1, Zenon
  <2>. QED  BY <2>2, <2>3, <2>4, FilesQuiet, Zenon
<1>5. CASE RecoverCommit \/ Commit \/ UnlinkCommitted
  <2>1. UNCHANGED <<outbox, backend, state, ledger>>
    BY <1>5, Zenon DEF RecoverCommit, Commit, UnlinkCommitted
  <2>2. Intact' = Intact /\ txn' = txn
    BY <1>0, <1>5, Zenon DEF RecoverCommit, Commit, UnlinkCommitted, Intact, txn,
         Journals
  <2>. QED  BY <2>1, <2>2, FilesQuiet, Zenon
<1>6. CASE RecoverFails \/ FaultInRecover
  <2>1. UNCHANGED <<outbox, backend, state, ledger>>
    BY <1>6, Zenon DEF RecoverFails, FaultInRecover
  <2>2. journal' \in {journal, QuarantinedJournal}
    BY <1>6, Zenon DEF RecoverFails, FaultInRecover
  <2>3. (Intact' <=> Intact) /\ txn' = txn
    BY <1>0, <2>2, Zenon DEF QuarantinedJournal, Intact, txn, Journals, JournalFree
  <2>4. Intact' = Intact
    BY <2>3, Zenon DEF Intact
  <2>. QED  BY <2>1, <2>3, <2>4, FilesQuiet, Zenon
<1>7. CASE RecoverBundle
  <2>1. UNCHANGED <<state, ledger, journal, backend>>
    BY <1>7, Zenon DEF RecoverBundle
  <2>2. CASE txn.admit /\ ~ outbox[txn.id].exists
    <3>1. Intact
      BY <1>7, Zenon DEF RecoverBundle, At, StoreInv, Phases, TransactionPhases,
           JournalledSteps
    <3>. QED  BY <1>7, <2>1, <2>2, <3>1, PublishQuiet, Zenon DEF RecoverBundle
  <2>3. CASE ~ (txn.admit /\ ~ outbox[txn.id].exists)
    BY <1>7, <2>1, <2>3, BundleQuiet, Zenon DEF RecoverBundle
  <2>. QED  BY <2>2, <2>3, Zenon
<1>8. CASE PublishBundle
  <2>1. Intact /\ txn.admit
    BY <1>8, Zenon DEF PublishBundle, At, StoreInv, Phases, TransactionPhases,
         JournalledSteps, FilesPlaced, StepsPlaced
  <2>. QED  BY <1>8, <2>1, PublishQuiet, Zenon DEF PublishBundle
<1>9. CASE UnlinkBody
  <2>1. /\ pc = "Unlink" /\ journal.body /\ UNCHANGED <<outbox, backend, state, ledger>>
        /\ journal' = [journal EXCEPT !.body = FALSE]
    BY <1>9, Zenon DEF UnlinkBody
  <2>2. ~ Intact' /\ Intact
    BY <1>0, <2>1, Zenon DEF Intact, Journals, JournalFree
  <2>3. state = txn.after /\ ledger = txn.after_ids
    BY <2>1, Zenon DEF StoreInv, Phases, TransactionPhases
  <2>4. Model' = Model /\ Entries' = Entries
    BY <2>1, <2>2, <2>3, Zenon DEF Model, Entries
  <2>5. Stored' = Stored /\ Held' = Held
    BY <2>1 DEF Stored, Held, StoredIn, Message
  <2>6. Journalled \subseteq Stored /\ Journalled' = {}
    <3>1. CASE txn.admit
      <4>1. BundleMatches(txn)
        BY <2>1, <3>1, Zenon DEF StoreInv, MessagesGuarded
      <4>2. Journalled \subseteq StoredIn(txn.id)
        BY <4>1, Zenon DEF Journalled, StoredIn, Message, BundleMatches
      <4>3. txn.id \in AssessmentIds
        BY <1>0, FieldTypes, Zenon
      <4>. QED  BY <2>2, <4>2, <4>3, Zenon DEF Stored, Journalled
    <3>2. CASE ~ txn.admit
      BY <2>2, <3>2, Zenon DEF Journalled
    <3>. QED  BY <3>1, <3>2, Zenon
  <2>7. Kept' = Kept
    BY <2>5, <2>6, Zenon DEF Kept
  <2>. QED  BY <2>1, <2>4, <2>5, <2>7, Stutters, Zenon
<1>10. CASE RemoveJournal
  <2>1. UNCHANGED <<outbox, backend, state, ledger>>
    BY <1>10, Zenon DEF RemoveJournal
  <2>2. ~ Intact /\ ~ Intact'
    BY <1>10, Zenon DEF RemoveJournal, Intact, NoJournal
  <2>3. Intact' = Intact
    BY <2>2, Zenon DEF Intact
  <2>. QED  BY <2>1, <2>2, <2>3, FilesQuiet, Zenon
<1>11. CASE ResetState
  BY <1>11, ResetResets, Zenon DEF Ledger!Next
<1>12. CASE ResetLedger
  <2>1. /\ pc = "ResetLedger" /\ UNCHANGED <<outbox, backend, state, journal>>
        /\ ledger' = reset.after_ids
    BY <1>12, Zenon DEF ResetLedger
  <2>2. reset.exists /\ ledger \in {reset.before_ids, reset.after_ids}
    BY <2>1, Zenon DEF StoreInv, Phases, ResetPhases, ResetSteps
  <2>3. ledger'.entries = ledger.entries
    BY <2>1, <2>2, Zenon DEF StoreInv, Attributed
  <2>4. Intact' = Intact /\ txn' = txn
    BY <2>1, Zenon DEF Intact, txn
  <2>. QED  BY <2>1, <2>3, <2>4, FilesQuiet, Zenon
<1>13. CASE ResetMark \/ ResetRetire \/ (\E c \in Commands : ResetDemo(c))
  <2>1. UNCHANGED <<outbox, backend, state, ledger, journal>>
    BY <1>13, Zenon DEF ResetMark, ResetRetire, ResetDemo
  <2>2. Intact' = Intact /\ txn' = txn
    BY <2>1, Zenon DEF Intact, txn
  <2>. QED  BY <2>1, <2>2, FilesQuiet, Zenon
<1>14. CASE RemoveMessage
  BY <1>14, RemoveRetires, Zenon DEF Ledger!Next
<1>15. CASE SweepManifest \/ SweepAck
  <2>1. PICK m \in target :
           \/ outbox' = [outbox EXCEPT ![m[1]].manifest = FALSE]
           \/ \E kind \in outbox[m[1]].acks :
                 outbox' = [outbox EXCEPT ![m[1]].acks = @ \ {kind}]
    BY <1>15, Zenon DEF SweepManifest, SweepAck
  <2>2. \A a \in AssessmentIds :
           /\ outbox'[a].messages = outbox[a].messages
           /\ outbox'[a].after = outbox[a].after
           /\ outbox'[a].quarantined = outbox[a].quarantined
    <3>1. CASE outbox' = [outbox EXCEPT ![m[1]].manifest = FALSE]
      BY <1>0, <3>1, Zenon DEF Bundles
    <3>2. ASSUME NEW kind, outbox' = [outbox EXCEPT ![m[1]].acks = @ \ {kind}]
          PROVE  \A a \in AssessmentIds :
                    /\ outbox'[a].messages = outbox[a].messages
                    /\ outbox'[a].after = outbox[a].after
                    /\ outbox'[a].quarantined = outbox[a].quarantined
      BY <1>0, <3>2, Zenon DEF Bundles
    <3>. QED  BY ONLY <2>1, <3>1, <3>2, Zenon
  <2>3. UNCHANGED <<state, ledger, journal, backend>>
    BY <1>15, Zenon DEF SweepManifest, SweepAck
  <2>. QED  BY <2>2, <2>3, BundleQuiet, Zenon
<1>16. CASE RemoveBundle
  <2>1. PICK m \in target : outbox' = [outbox EXCEPT ![m[1]] = NoBundle]
    BY <1>16, Zenon DEF RemoveBundle
  <2>2. outbox[m[1]].messages = {} /\ m[1] \in AssessmentIds
    BY <1>0, <1>16, <2>1, Zenon DEF RemoveBundle, StoreInv, MessagesGuarded, TypeOK
  <2>3. UNCHANGED <<state, ledger, journal, backend>>
    BY <1>16, Zenon DEF RemoveBundle
  <2>4. \A a \in AssessmentIds :
           /\ outbox'[a].messages = outbox[a].messages
           /\ outbox[a].messages # {} => outbox'[a] = outbox[a]
    BY <1>0, <2>1, <2>2, Zenon DEF NoBundle
  <2>. QED  BY <2>3, <2>4, BundleQuiet, Zenon
<1>17. ASSUME NEW id \in AssessmentIds, NEW i \in Increments,
              NEW k \in OtherCounts, Process(id, i, k)
       PROVE  Ledger!Next
  BY <1>17, ProcessAssesses, SameComputations, Zenon DEF Ledger!Next
<1>18. ASSUME NEW a \in AssessmentIds, NEW kind \in Kinds, Deliver(a, kind)
       PROVE  Ledger!Next
  BY <1>18, DeliverStores, Zenon DEF Ledger!Next
<1>19. ASSUME NEW a \in AssessmentIds, NEW kind \in Kinds,
              Acknowledge(a, kind)
       PROVE  UNCHANGED Ledger!vars
  <2>1. \A b \in AssessmentIds :
           /\ outbox'[b].messages = outbox[b].messages
           /\ outbox'[b].after = outbox[b].after
           /\ outbox'[b].quarantined = outbox[b].quarantined
    BY <1>0, <1>19, Zenon DEF Acknowledge, WriteReceipt, Bundles
  <2>2. UNCHANGED <<state, ledger, journal, backend>>
    BY <1>19, Zenon DEF Acknowledge, WriteReceipt
  <2>. QED  BY <2>1, <2>2, BundleQuiet, Zenon
<1>20. ASSUME NEW a \in AssessmentIds, QuarantineBundle(a)
       PROVE  Ledger!Next
  <2>1. ~ journal.exists
    BY <1>0, <1>20, Zenon DEF QuarantineBundle, JournalFree
  <2>2. Ledger!Hold(a)
    BY <1>20, <2>1, QuarantineHolds, Zenon DEF QuarantineBundle
  <2>. QED  BY <2>2, SameComputations, Zenon DEF Ledger!Next
<1>21. CASE FaultInInventory
  <2>1. ~ journal.exists /\ UNCHANGED <<state, ledger, journal, backend>>
    BY <1>0, <1>21, Zenon DEF FaultInInventory, JournalFree, JournalFreeSteps, At
  <2>2. ASSUME NEW a \in AssessmentIds,
               outbox' = [outbox EXCEPT ![a].quarantined = TRUE]
        PROVE  Ledger!Next
    <3>1. Ledger!Hold(a)
      BY <2>1, <2>2, QuarantineHolds, Zenon
    <3>. QED  BY <3>1, SameComputations, Zenon DEF Ledger!Next
  <2>3. CASE UNCHANGED outbox
    BY <2>1, <2>3, BundleQuiet, Zenon
  <2>. QED  BY <1>21, <2>2, <2>3, Zenon DEF FaultInInventory
<1>. QED
  BY <1>1, <1>2, <1>3, <1>4, <1>5, <1>6, <1>7, <1>8, <1>9, <1>10, <1>11,
     <1>12, <1>13, <1>14, <1>15, <1>16, <1>17, <1>18, <1>19, <1>20, <1>21, SMTT(30)
     DEF Next, Step, Call, Failure

\* The store implements the ledger it promises, whatever crashes and faults
\* outside reset_demo() interrupt it: an accepted episode advances the model
\* exactly once, in one step with its ledger entry and its whole message
\* group, a reset is one step, and a message leaves the outbox only after the
\* backend has it.
THEOREM StoreImplementsLedger ==
    ASSUME "reset" \notin Faulty
    PROVE  Spec => ImplementsLedger
<1>1. Init => StoreInv /\ Ledger!Init
  <2>. SUFFICES ASSUME Init PROVE StoreInv /\ Ledger!Init
    BY Zenon
  <2>1. TypeOK /\ JournalFree /\ MessagesGuarded /\ FilesPlaced /\ OutboxServed
    BY InitServed, Zenon
  <2>2. Phases
    BY InitPhases, Zenon
  <2>3. Attributed
    BY Zenon DEF Init, Attributed, NoReset, NoBundle
  <2>4. ~ Intact /\ Stored = {} /\ Held = {} /\ Journalled = {}
    BY Zenon DEF Init, Intact, NoJournal, Stored, Held, StoredIn, NoBundle, Journalled
  <2>5. Ledger!Init
    BY <2>4, SameComputations, Zenon DEF Init, Ledger!Init, Kept, Held, initial_ledger
  <2>. QED  BY <2>1, <2>2, <2>3, <2>5, Zenon DEF StoreInv
<1>2. StoreInv /\ [Next]_vars => StoreInv'
  BY TypeStep, JournalFreeStep, MessagesGuardedStep, FilesServedStep,
     OutboxServedStep, PhasesStep, AttributedStep, Zenon DEF StoreInv, FilesPlaced
<1>3. StoreInv /\ [Next]_vars => [Ledger!Next]_(Ledger!vars)
  BY LedgerStep, Zenon
<1>. QED
  BY <1>1, <1>2, <1>3, PTL DEF Spec, ImplementsLedger, Ledger!Spec

-----------------------------------------------------------------------------
(* The abstract ledger itself, for any window, any state of the model and  *)
(* any budget.                                                             *)

VARIABLES model, entries, queued, held

A == INSTANCE ModelLedger

\* The abstract ledger computes as the store computes.
LEMMA SameModel ==
    /\ \A s, id, i : A!evaluate(s, id, i) = evaluate(s, id, i)
    /\ \A s : A!reset_state(s) = reset_state(s) /\ A!Recent(s) = Recent(s)
    /\ \A q, x : A!Remember(q, x) = Remember(q, x)
    /\ A!initial_state = initial_state
    /\ A!AssessmentIds = AssessmentIds /\ A!Bindings = Bindings
    /\ A!ModelStates = ModelStates
BY Zenon DEF A!evaluate, evaluate, A!reset_state, reset_state, A!Recent, Recent,
     A!Remember, Remember, A!WearAfter, WearAfter, A!initial_state,
     initial_state, A!AssessmentIds, AssessmentIds, A!Bindings, Bindings,
     A!ModelStates, ModelStates

\* The abstract ledger counts as the store counts.
LEMMA SameCount == ASSUME NEW S PROVE A!Cardinality(S) = Cardinality(S)
BY Zenon DEF A!Cardinality, Cardinality

\* A message: whose assessment, which part, and of which generation.
Messages == AssessmentIds \X {"assessment", "event"} \X Nat

\* The types of the ledger.
LedgerTyped ==
    /\ model \in ModelStates
    /\ entries \in Seq(Bindings)
    /\ queued \subseteq Messages
    /\ held \subseteq queued
    /\ backend \subseteq Messages

\* The entries of a window are distinct.
Distinct(seq) == \A i, j \in 1..Len(seq) : seq[i] = seq[j] => i = j

\* No message is of a generation the model has not reached.
Reached(messages) == \A m \in messages : m[3] <= model.generation

\* The inductive invariant: the ledger binds the model, no event is twice in
\* the window, and every message belongs to a generation that is past.
LedgerInv ==
    /\ LedgerTyped
    /\ Binds([state_sha256 |-> model, entries |-> entries], model)
    /\ Distinct(model.recent)
    /\ Reached(queued) /\ Reached(backend)

\* A window of distinct events stays one when an event that is not in it is
\* remembered.
LEMMA RememberDistinct ==
    ASSUME NEW s \in ModelStates, Distinct(s.recent),
           NEW x \in SourceEvents, x \notin Recent(s)
    PROVE  Distinct(Remember(s.recent, x))
<1>. DEFINE q == s.recent
            r == Remember(q, x)
            k == Shift(Len(q))
<1>1. q \in Seq(SourceEvents)
  BY Zenon DEF ModelStates
<1>2. \A i \in 1..Len(q) : q[i] # x
  BY <1>1 DEF Recent
<1>3. Shifted(r, q, x)
  BY <1>1, RememberShift, Zenon
<1>4. k \in {0, 1}
  BY Zenon DEF Shift
<1>5. Distinct(q)
  BY Zenon
<1>. HIDE DEF q, r
<1>6. /\ Len(r) \in Nat /\ r[Len(r)] = x /\ Len(q) \in Nat
      /\ \A i \in 1..Len(r) : i # Len(r) =>
            i + k \in 1..Len(q) /\ r[i] = q[i + k]
  BY <1>3, Zenon DEF Shifted
<1>. HIDE DEF k
<1>. SUFFICES ASSUME NEW i \in 1..Len(r), NEW j \in 1..Len(r), r[i] = r[j]
              PROVE  i = j
  BY Zenon DEF Distinct, r, q
<1>7. CASE i # Len(r) /\ j # Len(r)
  <2>1. /\ i + k \in 1..Len(q) /\ j + k \in 1..Len(q)
        /\ q[i + k] = q[j + k]
    BY <1>6, <1>7, Zenon
  <2>2. i + k = j + k
    BY <2>1, <1>5, Zenon DEF Distinct
  <2>. QED  BY <2>2, <1>4, <1>6
<1>8. CASE ~(i # Len(r) /\ j # Len(r))
  BY <1>8, <1>2, <1>6, Zenon
<1>. QED  BY <1>7, <1>8, Zenon

\* A message group has messages of the generation after the assessment.
LEMMA GroupType ==
    ASSUME NEW id \in AssessmentIds, NEW before, NEW after \in ModelStates
    PROVE  /\ A!Group(id, before, after) \subseteq Messages
           /\ \A m \in A!Group(id, before, after) : m[3] = after.generation
<1>1. after.generation \in Nat
  BY ModelAssumption DEF ModelStates
<1>. QED  BY <1>1 DEF A!Group, Messages

\* The ledger starts bound and empty.
LEMMA InitLedgerInv == A!Init => LedgerInv
<1>. SUFFICES ASSUME A!Init PROVE LedgerInv
  BY Zenon
<1>1. Binds([state_sha256 |-> model, entries |-> entries], model)
  BY InitialTypes, SameModel, Zenon DEF A!Init
<1>2. LedgerTyped
  BY InitialTypes, SameModel DEF A!Init, LedgerTyped
<1>3. Distinct(model.recent) /\ Reached(queued) /\ Reached(backend)
  BY SameModel DEF A!Init, Distinct, Reached, initial_state
<1>. QED  BY <1>1, <1>2, <1>3, Zenon DEF LedgerInv

\* Every step of the ledger keeps the invariant, and no step queues a
\* message of a generation that was already past.
LEMMA NextLedgerInv ==
    ASSUME LedgerInv, [A!Next]_(A!vars)
    PROVE  /\ LedgerInv'
           /\ \A m \in queued' \ queued : m[3] = model.generation + 1
<1>. DEFINE L == [state_sha256 |-> model, entries |-> entries]
<1>. USE DEF LedgerInv
<1>0. model \in ModelStates /\ L \in Ledgers
  BY Zenon DEF LedgerTyped, Ledgers
<1>a. model.generation \in Nat
  BY ONLY <1>0, ModelAssumption DEF ModelStates
<1>b. \A m \in queued \union backend : m[3] \in Nat
  <2>1. queued \union backend \subseteq Messages
    BY Zenon DEF LedgerTyped
  <2>. QED  BY ONLY <2>1, Zenon DEF Messages
<1>c. Reached(queued) /\ Reached(backend)
  BY Zenon
<1>1. ASSUME NEW id \in AssessmentIds, NEW inc \in Increments, A!Assess(id, inc)
      PROVE  /\ LedgerInv'
             /\ \A m \in queued' \ queued : m[3] = model.generation + 1
  <2>. DEFINE after == evaluate(model, id, inc)
              group == A!Group(id, model, after)
              b == [source_event_id |-> id[1], assessment_id |-> id]
  <2>1. /\ id[1] \notin Recent(model) /\ model.generation < MaxGeneration
        /\ model' = after /\ entries' = Remember(entries, b)
        /\ queued \subseteq queued' /\ queued' \subseteq queued \union group
        /\ held' = held /\ backend' = backend
    BY <1>1, SameModel, Zenon DEF A!Assess
  <2>2. after \in ModelStates /\ after.generation = model.generation + 1
    BY <1>0, <2>1, EvaluateType, Zenon DEF evaluate
  <2>3. group \subseteq Messages /\ \A m \in group : m[3] = model.generation + 1
    BY <2>2, GroupType, Zenon
  <2>4. ledger_after(L, after, id) = [state_sha256 |-> after,
                                      entries |-> entries']
    BY <2>1, Zenon DEF ledger_after
  <2>5. Binds(ledger_after(L, after, id), after)
    BY <1>0, <2>1, EvaluateBinds, Zenon
  <2>6. Binds([state_sha256 |-> model, entries |-> entries], model)'
    BY ONLY <2>1, <2>4, <2>5, Zenon
  <2>7. entries' \in Seq(Bindings)
    BY <2>1, BindingType, RememberShift, Zenon DEF LedgerTyped
  <2>8. Distinct(model.recent)'
    <3>1. id[1] \in SourceEvents
      BY Zenon DEF AssessmentIds
    <3>2. Distinct(Remember(model.recent, id[1]))
      BY <1>0, <2>1, <3>1, RememberDistinct, Zenon
    <3>. QED  BY <2>1, <3>2, Zenon DEF evaluate
  <2>. HIDE DEF after, group
  <2>9. LedgerTyped'
    BY <2>1, <2>2, <2>3, <2>7, Zenon DEF LedgerTyped
  <2>10. Reached(queued)' /\ Reached(backend)'
    BY ONLY <1>a, <1>b, <1>c, <2>1, <2>2, <2>3, SMTT(30) DEF Reached
  <2>. QED  BY <2>1, <2>3, <2>6, <2>8, <2>9, <2>10, Zenon
<1>2. CASE A!Reset
  <2>1. /\ model' = reset_state(model) /\ model.generation < MaxGeneration
        /\ entries' = entries /\ queued' = queued /\ held' = held
        /\ backend' = backend
    BY <1>2, SameModel, Zenon DEF A!Reset
  <2>2. /\ reset_state(model) \in ModelStates
        /\ Binds(reset_ledger(L, reset_state(model)), reset_state(model))
    BY <1>0, <2>1, ResetKeeps, Zenon
  <2>3. reset_ledger(L, reset_state(model)) =
            [state_sha256 |-> model', entries |-> entries']
    BY <2>1 DEF reset_ledger
  <2>4. /\ model'.recent = model.recent
        /\ model'.generation = model.generation + 1
    BY <1>0, <2>1, Zenon DEF reset_state, ModelStates
  <2>5. LedgerTyped'
    BY <2>1, <2>2, Zenon DEF LedgerTyped
  <2>6. Reached(queued)' /\ Reached(backend)'
    BY ONLY <1>a, <1>b, <1>c, <2>1, <2>4, SMTT(30) DEF Reached
  <2>7. Distinct(model.recent)'
    BY <2>4, Zenon DEF Distinct
  <2>8. Binds([state_sha256 |-> model, entries |-> entries], model)'
    BY <2>1, <2>2, <2>3, Zenon
  <2>. QED  BY <2>1, <2>5, <2>6, <2>7, <2>8, Zenon
<1>3. ASSUME NEW m \in queued, A!Store(m) \/ A!Retire(m)
      PROVE  LedgerInv' /\ queued' \subseteq queued
  <2>1. /\ model' = model /\ entries' = entries /\ held' = held
        /\ queued' \subseteq queued /\ backend' \subseteq backend \union queued
    BY <1>3, Zenon DEF A!Store, A!Retire
  <2>2. held' \subseteq queued'
    BY <1>3, Zenon DEF A!Store, A!Retire, LedgerTyped
  <2>3. LedgerTyped'
    BY <2>1, <2>2, Zenon DEF LedgerTyped
  <2>4. Reached(queued)' /\ Reached(backend)'
    BY <2>1, Zenon DEF Reached
  <2>. QED  BY <2>1, <2>3, <2>4, Zenon
<1>4. ASSUME NEW id \in AssessmentIds, A!Hold(id)
      PROVE  LedgerInv' /\ queued' = queued
  <2>1. /\ model' = model /\ entries' = entries /\ queued' = queued
        /\ backend' = backend /\ held' \subseteq queued
    BY <1>4, Zenon DEF A!Hold, LedgerTyped
  <2>2. LedgerTyped'
    BY <2>1, Zenon DEF LedgerTyped
  <2>. QED  BY <2>1, <2>2, Zenon DEF Reached
<1>5. CASE UNCHANGED A!vars
  BY <1>5, Zenon DEF A!vars, LedgerTyped, Reached
<1>. QED
  BY <1>1, <1>2, <1>3, <1>4, <1>5, SameModel, Zenon DEF A!Next

\* The invariant holds throughout.
THEOREM LedgerInvariant == A!Spec => []LedgerInv
<1>1. LedgerInv /\ [A!Next]_(A!vars) => LedgerInv'
  BY NextLedgerInv, Zenon
<1>. QED  BY InitLedgerInv, <1>1, PTL DEF A!Spec

\* Each event of the model's recent window has exactly one entry, at its own
\* position: process() can answer a duplicate with the assessment id it
\* committed.
THEOREM DuplicatesAnswered == A!Spec => []A!WindowAnswers
<1>1. LedgerInv => A!WindowAnswers
  <2>. SUFFICES ASSUME LedgerInv PROVE A!WindowAnswers
    BY Zenon
  <2>1. /\ Len(entries) = Len(model.recent)
        /\ \A i \in DOMAIN entries :
              entries[i].source_event_id = model.recent[i]
    BY Zenon DEF LedgerInv, Binds
  <2>2. entries \in Seq(Bindings) /\ DOMAIN entries = 1..Len(entries)
    BY DEF LedgerInv, LedgerTyped
  <2>. QED  BY <2>1, <2>2, Zenon DEF A!WindowAnswers, LedgerInv, Distinct
<1>. QED  BY <1>1, LedgerInvariant, PTL

\* An acknowledged message never comes back to the outbox, not even when its
\* event is processed again after it left the window.
THEOREM AcknowledgedStaysOut == A!Spec => A!NoReturn
<1>1. LedgerInv /\ [A!Next]_(A!vars)
        => [\A m \in backend : m \notin queued => m \notin queued']_(A!vars)
  <2>. SUFFICES ASSUME LedgerInv, [A!Next]_(A!vars),
                       NEW m \in backend, m \notin queued
                PROVE  m \notin queued'
    BY Zenon
  <2>1. m[3] \in Nat /\ m[3] <= model.generation
    BY Zenon DEF LedgerInv, LedgerTyped, Messages, Reached
  <2>2. model.generation \in Nat
    BY ModelAssumption DEF LedgerInv, LedgerTyped, ModelStates
  <2>. QED  BY <2>1, <2>2, NextLedgerInv
<1>. QED  BY <1>1, LedgerInvariant, PTL DEF A!Spec, A!NoReturn

\* The outbox keeps to its budget: process() admits a pair whole or not at
\* all, and nothing else adds to it.
THEOREM BudgetKept == ASSUME MaxMessages \in Nat PROVE A!Spec => []A!WithinBudget
<1>. DEFINE Inv == IsFiniteSet(queued) /\ A!WithinBudget
<1>1. A!Init => Inv
  BY FS_EmptySet, SameCount DEF A!Init, A!WithinBudget
<1>2. Inv /\ [A!Next]_(A!vars) => Inv'
  <2>. SUFFICES ASSUME Inv, [A!Next]_(A!vars) PROVE Inv'
    BY Zenon
  <2>1. ASSUME NEW id \in AssessmentIds, NEW inc \in Increments,
               A!Assess(id, inc)
        PROVE  Inv'
    <3>. DEFINE group == A!Group(id, model, evaluate(model, id, inc))
    <3>1. \/ queued' = queued
          \/ /\ Cardinality(queued) + Cardinality(group) <= MaxMessages
             /\ queued' = queued \union group
      BY <2>1, SameModel, SameCount, Zenon DEF A!Assess
    <3>2. IsFiniteSet(group)
      <4>. DEFINE f(kind) == <<id, kind, evaluate(model, id, inc).generation>>
      <4>1. group \subseteq {f("assessment")} \union {f("event")}
        BY Zenon DEF A!Group
      <4>2. IsFiniteSet({f("assessment")} \union {f("event")})
        BY FS_Singleton, FS_Union, Zenon
      <4>. QED  BY <4>1, <4>2, FS_Subset, Zenon
    <3>. HIDE DEF group
    <3>3. CASE queued' = queued
      BY <3>3, SameCount, Zenon DEF A!WithinBudget
    <3>4. CASE /\ Cardinality(queued) + Cardinality(group) <= MaxMessages
               /\ queued' = queued \union group
      <4>1. /\ IsFiniteSet(queued \union group)
            /\ Cardinality(queued \union group) =
                  Cardinality(queued) + Cardinality(group)
                     - Cardinality(queued \intersect group)
        BY <3>2, FS_Union, Zenon
      <4>2. IsFiniteSet(queued \intersect group)
        BY FS_Intersection, Zenon
      <4>3. /\ Cardinality(queued) \in Nat /\ Cardinality(group) \in Nat
            /\ Cardinality(queued \intersect group) \in Nat
        BY <3>2, <4>2, FS_CardinalityType, Zenon
      <4>. QED  BY <3>4, <4>1, <4>3, SameCount DEF A!WithinBudget
    <3>. QED  BY <3>1, <3>3, <3>4, Zenon
  <2>2. CASE queued' \subseteq queued
    <3>1. IsFiniteSet(queued') /\ Cardinality(queued') <= Cardinality(queued)
      BY <2>2, FS_Subset, Zenon
    <3>2. Cardinality(queued') \in Nat /\ Cardinality(queued) \in Nat
      BY <3>1, FS_CardinalityType, Zenon
    <3>. QED  BY <3>1, <3>2, SameCount DEF A!WithinBudget
  <2>. QED
    BY <2>1, <2>2, SameModel, Zenon DEF A!Next, A!Reset, A!Store, A!Retire, A!Hold, A!vars
<1>. QED  BY <1>1, <1>2, PTL DEF A!Spec

=============================================================================
