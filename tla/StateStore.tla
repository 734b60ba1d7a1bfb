----------------------------- MODULE StateStore -----------------------------
(***************************************************************************)
(* brake_health::v2::StateStore: the crash-safe model state, the identity  *)
(* ledger and the derived-message outbox, as files on a disk that survives *)
(* the process.                                                            *)
(*                                                                         *)
(* The store is called under one mutex, so public operations do not        *)
(* interleave.  What interleaves with them is the end of the process       *)
(* (Crash: power loss, exit, kill) and a failing system call (Fault),      *)
(* possible between any two durable steps.  One action is one durable step *)
(* : an atomic_write (temporary file, fsync, rename, directory fsync), a   *)
(* directory rename, or one unlink of a remove_all.  Staging directories   *)
(* and temporary files are invisible to every reader and are deleted by    *)
(* the next constructor, so filling them is part of the rename that        *)
(* publishes them.                                                         *)
(***************************************************************************)
EXTENDS BrakeModel

CONSTANTS
    CurrentConfig,  \* kModelConfigSha256 of the release that is installed last
    Commands,       \* demo reset command ids
    MaxMessages,    \* kMaximumMessages (64)
    OtherCounts,    \* other_outbox_count: advisory facts sharing the budget
    Faulty          \* the public operations in which a system call may fail

ASSUME StoreAssumption ==
    /\ CurrentConfig \in Configs
    /\ MaxMessages \in Nat
    /\ OtherCounts \subseteq Nat
    /\ Faulty \subseteq {"open", "process", "reset", "acknowledge"}

VARIABLES
    present,    \* which of state.json and identity-ledger.json exist
    state,      \* content of state.json
    ledger,     \* content of identity-ledger.json
    journal,    \* the transaction directory under transactions/
    outbox,     \* the bundle directories outbox/<assessment id>
    reset,      \* the reset-journal directory
    resetId,    \* content of demo-reset-id ({} when the file is absent)
    ready,      \* ready_
    op,         \* the public operation that is running
    pc,         \* its next durable step
    target,     \* the message acknowledge() is working on, {} otherwise
    backend,    \* messages the backend has stored durably (external)
    config      \* kModelConfigSha256 of the installed release

disk == <<present, state, ledger, journal, outbox, reset, resetId>>
process == <<ready, op, pc, target>>
outside == <<backend, config>>
vars == <<disk, process, outside>>

Kinds == {"assessment", "event"}

Ops == {"none", "open", "process", "reset", "acknowledge"}

Steps ==
    {"Down", "Idle", "OpenState", "OpenLedger", "OpenReset", "Recover",
     "RecoverLedger", "RecoverBundle", "RecoverCommit", "RecoverVerify",
     "Inventory", "WriteState", "WriteLedger", "PublishBundle", "Commit",
     "Verify", "Unlink", "Unlinked", "ResetState", "ResetLedger",
     "ResetMark", "ResetRetire", "RemoveMessage", "Sweep"}

Transactions ==
    [id : AssessmentIds, before : ModelStates, after : ModelStates,
     before_ids : Ledgers, after_ids : Ledgers,
     pair : BOOLEAN,      \* the band changed: an event message exists
     admit : BOOLEAN]     \* disposition ADMIT / OVERFLOW_NOT_ENQUEUED

\* body: every file recover() reads is there.
Journals ==
    [exists : BOOLEAN, body : BOOLEAN, committed : BOOLEAN,
     quarantined : BOOLEAN, txn : Transactions]

Bundles ==
    [exists : BOOLEAN, manifest : BOOLEAN, quarantined : BOOLEAN,
     messages : SUBSET Kinds, acks : SUBSET Kinds,
     after : ModelStates, pair : BOOLEAN]   \* what manifest.json binds

ResetJournals ==
    [exists : BOOLEAN, command : SUBSET Commands,
     before : ModelStates, after : ModelStates,
     before_ids : Ledgers, after_ids : Ledgers]

initial_ledger == [state_sha256 |-> initial_state, entries |-> <<>>]

NoTransaction ==
    [id |-> CHOOSE id \in AssessmentIds : TRUE,
     before |-> initial_state, after |-> initial_state,
     before_ids |-> initial_ledger, after_ids |-> initial_ledger,
     pair |-> FALSE, admit |-> FALSE]

NoJournal ==
    [exists |-> FALSE, body |-> FALSE, committed |-> FALSE,
     quarantined |-> FALSE, txn |-> NoTransaction]

NoBundle ==
    [exists |-> FALSE, manifest |-> FALSE, quarantined |-> FALSE,
     messages |-> {}, acks |-> {}, after |-> initial_state, pair |-> FALSE]

NoReset ==
    [exists |-> FALSE, command |-> {},
     before |-> initial_state, after |-> initial_state,
     before_ids |-> initial_ledger, after_ids |-> initial_ledger]

\* An empty state directory, before the service first runs.
Init ==
    /\ present = {}
    /\ state = initial_state
    /\ ledger = initial_ledger
    /\ journal = NoJournal
    /\ outbox = [a \in AssessmentIds |-> NoBundle]
    /\ reset = NoReset
    /\ resetId = {}
    /\ ready = FALSE
    /\ op = "none"
    /\ pc = "Down"
    /\ target = {}
    /\ backend = {}
    /\ config \in Configs

-----------------------------------------------------------------------------
(* What the operations read and compute.                                   *)

txn == journal.txn

messages_of(pair) == IF pair THEN Kinds ELSE {"assessment"}

\* A derived message: its bundle, its kind and the generation it reports.
Message(a, kind) == <<a, kind, outbox[a].after.generation>>

StoredIn(a) == {Message(a, kind) : kind \in outbox[a].messages}

Stored == UNION {StoredIn(a) : a \in AssessmentIds}

\* Mutant: one message too many.
admissible_off_by_one(count, incoming) ==
    /\ count <= MaxMessages
    /\ incoming <= MaxMessages - count + 1

derived_outbox_admissible(count, incoming) ==
    /\ count <= MaxMessages
    /\ incoming <= MaxMessages - count

\* inventory_verified: manifest.json of every bundle is read, and the
\* messages are counted.
BundleReadable(a) == outbox[a].exists => outbox[a].manifest

InventoryVerified ==
    /\ \A a \in AssessmentIds : BundleReadable(a)
    /\ Cardinality(Stored) <= MaxMessages

\* The bundle a transaction publishes.
BundleOf(t) ==
    [exists |-> TRUE, manifest |-> TRUE, quarantined |-> FALSE,
     messages |-> messages_of(t.pair), acks |-> {},
     after |-> t.after, pair |-> t.pair]

\* The bundle in the outbox is the one the transaction published.
BundleMatches(t) ==
    LET b == outbox[t.id]
    IN  /\ b.exists /\ b.manifest
        /\ b.after = t.after /\ b.pair = t.pair
        /\ b.messages = messages_of(t.pair)

\* The comparisons before the journal is removed.
TransactionVerified(t) ==
    /\ state = t.after
    /\ ledger = t.after_ids
    /\ IF t.admit THEN BundleMatches(t) ELSE ~ outbox[t.id].exists

\* StateStore::process up to the transaction it persists.
TransactionFor(id, increment, other) ==
    LET after == evaluate(state, id, increment)
        pair  == Band(after) # Band(state)
    IN  [id |-> id, before |-> state, after |-> after,
         before_ids |-> ledger, after_ids |-> ledger_after(ledger, after, id),
         pair |-> pair,
         admit |-> /\ other <= MaxMessages
                   /\ derived_outbox_admissible(Cardinality(Stored) + other,
                                                Cardinality(messages_of(pair)))]

Finish(isReady) ==
    /\ ready' = isReady
    /\ op' = "none"
    /\ pc' = "Idle"
    /\ target' = {}

Continue(step) ==
    /\ pc' = step
    /\ UNCHANGED <<ready, op, target>>

At(operation, step) == op = operation /\ pc = step

Callable == pc = "Idle" /\ ready

-----------------------------------------------------------------------------
(* The constructor: first start, reset recovery, journal recovery,         *)
(* inventory.  Whatever it throws only clears ready_.                      *)

Open ==
    /\ pc = "Down"
    /\ ready' = TRUE
    /\ op' = "open"
    /\ pc' = "OpenState"
    /\ UNCHANGED <<disk, target, outside>>

\* state.json is absent only on a first start; with a journal the
\* constructor throws.
OpenState ==
    /\ At("open", "OpenState")
    /\ "state.json" \in present \/ ~ journal.exists
    /\ present' = present \union {"state.json"}
    /\ state' = IF "state.json" \in present THEN state ELSE initial_state
    /\ Continue("OpenLedger")
    /\ UNCHANGED <<ledger, journal, outbox, reset, resetId, outside>>

\* A missing ledger is rebuilt for an untouched state only.
OpenLedger ==
    /\ At("open", "OpenLedger")
    /\ \/ "identity-ledger.json" \in present
       \/ state.generation = 0 /\ state.recent = <<>>
    /\ present' = present \union {"identity-ledger.json"}
    /\ ledger' = IF "identity-ledger.json" \in present THEN ledger
                 ELSE [state_sha256 |-> state, entries |-> <<>>]
    /\ Continue("OpenReset")
    /\ UNCHANGED <<state, journal, outbox, reset, resetId, outside>>

\* recover_demo_reset's acceptance of what it finds on disk.
ResetApplies ==
    /\ state \in {reset.before, reset.after}
    /\ ledger \in {reset.before_ids, reset.after_ids}

OpenReset ==
    /\ At("open", "OpenReset")
    /\ reset.exists => ResetApplies
    /\ Continue(IF reset.exists THEN "ResetState" ELSE "Recover")
    /\ UNCHANGED <<disk, outside>>

OpenResetConflict ==
    /\ At("open", "OpenReset")
    /\ reset.exists /\ ~ ResetApplies
    /\ Finish(FALSE)
    /\ UNCHANGED <<disk, outside>>

\* The constructor ends by reading state() and the inventory; a bundle that
\* cannot be read is marked QUARANTINED.
OpenInventory ==
    /\ At("open", "Inventory")
    /\ outbox' = IF Binds(ledger, state)
                 THEN [a \in AssessmentIds |->
                         [outbox[a] EXCEPT
                            !.quarantined = @ \/ ~ BundleReadable(a)]]
                 ELSE outbox
    /\ Finish(Binds(ledger, state) /\ InventoryVerified)
    /\ UNCHANGED <<present, state, ledger, journal, reset, resetId, outside>>

-----------------------------------------------------------------------------
(* recover(): roll the transaction journal forward, or quarantine it.      *)

RecoverNothing ==
    /\ At("open", "Recover")
    /\ ~ journal.exists
    /\ Continue("Inventory")
    /\ UNCHANGED <<disk, outside>>

RecoverQuarantined ==
    /\ At("open", "Recover")
    /\ journal.exists /\ journal.quarantined
    /\ Finish(FALSE)
    /\ UNCHANGED <<disk, outside>>

RecoverState ==
    /\ At("open", "Recover")
    /\ journal.exists /\ ~ journal.quarantined /\ journal.body
    /\ state \in {txn.before, txn.after}
    /\ state' = txn.after
    /\ Continue("RecoverLedger")
    /\ UNCHANGED <<present, ledger, journal, outbox, reset, resetId, outside>>

RecoverLedger ==
    /\ At("open", "RecoverLedger")
    /\ ledger \in {txn.before_ids, txn.after_ids}
    /\ ledger' = txn.after_ids
    /\ Continue("RecoverBundle")
    /\ UNCHANGED <<present, state, journal, outbox, reset, resetId, outside>>

RecoverBundle ==
    /\ At("open", "RecoverBundle")
    /\ txn.admit /\ outbox[txn.id].exists => BundleMatches(txn)
    /\ outbox' = IF txn.admit /\ ~ outbox[txn.id].exists
                 THEN [outbox EXCEPT ![txn.id] = BundleOf(txn)] ELSE outbox
    /\ Continue("RecoverCommit")
    /\ UNCHANGED <<present, state, ledger, journal, reset, resetId, outside>>

RecoverCommit ==
    /\ At("open", "RecoverCommit")
    /\ journal' = [journal EXCEPT !.committed = TRUE]
    /\ Continue("RecoverVerify")
    /\ UNCHANGED <<present, state, ledger, outbox, reset, resetId, outside>>

RecoverVerify ==
    /\ At("open", "RecoverVerify")
    /\ TransactionVerified(txn)
    /\ Continue("Unlink")
    /\ UNCHANGED <<disk, outside>>

\* Every condition under which recover() throws.
RecoverConflict ==
    \/ /\ pc = "Recover"
       /\ journal.exists /\ ~ journal.quarantined
       /\ ~ journal.body \/ state \notin {txn.before, txn.after}
    \/ pc = "RecoverLedger" /\ ledger \notin {txn.before_ids, txn.after_ids}
    \/ /\ pc = "RecoverBundle"
       /\ txn.admit /\ outbox[txn.id].exists /\ ~ BundleMatches(txn)
    \/ pc = "RecoverVerify" /\ ~ TransactionVerified(txn)

\* The handler writes the marker through atomic_write, which creates the
\* journal directory again if it is already gone.
QuarantinedJournal == [journal EXCEPT !.exists = TRUE, !.quarantined = TRUE]

RecoverFails ==
    /\ op = "open"
    /\ RecoverConflict
    /\ journal' = QuarantinedJournal
    /\ Finish(FALSE)
    /\ UNCHANGED <<present, state, ledger, outbox, reset, resetId, outside>>

-----------------------------------------------------------------------------
(* process() and persist_transaction().  A skipped episode and a duplicate *)
(* with a consistent outbox change nothing.                                *)

\* persist_transaction stages the journal and renames it into place.
PublishJournal(t) ==
    /\ journal' = [exists |-> TRUE, body |-> TRUE, committed |-> FALSE,
                   quarantined |-> FALSE, txn |-> t]
    /\ op' = "process"
    /\ pc' = "WriteState"
    /\ UNCHANGED <<present, state, ledger, outbox, reset, resetId,
                   ready, target, outside>>

Process(id, increment, other) ==
    /\ Callable
    /\ id[2] = config
    /\ Binds(ledger, state) /\ InventoryVerified
    /\ id[1] \notin Recent(state)
    /\ state.generation < MaxGeneration
    /\ PublishJournal(TransactionFor(id, increment, other))

\* evaluate() refuses the last generation, build_messages() metadata that
\* breaks the contract; both with invalid_argument.
ProcessRefused(e) ==
    /\ Callable
    /\ Binds(ledger, state) /\ InventoryVerified
    /\ e \notin Recent(state)
    /\ Finish(FALSE)
    /\ UNCHANGED <<disk, outside>>

\* A duplicate whose messages in the outbox carry another assessment id
\* than the ledger does.
ProcessDuplicateConflict(e) ==
    /\ Callable
    /\ Binds(ledger, state) /\ InventoryVerified
    /\ \E i \in DOMAIN state.recent :
          /\ state.recent[i] = e
          /\ \E a \in AssessmentIds :
                /\ a[1] = e /\ outbox[a].messages # {}
                /\ a # ledger.entries[i].assessment_id
    /\ Finish(FALSE)
    /\ UNCHANGED <<disk, outside>>

\* Mutant: the ledger is replaced before the state.
WriteState_ledger_first ==
    /\ At("process", "WriteState")
    /\ ledger' = txn.after_ids
    /\ Continue("WriteLedger")
    /\ UNCHANGED <<present, state, journal, outbox, reset, resetId, outside>>

WriteState ==
    /\ At("process", "WriteState")
    /\ state' = txn.after
    /\ Continue("WriteLedger")
    /\ UNCHANGED <<present, ledger, journal, outbox, reset, resetId, outside>>

WriteLedger ==
    /\ At("process", "WriteLedger")
    /\ ledger' = txn.after_ids
    /\ Continue(IF txn.admit THEN "PublishBundle" ELSE "Commit")
    /\ UNCHANGED <<present, state, journal, outbox, reset, resetId, outside>>

\* rename() of the staged bundle; it fails on a directory with files in it.
PublishBundle ==
    /\ At("process", "PublishBundle")
    /\ ~ outbox[txn.id].exists
    /\ outbox' = [outbox EXCEPT ![txn.id] = BundleOf(txn)]
    /\ Continue("Commit")
    /\ UNCHANGED <<present, state, ledger, journal, reset, resetId, outside>>

Commit ==
    /\ At("process", "Commit")
    /\ journal' = [journal EXCEPT !.committed = TRUE]
    /\ Continue("Verify")
    /\ UNCHANGED <<present, state, ledger, outbox, reset, resetId, outside>>

Verify ==
    /\ At("process", "Verify")
    /\ TransactionVerified(txn)
    /\ Continue("Unlink")
    /\ UNCHANGED <<disk, outside>>

PersistFails ==
    /\ \/ At("process", "PublishBundle") /\ outbox[txn.id].exists
       \/ At("process", "Verify") /\ ~ TransactionVerified(txn)
    /\ Finish(FALSE)
    /\ UNCHANGED <<disk, outside>>

-----------------------------------------------------------------------------
(* remove_all(journal): the files go one at a time, in directory order,    *)
(* then the directory.  process() and recover() end with it.               *)

UnlinkBody ==
    /\ pc = "Unlink" /\ journal.body
    /\ journal' = [journal EXCEPT !.body = FALSE]
    /\ UNCHANGED <<present, state, ledger, outbox, reset, resetId,
                   process, outside>>

UnlinkCommitted ==
    /\ pc = "Unlink" /\ journal.committed
    /\ journal' = [journal EXCEPT !.committed = FALSE]
    /\ UNCHANGED <<present, state, ledger, outbox, reset, resetId,
                   process, outside>>

RemoveJournal ==
    /\ pc = "Unlink" /\ ~ journal.body /\ ~ journal.committed
    /\ journal' = NoJournal
    /\ Continue("Unlinked")
    /\ UNCHANGED <<present, state, ledger, outbox, reset, resetId, outside>>

\* sync_directory(transactions), and the end of the operation.
SyncTransactions ==
    /\ pc = "Unlinked"
    /\ IF op = "open" THEN Continue("Recover") ELSE Finish(TRUE)
    /\ UNCHANGED <<disk, outside>>

-----------------------------------------------------------------------------
(* reset_demo() and recover_demo_reset(), which the constructor also runs. *)
(* A command already applied, one that meets an unfinished transaction or  *)
(* reset, and one at the last generation change nothing.                   *)

ResetDemo(c) ==
    /\ Callable
    /\ resetId # {c}
    /\ ~ journal.exists /\ ~ reset.exists
    /\ Binds(ledger, state)
    /\ state.generation < MaxGeneration
    /\ reset' = [exists |-> TRUE, command |-> {c},
                 before |-> state, after |-> reset_state(state),
                 before_ids |-> ledger,
                 after_ids |-> reset_ledger(ledger, reset_state(state))]
    /\ op' = "reset"
    /\ pc' = "ResetState"
    /\ UNCHANGED <<present, state, ledger, journal, outbox, resetId,
                   ready, target, outside>>

ResetState ==
    /\ pc = "ResetState"
    /\ state' = reset.after
    /\ Continue("ResetLedger")
    /\ UNCHANGED <<present, ledger, journal, outbox, reset, resetId, outside>>

\* Mutant: demo-reset-id is not written.
ResetLedger_unmarked ==
    /\ pc = "ResetLedger"
    /\ ledger' = reset.after_ids
    /\ Continue("ResetRetire")
    /\ UNCHANGED <<present, state, journal, outbox, reset, resetId, outside>>

ResetLedger ==
    /\ pc = "ResetLedger"
    /\ ledger' = reset.after_ids
    /\ Continue("ResetMark")
    /\ UNCHANGED <<present, state, journal, outbox, reset, resetId, outside>>

ResetMark ==
    /\ pc = "ResetMark"
    /\ resetId' = reset.command
    /\ Continue("ResetRetire")
    /\ UNCHANGED <<present, state, ledger, journal, outbox, reset, outside>>

\* The journal is renamed away before its files are deleted.
ResetRetire ==
    /\ pc = "ResetRetire"
    /\ reset' = NoReset
    /\ IF op = "open" THEN Continue("Recover") ELSE Finish(ready)
    /\ UNCHANGED <<present, state, ledger, journal, outbox, resetId, outside>>

-----------------------------------------------------------------------------
(* Delivery: acknowledge() and quarantine_delivery().                      *)

\* A POST of a message in the outbox reaches the backend, which keeps it.
\* The answer may be lost, late or repeated.
Deliver(a, kind) ==
    /\ Callable
    /\ kind \in outbox[a].messages /\ ~ outbox[a].quarantined
    /\ backend' = backend \union {Message(a, kind)}
    /\ UNCHANGED <<disk, process, config>>

WriteReceipt(a, kind) ==
    /\ outbox' = [outbox EXCEPT ![a].acks = @ \union {kind}]
    /\ target' = {<<a, kind>>}
    /\ op' = "acknowledge"
    /\ pc' = "RemoveMessage"
    /\ UNCHANGED <<present, state, ledger, journal, reset, resetId,
                   ready, outside>>

\* Mutant: any answer acknowledges.
Acknowledge_any(a, kind) ==
    /\ Callable /\ InventoryVerified
    /\ kind \in outbox[a].messages /\ ~ outbox[a].quarantined
    /\ WriteReceipt(a, kind)

\* The exact ACK of a stored message: its receipt is written first.
Acknowledge(a, kind) ==
    /\ Callable /\ InventoryVerified
    /\ kind \in outbox[a].messages /\ ~ outbox[a].quarantined
    /\ Message(a, kind) \in backend
    /\ WriteReceipt(a, kind)

\* The message goes; the bundle goes with its last message.
RemoveMessage ==
    /\ pc = "RemoveMessage"
    /\ \E m \in target :
          /\ outbox' = [outbox EXCEPT ![m[1]].messages = @ \ {m[2]}]
          /\ IF outbox[m[1]].messages \subseteq {m[2]}
             THEN Continue("Sweep") ELSE Finish(TRUE)
    /\ UNCHANGED <<present, state, ledger, journal, reset, resetId, outside>>

\* remove_all(bundle), one file at a time in directory order.
SweepManifest ==
    /\ pc = "Sweep"
    /\ \E m \in target :
          /\ outbox[m[1]].manifest
          /\ outbox' = [outbox EXCEPT ![m[1]].manifest = FALSE]
    /\ UNCHANGED <<present, state, ledger, journal, reset, resetId,
                   process, outside>>

SweepAck ==
    /\ pc = "Sweep"
    /\ \E m \in target : \E kind \in outbox[m[1]].acks :
          outbox' = [outbox EXCEPT ![m[1]].acks = @ \ {kind}]
    /\ UNCHANGED <<present, state, ledger, journal, reset, resetId,
                   process, outside>>

RemoveBundle ==
    /\ pc = "Sweep"
    /\ \E m \in target :
          /\ ~ outbox[m[1]].manifest /\ outbox[m[1]].acks = {}
          /\ outbox' = [outbox EXCEPT ![m[1]] = NoBundle]
    /\ Finish(TRUE)
    /\ UNCHANGED <<present, state, ledger, journal, reset, resetId, outside>>

\* acknowledge() with another digest, and quarantine_delivery() after a
\* permanent refusal, hold the whole bundle.
QuarantineBundle(a) ==
    /\ Callable /\ InventoryVerified
    /\ outbox[a].messages # {} /\ ~ outbox[a].quarantined
    /\ outbox' = [outbox EXCEPT ![a].quarantined = TRUE]
    /\ UNCHANGED <<present, state, ledger, journal, reset, resetId,
                   process, outside>>

-----------------------------------------------------------------------------
(* Another release, and failures.                                          *)

\* The release whose configuration is current replaces a legacy one; the
\* directories stay.
Upgrade ==
    /\ pc = "Down"
    /\ config # CurrentConfig
    /\ config' = CurrentConfig
    /\ UNCHANGED <<disk, process, backend>>

Crash ==
    /\ pc # "Down"
    /\ ready' = FALSE
    /\ op' = "none"
    /\ pc' = "Down"
    /\ target' = {}
    /\ UNCHANGED <<disk, outside>>

RecoverSteps ==
    {"Recover", "RecoverLedger", "RecoverBundle", "RecoverCommit",
     "RecoverVerify", "Unlink", "Unlinked"}

\* recover() answers every exception with a marker, if it can write one.
FaultInRecover ==
    /\ "open" \in Faulty
    /\ op = "open" /\ pc \in RecoverSteps
    /\ journal.exists \/ pc = "Unlinked"
    /\ journal' \in {journal, QuarantinedJournal}
    /\ Finish(FALSE)
    /\ UNCHANGED <<present, state, ledger, outbox, reset, resetId, outside>>

\* Mutant: a failed operation leaves the store ready.
FaultInStep_ready ==
    /\ op \in Faulty
    /\ op = "open" => pc \notin RecoverSteps
    /\ Finish(ready)
    /\ UNCHANGED <<disk, outside>>

\* A failing call in the rest of the constructor, in process() or in
\* acknowledge() clears ready_; reset_demo() leaves it as it is.
FaultInStep ==
    /\ op \in Faulty
    /\ op = "open" => pc \notin RecoverSteps
    /\ Finish(op = "reset" /\ ready)
    /\ UNCHANGED <<disk, outside>>

\* A bundle that cannot be read is marked, whatever the reason.  Every
\* public operation reads the inventory; staging can fail too.
FaultInInventory ==
    /\ \/ At("open", "Inventory") /\ "open" \in Faulty
       \/ Callable /\ Faulty \intersect {"process", "acknowledge"} # {}
    /\ \/ \E a \in {b \in AssessmentIds : outbox[b].exists} :
             outbox' = [outbox EXCEPT ![a].quarantined = TRUE]
       \/ UNCHANGED outbox
    /\ Finish(FALSE)
    /\ UNCHANGED <<present, state, ledger, journal, reset, resetId, outside>>

Step ==
    \/ OpenState \/ OpenLedger \/ OpenReset \/ OpenResetConflict
    \/ OpenInventory
    \/ RecoverNothing \/ RecoverQuarantined \/ RecoverState \/ RecoverLedger
    \/ RecoverBundle \/ RecoverCommit \/ RecoverVerify \/ RecoverFails
    \/ WriteState \/ WriteLedger \/ PublishBundle \/ Commit \/ Verify
    \/ PersistFails
    \/ UnlinkBody \/ UnlinkCommitted \/ RemoveJournal \/ SyncTransactions
    \/ ResetState \/ ResetLedger \/ ResetMark \/ ResetRetire
    \/ RemoveMessage \/ SweepManifest \/ SweepAck \/ RemoveBundle

Call ==
    \/ \E id \in AssessmentIds, i \in Increments, n \in OtherCounts :
          Process(id, i, n)
    \/ \E e \in SourceEvents : ProcessRefused(e)
    \/ \E e \in SourceEvents : ProcessDuplicateConflict(e)
    \/ \E c \in Commands : ResetDemo(c)
    \/ \E a \in AssessmentIds, kind \in Kinds : Deliver(a, kind)
    \/ \E a \in AssessmentIds, kind \in Kinds : Acknowledge(a, kind)
    \/ \E a \in AssessmentIds : QuarantineBundle(a)

Failure == Crash \/ FaultInRecover \/ FaultInStep \/ FaultInInventory

Next == Open \/ Step \/ Call \/ Upgrade \/ Failure

Spec == Init /\ [][Next]_vars

-----------------------------------------------------------------------------
(* Properties.                                                             *)

\* Every file of the store and every local of a running operation has its
\* type: in particular no stored state passes the last generation or the
\* wear bound, which validate_state() demands of everything it writes.
TypeOK ==
    /\ present \subseteq {"state.json", "identity-ledger.json"}
    /\ state \in ModelStates
    /\ ledger \in Ledgers
    /\ journal \in Journals
    /\ outbox \in [AssessmentIds -> Bundles]
    /\ reset \in ResetJournals
    /\ resetId \subseteq Commands
    /\ ready \in BOOLEAN
    /\ op \in Ops
    /\ pc \in Steps
    /\ target \subseteq AssessmentIds \X Kinds
    /\ backend \subseteq AssessmentIds \X Kinds \X Nat
    /\ config \in Configs

Intact == journal.exists /\ journal.body

\* Whatever step was interrupted, state.json and identity-ledger.json are
\* explained: an intact journal that recover() will accept covers both, or
\* they bind each other, or an applicable reset journal covers the gap
\* between them.  (A file not yet written counts with its initial content.)
DiskExplained ==
    \/ /\ Intact
       /\ \/ state = txn.before /\ ledger = txn.before_ids
          \/ state = txn.after /\ ledger \in {txn.before_ids, txn.after_ids}
       /\ Binds(txn.before_ids, txn.before)
       /\ Binds(txn.after_ids, txn.after)
    \/ ~ Intact /\ Binds(ledger, state)
    \/ /\ ~ Intact /\ reset.exists
       /\ state = reset.after /\ ledger = reset.before_ids
       /\ Binds(reset.after_ids, reset.after)

\* A store that answers callers has no unfinished transaction, can read
\* every bundle, is within its budget, and holds a state its ledger binds
\* unless a failed reset awaits the next start.
ReadyIsClean ==
    Callable => /\ ~ journal.exists
                /\ InventoryVerified
                /\ Binds(ledger, state) \/ reset.exists

\* Messages of a journal that recovery will still publish.
Journalled ==
    IF Intact /\ txn.admit
    THEN {<<txn.id, kind, txn.after.generation>> :
            kind \in messages_of(txn.pair)}
    ELSE {}

\* Messages the store is answerable for.
Kept == Stored \union Journalled

\* No step, crash or fault makes an admitted message disappear before the
\* backend has stored it.
NoMessageLost == [][\A m \in Kept : m \in Kept' \/ m \in backend]_vars

\* A reset changes the state only for a command that is not recorded, and
\* its journal is retired only when the command is recorded and the state
\* and ledger agree: "Duplicate/restart recovery cannot reset twice".
ResetOnce ==
    [][ /\ pc = "ResetState" /\ state' # state => resetId # reset.command
        /\ reset.exists /\ ~ reset'.exists =>
              resetId = reset.command /\ Binds(ledger, state) ]_vars

\* The detailed store implements the ledger it promises.  A transaction
\* takes effect when its journal is published, a reset when state.json is
\* written.
Ledger ==
    INSTANCE ModelLedger WITH
        model   <- IF Intact THEN txn.after ELSE state,
        entries <- IF Intact THEN txn.after_ids.entries ELSE ledger.entries,
        queued  <- Kept,
        held    <- UNION {StoredIn(a) : a \in
                            {b \in AssessmentIds : outbox[b].quarantined}}

ImplementsLedger == Ledger!Spec

-----------------------------------------------------------------------------
(* What the documentation and the tests expect, and the code does not keep *)
(* (see the findings).                                                     *)

\* Interrupted anywhere, a transaction is recovered: the next start does
\* not give up on its journal.
JournalRecovers ==
    [][op = "open" /\ journal.exists => ~ (pc' = "Idle" /\ ~ ready')]_vars

\* Interrupted anywhere, an acknowledgement leaves an outbox the next start
\* can read.
OutboxRecovers == [][At("open", "Inventory") => pc' = "Down" \/ ready']_vars

\* A published journal always meets a state and a ledger it can replace:
\* its exact before or after bytes.
JournalAccepted ==
    Intact => /\ state \in {txn.before, txn.after}
              /\ ledger \in {txn.before_ids, txn.after_ids}

=============================================================================
