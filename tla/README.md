# A TLA+ verification of the brake health service

The service watches vehicle signals, cuts braking episodes out of them, runs a
small synthetic wear model, and delivers what it derives to a backend. It runs
on a unit that may lose power at any moment, so most of what can go wrong is in
what it leaves on disk. This directory models that code in TLA+, checks it with
TLC and proves the most important facts with TLAPS.

## The system

| part | source | what it does |
|---|---|---|
| state store (V2) | `src/v2/state_store.cpp` | model state, identity ledger, transaction journal, outbox of derived messages, demo reset |
| model, messages (V2) | `src/v2/model.cpp`, `messages.cpp` | evaluates an episode; identities and content of the messages |
| derived delivery | `src/runtime/derived_delivery.cpp` | next message, exact acknowledgement, quarantine |
| advisory runtime (V3) | `src/runtime/advisory_runtime.cpp`, `src/v3/` | persisted advisory requests, gateway outcomes, facts, demo reset hand-shake |
| event spool, runtime (V1) | `src/v1/spool.cpp`, `src/runtime/runtime.cpp` | captured windows on disk, their delivery and restart recovery |
| window engine, model capture | `src/v1/window.cpp`, `src/runtime/model_capture.cpp` | PRE/ACTIVE/POST capture, gaps, terminal states |
| product | `src/runtime/product.cpp` | composes all of them under one mutex, with a shared outbox budget |
| main loop, sessions | `src/runtime/grpc_main.cpp`, `session_reconnect.hpp`, `readiness_publication.hpp` | sessions, delivery worker, readiness heartbeat |
| bootstrap, token session | `src/runtime/bootstrap_main.cpp`, `token_session.cpp` | credentials, retry and backoff |
| function observation | `include/aosedge/function_observation.hpp` | the service's report about itself |
| helpers | `json.cpp`, `posix.cpp`, `sha256.cpp`, `application.cpp` | encoding, system calls, configuration |

How the parts interact. The bootstrap process keeps a token file for the
service. The service has a telemetry session (with a watcher thread), an
advisory worker (writer, reader, watcher; V3 only) and a delivery worker; all of
them call Product, which holds one mutex. A frame goes from the session through
the window engine into the event spool (V1), or through the model capture into
the state store, whose assessment the advisory runtime turns into a request to
the gateway (V2, V3). The delivery worker takes messages out of the spool, the
state store, the advisory runtime and the observation stream, posts them without
the mutex and hands in the answers.

`PROJECT.json` lists every component with its status and every hazard with the
line where it bites.

## Modules

| code | modules |
|---|---|
| state store, model | BrakeModel, StateStore, ModelLedger, SyntheticModel |
| capture | EpisodeTiming, WindowEngine, ModelCapture, CaptureLockstep |
| V1 messages, spool, runtime | WindowMessages, WindowPartition, EventSpool |
| advisory | AdvisoryRuntime, CivilTime |
| sessions | SessionInterruption, ProductInput, KuksaSession, ReadinessPublication, AdvisorySession |
| delivery | Delivery, FunctionObservation |
| bootstrap | TokenLease |
| instances for TLC | MCStateStore, MCCapture, MCEventSpool, MCAdvisoryRuntime, MCFunctionObservation, MCKuksaSession; MCLoops (AdvisorySession, Delivery, TokenLease); MCAlgorithms (SyntheticModel, WindowPartition, CivilTime) |
| proofs | StateStoreProofs (BrakeModel, StateStore); OutboxProofs (StateStore, ModelLedger); CaptureProofs, WindowProofs (CaptureLockstep, with both captures); AdvisoryProofs; ObservationProofs (FunctionObservation, SessionInterruption); EpisodeProofs (KuksaSession, SyntheticModel, CivilTime); LoopProofs (AdvisorySession, TokenLease, Delivery) |

* **BrakeModel** – the model state, the identity ledger, and the computations
  on them: `evaluate` (generation, wear, band, recent window), `ledger_after`,
  `reset_state`, and `Binds` (`validate_identity_ledger`). Score and band are
  functions of the wear index, as `validate_state` demands. What
  `SyntheticModel::evaluate` computes from the samples is a wear increment in
  4..10, the range of `4 + round_half_up(6 * load, 10000)`.
* **StateStore** – `v2::StateStore`. The variables `present`, `state`,
  `ledger`, `journal`, `outbox`, `reset`, `resetId` are the files; `ready` is
  `ready_`; `op`, `pc`, `target` say which public operation is running and what
  its next durable step is. One action is one durable step: an `atomic_write`, a
  directory rename, or one unlink of a `remove_all`. Public operations do not
  interleave (Product holds a mutex); what interleaves with them is `Crash` at
  any step and a failing system call at any step of the operations in the
  constant `Faulty`. Staging directories and temporary files are never read and
  are deleted by the next constructor, so filling them belongs to the rename
  that publishes them. `Deliver` (external) is the backend storing a message.
  A program evaluates under its own `kModelConfigSha256` only (`config`);
  `Upgrade` (external) installs the current release over a legacy one, whose
  state and bundles `supported_model_config` still accepts. The legacy release
  is taken to run the same store code.
* **ModelLedger** – the abstract promise: an accepted episode advances the
  model once and in the same step enters the ledger and queues its whole
  message group or none of it; a message leaves only after the backend has it.
* **SyntheticModel** – what `SyntheticModel::evaluate` makes of the samples of
  an episode: the reasons to skip it in the code's order, the features and the
  integer arithmetic of the wear increment. An episode is one that the model
  capture hands on, complete or cut short. One `Scan` step per sample gathers
  what the code's passes over the samples find.
* **EpisodeTiming, WindowEngine, ModelCapture** – the two captures. The common
  module has the durations, limits and hold timers and reduces a frame to its
  source time, its arrival and what it says about braking. Each disjunct of
  `ingest` is one path through the method of that name. **CaptureLockstep**
  feeds both the same frames.
* **WindowMessages** – `build_growing_messages`, `sealed_capture_chunk` and the
  checks of a completed set. A chunk is the range of samples it holds: equal
  ranges are equal bytes. **WindowPartition** lets a window grow sample by
  sample, with the limits of the code.
* **EventSpool** – `v1::EventSpool` under `Runtime`. `disk` is the event
  directories with their files; a call (`Checkpoint`, `next_message`, `accept`,
  `Boot` with `recover`, and the like) decides from the directory and leaves the
  durable steps it has to make in `todo`. `Step` makes the next one, a crash or
  a failing system call drops the rest. The message in `pending` is on its way
  while other calls run.
* **AdvisoryRuntime** – `AdvisoryRuntime` and the parts of Product that drive
  it. `state_json`, `journal`, `outbox` and `quarantined` are its files; `pc` is
  the next durable step of the commit in progress. The V2 store is reduced to
  what these calls see of it, including a reset that is left half done
  (`reset_journal`, `demo_reset_id`) and a store that is not ready.
* **CivilTime** – `days_from_civil`, `civil_from_days` and the three date
  checks, against a calendar turned one day at a time.
* **SessionInterruption** – the compare-and-exchange loop of `observe()`, one
  action per atomic access.
* **ProductInput** – the input side of Product (`ingest`, `disconnect`,
  `reauthenticate`, `expire_input`, `update_metadata`, `stop`) as operators on
  one record. Of an update to `ingest` the record form keeps the verdict (gap,
  processed, dropped), and of the reasons for a skipped episode the one that
  comes from the store is kept apart from the rest. **KuksaSession** is the threads around it: `main()` with
  `subscribe()`, the watcher, the advisory worker's metadata updates, and the
  outside that replaces token and metadata files.
* **ReadinessPublication, AdvisorySession** – the advisory worker: `advisory()`
  around `advisory_session()`, with writer, reader and watcher.
* **Delivery** – the loop of `deliver()` and `Product::next_message`'s rotation.
* **FunctionObservation** – the durable stream of observations, its ledger
  committed by write, rename and sync (`ledger_json` is the file, `synced` what
  a power loss leaves).
* **TokenLease** – the bootstrap loop and the private token directory, on a
  boot clock and a wall clock.

### Abstractions

Digests are taken to be injective: a digest of a state is the state, an
assessment id is the pair of event and model configuration. File names, JSON and
UUID formats are left out. The outbox budget counts messages; the byte budget
has the same form and is left out. Bytes in the spool are counted per sample.

StateStore: the eight files of a journal are `body` (all that recovery reads)
and `committed`: once one file of the body is gone recovery cannot read it,
whichever it was. There is one journal slot, because a ready store has none when
it publishes one (`JournalFree`, proved). `MaxGeneration` stands for the maximum
of `uint64_t`, and `RecentLimit` for 64.

An `atomic_write` (write, sync, rename, sync of the directory) is one step: a
crash leaves the old file or the new one. FunctionObservation, whose memory and
file can disagree after a failed commit, has its steps apart.

Calls that hold Product's mutex do not interleave. A component that is called
by another is reduced to what the caller can see, and the header of the module
names the module that has its steps. A time of the code is a number of ticks or,
where a run checks liveness, the ticks that remain until it, so that no bound on
a clock stops the system. `MaxMishaps` bounds the failures and outside events of
a behaviour, and `Mishaps` says which kinds a run allows.

## What TLC checks

Twelve runs. Ten pass; `reset_rejected` and `spool_restart` are violated (see
the findings). Each can be repeated with `tlc -config X.cfg Module`; the
configuration and module of a run are in `PROJECT.json`.

### State store

| run | what it shows |
|---|---|
| `store_faults` | with a crash anywhere, failing calls in the constructor, `process` and `acknowledge`, and an upgrade: `DiskExplained` (the two files are explained by the journal, by each other, or by the reset journal), `ReadyIsClean` (a store that answers has no unfinished transaction and a readable outbox within budget), `NoMessageLost`, and `ImplementsLedger` (the store implements ModelLedger) |
| `store_reset` | with failing calls in `reset_demo` too: `ResetOnce` (a demo reset is applied at most once per recorded command) |

**Refinement mapping.** A transaction takes effect when its journal is
published, because from then on recovery completes it; a reset when
`state.json` is written. A quarantined journal whose files are intact still
counts as committed: the store is not ready until it is repaired.

**Bounds.** A window of one event (`store_faults`) makes an event leave it and be
evaluated again, under the same or, after the upgrade, another identity; a window
of two (`store_reset`) makes duplicates. Generations up to 3 allow two
transactions and a reset, or three transactions and then the exhausted
generation. The increment 10 from wear 54 changes the band once (at 60), so that
there are groups of two messages and of one. Three messages with 0 or 2 others
make every outcome of the admission test happen.

### Capture

| run | what it shows |
|---|---|
| `capture` | both engines on the same frames, with jitter between the clocks, pauses on either of them, source gaps, stops and resets: `WellFormed` (every V1 window has the order, the spans and the counts its encoder demands, except that it may be empty or have too many POST samples, see the findings), `NoBridge` (samples from both sides of a pause never meet in one V2/V3 episode; the pause is recorded by a history variable of its own), `SameEpisodes` (until the first event that only one engine reacts to, both end the same episodes with the same samples) |

**Bounds.** A bucket is two ticks, so that frames fall into the same, the next
and a later bucket. A step of the two clocks is jitter, a stall of the local clock
longer than PRE inside a bucket, or a pause longer than `MaxGap` on one clock only,
so that each half of the gap test is needed. Durations are scaled so that each limit (on PRE, on ACTIVE,
on the whole event, on the number of samples) is the first to be reached on some
path. The engines may part once (`MaxParted`).

### Event spool

| run | what it shows |
|---|---|
| `spool_faults` | one event, a contract change, stops, crashes, failing calls and refusals: `NoMixedSet` (the backend never gets the chunks of one checkpoint with the completion of another), `OneContentPerKey`, `DeletedOnlyWhenStored` |
| `spool_progress` | two events in a spool for less than both: `WithinCapacity`, and `Drained` (a closed event is delivered and leaves the queue) |
| `spool_restart` | violated |

**Bounds.** Chunks of two samples and windows of up to four, with and without a
PRE sample, have a sealed, a growing and a partial chunk. A window may also begin
empty, and storing it throws. Two mishaps allow a
crash inside the recovery from a crash. `Drained` is checked with crashes, stops
and refusals but without failing calls: a call that fails between a directory and
its manifest makes `next_message()` throw until the next start, which only a
restart ends. **Fairness**: the process is started again, calls return, the
delivery thread keeps asking; strong fairness of the backend storing the offered
message and of its acknowledgement arriving, since the service offers it again
and again.

### Advisory runtime

| run | what it shows |
|---|---|
| `advisory` | two releases, a reset command, a crash or failing call at any durable step, a store that may not be ready: `AdmittedKept` (the fact of an admitted status is in the outbox, in the journal or at the backend), `OneRequestPerSequence`, `SuccessIsReal` (CLEARED is acknowledged only for a reset that happened and that the gateway answered), `OneAnswer`, and `ResetAnswered` (every recorded command is answered, unless a journal that was left behind blocks the answer) |
| `reset_rejected` | violated |

**Bounds.** One kept request and two sequence numbers make a request leave the
list; a lifetime of one tick makes the deadline race every other step; a budget
of one message is full after the first. The gateway answers APPLIED and CLEARED.
**Fairness**: starting again, the steps of a commit, time; strong fairness of
asking for the acknowledgement and of posting it, which every pass of the
delivery loop does.

### Function observation

| run | what it shows |
|---|---|
| `observation` | crashes, power losses and failed commits: `OneContentPerIdentity`, `AttemptedKept`, `Restartable`, and `Delivered` (a message that was handed out is stored in the end, unless the stream was dropped) |

**Bounds.** Two pending messages fill the queue, so that one is evicted; two
generations and two sequence numbers are used up. **Fairness**: the worker loop
and the restart; strong fairness of the backend storing the message and of its
receipt, as for the spool.

### Sessions

| run | what it shows |
|---|---|
| `session` | V1, and V3 with the advisory worker's updates: `RenewalKeepsCapture` (a planned token replacement never costs an episode, whichever call it interrupts), `NewerInputKept`, `EndsAfterChange`, `StaleIsWithdrawn` (unless closing the expired event failed), `MetadataConverges` |

**Bounds.** One outside event of each of eleven kinds and a storage failure on
top; with V1, whose closing of an event can fail, also a contract change or a
lost connection after a renewal. Two contracts; a freshness limit of one tick
and two ticks of time, so that data is fresh, at the limit and stale.
**Fairness**: each thread is scheduled (weak fairness of its steps), and a
cancelled call returns. No answer of the server is fair.

### Background loops

| run | what it shows |
|---|---|
| `loops` | one of three loops per behaviour, since they share only the token file and the queues, which each module lets change at any time. Advisory worker: `FailureIsNoRenewal`, `SpacedWrites` (accepted readiness writes keep their distance, also across sessions), `TransitionPublished`. Delivery worker: `Rotation` (a queue with a message waits for at most three posts of others, also when the cursor wraps), `NotGated` (a queue that works is emptied, whatever happens to the others). Bootstrap: `WithinLease` (the token file of the running process does not outlive its lease, whatever the wall clock does; the file a killed process leaves behind is in `orphans`, which no code ever clears, and is left out), `Reissued` |

**Bounds.** Two mishaps of the advisory worker and one of each other loop; a
cursor that wraps at 4, which like 2^32 is one more than a multiple of three; a
lease of up to four units in seven, so that a renewal and an expiry fit.
**Fairness**: each thread's steps, calls with a deadline return, time passes.

### Algorithms

| run | what it shows |
|---|---|
| `algorithms` | `IncrementRange` and `OnlySoundSamples` (only complete episodes without a flawed sample are assessed) for short episodes of fifteen kinds of sample, at some of the edges of the features and of the checks; `Encodable` (for every window that has a sample and at most 20 POST samples) and `SealedStable` with the real limits (chunks of 10, at most 15, 30 PRE, 100 ACTIVE and 150 samples in all); `AgreesWithCalendar` for each day from 1967 to 2380 |

Deadlock is not checked where the service may be stopped or a bound on time,
frames or numbers ends a behaviour.

### Findings

Where the code does not do what a comment, a document or a test of the
repository says, the statement is a property of its own that TLC violates. Two of
them are runs; the others have a configuration each, to be repeated with the
module named here.

* `JournalRemoval.cfg` (MCStateStore): the committed journal is deleted in place.
  A crash between two unlinks leaves a journal that recovery refuses on every
  later start, although state, ledger and bundle are complete.
* `BundleRemoval.cfg` (MCStateStore): the same for an acknowledged bundle.
* `ResetInterference.cfg` (MCStateStore): a reset that fails after publishing its
  journal leaves the store ready. An episode processed then publishes a journal
  that the next start, which first finishes the reset, can no longer apply.
* `WindowEmpty.cfg` (MCCapture): the frame that triggers an event is not retained
  when it is not the first of its source bucket, and the PRE samples are pruned by
  the local clock. If that frame arrives more than 3 s after the earlier one of its
  bucket (up to 5 s count as fresh), the window is empty, the encoder throws, and
  so does the disconnect that follows, which ends the process.
* `WindowPost.cfg` (MCCapture): the sample that turns ACTIVE into POST is retained
  without the limit on POST samples. Braking again at that limit gives a window
  of 21 POST samples, which the encoder refuses.
* `CaptureGap.cfg` (MCCapture): a source gap while idle empties the PRE ring of
  the model capture and not that of the window engine, so their episodes end at
  different frames.
* `reset_rejected`: the rejection of a pending command by another release has a
  result that the state's own schema refuses; the command stays pending.
* `ResetExpiry.cfg` (MCAdvisoryRuntime): a reset that failed half-way and was
  answered FAILED at its deadline is finished by the next start.
* `SharedBudget.cfg` (MCAdvisoryRuntime): a state store that is not ready reports
  no messages, and a fact is admitted over the shared budget.
* `spool_restart`: a crash between the two renames that publish a completion
  quarantines an intact event.
* `StaleReady.cfg` (MCKuksaSession): expiry disarms the watchdog before it closes
  the event. If closing fails while the session is already ending as a renewal,
  the service stays ready on stale data.

## What is proved

TLAPS checks the following for all values of the constants that satisfy the
named assumptions, with any number of crashes, faults, messages and clock steps.
Where a run checks the same property on an instance, the theorem has the
property's definition as its statement.

### State store (StateStoreProofs, OutboxProofs)

* `TypeCorrect`: `Spec => []TypeOK`. It rests on lemmas about `Remember`,
  `evaluate` and the other computations of BrakeModel.
* `MessagesSurvive`: `Spec => NoMessageLost`. `JournalFree` says where a journal
  may be on disk, so that publishing one overwrites none. `MessagesGuarded` says
  what each removal relies on: the journal is unlinked after its bundle is in the
  outbox, a message after the backend has it, a bundle after its last message.
* `ResetsOnce`: `Spec => ResetOnce`. It needs to know, for every step of
  `reset_demo` and of its recovery, which of the two files is already the new
  one, and that no other operation touches them while the journal is there.
* `RecoveryExact`: `Spec => []DiskExplained`, assuming that system calls inside
  `reset_demo` do not fail (`"reset" \notin Faulty`; without the assumption
  `ResetInterference.cfg` shows what goes wrong). The inductive invariant `Phases`
  says for every step what the two files hold relative to the journal, that the
  two journals exclude each other, and what a first start has written.
* `ReadyStoreClean`: `Spec => []ReadyIsClean`, whichever calls fail.
  `OutboxServed` adds what the budget check of `process` reserves until the bundle
  is published, and that only the bundle `acknowledge` is sweeping may lack its
  manifest.
* `StoreImplementsLedger`: `Spec => ImplementsLedger`, again with
  `"reset" \notin Faulty`. Under the conjunction of the invariants above
  (`StoreInv`) `process` takes the ledger's step when it publishes its journal,
  a reset when it writes state.json, `acknowledge` when it unlinks a message, and
  recovery when it quarantines a bundle. Every other durable step, crash or fault
  is a stutter.
* `DuplicatesAnswered` (`[]WindowAnswers`), `AcknowledgedStaysOut` (`NoReturn`) and
  `BudgetKept` (`[]WithinBudget`) of ModelLedger: what the promise is good for. By
  `StoreImplementsLedger` they hold of the store. The invariant `LedgerInv` relates
  the ledger's entries to the recent window, position by position, and bounds the
  generation of every message by the model's, so that a group is always new.

### Capture (CaptureProofs, WindowProofs)

* `EpisodesAgree`: `BothSpec => []SameEpisodes`. Until the two captures are
  parted, all their variables correspond (`Lockstep`).
* `PausesNotBridged`: `BothSpec => []NoBridge`, for any limits and any pacing of
  the two clocks. `BridgeInv`: the capture knows the previous frame or keeps
  nothing, and all it keeps arrived after the latest pause; what it hands out
  when a pause cuts it short arrived before.
* `EveryWindowWellFormed`: `BothSpec => []WellFormed`, for any limits and any
  pacing. `EpisodeInv`: the open window has that form already, and its samples
  arrived between the start of the event and the previous frame; a frame is added
  only below the limits, and a new event begins with what the PRE ring holds
  (`RingInv`).

### Advisory (AdvisoryProofs)

* `TypeCorrect`, `FactsSurvive` (`[]AdmittedKept`), `SequencesUnique`
  (`[]OneRequestPerSequence`), `SuccessJustified` (`[]SuccessIsReal`) and
  `AnswersAgree` (`[]OneAnswer`) of AdvisoryRuntime. They share the invariant
  `RuntimeInv`, which is stated over every state that a recovery can leave
  (`AfterStates`): the committed one and that of a published journal. `FactInv`:
  the fact of an admitted status is in the outbox, with the backend or in the
  journal. `RequestInv`: in each of these states the next sequence number is above
  all that were handed out, and equal numbers are equal requests. `ResetInv`: a
  result agrees with what the backend was told, and CLEARED stands only where the
  reset was carried out and the gateway answered the CLEAR. `AnswerInv`: the
  gateway answers only what it was sent.

### Observation stream (ObservationProofs)

* `IdentityIsContent` (`[]OneContentPerIdentity`), `AttemptsAreKept`
  (`[]AttemptedKept`) and `AlwaysRestartable` (`[]Restartable`), for any queue
  limit. The inductive invariant `StreamInv` demands of each ledger that a crash
  can leave behind, and of the one being committed, that its queue is well-formed
  and that it agrees with what was handed out: no number below, no other content
  under a used identity, nothing missing that is not stored. Each operation
  derives its ledger from the old one by an injective map of positions (lemma
  `Inherits`) or by appending a new number.
* `ObservationsKept` (`[]NotLost`) and `CauseSticky` (`Sticky`) of
  SessionInterruption, for any set of threads; KuksaSession and AdvisorySession,
  where `observe()` is one step, rest on them. The invariant adds that a thread
  whose exchange failed holds a value the cause has had.

### Sessions, evaluation and dates (EpisodeProofs)

* `SessionSafe`, `NewerInputKeeps` (`NewerInputKept`) and `RenewalsKeepCapture`
  (`RenewalKeepsCapture`) of KuksaSession, for any profiles, at least one contract
  and any freshness limit. `SessionInv` says what the watchdog may have read
  (`Watched`) and, as long as tokens were only replaced, where each thread may be
  and which cause and status it sees (`OnlyRenewals`).
* `IncrementBounded` (`[]IncrementRange`) and `SoundSamplesOnly`
  (`[]OnlySoundSamples`) of SyntheticModel. The first is the assumption
  `Increments \subseteq 4..10` under which the state store is verified. The
  invariant bounds each feature of the scan by the number of ACTIVE samples.
* `CalendarAgrees` (`[]AgreesWithCalendar`) of CivilTime, however far the calendar
  is turned forward, and back to the first day of the year 1 (`DaysBefore` at most
  719162; a source timestamp has no year 0). The lemmas show that the era
  arithmetic is the day count of the Gregorian rule (`Before`) and that the
  divisions of `civil_from_days` recover year and month. `CalendarInv` then
  follows the reference calendar over the ends of months, years and leap days.

### Background loops (LoopProofs)

* `FailuresClassified` (`[]FailureIsNoRenewal`) of AdvisorySession: a failure is on
  record as the cause, or its thread is about to record it and is joined before the
  session is classified.
* `WritesSpaced` (`SpacedWrites`), assuming `MinGap <= Pause`; both are 100 ms in
  the code. `SpacingInv` counts the time since the last accepted write wherever the
  writer is.
* `LeaseBounds` (`[]WithinLease`) of TokenLease, for any lifetimes and any jumps of
  the wall clock. It is about the running process: the destructor that removes the
  token does not run when the process is killed. `LeaseInv` bounds how far an iteration is behind the boot clock.
* `QueuesTakeTurns` (`[]Rotation`) of Delivery, for every combination of queues that
  throw or are offline, assuming that the cursor wraps at a number that leaves 1
  modulo 3, as 2^32 does. An overtaken queue is so few looks away that it is
  overtaken at most three times (`Near`), also across the wrap.

### Not proved

* Liveness (`Drained`, `ResetAnswered`, `Delivered`,
  `EndsAfterChange`, `StaleIsWithdrawn`, `MetadataConverges`,
  `TransitionPublished`, `NotGated`, `Reissued`) is only model-checked.
* The invariants of EventSpool and of WindowPartition are only model-checked. What
  they say rests on the chunks a window is cut into and on the bytes of a queue
  added up, which are defined by recursion over the window and the queue; that
  needs induction over data.
* Only proved, without a run: ModelLedger's own properties, SessionInterruption,
  both `TypeCorrect`.

## Not modelled

* The wording of messages and requests (`v2/messages.cpp`, `v3/messages.cpp`,
  most of `v3/advisory.cpp` and of `v1/messages.cpp`), `json.cpp` and
  `sha256.cpp`: functions without state. The modules use what matters of them
  (identities, which content is equal, what is refused).
* `posix.cpp` and the gRPC and HTTP calls: system calls and RPCs are external.
  They succeed, fail, time out or are cancelled.
* `application.cpp`, `service_identity.hpp`: validation of the configuration at
  start. The modules start from a valid one.
* The demo helpers, which are fixed inputs.
* The order among the messages of the V2 outbox, byte budgets, and times of day.
