---------------------------- MODULE KuksaSession ----------------------------
(***************************************************************************)
(* The telemetry subscription: main()'s loop around subscribe(), the       *)
(* watcher thread of each session, the advisory worker's own calls of      *)
(* update_metadata(), and the files the bootstrap process and the platform *)
(* replace under them.  Product is the composed component: every operation *)
(* the threads call on it is one step under its mutex (ProductInput).      *)
(*                                                                         *)
(* The RPCs are external: a Get or a Read returns when the server answers, *)
(* when the call fails, or because its context was cancelled.  Nothing     *)
(* obliges the server to answer.  SessionInterruption::observe() is one    *)
(* step here; module SessionInterruption shows that it behaves as one.     *)
(***************************************************************************)
EXTENDS ProductInput, FiniteSets

CONSTANTS
    MaxTime,        \* bound on the boot clock, in ticks
    Mishaps,        \* the kinds of outside events that may happen
    MaxMishaps,     \* how many of them
    AfterRenewals   \* <<profile, kind>> of which one more may follow renewals

None == 0
TokenReplaced == 1
Unavailable == 2

VARIABLES
    now,            \* CLOCK_BOOTTIME
    file,           \* the token file: {} or {token}; tokens are numbered
    issued,         \* tokens issued so far
    metadata,       \* the contract the public metadata file names
    stopping,       \* the signal handler has run
    product,        \* the record of ProductInput
    pc,             \* the main thread
    session,        \* the token and the metadata the session was opened with
    rpc,            \* the call in progress and its status
    cancelled,      \* TryCancel was called on the active context
    cause,          \* SessionInterruption
    invalid,        \* the session's own flag
    code,           \* the exception main() catches
    mono,           \* the clock read before ingest()
    read,           \* thread -> the token file as inspect_session_inputs read it
    watcher,        \* the watcher thread
    observed,       \* the clock the watcher read before expire_input()
    worker,         \* the advisory worker: <<place, metadata it read>>
    happened,       \* what has happened besides renewals: "storage", "other"
    mishaps,        \* how many mishaps, storage failures aside
    newest          \* the clock of the newest valid frame, -1 before any

files == <<file, issued, metadata, stopping>>
control == <<rpc, cancelled, code, mono>>
interruption_vars == <<cause, invalid>>
watching == <<watcher, observed>>
history == <<happened, mishaps>>
vars == <<now, files, product, pc, session, control, interruption_vars, read,
          watching, worker, history, newest>>

Init ==
    /\ now = 0
    /\ file \in {{}, {1}} /\ issued = 1
    /\ metadata = CHOOSE c \in Contracts : TRUE
    /\ stopping = FALSE
    /\ product \in {NewProduct(p, metadata) : p \in Profiles}
    /\ pc = "start"
    /\ session = [token |-> 0, metadata |-> metadata]
    /\ rpc = <<"none", "OK">> /\ cancelled = FALSE /\ code = "NONE" /\ mono = 0
    /\ cause = None /\ invalid = FALSE
    /\ read = [t \in {"session", "watcher"} |-> {}]
    /\ watcher = "none" /\ observed = 0
    /\ worker = <<"start", metadata>>
    /\ happened = {} /\ mishaps = 0 /\ newest = -1

\* One storage failure may come on top of the other mishaps, and one of
\* AfterRenewals on top of nothing but renewals.
Happens(kind) ==
    /\ kind \in Mishaps
    /\ \/ /\ kind # "storage" /\ mishaps < MaxMishaps
          /\ mishaps' = mishaps + 1
       \/ /\ <<product.profile, kind>> \in AfterRenewals
          /\ mishaps = MaxMishaps /\ "other" \notin happened
          /\ UNCHANGED mishaps
       \/ /\ kind = "storage" /\ kind \notin happened
          /\ UNCHANGED mishaps
    /\ happened' = happened \union
          CASE kind = "renew" -> {} [] kind = "storage" -> {kind} [] OTHER -> {"other"}

observe(change) == cause' = IF change > cause THEN change ELSE cause

\* The token is read first, the public inputs after it.
inspect_session_inputs(thread) ==
    IF read[thread] = {} \/ metadata # session.metadata THEN Unavailable
    ELSE IF read[thread] = {session.token} THEN None ELSE TokenReplaced

-----------------------------------------------------------------------------
(* subscribe() up to the stream.                                           *)

ReadMetadata ==
    /\ pc = "start" /\ ~stopping
    /\ session' = [session EXCEPT !.metadata = metadata]
    /\ pc' = "update"
    /\ UNCHANGED <<now, files, product, control, interruption_vars, read,
                   watching, worker, history, newest>>

Update ==
    /\ pc = "update"
    /\ product' = update_metadata(product, session.metadata)
    /\ pc' = "token"
    /\ UNCHANGED <<now, files, session, control, interruption_vars, read,
                   watching, worker, history, newest>>

\* An exception leaves subscribe(): the watcher is joined, then main()
\* catches it.
Throw(what) ==
    /\ code' = what
    /\ pc' = "failed"
    /\ rpc' = <<"none", "OK">> /\ cancelled' = FALSE /\ mono' = 0

\* Closing the event of the old contract fails.
UpdateThrows ==
    /\ pc = "update"
    /\ product.contract # session.metadata /\ CanThrow(product)
    /\ Happens("storage")
    /\ product' = abort(product)
    /\ Throw("STORAGE")
    /\ UNCHANGED <<now, files, session, interruption_vars, read, watching,
                   worker, newest>>

\* read_private_token; the session's watcher starts.
ReadToken ==
    /\ pc = "token"
    /\ \/ /\ file = {}
          /\ Throw("KUKSA_AUTH_PENDING")
          /\ UNCHANGED <<session, watcher>>
       \/ /\ file # {}
          /\ session' = [session EXCEPT !.token = CHOOSE t \in file : TRUE]
          /\ watcher' = "top"
          /\ pc' = "connect"
          /\ UNCHANGED control
    /\ UNCHANGED <<now, files, product, interruption_vars, read, observed, worker,
                   history, newest>>

\* make_context: a context made after the cancellation is cancelled at once.
make_context(from, kind, to) ==
    /\ pc = from
    /\ rpc' = <<kind, "OK">>
    /\ cancelled' = invalid
    /\ pc' = to
    /\ UNCHANGED <<now, files, product, session, code, mono, interruption_vars,
                   read, watching, worker, history, newest>>

\* The Get is answered and verify_metadata accepts the contract.
GetAnswered ==
    /\ pc = "get"
    /\ product' = input_observation(product, "CONNECTED", "WAITING", "AWAITING_INPUT")
    /\ pc' = "subscribe"
    /\ UNCHANGED <<now, files, session, control, interruption_vars, read,
                   watching, worker, history, newest>>

GetIncompatible ==
    /\ pc = "get"
    /\ Happens("incompatible")
    /\ Throw("VDP_INCOMPATIBLE")
    /\ UNCHANGED <<now, files, product, session, interruption_vars, read,
                   watching, worker, newest>>

\* An RPC ends without an answer: cancelled, or failed, or the server closed
\* the stream.
RpcEnds(status) ==
    /\ pc \in {"get", "stream"}
    /\ rpc' = [rpc EXCEPT ![2] = status]
    /\ pc' = "read"
    /\ UNCHANGED <<now, files, product, session, cancelled, code, mono,
                   interruption_vars, read, watching, worker, newest>>

RpcCancelled == cancelled /\ RpcEnds("CANCELLED") /\ UNCHANGED history

RpcFails ==
    \/ Happens("transport") /\ RpcEnds("UNAVAILABLE")
    \/ Happens("denied") /\ RpcEnds("PERMISSION_DENIED")
    \/ pc = "stream" /\ Happens("closed") /\ RpcEnds("OK")

-----------------------------------------------------------------------------
(* The stream.                                                             *)

\* Read returned an update: leave the loop, or read the clock for ingest().
StreamUpdate ==
    /\ pc = "stream"
    /\ IF stopping \/ invalid
       THEN /\ rpc' = [rpc EXCEPT ![2] = "CANCELLED"]
            /\ pc' = "read"
            /\ UNCHANGED mono
       ELSE /\ mono' = now
            /\ pc' = "ingest"
            /\ UNCHANGED rpc
    /\ UNCHANGED <<now, files, product, session, cancelled, code,
                   interruption_vars, read, watching, worker, history, newest>>

Verdicts == {Verdict(product, f) : f \in Frames}

\* A frame that breaks the source's rules is a mishap.
Ingest ==
    /\ pc = "ingest"
    /\ \E v \in Verdicts :
          /\ product' \in ingest(product, v, mono)
          /\ IF v = "gap" THEN Happens("gap") ELSE UNCHANGED history
    /\ newest' = IF product'.input_mono >= 0 /\ product'.input_mono # product.input_mono
                 THEN product'.input_mono ELSE newest
    /\ pc' = "stream" /\ mono' = 0
    /\ UNCHANGED <<now, files, session, rpc, cancelled, code,
                   interruption_vars, read, watching, worker>>

IngestThrows ==
    /\ pc = "ingest"
    /\ Happens("storage")
    /\ \E v \in Verdicts : product' \in ingest_thrown(product, v)
    /\ Throw("STORAGE")
    /\ UNCHANGED <<now, files, session, interruption_vars, read, watching,
                   worker, newest>>

-----------------------------------------------------------------------------
(* Classification of the end, and main()'s reaction.                       *)

ReadTokenAgain ==
    /\ pc = "read"
    /\ read' = [read EXCEPT !["session"] = file]
    /\ pc' = "inspect"
    /\ UNCHANGED <<now, files, product, session, control, interruption_vars,
                   watching, worker, history, newest>>

Inspect ==
    /\ pc = "inspect"
    /\ observe(inspect_session_inputs("session"))
    /\ pc' = "classify" /\ read' = [read EXCEPT !["session"] = {}]
    /\ UNCHANGED <<now, files, product, session, control, invalid, watching,
                   worker, history, newest>>

Renewal ==
    /\ rpc[2] = "CANCELLED" \/ rpc = <<"stream", "OK">>
    /\ cause = TokenReplaced
    /\ ~stopping

Classify ==
    /\ pc = "classify"
    /\ IF Renewal THEN pc' = "reauthenticate" /\ UNCHANGED control
       ELSE IF rpc[1] = "stream" THEN pc' = "leave" /\ UNCHANGED control
       ELSE Throw(IF rpc[2] = "PERMISSION_DENIED" THEN "KUKSA_AUTH_UNAVAILABLE"
                  ELSE "KUKSA_DATA_UNAVAILABLE")
    /\ UNCHANGED <<now, files, product, session, interruption_vars, read,
                   watching, worker, history, newest>>

\* runtime.disconnect() at the end of subscribe(), the watcher still running.
Leave ==
    /\ pc = "leave"
    /\ product' = disconnect(product)
    /\ pc' = "ended"
    /\ UNCHANGED <<now, files, session, control, interruption_vars, read,
                   watching, worker, history, newest>>

LeaveThrows ==
    /\ pc = "leave"
    /\ CanThrow(product) /\ Happens("storage")
    /\ product' = abort(product)
    /\ Throw("STORAGE")
    /\ UNCHANGED <<now, files, session, interruption_vars, read, watching,
                   worker, newest>>

\* The session is over, its locals are gone and its watcher is joined; main()
\* takes the next turn.
Turn ==
    /\ watcher = "none"
    /\ \/ pc = "reauthenticate" /\ product' = reauthenticate(product)
       \/ pc = "failed" /\ product' = FailureObservation(disconnect(product), code)
       \/ pc = "ended" /\ UNCHANGED product
    /\ pc' = "start"
    /\ rpc' = <<"none", "OK">> /\ cancelled' = FALSE /\ code' = "NONE"
    /\ cause' = None /\ invalid' = FALSE
    /\ UNCHANGED <<now, files, session, mono, read, watching, worker, history,
                   newest>>

\* A second failure inside the handler leaves main() with status 2.
TurnThrows ==
    /\ watcher = "none" /\ pc = "failed"
    /\ CanThrow(product) /\ Happens("storage")
    /\ product' = abort(product)
    /\ pc' = "exited"
    /\ UNCHANGED <<now, files, session, control, interruption_vars, read,
                   watching, worker, newest>>

Shutdown ==
    /\ pc = "start" /\ stopping
    /\ product' = stop(product)
    /\ pc' = "stopped"
    /\ UNCHANGED <<now, files, session, control, interruption_vars, read,
                   watching, worker, history, newest>>

-----------------------------------------------------------------------------
(* The watcher thread of a session.                                        *)

Finished == pc \in {"reauthenticate", "failed", "ended"}

WatchRead ==
    /\ watcher = "top"
    /\ IF Finished THEN watcher' = "none" /\ UNCHANGED <<read, cause>>
       ELSE /\ IF stopping THEN observe(Unavailable) ELSE UNCHANGED cause
            /\ read' = [read EXCEPT !["watcher"] = file]
            /\ watcher' = "inspect"
    /\ UNCHANGED <<now, files, product, pc, session, control, invalid, observed,
                   worker, history, newest>>

WatchInspect ==
    /\ watcher = "inspect"
    /\ observe(inspect_session_inputs("watcher"))
    /\ watcher' = "cancel" /\ read' = [read EXCEPT !["watcher"] = {}]
    /\ UNCHANGED <<now, files, product, pc, session, control, invalid, observed,
                   worker, history, newest>>

\* Mutant: only a replaced token cancels.
Cancels_replaced == cause = TokenReplaced

Cancels == cause # None

WatchCancel ==
    /\ watcher = "cancel"
    /\ invalid' = (invalid \/ Cancels)
    /\ cancelled' = (cancelled \/ Cancels)
    /\ watcher' = "sample"
    /\ UNCHANGED <<now, files, product, pc, session, rpc, code, mono, cause,
                   read, observed, worker, history, newest>>

WatchSample ==
    /\ watcher = "sample"
    /\ observed' = now
    /\ watcher' = "expire"
    /\ UNCHANGED <<now, files, product, pc, session, control, interruption_vars,
                   read, worker, history, newest>>

\* Mutant: the age is an unsigned difference.
Expires_unsigned ==
    product.input_mono >= 0
    /\ (observed < product.input_mono \/ Stale(product, observed))

\* The age is taken under the lock, against the clock read before it.
Expires == Stale(product, observed)

WatchExpire ==
    /\ watcher = "expire"
    /\ product' = IF Expires THEN expire_input(product) ELSE product
    /\ watcher' = "top" /\ observed' = 0
    /\ UNCHANGED <<now, files, pc, session, control, interruption_vars, read,
                   worker, history, newest>>

WatchExpireThrows ==
    /\ watcher = "expire"
    /\ Expires /\ CanThrow(product) /\ Happens("storage")
    /\ product' = expire_input_thrown(product)
    /\ cause' = Unavailable /\ invalid' = TRUE /\ cancelled' = TRUE
    /\ watcher' = "top" /\ observed' = 0
    /\ UNCHANGED <<now, files, pc, session, rpc, code, mono, read, worker,
                   newest>>

-----------------------------------------------------------------------------
(* The advisory worker (V3): each of its sessions starts the same way, and *)
(* ends when its own watcher sees the inputs change, or for other reasons. *)

Running == pc \notin {"stopped", "exited"}

WorkerRead ==
    /\ Running /\ product.profile = "V3" /\ worker[1] = "start" /\ ~stopping
    /\ worker' = <<"update", metadata>>
    /\ UNCHANGED <<now, files, product, pc, session, control, interruption_vars,
                   read, watching, history, newest>>

WorkerUpdate ==
    /\ Running /\ worker[1] = "update"
    /\ product' = update_metadata(product, worker[2])
    /\ worker' = <<"session", worker[2]>>
    /\ UNCHANGED <<now, files, pc, session, control, interruption_vars, read,
                   watching, history, newest>>

\* Mutant: the advisory session does not compare the metadata.
WorkerEnds_token == FALSE

WorkerEnds == metadata # worker[2]

WorkerEnd ==
    /\ Running /\ worker[1] = "session" /\ WorkerEnds
    /\ worker' = <<"start", worker[2]>>
    /\ UNCHANGED <<now, files, product, pc, session, control, interruption_vars,
                   read, watching, history, newest>>

-----------------------------------------------------------------------------
(* The files, the signal, the demo reset and the clock.                    *)

Outside ==
    /\ Running
    /\ \/ /\ Happens("renew")
          /\ file' = {issued + 1} /\ issued' = issued + 1
          /\ UNCHANGED <<metadata, stopping, product>>
       \/ /\ Happens("remove") /\ file' = {}
          /\ UNCHANGED <<issued, metadata, stopping, product>>
       \/ /\ Happens("publish") /\ metadata' \in Contracts \ {metadata}
          /\ UNCHANGED <<file, issued, stopping, product>>
       \/ /\ ~stopping /\ Happens("stop") /\ stopping' = TRUE
          /\ UNCHANGED <<file, issued, metadata, product>>
       \/ /\ product.profile = "V3" /\ ~product.reset /\ Happens("reset")
          /\ product' = complete_demo_reset(product)
          /\ UNCHANGED files
       \/ /\ product.reset /\ product' = [product EXCEPT !.reset = FALSE]
          /\ UNCHANGED <<files, history>>
    /\ UNCHANGED <<now, pc, session, control, interruption_vars, read, watching,
                   worker, newest>>

Tick ==
    /\ Running /\ now < MaxTime
    /\ now' = now + 1
    /\ UNCHANGED <<files, product, pc, session, control, interruption_vars, read,
                   watching, worker, history, newest>>

\* What the threads do by themselves, without the server and without faults.
MainStep ==
    \/ ReadMetadata \/ Update \/ ReadToken
    \/ make_context("connect", "get", "get")
    \/ make_context("subscribe", "stream", "stream")
    \/ RpcCancelled \/ Ingest \/ ReadTokenAgain \/ Inspect \/ Classify
    \/ Leave \/ Turn \/ Shutdown

WatcherStep == WatchRead \/ WatchInspect \/ WatchCancel \/ WatchSample \/ WatchExpire

WorkerStep == WorkerRead \/ WorkerUpdate \/ WorkerEnd

Next ==
    \/ MainStep \/ WatcherStep \/ WorkerStep
    \/ GetAnswered \/ GetIncompatible \/ RpcFails \/ StreamUpdate
    \/ UpdateThrows \/ IngestThrows \/ LeaveThrows \/ TurnThrows
    \/ WatchExpireThrows
    \/ Outside \/ Tick

Spec == Init /\ [][Next]_vars

\* The threads are scheduled; a cancelled call returns.
FairSpec ==
    /\ Spec
    /\ WF_pc(MainStep)
    /\ WF_watcher(WatcherStep)
    /\ WF_worker(WorkerStep)

-----------------------------------------------------------------------------

\* The episode in progress is given up.
Aborts ==
    /\ product.phase \in Capturing /\ product'.phase = "WAITING"
    /\ product'.activity[1] # "COMPLETED"
    /\ ~(product'.activity[1] = "SKIPPED" /\ pc = "ingest" /\ pc' = "stream")

\* A planned token replacement never costs an episode: as long as tokens
\* were only replaced and frames kept coming, nothing aborts the capture,
\* whichever call of the session the replacement interrupted.
RenewalKeepsCapture ==
    [][Aborts => \/ happened' # {}
                 \/ now - newest > Freshness]_vars

\* A delayed expiry decision never discards newer input: when the watchdog
\* expires the input, no valid frame was ingested within the freshness limit.
NewerInputKept ==
    [][(watcher = "expire" /\ product' # product /\ watcher' = "top")
         => now - product.input_mono > Freshness /\ product.input_mono >= 0]_vars

\* A session that started from inputs no longer in place ends: the watcher's
\* cancellation reaches the call in flight, the Get or the stalled stream,
\* unless the very same inputs are back.
EndsAfterChange ==
    (pc \in {"connect", "get", "subscribe", "stream"}
        /\ (file # {session.token} \/ metadata # session.metadata))
      ~> (pc \in {"start", "stopped", "exited"}
            \/ (file = {session.token} /\ metadata = session.metadata))

\* The newest valid frame is too old for the readiness that is reported, and
\* what ends that.
Outlived == (product.ready \/ product.input[1] = "RECEIVING") /\ now - newest > Freshness
Withdrawn == \/ ~product.ready /\ product.input[1] # "RECEIVING"
             \/ now - newest <= Freshness
             \/ ~Running

\* Readiness and the reported input do not outlive the data: the watchdog
\* withdraws them, also when the session waits in a Get, as long as closing
\* the expired event does not fail.
StaleIsWithdrawn == Outlived ~> (Withdrawn \/ "storage" \in happened)

\* "Monotonic expiry [remains] authoritative across sessions" (the comment in
\* reauthenticate): also when closing the expired event fails.
StaleIsAlwaysWithdrawn == Outlived ~> Withdrawn

\* The two sessions read the metadata file at different times and both
\* overwrite the product's; a stale read does not stay: at the end the
\* product names the published contract.
MetadataConverges ==
    <>[](product.contract = metadata \/ stopping \/ pc = "exited")
=============================================================================
