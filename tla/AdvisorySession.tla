-------------------------- MODULE AdvisorySession ---------------------------
(***************************************************************************)
(* The advisory worker: advisory()'s loop around advisory_session(), whose *)
(* three threads share one session.  The writer sends requests and         *)
(* readiness, the reader observes GatewayStatus, the watcher cancels both  *)
(* when the inputs change.                                                 *)
(*                                                                         *)
(* The gateway and the RPCs are external.  What the requests and statuses  *)
(* mean is modelled in AdvisoryRuntime; here a request is its number.      *)
(* SessionInterruption::observe() is one step (see that module), and so is *)
(* inspect_session_inputs (its two reads are apart in KuksaSession).       *)
(***************************************************************************)
EXTENDS ReadinessPublication

CONSTANTS
    RequestGap,     \* between two requests (1000 ms), in ticks
    Pause,          \* the writer's pause (100 ms)
    MaxRequests,    \* request ids the product hands out
    Mishaps,        \* the kinds of outside events that may happen
    MaxMishaps      \* how many of them

None == 0
TokenReplaced == 1
Unavailable == 2

VARIABLES
    stopping,
    inputs,         \* token and public inputs against the session's:
                    \* "same", "replaced" (the token only) or "lost"
    live,           \* advisory_readiness as Product would answer now
    cause, invalid, \* SessionInterruption and the session's flag
    pc,             \* the writer, which is the session thread
    reader,         \* "none", "reading", "finish" or "done"
    watcher,        \* "none", "inspect" or "cancel"
    call, stream,   \* cancelled: the writer's context and the reader's
    status,         \* how the reader's stream ended
    last_attempt, attempted,    \* the last request: time to the next, id
    publication, value,         \* ReadinessPublication and the value read
    until,          \* what is left of the pause
    chain,          \* the logged advisory capability
    failed,         \* a failure the session must not mistake for a renewal
    written,        \* ticks since an accepted readiness write, at most MinGap
    mishaps

outside == <<stopping, inputs, live>>
flags == <<cause, invalid>>
contexts == <<call, stream>>
writer == <<last_attempt, attempted, publication, value, until>>
vars == <<outside, flags, pc, reader, watcher, contexts, status, writer, chain,
          failed, written, mishaps>>

NewSession ==
    /\ cause' = None /\ invalid' = FALSE
    /\ call' = FALSE /\ stream' = FALSE /\ status' = "OK"
    /\ last_attempt' = 0 /\ attempted' = 0
    /\ publication' = NewPublication /\ value' = FALSE /\ until' = 0
    /\ failed' = FALSE

Init ==
    /\ stopping = FALSE /\ inputs = "same" /\ live \in BOOLEAN
    /\ cause = None /\ invalid = FALSE
    /\ pc = "between" /\ reader = "none" /\ watcher = "none"
    /\ call = FALSE /\ stream = FALSE /\ status = "OK"
    /\ last_attempt = 0 /\ attempted = 0
    /\ publication = NewPublication /\ value = FALSE /\ until = 0
    /\ chain = FALSE /\ failed = FALSE /\ written = MinGap /\ mishaps = 0

Happens(kind) ==
    /\ kind \in Mishaps
    /\ mishaps < MaxMishaps
    /\ mishaps' = mishaps + 1

\* SessionInterruption::observe(): the worst cause is kept.
observe(change) == cause' = IF change > cause THEN change ELSE cause

inspect_session_inputs ==
    CASE inputs = "same" -> None
      [] inputs = "replaced" -> TokenReplaced
      [] inputs = "lost" -> Unavailable

-----------------------------------------------------------------------------
(* Opening the session.                                                    *)

\* Reading the token fails without it; otherwise the watcher starts and the
\* context of the Get is made.
Open ==
    /\ pc = "between" /\ ~stopping /\ until = 0 /\ inputs # "lost"
    /\ NewSession
    /\ inputs' = "same"
    /\ watcher' = "inspect"
    /\ pc' = "get"
    /\ UNCHANGED <<stopping, live, reader, chain, written, mishaps>>

\* The public inputs or the token cannot be read.
OpenFails ==
    /\ pc = "between" /\ ~stopping /\ until = 0 /\ inputs = "lost"
    /\ until' = RequestGap
    /\ UNCHANGED <<outside, flags, pc, reader, watcher, contexts, status,
                   last_attempt, attempted, publication, value, chain, failed,
                   written, mishaps>>

\* The status leaf is observed before any request; no request was attempted
\* in this session yet, so it proves nothing about the chain.  Then the
\* stream's context is made and the reader starts.
GetAnswered ==
    /\ pc = "get"
    /\ observe(inspect_session_inputs)
    /\ stream' = invalid
    /\ reader' = "reading"
    /\ pc' = "loop"
    /\ UNCHANGED <<outside, invalid, watcher, call, status, writer, chain, failed,
                   written, mishaps>>

\* The Get was cancelled, which is a renewal when the token was replaced; or
\* it failed, its leaf is not the contract's, or its status was not stored.
GetCancelled ==
    /\ pc = "get" /\ call
    /\ observe(inspect_session_inputs)
    /\ pc' = IF cause' = TokenReplaced /\ ~stopping
             THEN "reauthenticate" ELSE "failed"
    /\ UNCHANGED <<outside, invalid, reader, watcher, contexts, status, writer,
                   chain, failed, written, mishaps>>

GetFails ==
    /\ pc = "get"
    /\ \E kind \in {"transport", "incompatible", "storage"} : Happens(kind)
    /\ observe(inspect_session_inputs)
    /\ failed' = TRUE
    /\ pc' = "failed"
    /\ UNCHANGED <<outside, invalid, reader, watcher, contexts, status, writer,
                   chain, written>>

-----------------------------------------------------------------------------
(* The writer.                                                             *)

\* The top of the loop: next_request may have a request to send, a new one
\* or the last one again.
Iterate ==
    /\ pc = "loop" /\ ~invalid /\ ~stopping
    /\ \/ /\ last_attempt = 0
          /\ \E id \in {attempted, attempted + 1} \intersect 1..MaxRequests :
                attempted' = id
          /\ last_attempt' = RequestGap
          /\ call' = invalid
          /\ pc' = "request"
       \/ pc' = "readiness" /\ UNCHANGED <<attempted, last_attempt, call>>
    /\ UNCHANGED <<outside, flags, reader, watcher, stream, status, publication,
                   value, until, chain, failed, written, mishaps>>

\* The Set of a request returns; a denied one is not a renewal.
RequestReturns ==
    /\ pc = "request"
    /\ \/ UNCHANGED <<cause, chain, failed, mishaps>>       \* written
       \/ /\ call \/ Happens("transport")
          /\ call => UNCHANGED mishaps
          /\ chain' = FALSE
          /\ UNCHANGED <<cause, failed>>
       \/ /\ Happens("denied")
          /\ cause' = Unavailable
          /\ chain' = FALSE /\ failed' = TRUE
    /\ pc' = "readiness"
    /\ UNCHANGED <<outside, invalid, reader, watcher, contexts, status, writer,
                   written>>

\* next_request or request_written cannot store: the exception unwinds
\* through ReaderJoin, which cancels the stream and joins the reader.
WriterThrows ==
    /\ pc \in {"loop", "request"} /\ reader # "none"
    /\ pc = "loop" => ~invalid /\ ~stopping /\ last_attempt = 0
    /\ Happens("storage")
    /\ stream' = TRUE /\ failed' = TRUE
    /\ pc' = "failed"
    /\ UNCHANGED <<outside, flags, reader, watcher, call, status, writer, chain,
                   written>>

\* advisory_readiness samples the clock under Product's lock; the value may
\* be old when the gateway gets it.
Readiness ==
    /\ pc = "readiness"
    /\ IF due(publication, live)
       THEN value' = live /\ call' = invalid /\ pc' = "set" /\ UNCHANGED until
       ELSE until' = Pause /\ pc' = "pause" /\ UNCHANGED <<value, call>>
    /\ UNCHANGED <<outside, flags, reader, watcher, stream, status, last_attempt,
                   attempted, publication, chain, failed, written, mishaps>>

SetAccepted ==
    /\ pc = "set"
    /\ publication' = completed(publication, value, TRUE)
    /\ written' = 0
    /\ until' = Pause
    /\ pc' = "pause"
    /\ UNCHANGED <<outside, flags, reader, watcher, contexts, status,
                   last_attempt, attempted, value, chain, failed, mishaps>>

SetFails ==
    /\ pc = "set"
    /\ \/ call /\ UNCHANGED mishaps
       \/ Happens("transport")
    /\ publication' = completed(publication, value, FALSE)
    /\ until' = Pause
    /\ pc' = "pause"
    /\ UNCHANGED <<outside, flags, reader, watcher, contexts, status,
                   last_attempt, attempted, value, chain, failed, written>>

\* Mutant: the pause ends with the session.
PauseOver_invalid == until = 0 \/ stopping \/ invalid

PauseOver == until = 0 \/ stopping

EndPause ==
    /\ pc = "pause" /\ PauseOver
    /\ pc' = "loop"
    /\ UNCHANGED <<outside, flags, reader, watcher, contexts, status, writer,
                   chain, failed, written, mishaps>>

\* The loop is left: the stream is cancelled and the reader joined.
LeaveLoop ==
    /\ pc = "loop" /\ (invalid \/ stopping)
    /\ stream' = TRUE
    /\ pc' = "join"
    /\ UNCHANGED <<outside, flags, reader, watcher, call, status, writer, chain,
                   failed, written, mishaps>>

\* Mutant: the session is classified before the reader has finished.
Joined_early == reader # "none"

Joined == reader = "done"

Classify ==
    /\ pc = "join" /\ Joined
    /\ observe(inspect_session_inputs)
    /\ pc' = IF cause' = TokenReplaced /\ ~stopping
             THEN "reauthenticate" ELSE "failed"
    /\ UNCHANGED <<outside, invalid, reader, watcher, contexts, status, writer,
                   chain, failed, written, mishaps>>

\* advisory(): the threads are joined; a renewal is taken up at once, any
\* other end after a pause.
Turn ==
    /\ pc \in {"reauthenticate", "failed"}
    /\ watcher = "none" /\ reader \in {"none", "done"}
    /\ chain' = FALSE
    /\ until' = IF pc = "failed" THEN RequestGap ELSE 0
    /\ reader' = "none"
    /\ pc' = "between"
    /\ UNCHANGED <<outside, flags, watcher, contexts, status, last_attempt,
                   attempted, publication, value, failed, written, mishaps>>

-----------------------------------------------------------------------------
(* The reader and the watcher.                                             *)

Proves(id) == id > 0 /\ id = attempted

\* A status arrives: it shows the chain works when it answers the request
\* attempted in this session.  A status that cannot be stored is a failure.
Status ==
    /\ reader = "reading"
    /\ IF invalid \/ stopping
       THEN /\ invalid' = TRUE /\ stream' = TRUE
            /\ reader' = "finish" /\ status' = "CANCELLED"
            /\ UNCHANGED <<cause, chain, failed, mishaps>>
       ELSE \/ /\ \E id \in 0..MaxRequests : chain' = (chain \/ Proves(id))
               /\ UNCHANGED <<flags, stream, reader, status, failed, mishaps>>
            \/ /\ Happens("storage")
               /\ cause' = Unavailable /\ failed' = TRUE /\ chain' = FALSE
               /\ invalid' = TRUE /\ stream' = TRUE
               /\ reader' = "finish" /\ status' = "CANCELLED"
    /\ UNCHANGED <<outside, pc, watcher, call, writer, written>>

\* The stream ends: cancelled, closed by the server, or broken.
StreamEnds ==
    /\ reader = "reading"
    /\ \/ stream /\ status' = "CANCELLED" /\ UNCHANGED <<failed, mishaps>>
       \/ Happens("closed") /\ status' = "OK" /\ UNCHANGED failed
       \/ Happens("transport") /\ status' = "UNAVAILABLE" /\ failed' = TRUE
    /\ invalid' = TRUE /\ stream' = TRUE
    /\ reader' = "finish"
    /\ UNCHANGED <<outside, cause, pc, watcher, call, writer, chain, written>>

Finish ==
    /\ reader = "finish"
    /\ cause' = IF status = "UNAVAILABLE" THEN Unavailable ELSE cause
    /\ reader' = "done"
    /\ UNCHANGED <<outside, invalid, pc, watcher, contexts, status, writer,
                   chain, failed, written, mishaps>>

WatchInspect ==
    /\ watcher = "inspect"
    /\ IF pc \in {"reauthenticate", "failed"} /\ reader \in {"none", "done"}
       THEN watcher' = "none" /\ UNCHANGED cause
       ELSE /\ observe(IF stopping THEN Unavailable ELSE inspect_session_inputs)
            /\ watcher' = "cancel"
    /\ UNCHANGED <<outside, invalid, pc, reader, contexts, status, writer,
                   chain, failed, written, mishaps>>

WatchCancels == cause # None \/ invalid

WatchCancel ==
    /\ watcher = "cancel"
    /\ IF WatchCancels THEN invalid' = TRUE /\ call' = TRUE /\ stream' = TRUE
       ELSE UNCHANGED <<invalid, contexts>>
    /\ watcher' = "inspect"
    /\ UNCHANGED <<outside, cause, pc, reader, status, writer, chain, failed,
                   written, mishaps>>

-----------------------------------------------------------------------------

Outside ==
    /\ \/ Happens("replace") /\ inputs' = "replaced" /\ UNCHANGED <<stopping, live>>
       \/ /\ Happens("lose") /\ inputs' = "lost"
          /\ UNCHANGED <<stopping, live>>
       \/ /\ inputs = "lost" /\ inputs' \in {"same", "replaced"}
          /\ UNCHANGED <<stopping, live, mishaps>>
       \/ Happens("stop") /\ ~stopping /\ stopping' = TRUE /\ UNCHANGED <<inputs, live>>
       \/ Happens("flip") /\ live' = ~live /\ UNCHANGED <<inputs, stopping>>
    /\ UNCHANGED <<flags, pc, reader, watcher, contexts, status, writer,
                   chain, failed, written>>

Tick ==
    /\ last_attempt' = Less(last_attempt)
    /\ until' = Less(until)
    /\ publication' = Elapsed(publication)
    /\ written' = IF written < MinGap THEN written + 1 ELSE written
    /\ UNCHANGED <<outside, flags, pc, reader, watcher, contexts, status,
                   attempted, value, chain, failed, mishaps>>

WriterStep ==
    \/ Open \/ OpenFails \/ GetAnswered \/ GetCancelled \/ GetFails
    \/ Iterate \/ RequestReturns \/ WriterThrows \/ Readiness \/ SetAccepted
    \/ SetFails \/ EndPause \/ LeaveLoop \/ Classify \/ Turn

Next ==
    \/ WriterStep
    \/ Status \/ StreamEnds \/ Finish
    \/ WatchInspect \/ WatchCancel
    \/ Outside \/ Tick

Spec == Init /\ [][Next]_vars

\* The threads are scheduled; a Get or a Set ends by its deadline, and a
\* cancelled stream returns.
FairSpec ==
    /\ Spec
    /\ WF_vars(WriterStep) /\ WF_vars(Finish)
    /\ WF_vars(StreamEnds /\ stream)
    /\ WF_vars(WatchInspect) /\ WF_vars(WatchCancel)
    /\ WF_vars(Tick)

-----------------------------------------------------------------------------

\* A session that met a real failure, in any of its threads, is never taken
\* for a planned renewal: it is classified only after the reader has settled
\* how its stream ended.  Such a failure is a Get that failed, a denied
\* request, storage that failed or a broken stream; a Set that does not get
\* through is tried again, and inputs that are lost are a cause of their own.
FailureIsNoRenewal == pc = "reauthenticate" => ~failed

\* Accepted readiness writes are at least MinGap apart, also across a token
\* renewal, where the next session starts without a pause and with a new
\* ReadinessPublication.
SpacedWrites == [][SetAccepted => written >= MinGap]_vars

\* A change of readiness is published: the value accepted last becomes the
\* live one, unless the session ends or readiness changes again.
TransitionPublished ==
    \A b \in BOOLEAN :
        (pc = "loop" /\ live = b /\ publication.accepted = {~b})
          ~> (publication.accepted = {b} \/ live # b \/ pc = "between")
=============================================================================
