----------------------------- MODULE ModelCapture ---------------------------
(***************************************************************************)
(* The capture of an episode for the V2/V3 model (runtime/model_capture.cpp)*)
(* on the twelve model inputs.  It is meant to have the episode boundary    *)
(* of the V1 window engine; CaptureLockstep compares the two.               *)
(***************************************************************************)
EXTENDS EpisodeTiming

VARIABLES
    phase,              \* state_: "Idle", "Active" or "Post"
    pre, episode,       \* retained samples before and in the episode
    previous,           \* times of the previous frame, {} before the first
    retained_bucket,
    trigger_since, clear_since, suppression_since,      \* the three holds
    episode_start, active_start, active_so_far, post_since,
    suppressed,
    result              \* what the last call returned: at most one episode

times == <<episode_start, active_start, active_so_far, post_since>>
captureVars == <<phase, pre, episode, previous, retained_bucket, trigger_since,
                 clear_since, suppression_since, times, suppressed, result>>

Init ==
    /\ phase = "Idle" /\ pre = <<>> /\ episode = <<>>
    /\ previous = {} /\ retained_bucket = {}
    /\ trigger_since = {} /\ clear_since = {} /\ suppression_since = {}
    /\ episode_start = 0 /\ active_start = 0 /\ active_so_far = 0 /\ post_since = 0
    /\ suppressed = FALSE /\ result = {}

\* Mutant: a truncated episode can start again at once.
abort_unsuppressed(terminal, window) ==
    /\ trigger_since' = {} /\ clear_since' = {} /\ suppression_since' = {}
    /\ phase' = "Idle" /\ pre' = <<>> /\ episode' = <<>>
    /\ result' = IF phase = "Idle" THEN {}
                 ELSE {[terminal |-> terminal, samples |-> window]}
    /\ UNCHANGED <<times, suppressed>>

\* abort: also how an episode is completed.
abort(terminal, window) ==
    /\ trigger_since' = {} /\ clear_since' = {} /\ suppression_since' = {}
    /\ phase' = "Idle" /\ pre' = <<>> /\ episode' = <<>>
    /\ result' = IF phase = "Idle" THEN {}
                 ELSE {[terminal |-> terminal, samples |-> window]}
    /\ suppressed' = (suppressed \/ (phase # "Idle" /\ terminal = "TRUNCATED_MAX_DURATION"))
    /\ UNCHANGED times

\* Mutant: a pause is measured by the time of the source alone.
Gap_by_source(f) ==
    \E t \in previous : \/ f.source <= t.source \/ f.source - t.source > MaxGap
                        \/ f.mono < t.mono

Gap(f) ==
    \E t \in previous : \/ f.source <= t.source \/ f.source - t.source > MaxGap
                        \/ f.mono < t.mono \/ f.mono - t.mono > MaxGap

Arrived(f) == previous' = {[source |-> f.source, mono |-> f.mono]}
Retain(f) == retained_bucket # {f.source \div BucketTicks}
Bucket(f) == retained_bucket' = {f.source \div BucketTicks}

retain_pre(f) ==
    pre' = IF Retain(f)
           THEN recent(latest(Append(pre, [phase |-> "PRE", at |-> f.mono]), MaxPre),
                       f.mono)
           ELSE pre

with_sample(f, p) ==
    IF Retain(f) /\ Len(episode) < MaxTotal
    THEN Append(episode, [phase |-> p, at |-> f.mono]) ELSE episode

IngestGap(f) ==
    /\ Gap(f)
    /\ Arrived(f)
    /\ abort("INCOMPLETE_SOURCE_GAP", episode)
    /\ UNCHANGED retained_bucket

CaptureSuppressed(f) ==
    /\ suppressed
    /\ LET since == hold_start(qualifying_clear(f), f.mono, suppression_since)
           over == held(since, f.mono, ClearHold)
       IN  /\ suppressed' = ~over
           /\ suppression_since' = IF over THEN {} ELSE since
    /\ retain_pre(f)
    /\ result' = {}
    /\ UNCHANGED <<phase, episode, trigger_since, clear_since, times>>

CaptureIdle(f) ==
    /\ ~suppressed /\ phase = "Idle"
    /\ LET since == hold_start(qualifying_trigger(f), f.mono, trigger_since)
           kept == recent(pre, f.mono)
       IN  \/ /\ held(since, f.mono, TriggerHold)
              /\ phase' = "Active" /\ pre' = <<>>
              /\ episode' = IF Retain(f)
                            THEN Append(kept, [phase |-> "ACTIVE", at |-> f.mono]) ELSE kept
              /\ episode_start' = IF kept = <<>> THEN f.mono ELSE Head(kept).at
              /\ active_start' = f.mono /\ active_so_far' = 0
              /\ trigger_since' = {} /\ clear_since' = {}
           \/ /\ ~held(since, f.mono, TriggerHold)
              /\ trigger_since' = since
              /\ retain_pre(f)
              /\ UNCHANGED <<phase, episode, clear_since, episode_start,
                             active_start, active_so_far>>
    /\ result' = {}
    /\ UNCHANGED <<suppression_since, post_since, suppressed>>

OverLimit(f) ==
    \/ f.mono - episode_start >= EventLimit
    \/ active_so_far + (IF phase = "Active" THEN f.mono - active_start ELSE 0) >= ActiveLimit
    \/ Len(episode) >= MaxTotal
    \/ phase_count(episode, "ACTIVE") >= MaxActive

CaptureTruncated(f) ==
    /\ ~suppressed /\ phase # "Idle" /\ OverLimit(f)
    /\ abort("TRUNCATED_MAX_DURATION", episode)

Capture(window) ==
    \/ /\ Len(window) >= MaxTotal
       /\ abort("TRUNCATED_MAX_DURATION", window)
    \/ /\ Len(window) < MaxTotal
       /\ episode' = window /\ result' = {}
       /\ UNCHANGED <<pre, suppression_since, episode_start, suppressed>>

CaptureActive(f) ==
    /\ ~suppressed /\ phase = "Active" /\ ~OverLimit(f)
    /\ LET since == hold_start(qualifying_clear(f), f.mono, clear_since)
           clear == held(since, f.mono, ClearHold)
           window == with_sample(f, IF clear THEN "POST" ELSE "ACTIVE")
       IN  /\ Capture(window)
           /\ Len(window) < MaxTotal =>
                /\ phase' = IF clear THEN "Post" ELSE "Active"
                /\ active_so_far' = active_so_far + IF clear THEN f.mono - active_start ELSE 0
                /\ post_since' = IF clear THEN f.mono ELSE post_since
                /\ clear_since' = IF clear THEN {} ELSE since
                /\ trigger_since' = IF clear THEN {} ELSE trigger_since
                /\ UNCHANGED active_start

CapturePost(f) ==
    /\ ~suppressed /\ phase = "Post" /\ ~OverLimit(f)
    /\ LET since == hold_start(qualifying_trigger(f), f.mono, trigger_since)
           retrigger == held(since, f.mono, TriggerHold)
           over == \/ f.mono - post_since >= PostDuration
                   \/ phase_count(episode, "POST") >= MaxPost
           window == with_sample(f, IF retrigger THEN "ACTIVE" ELSE "POST")
       IN  \/ ~retrigger /\ over /\ abort("COMPLETE", episode)
           \/ /\ retrigger \/ ~over
              /\ Capture(window)
              /\ Len(window) < MaxTotal =>
                   /\ phase' = IF retrigger THEN "Active" ELSE "Post"
                   /\ active_start' = IF retrigger THEN f.mono ELSE active_start
                   /\ trigger_since' = IF retrigger THEN {} ELSE since
                   /\ clear_since' = IF retrigger THEN {} ELSE clear_since
                   /\ UNCHANGED <<active_so_far, post_since>>

capture_ingest(f) ==
    \/ IngestGap(f)
    \/ /\ ~Gap(f) /\ Arrived(f) /\ Bucket(f)
       /\ \/ CaptureSuppressed(f) \/ CaptureIdle(f) \/ CaptureTruncated(f)
          \/ CaptureActive(f) \/ CapturePost(f)

\* Product aborts the capture: a source gap, an expired input or a stop.
SourceGap ==
    /\ abort("INCOMPLETE_SOURCE_GAP", episode)
    /\ UNCHANGED <<previous, retained_bucket>>

\* reset_demo: a capture made anew.
reset_demo ==
    /\ phase' = "Idle" /\ pre' = <<>> /\ episode' = <<>>
    /\ previous' = {} /\ retained_bucket' = {}
    /\ trigger_since' = {} /\ clear_since' = {} /\ suppression_since' = {}
    /\ episode_start' = 0 /\ active_start' = 0 /\ active_so_far' = 0 /\ post_since' = 0
    /\ suppressed' = FALSE /\ result' = {}

Next ==
    \/ \E f \in FramesAfter(previous) : capture_ingest(f)
    \/ SourceGap
    \/ reset_demo

Spec == Init /\ [][Next]_captureVars

=============================================================================
