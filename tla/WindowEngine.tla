----------------------------- MODULE WindowEngine ---------------------------
(***************************************************************************)
(* The V1 window engine (v1/window.cpp): a hard-braking episode is captured *)
(* as PRE, ACTIVE and POST samples.  Each disjunct of ingest is one path    *)
(* through WindowEngine::ingest.                                            *)
(***************************************************************************)
EXTENDS EpisodeTiming

VARIABLES
    state,          \* "Idle", "Active" or "Post"
    pre_ring,       \* retained samples while no episode is captured
    samples,        \* retained samples of the episode
    last,           \* times of the previous valid frame, {} before the first
    retained_source_bucket,
    trigger_hold, clear_hold, suppression_hold,
    event_start, active_segment_start, accumulated_active, post_start,
    retrigger_suppressed,
    completed       \* what the last call returned: at most one EventWindow

holds == <<trigger_hold, clear_hold, suppression_hold>>
clocks == <<event_start, active_segment_start, accumulated_active, post_start>>
vars == <<state, pre_ring, samples, last, retained_source_bucket, holds,
          clocks, retrigger_suppressed, completed>>

Init ==
    /\ state = "Idle" /\ pre_ring = <<>> /\ samples = <<>>
    /\ last = {} /\ retained_source_bucket = {}
    /\ trigger_hold = {} /\ clear_hold = {} /\ suppression_hold = {}
    /\ event_start = 0 /\ active_segment_start = 0
    /\ accumulated_active = 0 /\ post_start = 0
    /\ retrigger_suppressed = FALSE /\ completed = {}

\* FrameValidator: time never runs backwards.
Reordered(f) == \E t \in last : f.source < t.source \/ f.mono < t.mono

\* First valid frame of each bucket of source time.
retained(f) == retained_source_bucket # {f.source \div BucketTicks}

Received(f) ==
    /\ ~Reordered(f)
    /\ last' = {[source |-> f.source, mono |-> f.mono]}
    /\ retained_source_bucket' = {f.source \div BucketTicks}

add_capture_sample(f, phase) ==
    IF retained(f) /\ Len(samples) < MaxTotal
    THEN Append(samples, [phase |-> phase, at |-> f.mono]) ELSE samples

add_pre_sample(f) ==
    pre_ring' = IF retained(f)
                THEN latest(Append(recent(pre_ring, f.mono),
                                   [phase |-> "PRE", at |-> f.mono]), MaxPre)
                ELSE pre_ring

\* finish: the episode ends with the samples collected so far.
finish(terminal, window) ==
    /\ completed' = {[terminal |-> terminal, samples |-> window]}
    /\ state' = "Idle" /\ samples' = <<>>
    /\ trigger_hold' = {} /\ clear_hold' = {}
    /\ accumulated_active' = 0
    /\ retrigger_suppressed' = (retrigger_suppressed \/ terminal = "TRUNCATED_MAX_DURATION")
    /\ UNCHANGED <<pre_ring, event_start, active_segment_start, post_start>>

\* An incomplete, malformed, stale or reordered frame, also the one that
\* Runtime::disconnect makes up; it can come at any time.
IngestInvalid ==
    /\ suppression_hold' = {}
    /\ \/ state # "Idle" /\ finish("INCOMPLETE_SOURCE_GAP", samples)
       \/ /\ state = "Idle"
          /\ trigger_hold' = {} /\ clear_hold' = {} /\ completed' = {}
          /\ UNCHANGED <<state, pre_ring, samples, clocks, retrigger_suppressed>>
    /\ UNCHANGED <<last, retained_source_bucket>>

IngestSuppressed(f) ==
    /\ retrigger_suppressed
    /\ Received(f)
    /\ LET hold == hold_start(qualifying_clear(f), f.mono, suppression_hold)
           over == held(hold, f.mono, ClearHold)
       IN  /\ retrigger_suppressed' = ~over
           /\ suppression_hold' = IF over THEN {} ELSE hold
    /\ add_pre_sample(f)
    /\ completed' = {}
    /\ UNCHANGED <<state, samples, trigger_hold, clear_hold, clocks>>

begin_event(f) ==
    LET pre == recent(pre_ring, f.mono)
    IN  /\ state' = "Active" /\ pre_ring' = <<>>
        /\ samples' = IF retained(f) THEN Append(pre, [phase |-> "ACTIVE", at |-> f.mono]) ELSE pre
        /\ event_start' = IF pre = <<>> THEN f.mono ELSE Head(pre).at
        /\ active_segment_start' = f.mono /\ accumulated_active' = 0
        /\ trigger_hold' = {} /\ clear_hold' = {}

IngestIdle(f) ==
    /\ state = "Idle" /\ ~retrigger_suppressed
    /\ Received(f)
    /\ LET hold == hold_start(qualifying_trigger(f), f.mono, trigger_hold)
       IN  \/ held(hold, f.mono, TriggerHold) /\ begin_event(f)
           \/ /\ ~held(hold, f.mono, TriggerHold)
              /\ trigger_hold' = hold
              /\ add_pre_sample(f)
              /\ UNCHANGED <<state, samples, clear_hold, event_start,
                             active_segment_start, accumulated_active>>
    /\ completed' = {}
    /\ UNCHANGED <<suppression_hold, post_start, retrigger_suppressed>>

active_elapsed(now) ==
    accumulated_active
        + IF state = "Active" THEN now - active_segment_start ELSE 0

\* Mutant: only the ACTIVE time is limited.
over_limit_active(f) ==
    \/ active_elapsed(f.mono) >= ActiveLimit
    \/ Len(samples) >= MaxTotal

over_limit(f) ==
    \/ f.mono - event_start >= EventLimit
    \/ active_elapsed(f.mono) >= ActiveLimit
    \/ Len(samples) >= MaxTotal
    \/ phase_count(samples, "ACTIVE") >= MaxActive

IngestTruncated(f) ==
    /\ state # "Idle" /\ over_limit(f)
    /\ Received(f)
    /\ finish("TRUNCATED_MAX_DURATION", samples)
    /\ suppression_hold' = {}

\* The end of a path that keeps the episode: the frame may be the one that
\* fills it.
capture(window) ==
    \/ /\ Len(window) >= MaxTotal
       /\ finish("TRUNCATED_MAX_DURATION", window)
       /\ suppression_hold' = {}
    \/ /\ Len(window) < MaxTotal
       /\ samples' = window /\ completed' = {}
       /\ UNCHANGED <<pre_ring, suppression_hold, event_start, retrigger_suppressed>>

IngestActive(f) ==
    /\ state = "Active" /\ ~over_limit(f)
    /\ Received(f)
    /\ LET hold == hold_start(qualifying_clear(f), f.mono, clear_hold)
           clear == held(hold, f.mono, ClearHold)
           window == add_capture_sample(f, IF clear THEN "POST" ELSE "ACTIVE")
       IN  /\ capture(window)
           /\ Len(window) < MaxTotal =>
                /\ state' = IF clear THEN "Post" ELSE "Active"
                /\ accumulated_active' = accumulated_active
                      + IF clear THEN f.mono - active_segment_start ELSE 0
                /\ post_start' = IF clear THEN f.mono ELSE post_start
                /\ clear_hold' = IF clear THEN {} ELSE hold
                /\ trigger_hold' = IF clear THEN {} ELSE trigger_hold
                /\ UNCHANGED active_segment_start

PostOver(f) ==
    \/ f.mono - post_start >= PostDuration
    \/ phase_count(samples, "POST") >= MaxPost

IngestPost(f) ==
    /\ state = "Post" /\ ~over_limit(f)
    /\ Received(f)
    /\ LET hold == hold_start(qualifying_trigger(f), f.mono, trigger_hold)
           retrigger == held(hold, f.mono, TriggerHold)
           window == add_capture_sample(f, IF retrigger THEN "ACTIVE" ELSE "POST")
       IN  \/ /\ ~retrigger /\ PostOver(f)
              /\ finish("COMPLETE", samples)
              /\ UNCHANGED suppression_hold
           \/ /\ retrigger \/ ~PostOver(f)
              /\ capture(window)
              /\ Len(window) < MaxTotal =>
                   /\ state' = IF retrigger THEN "Active" ELSE "Post"
                   /\ active_segment_start' =
                         IF retrigger THEN f.mono ELSE active_segment_start
                   /\ trigger_hold' = IF retrigger THEN {} ELSE hold
                   /\ clear_hold' = IF retrigger THEN {} ELSE clear_hold
                   /\ UNCHANGED <<accumulated_active, post_start>>

ingest(f) ==
    \/ IngestSuppressed(f)
    \/ ~retrigger_suppressed /\
         (IngestIdle(f) \/ IngestTruncated(f) \/ IngestActive(f) \/ IngestPost(f))

abort_service_stop ==
    /\ state # "Idle"
    /\ finish("ABORTED_SERVICE_STOP", samples)
    /\ UNCHANGED <<last, retained_source_bucket, suppression_hold>>

Next ==
    \/ \E f \in FramesAfter(last) : ingest(f)
    \/ IngestInvalid
    \/ abort_service_stop

Spec == Init /\ [][Next]_vars

-----------------------------------------------------------------------------
\* The episodes the engine hands out: the snapshot of a capture in progress,
\* which Runtime::ingest stores for a restart, and the finished window.
Windows ==
    {w.samples : w \in completed} \union (IF state = "Idle" THEN {} ELSE {samples})

\* The order and the limits of a window.
Shape(w) ==
    /\ Len(w) <= MaxTotal
    /\ phase_count(w, "PRE") <= MaxPre
    /\ phase_count(w, "ACTIVE") <= MaxActive
    /\ \A i, j \in DOMAIN w :
          i < j => /\ w[j].phase = "PRE" => w[i].phase = "PRE"
                   /\ w[i].at <= w[j].at
                   /\ w[j].at - w[i].at < EventLimit
                   /\ w[j].phase = "PRE" => w[j].at - w[i].at <= PreDuration

\* Every window is in order and within its limits: what
\* canonicalize_completion_content and build_partitioned_messages refuse (an
\* oversized window, more than MaxPre PRE or MaxActive ACTIVE samples, a PRE
\* sample that follows another phase) is never handed to them.  And it spans
\* less than EventLimit, PRE at most PreDuration, in the order of arrival,
\* also when braking again extends a window that was ending.  Two more things
\* they refuse can happen: see PostWithinSchema and SomeSample.
WellFormed == \A w \in Windows : Shape(w)

\* A window has a sample: build_partitioned_messages throws for an empty one.
SomeSample == \A w \in Windows : w # <<>>

\* At most MaxPost POST samples: the limit window.cpp names
\* maximum_post_samples and canonicalize_completion_content insists on.
PostWithinSchema == \A w \in Windows : phase_count(w, "POST") <= MaxPost

=============================================================================
