--------------------------- MODULE CaptureLockstep --------------------------
(***************************************************************************)
(* model_capture.hpp calls ModelCapture the "Same D4-016 episode boundary   *)
(* as v1".  Here both engines are fed the same frames, source gaps and      *)
(* stops, and their boundaries are compared for as long as nothing happens  *)
(* that the two treat differently.                                          *)
(***************************************************************************)
EXTENDS WindowEngine

CONSTANT MaxParted   \* bound on parted, for model checking

VARIABLES phase, pre, episode, previous, retained_bucket, trigger_since,
          clear_since, suppression_since, episode_start, active_start,
          active_so_far, post_since, suppressed, result,
          parted,     \* history: how often V2/V3 has dropped what V1 keeps
          pause       \* history: the latest pause, {} or one [before, after]

M == INSTANCE ModelCapture

bothVars == <<vars, M!captureVars, parted, pause>>

BothInit == Init /\ M!Init /\ parted = 0 /\ pause = {}

\* What the two engines treat differently is counted.
Part(differently) ==
    /\ parted' = parted + IF differently THEN 1 ELSE 0
    /\ parted' <= MaxParted

\* The arrivals of the previous frame and of this one, when there is a pause
\* between them by the time of the source or by the local clock.
PauseBefore(f) ==
    {[before |-> t.mono, after |-> f.mono] :
        t \in {u \in last : f.source - u.source > MaxGap \/ f.mono - u.mono > MaxGap}}

\* A frame both engines take.  Only ModelCapture looks for pauses.
BothIngest(f) ==
    /\ Part(M!Gap(f)) /\ ingest(f) /\ M!capture_ingest(f)
    /\ pause' = IF PauseBefore(f) = {} THEN pause ELSE PauseBefore(f)

\* A gap that Product reports to both.  While no episode is captured,
\* ModelCapture::abort also empties the PRE ring.
BothGap == /\ Part(phase = "Idle" /\ pre # <<>>)
           /\ IngestInvalid /\ M!SourceGap /\ UNCHANGED pause

BothStop ==
    Part(TRUE) /\ abort_service_stop /\ M!SourceGap /\ UNCHANGED pause

\* Only the V2/V3 capture can be reset.
CaptureReset == Part(TRUE) /\ M!reset_demo /\ UNCHANGED <<vars, pause>>

BothNext ==
    \/ \E f \in FramesAfter(last) : BothIngest(f)
    \/ BothGap
    \/ BothStop
    \/ CaptureReset

BothSpec == BothInit /\ [][BothNext]_bothVars

-----------------------------------------------------------------------------
\* The two engines are in the same phase, and when one ends an episode the
\* other ends it too, in the same way and with the same samples.
SameEpisodes ==
    parted = 0 => /\ state = phase
                  /\ completed = result
                  /\ state # "Idle" => samples = episode

\* The boundary alone, whatever has happened: when an episode begins,
\* becomes POST and ends.
SameBoundary == state = phase

\* ModelCapture never joins samples from before and after a pause longer than
\* MaxGap, in its PRE ring, in the episode it captures or in one it hands out.
NoBridge ==
    \A w \in {pre, episode} \union {r.samples : r \in result}, p \in pause :
        \/ \A i \in DOMAIN w : w[i].at <= p.before
        \/ \A i \in DOMAIN w : w[i].at >= p.after

=============================================================================
