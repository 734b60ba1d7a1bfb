------------------------------ MODULE MCCapture -----------------------------
(* Instances of CaptureLockstep for TLC.  A tick is half a bucket.         *)
EXTENDS CaptureLockstep

\* Frames with jitter between the two clocks, one that arrives after a stall
\* longer than PreDuration, and a pause longer than MaxGap by either clock.
AllSteps == {<<1, 2>>, <<2, 1>>, <<1, 5>>, <<1, 6>>, <<6, 1>>}
SteadySteps == {<<1, 1>>, <<2, 2>>}
SparseSteps == {<<1, 1>>, <<3, 3>>}
=============================================================================
