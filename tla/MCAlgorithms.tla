---------------------------- MODULE MCAlgorithms ----------------------------
(* The pure algorithms against their reference definitions: the evaluation *)
(* of an episode, the partition of a window into messages and the calendar *)
(* arithmetic.  They share nothing; a behaviour runs one of them.          *)
EXTENDS SyntheticModel

CONSTANTS ChunkSamples, MaxChunks, MaxPre, MaxPost, MaxActiveInWindow, MaxTotal,
          MaxExtra,
          DaysBefore, DaysAfter

VARIABLES algorithm, window, active, post, number, date

P == INSTANCE WindowPartition WITH MaxActive <- MaxActiveInWindow
C == INSTANCE CivilTime

allVars == <<algorithm, scanVars, window, active, post, number, date>>

AllInit ==
    /\ algorithm \in {"model", "partition", "calendar"}
    /\ ScanInit /\ P!Init /\ C!Init
    /\ algorithm # "partition" => window.pre = 0 /\ active = 1
    /\ algorithm # "model" => e.terminal = "COMPLETE"

AllNext ==
    /\ \/ algorithm = "model" /\ ScanNext /\ UNCHANGED <<window, active, post, number, date>>
       \/ algorithm = "partition" /\ P!Next /\ UNCHANGED <<scanVars, number, date>>
       \/ algorithm = "calendar" /\ C!Next /\ UNCHANGED <<scanVars, window, active, post>>
    /\ UNCHANGED algorithm

AllSpec == AllInit /\ [][AllNext]_allVars

\* WindowPartition: every window within the limits of its phases can be
\* encoded and verified as a set of messages.
Encodable == P!Encodable

\* WindowPartition: a chunk that was sealed stays the same in every later
\* window.
SealedStable == P!SealedStable

\* CivilTime: the date conversions and checks agree with the calendar.
AgreesWithCalendar == C!AgreesWithCalendar

-----------------------------------------------------------------------------
(* Samples at some edges of the features and of the checks.                *)

Base(phase) ==
    [phase |-> phase, complete |-> TRUE, finite |-> TRUE, fresh |-> TRUE,
     later |-> TRUE, speed |-> 60000, acceleration |-> -3000, brake |-> 60000,
     steering |-> 0, linear_min |-> 59000, linear_max |-> 60000,
     angular_min |-> 0, angular_max |-> 20000]

Active0 == Base("ACTIVE")

MCSamples ==
    {Base("PRE"), Base("POST"),
     \* flawed samples
     [Base("PRE") EXCEPT !.complete = FALSE],
     [Base("POST") EXCEPT !.fresh = FALSE],
     [Base("PRE") EXCEPT !.finite = FALSE],
     [Base("POST") EXCEPT !.later = FALSE],
     [Base("POST") EXCEPT !.speed = 1000001],
     [Active0 EXCEPT !.brake = -200000],
     \* braking from light to beyond every full scale
     Active0,
     [Active0 EXCEPT !.acceleration = 100000, !.brake = 0],
     [Active0 EXCEPT !.acceleration = -100000, !.brake = 100000],
     [Active0 EXCEPT !.speed = 10000, !.linear_min = 0, !.linear_max = 4999],
     [Active0 EXCEPT !.speed = 9999],
     [Active0 EXCEPT !.steering = -5001, !.linear_min = 0],
     [Active0 EXCEPT !.acceleration = -7999, !.brake = 50001,
                     !.angular_max = 29999, !.linear_min = 60000]}
=============================================================================
