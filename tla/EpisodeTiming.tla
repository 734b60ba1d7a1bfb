---------------------------- MODULE EpisodeTiming ---------------------------
(***************************************************************************)
(* What the V1 window engine and the V2/V3 model capture share: the        *)
(* durations and sample limits of an episode, the hold timers, and the     *)
(* frames they are fed.                                                    *)
(*                                                                         *)
(* Time is counted in ticks.  A frame is its source time, the local        *)
(* monotonic time of its arrival and what the pedal and the speed say      *)
(* about braking: "trigger" (speed >= 10 km/h and brake >= 50 %), "clear"  *)
(* (brake < 10 % or speed < 0.5 km/h), or neither; the two tests exclude   *)
(* each other.  Values in between and the other signals decide nothing.    *)
(***************************************************************************)
EXTENDS Integers, Sequences, FiniteSets

CONSTANTS
    BucketTicks,    \* one retained sample per bucket of source time (100 ms)
    TriggerHold,    \* 200 ms of braking start, or restart, an episode
    ClearHold,      \* 500 ms of release end the ACTIVE phase
    PreDuration,    \* samples older than 3000 ms leave the PRE ring
    PostDuration,   \* 2000 ms of POST complete the episode
    ActiveLimit,    \* 10000 ms ACTIVE truncate it
    EventLimit,     \* 15000 ms in all truncate it
    MaxPre, MaxActive, MaxPost, MaxTotal,   \* samples: 30, 100, 20, 150
    MaxGap,         \* longest pause between model inputs (5000 ms)
    Steps,          \* advances of <<source time, monotonic time>> of a frame
    Horizon         \* bound on the monotonic time, for model checking

ASSUME TimingAssumption ==
    /\ BucketTicks \in Nat \ {0}
    /\ {TriggerHold, ClearHold, PreDuration, PostDuration, MaxGap} \subseteq Nat
    /\ {ActiveLimit, EventLimit} \subseteq Nat \ {0}
    /\ {MaxPre, MaxActive, MaxPost, MaxTotal} \subseteq Nat \ {0}
    /\ MaxPre < MaxTotal /\ PreDuration < EventLimit
    /\ Steps \subseteq Int \X Int
    /\ Horizon \in Nat

Phases == {"PRE", "ACTIVE", "POST"}
Frames == [source : Int, mono : Int, pedal : {"trigger", "neither", "clear"}]
Samples == [phase : Phases, at : Int]      \* at: monotonic time of the frame

qualifying_trigger(f) == f.pedal = "trigger"
qualifying_clear(f) == f.pedal = "clear"

\* update_hold: when the condition began to hold without interruption ({} when
\* it does not hold), and whether it has held for a duration.
hold_start(condition, now, start) ==
    IF ~condition THEN {} ELSE IF start = {} THEN {now} ELSE start
held(start, now, duration) == \E t \in start : now - t >= duration

\* The newest samples, at most limit of them.
latest(ring, limit) ==
    IF Len(ring) > limit
    THEN SubSeq(ring, Len(ring) - limit + 1, Len(ring)) ELSE ring

\* prune: drop samples older than PreDuration from the front of the ring.
recent(ring, now) ==
    LET old(i) == now - ring[i].at > PreDuration
        front == CHOOSE n \in 1..(Len(ring) + 1) :
                    /\ \A i \in 1..(n - 1) : old(i)
                    /\ n <= Len(ring) => ~old(n)
    IN  SubSeq(ring, front, Len(ring))

phase_count(samples, phase) ==
    Cardinality({i \in DOMAIN samples : samples[i].phase = phase})

\* The frames that can follow the times of the previous one (none at first).
FramesAfter(last) ==
    LET moments == IF last = {} THEN {[source |-> 0, mono |-> 0]}
                   ELSE {[source |-> p[1].source + p[2][1],
                          mono |-> p[1].mono + p[2][2]] : p \in last \X Steps}
    IN  UNION {[source : {m.source}, mono : {m.mono},
                pedal : {"trigger", "neither", "clear"}] :
                  m \in {n \in moments : n.mono <= Horizon}}

=============================================================================
