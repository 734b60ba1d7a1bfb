------------------------ MODULE ReadinessPublication ------------------------
(***************************************************************************)
(* When the advisory writer publishes readiness: ReadinessPublication, one *)
(* per authenticated session.  Operators on its state.  An absolute time   *)
(* of the code is kept as the ticks that remain until it.                  *)
(***************************************************************************)
EXTENDS Integers

CONSTANTS
    MinGap,         \* after an accepted write (100 ms), in clock ticks
    RetryGap,       \* after a failed one (1000 ms)
    Heartbeat       \* between writes of the same value (5000 ms)

Publications ==
    [accepted       : SUBSET BOOLEAN,       \* optional: the value accepted last
     next_attempt   : 0..RetryGap,
     next_heartbeat : 0..Heartbeat]

NewPublication == [accepted |-> {}, next_attempt |-> 0, next_heartbeat |-> 0]

\* Mutant: a transition waits for the heartbeat's write.
due_heartbeat(r, ready) ==
    /\ r.next_attempt = 0
    /\ r.accepted = {} \/ (r.accepted = {ready} /\ r.next_heartbeat = 0)

due(r, ready) ==
    /\ r.next_attempt = 0
    /\ r.accepted # {ready} \/ r.next_heartbeat = 0

completed(r, ready, accepted) ==
    IF accepted
    THEN [accepted       |-> {ready},
          next_attempt   |-> MinGap,
          next_heartbeat |-> Heartbeat]
    ELSE [r EXCEPT !.next_attempt = RetryGap]

Less(t) == IF t > 0 THEN t - 1 ELSE 0

\* A tick of the clock.
Elapsed(r) ==
    [r EXCEPT !.next_attempt = Less(@), !.next_heartbeat = Less(@)]
=============================================================================
