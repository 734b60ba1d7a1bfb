------------------------------ MODULE MCLoops -------------------------------
(* The three loops that share no state: the advisory worker, the delivery  *)
(* worker and the bootstrap process.  They meet through the token file and *)
(* the queues only, and each module lets these change at any time; so a    *)
(* behaviour runs one of the loops and leaves the others where they start. *)
EXTENDS AdvisorySession

CONSTANTS
    \* Delivery
    Modulus, MaxMessages, MaxArrivals, MaxAttempt, MaxDelay, ControlGap,
    DeliveryMishaps, MaxDeliveryMishaps,
    \* TokenLease
    MaxTime, MaxLifetime, RenewMargin, MaxSessions, MaxIssueDelay,
    LeaseMishaps, MaxLeaseMishaps

VARIABLES
    moving,         \* the loop this behaviour runs
    present, health, queue, at_delivery, observations,
    next_observation_delivery, observation_attempt, next_control, cursor,
    pending, attempt, next_delivery, pausing, overtaken, arrivals, refusals,
    boot, wall, owed, process, at_lease, at, file, lease, has_token, terminal,
    next_attempt, failures, issue, orphans, troubles

deliveryVars ==
    <<present, health, queue, at_delivery, observations,
      next_observation_delivery, observation_attempt, next_control, cursor,
      pending, attempt, next_delivery, pausing, overtaken, arrivals, refusals>>
leaseVars ==
    <<boot, wall, owed, process, at_lease, at, file, lease, has_token, terminal,
      next_attempt, failures, issue, orphans, troubles>>
allVars == <<moving, vars, deliveryVars, leaseVars>>

D == INSTANCE Delivery WITH
        pc <- at_delivery, mishaps <- refusals,
        Mishaps <- DeliveryMishaps, MaxMishaps <- MaxDeliveryMishaps
L == INSTANCE TokenLease WITH
        pc <- at_lease, mishaps <- troubles, MaxDelay <- MaxIssueDelay,
        Mishaps <- LeaseMishaps, MaxMishaps <- MaxLeaseMishaps

\* The loops that do not move have one initial state.
AllInit ==
    /\ moving \in {"advisory", "delivery", "bootstrap"}
    /\ Init /\ D!Init /\ L!Init
    /\ moving # "advisory" => ~live
    /\ moving # "delivery" =>
          observations /\ present = D!Queues
                       /\ health = [k \in D!Queues |-> "up"]

AdvisoryMoves ==
    /\ moving = "advisory" /\ Next
    /\ UNCHANGED <<moving, deliveryVars, leaseVars>>
DeliveryMoves ==
    /\ moving = "delivery" /\ D!Next
    /\ UNCHANGED <<moving, vars, leaseVars>>
BootstrapMoves ==
    /\ moving = "bootstrap" /\ L!Next
    /\ UNCHANGED <<moving, vars, deliveryVars>>

AllNext == AdvisoryMoves \/ DeliveryMoves \/ BootstrapMoves

\* The fairness of the three modules, for the loop that moves.
AllSpec ==
    /\ AllInit /\ [][AllNext]_allVars
    /\ WF_vars(moving = "advisory" /\ WriterStep)
    /\ WF_vars(moving = "advisory" /\ Finish)
    /\ WF_vars(moving = "advisory" /\ StreamEnds /\ stream)
    /\ WF_vars(moving = "advisory" /\ WatchInspect)
    /\ WF_vars(moving = "advisory" /\ WatchCancel)
    /\ WF_vars(moving = "advisory" /\ Tick)
    /\ WF_deliveryVars(moving = "delivery" /\ D!WorkerStep)
    /\ WF_deliveryVars(moving = "delivery" /\ D!Tick)
    /\ WF_leaseVars(moving = "bootstrap" /\ L!Boot)
    /\ WF_leaseVars(moving = "bootstrap" /\ L!LoopStep)
    /\ WF_leaseVars(moving = "bootstrap" /\ (L!Sign \/ L!Receive))
    /\ WF_leaseVars(moving = "bootstrap" /\ L!Tick)

\* Delivery: a queue with a message waits for at most three posts of the
\* other queues.
Rotation == D!Rotation

\* Delivery: a queue that can be read and whose posts are answered is
\* emptied, whatever happens to the others.
NotGated == D!NotGated

\* TokenLease: no stepped clock and no renewal in progress keeps the token of
\* a running bootstrap beyond the boot time of its lease.
WithinLease == L!WithinLease

\* TokenLease: a running bootstrap that lost its token gets another one.
Reissued == L!Reissued
=============================================================================
