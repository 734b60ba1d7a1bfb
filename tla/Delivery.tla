------------------------------ MODULE Delivery ------------------------------
(***************************************************************************)
(* The delivery worker: deliver()'s loop, which shares one thread between  *)
(* function observations, demo control and the three product queues, and   *)
(* Product::next_message's rotation over these queues.                     *)
(*                                                                         *)
(* A queue is the number of its deliverable messages; what the queues do   *)
(* with an answer is modelled in EventSpool (the V1 window), StateStore    *)
(* (the derived messages), AdvisoryRuntime (the facts) and                 *)
(* FunctionObservation.  A time of the code is kept as the ticks that      *)
(* remain until it.                                                        *)
(***************************************************************************)
EXTENDS Integers, FiniteSets

CONSTANTS
    Modulus,        \* of the unsigned cursor (2^32)
    MaxMessages,    \* bound on what a queue holds
    MaxArrivals,    \* bound on the messages that arrive
    MaxAttempt,     \* attempts after which the delay grows no more (5)
    MaxDelay,       \* the longest delay (30 s)
    ControlGap,     \* between two turns of demo control (5 s)
    Mishaps, MaxMishaps

Window == 0
Derived == 1
Advisory == 2
Queues == {Window, Derived, Advisory}

VARIABLES
    present,        \* the queues the profile has
    health,         \* of the queues: "up", "offline" (its posts get no
                    \* answer) or "broken" (reading it throws)
    queue,          \* deliverable messages
    pc,             \* "observe", "control", "deliver", "post", "pause", "stopped"
    observations,   \* the observation stream is open
    next_observation_delivery, observation_attempt,
    next_control,
    cursor,         \* delivery_cursor_
    pending,        \* the queue whose message is posted: {} or {k}
    attempt, next_delivery,
    pausing,        \* what is left of a pause
    overtaken,      \* posts of other queues since a queue had a message
    arrivals, mishaps

observer == <<observations, next_observation_delivery, observation_attempt>>
times == <<next_control, attempt, next_delivery, pausing>>
fixed == <<present, health>>
vars == <<fixed, queue, pc, observer, cursor, pending, times, overtaken,
          arrivals, mishaps>>

Happens(kind) ==
    /\ kind \in Mishaps
    /\ mishaps < MaxMishaps
    /\ mishaps' = mishaps + 1

\* The profile decides which queues there are; the observation stream may be
\* unavailable from the start.
Init ==
    /\ present \in {{Window}, {Window, Derived}, Queues}
    /\ health \in [Queues -> {"up", "offline", "broken"}]
    /\ \A k \in Queues \ present : health[k] = "up"
    /\ queue = [k \in Queues |-> 0]
    /\ pc = "observe"
    /\ observations \in BOOLEAN
    /\ next_observation_delivery = 0 /\ observation_attempt = 0
    /\ next_control = 0 /\ cursor = 0 /\ pending = {}
    /\ attempt = 0 /\ next_delivery = 0 /\ pausing = 0
    /\ overtaken = [k \in Queues |-> 0]
    /\ arrivals = 0 /\ mishaps = 0

Least(a, b) == IF a < b THEN a ELSE b

\* The delay doubles up to a limit; its jitter is left out.
retry_delay(n) == Least(2 ^ Least(n, MaxAttempt), MaxDelay)

NextAttempt(n) == Least(n + 1, MaxAttempt)

-----------------------------------------------------------------------------

\* The observation stream's turn: it may have nothing due, deliver, or fail
\* to; when its storage fails it is closed for good.
Observations ==
    /\ pc = "observe"
    /\ \/ UNCHANGED <<observer, mishaps>>
       \/ /\ observations /\ next_observation_delivery = 0
          /\ next_observation_delivery' = 1 /\ observation_attempt' = 0
          /\ UNCHANGED <<observations, mishaps>>
       \/ /\ observations /\ next_observation_delivery = 0
          /\ Happens("observation")
          /\ next_observation_delivery' = retry_delay(observation_attempt)
          /\ observation_attempt' = NextAttempt(observation_attempt)
          /\ UNCHANGED observations
       \/ /\ observations
          /\ Happens("observation")
          /\ observations' = FALSE
          /\ UNCHANGED <<next_observation_delivery, observation_attempt>>
    /\ pc' = "control"
    /\ UNCHANGED <<fixed, queue, cursor, pending, times, overtaken, arrivals>>

\* Demo control's turn; whatever it throws is caught.
Control ==
    /\ pc = "control"
    /\ next_control' = IF next_control = 0 THEN ControlGap ELSE next_control
    /\ pc' = "deliver"
    /\ UNCHANGED <<fixed, queue, observer, cursor, pending, attempt,
                   next_delivery, pausing, overtaken, arrivals, mishaps>>

Wait ==
    /\ pc = "deliver" /\ next_delivery > 0
    /\ pausing' = 1
    /\ pc' = "pause"
    /\ UNCHANGED <<fixed, queue, observer, cursor, pending, next_control,
                   attempt, next_delivery, overtaken, arrivals, mishaps>>

-----------------------------------------------------------------------------
(* Product::next_message.                                                  *)

\* Mutant: the rotation starts with the window every time.
Choice_fixed(i) == i

\* The queue looked at as the i-th, from 0.
Choice(i) == ((cursor + i) % Modulus) % 3

Broken(k) == k \in present /\ health[k] = "broken"

Offers(k) == k \in present /\ health[k] # "broken" /\ queue[k] > 0

\* The first i of the three looks that ends the call.
Ends(i) == Broken(Choice(i)) \/ Offers(Choice(i))

First(i) == Ends(i) /\ \A j \in 0..2 : j < i => ~Ends(j)

\* Mutant: the cursor moves on only when a message was found.
Moved_found(i) == IF Broken(Choice(i)) THEN cursor ELSE (cursor + i + 1) % Modulus

\* The cursor is past the queue before it is read.
Moved(i) == (cursor + i + 1) % Modulus

Take ==
    /\ pc = "deliver" /\ next_delivery = 0
    /\ \E i \in 0..2 :
          LET k == Choice(i)
          IN  /\ First(i) /\ Offers(k)
              /\ cursor' = Moved(i)
              /\ pending' = {k}
              /\ overtaken' = [j \in Queues |->
                                 IF j = k \/ queue[j] = 0 \/ health[j] = "broken"
                                 THEN 0 ELSE overtaken[j] + 1]
    /\ pc' = "post"
    /\ UNCHANGED <<fixed, queue, observer, times, arrivals, mishaps>>

\* Reading the queue throws: analytics is logged unavailable, and a pause.
TakeThrows ==
    /\ pc = "deliver" /\ next_delivery = 0
    /\ \E i \in 0..2 : First(i) /\ Broken(Choice(i)) /\ cursor' = Moved(i)
    /\ pausing' = 2
    /\ pc' = "pause"
    /\ UNCHANGED <<fixed, queue, observer, pending, next_control, attempt,
                   next_delivery, overtaken, arrivals, mishaps>>

TakeNothing ==
    /\ pc = "deliver" /\ next_delivery = 0
    /\ \A i \in 0..2 : ~Ends(i)
    /\ cursor' = (cursor + 3) % Modulus
    /\ attempt' = 0
    /\ pausing' = 1
    /\ pc' = "pause"
    /\ UNCHANGED <<fixed, queue, observer, pending, next_control,
                   next_delivery, overtaken, arrivals, mishaps>>

-----------------------------------------------------------------------------
(* The answer, and Product::accept.                                        *)

Posted(k) == pc = "post" /\ pending = {k}

\* Stored by the backend with a matching receipt.
Accepted(k) ==
    /\ Posted(k) /\ health[k] = "up"
    /\ queue' = [queue EXCEPT ![k] = @ - 1]
    /\ attempt' = 0
    /\ pending' = {} /\ pc' = "observe"
    /\ UNCHANGED <<fixed, observer, cursor, next_control, next_delivery,
                   pausing, overtaken, arrivals, mishaps>>

BackOff ==
    /\ next_delivery' = retry_delay(attempt)
    /\ attempt' = NextAttempt(attempt)

\* No answer, or one that asks to try again.
Failed(k) ==
    /\ Posted(k)
    /\ \/ health[k] = "offline" /\ UNCHANGED mishaps
       \/ health[k] = "up" /\ Happens("retry")
    /\ BackOff
    /\ pending' = {} /\ pc' = "observe"
    /\ UNCHANGED <<fixed, queue, observer, cursor, next_control, pausing,
                   overtaken, arrivals>>

\* A final refusal or a wrong receipt: the message is quarantined.
Refused(k) ==
    /\ Posted(k) /\ health[k] = "up" /\ Happens("refused")
    /\ queue' = [queue EXCEPT ![k] = @ - 1]
    /\ BackOff
    /\ pending' = {} /\ pc' = "observe"
    /\ UNCHANGED <<fixed, observer, cursor, next_control, pausing, overtaken,
                   arrivals>>

\* The answer cannot be stored.
AcceptThrows(k) ==
    /\ Posted(k) /\ Happens("storage")
    /\ pausing' = 2
    /\ pending' = {} /\ pc' = "pause"
    /\ UNCHANGED <<fixed, queue, observer, cursor, next_control, attempt,
                   next_delivery, overtaken, arrivals>>

EndPause ==
    /\ pc = "pause" /\ pausing = 0
    /\ pc' = "observe"
    /\ UNCHANGED <<fixed, queue, observer, cursor, pending, times, overtaken,
                   arrivals, mishaps>>

\* The loop is left at its top, or out of a pause that ends early.
Stop ==
    /\ pc \in {"observe", "pause"} /\ Happens("stop")
    /\ pc' = "stopped"
    /\ UNCHANGED <<fixed, queue, observer, cursor, pending, times, overtaken,
                   arrivals>>

-----------------------------------------------------------------------------

Arrive(k) ==
    /\ k \in present /\ queue[k] < MaxMessages /\ arrivals < MaxArrivals
    /\ queue' = [queue EXCEPT ![k] = @ + 1]
    /\ arrivals' = arrivals + 1
    /\ UNCHANGED <<fixed, pc, observer, cursor, pending, times, overtaken, mishaps>>

Less(t) == IF t > 0 THEN t - 1 ELSE 0

Tick ==
    /\ next_observation_delivery' = Less(next_observation_delivery)
    /\ next_control' = Less(next_control)
    /\ next_delivery' = Less(next_delivery)
    /\ pausing' = Less(pausing)
    /\ UNCHANGED <<fixed, queue, pc, observations, observation_attempt, cursor,
                   pending, attempt, overtaken, arrivals, mishaps>>

WorkerStep ==
    \/ Observations \/ Control \/ Wait
    \/ Take \/ TakeThrows \/ TakeNothing
    \/ \E k \in Queues : Accepted(k) \/ Failed(k) \/ Refused(k) \/ AcceptThrows(k)
    \/ EndPause

Next == WorkerStep \/ Stop \/ Tick \/ \E k \in Queues : Arrive(k)

Spec == Init /\ [][Next]_vars

\* The worker is scheduled, a post ends by its deadline, and time passes.
FairSpec == Spec /\ WF_vars(WorkerStep) /\ WF_vars(Tick)

-----------------------------------------------------------------------------

\* A queue that has a message waits for at most three posts of others before
\* its own: once for each other queue, and once more when the cursor wraps
\* around (its modulus is no multiple of three).
Rotation == \A k \in Queues : overtaken[k] <= 3

\* "Fair selection prevents an offline legacy window from gating v2/v3 work":
\* a queue that can be read and whose posts are answered is emptied, whatever
\* happens to the others, to the observations and to demo control.
NotGated ==
    \A k \in Queues :
        (health[k] = "up" /\ queue[k] > 0) ~> (queue[k] = 0 \/ pc = "stopped")
=============================================================================
