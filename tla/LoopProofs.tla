---------------------------- MODULE LoopProofs ------------------------------
(***************************************************************************)
(* The three background loops, for any limits and any number of mishaps:   *)
(*                                                                         *)
(* - the advisory worker's session does not take a failure for a renewal,  *)
(*   and its readiness writes keep their distance;                         *)
(* - the bootstrap process leaves no token file beyond its lease;          *)
(* - the delivery worker lets no queue be overtaken more than three times. *)
(***************************************************************************)
EXTENDS MCLoops, TLAPS

-----------------------------------------------------------------------------
(* The advisory session: writer, reader and watcher.                       *)

\* A failure is on record as the cause, or the reader is about to record it.
OnRecord == cause = Unavailable \/ (reader = "finish" /\ status = "UNAVAILABLE")

\* No session is classified with a failure that is not on record.
AdvisoryInv ==
    /\ cause \in {None, TokenReplaced, Unavailable}
    /\ failed /\ pc \notin {"failed", "between"} => OnRecord
    /\ pc = "reauthenticate" => ~failed /\ reader \in {"none", "done"}
    /\ pc \in {"get", "between"} => reader = "none"

\* SessionInterruption::observe() keeps the worst cause.
LEMMA WorstKept ==
    ASSUME cause \in {None, TokenReplaced, Unavailable},
           NEW c \in {None, TokenReplaced, Unavailable}, observe(c)
    PROVE  /\ cause' \in {None, TokenReplaced, Unavailable}
           /\ cause = Unavailable => cause' = Unavailable
BY DEF observe, None, TokenReplaced, Unavailable

\* The inputs are one of three.
LEMMA InspectRange ==
    ASSUME inputs \in {"same", "replaced", "lost"}
    PROVE  inspect_session_inputs \in {None, TokenReplaced, Unavailable}
BY Zenon DEF inspect_session_inputs

\* The inputs stay one of the three.
LEMMA InputsStep ==
    ASSUME inputs \in {"same", "replaced", "lost"}, [Next]_vars
    PROVE  inputs' \in {"same", "replaced", "lost"}
BY Zenon DEF Next, WriterStep, Open, OpenFails, GetAnswered, GetCancelled, GetFails,
   Iterate, RequestReturns, WriterThrows, Readiness, SetAccepted, SetFails,
   EndPause, LeaveLoop, Classify, Turn, Status, StreamEnds, Finish,
   WatchInspect, WatchCancel, Outside, Tick, vars, outside

\* Every step of the two threads and the watcher keeps the invariant.
LEMMA AdvisoryStep ==
    ASSUME AdvisoryInv, inputs \in {"same", "replaced", "lost"}, [Next]_vars
    PROVE  AdvisoryInv'
<1>0. /\ None # TokenReplaced /\ TokenReplaced # Unavailable
      /\ None # Unavailable
  BY DEF None, TokenReplaced, Unavailable
<1>1. observe(inspect_session_inputs) =>
         /\ cause' \in {None, TokenReplaced, Unavailable}
         /\ cause = Unavailable => cause' = Unavailable
  BY InspectRange, WorstKept, Zenon DEF AdvisoryInv
<1>2. observe(Unavailable) =>
         /\ cause' \in {None, TokenReplaced, Unavailable}
         /\ cause = Unavailable => cause' = Unavailable
  BY WorstKept, Zenon DEF AdvisoryInv
<1>3. CASE Open
  BY <1>0, <1>3, Zenon DEF AdvisoryInv, OnRecord, Open, NewSession
<1>4. CASE GetAnswered \/ GetFails
  BY <1>0, <1>1, <1>4 DEF AdvisoryInv, OnRecord, GetAnswered, GetFails
<1>5. CASE GetCancelled \/ Classify
  BY <1>0, <1>1, <1>5 DEF AdvisoryInv, OnRecord, GetCancelled, Classify, Joined
<1>6. CASE RequestReturns
  BY <1>0, <1>6 DEF AdvisoryInv, OnRecord, RequestReturns
<1>7. CASE Iterate \/ WriterThrows \/ Readiness
  BY <1>0, <1>7 DEF AdvisoryInv, OnRecord, Iterate, WriterThrows, Readiness,
     flags
<1>8. CASE SetAccepted \/ SetFails \/ EndPause \/ LeaveLoop
  <2>1. CASE SetAccepted
    BY <1>0, <2>1, Zenon DEF AdvisoryInv, OnRecord, SetAccepted, flags
  <2>2. CASE SetFails
    BY <1>0, <2>2, Zenon DEF AdvisoryInv, OnRecord, SetFails, flags
  <2>3. CASE EndPause
    BY <1>0, <2>3, Zenon DEF AdvisoryInv, OnRecord, EndPause, flags
  <2>4. CASE LeaveLoop
    BY <1>0, <2>4, Zenon DEF AdvisoryInv, OnRecord, LeaveLoop, flags
  <2>. QED  BY <1>8, <2>1, <2>2, <2>3, <2>4, Zenon
<1>9. CASE Turn
  BY <1>0, <1>9, Zenon DEF AdvisoryInv, OnRecord, Turn, flags
<1>10. CASE Status
  BY <1>0, <1>10, Zenon DEF AdvisoryInv, OnRecord, Status, flags
<1>11. CASE StreamEnds \/ Finish
  BY <1>0, <1>11 DEF AdvisoryInv, OnRecord, StreamEnds, Finish
<1>12. CASE WatchInspect
  BY <1>0, <1>1, <1>2, <1>12, Zenon DEF AdvisoryInv, OnRecord, WatchInspect
<1>13. ASSUME UNCHANGED <<cause, failed, pc, reader, status>> PROVE AdvisoryInv'
  BY <1>13, Zenon DEF AdvisoryInv, OnRecord
<1>14. CASE \/ OpenFails \/ WatchCancel \/ Outside \/ Tick \/ UNCHANGED vars
  BY <1>13, <1>14, Zenon DEF OpenFails, WatchCancel, Outside, Tick, vars, flags
<1>. QED
  BY <1>3, <1>4, <1>5, <1>6, <1>7, <1>8, <1>9, <1>10, <1>11, <1>12, <1>14, Zenon
     DEF Next, WriterStep

\* A session of the advisory worker that met a real failure, in any of its
\* threads, is never taken for a planned renewal.
THEOREM FailuresClassified == Spec => []FailureIsNoRenewal
<1>. DEFINE Inv == AdvisoryInv /\ inputs \in {"same", "replaced", "lost"}
<1>1. Init => Inv
  BY Zenon DEF Init, AdvisoryInv
<1>2. Inv /\ [Next]_vars => Inv'
  BY AdvisoryStep, InputsStep, Zenon
<1>3. Inv => FailureIsNoRenewal
  BY Zenon DEF AdvisoryInv, FailureIsNoRenewal
<1>. HIDE DEF Inv
<1>. QED  BY <1>1, <1>2, <1>3, PTL DEF Spec

\* Ticks since the last accepted write, wherever the writer is.
SpacingInv ==
    /\ until \in Nat /\ written \in Nat /\ written <= MinGap
    /\ pc \in {"get", "request", "readiness", "set"} => written >= MinGap
    /\ pc = "pause" => written + until >= MinGap
    /\ pc \in {"loop", "join", "failed", "between", "reauthenticate"} =>
          written >= MinGap \/ stopping

\* Every step keeps the distance to the last accepted write.
LEMMA SpacingStep ==
    ASSUME MinGap \in Nat, Pause \in Nat, RequestGap \in Nat, MinGap <= Pause,
           SpacingInv, [Next]_vars
    PROVE  SpacingInv'
<1>. USE DEF SpacingInv
<1>1. CASE Open \/ OpenFails
  BY <1>1, Zenon DEF Open, OpenFails, NewSession, outside
<1>2. CASE GetAnswered \/ GetCancelled \/ GetFails
  BY <1>2, Zenon DEF GetAnswered, GetCancelled, GetFails, writer
<1>3. CASE Iterate \/ RequestReturns \/ WriterThrows
  BY <1>3, Zenon DEF Iterate, RequestReturns, WriterThrows, writer
<1>4. CASE Readiness \/ SetAccepted \/ SetFails
  <2>1. CASE Readiness
    BY <2>1 DEF Readiness, outside
  <2>2. CASE SetAccepted
    BY <2>2 DEF SetAccepted, outside
  <2>3. CASE SetFails
    BY <2>3 DEF SetFails, outside
  <2>. QED  BY <1>4, <2>1, <2>2, <2>3, Zenon
<1>5. CASE EndPause
  BY <1>5 DEF EndPause, PauseOver, writer, outside
<1>6. CASE LeaveLoop \/ Classify \/ Turn
  BY <1>6 DEF LeaveLoop, Classify, Turn, writer, outside
<1>7. CASE Outside
  BY <1>7, Zenon DEF Outside, writer
<1>8. CASE Tick
  BY <1>8 DEF Tick, Less, outside
<1>9. CASE Status \/ StreamEnds \/ Finish \/ WatchInspect \/ WatchCancel
           \/ UNCHANGED vars
  BY <1>9, Zenon DEF Status, StreamEnds, Finish, WatchInspect, WatchCancel, vars,
     writer, outside
<1>. QED
  BY <1>1, <1>2, <1>3, <1>4, <1>5, <1>6, <1>7, <1>8, <1>9, Zenon DEF Next, WriterStep

\* Accepted readiness writes are at least MinGap apart, also when a renewal
\* starts the next session at once: the writer's pause is as long as the gap
\* (both 100 ms), and it is not cut short by the end of the session.
THEOREM WritesSpaced ==
    ASSUME MinGap \in Nat, Pause \in Nat, RequestGap \in Nat, MinGap <= Pause
    PROVE  Spec => SpacedWrites
<1>1. Init => SpacingInv
  BY DEF Init, SpacingInv
<1>2. SpacingInv /\ [Next]_vars => SpacingInv'
  BY SpacingStep, Zenon
<1>3. SpacingInv => [SetAccepted => written >= MinGap]_vars
  BY Zenon DEF SpacingInv, SetAccepted
<1>. QED  BY <1>1, <1>2, <1>3, PTL DEF Spec, SpacedWrites

-----------------------------------------------------------------------------
(* The bootstrap process.                                                  *)

Instants == [boot : Nat, wall : Nat]
Leases == [expires_wall : Int, expires_boot : Int, renew_boot : Int]

\* Clocks, the lease, and the expiry that a call in progress carries.
LeaseTyped ==
    /\ boot \in Nat /\ wall \in Nat /\ at \in Instants /\ lease \in Leases
    /\ owed \in BOOLEAN /\ has_token \in BOOLEAN
    /\ issue[1] = "signed" => issue[2] \in Nat
    /\ issue[1] = "ready" /\ issue[2] = "issued" => issue[3] \in Nat

\* An iteration is at most one tick behind; before the clock moves again, a
\* token with an expired lease has been removed.
LeaseInv ==
    /\ has_token <=> file # {}
    /\ process = "running" \/ (file = {} /\ at_lease = "top")
    /\ at_lease # "top" => at.boot = boot \/ (boot = at.boot + 1 /\ owed)
    /\ file # {} => boot <= lease.expires_boot
    /\ file # {} /\ ~owed => boot < lease.expires_boot
    /\ file # {} /\ at_lease \in {"collect", "start"} => at.boot < lease.expires_boot

\* No lease is a lease, and time starts at an instant.
LEMMA ZeroLease == L!NoLease \in Leases /\ [boot |-> 0, wall |-> 0] \in Instants
BY DEF L!NoLease, Leases, Instants

\* Nothing is installed before the first boot.
LEMMA LeaseInit ==
    ASSUME L!Init
    PROVE  LeaseTyped /\ LeaseInv
<1>1. boot \in Nat /\ wall \in Nat /\ issue[1] = "none"
  BY Zenon DEF L!Init, L!Idle
<1>2. at \in Instants /\ lease \in Leases
  BY ZeroLease, Zenon DEF L!Init
<1>3. owed = FALSE /\ has_token = FALSE /\ at_lease = "top" /\ file = {}
  BY Zenon DEF L!Init
<1>. QED  BY <1>1, <1>2, <1>3, Zenon DEF LeaseTyped, LeaseInv

\* The end of a process, and the locals of a new one.
LEMMA FreshLease ==
    ASSUME boot \in Nat, wall \in Nat, boot' = boot, wall' = wall, owed' = FALSE, L!Fresh
    PROVE  LeaseTyped' /\ LeaseInv'
<1>1. boot' \in Nat /\ wall' \in Nat /\ issue'[1] = "none"
  BY Zenon DEF L!Fresh, L!Idle
<1>2. at' \in Instants /\ lease' \in Leases
  BY ZeroLease, Zenon DEF L!Fresh
<1>3. owed' = FALSE /\ has_token' = FALSE /\ at_lease' = "top" /\ file' = {}
  BY Zenon DEF L!Fresh
<1>. QED  BY <1>1, <1>2, <1>3, Zenon DEF LeaseTyped, LeaseInv

\* A credential is delivered only when it is not due for renewal yet.
LEMMA DeliveredLease ==
    ASSUME RenewMargin \in Nat, at \in Instants, NEW expires \in Nat, ~L!Overdue(expires)
    PROVE  /\ L!issued(expires) \in Leases
           /\ at.boot < L!issued(expires).expires_boot
BY DEF L!Overdue, L!issued, Instants, Leases

\* Every step keeps the types of clocks and lease.
LEMMA LeaseTypedStep ==
    ASSUME RenewMargin \in Nat, MaxTime \in Nat, MaxLifetime \in Nat,
           LeaseTyped, LeaseInv, [L!Next]_(L!vars)
    PROVE  LeaseTyped'
<1>1. CASE L!Boot \/ L!Interrupt \/ L!Kill
  BY <1>1, FreshLease, Zenon DEF LeaseTyped, L!Boot, L!Interrupt, L!Kill, L!End
<1>2. CASE L!ReadClocks \/ L!Expire
  <2>0. at \in Instants /\ has_token \in BOOLEAN /\ [boot |-> boot, wall |-> wall] \in Instants
    BY Zenon DEF LeaseTyped, Instants
  <2>1. at' \in Instants /\ has_token' \in BOOLEAN
    BY <1>2, <2>0, Zenon DEF L!ReadClocks, L!Expire
  <2>2. UNCHANGED <<boot, wall, lease, owed, issue>>
    BY <1>2, Zenon DEF L!ReadClocks, L!Expire
  <2>. QED  BY <2>1, <2>2, Zenon DEF LeaseTyped
<1>3. CASE L!Collect /\ ~L!End
  <2>0. at \in Instants /\ lease \in Leases
    BY Zenon DEF LeaseTyped
  <2>1. lease' \in Leases
    BY <1>3, <2>0, DeliveredLease, Zenon DEF LeaseTyped, L!Collect
  <2>2. at' = at /\ has_token' \in BOOLEAN /\ owed' = owed
    BY <1>3, Zenon DEF LeaseTyped, L!Collect
  <2>3. issue' = issue \/ issue' = <<"none">>
    BY <1>3, Zenon DEF L!Collect, L!Idle
  <2>4. boot' = boot /\ wall' = wall
    BY <1>3, Zenon DEF L!Collect
  <2>. QED  BY <2>1, <2>2, <2>3, <2>4 DEF LeaseTyped
<1>4. CASE L!Collect /\ L!End
  BY <1>4, FreshLease, Zenon DEF LeaseTyped, L!Collect, L!End
<1>5. CASE L!Start
  BY <1>5, Zenon DEF LeaseTyped, Instants, L!Start
<1>6. CASE L!Sign \/ L!Receive \/ L!Refuse
  BY <1>6 DEF LeaseTyped, L!Sign, L!Receive, L!Refuse, L!parse_credential
<1>7. CASE L!Tick \/ L!StepWall
  <2>0. boot \in Nat /\ wall \in Nat /\ owed \in BOOLEAN
    BY Zenon DEF LeaseTyped
  <2>1. /\ boot' \in {boot, boot + 1}
        /\ wall' \in {wall, wall + 1} \union (1..MaxTime)
        /\ owed' \in BOOLEAN
    BY <1>7, <2>0, Zenon DEF L!Tick, L!StepWall
  <2>3. boot' \in Nat /\ wall' \in Nat
    BY ONLY MaxTime \in Nat, <2>0, <2>1, SMT
  <2>2. UNCHANGED <<at, lease, has_token, issue>>
    BY <1>7, Zenon DEF L!Tick, L!StepWall, L!loop
  <2>. QED  BY <2>1, <2>2, <2>3, Zenon DEF LeaseTyped
<1>8. CASE UNCHANGED L!vars
  BY <1>8, Zenon DEF LeaseTyped, L!vars, L!loop
<1>. QED
  BY <1>1, <1>2, <1>3, <1>4, <1>5, <1>6, <1>7, <1>8, Zenon DEF L!Next, L!LoopStep

\* Every step keeps the file within its lease.
LEMMA LeaseInvStep ==
    ASSUME RenewMargin \in Nat, LeaseTyped, LeaseInv, [L!Next]_(L!vars)
    PROVE  LeaseInv'
<1>0. /\ boot \in Nat /\ wall \in Nat /\ at.boot \in Nat /\ lease.expires_boot \in Int
      /\ owed \in BOOLEAN /\ has_token \in BOOLEAN
  BY Zenon DEF LeaseTyped, Instants, Leases
<1>1. CASE L!Boot \/ L!Interrupt \/ L!Kill
  BY <1>0, <1>1, FreshLease, Zenon DEF L!Boot, L!Interrupt, L!Kill, L!End
<1>2. CASE L!ReadClocks
  BY <1>0, <1>2, Zenon DEF LeaseInv, L!ReadClocks
<1>3. CASE L!Expire
  <2>. DEFINE over == has_token /\ L!expired(at.wall, at.boot)
  <2>1. /\ file' = IF over THEN {} ELSE file
        /\ has_token' = (has_token /\ ~over)
        /\ at_lease' = "collect" /\ at_lease # "top" /\ process = "running"
        /\ UNCHANGED <<boot, owed, process, at, lease>>
    BY <1>3, Zenon DEF L!Expire
  <2>2. ~over => ~has_token \/ ~(at.boot >= lease.expires_boot)
    BY Zenon DEF L!expired
  <2>. HIDE DEF over
  <2>3. has_token' <=> file' # {}
    BY <2>1, Zenon DEF LeaseInv
  <2>4. file' # {} => ~over /\ file' = file /\ has_token
    BY <2>1, Zenon DEF LeaseInv
  <2>5. file' # {} => at.boot < lease.expires_boot
    <3>1. file' # {} => ~(at.boot >= lease.expires_boot)
      BY <2>2, <2>4, Zenon
    <3>2. at.boot \in Nat /\ lease.expires_boot \in Int
      BY ONLY <1>0, SMT
    <3>. QED  BY ONLY <3>1, <3>2, SMT
  <2>. QED  BY <1>0, <2>1, <2>3, <2>4, <2>5, Zenon DEF LeaseInv
<1>4. CASE L!Collect
  <2>1. CASE L!End
    BY <1>0, <1>4, <2>1, FreshLease, Zenon DEF L!Collect, L!End
  <2>2. CASE UNCHANGED <<owed, process, at, file, lease, has_token>> /\ at_lease' = "start"
    BY <1>0, <1>4, <2>2, Zenon DEF LeaseInv, L!Collect
  <2>3. CASE file' = {} /\ has_token' = FALSE /\ UNCHANGED <<owed, process, at>>
    BY <1>0, <1>4, <2>3, Zenon DEF LeaseInv, L!Collect
  <2>4. CASE /\ issue[1] = "ready" /\ issue[2] = "issued" /\ ~L!Overdue(issue[3])
             /\ file' = {issue[3]} /\ has_token' = TRUE /\ lease' = L!issued(issue[3])
             /\ UNCHANGED <<owed, process, at>>
    <3>1. at.boot < lease'.expires_boot /\ lease'.expires_boot \in Int
      BY <2>4, DeliveredLease, Zenon DEF LeaseTyped, Leases
    <3>2. process = "running" /\ at_lease = "collect" /\ boot' = boot
      BY <1>4, Zenon DEF L!Collect
    <3>. QED  BY <1>0, <2>4, <3>1, <3>2 DEF LeaseInv
  <2>. QED  BY <1>4, <2>1, <2>2, <2>3, <2>4, Zenon DEF L!Collect
<1>5. CASE L!Start
  BY <1>0, <1>5, Zenon DEF LeaseInv, L!Start
<1>6. CASE L!Sign \/ L!Receive \/ L!Refuse
  BY <1>0, <1>6 DEF LeaseInv, L!Sign, L!Receive, L!Refuse
<1>7. CASE L!Tick
  <2>1. /\ boot' = boot + 1 /\ ~owed /\ owed' = (process = "running")
        /\ UNCHANGED <<process, at_lease, at, file, lease, has_token>>
    BY <1>7, Zenon DEF L!Tick, L!loop
  <2>2. process # "running" => file = {}
    BY Zenon DEF LeaseInv
  <2>3. at_lease # "top" => at.boot = boot
    BY <2>1, Zenon DEF LeaseInv
  <2>4. file # {} => boot < lease.expires_boot /\ process = "running" /\ owed'
    BY <2>1, <2>2, Zenon DEF LeaseInv
  <2>5. at_lease # "top" => owed'
    BY <2>1, Zenon DEF LeaseInv
  <2>6. file # {} => boot + 1 <= lease.expires_boot
    BY ONLY <1>0, <2>4, SMT
  <2>. QED  BY <2>1, <2>3, <2>4, <2>5, <2>6, Zenon DEF LeaseInv
<1>8. CASE L!StepWall \/ UNCHANGED L!vars
  BY <1>0, <1>8 DEF LeaseInv, L!StepWall, L!vars, L!loop
<1>. QED
  BY <1>1, <1>2, <1>3, <1>4, <1>5, <1>6, <1>7, <1>8, Zenon DEF L!Next, L!LoopStep

\* Whatever is done to the wall clock, and whatever the call in progress
\* answers, a running bootstrap has removed its token within one iteration of
\* the boot time that its lifetime allowed when it was delivered (Lease, and
\* bootstrap's loop).  A killed one leaves its token where it is.
THEOREM LeaseBounds ==
    ASSUME RenewMargin \in Nat, MaxTime \in Nat, MaxLifetime \in Nat
    PROVE  L!Spec => []WithinLease
<1>. DEFINE Inv == LeaseTyped /\ LeaseInv
<1>1. L!Init => Inv
  BY LeaseInit, Zenon
<1>2. Inv /\ [L!Next]_(L!vars) => Inv'
  BY LeaseTypedStep, LeaseInvStep, Zenon
<1>3. Inv => WithinLease
  BY Zenon DEF LeaseInv, WithinLease, L!WithinLease
<1>. HIDE DEF Inv
<1>. QED  BY <1>1, <1>2, <1>3, PTL DEF L!Spec

-----------------------------------------------------------------------------
(* The delivery worker.                                                    *)

\* The unsigned cursor wraps around at a power of two above two, which is no
\* multiple of three: 2^32 leaves 1.
Wraps == Modulus \in Nat /\ Modulus > 3 /\ Modulus % 3 = 1

\* Addition to the cursor wraps at most once.
LEMMA WrapOnce ==
    ASSUME Wraps, NEW a \in Nat, a < 2 * Modulus
    PROVE  a % Modulus = IF a < Modulus THEN a ELSE a - Modulus
BY DEF Wraps

\* No addition leaves the cursor where it is.
LEMMA NoWrap ==
    ASSUME Wraps, NEW c \in 0..(Modulus - 1)
    PROVE  (c + 0) % Modulus = c
<1>1. c \in Nat /\ c < Modulus /\ c < 2 * Modulus /\ c + 0 = c
  BY DEF Wraps
<1>2. c % Modulus = c
  BY <1>1, WrapOnce, Zenon
<1>. QED  BY <1>1, <1>2, Zenon

\* Looks from a moved cursor are later looks from the old one.
LEMMA LooksShift ==
    ASSUME Wraps, NEW c \in 0..(Modulus - 1), NEW i \in 0..3, NEW r \in 0..3, i <= r
    PROVE  /\ (c + i) % Modulus \in 0..(Modulus - 1)
           /\ (((c + i) % Modulus) + (r - i)) % Modulus = (c + r) % Modulus
<1>1. (c + i) % Modulus = IF c + i < Modulus THEN c + i ELSE c + i - Modulus
  BY WrapOnce DEF Wraps
<1>2. (c + r) % Modulus = IF c + r < Modulus THEN c + r ELSE c + r - Modulus
  BY WrapOnce DEF Wraps
<1>. DEFINE d == (c + i) % Modulus
<1>3. d \in 0..(Modulus - 1)
  BY <1>1 DEF Wraps
<1>. HIDE DEF d
<1>. DEFINE e == d + (r - i)
<1>4. e \in Nat /\ e < 2 * Modulus
  BY <1>3 DEF Wraps
<1>. HIDE DEF e
<1>5. e % Modulus = IF e < Modulus THEN e ELSE e - Modulus
  BY <1>4, WrapOnce, Zenon
<1>6. e % Modulus = (c + r) % Modulus
  BY <1>1, <1>2, <1>4, <1>5 DEF Wraps, d, e
<1>. QED  BY <1>3, <1>6, Zenon DEF d, e

\* Four consecutive looks see every queue, also where the cursor wraps.
LEMMA LooksCover ==
    ASSUME Wraps, NEW c \in 0..(Modulus - 1), NEW k \in 0..2
    PROVE  \E r \in 0..3 : ((c + r) % Modulus) % 3 = k
<1>1. \A r \in 0..3 : (c + r) % Modulus = IF c + r < Modulus THEN c + r ELSE c + r - Modulus
  BY WrapOnce DEF Wraps
<1>. QED  BY <1>1 DEF Wraps

QueueHealth == {"up", "offline", "broken"}

\* A queue that was overtaken still offers its message, and is at most so many
\* looks away that the posts it has seen and may still see are three.
Near(k) ==
    /\ D!Offers(k)
    /\ \E r \in 0..3 : overtaken[k] + r <= 3 /\ D!Choice(r) = k

DeliveryInv ==
    /\ cursor \in 0..(Modulus - 1)
    /\ present \subseteq D!Queues
    /\ queue \in [D!Queues -> Nat] /\ overtaken \in [D!Queues -> Nat]
    /\ \A k \in D!Queues : queue[k] # 0 => k \in present
    /\ \A k \in D!Queues : overtaken[k] # 0 => Near(k)
    /\ at_delivery = "post" =>
          \E k \in D!Queues : pending = {k} /\ overtaken[k] = 0 /\ queue[k] # 0

\* When next_message ends with its i-th look at another queue, a queue that
\* offers a message and is r looks away comes nearer by i + 1.
LEMMA Nearer ==
    ASSUME Wraps, cursor \in 0..(Modulus - 1), NEW k \in D!Queues, D!Offers(k),
           NEW i \in 0..2, D!First(i), D!Choice(i) # k, NEW r \in 0..3, D!Choice(r) = k,
           cursor' = D!Moved(i)
    PROVE  /\ i + 1 <= r
           /\ D!Choice(r - (i + 1))' = k
<1>1. i < r
  <2>1. D!Ends(r)
    BY Zenon DEF D!Ends
  <2>2. r \in 0..2 => ~(r < i)
    BY <2>1, Zenon DEF D!First
  <2>3. r # i
    BY Zenon
  <2>. QED  BY <2>2, <2>3
<1>2. (cursor' + (r - (i + 1))) % Modulus = (cursor + r) % Modulus
  <2>1. i + 1 \in 0..3 /\ i + 1 <= r
    BY <1>1
  <2>2. cursor' = (cursor + (i + 1)) % Modulus
    BY DEF D!Moved, Wraps
  <2>. QED  BY ONLY Wraps, cursor \in 0..(Modulus - 1), <2>1, <2>2, LooksShift, Zenon
<1>. QED  BY <1>1, <1>2 DEF D!Choice

\* The moved cursor is a cursor.
LEMMA MovedRange ==
    ASSUME Wraps, cursor \in 0..(Modulus - 1), NEW j \in 0..3
    PROVE  (cursor + j) % Modulus \in 0..(Modulus - 1)
BY LooksShift

\* Without a post the distance is all that changes.
LEMMA StillNear ==
    ASSUME Wraps, cursor \in 0..(Modulus - 1), overtaken \in [D!Queues -> Nat],
           NEW k \in D!Queues, Near(k), NEW i \in 0..2, D!First(i), D!Choice(i) # k,
           cursor' = D!Moved(i), UNCHANGED <<present, health, queue>>,
           overtaken'[k] \in {overtaken[k], overtaken[k] + 1}
    PROVE  Near(k)'
<1>1. PICK r \in 0..3 : overtaken[k] + r <= 3 /\ D!Choice(r) = k
  BY Zenon DEF Near
<1>2. D!Offers(k)
  BY Zenon DEF Near
<1>3. i + 1 <= r /\ D!Choice(r - (i + 1))' = k
  BY <1>1, <1>2, Nearer, Zenon
<1>4. D!Offers(k)'
  BY <1>2, Zenon DEF D!Offers
<1>5. r - (i + 1) \in 0..3 /\ overtaken'[k] + (r - (i + 1)) <= 3
  BY <1>1, <1>3
<1>. QED  BY <1>3, <1>4, <1>5, Zenon DEF Near

\* A queue that offers a message and was not overtaken is within reach.
LEMMA SoonNear ==
    ASSUME Wraps, cursor \in 0..(Modulus - 1), overtaken \in [D!Queues -> Nat],
           NEW k \in D!Queues, D!Offers(k), overtaken[k] # 0 => Near(k)
    PROVE  Near(k)
<1>1. CASE overtaken[k] # 0
  BY <1>1, Zenon
<1>2. CASE overtaken[k] = 0
  <2>1. k \in 0..2
    BY DEF D!Queues, D!Window, D!Derived, D!Advisory
  <2>2. PICK r \in 0..3 : D!Choice(r) = k
    BY <2>1, LooksCover, Zenon DEF D!Choice
  <2>3. overtaken[k] + r <= 3
    BY <1>2
  <2>. QED  BY <2>2, <2>3, Zenon DEF Near
<1>. QED  BY <1>1, <1>2, Zenon

\* Nothing that Near depends on changes: what is near stays near.
LEMMA NearKept ==
    ASSUME NEW k \in D!Queues, Near(k), queue'[k] > 0,
           UNCHANGED <<cursor, present, health, overtaken>>
    PROVE  Near(k)'
BY Zenon DEF Near, D!Offers, D!Choice

\* next_message: the message's queue is overtaken no more, the others that offer
\* one once more.
LEMMA TakeNear ==
    ASSUME Wraps, DeliveryInv, D!Take
    PROVE  DeliveryInv'
<1>. USE DEF DeliveryInv
<1>1. PICK i \in 0..2 :
         /\ D!First(i) /\ D!Offers(D!Choice(i))
         /\ cursor' = D!Moved(i)
         /\ pending' = {D!Choice(i)}
         /\ overtaken' = [j \in D!Queues |->
               IF j = D!Choice(i) \/ queue[j] = 0 \/ health[j] = "broken"
               THEN 0 ELSE overtaken[j] + 1]
  BY Zenon DEF D!Take
<1>2. UNCHANGED <<present, health, queue>>
  BY Zenon DEF D!Take, D!fixed
<1>3. cursor' \in 0..(Modulus - 1)
  <2>1. i + 1 \in 0..3 /\ cursor' = (cursor + (i + 1)) % Modulus
    BY <1>1 DEF D!Moved, Wraps
  <2>. QED  BY <2>1, MovedRange, Zenon
<1>4. D!Choice(i) \in D!Queues
  <2>1. (cursor + i) % Modulus \in 0..(Modulus - 1)
    BY MovedRange
  <2>. QED  BY <2>1 DEF D!Choice, D!Queues, D!Window, D!Derived, D!Advisory, Wraps
<1>5. overtaken' \in [D!Queues -> Nat]
  BY ONLY <1>1, overtaken \in [D!Queues -> Nat]
<1>6. ASSUME NEW k \in D!Queues, overtaken'[k] # 0 PROVE Near(k)'
  <2>1. k # D!Choice(i) /\ queue[k] # 0 /\ health[k] # "broken"
        /\ overtaken'[k] = overtaken[k] + 1
    BY <1>1, <1>6, Zenon
  <2>2. k \in present /\ queue[k] \in Nat
    BY <2>1, Zenon
  <2>3. D!Offers(k)
    BY ONLY <2>1, <2>2 DEF D!Offers
  <2>4. Near(k)
    BY <2>3, SoonNear, Zenon
  <2>. QED  BY <1>1, <1>2, <2>1, <2>4, StillNear, Zenon
<1>7. pending' = {D!Choice(i)} /\ overtaken'[D!Choice(i)] = 0
      /\ queue'[D!Choice(i)] # 0
  <2>1. queue[D!Choice(i)] # 0
    BY <1>1, <1>4 DEF D!Offers
  <2>. QED  BY <1>1, <1>2, <1>4, <2>1, Zenon
<1>. QED  BY <1>2, <1>3, <1>4, <1>5, <1>6, <1>7, Zenon

\* next_message when reading a queue throws, and when no queue has a message.
LEMMA MissNear ==
    ASSUME Wraps, DeliveryInv, D!TakeThrows \/ D!TakeNothing
    PROVE  DeliveryInv'
<1>. USE DEF DeliveryInv
<1>1. UNCHANGED <<present, health, queue, overtaken>> /\ at_delivery' = "pause"
  BY Zenon DEF D!TakeThrows, D!TakeNothing, D!fixed
<1>2. CASE D!TakeThrows
  <2>1. PICK i \in 0..2 : D!First(i) /\ D!Broken(D!Choice(i)) /\ cursor' = D!Moved(i)
    BY <1>2, Zenon DEF D!TakeThrows
  <2>2. cursor' \in 0..(Modulus - 1)
    <3>1. i + 1 \in 0..3 /\ cursor' = (cursor + (i + 1)) % Modulus
      BY <2>1 DEF D!Moved, Wraps
    <3>. QED  BY <3>1, MovedRange, Zenon
  <2>3. ASSUME NEW k \in D!Queues, overtaken'[k] # 0 PROVE Near(k)'
    <3>1. Near(k)
      BY <1>1, <2>3, Zenon
    <3>2. D!Choice(i) # k
      BY <2>1, <3>1, Zenon DEF Near, D!Broken, D!Offers
    <3>. QED  BY <1>1, <2>1, <3>1, <3>2, StillNear, Zenon
  <2>. QED  BY <1>1, <2>2, <2>3, Zenon
<1>3. CASE D!TakeNothing
  <2>1. (\A i \in 0..2 : ~D!Ends(i)) /\ cursor' = (cursor + 3) % Modulus
    BY <1>3, Zenon DEF D!TakeNothing
  <2>2. cursor' \in 0..(Modulus - 1)
    BY <2>1, MovedRange
  <2>3. ASSUME NEW k \in D!Queues, overtaken'[k] # 0 PROVE Near(k)'
    <3>1. PICK r \in 0..3 : overtaken[k] + r <= 3 /\ D!Choice(r) = k
      BY <1>1, <2>3, Zenon DEF Near
    <3>2. D!Offers(k)
      BY <1>1, <2>3, Zenon DEF Near
    <3>3. r = 3
      <4>1. r \notin 0..2
        BY <2>1, <3>1, <3>2, Zenon DEF D!Ends
      <4>. QED  BY ONLY <4>1, r \in 0..3, SMT
    <3>4. (cursor' + 0) % Modulus = cursor'
      BY <2>2, NoWrap, Zenon
    <3>5. D!Choice(0)' = k
      BY <2>1, <3>1, <3>3, <3>4, Zenon DEF D!Choice
    <3>6. overtaken'[k] + 0 <= 3
      BY <1>1, <3>1, <3>3
    <3>7. D!Offers(k)'
      BY <1>1, <3>2, Zenon DEF D!Offers
    <3>8. 0 \in 0..3
      OBVIOUS
    <3>. QED  BY <3>5, <3>6, <3>7, <3>8, Zenon DEF Near
  <2>. QED  BY <1>1, <2>2, <2>3, Zenon
<1>. QED  BY <1>2, <1>3, Zenon

\* The answer to a post, and an arriving message.
LEMMA QueueNear ==
    ASSUME Wraps, DeliveryInv,
           \E k \in D!Queues : D!Accepted(k) \/ D!Refused(k) \/ D!Arrive(k)
    PROVE  DeliveryInv'
<1>. USE DEF DeliveryInv
<1>1. UNCHANGED <<cursor, present, health, overtaken>>
  BY Zenon DEF D!Accepted, D!Refused, D!Arrive, D!fixed
<1>2. PICK k \in D!Queues : D!Accepted(k) \/ D!Refused(k) \/ D!Arrive(k)
  BY Zenon
<1>3. CASE D!Accepted(k) \/ D!Refused(k)
  <2>1. queue' = [queue EXCEPT ![k] = queue[k] - 1] /\ at_delivery' = "observe"
        /\ at_delivery = "post" /\ pending = {k}
    BY <1>3, Zenon DEF D!Accepted, D!Refused, D!Posted
  <2>2. overtaken[k] = 0 /\ queue[k] # 0
    BY <2>1, Zenon
  <2>3. queue[k] - 1 \in Nat
    BY <2>2
  <2>4. queue' \in [D!Queues -> Nat] /\ \A j \in D!Queues : j # k => queue'[j] = queue[j]
    BY <2>1, <2>3, Zenon
  <2>5. ASSUME NEW j \in D!Queues, queue'[j] # 0 PROVE j \in present'
    BY <1>1, <2>2, <2>4, <2>5, Zenon
  <2>6. ASSUME NEW j \in D!Queues, overtaken'[j] # 0 PROVE Near(j)'
    <3>1. j # k /\ Near(j)
      BY <1>1, <2>2, <2>6, Zenon
    <3>2. queue'[j] > 0
      BY <2>4, <3>1, Zenon DEF Near, D!Offers
    <3>. QED  BY <1>1, <3>1, <3>2, NearKept, Zenon
  <2>. QED  BY <1>1, <2>1, <2>4, <2>5, <2>6, Zenon
<1>4. CASE D!Arrive(k)
  <2>1. queue' = [queue EXCEPT ![k] = queue[k] + 1] /\ k \in present
        /\ UNCHANGED <<at_delivery, pending>>
    BY <1>4, Zenon DEF D!Arrive
  <2>2. queue[k] \in Nat /\ queue[k] + 1 \in Nat /\ queue[k] + 1 # 0 /\ queue[k] + 1 > 0
    OBVIOUS
  <2>3. queue' \in [D!Queues -> Nat] /\ queue'[k] = queue[k] + 1
        /\ \A j \in D!Queues : j # k => queue'[j] = queue[j]
    BY <2>1, <2>2, Zenon
  <2>4. ASSUME NEW j \in D!Queues, queue'[j] # 0 PROVE j \in present'
    BY <1>1, <2>1, <2>3, <2>4, Zenon
  <2>5. ASSUME NEW j \in D!Queues, overtaken'[j] # 0 PROVE Near(j)'
    <3>1. Near(j)
      BY <1>1, <2>5, Zenon
    <3>2. queue'[j] > 0
      BY <2>2, <2>3, <3>1, Zenon DEF Near, D!Offers
    <3>. QED  BY <1>1, <3>1, <3>2, NearKept, Zenon
  <2>6. at_delivery' = "post" =>
          \E j \in D!Queues : pending' = {j} /\ overtaken'[j] = 0 /\ queue'[j] # 0
    BY <1>1, <2>1, <2>2, <2>3, Zenon
  <2>. QED  BY <1>1, <2>3, <2>4, <2>5, <2>6, Zenon
<1>. QED  BY <1>2, <1>3, <1>4, Zenon

\* The other steps of the worker touch neither the queues nor the rotation.
LEMMA RestNear ==
    ASSUME DeliveryInv, UNCHANGED <<cursor, present, health, queue, overtaken>>,
           at_delivery' # "post" \/ UNCHANGED <<at_delivery, pending>>
    PROVE  DeliveryInv'
<1>1. ASSUME NEW k \in D!Queues, Near(k) PROVE Near(k)'
  BY <1>1, Zenon DEF Near, D!Offers, D!Choice
<1>. QED  BY <1>1, Zenon DEF DeliveryInv

\* The rotation keeps its invariant.
LEMMA DeliveryStep ==
    ASSUME Wraps, DeliveryInv, [D!Next]_(D!vars)
    PROVE  DeliveryInv'
<1>1. CASE D!Take
  BY <1>1, TakeNear, Zenon
<1>2. CASE D!TakeThrows \/ D!TakeNothing
  BY <1>2, MissNear, Zenon
<1>3. CASE \E k \in D!Queues : D!Accepted(k) \/ D!Refused(k) \/ D!Arrive(k)
  BY <1>3, QueueNear, Zenon
<1>4. CASE \/ D!Observations \/ D!Control \/ D!Wait \/ D!EndPause \/ D!Stop \/ D!Tick
           \/ \E k \in D!Queues : D!Failed(k) \/ D!AcceptThrows(k)
           \/ UNCHANGED D!vars
  <2>1. UNCHANGED <<cursor, present, health, queue, overtaken>>
    BY <1>4, Zenon DEF D!Observations, D!Control, D!Wait, D!EndPause, D!Stop, D!Tick,
       D!Failed, D!AcceptThrows, D!vars, D!fixed
  <2>2. at_delivery' # "post" \/ UNCHANGED <<at_delivery, pending>>
    BY <1>4, Zenon DEF D!Observations, D!Control, D!Wait, D!EndPause, D!Stop, D!Tick,
       D!Failed, D!AcceptThrows, D!vars
  <2>. QED  BY <2>1, <2>2, RestNear, Zenon
<1>. QED  BY <1>1, <1>2, <1>3, <1>4, Zenon DEF D!Next, D!WorkerStep

\* A queue that has a message waits for at most three posts of others, for every
\* number of messages, arrivals and mishaps and every combination of queues that
\* throw or are offline, also where the unsigned cursor of next_message wraps.
THEOREM QueuesTakeTurns ==
    ASSUME Wraps
    PROVE  D!Spec => []Rotation
<1>1. D!Init => DeliveryInv
  <2>1. D!Queues # {} /\ 0 \in 0..(Modulus - 1)
    BY DEF Wraps, D!Queues
  <2>2. D!Init => /\ cursor = 0 /\ present \subseteq D!Queues /\ at_delivery # "post"
                  /\ queue = [k \in D!Queues |-> 0] /\ overtaken = [k \in D!Queues |-> 0]
    BY Zenon DEF D!Init, D!Queues
  <2>. QED  BY <2>1, <2>2 DEF DeliveryInv
<1>2. DeliveryInv /\ [D!Next]_(D!vars) => DeliveryInv'
  BY DeliveryStep, Zenon
<1>3. DeliveryInv => Rotation
  <2>. SUFFICES ASSUME DeliveryInv, NEW k \in D!Queues PROVE overtaken[k] <= 3
    BY Zenon DEF Rotation, D!Rotation
  <2>1. overtaken[k] \in Nat
    BY Zenon DEF DeliveryInv
  <2>2. overtaken[k] # 0 => \E r \in 0..3 : overtaken[k] + r <= 3
    BY Zenon DEF DeliveryInv, Near
  <2>. QED  BY ONLY <2>1, <2>2, SMT
<1>. QED  BY <1>1, <1>2, <1>3, PTL DEF D!Spec

=============================================================================
