----------------------------- MODULE TokenLease -----------------------------
(***************************************************************************)
(* The bootstrap process: it owns the private token file the analytics     *)
(* child reads, obtains credentials from the KAC service in a background   *)
(* call, and removes the token when its lease ends.                        *)
(*                                                                         *)
(* Two clocks: boot never goes back, wall may be stepped by anyone.  One   *)
(* unit stands for the seconds a credential is measured in; an iteration   *)
(* of the loop takes a fraction of it.                                     *)
(***************************************************************************)
EXTENDS Integers, Sequences

CONSTANTS
    MaxTime,        \* bound on both clocks
    MaxLifetime,    \* longest credential parse_credential accepts (300 s)
    RenewMargin,    \* expires - renew_after (120 s)
    MaxSessions,    \* session directories that may exist (8)
    MaxDelay,       \* longest retry delay (30 s)
    Mishaps,        \* the kinds of outside events that may happen
    MaxMishaps      \* how many of them

VARIABLES
    boot, wall,     \* the clocks
    owed,           \* a whole iteration is due before the clock moves again
    process,        \* "off" or "running"
    pc,             \* place in the loop: "top", "expire", "collect", "start"
    at,             \* the clocks as the iteration read them
    file,           \* the token file in the directory of the running process:
                    \* {} or {wall time of its signed expiry}
    lease,          \* Lease
    has_token, terminal,
    next_attempt,
    failures,
    issue,          \* the background call: <<"none">> .. <<"ready", result>>
    orphans,        \* the token files in directories left by killed processes
    mishaps

loop == <<pc, at, file, lease, has_token, terminal, next_attempt, failures, issue>>
vars == <<boot, wall, owed, process, loop, orphans, mishaps>>

NoLease == [expires_wall |-> 0, expires_boot |-> 0, renew_boot |-> 0]
Idle == <<"none">>

\* The locals of main() before the loop.
Fresh ==
    /\ pc' = "top" /\ at' = [boot |-> 0, wall |-> 0]
    /\ file' = {} /\ lease' = NoLease
    /\ has_token' = FALSE /\ terminal' = FALSE
    /\ next_attempt' = 0 /\ failures' = 0
    /\ issue' = Idle

Init ==
    /\ boot = 1 /\ wall = 1 /\ owed = FALSE
    /\ process = "off"
    /\ pc = "top" /\ at = [boot |-> 0, wall |-> 0]
    /\ file = {} /\ lease = NoLease
    /\ has_token = FALSE /\ terminal = FALSE
    /\ next_attempt = 0 /\ failures = 0
    /\ issue = Idle
    /\ orphans = <<>> /\ mishaps = 0

Happens(kind) ==
    /\ kind \in Mishaps
    /\ mishaps < MaxMishaps
    /\ mishaps' = mishaps + 1

-----------------------------------------------------------------------------
(* Starting and ending.                                                    *)

\* The TokenSession constructor refuses when the directories are used up, and
\* leaves those it finds as they are.
Room == Len(orphans) < MaxSessions

\* The public inputs are there, the session directory is made, the child is
\* forked.
Boot ==
    /\ process = "off" /\ Room
    /\ process' = "running"
    /\ owed' = FALSE
    /\ Fresh
    /\ UNCHANGED <<boot, wall, orphans, mishaps>>

\* Every return and every exception removes the token and the directory:
\* on a signal, when the child has exited, or after KAC_RESPONSE_EXPIRED.
End ==
    /\ process' = "off" /\ owed' = FALSE
    /\ Fresh

Interrupt ==
    /\ process = "running" /\ pc = "top"
    /\ Happens("stop") \/ Happens("child")
    /\ End
    /\ UNCHANGED <<boot, wall, orphans>>

\* The process is killed: no destructor runs, so the directory and its token
\* stay behind; only the locals are gone.  The parent-death signal ends the
\* child.
Kill ==
    /\ process = "running"
    /\ Happens("kill")
    /\ orphans' = Append(orphans, file)
    /\ process' = "off" /\ owed' = FALSE
    /\ Fresh
    /\ UNCHANGED <<boot, wall>>

-----------------------------------------------------------------------------
(* The loop.                                                               *)

ReadClocks ==
    /\ process = "running" /\ pc = "top"
    /\ at' = [boot |-> boot, wall |-> wall]
    /\ pc' = "expire"
    /\ UNCHANGED <<boot, wall, owed, process, file, lease, has_token, terminal,
                   next_attempt, failures, issue, orphans, mishaps>>

\* Mutant: only the wall clock ends a lease.
expired_by_wall(w, b) == lease.expires_wall = 0 \/ w >= lease.expires_wall

expired(w, b) ==
    lease.expires_wall = 0 \/ w >= lease.expires_wall \/ b >= lease.expires_boot

\* It does not wait for the call in progress.
Expire ==
    /\ process = "running" /\ pc = "expire"
    /\ LET over == has_token /\ expired(at.wall, at.boot)
       IN  /\ file' = IF over THEN {} ELSE file
           /\ has_token' = (has_token /\ ~over)
    /\ pc' = "collect"
    /\ UNCHANGED <<boot, wall, owed, process, at, lease, terminal, next_attempt,
                   failures, issue, orphans, mishaps>>

\* retry_delay without jitter: doubled up to the limit.
retry_delay(attempt) ==
    LET base == 2 ^ (IF attempt > 5 THEN 5 ELSE attempt)
    IN  IF base > MaxDelay THEN MaxDelay ELSE base

Backoff ==
    /\ next_attempt' = at.boot + retry_delay(failures)
    /\ failures' = IF failures < 5 THEN failures + 1 ELSE failures

\* Lease::issued.
issued(expires) ==
    [expires_wall |-> expires,
     expires_boot |-> at.boot + (expires - at.wall),
     renew_boot   |-> at.boot + (expires - RenewMargin - at.wall)]

\* A credential that is already due for renewal ends the process.
Overdue(expires) == expires - RenewMargin <= at.wall

Collect ==
    /\ process = "running" /\ pc = "collect"
    /\ \/ /\ issue[1] # "ready"
          /\ pc' = "start"
          /\ UNCHANGED <<owed, process, at, file, lease, has_token, terminal,
                         next_attempt, failures, issue>>
       \/ /\ issue[1] = "ready" /\ issue[2] \in {"error", "retryable"}
          /\ Backoff
          /\ issue' = Idle /\ pc' = "start"
          /\ UNCHANGED <<owed, process, at, file, lease, has_token, terminal>>
       \/ /\ issue = <<"ready", "terminal">>
          /\ file' = {} /\ has_token' = FALSE /\ terminal' = TRUE
          /\ issue' = Idle /\ pc' = "start"
          /\ UNCHANGED <<owed, process, at, lease, next_attempt, failures>>
       \/ /\ issue[1] = "ready" /\ issue[2] = "issued"
          /\ ~Overdue(issue[3])
          /\ file' = {issue[3]} /\ has_token' = TRUE
          /\ lease' = issued(issue[3])
          /\ next_attempt' = lease'.renew_boot /\ failures' = 0
          /\ issue' = Idle /\ pc' = "start"
          /\ UNCHANGED <<owed, process, at, terminal>>
       \/ /\ issue[1] = "ready" /\ issue[2] = "issued"
          /\ Overdue(issue[3])
          /\ End
    /\ UNCHANGED <<boot, wall, orphans, mishaps>>

\* Mutant: only a token that is still held is renewed.
Due_holding ==
    at.boot >= next_attempt /\ (has_token \/ lease.expires_wall = 0)

Due == at.boot >= next_attempt

Start ==
    /\ process = "running" /\ pc = "start"
    /\ issue' = IF issue = Idle /\ ~terminal /\ Due THEN <<"called">> ELSE issue
    /\ pc' = "top" /\ at' = [boot |-> 0, wall |-> 0]
    /\ owed' = (at.boot # boot)
    /\ UNCHANGED <<boot, wall, process, file, lease, has_token, terminal,
                   next_attempt, failures, orphans, mishaps>>

-----------------------------------------------------------------------------
(* The background call: KAC (external) signs with its clock, this host's   *)
(* wall clock, and parse_credential judges the answer when it arrives.     *)

Sign ==
    /\ issue = <<"called">>
    /\ \E lifetime \in (RenewMargin + 1)..MaxLifetime :
          issue' = <<"signed", wall + lifetime>>
    /\ UNCHANGED <<boot, wall, owed, process, pc, at, file, lease, has_token,
                   terminal, next_attempt, failures, orphans, mishaps>>

parse_credential(expires) ==
    IF expires > wall + MaxLifetime \/ expires - RenewMargin <= wall
    THEN <<"ready", "error">>
    ELSE <<"ready", "issued", expires>>

Receive ==
    /\ issue[1] = "signed"
    /\ issue' = parse_credential(issue[2])
    /\ UNCHANGED <<boot, wall, owed, process, pc, at, file, lease, has_token,
                   terminal, next_attempt, failures, orphans, mishaps>>

Refuse ==
    /\ issue = <<"called">>
    /\ \/ Happens("error") /\ issue' = <<"ready", "error">>
       \/ Happens("busy") /\ issue' = <<"ready", "retryable">>
       \/ Happens("denied") /\ issue' = <<"ready", "terminal">>
    /\ UNCHANGED <<boot, wall, owed, process, pc, at, file, lease, has_token,
                   terminal, next_attempt, failures, orphans>>

-----------------------------------------------------------------------------

Tick ==
    /\ ~owed
    /\ boot < MaxTime
    /\ boot' = boot + 1
    /\ wall' = IF wall < MaxTime THEN wall + 1 ELSE wall
    /\ owed' = (process = "running")
    /\ UNCHANGED <<process, loop, orphans, mishaps>>

StepWall ==
    /\ Happens("clock")
    /\ wall' \in (1..MaxTime) \ {wall}
    /\ UNCHANGED <<boot, owed, process, loop, orphans>>

LoopStep == ReadClocks \/ Expire \/ Collect \/ Start

Next ==
    \/ Boot \/ Interrupt \/ Kill
    \/ LoopStep
    \/ Sign \/ Receive \/ Refuse
    \/ Tick \/ StepWall

Spec == Init /\ [][Next]_vars

\* The process is restarted, its loop runs, the calls are answered and time
\* passes.
FairSpec ==
    Spec /\ WF_vars(Boot) /\ WF_vars(LoopStep)
         /\ WF_vars(Sign \/ Receive) /\ WF_vars(Tick)

-----------------------------------------------------------------------------

\* Neither a stepped wall clock nor a renewal in progress extends a lease:
\* a running bootstrap removes its token within one iteration of the boot
\* time its lifetime allowed when it was delivered.  Nothing is said of the
\* tokens in orphans: they stay until somebody outside removes them.
WithinLease ==
    process = "running" /\ file # {} => boot <= lease.expires_boot

\* A lost token comes back: a running bootstrap without a token and without
\* a terminal rejection obtains one, through failures, expiries and clock
\* steps, unless its next attempt lies beyond the modelled time.
Reissued ==
    (process = "running" /\ file = {} /\ ~terminal)
      ~> (file # {} \/ terminal \/ process = "off" \/ next_attempt > MaxTime)
=============================================================================
