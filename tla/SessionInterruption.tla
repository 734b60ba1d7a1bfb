------------------------ MODULE SessionInterruption -------------------------
(***************************************************************************)
(* Why a session ended, as its threads agree on it: SessionInterruption    *)
(* keeps the worst input change any thread of the session has observed, in *)
(* one atomic updated by a compare-and-exchange loop without a lock.  The  *)
(* session thread, the watcher and the reader thread all call observe().   *)
(*                                                                         *)
(* Changes are ordered as the enumeration SessionInputChange is: None,     *)
(* TokenReplaced, Unavailable.                                             *)
(***************************************************************************)
EXTENDS Integers

CONSTANT Threads     \* the threads of one session that call observe()

None == 0
TokenReplaced == 1
Unavailable == 2
SessionInputChange == None..Unavailable

VARIABLES
    cause_,     \* the atomic
    pc,         \* thread -> "idle", or its place in observe()
    change,     \* thread -> the argument of its latest call
    previous    \* thread -> the value it expects to replace

vars == <<cause_, pc, change, previous>>

Init ==
    /\ cause_ = None
    /\ pc = [t \in Threads |-> "idle"]
    /\ change = [t \in Threads |-> None]
    /\ previous = [t \in Threads |-> None]

Call(t, c) ==
    /\ pc[t] = "idle"
    /\ change' = [change EXCEPT ![t] = c]
    /\ pc' = [pc EXCEPT ![t] = "load"]
    /\ UNCHANGED <<cause_, previous>>

Load(t) ==
    /\ pc[t] = "load"
    /\ previous' = [previous EXCEPT ![t] = cause_]
    /\ pc' = [pc EXCEPT ![t] = "test"]
    /\ UNCHANGED <<cause_, change>>

\* The loop is left without writing when the cause is already as bad.
Keep(t) ==
    /\ pc[t] = "test"
    /\ change[t] <= previous[t]
    /\ pc' = [pc EXCEPT ![t] = "idle"]
    /\ UNCHANGED <<cause_, change, previous>>

\* compare_exchange_weak succeeds.
Exchange(t) ==
    /\ pc[t] = "test"
    /\ change[t] > previous[t]
    /\ cause_ = previous[t]
    /\ cause_' = change[t]
    /\ pc' = [pc EXCEPT ![t] = "idle"]
    /\ UNCHANGED <<change, previous>>

\* It fails, also spuriously, and reloads the expected value.
Retry(t) ==
    /\ pc[t] = "test"
    /\ change[t] > previous[t]
    /\ previous' = [previous EXCEPT ![t] = cause_]
    /\ UNCHANGED <<cause_, pc, change>>

Next ==
    \E t \in Threads :
        \/ \E c \in SessionInputChange : Call(t, c)
        \/ Load(t) \/ Keep(t) \/ Exchange(t) \/ Retry(t)

Spec == Init /\ [][Next]_vars

-----------------------------------------------------------------------------

\* The atomic, the arguments and the expected values are input changes.
TypeOK ==
    /\ cause_ \in SessionInputChange
    /\ pc \in [Threads -> {"idle", "load", "test"}]
    /\ change \in [Threads -> SessionInputChange]
    /\ previous \in [Threads -> SessionInputChange]

\* Unavailable is sticky: the cause never gets better, whichever threads
\* race in observe(), so a session that lost its token or its public inputs
\* is never taken for a planned renewal afterwards.
Sticky == [][cause_' >= cause_]_vars

\* No observation is lost: when observe(c) has returned, the cause is at
\* least as bad as c, whatever the other threads wrote meanwhile.
NotLost == \A t \in Threads : pc[t] = "idle" => change[t] <= cause_

=============================================================================
