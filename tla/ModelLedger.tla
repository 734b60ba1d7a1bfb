---------------------------- MODULE ModelLedger -----------------------------
(***************************************************************************)
(* What the V2 state store promises, without files, journals or crashes:   *)
(* an accepted episode advances the model exactly once and, in the same    *)
(* step, enters the identity ledger and either queues its whole message    *)
(* group or none of it; a message leaves the outbox only after the backend *)
(* has it; a demo reset is one step.                                       *)
(***************************************************************************)
EXTENDS BrakeModel

CONSTANTS MaxMessages

VARIABLES
    model,      \* the model state a reader may rely on
    entries,    \* the identities of the assessments in the recent window
    queued,     \* messages admitted and not yet acknowledged
    held,       \* queued messages that are quarantined
    backend     \* messages the backend has stored durably

vars == <<model, entries, queued, held, backend>>

Init ==
    /\ model = initial_state
    /\ entries = <<>>
    /\ queued = {}
    /\ held = {}
    /\ backend = {}

\* The message group of an assessment.
Group(id, before, after) ==
    {<<id, kind, after.generation>> :
        kind \in IF Band(after) # Band(before)
                 THEN {"assessment", "event"} ELSE {"assessment"}}

Assess(id, increment) ==
    LET after == evaluate(model, id, increment)
        group == Group(id, model, after)
    IN  /\ id[1] \notin Recent(model)
        /\ model.generation < MaxGeneration
        /\ model' = after
        /\ entries' = Remember(entries, [source_event_id |-> id[1],
                                         assessment_id |-> id])
        /\ \/ /\ Cardinality(queued) + Cardinality(group) <= MaxMessages
              /\ queued' = queued \union group
           \/ UNCHANGED queued
        /\ UNCHANGED <<held, backend>>

Reset ==
    /\ model.generation < MaxGeneration
    /\ model' = reset_state(model)
    /\ UNCHANGED <<entries, queued, held, backend>>

Store(m) ==
    /\ m \in queued \ held
    /\ backend' = backend \union {m}
    /\ UNCHANGED <<model, entries, queued, held>>

Retire(m) ==
    /\ m \in (queued \intersect backend) \ held
    /\ queued' = queued \ {m}
    /\ UNCHANGED <<model, entries, held, backend>>

Hold(id) ==
    /\ held' = held \union {m \in queued : m[1] = id}
    /\ UNCHANGED <<model, entries, queued, backend>>

Next ==
    \/ \E id \in AssessmentIds, i \in Increments : Assess(id, i)
    \/ Reset
    \/ \E m \in queued : Store(m) \/ Retire(m)
    \/ \E id \in AssessmentIds : Hold(id)

Spec == Init /\ [][Next]_vars

-----------------------------------------------------------------------------
(* What the promise is good for.                                           *)

\* The model state keeps within validate_state()'s bounds, and only queued
\* messages are held.
TypeOK ==
    /\ model \in ModelStates
    /\ entries \in Seq(Bindings)
    /\ queued \subseteq AssessmentIds \X {"assessment", "event"} \X Nat
    /\ held \subseteq queued
    /\ backend \subseteq AssessmentIds \X {"assessment", "event"} \X Nat

\* The pairs admitted by process() and not yet acknowledged never exceed
\* the budget, whatever is held back.
WithinBudget == Cardinality(queued) <= MaxMessages

\* The ledger answers a duplicate: each event of the model's recent window
\* has exactly one entry, at its own position, so process() can return the
\* assessment id it committed.
WindowAnswers ==
    /\ Len(entries) = Len(model.recent)
    /\ \A i \in DOMAIN entries :
          entries[i].source_event_id = model.recent[i]
    /\ \A i, j \in DOMAIN entries :
          entries[i].source_event_id = entries[j].source_event_id => i = j

\* An acknowledged message never comes back to the outbox, not even when
\* its event is processed again after leaving the window.
NoReturn ==
    [][\A m \in backend : m \notin queued => m \notin queued']_vars

=============================================================================
