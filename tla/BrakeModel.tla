----------------------------- MODULE BrakeModel -----------------------------
(***************************************************************************)
(* The persistent model state of the V2 analysis, the identity ledger that *)
(* binds it to the assessments it produced, and the three computations the *)
(* state store performs on them: evaluate an episode, remember its         *)
(* identity, and return to the preconditioned baseline.                    *)
(*                                                                         *)
(* The condition score and band are functions of the wear index            *)
(* (v2/model.cpp evaluates score = 100 - wear and validate_state rejects   *)
(* anything else), so only the wear index is kept.  An episode is its      *)
(* source event id; what SyntheticModel::evaluate computes from its        *)
(* samples is a wear increment.                                            *)
(***************************************************************************)
EXTENDS Integers, Sequences, FiniteSets

CONSTANTS
    SourceEvents,   \* source event ids (UUIDv4) of completed episodes
    Configs,        \* model configuration digests of the deployments seen
    Increments,     \* wear increments SyntheticModel::evaluate can return
    MaxGeneration,  \* stands for the maximum of uint64_t
    RecentLimit     \* entries of the identity ledger (64 in the code)

ASSUME ModelAssumption ==
    /\ SourceEvents # {} /\ Configs # {}
    /\ Increments \subseteq 4..10
    /\ MaxGeneration \in Nat
    /\ RecentLimit \in Nat \ {0}

\* assessment_id: UUIDv5 of (unit, source event, model configuration).  The
\* unit never changes, and the digest is taken to be injective.
AssessmentIds == SourceEvents \X Configs

Bindings ==
    {b \in [source_event_id : SourceEvents, assessment_id : AssessmentIds] :
        b.assessment_id[1] = b.source_event_id}

ModelStates ==
    [generation : 0..MaxGeneration,
     wear       : 0..100,
     recent     : Seq(SourceEvents),
     last       : SUBSET AssessmentIds]      \* optional last_assessment_id

\* The digest of state.json is modelled by the state itself; it covers the
\* generation the ledger also repeats.
Ledgers == [state_sha256 : ModelStates, entries : Seq(Bindings)]

initial_state ==
    [generation |-> 0, wear |-> 54, recent |-> <<>>, last |-> {}]

band_for_score(score) ==
    IF score >= 70 THEN "GOOD"
    ELSE IF score >= 40 THEN "MONITOR" ELSE "INSPECTION_RECOMMENDED"

Band(s) == band_for_score(100 - s.wear)

\* push_back, then drop the oldest entry above the limit.
Remember(seq, x) ==
    LET longer == Append(seq, x)
    IN  IF Len(longer) > RecentLimit THEN Tail(longer) ELSE longer

WearAfter(wear, increment) ==
    IF wear + increment > 100 THEN 100 ELSE wear + increment

\* SyntheticModel::evaluate followed by the updates of StateStore::process.
evaluate(s, id, increment) ==
    [generation |-> s.generation + 1,
     wear       |-> WearAfter(s.wear, increment),
     recent     |-> Remember(s.recent, id[1]),
     last       |-> {id}]

\* The ledger bound to the state that follows from the assessment id.
ledger_after(l, after, id) ==
    [state_sha256 |-> after,
     entries      |-> Remember(l.entries,
                        [source_event_id |-> id[1], assessment_id |-> id])]

\* reset_demo: identity and history stay, the model returns to the baseline.
reset_state(s) ==
    [s EXCEPT !.generation = s.generation + 1, !.wear = initial_state.wear]

reset_ledger(l, after) == [l EXCEPT !.state_sha256 = after]

Recent(s) == {s.recent[i] : i \in DOMAIN s.recent}

\* validate_identity_ledger: the ledger binds exactly this state.
Binds(l, s) ==
    /\ l.state_sha256 = s
    /\ Len(l.entries) = Len(s.recent)
    /\ \A i \in DOMAIN l.entries : l.entries[i].source_event_id = s.recent[i]
    /\ \A i, j \in DOMAIN l.entries :
          l.entries[i].assessment_id = l.entries[j].assessment_id => i = j
    /\ l.entries # <<>> => s.last = {l.entries[Len(l.entries)].assessment_id}

=============================================================================
