--------------------------- MODULE SyntheticModel ---------------------------
(***************************************************************************)
(* What SyntheticModel::evaluate makes of the samples of an episode: a     *)
(* reason to skip it, or the wear increment that BrakeModel applies.  The  *)
(* code passes over the samples once per question; here one scan gathers   *)
(* what all the passes find, and evaluate() asks in the code's order.      *)
(* ModelCapture hands out episodes that were cut short too; the source     *)
(* event id and the cadence it gives every episode are always valid.       *)
(* Signals are in the code's thousandths.  Of the four wheels a sample     *)
(* keeps the extremes (of the angular speeds, those of their magnitudes).  *)
(***************************************************************************)
EXTENDS Integers, FiniteSets

CONSTANTS
    Samples,        \* the samples an episode may hold
    MinActive,      \* active and straight samples needed (5)
    MaxActive,      \* active samples admitted (100)
    MaxSamples      \* samples admitted (150)

ASSUME SamplesAssumption ==
    /\ Samples \subseteq
         [phase : {"PRE", "ACTIVE", "POST"}, complete : BOOLEAN, finite : BOOLEAN,
          fresh : BOOLEAN, later : BOOLEAN,     \* max_source_age_ms, timestamp
          speed : Int, acceleration : Int, brake : Int, steering : Int,
          linear_min : Int, linear_max : Int, angular_min : Nat, angular_max : Nat]
    /\ \A s \in Samples : s.linear_min <= s.linear_max /\ s.angular_min <= s.angular_max
    /\ MinActive \in Nat \ {0} /\ MaxActive \in Nat /\ MaxSamples \in Nat

VARIABLES
    e,              \* what the scan of the episode has found
    seen            \* the samples of the episode

scanVars == <<e, seen>>

-----------------------------------------------------------------------------
(* Fixed-point arithmetic.                                                 *)

round_half_up(numerator, denominator) ==
    (numerator + denominator \div 2) \div denominator

\* Mutant: the value is not limited.
clamp_bps_none(value) == value

clamp_bps(value) == IF value > 10000 THEN 10000 ELSE value

Bps(value, full) == clamp_bps(round_half_up(value * 10000, full))

AtLeast(low, value) == IF value > low THEN value ELSE low

signal_range_valid(s) ==
    /\ s.speed >= 0 /\ s.speed <= 1000000
    /\ s.acceleration >= -100000 /\ s.acceleration <= 100000
    /\ s.brake >= 0 /\ s.brake <= 100000
    /\ s.steering >= -360000 /\ s.steering <= 360000
    /\ s.linear_min >= 0 /\ s.linear_max <= 1000000
    /\ s.angular_max <= 10000000

-----------------------------------------------------------------------------
(* The scan.                                                               *)

Terminals ==
    {"COMPLETE", "TRUNCATED_MAX_DURATION", "INCOMPLETE_SOURCE_GAP"}

Reasons ==
    {"MISSING_REQUIRED_SIGNAL", "STALE_SAMPLE", "NON_FINITE_VALUE",
     "OUT_OF_RANGE_VALUE", "NON_MONOTONIC_SOURCE_TIME"}

NoFeatures ==
    [active |-> 0, straight |-> 0, peak |-> 0, brake_sum |-> 0, front |-> 0,
     back |-> 0, dispersion |-> 0]

NoSamples(terminal) ==
    [terminal |-> terminal, count |-> 0, flaws |-> {}, phases |-> {},
     features |-> NoFeatures]

\* PRE is a prefix, and POST does not precede the first ACTIVE.
Misplaced(s) ==
    \/ s.phase = "PRE" /\ e.features.active > 0
    \/ s.phase = "POST" /\ e.features.active = 0

\* The reasons to skip the episode that a sample gives.
Flaws(s) ==
    {x \in Reasons :
        \/ x = "MISSING_REQUIRED_SIGNAL" /\ (~s.complete \/ Misplaced(s))
        \/ x = "STALE_SAMPLE" /\ ~s.fresh
        \/ x = "NON_FINITE_VALUE" /\ ~s.finite
        \/ x = "OUT_OF_RANGE_VALUE" /\ ~signal_range_valid(s)
        \/ x = "NON_MONOTONIC_SOURCE_TIME" /\ ~s.later}

Straight(s) ==
    s.speed >= 10000 /\ s.steering >= -5000 /\ s.steering <= 5000 /\ s.fresh

Dispersion(s) ==
    AtLeast(Bps(s.linear_max - s.linear_min, AtLeast(5000, s.linear_max)),
            Bps(s.angular_max - s.angular_min, AtLeast(30000, s.angular_max)))

\* What a sample of the active phase adds to the features.
Active(s, f) ==
    [active     |-> f.active + 1,
     straight   |-> IF Straight(s) THEN f.straight + 1 ELSE f.straight,
     peak       |-> AtLeast(f.peak, -s.acceleration),
     brake_sum  |-> f.brake_sum + s.brake,
     front      |-> IF f.active = 0 THEN s.speed ELSE f.front,
     back       |-> s.speed,
     dispersion |-> IF Straight(s) THEN AtLeast(f.dispersion, Dispersion(s))
                    ELSE f.dispersion]

\* Mutant: only the active samples are checked.
Scanned_active(s) ==
    [terminal |-> e.terminal,
     count    |-> e.count + 1,
     flaws    |-> e.flaws \union IF s.phase = "ACTIVE" THEN Flaws(s) ELSE {},
     phases   |-> e.phases \union {s.phase},
     features |-> IF s.phase = "ACTIVE" THEN Active(s, e.features) ELSE e.features]

Scanned(s) ==
    [terminal |-> e.terminal,
     count    |-> e.count + 1,
     flaws    |-> e.flaws \union Flaws(s),
     phases   |-> e.phases \union {s.phase},
     features |-> IF s.phase = "ACTIVE" THEN Active(s, e.features) ELSE e.features]

-----------------------------------------------------------------------------
(* The verdict.                                                            *)

\* The first reason that applies.
skip_reason(r) ==
    IF r.terminal # "COMPLETE" THEN "EPISODE_NOT_COMPLETE"
    ELSE IF
       \/ r.count = 0 \/ r.count > MaxSamples
       \/ "MISSING_REQUIRED_SIGNAL" \in r.flaws
       \/ r.phases # {"PRE", "ACTIVE", "POST"} \/ r.features.active > MaxActive
    THEN "MISSING_REQUIRED_SIGNAL"
    ELSE IF "STALE_SAMPLE" \in r.flaws THEN "STALE_SAMPLE"
    ELSE IF "NON_FINITE_VALUE" \in r.flaws THEN "NON_FINITE_VALUE"
    ELSE IF "OUT_OF_RANGE_VALUE" \in r.flaws THEN "OUT_OF_RANGE_VALUE"
    ELSE IF "NON_MONOTONIC_SOURCE_TIME" \in r.flaws THEN "NON_MONOTONIC_SOURCE_TIME"
    ELSE IF r.features.active < MinActive THEN "INSUFFICIENT_ACTIVE_SAMPLES"
    ELSE IF r.features.straight < MinActive
    THEN "INSUFFICIENT_QUALIFIED_WHEEL_SAMPLES"
    ELSE "NONE"

Assessed(r) == skip_reason(r) = "NONE"

mean_brake(f) == round_half_up(f.brake_sum, f.active)

episode_load(f) ==
    clamp_bps(round_half_up(
        30 * Bps(f.peak, 8000)
      + 20 * Bps(f.active * 100, 5000)
      + 15 * Bps(AtLeast(0, f.front - f.back), 40000)
      + 15 * Bps(AtLeast(0, mean_brake(f) - 50000), 50000)
      + 20 * Bps(f.dispersion, 1500), 100))

wear_increment(f) == 4 + round_half_up(6 * episode_load(f), 10000)

-----------------------------------------------------------------------------

ScanInit == (\E terminal \in Terminals : e = NoSamples(terminal)) /\ seen = {}

\* One sample more than the limit is enough to see it refused.
Scan(s) ==
    /\ e.count <= MaxSamples
    /\ e' = Scanned(s)
    /\ seen' = seen \union {s}

ScanNext == \E s \in Samples : Scan(s)

ScanSpec == ScanInit /\ [][ScanNext]_scanVars

-----------------------------------------------------------------------------

FeatureVectors ==
    [active : Nat, straight : Nat, peak : Nat, brake_sum : Int, front : Int,
     back : Int, dispersion : Nat]

\* The counters and features of the scan have their types.
ScanTypeOK ==
    /\ e \in [terminal : Terminals, count : Nat, flaws : SUBSET Reasons,
              phases : SUBSET {"PRE", "ACTIVE", "POST"}, features : FeatureVectors]
    /\ seen \subseteq Samples

\* An assessed episode wears the brake by 4 to 10 points, which is what the
\* state store's arithmetic on the wear index relies on.  The code computes
\* with unsigned integers, so it also matters that the sum is not negative.
IncrementRange ==
    Assessed(e) =>
        /\ e.features.brake_sum >= 0
        /\ episode_load(e.features) >= 0 /\ episode_load(e.features) <= 10000
        /\ wear_increment(e.features) \in 4..10

\* Only an episode that came to its end is assessed, and no flaw of any of its
\* samples, in any phase and however many follow, gets into the assessment.
OnlySoundSamples ==
    Assessed(e) =>
        /\ e.terminal = "COMPLETE"
        /\ \A s \in seen : s.complete /\ s.finite /\ s.fresh /\ s.later
                           /\ signal_range_valid(s)
=============================================================================
