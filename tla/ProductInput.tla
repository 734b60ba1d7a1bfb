---------------------------- MODULE ProductInput ----------------------------
(***************************************************************************)
(* What Product keeps in memory about its input, and what each of its      *)
(* operations, all under one mutex, makes of it: the episode capture of    *)
(* the profile, readiness, the watchdog's last valid frame, and the facts  *)
(* reported to the backend (FunctionFacts).  The state is one record, and  *)
(* an operation is an operator from that record to the next one.           *)
(*                                                                         *)
(* The capture engines are modelled in WindowEngine and ModelCapture; here *)
(* a valid frame moves the phase as they allow.  Source time is kept only  *)
(* as the comparison with the previous frame that ingest() makes.          *)
(***************************************************************************)
EXTENDS Integers

CONSTANTS
    Profiles,       \* functional profiles: "V1", "V2" or "V3"
    Contracts,      \* VDP contracts the public metadata can name
    Freshness       \* kMaximumSourceAgeMs, in clock ticks

Capturing == {"ACTIVE", "POST"}
Phases == {"WAITING"} \union Capturing

InputStates ==
    {"WAITING", "RECEIVING", "STALE", "DISCONNECTED", "ACCESS_DENIED", "INVALID"}
InputReasons ==
    {"NONE", "AWAITING_INPUT", "SOURCE_GAP", "INVALID_SAMPLE", "TRANSPORT_LOST",
     "ACCESS_DENIED", "REAUTHENTICATING"}
ActivityReasons ==
    {"NONE", "NOT_QUALIFIED", "SOURCE_DISCONTINUITY", "REAUTHENTICATING",
     "RESET", "STORAGE_UNAVAILABLE"}

Connections ==
    {"STARTING", "CONNECTED", "REAUTHENTICATING", "DISCONNECTED", "ACCESS_DENIED"}

Products ==
    [profile    : Profiles,
     input_mono : {-1} \union Nat,      \* clock of the last valid frame
     ready      : BOOLEAN,
     phase      : Phases,               \* of the profile's capture engine
     contract   : Contracts,
     previous   : BOOLEAN,              \* previous_epoch_ is not -1
     reset      : BOOLEAN,              \* a demo reset is pending (V3)
     connection : Connections,
     input      : InputStates \X InputReasons,
     activity   : (Phases \union {"COMPLETED", "SKIPPED"}) \X ActivityReasons]

NewProduct(profile, contract) ==
    [profile |-> profile, input_mono |-> -1, ready |-> FALSE, phase |-> "WAITING",
     contract |-> contract, previous |-> FALSE, reset |-> FALSE,
     connection |-> "STARTING", input |-> <<"WAITING", "AWAITING_INPUT">>,
     activity |-> <<"WAITING", "NOT_QUALIFIED">>]

-----------------------------------------------------------------------------
(* FunctionFacts.                                                          *)

input(p, connection, state, reason) ==
    [p EXCEPT !.connection = connection, !.input = <<state, reason>>]

activity(p, state, reason) == [p EXCEPT !.activity = <<state, reason>>]

\* An episode in progress is reported as skipped.
interruption(p, reason) ==
    IF p.activity[1] \in Capturing THEN activity(p, "SKIPPED", reason) ELSE p

-----------------------------------------------------------------------------
(* The operations.  An abort closes the episode of either engine.  In V1   *)
(* closing stores the event, so it can throw: X_thrown is the state then.  *)

abort(p) == [p EXCEPT !.phase = "WAITING"]

CanThrow(p) == p.profile = "V1" /\ p.phase \in Capturing

ReportGap(p) ==
    input(interruption(p, "SOURCE_DISCONTINUITY"),
          "CONNECTED", "INVALID", "INVALID_SAMPLE")

source_gap(p) == [abort(ReportGap(p)) EXCEPT !.ready = FALSE]
source_gap_thrown(p) == abort(ReportGap(p))

\* What ingest() tells apart in a subscription update: every signal valid,
\* their source times close enough, the newest against the previous frame's,
\* their age, and the values themselves.
Frames ==
    [valid    : BOOLEAN,
     coherent : BOOLEAN,
     order    : {"older", "same", "newer"},
     fresh    : BOOLEAN,
     complete : BOOLEAN]

Newer(p, f) == f.order = "newer" \/ ~p.previous

Rejected(p, f) ==
    \/ ~f.valid
    \/ f.coherent /\ ((f.order = "older" /\ p.previous) \/ ~f.fresh)
    \/ f.coherent /\ Newer(p, f) /\ ~f.complete

Accepted(p, f) == ~Rejected(p, f) /\ f.coherent /\ Newer(p, f)

\* What a valid frame can make of the episode, and how it is reported.  The
\* completed event of V1 was complete or truncated, or it was cut by a gap;
\* the episode of V2 and V3 was assessed or skipped ("NOT_QUALIFIED" stands
\* for the three reasons that come from the episode itself).
Progress(p) ==
    {<<next, <<next, IF next = "WAITING" THEN "NOT_QUALIFIED" ELSE "NONE">>>> :
        next \in IF p.phase = "WAITING" THEN {"WAITING", "ACTIVE"} ELSE Capturing}
    \union
    IF p.phase = "WAITING" THEN {}
    ELSE {<<"WAITING", <<"COMPLETED", "NONE">>>>}
         \union {<<"WAITING", <<"SKIPPED", reason>>>> :
                    reason \in IF p.profile = "V1" THEN {"SOURCE_DISCONTINUITY"}
                               ELSE {"NOT_QUALIFIED", "STORAGE_UNAVAILABLE"}}

\* Frames that pass complete_frame() and are not valid input after all: V1's
\* FrameValidator refuses the values and the engine closes its event, or the
\* model of V2 and V3 is no longer ready after the episode.
Refused(p) ==
    IF p.profile = "V1"
    THEN {<<"WAITING", IF p.phase \in Capturing
                       THEN <<"SKIPPED", "SOURCE_DISCONTINUITY">>
                       ELSE p.activity>>}
    ELSE {s \in Progress(p) : s[2][2] = "STORAGE_UNAVAILABLE"}

\* An accepted frame.
Process(p, mono) ==
    LET q(s) == [p EXCEPT !.previous = TRUE, !.phase = s[1], !.activity = s[2]]
    IN  {input([q(s) EXCEPT !.ready = TRUE, !.input_mono = mono],
               "CONNECTED", "RECEIVING", "NONE") : s \in Progress(p)}
        \union {[q(s) EXCEPT !.ready = FALSE] : s \in Refused(p)}

\* What ingest() decides about an update: a pending demo reset drops it, a
\* rejected one is a source gap, an accepted one is processed.
Verdict(p, f) ==
    IF p.reset THEN "dropped"
    ELSE IF Rejected(p, f) THEN "gap"
    ELSE IF Accepted(p, f) THEN "processed"
    ELSE "dropped"

\* Every outcome of ingest() for an update with that verdict.
ingest(p, verdict, mono) ==
    CASE verdict = "gap" -> {source_gap(p)}
      [] verdict = "processed" -> Process(p, mono)
      [] verdict = "dropped" -> {p}

\* The steps of the engine that write: V1 checkpoints the open event and
\* stores the completed one, V2 and V3 process the completed episode.
Writes(p, s) ==
    IF p.profile = "V1" THEN s[1] \in Capturing \/ p.phase \in Capturing
    ELSE p.phase \in Capturing /\ s[1] = "WAITING"

\* The storage failures of ingest().
ingest_thrown(p, verdict) ==
    CASE verdict = "gap" -> IF CanThrow(p) THEN {source_gap_thrown(p)} ELSE {}
      [] verdict = "processed" ->
            {[p EXCEPT !.previous = TRUE, !.phase = s[1],
                       !.ready = p.ready \/ p.profile # "V1"] :
                s \in {t \in Progress(p) : Writes(p, t)}}
      [] verdict = "dropped" -> {}

update_metadata(p, contract) ==
    IF p.contract = contract THEN p
    ELSE [abort(p) EXCEPT !.contract = contract, !.previous = FALSE,
                          !.ready = FALSE]

disconnect(p) ==
    [input(abort(interruption(p, "SOURCE_DISCONTINUITY")),
           "DISCONNECTED", "DISCONNECTED", "TRANSPORT_LOST")
        EXCEPT !.input_mono = -1, !.ready = FALSE]

input_observation(p, connection, state, reason) ==
    input(IF state = "RECEIVING" THEN p
          ELSE interruption(p, IF reason = "REAUTHENTICATING" THEN reason
                               ELSE "SOURCE_DISCONTINUITY"),
          connection, state, reason)

\* Mutant: a planned renewal is treated as a lost connection.
reauthenticate_disconnects(p) ==
    input_observation(disconnect(p), "REAUTHENTICATING", "WAITING",
                      "REAUTHENTICATING")

reauthenticate(p) ==
    input_observation(p, "REAUTHENTICATING", "WAITING", "REAUTHENTICATING")

Stale(p, observed) == p.input_mono >= 0 /\ observed - p.input_mono > Freshness

\* Mutant: the watchdog forgets the frame but not the readiness.
expire_input_ready(p) ==
    input(interruption([abort(p) EXCEPT !.input_mono = -1],
                       "SOURCE_DISCONTINUITY"),
          "CONNECTED", "STALE", "SOURCE_GAP")

expire_input(p) ==
    input(interruption([abort(p) EXCEPT !.input_mono = -1, !.ready = FALSE],
                       "SOURCE_DISCONTINUITY"),
          "CONNECTED", "STALE", "SOURCE_GAP")
expire_input_thrown(p) == [abort(p) EXCEPT !.input_mono = -1]

stop(p) == [abort(p) EXCEPT !.input_mono = -1, !.ready = FALSE]

\* complete_demo_reset after an accepted command: the capture starts over.
complete_demo_reset(p) ==
    activity([abort(p) EXCEPT !.previous = FALSE, !.ready = FALSE, !.reset = TRUE],
             "WAITING", "RESET")

\* subscription_failure_observation.
FailureObservation(p, code) ==
    CASE code = "KUKSA_AUTH_PENDING" ->
            input_observation(p, "STARTING", "WAITING", "AWAITING_INPUT")
      [] code = "KUKSA_AUTH_UNAVAILABLE" ->
            input_observation(p, "ACCESS_DENIED", "ACCESS_DENIED", "ACCESS_DENIED")
      [] code = "VDP_INCOMPATIBLE" ->
            input_observation(p, "DISCONNECTED", "INVALID", "INVALID_SAMPLE")
      [] OTHER ->
            input_observation(p, "DISCONNECTED", "DISCONNECTED", "TRANSPORT_LOST")

=============================================================================
