--------------------------- MODULE EpisodeProofs ----------------------------
(***************************************************************************)
(* What becomes of the samples of a braking episode.                       *)
(*                                                                         *)
(* - The Kuksa session, for any profiles, contracts and freshness limit    *)
(*   and any number of mishaps: neither the renewal of the token nor the   *)
(*   watchdog's old clock costs an episode.                                *)
(* - The evaluation, for any samples and any limits: an assessment rests   *)
(*   on sound samples only, wears the brake by 4 to 10 points, which is    *)
(*   what BrakeModel assumes of an increment, and does not depend on what  *)
(*   follows the braking.                                                  *)
(* - Its dates: the conversions and the checks of the code agree with the  *)
(*   calendar on every day from the year 1 on.                             *)
(***************************************************************************)
EXTENDS KuksaSession, MCAlgorithms, TLAPS

-----------------------------------------------------------------------------
(* What the operations of Product do to the capture and to the watchdog.    *)

\* Profile and contract stay.
SameProduct(p, q) ==
    q \in Products /\ q.profile = p.profile /\ q.contract = p.contract

\* The episode in progress and the watchdog's frame stay, too.
KeepsCapture(p, q) ==
    SameProduct(p, q) /\ q.phase = p.phase /\ q.input_mono = p.input_mono

\* The episode is given up; the watchdog's frame stays or is forgotten.
EndsCapture(p, q) ==
    SameProduct(p, q) /\ q.phase = "WAITING" /\ q.input_mono \in {p.input_mono, -1}

\* One after the other.
LEMMA InTurn ==
    ASSUME NEW p, NEW q, NEW r
    PROVE  /\ KeepsCapture(p, q) /\ KeepsCapture(q, r) => KeepsCapture(p, r)
           /\ KeepsCapture(p, q) /\ EndsCapture(q, r) => EndsCapture(p, r)
           /\ EndsCapture(p, q) /\ KeepsCapture(q, r) => EndsCapture(p, r)
BY Zenon DEF KeepsCapture, EndsCapture, SameProduct

\* Reporting touches nothing but the report.
LEMMA InputKeeps ==
    ASSUME NEW p \in Products, NEW c \in Connections, NEW s \in InputStates,
           NEW r \in InputReasons
    PROVE  KeepsCapture(p, input(p, c, s, r))
BY Zenon DEF KeepsCapture, SameProduct, Products, input

\* An activity observation changes neither episode nor watchdog.
LEMMA ActivityKeeps ==
    ASSUME NEW p \in Products, NEW w \in ActivityReasons
    PROVE  \A a \in Phases \union {"COMPLETED", "SKIPPED"} :
              KeepsCapture(p, activity(p, a, w))
BY Zenon DEF KeepsCapture, SameProduct, Products, activity

\* Nor does the note that the input was interrupted.
LEMMA InterruptionKeeps ==
    ASSUME NEW p \in Products, NEW w \in ActivityReasons
    PROVE  KeepsCapture(p, interruption(p, w))
<1>1. KeepsCapture(p, p)
  BY Zenon DEF KeepsCapture, SameProduct
<1>2. KeepsCapture(p, activity(p, "SKIPPED", w))
  BY ActivityKeeps, Zenon
<1>. QED  BY <1>1, <1>2, Zenon DEF interruption

\* An interruption, if any, reported with the input.
LEMMA ReportKeeps ==
    ASSUME NEW p \in Products, NEW q, KeepsCapture(p, q),
           NEW c \in Connections, NEW s \in InputStates, NEW r \in InputReasons
    PROVE  KeepsCapture(p, input(q, c, s, r))
<1>1. q \in Products
  BY Zenon DEF KeepsCapture, SameProduct
<1>2. KeepsCapture(q, input(q, c, s, r))
  BY <1>1, InputKeeps, Zenon
<1>. QED  BY <1>2, InTurn, Zenon

\* Nor does an input observation, with the interruption it may note.
LEMMA ObservationKeeps ==
    ASSUME NEW p \in Products, NEW c \in Connections, NEW s \in InputStates,
           NEW r \in InputReasons
    PROVE  KeepsCapture(p, input_observation(p, c, s, r))
<1>. DEFINE reason == IF r = "REAUTHENTICATING" THEN r ELSE "SOURCE_DISCONTINUITY"
            q == IF s = "RECEIVING" THEN p ELSE interruption(p, reason)
<1>1. reason \in ActivityReasons
  BY Zenon DEF ActivityReasons
<1>2. KeepsCapture(p, interruption(p, reason))
  BY <1>1, InterruptionKeeps, Zenon
<1>3. KeepsCapture(p, q)
  BY <1>2, Zenon DEF KeepsCapture, SameProduct
<1>. HIDE DEF q
<1>4. KeepsCapture(p, input(q, c, s, r))
  BY <1>3, ReportKeeps, Zenon
<1>. QED  BY <1>4, Zenon DEF q, input_observation

\* A planned renewal, the answer to the Get and the end of a demo reset leave
\* the episode alone.
LEMMA ReauthenticateKeeps ==
    ASSUME NEW p \in Products
    PROVE  KeepsCapture(p, reauthenticate(p))
<1>1. "REAUTHENTICATING" \in Connections /\ "WAITING" \in InputStates
      /\ "REAUTHENTICATING" \in InputReasons
  BY Zenon DEF Connections, InputStates, InputReasons
<1>. QED  BY <1>1, ObservationKeeps, Zenon DEF reauthenticate

\* The observation of a Get that was answered leaves both alone.
LEMMA AnsweredKeeps ==
    ASSUME NEW p \in Products
    PROVE  KeepsCapture(p, input_observation(p, "CONNECTED", "WAITING", "AWAITING_INPUT"))
<1>1. "CONNECTED" \in Connections /\ "WAITING" \in InputStates
      /\ "AWAITING_INPUT" \in InputReasons
  BY Zenon DEF Connections, InputStates, InputReasons
<1>. QED  BY <1>1, ObservationKeeps, Zenon

\* The end of a demo reset clears its flag and nothing else.
LEMMA ClearKeeps ==
    ASSUME NEW p \in Products
    PROVE  KeepsCapture(p, [p EXCEPT !.reset = FALSE])
BY Zenon DEF Products, KeepsCapture, SameProduct

\* Every operation that gives the episode up.
LEMMA AbortSteps ==
    ASSUME NEW p \in Products
    PROVE  /\ EndsCapture(p, abort(p))
           /\ EndsCapture(p, source_gap(p)) /\ EndsCapture(p, source_gap_thrown(p))
           /\ EndsCapture(p, disconnect(p)) /\ EndsCapture(p, stop(p))
           /\ EndsCapture(p, expire_input(p))
           /\ EndsCapture(p, expire_input_thrown(p))
           /\ EndsCapture(p, complete_demo_reset(p))
<1>0. /\ {"SOURCE_DISCONTINUITY", "RESET"} \subseteq ActivityReasons
      /\ {"CONNECTED", "DISCONNECTED"} \subseteq Connections
      /\ {"INVALID", "DISCONNECTED", "STALE"} \subseteq InputStates
      /\ {"INVALID_SAMPLE", "TRANSPORT_LOST", "SOURCE_GAP"} \subseteq InputReasons
      /\ "WAITING" \in Phases
  BY Zenon DEF Phases, ActivityReasons, Connections, InputStates, InputReasons
<1>. DEFINE Forgets(q) == [q EXCEPT !.input_mono = -1]
            Withdraws(q) == [q EXCEPT !.ready = FALSE]
            Rests(q) == [q EXCEPT !.input_mono = -1, !.ready = FALSE]
<1>1. ASSUME NEW q \in Products PROVE EndsCapture(q, abort(q)) /\ abort(q) \in Products
  BY <1>0, Zenon DEF Products, abort, EndsCapture, SameProduct
<1>2. ASSUME NEW q \in Products PROVE KeepsCapture(q, Withdraws(q))
  BY Zenon DEF Products, KeepsCapture, SameProduct
<1>3. ASSUME NEW q \in Products
      PROVE  /\ SameProduct(q, Forgets(q)) /\ Forgets(q).phase = q.phase
             /\ Forgets(q).input_mono = -1
  BY Zenon DEF Products, SameProduct
<1>4. ASSUME NEW q \in Products
      PROVE  /\ SameProduct(q, Rests(q)) /\ Rests(q).phase = q.phase
             /\ Rests(q).input_mono = -1
  BY Zenon DEF Products, SameProduct
<1>5. ASSUME NEW q \in Products PROVE EndsCapture(q, Forgets(abort(q)))
  BY <1>1, <1>3, Zenon DEF EndsCapture, SameProduct
<1>6. ASSUME NEW q \in Products PROVE EndsCapture(q, Rests(abort(q)))
  BY <1>1, <1>4, Zenon DEF EndsCapture, SameProduct
<1>. HIDE DEF Forgets, Withdraws, Rests
<1>7. ASSUME NEW q \in Products PROVE KeepsCapture(q, interruption(q, "SOURCE_DISCONTINUITY"))
  BY <1>0, InterruptionKeeps, Zenon
<1>8. EndsCapture(p, source_gap_thrown(p)) /\ EndsCapture(p, source_gap(p))
  <2>. DEFINE q == ReportGap(p)
  <2>1. KeepsCapture(p, q)
    BY <1>0, <1>7, ReportKeeps, Zenon DEF ReportGap
  <2>. HIDE DEF q
  <2>2. q \in Products
    BY <2>1, Zenon DEF KeepsCapture, SameProduct
  <2>3. EndsCapture(p, abort(q)) /\ abort(q) \in Products
    BY <1>1, <2>1, <2>2, InTurn, Zenon
  <2>4. EndsCapture(p, Withdraws(abort(q)))
    BY <1>2, <2>3, InTurn, Zenon
  <2>. QED  BY <2>3, <2>4, Zenon DEF q, Withdraws, source_gap, source_gap_thrown
<1>9. EndsCapture(p, disconnect(p))
  <2>. DEFINE q == interruption(p, "SOURCE_DISCONTINUITY")
              r == input(abort(q), "DISCONNECTED", "DISCONNECTED", "TRANSPORT_LOST")
  <2>1. KeepsCapture(p, q) /\ q \in Products
    BY <1>7, Zenon DEF KeepsCapture, SameProduct
  <2>. HIDE DEF q
  <2>2. EndsCapture(p, abort(q)) /\ abort(q) \in Products
    BY <1>1, <2>1, InTurn, Zenon
  <2>3. KeepsCapture(abort(q), r)
    BY <1>0, <2>2, InputKeeps, Zenon
  <2>4. EndsCapture(p, r) /\ r \in Products
    BY <2>2, <2>3, InTurn, Zenon DEF KeepsCapture, SameProduct
  <2>. HIDE DEF r
  <2>5. EndsCapture(p, Rests(r))
    BY <1>4, <2>4, Zenon DEF EndsCapture, SameProduct
  <2>. QED  BY <2>5, Zenon DEF q, r, Rests, disconnect
<1>10. EndsCapture(p, expire_input(p))
  <2>. DEFINE q == Rests(abort(p))
              r == interruption(q, "SOURCE_DISCONTINUITY")
  <2>1. EndsCapture(p, q) /\ q \in Products
    BY <1>6, Zenon DEF EndsCapture, SameProduct
  <2>. HIDE DEF q
  <2>2. KeepsCapture(q, r)
    BY <1>7, <2>1, Zenon
  <2>. HIDE DEF r
  <2>3. KeepsCapture(q, input(r, "CONNECTED", "STALE", "SOURCE_GAP"))
    BY <1>0, <2>1, <2>2, ReportKeeps, Zenon
  <2>4. EndsCapture(p, input(r, "CONNECTED", "STALE", "SOURCE_GAP"))
    BY <2>1, <2>3, InTurn, Zenon
  <2>. QED  BY <2>4, Zenon DEF q, r, Rests, expire_input
<1>11. EndsCapture(p, complete_demo_reset(p))
  <2>. DEFINE q == [abort(p) EXCEPT !.previous = FALSE, !.ready = FALSE, !.reset = TRUE]
  <2>1. KeepsCapture(abort(p), q)
    BY <1>1, Zenon DEF Products, KeepsCapture, SameProduct
  <2>2. EndsCapture(p, q) /\ q \in Products
    BY <1>1, <2>1, InTurn, Zenon DEF KeepsCapture, SameProduct
  <2>. HIDE DEF q
  <2>3. KeepsCapture(q, activity(q, "WAITING", "RESET"))
    BY <1>0, <2>2, ActivityKeeps, Zenon
  <2>. QED  BY <2>2, <2>3, InTurn, Zenon DEF q, complete_demo_reset
<1>12. EndsCapture(p, stop(p)) /\ EndsCapture(p, expire_input_thrown(p))
  BY <1>5, <1>6, Zenon DEF Forgets, Rests, stop, expire_input_thrown
<1>. QED  BY <1>1, <1>8, <1>9, <1>10, <1>11, <1>12, Zenon

\* The failure that main() catches is reported; the capture is closed already.
LEMMA FailureKeeps ==
    ASSUME NEW p \in Products, NEW c
    PROVE  KeepsCapture(p, FailureObservation(p, c))
<1>1. /\ {"STARTING", "ACCESS_DENIED", "DISCONNECTED"} \subseteq Connections
      /\ {"WAITING", "ACCESS_DENIED", "INVALID", "DISCONNECTED"} \subseteq InputStates
      /\ {"AWAITING_INPUT", "ACCESS_DENIED", "INVALID_SAMPLE", "TRANSPORT_LOST"}
            \subseteq InputReasons
  BY Zenon DEF Connections, InputStates, InputReasons
<1>. DEFINE Reports(x, s, r) == input_observation(p, x, s, r)
<1>2. /\ KeepsCapture(p, Reports("STARTING", "WAITING", "AWAITING_INPUT"))
      /\ KeepsCapture(p, Reports("ACCESS_DENIED", "ACCESS_DENIED", "ACCESS_DENIED"))
      /\ KeepsCapture(p, Reports("DISCONNECTED", "INVALID", "INVALID_SAMPLE"))
      /\ KeepsCapture(p, Reports("DISCONNECTED", "DISCONNECTED", "TRANSPORT_LOST"))
  BY <1>1, ObservationKeeps, Zenon
<1>3. CASE c = "KUKSA_AUTH_PENDING"
  BY <1>2, <1>3, Zenon DEF FailureObservation
<1>4. CASE c = "KUKSA_AUTH_UNAVAILABLE"
  BY <1>2, <1>4, Zenon DEF FailureObservation
<1>5. CASE c = "VDP_INCOMPATIBLE"
  BY <1>2, <1>5, Zenon DEF FailureObservation
<1>6. CASE c \notin {"KUKSA_AUTH_PENDING", "KUKSA_AUTH_UNAVAILABLE", "VDP_INCOMPATIBLE"}
  BY <1>2, <1>6, Zenon DEF FailureObservation
<1>. QED  BY <1>3, <1>4, <1>5, <1>6, Zenon

\* update_metadata() gives the episode up only for another contract.
LEMMA MetadataSteps ==
    ASSUME NEW p \in Products, NEW c \in Contracts
    PROVE  /\ update_metadata(p, c) \in Products
           /\ update_metadata(p, c).contract = c
           /\ update_metadata(p, c).profile = p.profile
           /\ update_metadata(p, c).input_mono = p.input_mono
           /\ p.contract = c => update_metadata(p, c) = p
<1>1. CASE p.contract = c
  BY <1>1, Zenon DEF update_metadata
<1>2. CASE p.contract # c
  <2>. DEFINE q == [p EXCEPT !.phase = "WAITING"]
  <2>1. /\ q \in Products /\ q.profile = p.profile /\ q.input_mono = p.input_mono
    BY Zenon DEF Products, Phases
  <2>2. q = abort(p)
    BY Zenon DEF abort
  <2>. HIDE DEF q
  <2>3. update_metadata(p, c) = [q EXCEPT !.contract = c, !.previous = FALSE, !.ready = FALSE]
    BY <1>2, <2>2, Zenon DEF update_metadata
  <2>4. \A r \in Products :
           LET u == [r EXCEPT !.contract = c, !.previous = FALSE, !.ready = FALSE]
           IN  /\ u \in Products /\ u.contract = c /\ u.profile = r.profile
               /\ u.input_mono = r.input_mono
    BY Zenon DEF Products
  <2>. QED  BY <1>2, <2>1, <2>3, <2>4, Zenon
<1>. QED  BY <1>1, <1>2, Zenon

\* What a valid frame makes of the episode: one that ends is completed or
\* skipped.
LEMMA ProgressEnds ==
    ASSUME NEW p \in Products, NEW s \in Progress(p) \union Refused(p)
    PROVE  /\ s[1] \in Phases
           /\ s[2] \in (Phases \union {"COMPLETED", "SKIPPED"}) \X ActivityReasons
           /\ p.phase \in Capturing /\ s[1] = "WAITING" => s[2][1] \in {"COMPLETED", "SKIPPED"}
<1>. DEFINE Outcome(t) ==
              /\ t[1] \in Phases
              /\ t[2] \in (Phases \union {"COMPLETED", "SKIPPED"}) \X ActivityReasons
              /\ p.phase \in Capturing /\ t[1] = "WAITING"
                    => t[2][1] \in {"COMPLETED", "SKIPPED"}
<1>1. ASSUME NEW after \in IF p.phase = "WAITING" THEN {"WAITING", "ACTIVE"} ELSE Capturing
      PROVE  Outcome(<<after, <<after, IF after = "WAITING" THEN "NOT_QUALIFIED" ELSE "NONE">>>>)
  BY <1>1, Zenon DEF Phases, Capturing, ActivityReasons
<1>2. \A r \in ActivityReasons : Outcome(<<"WAITING", <<"SKIPPED", r>>>>)
  BY Zenon DEF Phases
<1>3. Outcome(<<"WAITING", <<"COMPLETED", "NONE">>>>)
  BY Zenon DEF Phases, ActivityReasons
<1>4. {"SOURCE_DISCONTINUITY", "NOT_QUALIFIED", "STORAGE_UNAVAILABLE"} \subseteq ActivityReasons
  BY Zenon DEF ActivityReasons
<1>5. p.phase \notin Capturing => Outcome(<<"WAITING", p.activity>>)
  BY Zenon DEF Products, Phases
<1>6. CASE s \in Progress(p)
  BY <1>1, <1>2, <1>3, <1>4, <1>6 DEF Progress
<1>7. CASE s \in Refused(p) /\ p.profile = "V1"
  BY <1>2, <1>4, <1>5, <1>7, Zenon DEF Refused
<1>8. CASE s \in Refused(p) /\ p.profile # "V1"
  BY <1>6, <1>8, Zenon DEF Refused
<1>. QED  BY <1>6, <1>7, <1>8, Zenon

\* A step of the capture engine.
Stepped(p, s) == [p EXCEPT !.previous = TRUE, !.phase = s[1], !.activity = s[2]]

\* A step of the capture sets phase and activity and leaves the watchdog's frame.
LEMMA SteppedFields ==
    ASSUME NEW p \in Products, NEW s \in Progress(p) \union Refused(p)
    PROVE  /\ SameProduct(p, Stepped(p, s))
           /\ Stepped(p, s).input_mono = p.input_mono
           /\ Stepped(p, s).phase = s[1] /\ Stepped(p, s).activity = s[2]
<1>1. /\ s[1] \in Phases
      /\ s[2] \in (Phases \union {"COMPLETED", "SKIPPED"}) \X ActivityReasons
  BY ProgressEnds, Zenon
<1>. QED  BY <1>1, Zenon DEF Products, SameProduct, Stepped

\* An accepted frame ends an episode only by completing or by skipping it.
LEMMA ProcessSteps ==
    ASSUME NEW p \in Products, NEW m \in Nat, NEW q \in Process(p, m)
    PROVE  /\ SameProduct(p, q) /\ q.input_mono \in {p.input_mono, m}
           /\ p.phase \in Capturing /\ q.phase = "WAITING"
                 => q.activity[1] \in {"COMPLETED", "SKIPPED"}
<1>1. ASSUME NEW r \in Products
      PROVE  /\ SameProduct(r, [r EXCEPT !.ready = FALSE])
             /\ [r EXCEPT !.ready = FALSE].input_mono = r.input_mono
             /\ [r EXCEPT !.ready = FALSE].phase = r.phase
             /\ [r EXCEPT !.ready = FALSE].activity = r.activity
  BY Zenon DEF Products, SameProduct
<1>2. ASSUME NEW r \in Products
      PROVE  LET u == [r EXCEPT !.ready = TRUE, !.input_mono = m]
             IN  /\ SameProduct(r, u) /\ u.input_mono = m
                 /\ u.phase = r.phase /\ u.activity = r.activity
  BY Zenon DEF Products, SameProduct
<1>3. ASSUME NEW r \in Products
      PROVE  LET u == input(r, "CONNECTED", "RECEIVING", "NONE")
             IN  /\ SameProduct(r, u) /\ u.input_mono = r.input_mono
                 /\ u.phase = r.phase /\ u.activity = r.activity
  <2>1. "CONNECTED" \in Connections /\ "RECEIVING" \in InputStates /\ "NONE" \in InputReasons
    BY Zenon DEF Connections, InputStates, InputReasons
  <2>. QED  BY <2>1, Zenon DEF Products, SameProduct, input
<1>4. PICK s \in Progress(p) \union Refused(p) :
         \/ q = input([Stepped(p, s) EXCEPT !.ready = TRUE, !.input_mono = m],
                      "CONNECTED", "RECEIVING", "NONE")
         \/ q = [Stepped(p, s) EXCEPT !.ready = FALSE]
  BY Zenon DEF Process, Stepped
<1>. DEFINE r == Stepped(p, s)
<1>5. /\ SameProduct(p, r) /\ r.input_mono = p.input_mono
      /\ r.phase = s[1] /\ r.activity = s[2]
  BY SteppedFields, Zenon
<1>6. p.phase \in Capturing /\ r.phase = "WAITING" => r.activity[1] \in {"COMPLETED", "SKIPPED"}
  BY <1>5, ProgressEnds, Zenon
<1>. HIDE DEF r
<1>7. r \in Products
  BY <1>5, Zenon DEF SameProduct
<1>8. CASE q = [r EXCEPT !.ready = FALSE]
  BY <1>1, <1>5, <1>6, <1>7, <1>8, Zenon DEF SameProduct
<1>9. CASE q = input([r EXCEPT !.ready = TRUE, !.input_mono = m],
                     "CONNECTED", "RECEIVING", "NONE")
  <2>. DEFINE u == [r EXCEPT !.ready = TRUE, !.input_mono = m]
  <2>1. SameProduct(r, u) /\ u.input_mono = m /\ u.phase = r.phase /\ u.activity = r.activity
    BY <1>2, <1>7, Zenon
  <2>. HIDE DEF u
  <2>2. u \in Products
    BY <2>1, Zenon DEF SameProduct
  <2>3. /\ SameProduct(u, q) /\ q.input_mono = m
        /\ q.phase = r.phase /\ q.activity = r.activity
    BY <1>3, <1>9, <2>1, <2>2, Zenon DEF u
  <2>. QED  BY <1>5, <1>6, <2>1, <2>3, Zenon DEF SameProduct
<1>. QED  BY <1>4, <1>8, <1>9, Zenon DEF r

\* ingest(), when it returns and when it throws.
LEMMA IngestSteps ==
    ASSUME NEW p \in Products, NEW m \in Nat, NEW v \in {"gap", "processed", "dropped"},
           NEW q \in ingest(p, v, m)
    PROVE  /\ SameProduct(p, q) /\ q.input_mono \in {p.input_mono, -1, m}
           /\ v # "gap" /\ p.phase \in Capturing /\ q.phase = "WAITING"
                 => q.activity[1] \in {"COMPLETED", "SKIPPED"}
<1>1. CASE v = "gap"
  <2>1. q = source_gap(p)
    BY <1>1, Zenon DEF ingest
  <2>. QED  BY <1>1, <2>1, AbortSteps, Zenon DEF EndsCapture
<1>2. CASE v = "processed"
  <2>1. q \in Process(p, m)
    BY <1>2, Zenon DEF ingest
  <2>. QED  BY <2>1, ProcessSteps, Zenon
<1>3. CASE v = "dropped"
  <2>1. q = p
    BY <1>3, Zenon DEF ingest
  <2>2. p.phase \in Capturing => p.phase # "WAITING"
    BY Zenon DEF Capturing
  <2>. QED  BY <2>1, <2>2, Zenon DEF SameProduct
<1>. QED  BY <1>1, <1>2, <1>3, Zenon

\* ingest() that throws keeps profile and contract and sets no new frame.
LEMMA IngestThrowSteps ==
    ASSUME NEW p \in Products, NEW v \in {"gap", "processed", "dropped"},
           NEW q \in ingest_thrown(p, v)
    PROVE  SameProduct(p, q) /\ q.input_mono \in {p.input_mono, -1}
<1>1. CASE v = "gap"
  <2>1. q = source_gap_thrown(p)
    BY <1>1, Zenon DEF ingest_thrown
  <2>. QED  BY <2>1, AbortSteps, Zenon DEF EndsCapture
<1>2. CASE v = "processed"
  <2>1. PICK s \in Progress(p) :
           q = [p EXCEPT !.previous = TRUE, !.phase = s[1],
                         !.ready = p.ready \/ p.profile # "V1"]
    BY <1>2, Zenon DEF ingest_thrown
  <2>2. s[1] \in Phases
    BY ProgressEnds, Zenon
  <2>3. (p.ready \/ p.profile # "V1") \in BOOLEAN
    BY Zenon
  <2>. QED  BY <2>1, <2>2, <2>3, Zenon DEF Products, SameProduct
<1>3. CASE v = "dropped"
  BY <1>3, Zenon DEF ingest_thrown
<1>. QED  BY <1>1, <1>2, <1>3, Zenon

-----------------------------------------------------------------------------
(* The invariants.                                                         *)

Rpcs == {"none", "get", "stream"}
Statuses == {"OK", "CANCELLED", "UNAVAILABLE", "PERMISSION_DENIED"}
WorkerPlaces == {"start", "update", "session"}

\* Clocks and files, what the threads have read of them, and the product.
Typed ==
    /\ now \in Nat /\ mono \in Nat /\ newest \in {-1} \union Nat
    /\ observed \in Nat /\ observed <= now
    /\ file \in SUBSET Nat /\ issued \in Nat
    /\ metadata \in Contracts /\ stopping \in BOOLEAN
    /\ product \in Products
    /\ session \in [token : Nat, metadata : Contracts]
    /\ rpc \in Rpcs \X Statuses /\ cancelled \in BOOLEAN
    /\ cause \in {None, TokenReplaced, Unavailable} /\ invalid \in BOOLEAN
    /\ read \in [{"session", "watcher"} -> SUBSET Nat]
    /\ worker \in WorkerPlaces \X Contracts
    /\ happened \subseteq {"storage", "other"}

\* The watchdog measures from the newest valid frame.
Watched == product.input_mono >= 0 => newest = product.input_mono

\* While tokens were only replaced: every thread works with the one contract,
\* the only reason to end a session is a replaced token, and before the first
\* token there is neither a session nor an episode.
OnlyRenewals ==
    /\ ~stopping
    /\ product.contract = metadata /\ session.metadata = metadata
    /\ worker[2] = metadata
    /\ cause # Unavailable
    /\ invalid \/ cancelled => cause = TokenReplaced
    /\ file = {} => /\ product.phase = "WAITING" /\ watcher = "none"
                    /\ pc \in {"start", "update", "token", "failed"}
    /\ pc \notin {"leave", "ended", "stopped", "exited"}
    /\ pc = "failed" => product.phase = "WAITING" /\ watcher = "none"
    /\ pc \in {"read", "inspect", "classify"} =>
          rpc[2] = "CANCELLED" /\ cause = TokenReplaced
    /\ pc = "inspect" => read["session"] # {}
    /\ watcher = "inspect" => read["watcher"] # {}

SessionInv == Typed /\ Watched /\ (happened = {} => OnlyRenewals)

\* What happens is remembered; only a renewal leaves no trace.
LEMMA HappensFacts ==
    ASSUME happened \subseteq {"storage", "other"}, NEW kind, Happens(kind)
    PROVE  /\ happened' \subseteq {"storage", "other"}
           /\ happened' = {} => happened = {} /\ kind = "renew"
BY Zenon DEF Happens

\* Whatever a verdict, it is one of three.
LEMMA VerdictRange ==
    ASSUME NEW v \in Verdicts
    PROVE  v \in {"gap", "processed", "dropped"}
BY Zenon DEF Verdicts, Verdict

\* The product after a step of any thread, with the newest valid frame: it is
\* forgotten, it stays, or it is the one ingested now.
ProductStep ==
    /\ product' \in Products
    /\ \/ product'.input_mono \in {product.input_mono, -1} /\ newest' = newest
       \/ newest' = IF product'.input_mono >= 0 /\ product'.input_mono # product.input_mono
                    THEN product'.input_mono ELSE newest

\* The steps that are an operation of Product.
LEMMA OperationSteps ==
    ASSUME product \in Products, session.metadata \in Contracts,
           worker[2] \in Contracts, mono \in Nat
    PROVE  /\ Update \/ WorkerUpdate \/ Leave \/ Turn \/ Shutdown => ProductStep
           /\ UpdateThrows \/ LeaveThrows \/ TurnThrows => ProductStep
           /\ GetAnswered \/ WatchExpire \/ WatchExpireThrows => ProductStep
           /\ Ingest \/ IngestThrows \/ Outside => ProductStep
<1>. DEFINE Kept(q) == q \in Products /\ q.input_mono \in {product.input_mono, -1}
<1>1. ASSUME NEW q, KeepsCapture(product, q) \/ EndsCapture(product, q) PROVE Kept(q)
  BY <1>1, Zenon DEF KeepsCapture, EndsCapture, SameProduct
<1>2. ASSUME Kept(product'), newest' = newest PROVE ProductStep
  BY <1>2, Zenon DEF ProductStep
<1>3. Kept(product)
  BY Zenon
<1>4. \A c \in Contracts : Kept(update_metadata(product, c))
  BY MetadataSteps, Zenon
<1>5. /\ Kept(abort(product)) /\ Kept(disconnect(product)) /\ Kept(stop(product))
      /\ Kept(expire_input(product)) /\ Kept(expire_input_thrown(product))
      /\ Kept(complete_demo_reset(product))
  BY <1>1, AbortSteps, Zenon
<1>6. Kept(FailureObservation(disconnect(product), code))
  <2>1. EndsCapture(product, disconnect(product)) /\ disconnect(product) \in Products
    BY AbortSteps, Zenon DEF EndsCapture, SameProduct
  <2>2. KeepsCapture(disconnect(product), FailureObservation(disconnect(product), code))
    BY <2>1, FailureKeeps, Zenon
  <2>. QED  BY <1>1, <2>1, <2>2, InTurn, Zenon
<1>7. Kept(reauthenticate(product))
  BY <1>1, ReauthenticateKeeps, Zenon
<1>8. Kept(input_observation(product, "CONNECTED", "WAITING", "AWAITING_INPUT"))
  BY <1>1, AnsweredKeeps, Zenon
<1>9. Kept([product EXCEPT !.reset = FALSE])
  BY <1>1, ClearKeeps, Zenon
<1>. HIDE DEF Kept
<1>10. CASE Update \/ WorkerUpdate \/ Leave \/ Turn \/ Shutdown
  BY <1>2, <1>3, <1>4, <1>5, <1>6, <1>7, <1>10, Zenon
     DEF Update, WorkerUpdate, Leave, Turn, Shutdown
<1>11. CASE UpdateThrows \/ LeaveThrows \/ TurnThrows
  BY <1>2, <1>5, <1>11, Zenon DEF UpdateThrows, LeaveThrows, TurnThrows
<1>12. CASE GetAnswered \/ WatchExpire \/ WatchExpireThrows
  BY <1>2, <1>3, <1>5, <1>8, <1>12, Zenon DEF GetAnswered, WatchExpire, WatchExpireThrows
<1>13. CASE Ingest
  <2>1. PICK v \in Verdicts : product' \in ingest(product, v, mono)
    BY <1>13, Zenon DEF Ingest
  <2>2. product' \in Products
    BY <2>1, VerdictRange, IngestSteps, Zenon DEF SameProduct
  <2>. QED  BY <1>13, <2>2, Zenon DEF Ingest, ProductStep
<1>14. CASE IngestThrows
  <2>1. PICK v \in Verdicts : product' \in ingest_thrown(product, v)
    BY <1>14, Zenon DEF IngestThrows
  <2>2. Kept(product')
    BY <2>1, VerdictRange, IngestThrowSteps, Zenon DEF SameProduct, Kept
  <2>. QED  BY <1>2, <1>14, <2>2, Zenon DEF IngestThrows
<1>15. CASE Outside
  BY <1>2, <1>3, <1>5, <1>9, <1>15, Zenon DEF Outside, files
<1>. QED  BY <1>10, <1>11, <1>12, <1>13, <1>14, <1>15, Zenon

\* Every step of the system but the stuttering ones.
Operations ==
    \/ Update \/ WorkerUpdate \/ Leave \/ Turn \/ Shutdown
    \/ UpdateThrows \/ LeaveThrows \/ TurnThrows
    \/ GetAnswered \/ WatchExpire \/ WatchExpireThrows
    \/ Ingest \/ IngestThrows \/ Outside

Elsewhere ==
    \/ ReadMetadata \/ ReadToken
    \/ make_context("connect", "get", "get")
    \/ make_context("subscribe", "stream", "stream")
    \/ GetIncompatible \/ RpcCancelled \/ RpcFails \/ StreamUpdate
    \/ ReadTokenAgain \/ Inspect \/ Classify
    \/ WatchRead \/ WatchInspect \/ WatchCancel \/ WatchSample
    \/ WorkerRead \/ WorkerEnd \/ Tick

\* A step either runs an operation of Product or is one elsewhere.
LEMMA NextSplit == Next => Operations \/ Elsewhere
BY Zenon DEF Next, MainStep, WatcherStep, WorkerStep, Operations, Elsewhere

\* Steps elsewhere leave Product alone.
LEMMA ElsewhereKeeps == Elsewhere => UNCHANGED <<product, newest>>
BY Zenon DEF Elsewhere, ReadMetadata, ReadToken, make_context, GetIncompatible,
   RpcCancelled, RpcFails, RpcEnds, StreamUpdate, ReadTokenAgain, Inspect, Classify,
   WatchRead, WatchInspect, WatchCancel, WatchSample, WorkerRead, WorkerEnd, Tick

\* The product and the newest frame stay typed and in step.
LEMMA ProductTyped ==
    ASSUME Typed, Watched, [Next]_vars
    PROVE  product' \in Products /\ newest' \in {-1} \union Nat /\ Watched'
<1>0. /\ product \in Products /\ newest \in {-1} \union Nat
      /\ mono \in Nat /\ session.metadata \in Contracts /\ worker[2] \in Contracts
  BY Zenon DEF Typed
<1>1. CASE Operations
  <2>1. ProductStep
    BY <1>0, <1>1, OperationSteps, Zenon DEF Operations
  <2>2. product' \in Products
    BY <2>1, Zenon DEF ProductStep
  <2>3. product.input_mono \in {-1} \union Nat /\ product'.input_mono \in {-1} \union Nat
    BY <1>0, <2>2, Zenon DEF Products
  <2>. QED  BY <1>0, <2>1, <2>2, <2>3 DEF ProductStep, Watched
<1>2. CASE Elsewhere
  BY <1>0, <1>2, ElsewhereKeeps, Zenon DEF Watched
<1>3. CASE UNCHANGED vars
  BY <1>0, <1>3, Zenon DEF vars, Watched
<1>. QED  BY <1>1, <1>2, <1>3, NextSplit, Zenon

\* What a step can make of each variable.
ClocksChange ==
    /\ now' \in {now, now + 1} /\ mono' \in {mono, now, 0}
    /\ observed' \in {observed, 0} \/ (observed' = now /\ now' = now)

FilesChange ==
    /\ file' \in {file, {}, {issued + 1}} /\ issued' \in {issued, issued + 1}
    /\ metadata' \in {metadata} \union Contracts /\ stopping' \in {stopping, TRUE}

SessionChange ==
    \/ session' \in {session, [session EXCEPT !.metadata = metadata]}
    \/ file # {} /\ session' = [session EXCEPT !.token = CHOOSE t \in file : TRUE]

ReadChange ==
    read' = read \/ \E t \in {"session", "watcher"}, f \in {file, {}} :
                       read' = [read EXCEPT ![t] = f]

WorkerChange ==
    worker' \in {worker, <<"update", metadata>>, <<"session", worker[2]>>,
                 <<"start", worker[2]>>}

RpcChange ==
    \/ rpc' \in {rpc, <<"none", "OK">>, <<"get", "OK">>, <<"stream", "OK">>}
    \/ \E st \in Statuses : rpc' = [rpc EXCEPT ![2] = st]

CauseChange ==
    /\ cancelled' \in {cancelled, FALSE, TRUE, invalid, cancelled \/ Cancels}
    /\ invalid' \in {invalid, FALSE, TRUE, invalid \/ Cancels}
    /\ \/ cause' \in {cause, None, Unavailable} \/ observe(Unavailable)
       \/ \E t \in {"session", "watcher"} : observe(inspect_session_inputs(t))

HistoryChange == happened' = happened \/ \E k : Happens(k)

\* What a step can make of each variable.
LEMMA Changes ==
    ASSUME [Next]_vars
    PROVE  /\ ClocksChange /\ FilesChange /\ SessionChange /\ ReadChange
           /\ WorkerChange /\ RpcChange /\ CauseChange /\ HistoryChange
<1>. USE DEF Next, MainStep, WatcherStep, WorkerStep, ReadMetadata, Update, UpdateThrows,
     ReadToken, make_context, GetAnswered, GetIncompatible, RpcCancelled, RpcFails, RpcEnds,
     StreamUpdate, Ingest, IngestThrows, ReadTokenAgain, Inspect, Classify, Leave,
     LeaveThrows, Turn, TurnThrows, Shutdown, WatchRead, WatchInspect, WatchCancel,
     WatchSample, WatchExpire, WatchExpireThrows, WorkerRead, WorkerUpdate, WorkerEnd,
     Outside, Tick, Throw, vars, files, control, interruption_vars, watching, history
<1>1. now' \in {now, now + 1}
  BY Zenon
<1>2. mono' \in {mono, now, 0}
  BY Zenon
<1>3. observed' \in {observed, 0} \/ (observed' = now /\ now' = now)
  BY Zenon
<1>4. file' \in {file, {}, {issued + 1}} /\ issued' \in {issued, issued + 1}
  BY Zenon
<1>5. metadata' \in {metadata} \union Contracts /\ stopping' \in {stopping, TRUE}
  BY Zenon
<1>6. SessionChange
  BY Zenon DEF SessionChange
<1>7. ReadChange
  BY Zenon DEF ReadChange
<1>8. WorkerChange
  BY Zenon DEF WorkerChange
<1>9. RpcChange
  BY Zenon DEF RpcChange, Statuses
<1>10. CauseChange
  <2>1. cancelled' \in {cancelled, FALSE, TRUE, invalid, cancelled \/ Cancels}
    BY Zenon
  <2>2. invalid' \in {invalid, FALSE, TRUE, invalid \/ Cancels}
    BY Zenon
  <2>3. \/ cause' \in {cause, None, Unavailable} \/ observe(Unavailable)
        \/ \E t \in {"session", "watcher"} : observe(inspect_session_inputs(t))
    BY Zenon
  <2>. QED  BY ONLY <2>1, <2>2, <2>3, Zenon DEF CauseChange
<1>11. HistoryChange
  BY Zenon DEF HistoryChange
<1>. HIDE DEF Next, vars
<1>12. ClocksChange
  BY ONLY <1>1, <1>2, <1>3, Zenon DEF ClocksChange
<1>13. FilesChange
  BY ONLY <1>4, <1>5, Zenon DEF FilesChange
<1>. QED
  BY ONLY <1>6, <1>7, <1>8, <1>9, <1>10, <1>11, <1>12, <1>13, Zenon

\* Every step keeps the types.
LEMMA TypedStep ==
    ASSUME Typed, Watched, [Next]_vars
    PROVE  Typed' /\ Watched'
<1>1. product' \in Products /\ newest' \in {-1} \union Nat /\ Watched'
  BY ProductTyped, Zenon
<1>2. now' \in Nat /\ mono' \in Nat /\ observed' \in Nat /\ observed' <= now'
  <2>1. ClocksChange
    BY Changes, Zenon
  <2>2. now \in Nat /\ mono \in Nat /\ observed \in Nat /\ observed <= now
    BY Zenon DEF Typed
  <2>. QED  BY ONLY <2>1, <2>2, SMT DEF ClocksChange
<1>3. file' \in SUBSET Nat /\ issued' \in Nat /\ metadata' \in Contracts
      /\ stopping' \in BOOLEAN
  <2>1. FilesChange
    BY Changes, Zenon
  <2>2. file \in SUBSET Nat /\ issued \in Nat /\ metadata \in Contracts
        /\ stopping \in BOOLEAN
    BY Zenon DEF Typed
  <2>3. file' \in SUBSET Nat /\ issued' \in Nat
    BY ONLY <2>1, <2>2, SMT DEF FilesChange
  <2>4. metadata' \in Contracts /\ stopping' \in BOOLEAN
    BY ONLY <2>1, <2>2, Zenon DEF FilesChange
  <2>. QED  BY <2>3, <2>4, Zenon
<1>4. session' \in [token : Nat, metadata : Contracts]
  <2>1. SessionChange
    BY Changes, Zenon
  <2>2. file # {} => (CHOOSE t \in file : TRUE) \in Nat
    BY Zenon DEF Typed
  <2>. QED  BY <2>1, <2>2, Zenon DEF Typed, SessionChange
<1>5. read' \in [{"session", "watcher"} -> SUBSET Nat]
  <2>1. ReadChange /\ file \in SUBSET Nat /\ {} \in SUBSET Nat
    BY Changes, Zenon DEF Typed
  <2>. QED  BY <2>1, Zenon DEF Typed, ReadChange
<1>6. worker' \in WorkerPlaces \X Contracts
  <2>1. WorkerChange /\ worker \in WorkerPlaces \X Contracts /\ metadata \in Contracts
    BY Changes, Zenon DEF Typed
  <2>. QED  BY ONLY <2>1, SMT DEF WorkerChange, WorkerPlaces
<1>7. rpc' \in Rpcs \X Statuses
  <2>1. RpcChange /\ rpc \in Rpcs \X Statuses
    BY Changes, Zenon DEF Typed
  <2>. QED  BY ONLY <2>1, SMT DEF RpcChange, Rpcs, Statuses
<1>8. cancelled' \in BOOLEAN /\ invalid' \in BOOLEAN
  <2>1. CauseChange /\ cancelled \in BOOLEAN /\ invalid \in BOOLEAN
    BY Changes, Zenon DEF Typed
  <2>. QED  BY ONLY <2>1, Zenon DEF CauseChange, Cancels
<1>9. cause' \in {None, TokenReplaced, Unavailable}
  BY Changes, Zenon DEF Typed, CauseChange, observe, inspect_session_inputs
<1>10. happened' \subseteq {"storage", "other"}
  BY Changes, HappensFacts, Zenon DEF Typed, HistoryChange
<1>. QED
  BY <1>1, <1>2, <1>3, <1>4, <1>5, <1>6, <1>7, <1>8, <1>9, <1>10, Zenon DEF Typed

\* The invariants hold at the start.
LEMMA SessionInit ==
    ASSUME Contracts # {}, Init
    PROVE  SessionInv
<1>1. metadata \in Contracts
  BY Zenon DEF Init
<1>2. PICK p \in Profiles : product = NewProduct(p, metadata)
  BY Zenon DEF Init
<1>3. /\ product \in Products /\ product.phase = "WAITING" /\ product.input_mono = -1
      /\ product.contract = metadata
  <2>1. /\ "STARTING" \in Connections /\ "WAITING" \in Phases
        /\ "NOT_QUALIFIED" \in ActivityReasons
        /\ "WAITING" \in InputStates /\ "AWAITING_INPUT" \in InputReasons
    BY Zenon DEF Connections, Phases, ActivityReasons, InputStates, InputReasons
  <2>. QED  BY <1>1, <1>2, <2>1, Zenon DEF Products, NewProduct
<1>4. Typed
  <2>1. /\ now \in Nat /\ mono \in Nat /\ newest \in {-1} \union Nat
        /\ observed \in Nat /\ observed <= now
        /\ file \in SUBSET Nat /\ issued \in Nat
    BY DEF Init
  <2>2. /\ session \in [token : Nat, metadata : Contracts]
        /\ rpc \in Rpcs \X Statuses /\ worker \in WorkerPlaces \X Contracts
    BY <1>1 DEF Init, Rpcs, Statuses, WorkerPlaces
  <2>3. /\ stopping \in BOOLEAN /\ cancelled \in BOOLEAN /\ invalid \in BOOLEAN
        /\ cause \in {None, TokenReplaced, Unavailable}
        /\ happened \subseteq {"storage", "other"}
    BY Zenon DEF Init
  <2>4. read \in [{"session", "watcher"} -> SUBSET Nat]
    BY Zenon DEF Init
  <2>. QED  BY <1>1, <1>3, <2>1, <2>2, <2>3, <2>4, Zenon DEF Typed
<1>5. Watched
  BY <1>3 DEF Watched
<1>6. OnlyRenewals
  BY <1>3 DEF Init, OnlyRenewals, None, TokenReplaced, Unavailable
<1>. QED  BY <1>4, <1>5, <1>6, Zenon DEF SessionInv

\* A renewal leaves the token file with a token; nothing else touches the files.
LEMMA RenewalFiles ==
    ASSUME happened \subseteq {"storage", "other"}, happened' = {}, [Next]_vars
    PROVE  /\ happened = {}
           /\ metadata' = metadata /\ stopping' = stopping
           /\ file' = file \/ (Outside /\ file' = {issued + 1})
<1>1. \A k : Happens(k) => k = "renew" /\ happened = {}
  BY HappensFacts, Zenon
<1>2. happened = {}
  BY <1>1, Changes, Zenon DEF HistoryChange
<1>3. CASE Outside
  <2>1. /\ ~Happens("remove") /\ ~Happens("publish") /\ ~Happens("stop")
        /\ ~Happens("reset")
    BY <1>1
  <2>. QED  BY <1>2, <1>3, <2>1, Zenon DEF Outside, files
<1>4. CASE ~Outside
  BY <1>2, <1>4, Zenon DEF Next, MainStep, WatcherStep, WorkerStep, ReadMetadata, Update,
     UpdateThrows, ReadToken, make_context, GetAnswered, GetIncompatible, RpcCancelled,
     RpcFails, RpcEnds, StreamUpdate, Ingest, IngestThrows, ReadTokenAgain, Inspect,
     Classify, Leave, LeaveThrows, Turn, TurnThrows, Shutdown, WatchRead, WatchInspect,
     WatchCancel, WatchSample, WatchExpire, WatchExpireThrows, WorkerRead, WorkerUpdate,
     WorkerEnd, Tick, vars, files
<1>. QED  BY <1>3, <1>4, Zenon

\* The steps there are while tokens are only replaced.
RenewalSteps ==
    \/ ReadMetadata \/ Update \/ ReadToken
    \/ make_context("connect", "get", "get")
    \/ make_context("subscribe", "stream", "stream")
    \/ GetAnswered \/ RpcCancelled \/ StreamUpdate \/ Ingest
    \/ ReadTokenAgain \/ Inspect \/ Classify \/ Turn
    \/ WatchRead \/ WatchInspect \/ WatchCancel \/ WatchSample \/ WatchExpire
    \/ WorkerRead \/ WorkerUpdate \/ WorkerEnd \/ Outside \/ Tick
    \/ UNCHANGED vars

\* While nothing but renewals happens, only these steps are possible.
LEMMA RenewalNext ==
    ASSUME happened \subseteq {"storage", "other"}, happened' = {}, OnlyRenewals,
           [Next]_vars
    PROVE  RenewalSteps
<1>1. \A k : Happens(k) => k = "renew"
  BY HappensFacts, Zenon
<1>2. pc # "leave" /\ ~stopping
  BY Zenon DEF OnlyRenewals
<1>. QED
  BY <1>1, <1>2, Zenon DEF Next, MainStep, WatcherStep, WorkerStep, UpdateThrows, GetIncompatible,
     RpcFails, IngestThrows, Leave, LeaveThrows, TurnThrows, Shutdown, WatchExpireThrows,
     RenewalSteps

\* While tokens are only replaced, the product keeps its contract, and an
\* episode ends only in ingest(), in the handler of a failure, or by expiry.
LEMMA RenewalProduct ==
    ASSUME Typed, OnlyRenewals, happened' = {}, [Next]_vars
    PROVE  /\ product'.contract = product.contract
           /\ \/ product'.phase = product.phase
              \/ Ingest \/ (Turn /\ pc = "failed" /\ product'.phase = "WAITING")
              \/ (WatchExpire /\ Expires /\ product'.phase = "WAITING")
<1>0. /\ product \in Products /\ mono \in Nat
      /\ happened \subseteq {"storage", "other"}
      /\ session.metadata = product.contract /\ worker[2] = product.contract
      /\ product.contract \in Contracts
  BY Zenon DEF Typed, OnlyRenewals
<1>1. RenewalSteps
  BY <1>0, RenewalNext, Zenon
<1>2. ASSUME KeepsCapture(product, product')
      PROVE  product'.contract = product.contract /\ product'.phase = product.phase
  BY <1>2, Zenon DEF KeepsCapture, SameProduct
<1>3. CASE Update \/ WorkerUpdate
  <2>1. update_metadata(product, product.contract) = product
    BY <1>0, MetadataSteps, Zenon
  <2>2. product' = product
    BY <1>0, <1>3, <2>1, Zenon DEF Update, WorkerUpdate
  <2>. QED  BY <2>2, Zenon
<1>4. CASE GetAnswered
  BY <1>0, <1>2, <1>4, AnsweredKeeps, Zenon DEF GetAnswered
<1>5. CASE Ingest
  <2>1. PICK v \in Verdicts : product' \in ingest(product, v, mono)
    BY <1>5, Zenon DEF Ingest
  <2>2. SameProduct(product, product')
    BY <1>0, <2>1, VerdictRange, IngestSteps, Zenon
  <2>. QED  BY <1>5, <2>2, Zenon DEF SameProduct
<1>6. CASE Turn
  <2>1. CASE pc = "reauthenticate" /\ product' = reauthenticate(product)
    BY <1>0, <1>2, <2>1, ReauthenticateKeeps, Zenon
  <2>2. CASE pc = "failed" /\ product' = FailureObservation(disconnect(product), code)
    <3>1. EndsCapture(product, disconnect(product)) /\ disconnect(product) \in Products
      BY <1>0, AbortSteps, Zenon DEF EndsCapture, SameProduct
    <3>2. KeepsCapture(disconnect(product), product')
      BY <2>2, <3>1, FailureKeeps, Zenon
    <3>3. EndsCapture(product, product')
      BY <3>1, <3>2, InTurn, Zenon
    <3>. QED  BY <1>6, <2>2, <3>3, Zenon DEF EndsCapture, SameProduct
  <2>3. CASE UNCHANGED product
    BY <2>3, Zenon
  <2>. QED  BY <1>6, <2>1, <2>2, <2>3, Zenon DEF Turn
<1>7. CASE WatchExpire
  <2>1. EndsCapture(product, expire_input(product))
    BY <1>0, AbortSteps, Zenon
  <2>. QED  BY <1>7, <2>1, Zenon DEF WatchExpire, EndsCapture, SameProduct
<1>8. CASE Outside
  <2>1. \A k : Happens(k) => k = "renew"
    BY <1>0, HappensFacts, Zenon
  <2>2. product' = product \/ product' = [product EXCEPT !.reset = FALSE]
    BY <1>8, <2>1, Zenon DEF Outside
  <2>. QED  BY <1>0, <1>2, <2>2, ClearKeeps, Zenon
<1>9. CASE Elsewhere \/ UNCHANGED vars
  BY <1>9, ElsewhereKeeps, Zenon DEF vars
<1>. QED
  BY <1>1, <1>3, <1>4, <1>5, <1>6, <1>7, <1>8, <1>9, Zenon DEF RenewalSteps, Elsewhere

\* A thread that saw a token sees at most a replaced one.
LEMMA RenewalObserve ==
    ASSUME NEW t \in {"session", "watcher"}, read[t] # {}, session.metadata = metadata,
           cause \in {None, TokenReplaced}, observe(inspect_session_inputs(t))
    PROVE  /\ cause' \in {None, TokenReplaced}
           /\ cause = TokenReplaced => cause' = TokenReplaced
<1>1. inspect_session_inputs(t) \in {None, TokenReplaced}
  BY Zenon DEF inspect_session_inputs
<1>. QED  BY <1>1 DEF observe, None, TokenReplaced

\* The main thread and the watcher, while tokens are only replaced: the part
\* of OnlyRenewals that is about their places.
RenewalPlaces ==
    /\ cause \in {None, TokenReplaced}
    /\ invalid \/ cancelled => cause = TokenReplaced
    /\ file = {} => watcher = "none" /\ pc \in {"start", "update", "token", "failed"}
    /\ pc \notin {"leave", "ended", "stopped", "exited"}
    /\ pc = "failed" => watcher = "none"
    /\ pc \in {"read", "inspect", "classify"} =>
          rpc[2] = "CANCELLED" /\ cause = TokenReplaced
    /\ pc = "inspect" => read["session"] # {}
    /\ watcher = "inspect" => read["watcher"] # {}

\* A session that knows renewals only stays at the places where its inputs match.
LEMMA PlacesStep ==
    ASSUME Typed, OnlyRenewals, happened' = {}, [Next]_vars
    PROVE  RenewalPlaces'
<1>0. /\ RenewalPlaces /\ ~stopping /\ session.metadata = metadata
      /\ happened \subseteq {"storage", "other"}
      /\ read \in [{"session", "watcher"} -> SUBSET Nat]
      /\ rpc \in Rpcs \X Statuses
  BY Zenon DEF Typed, OnlyRenewals, RenewalPlaces
<1>1. RenewalSteps
  BY <1>0, RenewalNext, Zenon
<1>2. file' = file \/ file' # {}
  <2>1. file' = file \/ file' = {issued + 1}
    BY <1>0, RenewalFiles, Zenon
  <2>. QED  BY <2>1, Zenon
<1>3. \A st : [rpc EXCEPT ![2] = st][2] = st
  BY <1>0
<1>4. \A t \in {"session", "watcher"} :
         /\ [read EXCEPT !["session"] = file]["session"] = file
         /\ [read EXCEPT !["watcher"] = file]["watcher"] = file
         /\ [read EXCEPT !["session"] = file]["watcher"] = read["watcher"]
         /\ [read EXCEPT !["session"] = {}]["watcher"] = read["watcher"]
         /\ [read EXCEPT !["watcher"] = file]["session"] = read["session"]
         /\ [read EXCEPT !["watcher"] = {}]["session"] = read["session"]
  BY <1>0, Zenon
<1>5. None # TokenReplaced
  BY DEF None, TokenReplaced
<1>6. CASE ReadMetadata \/ Update
  BY <1>0, <1>6 DEF RenewalPlaces, ReadMetadata, Update, files, control,
     interruption_vars, watching
<1>7. CASE ReadToken
  BY <1>0, <1>7 DEF RenewalPlaces, ReadToken, Throw, files, control,
     interruption_vars
<1>8. CASE GetAnswered \/ StreamUpdate \/ RpcCancelled
      \/ make_context("connect", "get", "get")
      \/ make_context("subscribe", "stream", "stream")
  <2>1. CASE \/ make_context("connect", "get", "get")
             \/ make_context("subscribe", "stream", "stream")
    BY <1>0, <2>1 DEF RenewalPlaces, make_context, files, interruption_vars, watching
  <2>2. CASE GetAnswered
    BY <1>0, <2>2, Zenon DEF RenewalPlaces, GetAnswered, files, control, interruption_vars,
       watching
  <2>3. CASE RpcCancelled
    BY <1>0, <1>3, <2>3, Zenon DEF RenewalPlaces, RpcCancelled, RpcEnds, files,
       interruption_vars, watching
  <2>4. CASE StreamUpdate
    BY <1>0, <1>3, <2>4, Zenon DEF RenewalPlaces, StreamUpdate, files, interruption_vars,
       watching
  <2>. QED  BY <1>8, <2>1, <2>2, <2>3, <2>4, Zenon
<1>9. CASE Ingest
  BY <1>0, <1>9, Zenon DEF RenewalPlaces, Ingest, files, interruption_vars, watching
<1>10. CASE ReadTokenAgain
  BY <1>0, <1>4, <1>10, Zenon DEF RenewalPlaces, ReadTokenAgain, files, control,
     interruption_vars, watching
<1>11. CASE Inspect
  <2>1. /\ cause' \in {None, TokenReplaced}
        /\ cause = TokenReplaced => cause' = TokenReplaced
    BY <1>0, <1>11, RenewalObserve, Zenon DEF RenewalPlaces, Inspect
  <2>. QED
    BY <1>0, <1>4, <1>11, <2>1, Zenon DEF RenewalPlaces, Inspect, files, control, watching
<1>12. CASE Classify
  BY <1>0, <1>12, Zenon DEF RenewalPlaces, Classify, Renewal, files, control,
     interruption_vars, watching
<1>13. CASE Turn
  BY <1>0, <1>13, Zenon DEF RenewalPlaces, Turn, files, watching
<1>14. CASE WatchRead
  BY <1>0, <1>4, <1>14, Zenon DEF RenewalPlaces, WatchRead, files, control
<1>15. CASE WatchInspect
  <2>1. /\ cause' \in {None, TokenReplaced}
        /\ cause = TokenReplaced => cause' = TokenReplaced
    BY <1>0, <1>15, RenewalObserve, Zenon DEF RenewalPlaces, WatchInspect
  <2>. QED
    BY <1>0, <1>4, <1>15, <2>1, Zenon DEF RenewalPlaces, WatchInspect, files, control
<1>16. CASE WatchCancel
  BY <1>0, <1>5, <1>16, Zenon DEF RenewalPlaces, WatchCancel, Cancels, files
<1>17. CASE WatchSample \/ WatchExpire
  BY <1>0, <1>17 DEF RenewalPlaces, WatchSample, WatchExpire, files, control,
     interruption_vars
<1>18. ASSUME UNCHANGED <<pc, watcher, cause, invalid, cancelled, rpc, read>>
       PROVE  RenewalPlaces'
  BY <1>0, <1>2, <1>18, Zenon DEF RenewalPlaces
<1>19. CASE WorkerRead \/ WorkerUpdate \/ WorkerEnd \/ Outside \/ Tick \/ UNCHANGED vars
  BY <1>18, <1>19, Zenon DEF WorkerRead, WorkerUpdate, WorkerEnd, Outside, Tick, vars,
     control, interruption_vars, watching
<1>. QED
  BY <1>1, <1>6, <1>7, <1>8, <1>9, <1>10, <1>11, <1>12, <1>13, <1>14, <1>15, <1>16, <1>17,
     <1>19, Zenon DEF RenewalSteps

\* What the threads read of the metadata is what the file names.
LEMMA ContractStep ==
    ASSUME Typed, OnlyRenewals, happened' = {}, [Next]_vars
    PROVE  session'.metadata = metadata /\ worker'[2] = metadata
<1>1. session.metadata = metadata /\ worker[2] = metadata
  BY Zenon DEF OnlyRenewals
<1>2. session \in [token : Nat, metadata : Contracts] /\ worker \in WorkerPlaces \X Contracts
  BY Zenon DEF Typed
<1>3. SessionChange /\ WorkerChange
  BY Changes, Zenon
<1>4. session'.metadata = metadata
  BY ONLY <1>1, <1>2, <1>3, Zenon DEF SessionChange
<1>5. worker'[2] = metadata
  BY ONLY <1>1, <1>2, <1>3, SMT DEF WorkerChange
<1>. QED  BY <1>4, <1>5, Zenon

\* A step that adds nothing but a renewal keeps what renewals leave behind.
LEMMA RenewalStep ==
    ASSUME Typed, OnlyRenewals, happened' = {}, [Next]_vars
    PROVE  OnlyRenewals'
<1>0. happened \subseteq {"storage", "other"}
  BY Zenon DEF Typed
<1>1. /\ metadata' = metadata /\ stopping' = stopping
      /\ file' = file \/ file' = {issued + 1}
  BY <1>0, RenewalFiles, Zenon
<1>2. session'.metadata = metadata /\ worker'[2] = metadata
  BY ContractStep, Zenon
<1>3. RenewalPlaces'
  BY PlacesStep, Zenon
<1>4. product'.contract = metadata
  BY RenewalProduct, Zenon DEF OnlyRenewals
<1>5. file' = {} => product'.phase = "WAITING"
  <2>1. file' = {} => file = {}
    BY <1>1, Zenon
  <2>2. file = {} => /\ product.phase = "WAITING" /\ watcher = "none"
                     /\ pc \in {"start", "update", "token", "failed"}
    BY Zenon DEF OnlyRenewals
  <2>3. Ingest => pc = "ingest"
    BY Zenon DEF Ingest
  <2>. QED  BY <2>1, <2>2, <2>3, RenewalProduct, Zenon
<1>6. pc' = "failed" => product'.phase = "WAITING"
  <2>. SUFFICES ASSUME pc' = "failed" PROVE product'.phase = "WAITING"
    BY Zenon
  <2>1. ~Ingest
    BY Zenon DEF Ingest
  <2>2. product.phase = "WAITING"
    <3>1. CASE pc = "failed"
      BY <3>1, Zenon DEF OnlyRenewals
    <3>2. CASE pc # "failed"
      <4>1. RenewalSteps
        BY <1>0, RenewalNext, Zenon
      <4>2. ReadToken \/ Classify
        BY <3>2, <4>1, Zenon DEF RenewalSteps, ReadMetadata, Update, make_context, GetAnswered,
           RpcCancelled, RpcEnds, StreamUpdate, Ingest, ReadTokenAgain, Inspect, Turn,
           WatchRead, WatchInspect, WatchCancel, WatchSample, WatchExpire, WorkerRead,
           WorkerUpdate, WorkerEnd, Outside, Tick, vars
      <4>3. ~Classify
        BY Zenon DEF OnlyRenewals, Classify, Renewal
      <4>4. file = {}
        BY <4>2, <4>3, Zenon DEF ReadToken
      <4>. QED  BY <4>4, Zenon DEF OnlyRenewals
    <3>. QED  BY <3>1, <3>2, Zenon
  <2>. QED  BY <2>1, <2>2, RenewalProduct, Zenon
<1>7. cause' # Unavailable
  BY <1>3 DEF RenewalPlaces, None, TokenReplaced, Unavailable
<1>. QED
  BY <1>1, <1>2, <1>3, <1>4, <1>5, <1>6, <1>7, Zenon DEF OnlyRenewals, RenewalPlaces

\* Every step keeps the inductive invariant.
LEMMA SessionInvStep ==
    ASSUME SessionInv, [Next]_vars
    PROVE  SessionInv'
<1>1. Typed' /\ Watched'
  BY TypedStep, Zenon DEF SessionInv
<1>2. ASSUME happened' = {} PROVE OnlyRenewals'
  <2>1. happened = {}
    BY <1>2, RenewalFiles, Zenon DEF SessionInv, Typed
  <2>. QED  BY <1>2, <2>1, RenewalStep, Zenon DEF SessionInv
<1>. QED  BY <1>1, <1>2, Zenon DEF SessionInv

\* The invariant of the subscription, for every set of contracts, every
\* freshness limit and any number of mishaps.
THEOREM SessionSafe ==
    ASSUME Contracts # {}
    PROVE  Spec => []SessionInv
<1>1. Init => SessionInv
  BY SessionInit, Zenon
<1>2. SessionInv /\ [Next]_vars => SessionInv'
  BY SessionInvStep, Zenon
<1>. QED  BY <1>1, <1>2, PTL DEF Spec

\* The watchdog decides by a clock it read before it took the lock, and never
\* discards a frame that came in between (Product::expire_input).
THEOREM NewerInputKeeps ==
    ASSUME Contracts # {}, Freshness \in Nat
    PROVE  Spec => NewerInputKept
<1>. DEFINE Kept == (watcher = "expire" /\ product' # product /\ watcher' = "top")
                      => now - product.input_mono > Freshness /\ product.input_mono >= 0
<1>1. ASSUME SessionInv, [Next]_vars PROVE Kept
  <2>. SUFFICES ASSUME watcher = "expire", product' # product, watcher' = "top"
                PROVE  now - product.input_mono > Freshness /\ product.input_mono >= 0
    BY Zenon
  <2>1. WatchExpire \/ WatchExpireThrows
    BY <1>1, Zenon DEF Next, MainStep, WatcherStep, WorkerStep, ReadMetadata, Update, UpdateThrows,
       ReadToken, make_context, GetAnswered, GetIncompatible, RpcCancelled, RpcFails,
       RpcEnds, StreamUpdate, Ingest, IngestThrows, ReadTokenAgain, Inspect, Classify,
       Leave, LeaveThrows, Turn, TurnThrows, Shutdown, WatchRead, WatchInspect,
       WatchCancel, WatchSample, WorkerRead, WorkerUpdate, WorkerEnd, Outside, Tick, vars,
       watching
  <2>2. Expires
    BY <2>1, Zenon DEF WatchExpire, WatchExpireThrows
  <2>3. /\ now \in Nat /\ observed \in Nat /\ observed <= now
        /\ product.input_mono \in {-1} \union Nat
    BY <1>1, Zenon DEF SessionInv, Typed, Products
  <2>. QED  BY <2>2, <2>3 DEF Expires, Stale
<1>2. SessionInv /\ [Next]_vars => [Kept]_vars
  BY <1>1, Zenon
<1>. QED  BY <1>2, SessionSafe, PTL DEF Spec, NewerInputKept

\* A planned token replacement never costs an episode: as long as tokens were
\* only replaced and frames kept coming, no step of any thread aborts the
\* capture (subscribe, its watcher, and main's reaction to a session's end).
THEOREM RenewalsKeepCapture ==
    ASSUME Contracts # {}, Freshness \in Nat
    PROVE  Spec => RenewalKeepsCapture
<1>. DEFINE Kept == Aborts => happened' # {} \/ now - newest > Freshness
<1>1. ASSUME SessionInv, [Next]_vars PROVE Kept
  <2>. SUFFICES ASSUME Aborts, happened' = {} PROVE now - newest > Freshness
    BY Zenon
  <2>1. Typed /\ Watched /\ OnlyRenewals
    BY <1>1, RenewalFiles, Zenon DEF SessionInv, Typed
  <2>2. product.phase \in Capturing /\ product'.phase = "WAITING" /\ product.phase # "WAITING"
    BY Zenon DEF Aborts, Capturing
  <2>3. ~(Turn /\ pc = "failed")
    BY <2>1, <2>2, Zenon DEF OnlyRenewals
  <2>4. ~Ingest
    <3>. SUFFICES ASSUME Ingest PROVE FALSE
      BY Zenon
    <3>1. PICK v \in Verdicts :
             product' \in ingest(product, v, mono) /\ (v = "gap" => Happens("gap"))
      BY Zenon DEF Ingest
    <3>2. v # "gap"
      <4>1. happened \subseteq {"storage", "other"}
        BY <2>1, Zenon DEF Typed
      <4>2. Happens("gap") => "gap" = "renew"
        BY <4>1, HappensFacts, Zenon
      <4>. QED  BY <3>1, <4>2, Zenon
    <3>3. product \in Products /\ mono \in Nat
      BY <2>1, Zenon DEF Typed
    <3>4. product'.activity[1] \in {"COMPLETED", "SKIPPED"}
      <4>1. v \in {"gap", "processed", "dropped"} /\ product' \in ingest(product, v, mono)
        BY <3>1, VerdictRange, Zenon
      <4>2. /\ v # "gap" /\ product.phase \in Capturing /\ product'.phase = "WAITING"
            => product'.activity[1] \in {"COMPLETED", "SKIPPED"}
        BY ONLY <3>3, <4>1, IngestSteps, Zenon
      <4>. QED  BY <2>2, <3>2, <4>2, Zenon
    <3>. QED  BY <3>4, Zenon DEF Aborts, Ingest
  <2>5. WatchExpire /\ Expires
    BY <1>1, <2>1, <2>2, <2>3, <2>4, RenewalProduct, Zenon
  <2>6. newest = product.input_mono /\ observed - newest > Freshness
    BY <2>1, <2>5, Zenon DEF Watched, Expires, Stale
  <2>7. now \in Nat /\ observed \in Nat /\ observed <= now /\ newest \in {-1} \union Nat
    BY <2>1, Zenon DEF Typed
  <2>. QED  BY <2>6, <2>7
<1>2. SessionInv /\ [Next]_vars => [Kept]_vars
  BY <1>1, Zenon
<1>. QED  BY <1>2, SessionSafe, PTL DEF Spec, RenewalKeepsCapture

-----------------------------------------------------------------------------
(* The evaluation of an episode.                                           *)

\* A share in basis points.
Share(x) == x \in Nat /\ x <= 10000

\* The scan has kept every flaw of a sample.
FlawsNoted(s) ==
    /\ ~s.complete => "MISSING_REQUIRED_SIGNAL" \in e.flaws
    /\ ~s.fresh => "STALE_SAMPLE" \in e.flaws
    /\ ~s.finite => "NON_FINITE_VALUE" \in e.flaws
    /\ ~signal_range_valid(s) => "OUT_OF_RANGE_VALUE" \in e.flaws
    /\ ~s.later => "NON_MONOTONIC_SOURCE_TIME" \in e.flaws

\* As long as no signal is out of range the brake efforts add up to a
\* natural number; the phases seen say whether the features are empty.
ScanInv ==
    /\ ScanTypeOK
    /\ "OUT_OF_RANGE_VALUE" \notin e.flaws => e.features.brake_sum >= 0
    /\ "ACTIVE" \in e.phases => e.features.active > 0
    /\ \A s \in seen : FlawsNoted(s)

\* Rounding a natural number to a multiple of another gives a natural one.
LEMMA RoundsToNat ==
    ASSUME NEW n \in Nat, NEW d \in Nat, d > 0
    PROVE  round_half_up(n, d) \in Nat
<1>1. d \div 2 \in Nat
  BY SMT
<1>2. n + d \div 2 \in Nat
  BY <1>1, SMT
<1>3. \A m \in Nat : m \div d \in Nat
  BY SMT
<1> QED
  BY <1>2, <1>3, SMT DEF round_half_up

\* A feature is a share of its full scale, in basis points.
LEMMA BpsInRange ==
    ASSUME NEW v \in Nat, NEW full \in Nat, full > 0
    PROVE  Share(Bps(v, full))
<1>1. v * 10000 \in Nat
  BY SMT
<1>2. round_half_up(v * 10000, full) \in Nat
  BY <1>1, RoundsToNat, SMT
<1> QED
  BY <1>2, SMT DEF Bps, clamp_bps, Share

\* The wheel dispersion of a sample is a share as well.
LEMMA DispersionInRange ==
    ASSUME NEW s \in Samples
    PROVE  Share(Dispersion(s))
<1>1. /\ s.linear_min \in Int /\ s.linear_max \in Int /\ s.linear_min <= s.linear_max
      /\ s.angular_min \in Nat /\ s.angular_max \in Nat
      /\ s.angular_min <= s.angular_max
  BY SamplesAssumption, SMT
<1>2. /\ s.linear_max - s.linear_min \in Nat
      /\ s.angular_max - s.angular_min \in Nat
  BY <1>1, SMT
<1>3. /\ AtLeast(5000, s.linear_max) \in Nat /\ AtLeast(5000, s.linear_max) > 0
      /\ AtLeast(30000, s.angular_max) \in Nat /\ AtLeast(30000, s.angular_max) > 0
  BY <1>1, SMT DEF AtLeast
<1>4. /\ Share(Bps(s.linear_max - s.linear_min, AtLeast(5000, s.linear_max)))
      /\ Share(Bps(s.angular_max - s.angular_min, AtLeast(30000, s.angular_max)))
  BY <1>2, <1>3, BpsInRange, SMT
<1> QED
  BY <1>4, SMT DEF Dispersion, AtLeast, Share

\* The empty scan.
LEMMA InitScanInv == ScanInit => ScanInv
<1> SUFFICES ASSUME ScanInit PROVE ScanInv
  BY Zenon
<1>1. PICK terminal \in Terminals : e = NoSamples(terminal) /\ seen = {}
  BY Zenon DEF ScanInit
<1>2. NoFeatures \in FeatureVectors /\ NoFeatures.brake_sum = 0
  BY SMT DEF NoFeatures, FeatureVectors
<1>3. ScanTypeOK
  BY <1>1, <1>2, SMT DEF ScanTypeOK, NoSamples
<1> QED
  BY <1>1, <1>2, <1>3, SMT DEF ScanInv, NoSamples

\* An active sample adds itself to the features.
LEMMA ActiveFeatures ==
    ASSUME NEW s \in Samples, NEW f \in FeatureVectors
    PROVE  /\ Active(s, f) \in FeatureVectors
           /\ Active(s, f).active = f.active + 1
           /\ Active(s, f).brake_sum = f.brake_sum + s.brake
<1>1. s.acceleration \in Int /\ s.brake \in Int /\ s.speed \in Int
  BY SamplesAssumption, SMT
<1>2. Dispersion(s) \in Nat
  BY DispersionInRange, SMT DEF Share
<1>3. /\ f.active \in Nat /\ f.straight \in Nat /\ f.peak \in Nat
      /\ f.brake_sum \in Int /\ f.front \in Int /\ f.back \in Int
      /\ f.dispersion \in Nat
  BY SMT DEF FeatureVectors
<1>4. /\ AtLeast(f.peak, -s.acceleration) \in Nat
      /\ AtLeast(f.dispersion, Dispersion(s)) \in Nat
  BY <1>1, <1>2, <1>3, SMT DEF AtLeast
<1> QED
  BY <1>1, <1>3, <1>4, SMT DEF Active, FeatureVectors

\* A sample whose signals are in range has no negative brake effort.
LEMMA BrakeInRange ==
    ASSUME NEW s \in Samples, signal_range_valid(s)
    PROVE  s.brake >= 0
  BY SamplesAssumption, SMT DEF signal_range_valid

\* A sample's flaws become flaws of the episode.
LEMMA FlawsKept ==
    ASSUME NEW s \in Samples, Scan(s), ScanTypeOK
    PROVE  FlawsNoted(s)' /\ e.flaws \subseteq e'.flaws
<1>1. e'.flaws = e.flaws \union Flaws(s)
  BY SMT DEF Scan, Scanned
<1>2. /\ ~s.complete => "MISSING_REQUIRED_SIGNAL" \in Flaws(s)
      /\ ~s.fresh => "STALE_SAMPLE" \in Flaws(s)
      /\ ~s.finite => "NON_FINITE_VALUE" \in Flaws(s)
      /\ ~signal_range_valid(s) => "OUT_OF_RANGE_VALUE" \in Flaws(s)
      /\ ~s.later => "NON_MONOTONIC_SOURCE_TIME" \in Flaws(s)
  BY SMT DEF Flaws, Reasons
<1>3. signal_range_valid(s)' = signal_range_valid(s)
  BY Zenon
<1> QED
  BY <1>1, <1>2, SMT DEF FlawsNoted

\* A sample scanned keeps the invariant.
LEMMA NextScanInv == ScanInv /\ [ScanNext]_scanVars => ScanInv'
<1> SUFFICES ASSUME ScanInv, [ScanNext]_scanVars
             PROVE  ScanInv'
  BY Zenon
<1>1. CASE UNCHANGED scanVars
  BY <1>1, SMT DEF scanVars, ScanInv, FlawsNoted, ScanTypeOK
<1>2. ASSUME NEW s \in Samples, Scan(s)
      PROVE  ScanInv'
  <2>1. /\ ScanTypeOK
        /\ e.terminal \in Terminals
        /\ e.features \in FeatureVectors /\ e.count \in Nat
        /\ e.flaws \subseteq Reasons /\ e.phases \subseteq {"PRE", "ACTIVE", "POST"}
        /\ seen \subseteq Samples
    BY SMT DEF ScanInv, ScanTypeOK
  <2>2. /\ e' = Scanned(s) /\ seen' = seen \union {s}
    BY <1>2, Zenon DEF Scan
  <2>3. /\ e'.flaws = e.flaws \union Flaws(s)
        /\ e'.phases = e.phases \union {s.phase}
        /\ e'.features = IF s.phase = "ACTIVE" THEN Active(s, e.features)
                         ELSE e.features
    BY <2>2, SMT DEF Scanned
  <2>4. ScanTypeOK'
    <3>1. s.phase \in {"PRE", "ACTIVE", "POST"}
      BY SamplesAssumption, SMT
    <3>2. Flaws(s) \subseteq Reasons
      BY SMT DEF Flaws
    <3>3. e'.features \in FeatureVectors
      BY <2>1, <2>3, ActiveFeatures, SMT
    <3> QED
      BY <2>1, <2>2, <2>3, <3>1, <3>2, <3>3, SMT DEF ScanTypeOK, Scanned
  <2>5. "OUT_OF_RANGE_VALUE" \notin e'.flaws => e'.features.brake_sum >= 0
    <3> SUFFICES ASSUME "OUT_OF_RANGE_VALUE" \notin e'.flaws
                 PROVE  e'.features.brake_sum >= 0
      BY Zenon
    <3>1. "OUT_OF_RANGE_VALUE" \notin e.flaws /\ "OUT_OF_RANGE_VALUE" \notin Flaws(s)
      BY <2>3, SMT
    <3>2. signal_range_valid(s)
      BY <3>1, SMT DEF Flaws, Reasons
    <3>3. s.brake >= 0 /\ s.brake \in Int
      BY <3>2, BrakeInRange, SamplesAssumption, SMT
    <3>4. e.features.brake_sum >= 0 /\ e.features.brake_sum \in Int
      BY <3>1, <2>1, SMT DEF ScanInv, FeatureVectors
    <3> QED
      BY <2>1, <2>3, <3>3, <3>4, ActiveFeatures, SMT
  <2>6. "ACTIVE" \in e'.phases => e'.features.active > 0
    <3>1. e.features.active \in Nat
      BY <2>1, SMT DEF FeatureVectors
    <3> QED
      BY <2>1, <2>3, <3>1, ActiveFeatures, SMT DEF ScanInv
  <2>7. \A x \in seen' : FlawsNoted(x)'
    <3>1. FlawsNoted(s)' /\ e.flaws \subseteq e'.flaws
      BY <1>2, <2>1, FlawsKept, Zenon
    <3>2. \A x \in seen : FlawsNoted(x)
      BY Zenon DEF ScanInv
    <3>3. \A x \in seen : FlawsNoted(x)'
      BY <3>1, <3>2, SMT DEF FlawsNoted
    <3> QED
      BY <2>2, <3>1, <3>3, SMT
  <2> QED
    BY <2>4, <2>5, <2>6, <2>7, SMT DEF ScanInv
<1> QED
  BY <1>1, <1>2, SMT DEF ScanNext

\* What is assessed is complete, has no flaw, and at least one active sample.
LEMMA AssessedIsClean ==
    ASSUME ScanInv, Assessed(e)
    PROVE  /\ e.terminal = "COMPLETE"
           /\ "MISSING_REQUIRED_SIGNAL" \notin e.flaws
           /\ "STALE_SAMPLE" \notin e.flaws
           /\ "NON_FINITE_VALUE" \notin e.flaws
           /\ "OUT_OF_RANGE_VALUE" \notin e.flaws
           /\ "NON_MONOTONIC_SOURCE_TIME" \notin e.flaws
           /\ e.features.active > 0
<1>1. skip_reason(e) = "NONE"
  BY Zenon DEF Assessed
<1>2. /\ e.terminal = "COMPLETE"
      /\ "MISSING_REQUIRED_SIGNAL" \notin e.flaws
      /\ e.phases = {"PRE", "ACTIVE", "POST"}
  BY <1>1, SMT DEF skip_reason
<1>3. "STALE_SAMPLE" \notin e.flaws
  BY <1>1, SMT DEF skip_reason
<1>4. "NON_FINITE_VALUE" \notin e.flaws
  BY <1>1, SMT DEF skip_reason
<1>5. "OUT_OF_RANGE_VALUE" \notin e.flaws
  BY <1>1, SMT DEF skip_reason
<1>6. "NON_MONOTONIC_SOURCE_TIME" \notin e.flaws
  BY <1>1, SMT DEF skip_reason
<1> QED
  BY <1>2, <1>3, <1>4, <1>5, <1>6, SMT DEF ScanInv

\* Five shares of at most 10000, weighted with 100 in all, give a load of at
\* most 10000, and such a load an increment from 4 to 10.
LEMMA LoadInRange ==
    ASSUME NEW a, NEW b, NEW c, NEW d, NEW f,
           Share(a), Share(b), Share(c), Share(d), Share(f)
    PROVE  Share(clamp_bps(round_half_up(
                    30 * a + 20 * b + 15 * c + 15 * d + 20 * f, 100)))
<1> DEFINE w == 30 * a + 20 * b + 15 * c + 15 * d + 20 * f
<1>1. w \in Nat
  BY SMT DEF Share
<1> HIDE DEF w
<1>2. round_half_up(w, 100) \in Nat
  BY <1>1, RoundsToNat, SMT
<1>3. Share(clamp_bps(round_half_up(w, 100)))
  BY <1>2, SMT DEF clamp_bps, Share
<1> QED
  BY <1>3, Zenon DEF w

\* IncrementRange follows from the invariant.
LEMMA IncrementInRange == ScanInv => IncrementRange
<1> SUFFICES ASSUME ScanInv, Assessed(e)
             PROVE  /\ e.features.brake_sum >= 0
                    /\ Share(episode_load(e.features))
                    /\ wear_increment(e.features) \in 4..10
  BY SMT DEF IncrementRange, Share
<1> DEFINE f == e.features
<1>1. "OUT_OF_RANGE_VALUE" \notin e.flaws /\ f.active > 0
  BY AssessedIsClean, Zenon
<1>2. /\ f.brake_sum \in Nat /\ f.dispersion \in Nat
      /\ f.active \in Nat /\ f.peak \in Nat /\ f.front \in Int /\ f.back \in Int
  BY <1>1, SMT DEF ScanInv, ScanTypeOK, FeatureVectors
<1> HIDE DEF f
<1>3. mean_brake(f) \in Nat
  BY <1>1, <1>2, RoundsToNat, SMT DEF mean_brake
<1>4. /\ f.active * 100 \in Nat
      /\ AtLeast(0, f.front - f.back) \in Nat
      /\ AtLeast(0, mean_brake(f) - 50000) \in Nat
  BY <1>2, <1>3, SMT DEF AtLeast
<1> DEFINE a == Bps(f.peak, 8000)
           b == Bps(f.active * 100, 5000)
           c == Bps(AtLeast(0, f.front - f.back), 40000)
           d == Bps(AtLeast(0, mean_brake(f) - 50000), 50000)
           g == Bps(f.dispersion, 1500)
<1>5. Share(a) /\ Share(b) /\ Share(c) /\ Share(d) /\ Share(g)
  BY <1>2, <1>4, BpsInRange, SMT
<1>6. episode_load(f)
        = clamp_bps(round_half_up(30 * a + 20 * b + 15 * c + 15 * d + 20 * g, 100))
  BY SMT DEF episode_load
<1> HIDE DEF a, b, c, d, g
<1>7. Share(episode_load(f))
  BY <1>5, <1>6, LoadInRange, SMT
<1>8. \A x \in Nat : x <= 10000 => 4 + round_half_up(6 * x, 10000) \in 4..10
  BY SMT DEF round_half_up
<1>9. wear_increment(f) \in 4..10
  BY <1>7, <1>8, SMT DEF wear_increment, Share
<1> QED
  BY <1>2, <1>7, <1>9, SMT DEF f

\* Whatever samples the episode has, an assessment wears the brake by 4 to
\* 10 points: the assumption BrakeModel makes of the increments.
THEOREM IncrementBounded == ScanSpec => []IncrementRange
<1>1. ScanInit => ScanInv
  BY InitScanInv, Zenon
<1>2. ScanInv /\ [ScanNext]_scanVars => ScanInv'
  BY NextScanInv, Zenon
<1>3. ScanInv => IncrementRange
  BY IncrementInRange
<1> QED
  BY <1>1, <1>2, <1>3, PTL DEF ScanSpec

\* Only an episode that came to its end is assessed, and no flaw of any
\* sample gets into the assessment.
THEOREM SoundSamplesOnly == ScanSpec => []OnlySoundSamples
<1>1. ScanInit => ScanInv
  BY InitScanInv, Zenon
<1>2. ScanInv /\ [ScanNext]_scanVars => ScanInv'
  BY NextScanInv, Zenon
<1>3. ScanInv => OnlySoundSamples
  <2> SUFFICES ASSUME ScanInv, Assessed(e)
               PROVE  /\ e.terminal = "COMPLETE"
                      /\ \A s \in seen : /\ s.complete /\ s.finite /\ s.fresh
                                         /\ s.later /\ signal_range_valid(s)
    BY Zenon DEF OnlySoundSamples
  <2>1. e.terminal = "COMPLETE"
    BY AssessedIsClean, Zenon
  <2>2. ASSUME NEW s \in seen
        PROVE  /\ s.complete /\ s.finite /\ s.fresh /\ s.later
               /\ signal_range_valid(s)
    BY AssessedIsClean, SMT DEF ScanInv, FlawsNoted
  <2> QED
    BY <2>1, <2>2, Zenon
<1> QED
  BY <1>1, <1>2, <1>3, PTL DEF ScanSpec

-----------------------------------------------------------------------------
(* The calendar.                                                           *)

\* The days from the first of March of the year 0 to that of another year.
Before(s) == 365 * s + s \div 4 - s \div 100 + s \div 400

\* The days from the first of March to the first of a month.
MonthStart(m) == (153 * (IF m > 2 THEN m - 3 ELSE m + 9) + 2) \div 5

\* A date of the calendar.
Valid(y, m, d) == y \in Nat /\ y >= 1 /\ m \in 1..12 /\ d \in 1..C!MonthLength(y, m)

\* The calendar keeps valid dates, and counts them as days_from_civil does.
CalendarInv ==
    /\ date = <<date[1], date[2], date[3]>>
    /\ Valid(date[1], date[2], date[3])
    /\ number = C!days_from_civil(date[1], date[2], date[3])

\* The formula of days_from_civil, without eras.
LEMMA CountsDays ==
    ASSUME NEW y, NEW m, NEW d, Valid(y, m, d)
    PROVE  /\ C!ShiftedYear(y, m) \in Nat /\ MonthStart(m) \in Nat /\ d \in Nat
           /\ Before(C!ShiftedYear(y, m)) \in Int
           /\ C!days_from_civil(y, m, d) =
                Before(C!ShiftedYear(y, m)) + MonthStart(m) + d - 1 - 719468
<1>. DEFINE s == C!ShiftedYear(y, m)
            e0 == s \div 400
            r == s - e0 * 400
<1>1. s \in Nat
  BY SMT DEF Valid, C!ShiftedYear
<1>2. MonthStart(m) \in Nat /\ d \in Nat
  BY SMT DEF Valid, MonthStart, C!MonthLength
<1>3. C!days_from_civil(y, m, d) = e0 * 146097 +
         (r * 365 + r \div 4 - r \div 100 + (MonthStart(m) + d - 1)) - 719468
  BY <1>1, SMT DEF C!days_from_civil, C!Quotient, MonthStart
<1>4. e0 \in Nat /\ r \in Nat /\ r < 400 /\ s = 400 * e0 + r
  BY <1>1, SMT
<1>. HIDE DEF s, e0, r
<1>5. s \div 4 = 100 * e0 + r \div 4 /\ s \div 100 = 4 * e0 + r \div 100 /\ s \div 400 = e0
  BY <1>4, SMT
<1>. QED  BY <1>1, <1>2, <1>3, <1>4, <1>5, SMT DEF Before, s

\* The starts of the months, and their lengths.
LEMMA Months ==
    /\ MonthStart(3) = 0 /\ MonthStart(4) = 31 /\ MonthStart(5) = 61
    /\ MonthStart(6) = 92 /\ MonthStart(7) = 122 /\ MonthStart(8) = 153
    /\ MonthStart(9) = 184 /\ MonthStart(10) = 214 /\ MonthStart(11) = 245
    /\ MonthStart(12) = 275 /\ MonthStart(1) = 306 /\ MonthStart(2) = 337
BY SMT DEF MonthStart

\* A leap year has a day more.
LEMMA LeapDay ==
    ASSUME NEW y \in Nat, y >= 1
    PROVE  /\ C!MonthLength(y, 2) \in {28, 29}
           /\ Before(y) = Before(y - 1) + 337 + C!MonthLength(y, 2)
<1>1. C!MonthLength(y, 2) = IF y % 400 = 0 \/ (y % 4 = 0 /\ y % 100 # 0) THEN 29 ELSE 28
  BY SMT DEF C!MonthLength
<1>2. y \div 4 = (y - 1) \div 4 + IF y % 4 = 0 THEN 1 ELSE 0
  BY SMT
<1>3. y \div 100 = (y - 1) \div 100 + IF y % 100 = 0 THEN 1 ELSE 0
  BY SMT
<1>4. y \div 400 = (y - 1) \div 400 + IF y % 400 = 0 THEN 1 ELSE 0
  BY SMT
<1>5. (y % 400 = 0 => y % 100 = 0) /\ (y % 100 = 0 => y % 4 = 0)
  BY SMT
<1>6. /\ y \div 4 \in Int /\ y \div 100 \in Int /\ y \div 400 \in Int
      /\ (y - 1) \div 4 \in Int /\ (y - 1) \div 100 \in Int /\ (y - 1) \div 400 \in Int
  BY SMT
<1>. QED  BY <1>1, <1>2, <1>3, <1>4, <1>5, <1>6, SMT DEF Before

\* A day of an era: of year 100 * c + 4 * q + r, the n-th of it.
InEra(day, c, q, r, n) ==
    /\ c \in 0..3 /\ q \in 0..24 /\ r \in 0..3 /\ n \in Nat /\ n <= 365
    /\ n = 365 => r = 3 /\ (q # 24 \/ c = 3)
    /\ day = 36524 * c + 1461 * q + 365 * r + n

\* The year and the day of it are recovered from the day of the era.
LEMMA YearRecovered ==
    ASSUME NEW day, NEW c, NEW q, NEW r, NEW n, InEra(day, c, q, r, n)
    PROVE  LET k == 100 * c + 4 * q + r
           IN  /\ day \in Nat /\ day <= 146096 /\ k \in Nat
               /\ C!YearOfEra(day) = k
               /\ day - (365 * k + k \div 4 - k \div 100) = n
<1>. USE DEF InEra
<1>. DEFINE k == 100 * c + 4 * q + r
            last == IF day = 146096 THEN 1 ELSE 0
            u == (24 * c + q + 365 * r + n) \div 1460
<1>1. day \in Nat /\ day <= 146096 /\ k \in Nat
  BY SMT
<1>2. day \div 146096 = last
  BY <1>1, SMT
<1>3. day \div 36524 = c + last
  BY SMT
<1>4. day \div 1460 = 25 * c + q + u
  BY SMT
<1>5. u \in {0, 1} /\ (u = 1 => n >= 1) /\ (n = 365 => u = 1)
  BY SMT
<1>6. day - day \div 1460 + day \div 36524 - day \div 146096 = 365 * k + (n - u)
  BY <1>2, <1>3, <1>4, <1>5, SMT
<1>7. n - u \in Nat /\ n - u < 365
  BY <1>5, SMT
<1>. HIDE DEF u
<1>8. C!YearOfEra(day) = k
  BY <1>6, <1>7, SMT DEF C!YearOfEra
<1>9. k \div 4 = 25 * c + q /\ k \div 100 = c
  BY SMT
<1>10. day - (365 * k + k \div 4 - k \div 100) = n
  BY <1>9, SMT
<1>. QED  BY ONLY <1>1, <1>8, <1>10, SMT

\* The place of a date in its year, which starts in March, and the month of
\* such a place.
DayOfYear(m, d) == MonthStart(m) + d - 1
MonthOf(n) == (5 * n + 2) \div 153

\* The month and the day are recovered from the day of the year.
LEMMA MonthRecovered ==
    ASSUME NEW y, NEW m, NEW d, Valid(y, m, d)
    PROVE  /\ DayOfYear(m, d) \in Nat /\ DayOfYear(m, d) <= 365
           /\ DayOfYear(m, d) = 365 => m = 2 /\ C!MonthLength(y, 2) = 29
           /\ m = (IF MonthOf(DayOfYear(m, d)) < 10
                   THEN MonthOf(DayOfYear(m, d)) + 3
                   ELSE MonthOf(DayOfYear(m, d)) - 9)
           /\ d = DayOfYear(m, d) - (153 * MonthOf(DayOfYear(m, d)) + 2) \div 5 + 1
<1>1. m \in {1, 2, 3, 4, 5, 6, 7, 8, 9, 10, 11, 12}
  BY SMT DEF Valid
<1>2. d \in Nat /\ d >= 1 /\ d <= C!MonthLength(y, m)
  BY LeapDay, SMT DEF Valid, C!MonthLength
<1>3. /\ m \in {4, 6, 9, 11} => C!MonthLength(y, m) = 30
      /\ m \in {1, 3, 5, 7, 8, 10, 12} => C!MonthLength(y, m) = 31
      /\ m = 2 => C!MonthLength(y, m) \in {28, 29}
  BY LeapDay, SMT DEF Valid, C!MonthLength
<1>4. MonthStart(m) \in Nat
  BY <1>1, Months, SMT
<1>. DEFINE n == DayOfYear(m, d)
            p == IF m > 2 THEN m - 3 ELSE m + 9
<1>5. n \in Nat /\ n <= 365 /\ (n = 365 => m = 2 /\ C!MonthLength(y, 2) = 29)
  BY <1>1, <1>2, <1>3, Months, SMT DEF DayOfYear
<1>6. MonthOf(n) = p
  BY <1>1, <1>2, <1>3, Months, SMT DEF DayOfYear, MonthOf
<1>7. p \in 0..11 /\ m = (IF p < 10 THEN p + 3 ELSE p - 9)
  BY <1>1, SMT
<1>8. MonthStart(m) = (153 * p + 2) \div 5
  BY SMT DEF MonthStart
<1>. HIDE DEF p
<1>9. d = n - (153 * p + 2) \div 5 + 1
  BY <1>2, <1>4, <1>8, SMT DEF DayOfYear
<1>. HIDE DEF n
<1>. QED  BY <1>5, <1>6, <1>7, <1>9, SMT DEF n

\* A year in its era, its century and its four years.
Placed(s, e0, c, q, r) ==
    /\ e0 \in Nat /\ c \in 0..3 /\ q \in 0..24 /\ r \in 0..3
    /\ s = 400 * e0 + 100 * c + 4 * q + r

\* Every year has its place.
LEMMA Eras ==
    ASSUME NEW s \in Nat
    PROVE  \E e0, c, q, r : Placed(s, e0, c, q, r)
<1>1. \A n \in Nat : /\ n \div 4 \in Nat /\ n % 4 \in 0..3 /\ n = 4 * (n \div 4) + (n % 4)
                     /\ n \div 25 \in Nat /\ n % 25 \in 0..24 /\ n = 25 * (n \div 25) + (n % 25)
  BY SMT
<1>2. PICK a \in Nat, r \in 0..3 : s = 4 * a + r
  BY <1>1, Zenon
<1>3. PICK b \in Nat, q \in 0..24 : a = 25 * b + q
  BY <1>1, Zenon
<1>4. PICK e0 \in Nat, c \in 0..3 : b = 4 * e0 + c
  BY <1>1, Zenon
<1>5. Placed(s, e0, c, q, r)
  BY <1>2, <1>3, <1>4, SMT DEF Placed
<1>. QED  BY <1>5, Zenon

\* civil_from_days gives back the date that days_from_civil has counted.
LEMMA DateRecovered ==
    ASSUME NEW y, NEW m, NEW d, Valid(y, m, d)
    PROVE  C!civil_from_days(C!days_from_civil(y, m, d)) = <<y, m, d>>
<1>. DEFINE s  == C!ShiftedYear(y, m)
            n  == DayOfYear(m, d)
            mp == MonthOf(n)
            x  == C!days_from_civil(y, m, d) + 719468
<1>1. s \in Nat
  BY CountsDays, SMT
<1>2. /\ x = Before(s) + n /\ Before(s) \in Int
      /\ s = IF m <= 2 THEN y - 1 ELSE y
  BY CountsDays, SMT DEF C!ShiftedYear, DayOfYear
<1>3. /\ n \in Nat /\ n <= 365
      /\ n = 365 => m = 2 /\ C!MonthLength(y, 2) = 29
      /\ m = (IF mp < 10 THEN mp + 3 ELSE mp - 9)
      /\ d = n - (153 * mp + 2) \div 5 + 1
  BY MonthRecovered, SMT
<1>. HIDE DEF s, n
<1>4. PICK e0, c, q, r : Placed(s, e0, c, q, r)
  BY <1>1, Eras, Zenon
<1>. DEFINE k   == 100 * c + 4 * q + r
            day == 36524 * c + 1461 * q + 365 * r + n
<1>5. /\ e0 \in Nat /\ c \in 0..3 /\ q \in 0..24 /\ r \in 0..3
      /\ s = 400 * e0 + 100 * c + 4 * q + r
  BY <1>4, SMT DEF Placed
<1>6. n = 365 => r = 3 /\ (q # 24 \/ c = 3)
  <2>. SUFFICES ASSUME n = 365 PROVE r = 3 /\ (q # 24 \/ c = 3)
    BY Zenon
  <2>1. C!MonthLength(y, 2) = 29 /\ m = 2 /\ y \in Nat
    BY <1>3, SMT DEF Valid
  <2>2. y = s + 1 /\ (y % 400 = 0 \/ (y % 4 = 0 /\ y % 100 # 0))
    BY <1>2, <2>1, SMT DEF C!MonthLength
  <2>3. y = 400 * e0 + 100 * c + 4 * q + r + 1
    BY <1>5, <2>2, SMT
  <2>. QED  BY <1>5, <2>2, <2>3, SMT
<1>7. Before(s) + n = 146097 * e0 + day
  <2>1. s \div 4 = 100 * e0 + 25 * c + q /\ s \div 100 = 4 * e0 + c /\ s \div 400 = e0
    BY <1>5, SMT
  <2>. QED  BY <1>3, <1>5, <2>1, SMT DEF Before
<1>8. InEra(day, c, q, r, n)
  BY <1>3, <1>5, <1>6, SMT DEF InEra
<1>. HIDE DEF day
<1>9. /\ day \in Nat /\ day <= 146096 /\ C!YearOfEra(day) = k /\ k \in Nat
      /\ day - (365 * k + k \div 4 - k \div 100) = n
  BY <1>8, YearRecovered, SMT
<1>10. s = k + e0 * 400
  BY <1>5, SMT
<1>. HIDE DEF k, x
<1>11. x = 146097 * e0 + day
  BY <1>2, <1>7, SMT
<1>12. x \in Nat /\ x - e0 * 146097 = day /\ x \div 146097 = e0
  BY ONLY <1>5, <1>9, <1>11, SMT
<1>13. C!Quotient(IF x >= 0 THEN x ELSE x - 146096, 146097) = e0
  BY <1>12, SMT DEF C!Quotient
<1>14. C!civil_from_days(C!days_from_civil(y, m, d)) = C!DateInEra(e0, day, k)
  <2>1. x = C!days_from_civil(y, m, d) + 719468
    BY DEF x
  <2>. QED  BY ONLY <1>9, <1>12, <1>13, <2>1, SMT DEF C!civil_from_days
<1>15. C!DateInEra(e0, day, k) =
        <<IF m <= 2 THEN k + e0 * 400 + 1 ELSE k + e0 * 400, m, d>>
  BY <1>3, <1>9, SMT DEF C!DateInEra, MonthOf
<1>16. y = IF m <= 2 THEN s + 1 ELSE s
  BY <1>1, <1>2, SMT DEF Valid
<1>. QED  BY ONLY <1>10, <1>14, <1>15, <1>16, SMT

\* The day after, within a month.
LEMMA DayAfter ==
    ASSUME NEW y, NEW m, NEW d, Valid(y, m, d), d < C!MonthLength(y, m)
    PROVE  /\ Valid(y, m, d + 1)
           /\ C!days_from_civil(y, m, d + 1) = C!days_from_civil(y, m, d) + 1
<1>1. C!MonthLength(y, m) \in Nat
  BY LeapDay, SMT DEF Valid, C!MonthLength
<1>2. Valid(y, m, d + 1)
  BY <1>1, SMT DEF Valid
<1>. QED  BY <1>2, CountsDays, SMT

\* The day after the last of a month.
LEMMA MonthAfter ==
    ASSUME NEW y \in Nat, y >= 1, NEW m \in 1..11
    PROVE  /\ Valid(y, m, C!MonthLength(y, m)) /\ Valid(y, m + 1, 1)
           /\ C!days_from_civil(y, m + 1, 1) =
                 C!days_from_civil(y, m, C!MonthLength(y, m)) + 1
<1>1. m \in {1, 2, 3, 4, 5, 6, 7, 8, 9, 10, 11}
  BY SMT
<1>2. /\ m \in {4, 6, 9, 11} => C!MonthLength(y, m) = 30
      /\ m \in {1, 3, 5, 7, 8, 10} => C!MonthLength(y, m) = 31
      /\ m = 2 => C!MonthLength(y, m) \in {28, 29}
  BY LeapDay, SMT DEF C!MonthLength
<1>3. C!MonthLength(y, m + 1) \in Nat /\ C!MonthLength(y, m + 1) >= 1
  BY SMT DEF C!MonthLength
<1>4. Valid(y, m, C!MonthLength(y, m)) /\ Valid(y, m + 1, 1)
  BY <1>1, <1>2, <1>3, SMT DEF Valid
<1>5. CASE m = 2
  <2>1. /\ C!days_from_civil(y, 3, 1) =
              Before(C!ShiftedYear(y, 3)) + MonthStart(3) + 1 - 1 - 719468
        /\ C!days_from_civil(y, 2, C!MonthLength(y, 2)) =
              Before(C!ShiftedYear(y, 2)) + MonthStart(2)
                + C!MonthLength(y, 2) - 1 - 719468
    BY <1>4, <1>5, CountsDays, SMT
  <2>2. C!ShiftedYear(y, 3) = y /\ C!ShiftedYear(y, 2) = y - 1
    BY SMT DEF C!ShiftedYear
  <2>3. Before(y) \in Int /\ Before(y - 1) \in Int
    BY SMT DEF Before
  <2>. QED  BY <1>4, <1>5, <2>1, <2>2, <2>3, LeapDay, Months, SMT
<1>6. CASE m # 2
  <2>1. MonthStart(m + 1) = MonthStart(m) + C!MonthLength(y, m)
    BY <1>1, <1>2, <1>6, Months, SMT
  <2>2. C!ShiftedYear(y, m + 1) = C!ShiftedYear(y, m)
    BY <1>6, SMT DEF C!ShiftedYear
  <2>3. C!MonthLength(y, m) \in Nat /\ MonthStart(m) \in Nat
    BY <1>1, <1>2, Months, SMT
  <2>. QED  BY <1>4, <2>1, <2>2, <2>3, CountsDays, SMT
<1>. QED  BY <1>5, <1>6, SMT

\* The day after the last of a year.
LEMMA YearAfter ==
    ASSUME NEW y \in Nat, y >= 1
    PROVE  /\ C!MonthLength(y, 12) = 31
           /\ Valid(y, 12, 31) /\ Valid(y + 1, 1, 1)
           /\ C!days_from_civil(y + 1, 1, 1) = C!days_from_civil(y, 12, 31) + 1
<1>1. C!MonthLength(y, 12) = 31 /\ C!MonthLength(y + 1, 1) = 31
  BY SMT DEF C!MonthLength
<1>2. Valid(y, 12, 31) /\ Valid(y + 1, 1, 1)
  BY <1>1, SMT DEF Valid
<1>3. C!ShiftedYear(y + 1, 1) = C!ShiftedYear(y, 12)
  BY SMT DEF C!ShiftedYear
<1>. QED  BY <1>1, <1>2, <1>3, CountsDays, Months, SMT

\* The three date checks accept the days of the calendar.
LEMMA ChecksAgree ==
    ASSUME NEW y, NEW m, NEW d, Valid(y, m, d), NEW day \in 0..32
    PROVE  /\ C!is_rfc3339_millisecond_utc(y, m, day) = (day \in 1..C!MonthLength(y, m))
           /\ C!ReceiptDate(y, m, day) = (day \in 1..C!MonthLength(y, m))
           /\ C!instant(y, m, day) = (day \in 1..C!MonthLength(y, m))
<1>1. m \in {1, 2, 3, 4, 5, 6, 7, 8, 9, 10, 11, 12} /\ y \in Nat /\ y >= 1
  BY SMT DEF Valid
<1>2. C!days_per_month[m] = IF m = 2 THEN 28 ELSE C!MonthLength(y, m)
  BY <1>1, SMT DEF C!days_per_month, C!MonthLength
<1>3. y % 400 = 0 => y % 100 = 0 /\ y % 4 = 0
  BY <1>1, SMT
<1>4. /\ C!MonthLength(y, m) \in 28..31
      /\ m = 2 => C!MonthLength(y, m) =
                   IF y % 400 = 0 \/ (y % 4 = 0 /\ y % 100 # 0) THEN 29 ELSE 28
  BY <1>1, SMT DEF C!MonthLength
<1>5. C!is_rfc3339_millisecond_utc(y, m, day) <=> day \in 1..C!MonthLength(y, m)
  BY <1>1, <1>2, <1>4, SMT DEF C!is_rfc3339_millisecond_utc, C!leap_year
<1>6. C!ReceiptDate(y, m, day) <=> day \in 1..C!MonthLength(y, m)
  BY <1>1, <1>2, <1>3, <1>4, SMT DEF C!ReceiptDate
<1>7. C!instant(y, m, day) <=> day \in 1..C!MonthLength(y, m)
  BY <1>1, <1>2, <1>3, <1>4, SMT DEF C!instant
<1>8. /\ C!is_rfc3339_millisecond_utc(y, m, day) \in BOOLEAN
      /\ C!ReceiptDate(y, m, day) \in BOOLEAN
      /\ C!instant(y, m, day) \in BOOLEAN
  BY Zenon DEF C!is_rfc3339_millisecond_utc, C!ReceiptDate, C!instant
<1>9. \A p, q \in BOOLEAN : (p <=> q) => p = q
  BY SMT
<1>10. (day \in 1..C!MonthLength(y, m)) \in BOOLEAN
  BY SMT
<1>. QED  BY ONLY <1>5, <1>6, <1>7, <1>8, <1>9, <1>10, SMT

\* The calendar turned by one day, forwards or backwards.
LEMMA CalendarStep ==
    ASSUME DaysBefore \in Nat, DaysBefore <= 719162, CalendarInv, [C!Next]_(C!vars)
    PROVE  CalendarInv'
<1>. DEFINE y == date[1]
            m == date[2]
            d == date[3]
            Counted(a, b, c) == /\ date' = <<a, b, c>> /\ Valid(a, b, c)
                                /\ number' = C!days_from_civil(a, b, c)
<1>0. /\ Valid(y, m, d) /\ number = C!days_from_civil(y, m, d)
      /\ y \in Nat /\ y >= 1 /\ m \in 1..12 /\ d \in Nat /\ d >= 1
      /\ C!MonthLength(y, m) \in 28..31 /\ d <= C!MonthLength(y, m)
  BY SMT DEF CalendarInv, Valid, C!MonthLength
<1>1. ASSUME NEW a, NEW b, NEW c, Counted(a, b, c)
      PROVE  CalendarInv'
  BY <1>1, SMT DEF CalendarInv
<1>2. CASE C!Tomorrow
  <2>1. /\ number' = number + 1
        /\ date' = IF d < C!MonthLength(y, m) THEN <<y, m, d + 1>>
                   ELSE IF m < 12 THEN <<y, m + 1, 1>> ELSE <<y + 1, 1, 1>>
    BY <1>2, SMT DEF C!Tomorrow
  <2>2. CASE d < C!MonthLength(y, m)
    <3>1. Counted(y, m, d + 1)
      BY <1>0, <2>1, <2>2, DayAfter, SMT
    <3>. QED  BY <3>1, <1>1, SMT
  <2>3. CASE ~(d < C!MonthLength(y, m)) /\ m < 12
    <3>1. d = C!MonthLength(y, m) /\ m \in 1..11
      BY <1>0, <2>3, SMT
    <3>2. Counted(y, m + 1, 1)
      BY <1>0, <2>1, <2>3, <3>1, MonthAfter, SMT
    <3>. QED  BY <3>2, <1>1, SMT
  <2>4. CASE ~(d < C!MonthLength(y, m)) /\ ~(m < 12)
    <3>1. m = 12 /\ d = 31
      BY <1>0, <2>4, YearAfter, SMT
    <3>2. Counted(y + 1, 1, 1)
      BY <1>0, <2>1, <2>4, <3>1, YearAfter, SMT
    <3>. QED  BY <3>2, <1>1, SMT
  <2>. QED  BY <2>2, <2>3, <2>4, SMT
<1>3. CASE C!Yesterday
  <2>1. /\ number' = number - 1 /\ number > -DaysBefore
        /\ date' = IF d > 1 THEN <<y, m, d - 1>>
                   ELSE IF m > 1 THEN <<y, m - 1, C!MonthLength(y, m - 1)>>
                   ELSE <<y - 1, 12, 31>>
    BY <1>3, SMT DEF C!Yesterday
  <2>2. CASE d > 1
    <3>1. Valid(y, m, d - 1) /\ d - 1 < C!MonthLength(y, m) /\ (d - 1) + 1 = d
      BY <1>0, <2>2, SMT DEF Valid
    <3>2. C!days_from_civil(y, m, d - 1) \in Int
      BY <3>1, CountsDays, SMT
    <3>3. C!days_from_civil(y, m, (d - 1) + 1) = C!days_from_civil(y, m, d - 1) + 1
      BY <3>1, DayAfter, SMT
    <3>4. Counted(y, m, d - 1)
      BY <1>0, <2>1, <2>2, <3>1, <3>2, <3>3, SMT
    <3>. QED  BY <3>4, <1>1, SMT
  <2>3. CASE ~(d > 1) /\ m > 1
    <3>1. d = 1 /\ m - 1 \in 1..11 /\ (m - 1) + 1 = m
      BY <1>0, <2>3, SMT
    <3>2. /\ Valid(y, m - 1, C!MonthLength(y, m - 1))
          /\ C!days_from_civil(y, (m - 1) + 1, 1) =
                C!days_from_civil(y, m - 1, C!MonthLength(y, m - 1)) + 1
      BY <1>0, <3>1, MonthAfter, SMT
    <3>3. C!days_from_civil(y, m - 1, C!MonthLength(y, m - 1)) \in Int
      BY <3>2, CountsDays, SMT
    <3>4. Counted(y, m - 1, C!MonthLength(y, m - 1))
      BY <1>0, <2>1, <2>3, <3>1, <3>2, <3>3, SMT
    <3>. QED  BY <3>4, <1>1, SMT
  <2>4. CASE ~(d > 1) /\ ~(m > 1)
    <3>1. d = 1 /\ m = 1
      BY <1>0, <2>4, SMT
    <3>2. y # 1
      <4>1. C!days_from_civil(1, 1, 1) = -719162
        BY SMT DEF C!days_from_civil, C!ShiftedYear, C!Quotient
      <4>. QED  BY <1>0, <2>1, <3>1, <4>1, SMT
    <3>3. y - 1 \in Nat /\ y - 1 >= 1 /\ (y - 1) + 1 = y
      BY <1>0, <3>2, SMT
    <3>4. /\ Valid(y - 1, 12, 31)
          /\ C!days_from_civil((y - 1) + 1, 1, 1) = C!days_from_civil(y - 1, 12, 31) + 1
      BY <3>3, YearAfter, SMT
    <3>5. C!days_from_civil(y - 1, 12, 31) \in Int
      BY <3>4, CountsDays, SMT
    <3>6. Counted(y - 1, 12, 31)
      BY <1>0, <2>1, <2>4, <3>1, <3>3, <3>4, <3>5, SMT
    <3>. QED  BY <3>6, <1>1, SMT
  <2>. QED  BY <2>2, <2>3, <2>4, SMT
<1>4. CASE UNCHANGED C!vars
  BY <1>4, SMT DEF CalendarInv, C!vars
<1>. QED  BY <1>2, <1>3, <1>4, SMT DEF C!Next

\* From the first day of the year 1 on, the conversions of days to dates and
\* back and the three date checks agree with the calendar on every day.
\* There is no year 0 for the checks of source timestamps.
THEOREM CalendarAgrees ==
    ASSUME DaysBefore \in Nat, DaysBefore <= 719162
    PROVE  C!Spec => []AgreesWithCalendar
<1>1. C!Init => CalendarInv
  <2>1. C!days_from_civil(1970, 1, 1) = 0
    BY SMT DEF C!days_from_civil, C!ShiftedYear, C!Quotient
  <2>2. Valid(1970, 1, 1)
    BY SMT DEF Valid, C!MonthLength
  <2>. QED  BY <2>1, <2>2, SMT DEF C!Init, CalendarInv
<1>2. CalendarInv /\ [C!Next]_(C!vars) => CalendarInv'
  BY CalendarStep, SMT
<1>3. CalendarInv => AgreesWithCalendar
  <2>. SUFFICES ASSUME CalendarInv PROVE C!Converts /\ C!SameDates
    BY SMT DEF AgreesWithCalendar, C!AgreesWithCalendar
  <2>1. Valid(date[1], date[2], date[3])
    BY SMT DEF CalendarInv
  <2>2. C!Converts
    <3>1. /\ date = <<date[1], date[2], date[3]>>
          /\ number = C!days_from_civil(date[1], date[2], date[3])
      BY SMT DEF CalendarInv
    <3>2. C!civil_from_days(C!days_from_civil(date[1], date[2], date[3])) =
            <<date[1], date[2], date[3]>>
      BY <2>1, DateRecovered, SMT
    <3>. QED  BY ONLY <3>1, <3>2, SMT DEF C!Converts
  <2>3. C!SameDates
    <3>. SUFFICES ASSUME NEW d \in 0..32
                  PROVE  LET y == date[1]  m == date[2]
                             real == d \in 1..C!MonthLength(y, m)
                         IN  /\ C!is_rfc3339_millisecond_utc(y, m, d) = real
                             /\ C!ReceiptDate(y, m, d) = real
                             /\ C!instant(y, m, d) = real
      BY SMT DEF C!SameDates
    <3>. QED  BY <2>1, ChecksAgree, SMT
  <2>. QED  BY <2>2, <2>3, SMT
<1>. QED  BY <1>1, <1>2, <1>3, PTL DEF C!Spec

=============================================================================
