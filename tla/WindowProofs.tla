---------------------------- MODULE WindowProofs ----------------------------
(***************************************************************************)
(* The episodes of the V1 window engine (v1/window.cpp) for every value of *)
(* the durations, the sample limits and the frame steps: every window it   *)
(* hands out is in order and within its limits.                            *)
(***************************************************************************)
EXTENDS CaptureProofs, FiniteSetTheorems

-----------------------------------------------------------------------------
(* The window of an episode.                                               *)

\* phase_count of a longer window.
LEMMA CountAppend ==
    ASSUME NEW w \in Seq(Samples), NEW s \in Samples, NEW p
    PROVE  /\ phase_count(w, p) \in Nat
           /\ phase_count(Append(w, s), p)
                 = phase_count(w, p) + IF s.phase = p THEN 1 ELSE 0
<1>. DEFINE longer == Append(w, s)
            In(v) == {i \in DOMAIN v : v[i].phase = p}
<1>1. /\ longer \in Seq(Samples) /\ Len(longer) = Len(w) + 1
      /\ \A i \in 1..Len(w) : longer[i] = w[i]
      /\ longer[Len(w) + 1] = s
  BY SeqAppended
<1>2. Len(w) \in Nat /\ DOMAIN w = 1..Len(w) /\ DOMAIN longer = 1..(Len(w) + 1)
  BY <1>1, SeqElements, Zenon
<1>3. IsFiniteSet(In(w)) /\ Cardinality(In(w)) \in Nat
  <2>1. IsFiniteSet(1..Len(w))
    BY <1>2, FS_Interval
  <2>2. In(w) \subseteq 1..Len(w)
    BY <1>2, Zenon
  <2>3. IsFiniteSet(In(w))
    BY <2>1, <2>2, FS_Subset, Zenon
  <2>. QED BY <2>3, FS_CardinalityType, Zenon
<1>. HIDE DEF longer
<1>4. CASE s.phase = p
  <2>1. In(longer) = In(w) \union {Len(w) + 1}
    BY <1>1, <1>2, <1>4
  <2>2. Len(w) + 1 \notin In(w)
    BY <1>2
  <2>. HIDE DEF In
  <2>3. Cardinality(In(longer)) = Cardinality(In(w)) + 1
    BY <1>3, <2>1, <2>2, FS_AddElement, Zenon
  <2>. QED BY <1>3, <1>4, <2>3, Zenon DEF phase_count, In, longer
<1>5. CASE s.phase # p
  <2>1. In(longer) = In(w)
    BY <1>1, <1>2, <1>5
  <2>2. phase_count(longer, p) = phase_count(w, p) /\ phase_count(w, p) \in Nat
    BY <2>1, <1>3, Zenon DEF phase_count
  <2>. QED BY <1>5, <2>2 DEF longer
<1>. QED BY <1>4, <1>5, Zenon

\* phase_count of a ring, which has nothing but PRE samples.
LEMMA CountRing ==
    ASSUME NEW w \in Seq(Samples), \A i \in 1..Len(w) : w[i].phase = "PRE"
    PROVE  /\ phase_count(w, "PRE") = Len(w)
           /\ phase_count(w, "ACTIVE") = 0
<1>1. Len(w) \in Nat /\ DOMAIN w = 1..Len(w)
  BY SeqElements, Zenon
<1>2. {i \in DOMAIN w : w[i].phase = "PRE"} = 1..Len(w)
  BY <1>1, Zenon
<1>3. {i \in DOMAIN w : w[i].phase = "ACTIVE"} = {}
  BY <1>1, Zenon
<1>4. Cardinality(1..Len(w)) = Len(w)
  BY <1>1, FS_Interval, SMTT(30)
<1>5. Cardinality({}) = 0
  BY FS_EmptySet, Zenon
<1>. QED BY <1>2, <1>3, <1>4, <1>5, Zenon DEF phase_count

\* An episode that began at start, as far as it is captured by the time now.
Episode(w, start, now) ==
    /\ w \in Seq(Samples) /\ Shape(w) /\ start <= now
    /\ \A i \in 1..Len(w) : start <= w[i].at /\ w[i].at <= now

LEMMA EpisodeWaits ==
    ASSUME NEW w, NEW start \in Int, NEW was \in Int, NEW now \in Int,
           was <= now, Episode(w, start, was)
    PROVE  Episode(w, start, now)
<1>. SUFFICES ASSUME NEW i \in 1..Len(w) PROVE w[i].at <= now
  BY DEF Episode
<1>1. w[i] \in Samples
  BY SeqElements, Zenon DEF Episode
<1>2. w[i].at \in Int /\ w[i].at <= was
  BY <1>1, Zenon DEF Samples, Episode
<1>. QED BY <1>2

\* A frame inside the limits extends the episode.
LEMMA EpisodeGrows ==
    ASSUME NEW w, NEW start \in Int, NEW was \in Int, NEW now \in Int,
           NEW p \in {"ACTIVE", "POST"}, was <= now, Episode(w, start, was),
           now - start < EventLimit, Len(w) < MaxTotal,
           phase_count(w, "ACTIVE") < MaxActive
    PROVE  LET longer == Append(w, [phase |-> p, at |-> now])
           IN  Episode(longer, start, now)
<1>. DEFINE s == [phase |-> p, at |-> now]
            longer == Append(w, s)
<1>1. w \in Seq(Samples) /\ Shape(w) /\ Len(w) \in Nat /\ DOMAIN w = 1..Len(w)
  BY SeqElements, Zenon DEF Episode
<1>2. s \in Samples /\ s.phase = p /\ s.at = now /\ s.phase # "PRE"
  BY Zenon DEF Samples, Phases
<1>. HIDE DEF s
<1>3. /\ longer \in Seq(Samples) /\ Len(longer) = Len(w) + 1
      /\ \A i \in 1..Len(w) : longer[i] = w[i]
      /\ longer[Len(w) + 1] = s
  BY <1>1, <1>2, SeqAppended
<1>4. /\ MaxTotal \in Nat /\ MaxPre \in Nat /\ MaxActive \in Nat
      /\ EventLimit \in Nat /\ PreDuration \in Nat
  BY TimingAssumption, Zenon
<1>5. phase_count(longer, "PRE") <= MaxPre /\ phase_count(longer, "ACTIVE") <= MaxActive
  <2>1. /\ phase_count(w, "PRE") \in Nat /\ phase_count(w, "ACTIVE") \in Nat
        /\ phase_count(longer, "PRE") = phase_count(w, "PRE") + 0
        /\ phase_count(longer, "ACTIVE")
              \in {phase_count(w, "ACTIVE"), phase_count(w, "ACTIVE") + 1}
    BY <1>1, <1>2, CountAppend
  <2>2. phase_count(w, "PRE") <= MaxPre
    BY <1>1, Zenon DEF Shape
  <2>. QED BY <1>4, <2>1, <2>2
<1>. HIDE DEF longer
<1>6. DOMAIN longer = 1..(Len(w) + 1) /\ Len(longer) <= MaxTotal
  BY <1>1, <1>3, <1>4, SeqElements
<1>7. \A i \in 1..Len(w) : w[i].at \in Int /\ start <= w[i].at /\ w[i].at <= now
  <2>. SUFFICES ASSUME NEW i \in 1..Len(w)
                PROVE  w[i].at \in Int /\ start <= w[i].at /\ w[i].at <= now
    BY Zenon
  <2>1. w[i] \in Samples
    BY <1>1, SeqElements, Zenon
  <2>2. w[i].at \in Int /\ start <= w[i].at /\ w[i].at <= was
    BY <2>1, Zenon DEF Samples, Episode
  <2>. QED BY <2>2
<1>8. ASSUME NEW i \in DOMAIN longer, NEW j \in DOMAIN longer, i < j
      PROVE  /\ longer[j].phase = "PRE" => longer[i].phase = "PRE"
             /\ longer[i].at <= longer[j].at
             /\ longer[j].at - longer[i].at < EventLimit
             /\ longer[j].phase = "PRE" => longer[j].at - longer[i].at <= PreDuration
  <2>1. i \in 1..Len(w) /\ longer[i] = w[i]
    BY <1>1, <1>3, <1>6, <1>8
  <2>2. CASE j = Len(w) + 1
    <3>1. longer[j] = s
      BY <2>2, <1>3, Zenon
    <3>2. longer[j].phase # "PRE" /\ longer[j].at = now
      BY <3>1, <1>2, Zenon
    <3>3. w[i].at <= now /\ now - w[i].at < EventLimit
      BY <2>1, <1>4, <1>7
    <3>. QED BY <2>1, <3>2, <3>3, Zenon
  <2>3. CASE j # Len(w) + 1
    <3>1. j \in 1..Len(w) /\ longer[j] = w[j]
      BY <2>3, <1>1, <1>3, <1>6
    <3>. QED BY <2>1, <3>1, <1>1, <1>8, Zenon DEF Shape
  <2>. QED BY <2>2, <2>3, Zenon
<1>9. Shape(longer)
  BY <1>5, <1>6, <1>8, Zenon DEF Shape
<1>10. start <= now
  BY DEF Episode
<1>11. ASSUME NEW i \in 1..Len(longer) PROVE start <= longer[i].at /\ longer[i].at <= now
  <2>1. CASE i = Len(w) + 1
    <3>1. longer[i].at = now
      BY <2>1, <1>2, <1>3, Zenon
    <3>. QED BY <3>1, <1>10
  <2>2. CASE i # Len(w) + 1
    <3>1. i \in 1..Len(w)
      BY <2>2, <1>1, <1>3
    <3>. QED BY <3>1, <1>3, <1>7, Zenon
  <2>. QED BY <2>1, <2>2, Zenon
<1>12. Episode(longer, start, now)
  BY <1>3, <1>9, <1>10, <1>11, Zenon DEF Episode
<1>. QED BY <1>12, Zenon DEF longer, s

\* What begin_event takes over from the PRE ring is an episode, and a frame
\* that is retained extends it.
LEMMA EpisodeBegins ==
    ASSUME NEW ring, NEW was \in Int, NEW now \in Int, was <= now, PreRing(ring, was)
    PROVE  LET kept == recent(ring, now)
               start == IF kept = <<>> THEN now ELSE Head(kept).at
               longer == Append(kept, [phase |-> "ACTIVE", at |-> now])
           IN  /\ start \in Int
               /\ Episode(kept, start, now)
               /\ Episode(longer, start, now)
<1>. DEFINE kept == recent(ring, now)
            start == IF kept = <<>> THEN now ELSE Head(kept).at
            longer == Append(kept, [phase |-> "ACTIVE", at |-> now])
<1>1. /\ PreRing(kept, was)
      /\ \A i \in 1..Len(kept) : now - kept[i].at <= PreDuration
  BY RecentRing, Zenon
<1>. HIDE DEF kept
<1>2. /\ kept \in Seq(Samples) /\ Len(kept) \in Nat /\ DOMAIN kept = 1..Len(kept)
      /\ Len(kept) <= MaxPre /\ Ordered(kept)
      /\ \A i \in 1..Len(kept) : kept[i].phase = "PRE"
  BY <1>1, SeqElements, Zenon DEF PreRing
<1>3. /\ MaxTotal \in Nat /\ MaxPre \in Nat /\ MaxActive \in Nat /\ MaxActive >= 1
      /\ EventLimit \in Nat /\ EventLimit >= 1 /\ PreDuration \in Nat
      /\ MaxPre < MaxTotal /\ PreDuration < EventLimit
  BY TimingAssumption
<1>4. ASSUME NEW i \in 1..Len(kept)
      PROVE  kept[i].at \in Int /\ kept[i].at <= now /\ now - kept[i].at <= PreDuration
  <2>1. kept[i] \in Samples
    BY <1>2, SeqElements, Zenon
  <2>2. kept[i].at \in Int /\ kept[i].at <= was
    BY <2>1, <1>1, Zenon DEF Samples, PreRing
  <2>. QED BY <2>2, <1>1
<1>5. /\ start \in Int /\ start <= now /\ now - start <= PreDuration
      /\ \A i \in 1..Len(kept) : start <= kept[i].at
  <2>1. CASE kept = <<>>
    <3>1. start = now /\ Len(kept) = 0
      BY <2>1, Zenon
    <3>. QED BY <3>1, <1>3
  <2>2. CASE kept # <<>>
    <3>1. 1 \in 1..Len(kept) /\ start = kept[1].at
      BY <2>2, <1>2
    <3>. HIDE DEF start
    <3>2. ASSUME NEW i \in 1..Len(kept) PROVE start <= kept[i].at
      <4>1. CASE i = 1
        BY <4>1, <3>1, <1>4
      <4>2. CASE i # 1
        <5>1. 1 < i
          BY <4>2, <1>2
        <5>. QED BY <5>1, <3>1, <1>2, Zenon DEF Ordered
      <4>. QED BY <4>1, <4>2, Zenon
    <3>. QED BY <3>1, <3>2, <1>4, Zenon
  <2>. QED BY <2>1, <2>2, Zenon
<1>. HIDE DEF start
<1>6. phase_count(kept, "PRE") = Len(kept) /\ phase_count(kept, "ACTIVE") = 0
  BY <1>2, CountRing, Zenon
<1>7. ASSUME NEW i \in DOMAIN kept, NEW j \in DOMAIN kept, i < j
      PROVE  /\ kept[j].phase = "PRE" => kept[i].phase = "PRE"
             /\ kept[i].at <= kept[j].at
             /\ kept[j].at - kept[i].at < EventLimit
             /\ kept[j].phase = "PRE" => kept[j].at - kept[i].at <= PreDuration
  <2>1. kept[i].at <= kept[j].at
    BY <1>2, <1>7, Zenon DEF Ordered
  <2>2. /\ kept[i].at \in Int /\ now - kept[i].at <= PreDuration
        /\ kept[j].at \in Int /\ kept[j].at <= now
    BY <1>2, <1>4, Zenon
  <2>3. kept[j].at - kept[i].at <= PreDuration /\ kept[j].at - kept[i].at < EventLimit
    BY <2>2, <1>3
  <2>. QED BY <2>1, <2>3, <1>2, Zenon
<1>8. Shape(kept)
  <2>1. Len(kept) <= MaxTotal /\ phase_count(kept, "PRE") <= MaxPre
        /\ phase_count(kept, "ACTIVE") <= MaxActive
    BY <1>2, <1>3, <1>6
  <2>. QED BY <2>1, <1>7, Zenon DEF Shape
<1>9. Episode(kept, start, now)
  BY <1>2, <1>4, <1>5, <1>8, Zenon DEF Episode
<1>10. Episode(longer, start, now)
  <2>1. now - start < EventLimit /\ Len(kept) < MaxTotal
        /\ phase_count(kept, "ACTIVE") < MaxActive
    BY <1>2, <1>3, <1>5, <1>6
  <2>2. now <= now
    OBVIOUS
  <2>. QED BY <2>1, <2>2, <1>5, <1>9, EpisodeGrows, Zenon
<1>. QED BY <1>5, <1>9, <1>10, Zenon DEF kept, start, longer

-----------------------------------------------------------------------------
(* The episode of the V1 engine, from frame to frame.                      *)

\* The episode in progress, and what was handed out.
EpisodeInv ==
    /\ state \in {"Idle", "Active", "Post"} /\ event_start \in Int
    /\ state # "Idle" =>
          \E u \in last : Episode(samples, event_start, u.mono)
    /\ \A w \in completed : Shape(w.samples)

\* The episode as the next frame finds it.
LEMMA EpisodeBefore ==
    ASSUME RingInv, EpisodeInv, state # "Idle", NEW f \in FramesAfter(last), ~Reordered(f)
    PROVE  /\ \E was \in Int : was <= f.mono /\ Episode(samples, event_start, was)
           /\ Episode(samples, event_start, f.mono)
<1>1. PICK u \in last : Episode(samples, event_start, u.mono)
  BY Zenon DEF EpisodeInv
<1>2. u \in Times
  BY Zenon DEF RingInv, LastType
<1>3. u.mono \in Int /\ f.mono \in Int /\ event_start \in Int
  BY <1>2, RingBefore, Zenon DEF Times, EpisodeInv
<1>4. ~(f.mono < u.mono)
  BY Zenon DEF Reordered
<1>5. u.mono <= f.mono
  BY <1>3, <1>4
<1>6. Episode(samples, event_start, f.mono)
  BY <1>1, <1>3, <1>5, EpisodeWaits
<1>. QED BY <1>1, <1>3, <1>5, <1>6, Zenon DEF EpisodeInv

\* add_capture_sample inside the limits.
LEMMA WindowGrows ==
    ASSUME RingInv, EpisodeInv, state # "Idle", NEW f \in FramesAfter(last),
           ~Reordered(f), ~over_limit(f), NEW p \in {"ACTIVE", "POST"}
    PROVE  Episode(add_capture_sample(f, p), event_start, f.mono)
<1>1. /\ Episode(samples, event_start, f.mono)
      /\ f.mono \in Int /\ event_start \in Int
  BY EpisodeBefore, RingBefore, Zenon DEF EpisodeInv
<1>2. CASE retained(f) /\ Len(samples) < MaxTotal
  <2>1. add_capture_sample(f, p) = Append(samples, [phase |-> p, at |-> f.mono])
    BY <1>2, Zenon DEF add_capture_sample
  <2>2. samples \in Seq(Samples) /\ phase_count(samples, "ACTIVE") \in Nat
    <3>1. samples \in Seq(Samples) /\ [phase |-> p, at |-> f.mono] \in Samples
      BY <1>1, Zenon DEF Episode, Samples, Phases
    <3>. QED BY <3>1, CountAppend, Zenon
  <2>3. EventLimit \in Nat /\ MaxActive \in Nat
    BY TimingAssumption, Zenon
  <2>4. f.mono - event_start < EventLimit
    <3>1. ~(f.mono - event_start >= EventLimit)
      BY Zenon DEF over_limit
    <3>. QED BY <3>1, <2>3, <1>1
  <2>5. phase_count(samples, "ACTIVE") < MaxActive
    <3>1. ~(phase_count(samples, "ACTIVE") >= MaxActive)
      BY Zenon DEF over_limit
    <3>. QED BY <3>1, <2>2, <2>3
  <2>6. f.mono <= f.mono
    BY <1>1
  <2>. QED BY <2>1, <2>4, <2>5, <2>6, <1>1, <1>2, EpisodeGrows, Zenon
<1>3. CASE ~(retained(f) /\ Len(samples) < MaxTotal)
  <2>1. add_capture_sample(f, p) = samples
    BY <1>3, Zenon DEF add_capture_sample
  <2>. QED BY <2>1, <1>1, Zenon
<1>. QED BY <1>2, <1>3, Zenon

\* The end of a path that keeps the episode, or finds it full.
LEMMA CaptureKeeps ==
    ASSUME EpisodeInv, NEW f, Received(f), NEW window, capture(window),
           Episode(window, event_start, f.mono),
           Len(window) < MaxTotal => state' \in {"Active", "Post"}
    PROVE  EpisodeInv'
<1>1. Shape(window)
  BY Zenon DEF Episode
<1>2. CASE finish("TRUNCATED_MAX_DURATION", window)
  <2>1. /\ state' = "Idle" /\ event_start' = event_start
        /\ completed' = {[terminal |-> "TRUNCATED_MAX_DURATION", samples |-> window]}
    BY <1>2, Zenon DEF finish
  <2>2. \A w \in completed' : w.samples = window
    BY <2>1
  <2>. QED BY <1>1, <2>1, <2>2, Zenon DEF EpisodeInv
<1>3. CASE /\ Len(window) < MaxTotal /\ samples' = window /\ completed' = {}
           /\ event_start' = event_start
  <2>1. \E u \in last' : u.mono = f.mono
    BY Zenon DEF Received
  <2>2. \E u \in last' : Episode(samples', event_start', u.mono)
    BY <1>3, <2>1, Zenon
  <2>. QED BY <1>3, <2>2, Zenon DEF EpisodeInv
<1>. QED BY <1>2, <1>3, Zenon DEF capture

\* finish hands out the episode.
LEMMA FinishKeeps ==
    ASSUME EpisodeInv, NEW terminal, state # "Idle", finish(terminal, samples)
    PROVE  EpisodeInv'
<1>1. Shape(samples)
  BY Zenon DEF EpisodeInv, Episode
<1>2. /\ state' = "Idle" /\ event_start' = event_start
      /\ completed' = {[terminal |-> terminal, samples |-> samples]}
  BY Zenon DEF finish
<1>3. \A w \in completed' : w.samples = samples
  BY <1>2
<1>. QED BY <1>1, <1>2, <1>3, Zenon DEF EpisodeInv

LEMMA EpisodeStep == RingInv /\ EpisodeInv /\ [Next]_vars => EpisodeInv'
<1>. SUFFICES ASSUME RingInv, EpisodeInv, [Next]_vars PROVE EpisodeInv'
  BY Zenon
<1>1. ASSUME NEW f \in FramesAfter(last), ingest(f) PROVE EpisodeInv'
  <2>1. Received(f) /\ ~Reordered(f)
    BY <1>1, IngestTimes, Zenon DEF Received
  <2>2. \E u \in last' : u.mono = f.mono
    BY <2>1, Zenon DEF Received
  <2>3. CASE IngestSuppressed(f)
    <3>1. state' = state /\ samples' = samples /\ event_start' = event_start /\ completed' = {}
      BY <2>3, Zenon DEF IngestSuppressed, clocks
    <3>2. state # "Idle" => Episode(samples, event_start, f.mono)
      BY <2>1, EpisodeBefore, Zenon
    <3>3. state' # "Idle" => \E u \in last' : Episode(samples', event_start', u.mono)
      BY <3>1, <3>2, <2>2, Zenon
    <3>. QED BY <3>1, <3>2, <3>3, Zenon DEF EpisodeInv
  <2>4. CASE IngestIdle(f)
    <3>1. CASE begin_event(f)
      <4>. DEFINE kept == recent(pre_ring, f.mono)
                  start == IF kept = <<>> THEN f.mono ELSE Head(kept).at
                  longer == Append(kept, [phase |-> "ACTIVE", at |-> f.mono])
      <4>1. /\ state' = "Active" /\ event_start' = start
            /\ samples' = IF retained(f) THEN longer ELSE kept
        BY <3>1, Zenon DEF begin_event
      <4>2. completed' = {}
        BY <2>4, Zenon DEF IngestIdle
      <4>3. /\ start \in Int /\ Episode(kept, start, f.mono)
            /\ Episode(longer, start, f.mono)
        <5>1. PICK was \in Int : was <= f.mono /\ PreRing(pre_ring, was)
          BY <2>1, RingBefore, Zenon
        <5>2. f.mono \in Int
          BY <2>1, RingBefore, Zenon
        <5>. QED BY <5>1, <5>2, EpisodeBegins, Zenon
      <4>. HIDE DEF kept, start, longer
      <4>4. Episode(samples', event_start', f.mono)
        BY <4>1, <4>3, Zenon
      <4>5. \E u \in last' : Episode(samples', event_start', u.mono)
        BY <4>4, <2>2, Zenon
      <4>. QED BY <4>1, <4>2, <4>3, <4>5, Zenon DEF EpisodeInv
    <3>2. CASE state' = state /\ event_start' = event_start
      <4>1. state = "Idle" /\ completed' = {}
        BY <2>4, Zenon DEF IngestIdle
      <4>. QED BY <3>2, <4>1, Zenon DEF EpisodeInv
    <3>. QED BY <3>1, <3>2, <2>4, Zenon DEF IngestIdle
  <2>5. CASE IngestTruncated(f)
    BY <2>5, FinishKeeps, Zenon DEF IngestTruncated
  <2>6. CASE IngestActive(f)
    <3>. DEFINE clear == held(hold_start(qualifying_clear(f), f.mono, clear_hold),
                              f.mono, ClearHold)
                p == IF clear THEN "POST" ELSE "ACTIVE"
                window == add_capture_sample(f, p)
    <3>1. /\ state # "Idle" /\ ~over_limit(f) /\ capture(window)
          /\ Len(window) < MaxTotal => state' \in {"Active", "Post"}
      <4>1. state = "Active" /\ ~over_limit(f) /\ capture(window)
            /\ (Len(window) < MaxTotal => state' = IF clear THEN "Post" ELSE "Active")
        BY <2>6, Zenon DEF IngestActive
      <4>. QED BY <4>1, Zenon
    <3>2. p \in {"ACTIVE", "POST"}
      BY Zenon
    <3>. HIDE DEF p
    <3>3. Episode(window, event_start, f.mono)
      BY <3>1, <3>2, <2>1, WindowGrows, Zenon
    <3>. HIDE DEF window
    <3>. QED BY <3>1, <3>3, <2>1, CaptureKeeps, Zenon
  <2>7. CASE IngestPost(f)
    <3>. DEFINE retrigger == held(hold_start(qualifying_trigger(f), f.mono, trigger_hold),
                                  f.mono, TriggerHold)
                p == IF retrigger THEN "ACTIVE" ELSE "POST"
                window == add_capture_sample(f, p)
    <3>1. state = "Post" /\ ~over_limit(f)
      BY <2>7, Zenon DEF IngestPost
    <3>2. \/ finish("COMPLETE", samples)
          \/ /\ capture(window)
             /\ Len(window) < MaxTotal => state' = IF retrigger THEN "Active" ELSE "Post"
      BY <2>7, Zenon DEF IngestPost
    <3>3. p \in {"ACTIVE", "POST"}
      BY Zenon
    <3>4. CASE finish("COMPLETE", samples)
      BY <3>1, <3>4, FinishKeeps, Zenon
    <3>5. CASE capture(window) /\ (Len(window) < MaxTotal => state' \in {"Active", "Post"})
      <4>. HIDE DEF p
      <4>1. Episode(window, event_start, f.mono)
        BY <3>1, <3>3, <2>1, WindowGrows, Zenon
      <4>. HIDE DEF window
      <4>. QED BY <3>5, <4>1, <2>1, CaptureKeeps, Zenon
    <3>. QED BY <3>2, <3>4, <3>5, Zenon
  <2>. QED BY <2>3, <2>4, <2>5, <2>6, <2>7, <1>1, Zenon DEF ingest
<1>2. CASE IngestInvalid
  <2>1. CASE state # "Idle" /\ finish("INCOMPLETE_SOURCE_GAP", samples)
    BY <2>1, FinishKeeps, Zenon
  <2>2. CASE state = "Idle" /\ state' = state /\ event_start' = event_start /\ completed' = {}
    BY <2>2, Zenon DEF EpisodeInv
  <2>. QED BY <2>1, <2>2, <1>2, Zenon DEF IngestInvalid, clocks
<1>3. CASE abort_service_stop
  BY <1>3, FinishKeeps, Zenon DEF abort_service_stop
<1>4. CASE UNCHANGED vars
  BY <1>4, Zenon DEF vars, clocks, EpisodeInv, Episode, Shape
<1>. QED BY <1>1, <1>2, <1>3, <1>4, Zenon DEF Next

-----------------------------------------------------------------------------
(* Every window of the V1 engine.                                          *)

\* Before the first frame.
LEMMA EngineInit == Init => EpisodeInv
  BY DEF Init, EpisodeInv

\* The invariant is about every window that is handed out.
LEMMA EpisodesWellFormed == EpisodeInv => WellFormed
<1>. SUFFICES ASSUME EpisodeInv, NEW w \in Windows
              PROVE  Shape(w)
  BY Zenon DEF WellFormed
<1>1. CASE \E c \in completed : w = c.samples
  BY <1>1, Zenon DEF EpisodeInv
<1>2. CASE state # "Idle" /\ w = samples
  BY <1>2, Zenon DEF EpisodeInv, Episode
<1>. QED  BY <1>1, <1>2, Zenon DEF Windows

\* Every window the V1 engine hands out is in order and within the limits on its
\* PRE, ACTIVE and total samples, its PRE time and its duration, for all limits
\* and however the two clocks advance.  That it has a sample, and at most
\* MaxPost POST samples, is not claimed: the code does not ensure it.
THEOREM EveryWindowWellFormed == BothSpec => []WellFormed
<1>1. BothInit => RingInv /\ EpisodeInv
  BY RingInit, EngineInit, Zenon DEF BothInit
<1>2. RingInv /\ EpisodeInv /\ [BothNext]_bothVars => (RingInv /\ EpisodeInv)'
  BY EngineSteps, RingStep, EpisodeStep, Zenon
<1>3. EpisodeInv => WellFormed
  BY EpisodesWellFormed, Zenon
<1>. QED  BY <1>1, <1>2, <1>3, PTL DEF BothSpec
=============================================================================
