---------------------------- MODULE CaptureProofs ---------------------------
(***************************************************************************)
(* The two captures of an episode, the V1 window engine (v1/window.cpp)    *)
(* and ModelCapture (runtime/model_capture.cpp), for every value of the    *)
(* durations, the sample limits and the frame steps: ModelCapture joins no *)
(* samples across a pause, and it finds the same episodes as the V1 engine *)
(* until something happens that the two treat differently.                 *)
(***************************************************************************)
EXTENDS CaptureLockstep, WellFoundedInduction, TLAPS

-----------------------------------------------------------------------------
(* Sequences.                                                              *)

\* The elements of a sequence.
LEMMA SeqElements ==
    ASSUME NEW S, NEW q \in Seq(S)
    PROVE  /\ Len(q) \in Nat /\ q \in [1..Len(q) -> S]
           /\ DOMAIN q = 1..Len(q)
           /\ \A i \in 1..Len(q) : q[i] \in S
           /\ q # <<>> => Len(q) > 0
  OBVIOUS

\* An element appended to a sequence.
LEMMA SeqAppended ==
    ASSUME NEW S, NEW q \in Seq(S), NEW x \in S
    PROVE  /\ Append(q, x) \in Seq(S) /\ Len(Append(q, x)) = Len(q) + 1
           /\ Append(q, x)[Len(q) + 1] = x
           /\ \A i \in 1..Len(q) : Append(q, x)[i] = q[i]
  OBVIOUS

\* Sequences with the same elements are the same.
LEMMA SeqSame ==
    ASSUME NEW S, NEW q \in Seq(S), NEW r \in Seq(S), Len(q) = Len(r),
           \A i \in 1..Len(q) : q[i] = r[i]
    PROVE  q = r
  OBVIOUS

-----------------------------------------------------------------------------
(* Times.                                                                  *)

\* What arrived later is not older.
LEMMA LaterIsYounger ==
    ASSUME NEW a \in Int, NEW b \in Int, NEW now \in Int, NEW limit \in Nat,
           a <= b, ~(now - a > limit)
    PROVE  now - b <= limit
  OBVIOUS

-----------------------------------------------------------------------------
(* Trimming the PRE ring.                                                  *)

\* A set of natural numbers has a least element.
LEMMA Least ==
    ASSUME NEW T \in SUBSET Nat, T # {}
    PROVE  \E n \in T : \A m \in T : n <= m
<1>. DEFINE R == {ss \in Nat \X Nat : ss[1] < ss[2]}
<1>1. IsWellFoundedOn(R, Nat)
  BY NatLessThanWellFounded, Zenon DEF OpToRel
<1>2. \A m, n \in Nat : m < n => <<m, n>> \in R
  BY Zenon
<1>. HIDE DEF R
<1>3. PICK n \in T : \A m \in T : ~(<<m, n>> \in R)
  BY <1>1, WFMin, Zenon
<1>4. ASSUME NEW m \in T PROVE n <= m
  <2>1. ~(m < n)
    BY <1>2, <1>3, Zenon
  <2>. QED BY <2>1
<1>. QED BY <1>4, Zenon

\* prune: what the ring keeps of its samples begins at the first one that is
\* not too old.
Front(ring, now, n) ==
    /\ \A i \in 1..(n - 1) : now - ring[i].at > PreDuration
    /\ n <= Len(ring) => ~(now - ring[n].at > PreDuration)

\* There is such a place, one past the end if every sample is too old.
LEMMA FrontExists ==
    ASSUME NEW ring \in Seq(Samples), NEW now \in Int
    PROVE  \E n \in 1..(Len(ring) + 1) : Front(ring, now, n)
<1>. DEFINE T == {n \in 1..(Len(ring) + 1) :
                     n <= Len(ring) => ~(now - ring[n].at > PreDuration)}
<1>1. T \in SUBSET Nat /\ Len(ring) + 1 \in T
  OBVIOUS
<1>2. PICK n \in T : \A m \in T : n <= m
  BY <1>1, Least, Zenon
<1>3. ASSUME NEW i \in 1..(n - 1) PROVE now - ring[i].at > PreDuration
  <2>1. i \notin T
    BY <1>2
  <2>. QED BY <2>1, <1>2
<1>. QED BY <1>2, <1>3, Zenon DEF Front

\* And only one, so recent() is the rest of the ring from there.
LEMMA RecentFrom ==
    ASSUME NEW ring \in Seq(Samples), NEW now \in Int,
           NEW n \in 1..(Len(ring) + 1), Front(ring, now, n)
    PROVE  recent(ring, now) = SubSeq(ring, n, Len(ring))
<1>1. ASSUME NEW m \in 1..(Len(ring) + 1), Front(ring, now, m)
      PROVE  m = n
  <2>1. ~(m < n)
    <3>. SUFFICES ASSUME m < n PROVE FALSE BY Zenon
    <3>1. m \in 1..(n - 1) /\ m <= Len(ring)
      OBVIOUS
    <3>. QED BY <1>1, <3>1, Zenon DEF Front
  <2>2. ~(n < m)
    <3>. SUFFICES ASSUME n < m PROVE FALSE BY Zenon
    <3>1. n \in 1..(m - 1) /\ n <= Len(ring)
      OBVIOUS
    <3>. QED BY <1>1, <3>1, Zenon DEF Front
  <2>. QED BY <2>1, <2>2
<1>2. n = CHOOSE m \in 1..(Len(ring) + 1) : Front(ring, now, m)
  BY <1>1, Zenon
<1>. QED BY <1>2, Zenon DEF recent, Front

\* The rest of a sequence from position n.
LEMMA RestFrom ==
    ASSUME NEW ring \in Seq(Samples), NEW n \in 1..(Len(ring) + 1)
    PROVE  /\ SubSeq(ring, n, Len(ring)) \in Seq(Samples)
           /\ Len(SubSeq(ring, n, Len(ring))) = Len(ring) - n + 1
           /\ \A i \in 1..(Len(ring) - n + 1) :
                 SubSeq(ring, n, Len(ring))[i] = ring[n + i - 1]
<1>. HIDE DEF Samples
<1>. QED OBVIOUS

\* Samples in the order of their arrival.
Ordered(w) == \A i, j \in 1..Len(w) : i < j => w[i].at <= w[j].at

\* The two captures trim their PRE ring in different orders: V1 drops what is
\* too old, adds the sample and drops what is too much, V2/V3 adds it, drops
\* what is too much and then what is too old.  An ordered ring comes out the
\* same.
LEMMA TrimEitherWay ==
    ASSUME NEW ring \in Seq(Samples), NEW now \in Int, NEW s \in Samples,
           s.at = now, Len(ring) <= MaxPre, Ordered(ring)
    PROVE  latest(Append(recent(ring, now), s), MaxPre)
              = recent(latest(Append(ring, s), MaxPre), now)
<1>. DEFINE L == Len(ring)
            longer == Append(ring, s)
<1>1. PICK n \in 1..(L + 1) : Front(ring, now, n)
  BY FrontExists, Zenon
<1>. DEFINE kept == SubSeq(ring, n, L)
            shorter == Append(kept, s)
<1>2. recent(ring, now) = kept
  BY <1>1, RecentFrom, Zenon
<1>3. /\ L \in Nat /\ n \in Nat /\ 1 <= n /\ n <= L + 1 /\ L <= MaxPre
      /\ MaxPre \in Nat /\ MaxPre >= 1 /\ PreDuration \in Nat
  BY TimingAssumption, SMTT(30)
<1>4. /\ longer \in Seq(Samples) /\ Len(longer) = L + 1
      /\ \A i \in 1..L : longer[i] = ring[i]
      /\ longer[L + 1] = s
  BY SeqAppended
<1>5. /\ kept \in Seq(Samples) /\ Len(kept) = L - n + 1
      /\ \A i \in 1..(L - n + 1) : kept[i] = ring[n + i - 1]
  BY RestFrom, Zenon
<1>6. /\ shorter \in Seq(Samples) /\ Len(shorter) = L - n + 2
      /\ \A i \in 1..(L - n + 1) : shorter[i] = kept[i]
      /\ shorter[L - n + 2] = s
  <2>. HIDE DEF kept
  <2>1. shorter \in Seq(Samples) /\ Len(shorter) = Len(kept) + 1
        /\ (\A i \in 1..Len(kept) : shorter[i] = kept[i]) /\ shorter[Len(kept) + 1] = s
    <3>1. kept \in Seq(Samples)
      BY ONLY <1>5, Zenon
    <3>. QED  BY ONLY <3>1, s \in Samples, SeqAppended
  <2>2. Len(kept) + 1 = L - n + 2
    BY <1>5, <1>3
  <2>. QED BY <2>1, <2>2, <1>5, Zenon
<1>7. \A i \in 1..(L - n + 2) : shorter[i] = longer[n + i - 1]
  <2>. HIDE DEF kept, shorter, longer, L
  <2>. SUFFICES ASSUME NEW i \in 1..(L - n + 2) PROVE shorter[i] = longer[n + i - 1]
    BY Zenon
  <2>1. CASE i = L - n + 2
    <3>1. n + i - 1 = L + 1
      BY <2>1, <1>3
    <3>. QED BY <2>1, <3>1, <1>4, <1>6, Zenon
  <2>2. CASE i # L - n + 2
    <3>1. i \in 1..(L - n + 1) /\ n + i - 1 \in 1..L
      BY <2>2, <1>3
    <3>. QED BY <3>1, <1>4, <1>5, <1>6
  <2>. QED BY <2>1, <2>2, Zenon
<1>8. /\ \A i \in 1..(n - 1) : now - longer[i].at > PreDuration
      /\ ~(now - longer[n].at > PreDuration)
  <2>. HIDE DEF kept, shorter, longer, L
  <2>1. ASSUME NEW i \in 1..(n - 1) PROVE now - longer[i].at > PreDuration
    <3>1. i \in 1..L
      BY <1>3
    <3>. QED BY <3>1, <1>1, <1>4, Zenon DEF Front
  <2>2. CASE n = L + 1
    <3>1. ~(now - s.at > PreDuration)
      BY <1>3
    <3>. QED BY <2>1, <2>2, <3>1, <1>4
  <2>3. CASE n # L + 1
    <3>1. n \in 1..L /\ n <= L
      BY <2>3, <1>3
    <3>. QED BY <2>1, <3>1, <1>1, <1>4 DEF Front, L
  <2>. QED BY <2>2, <2>3, Zenon
<1>9. CASE L + 1 <= MaxPre
  <2>1. latest(longer, MaxPre) = longer /\ latest(shorter, MaxPre) = shorter
    <3>. HIDE DEF kept, shorter, longer, L
    <3>. QED BY <1>3, <1>4, <1>6, <1>9 DEF latest
  <2>2. recent(longer, now) = SubSeq(longer, n, Len(longer))
    <3>. HIDE DEF kept, shorter, longer, L
    <3>1. n \in 1..(Len(longer) + 1)
      BY <1>3, <1>4
    <3>2. Front(longer, now, n)
      BY <1>8, Zenon DEF Front
    <3>. QED BY <1>4, <3>1, <3>2, RecentFrom, Zenon
  <2>3. SubSeq(longer, n, Len(longer)) = shorter
    <3>. HIDE DEF kept, shorter, longer, L
    <3>1. n \in 1..(Len(longer) + 1) /\ Len(longer) - n + 1 = L - n + 2
      BY <1>3, <1>4
    <3>. DEFINE rest == SubSeq(longer, n, Len(longer))
    <3>2. /\ rest \in Seq(Samples) /\ Len(rest) = L - n + 2
          /\ \A i \in 1..(L - n + 2) : rest[i] = longer[n + i - 1]
      BY <3>1, <1>4, RestFrom
    <3>. HIDE DEF rest
    <3>3. rest = shorter
      BY <3>2, <1>6, <1>7, SeqSame, Zenon
    <3>. QED BY <3>3, Zenon DEF rest
  <2>. QED BY <1>2, <2>1, <2>2, <2>3
<1>10. CASE L = MaxPre
  <2>. DEFINE cut == SubSeq(longer, 2, L + 1)
  <2>1. /\ cut \in Seq(Samples) /\ Len(cut) = L
        /\ \A i \in 1..L : cut[i] = longer[i + 1]
    <3>. HIDE DEF kept, shorter, longer, L
    <3>1. 2 \in 1..(Len(longer) + 1) /\ Len(longer) - 2 + 1 = L
      BY <1>3, <1>4, <1>10
    <3>2. /\ SubSeq(longer, 2, Len(longer)) \in Seq(Samples)
          /\ Len(SubSeq(longer, 2, Len(longer))) = L
          /\ \A i \in 1..L : SubSeq(longer, 2, Len(longer))[i] = longer[2 + i - 1]
      BY <3>1, <1>4, RestFrom, Zenon
    <3>3. \A i \in 1..L : 2 + i - 1 = i + 1
      OBVIOUS
    <3>. QED BY <3>2, <3>3, <1>4
  <2>2. latest(longer, MaxPre) = cut
    <3>. HIDE DEF kept, shorter, longer, L
    <3>1. Len(longer) > MaxPre /\ Len(longer) - MaxPre + 1 = 2 /\ Len(longer) = L + 1
      BY <1>3, <1>4, <1>10
    <3>. QED BY <3>1, Zenon DEF latest
  <2>3. CASE n = 1
    <3>1. ~(now - longer[2].at > PreDuration)
      <4>. HIDE DEF kept, shorter, longer
      <4>1. CASE L = 1
        <5>1. longer[2] = s /\ ~(now - s.at > PreDuration)
          BY <4>1, <1>3, <1>4
        <5>. QED BY <5>1, Zenon
      <4>2. CASE L # 1
        <5>1. 1 \in 1..L /\ 2 \in 1..L /\ 1 < 2
          BY <4>2, <1>3, <1>10
        <5>2. ring[1].at <= ring[2].at
          BY <5>1, Zenon DEF Ordered
        <5>3. ring[1].at \in Int /\ ring[2].at \in Int
          <6>1. ring[1] \in Samples /\ ring[2] \in Samples
            BY <5>1, SeqElements, Zenon
          <6>. QED BY <6>1, Zenon DEF Samples
        <5>4. longer[1] = ring[1] /\ longer[2] = ring[2]
          BY <5>1, <1>4, Zenon
        <5>5. ~(now - ring[1].at > PreDuration)
          BY <1>8, <2>3, <5>4, Zenon
        <5>. QED BY <5>2, <5>3, <5>4, <5>5, <1>3
      <4>. QED BY <4>1, <4>2, Zenon
    <3>2. recent(cut, now) = SubSeq(cut, 1, Len(cut))
      <4>. HIDE DEF kept, shorter, longer, L, cut
      <4>1. 1 \in 1..(Len(cut) + 1) /\ 1 \in 1..L
        BY <1>3, <1>10, <2>1
      <4>2. cut[1] = longer[2]
        BY <4>1, <2>1
      <4>3. Front(cut, now, 1)
        BY <3>1, <4>2 DEF Front
      <4>. QED BY <2>1, <4>1, <4>3, RecentFrom
    <3>3. SubSeq(cut, 1, Len(cut)) = cut
      <4>. HIDE DEF kept, shorter, longer, L, cut
      <4>1. 1 \in 1..(Len(cut) + 1) /\ Len(cut) - 1 + 1 = Len(cut)
        BY <1>3, <2>1
      <4>. DEFINE rest == SubSeq(cut, 1, Len(cut))
      <4>2. /\ rest \in Seq(Samples) /\ Len(rest) = Len(cut)
            /\ \A i \in 1..Len(cut) : rest[i] = cut[1 + i - 1]
        BY <4>1, <2>1, RestFrom
      <4>3. \A i \in 1..Len(cut) : 1 + i - 1 = i
        OBVIOUS
      <4>. HIDE DEF rest
      <4>4. rest = cut
        BY <4>2, <4>3, <2>1, SeqSame
      <4>. QED BY <4>4, Zenon DEF rest
    <3>4. shorter = longer
      <4>. HIDE DEF kept, shorter, longer, L, cut
      <4>1. Len(shorter) = Len(longer) /\ L - n + 2 = Len(longer)
        BY <1>3, <1>4, <1>6, <2>3
      <4>2. \A i \in 1..Len(longer) : n + i - 1 = i
        BY <2>3
      <4>3. \A i \in 1..Len(longer) : shorter[i] = longer[i]
        BY <4>1, <4>2, <1>7, Zenon
      <4>. QED BY <4>1, <4>3, <1>4, <1>6, SeqSame
    <3>. QED BY <1>2, <2>2, <3>2, <3>3, <3>4, Zenon
  <2>4. CASE n # 1
    <3>1. recent(cut, now) = SubSeq(cut, n - 1, Len(cut))
      <4>. HIDE DEF kept, shorter, longer, L, cut
      <4>1. n - 1 \in 1..(Len(cut) + 1) /\ n - 1 \in 1..L
        BY <1>3, <2>1, <2>4
      <4>2. cut[n - 1] = longer[n]
        <5>1. (n - 1) + 1 = n
          BY <1>3
        <5>. QED BY <4>1, <5>1, <2>1, Zenon
      <4>3. ASSUME NEW i \in 1..((n - 1) - 1) PROVE now - cut[i].at > PreDuration
        <5>1. i \in 1..L /\ i + 1 \in 1..(n - 1)
          BY <1>3, <2>4
        <5>. QED BY <5>1, <1>8, <2>1
      <4>4. Front(cut, now, n - 1)
        BY <4>2, <4>3, <1>8 DEF Front
      <4>. QED BY <2>1, <4>1, <4>4, RecentFrom
    <3>2. SubSeq(cut, n - 1, Len(cut)) = shorter
      <4>. HIDE DEF kept, shorter, longer, L, cut
      <4>1. n - 1 \in 1..(Len(cut) + 1) /\ Len(cut) - (n - 1) + 1 = L - n + 2
        BY <1>3, <2>1, <2>4
      <4>. DEFINE rest == SubSeq(cut, n - 1, Len(cut))
      <4>2. /\ rest \in Seq(Samples) /\ Len(rest) = L - n + 2
            /\ \A i \in 1..(L - n + 2) : rest[i] = cut[(n - 1) + i - 1]
        BY <4>1, <2>1, RestFrom
      <4>3. ASSUME NEW i \in 1..(L - n + 2) PROVE cut[(n - 1) + i - 1] = longer[n + i - 1]
        <5>1. (n - 1) + i - 1 \in 1..L /\ ((n - 1) + i - 1) + 1 = n + i - 1
          BY <1>3, <2>4
        <5>. QED BY <5>1, <2>1
      <4>. HIDE DEF rest
      <4>4. \A i \in 1..(L - n + 2) : rest[i] = shorter[i]
        BY <4>2, <4>3, <1>7
      <4>5. rest = shorter
        BY <4>2, <4>4, <1>6, SeqSame
      <4>. QED BY <4>5, Zenon DEF rest
    <3>3. latest(shorter, MaxPre) = shorter
      <4>. HIDE DEF kept, shorter, longer, L, cut
      <4>. QED BY <1>3, <1>6, <1>10, <2>4 DEF latest
    <3>. QED BY <1>2, <2>2, <3>1, <3>2, <3>3, Zenon
  <2>. QED BY <2>3, <2>4, Zenon
<1>11. L + 1 <= MaxPre \/ L = MaxPre
  BY <1>3
<1>. QED BY <1>9, <1>10, <1>11, Zenon

-----------------------------------------------------------------------------
(* The frames that can follow.                                             *)

Times == [source : Int, mono : Int]
LastType == last = {} \/ \E t \in Times : last = {t}

\* A frame is the previous one advanced by one of the Steps.
LEMMA NextFrame ==
    ASSUME LastType, NEW f \in FramesAfter(last)
    PROVE  /\ f \in Frames
           /\ [source |-> f.source, mono |-> f.mono] \in Times
           /\ \A u \in last : \E d \in Steps :
                 f.source = u.source + d[1] /\ f.mono = u.mono + d[2]
<1>. DEFINE first == [source |-> 0, mono |-> 0]
            after(p) == [source |-> p[1].source + p[2][1], mono |-> p[1].mono + p[2][2]]
            moments == IF last = {} THEN {first} ELSE {after(p) : p \in last \X Steps}
<1>1. PICK m \in moments : f \in [source : {m.source}, mono : {m.mono},
                                  pedal : {"trigger", "neither", "clear"}]
  BY Zenon DEF FramesAfter
<1>2. m \in Times /\ \A u \in last : \E d \in Steps :
                      m.source = u.source + d[1] /\ m.mono = u.mono + d[2]
  <2>1. CASE last = {}
    BY <2>1 DEF Times
  <2>2. CASE last # {}
    <3>1. PICK p \in last \X Steps : m = after(p)
      BY <2>2, Zenon
    <3>2. p[1] \in Times /\ p[1] \in last /\ p[2] \in Steps
      BY Zenon DEF LastType
    <3>3. p[2] \in Int \X Int
      BY <3>2, TimingAssumption, Zenon
    <3>4. \A u \in last : u = p[1]
      BY <3>2, Zenon DEF LastType
    <3>5. m.source = p[1].source + p[2][1] /\ m.mono = p[1].mono + p[2][2]
      BY <3>1, Zenon
    <3>6. m \in Times
      BY <3>1, <3>2, <3>3 DEF Times
    <3>. QED BY <3>2, <3>4, <3>5, <3>6
  <2>. QED BY <2>1, <2>2, Zenon
<1>. HIDE DEF moments
<1>3. f.source = m.source /\ f.mono = m.mono
  BY <1>1, Zenon
<1>4. f \in Frames
  BY <1>1, <1>2, Zenon DEF Frames, Times
<1>5. [source |-> f.source, mono |-> f.mono] \in Times
  BY <1>4, Zenon DEF Frames, Times
<1>. QED BY <1>2, <1>3, <1>4, <1>5

-----------------------------------------------------------------------------
(* The PRE ring.                                                           *)

\* A ring of PRE samples that arrived in order, the last by the time now.
PreRing(w, now) ==
    /\ w \in Seq(Samples) /\ Len(w) <= MaxPre /\ Ordered(w)
    /\ \A i \in 1..Len(w) : w[i].phase = "PRE" /\ w[i].at <= now

\* The rest of a ring is a ring.
LEMMA RestOfRing ==
    ASSUME NEW ring, NEW now \in Int, PreRing(ring, now),
           NEW n \in 1..(Len(ring) + 1)
    PROVE  PreRing(SubSeq(ring, n, Len(ring)), now)
<1>. DEFINE rest == SubSeq(ring, n, Len(ring))
<1>1. ring \in Seq(Samples) /\ Len(ring) \in Nat /\ Len(ring) <= MaxPre /\ MaxPre \in Nat
  BY TimingAssumption DEF PreRing
<1>2. /\ rest \in Seq(Samples) /\ Len(rest) = Len(ring) - n + 1
      /\ \A i \in 1..(Len(ring) - n + 1) : rest[i] = ring[n + i - 1]
  BY <1>1, RestFrom, Zenon
<1>. HIDE DEF rest
<1>3. Len(rest) <= MaxPre
  BY <1>1, <1>2
<1>4. \A i \in 1..Len(rest) : n + i - 1 \in 1..Len(ring) /\ rest[i] = ring[n + i - 1]
  BY <1>1, <1>2
<1>5. \A i \in 1..Len(rest) : rest[i].phase = "PRE" /\ rest[i].at <= now
  BY <1>4, Zenon DEF PreRing
<1>6. Ordered(rest)
  <2>. SUFFICES ASSUME NEW i \in 1..Len(rest), NEW j \in 1..Len(rest), i < j
                PROVE  rest[i].at <= rest[j].at
    BY Zenon DEF Ordered
  <2>1. n + i - 1 < n + j - 1
    BY <1>1, <1>2
  <2>. QED BY <2>1, <1>4, Zenon DEF PreRing, Ordered
<1>7. PreRing(rest, now)
  BY <1>2, <1>3, <1>5, <1>6 DEF PreRing
<1>. QED BY <1>7, Zenon DEF rest

\* prune keeps a ring, and of it exactly what is recent enough.
LEMMA RecentRing ==
    ASSUME NEW ring, NEW was \in Int, NEW now \in Int, was <= now, PreRing(ring, was)
    PROVE  /\ PreRing(recent(ring, now), was)
           /\ \A i \in 1..Len(recent(ring, now)) :
                 now - recent(ring, now)[i].at <= PreDuration
           /\ (Len(ring) > 0 /\ now - ring[Len(ring)].at <= PreDuration)
                 => Len(recent(ring, now)) > 0
<1>1. ring \in Seq(Samples) /\ Len(ring) \in Nat /\ PreDuration \in Nat
  BY TimingAssumption DEF PreRing
<1>2. PICK n \in 1..(Len(ring) + 1) : Front(ring, now, n)
  BY <1>1, FrontExists, Zenon
<1>. DEFINE rest == SubSeq(ring, n, Len(ring))
<1>3. recent(ring, now) = rest
  BY <1>1, <1>2, RecentFrom
<1>4. PreRing(rest, was)
  BY RestOfRing, Zenon
<1>5. /\ Len(rest) = Len(ring) - n + 1
      /\ \A i \in 1..(Len(ring) - n + 1) : rest[i] = ring[n + i - 1]
  BY <1>1, RestFrom, Zenon
<1>. HIDE DEF rest
<1>6. ASSUME NEW i \in 1..Len(rest) PROVE now - rest[i].at <= PreDuration
  <2>1. n \in 1..Len(ring) /\ n + i - 1 \in 1..Len(ring) /\ rest[i] = ring[n + i - 1]
    BY <1>1, <1>5
  <2>2. ring[n] \in Samples /\ ring[n + i - 1] \in Samples
    BY <2>1, <1>1, SeqElements
  <2>3. ring[n].at \in Int /\ ring[n + i - 1].at \in Int
    BY <2>2, Zenon DEF Samples
  <2>4. ~(now - ring[n].at > PreDuration)
    BY <1>2, <2>1 DEF Front
  <2>5. ring[n].at <= ring[n + i - 1].at
    <3>1. CASE i = 1
      <4>1. n + i - 1 = n
        BY <3>1
      <4>. QED BY <4>1, <2>3
    <3>2. CASE i # 1
      <4>1. n < n + i - 1
        BY <3>2, <1>5, <1>1
      <4>. QED BY <4>1, <2>1, Zenon DEF PreRing, Ordered
    <3>. QED BY <3>1, <3>2, Zenon
  <2>6. now - ring[n + i - 1].at <= PreDuration
    BY ONLY <2>3, <2>4, <2>5, <1>1, now \in Int, LaterIsYounger, Zenon
  <2>. QED BY <2>1, <2>6, Zenon
<1>7. ASSUME Len(ring) > 0, now - ring[Len(ring)].at <= PreDuration
      PROVE  Len(rest) > 0
  <2>. SUFFICES ASSUME n = Len(ring) + 1 PROVE FALSE
    BY <1>1, <1>5
  <2>1. Len(ring) \in 1..(n - 1) /\ Len(ring) \in 1..Len(ring)
    BY <1>1, <1>7
  <2>2. ring[Len(ring)] \in Samples
    BY <2>1, <1>1, SeqElements
  <2>3. now - ring[Len(ring)].at > PreDuration
    BY <2>1, <1>2 DEF Front
  <2>. QED BY <1>1, <1>7, <2>2, <2>3 DEF Samples
<1>. QED BY <1>3, <1>4, <1>6, <1>7

\* add_pre_sample gives a ring that ends with the new sample.
LEMMA AddedRing ==
    ASSUME NEW ring, NEW was \in Int, NEW now \in Int, was <= now, PreRing(ring, was)
    PROVE  LET s == [phase |-> "PRE", at |-> now]
               w == latest(Append(recent(ring, now), s), MaxPre)
           IN  PreRing(w, now) /\ Len(w) > 0 /\ w[Len(w)] = s
<1>. DEFINE s == [phase |-> "PRE", at |-> now]
            kept == recent(ring, now)
            longer == Append(kept, s)
            w == latest(longer, MaxPre)
<1>1. PreRing(kept, was)
  BY RecentRing, Zenon
<1>2. s \in Samples /\ MaxPre \in Nat /\ MaxPre >= 1
  BY TimingAssumption DEF Samples, Phases
<1>3. kept \in Seq(Samples) /\ Len(kept) \in Nat /\ Len(kept) <= MaxPre
  BY <1>1 DEF PreRing
<1>. HIDE DEF kept
<1>4. /\ longer \in Seq(Samples) /\ Len(longer) = Len(kept) + 1
      /\ \A i \in 1..Len(kept) : longer[i] = kept[i]
      /\ longer[Len(kept) + 1] = s
  BY <1>2, <1>3, SeqAppended
<1>5. s.phase = "PRE" /\ s.at = now
  BY Zenon
<1>. HIDE DEF longer, s
<1>6. ASSUME NEW i \in 1..Len(longer)
      PROVE  longer[i].phase = "PRE" /\ longer[i].at <= now /\ longer[i].at \in Int
  <2>1. CASE i = Len(kept) + 1
    <3>1. longer[i] = s
      BY <2>1, <1>4, Zenon
    <3>. QED BY <3>1, <1>5
  <2>2. CASE i # Len(kept) + 1
    <3>1. i \in 1..Len(kept) /\ longer[i] = kept[i]
      BY <2>2, <1>3, <1>4
    <3>2. kept[i].phase = "PRE" /\ kept[i].at <= was
      BY <3>1, <1>1, Zenon DEF PreRing
    <3>3. kept[i] \in Samples
      BY <3>1, <1>3, SeqElements, Zenon
    <3>. QED BY <3>1, <3>2, <3>3 DEF Samples
  <2>. QED BY <2>1, <2>2, Zenon
<1>7. Ordered(longer)
  <2>. SUFFICES ASSUME NEW i \in 1..Len(longer), NEW j \in 1..Len(longer), i < j
                PROVE  longer[i].at <= longer[j].at
    BY Zenon DEF Ordered
  <2>1. CASE j = Len(kept) + 1
    <3>1. longer[j] = s
      BY <2>1, <1>4, Zenon
    <3>. QED BY <3>1, <1>5, <1>6
  <2>2. CASE j # Len(kept) + 1
    <3>1. i \in 1..Len(kept) /\ j \in 1..Len(kept)
      BY <2>2, <1>3, <1>4
    <3>2. longer[i] = kept[i] /\ longer[j] = kept[j]
      BY <3>1, <1>4, Zenon
    <3>3. kept[i].at <= kept[j].at
      BY <3>1, <1>1, Zenon DEF PreRing, Ordered
    <3>. QED BY <3>2, <3>3, Zenon
  <2>. QED BY <2>1, <2>2, Zenon
<1>8. CASE Len(longer) <= MaxPre
  <2>1. w = longer
    BY <1>2, <1>3, <1>4, <1>8 DEF latest
  <2>. HIDE DEF w
  <2>2. PreRing(w, now)
    BY <2>1, <1>4, <1>6, <1>7, <1>8 DEF PreRing
  <2>3. Len(w) > 0 /\ w[Len(w)] = s
    BY <2>1, <1>3, <1>4
  <2>. QED BY <2>2, <2>3, Zenon DEF w, longer, s, kept
<1>9. CASE Len(longer) = MaxPre + 1
  <2>1. w = SubSeq(longer, 2, Len(longer))
    <3>1. Len(longer) > MaxPre /\ Len(longer) - MaxPre + 1 = 2
      BY <1>2, <1>9
    <3>. QED BY <3>1, Zenon DEF latest
  <2>2. 2 \in 1..(Len(longer) + 1) /\ Len(longer) - 2 + 1 = MaxPre
    BY <1>2, <1>9
  <2>3. /\ w \in Seq(Samples) /\ Len(w) = MaxPre
        /\ \A i \in 1..MaxPre : w[i] = longer[2 + i - 1]
    BY <2>1, <2>2, <1>4, RestFrom
  <2>. HIDE DEF w
  <2>4. \A i \in 1..MaxPre : 2 + i - 1 \in 1..Len(longer)
    BY <1>2, <1>9
  <2>5. Ordered(w)
    <3>. SUFFICES ASSUME NEW i \in 1..MaxPre, NEW j \in 1..MaxPre, i < j
                  PROVE  w[i].at <= w[j].at
      BY <2>3, Zenon DEF Ordered
    <3>1. 2 + i - 1 < 2 + j - 1
      OBVIOUS
    <3>. QED BY <3>1, <2>3, <2>4, <1>7, Zenon DEF Ordered
  <2>6. PreRing(w, now)
    BY <2>3, <2>4, <2>5, <1>2, <1>6 DEF PreRing
  <2>7. Len(w) > 0 /\ w[Len(w)] = s
    <3>1. MaxPre \in 1..MaxPre /\ 2 + MaxPre - 1 = Len(kept) + 1
      BY <1>2, <1>3, <1>4, <1>9
    <3>. QED BY <3>1, <2>3, <1>2, <1>4
  <2>. QED BY <2>6, <2>7, Zenon DEF w, longer, s, kept
<1>10. Len(longer) <= MaxPre \/ Len(longer) = MaxPre + 1
  BY <1>2, <1>3, <1>4
<1>. QED BY <1>8, <1>9, <1>10

-----------------------------------------------------------------------------
(* The PRE ring of the V1 engine, from frame to frame.                     *)

\* The PRE ring holds what arrived up to the previous frame.
RingInv ==
    /\ LastType
    /\ last = {} => pre_ring = <<>>
    /\ \A u \in last : PreRing(pre_ring, u.mono)

\* Before the first frame.
LEMMA RingInit == Init => RingInv
  BY Zenon DEF Init, RingInv, LastType

\* What every path of ingest does with the times, and with the PRE ring.
LEMMA IngestTimes ==
    ASSUME NEW f, ingest(f)
    PROVE  /\ Received(f)
           /\ \/ pre_ring' = pre_ring
              \/ pre_ring' = <<>>
              \/ pre_ring' = latest(Append(recent(pre_ring, f.mono),
                                           [phase |-> "PRE", at |-> f.mono]), MaxPre)
<1>1. CASE IngestSuppressed(f)
  BY <1>1, Zenon DEF IngestSuppressed, add_pre_sample
<1>2. CASE IngestIdle(f)
  BY <1>2, Zenon DEF IngestIdle, begin_event, add_pre_sample
<1>3. CASE IngestTruncated(f)
  BY <1>3, Zenon DEF IngestTruncated, finish
<1>4. CASE IngestActive(f)
  BY <1>4, Zenon DEF IngestActive, capture, finish
<1>5. CASE IngestPost(f)
  BY <1>5, Zenon DEF IngestPost, capture, finish
<1>. QED BY <1>1, <1>2, <1>3, <1>4, <1>5 DEF ingest

\* The ring as the next frame finds it.
LEMMA RingBefore ==
    ASSUME RingInv, NEW f \in FramesAfter(last), ~Reordered(f)
    PROVE  /\ f \in Frames /\ f.mono \in Int /\ f.source \in Int
           /\ \E was \in Int : was <= f.mono /\ PreRing(pre_ring, was)
<1>1. f \in Frames /\ f.mono \in Int /\ f.source \in Int
  BY NextFrame, Zenon DEF RingInv, Frames
<1>2. CASE last = {}
  <2>1. PreRing(pre_ring, f.mono)
    BY <1>2, TimingAssumption DEF RingInv, PreRing, Ordered
  <2>. QED BY <1>1, <2>1
<1>3. CASE last # {}
  <2>1. PICK u \in Times : last = {u}
    BY <1>3, Zenon DEF RingInv, LastType
  <2>2. u.mono \in Int /\ PreRing(pre_ring, u.mono) /\ ~(f.mono < u.mono)
    BY <2>1, Zenon DEF RingInv, Times, Reordered
  <2>. QED BY <1>1, <2>2
<1>. QED BY <1>1, <1>2, <1>3, Zenon

LEMMA RingStep == RingInv /\ [Next]_vars => RingInv'
<1>. SUFFICES ASSUME RingInv, [Next]_vars PROVE RingInv'
  BY Zenon
<1>1. ASSUME NEW f \in FramesAfter(last), ingest(f) PROVE RingInv'
  <2>1. Received(f)
    BY <1>1, IngestTimes, Zenon
  <2>2. ~Reordered(f) /\ last' = {[source |-> f.source, mono |-> f.mono]}
    BY <2>1, Zenon DEF Received
  <2>3. [source |-> f.source, mono |-> f.mono] \in Times
    BY NextFrame, Zenon DEF RingInv
  <2>4. PICK was \in Int : was <= f.mono /\ PreRing(pre_ring, was)
    BY <2>2, RingBefore, Zenon
  <2>5. f.mono \in Int
    BY <2>2, RingBefore, Zenon
  <2>6. PreRing(pre_ring', f.mono)
    <3>1. CASE pre_ring' = pre_ring
      <4>1. \A i \in 1..Len(pre_ring) : pre_ring[i].at <= f.mono
        <5>. SUFFICES ASSUME NEW i \in 1..Len(pre_ring) PROVE pre_ring[i].at <= f.mono
          BY Zenon
        <5>1. pre_ring[i] \in Samples
          BY <2>4, SeqElements, Zenon DEF PreRing
        <5>2. pre_ring[i].at \in Int /\ pre_ring[i].at <= was
          BY <5>1, <2>4, Zenon DEF Samples, PreRing
        <5>. QED BY <5>2, <2>4, <2>5
      <4>2. PreRing(pre_ring, f.mono)
        BY <4>1, <2>4, Zenon DEF PreRing
      <4>. QED BY <3>1, <4>2, Zenon
    <3>2. CASE pre_ring' = <<>>
      BY <3>2, TimingAssumption DEF PreRing, Ordered
    <3>3. CASE pre_ring' = latest(Append(recent(pre_ring, f.mono),
                                         [phase |-> "PRE", at |-> f.mono]), MaxPre)
      BY <3>3, <2>4, <2>5, AddedRing, Zenon
    <3>. QED BY <3>1, <3>2, <3>3, <1>1, IngestTimes
  <2>. QED BY <2>2, <2>3, <2>6 DEF RingInv, LastType
<1>2. CASE IngestInvalid
  <2>1. last' = last /\ pre_ring' = pre_ring
    BY <1>2, Zenon DEF IngestInvalid, finish
  <2>. QED BY <2>1, Zenon DEF RingInv, LastType
<1>3. CASE abort_service_stop
  BY <1>3, Zenon DEF abort_service_stop, finish, RingInv, LastType
<1>4. CASE UNCHANGED vars
  BY <1>4, Zenon DEF vars, RingInv, LastType
<1>. QED BY <1>1, <1>2, <1>3, <1>4, Zenon DEF Next

\* A step of the two captures is a step of V1, or leaves it alone.
LEMMA EngineSteps == [BothNext]_bothVars => [Next]_vars
BY Zenon DEF BothNext, bothVars, BothIngest, BothGap, BothStop, CaptureReset, Next

-----------------------------------------------------------------------------
(* Samples on both sides of a pause.                                       *)

\* The two captures have their own copies of the shared operators.
LEMMA SharedOperators ==
    /\ \A r, n : M!recent(r, n) = recent(r, n)
    /\ \A r, n : M!latest(r, n) = latest(r, n)
    /\ \A c, n, s : M!hold_start(c, n, s) = hold_start(c, n, s)
    /\ \A s, n, d : M!held(s, n, d) = held(s, n, d)
    /\ \A s, p : M!phase_count(s, p) = phase_count(s, p)
    /\ \A f : M!qualifying_trigger(f) = qualifying_trigger(f)
    /\ \A f : M!qualifying_clear(f) = qualifying_clear(f)
<1>1. \A r, n : M!recent(r, n) = recent(r, n)
  BY Zenon DEF M!recent, recent
<1>2. \A r, n : M!latest(r, n) = latest(r, n)
  BY Zenon DEF M!latest, latest
<1>3. \A c, n, s : M!hold_start(c, n, s) = hold_start(c, n, s)
  BY Zenon DEF M!hold_start, hold_start
<1>4. \A s, n, d : M!held(s, n, d) = held(s, n, d)
  BY Zenon DEF M!held, held
<1>5. \A s, p : M!phase_count(s, p) = phase_count(s, p)
  BY Zenon DEF M!phase_count, phase_count, M!Cardinality, Cardinality
<1>6. \A f : M!qualifying_trigger(f) = qualifying_trigger(f)
  BY Zenon DEF M!qualifying_trigger, qualifying_trigger
<1>7. \A f : M!qualifying_clear(f) = qualifying_clear(f)
  BY Zenon DEF M!qualifying_clear, qualifying_clear
<1>. QED  BY ONLY <1>1, <1>2, <1>3, <1>4, <1>5, <1>6, <1>7, Zenon

\* What is kept after the pauses: samples that arrived after every one of
\* them, and not after the previous frame.
Since(w, at, pauses) ==
    /\ w \in Seq(Samples)
    /\ \A i \in 1..Len(w) : /\ \E u \in at : w[i].at <= u.mono
                            /\ \A p \in pauses : p.after <= w[i].at

\* Samples all on one side of a pause.
OneSide(w, p) == \/ \A i \in DOMAIN w : w[i].at <= p.before
                 \/ \A i \in DOMAIN w : w[i].at >= p.after

\* The capture knows the previous frame or keeps nothing, and what it keeps
\* arrived after the latest pause.  An episode cut short by the pause itself
\* is handed out with the samples from before it.
BridgeInv ==
    /\ previous = {} \/ previous = last
    /\ \A p \in pause : p.after \in Int /\ \E u \in last : p.after <= u.mono
    /\ Since(pre, previous, pause)
    /\ Since(episode, previous, pause)
    /\ \A r \in result, p \in pause : OneSide(r.samples, p)

\* Nothing kept.
LEMMA SinceEmpty ==
    ASSUME NEW at, NEW pauses
    PROVE  Since(<<>>, at, pauses)
BY DEF Since

\* What remains when samples leave from the front.
LEMMA SinceRest ==
    ASSUME NEW w, NEW at, NEW pauses, Since(w, at, pauses),
           NEW n \in 1..(Len(w) + 1)
    PROVE  Since(SubSeq(w, n, Len(w)), at, pauses)
<1>. DEFINE r == SubSeq(w, n, Len(w))
<1>1. w \in Seq(Samples) /\ Len(w) \in Nat /\ n \in Int
  BY DEF Since
<1>2. /\ r \in Seq(Samples) /\ Len(r) = Len(w) - n + 1
      /\ \A i \in 1..(Len(w) - n + 1) : r[i] = w[n + i - 1]
  BY <1>1, RestFrom, Zenon
<1>. HIDE DEF r
<1>3. ASSUME NEW i \in 1..Len(r)
      PROVE  /\ \E u \in at : r[i].at <= u.mono
             /\ \A p \in pauses : p.after <= r[i].at
  <2>1. i \in 1..(Len(w) - n + 1) /\ n + i - 1 \in 1..Len(w)
    BY ONLY <1>1, <1>2, n \in 1..(Len(w) + 1), i \in 1..Len(r)
  <2>2. r[i] = w[n + i - 1]
    BY ONLY <1>2, <2>1, Zenon
  <2>. QED  BY <2>1, <2>2, Zenon DEF Since
<1>4. Since(r, at, pauses)
  BY <1>2, <1>3, Zenon DEF Since
<1>. QED  BY <1>4, Zenon DEF r

\* Pruning the PRE ring, by age or by number.
LEMMA SinceTrimmed ==
    ASSUME NEW w, NEW at, NEW pauses, Since(w, at, pauses), NEW now \in Int
    PROVE  /\ Since(recent(w, now), at, pauses)
           /\ Since(latest(w, MaxPre), at, pauses)
<1>1. w \in Seq(Samples) /\ Len(w) \in Nat
  BY DEF Since
<1>2. PICK n \in 1..(Len(w) + 1) : Front(w, now, n)
  BY <1>1, FrontExists, Zenon
<1>3. recent(w, now) = SubSeq(w, n, Len(w))
  BY <1>1, <1>2, RecentFrom, Zenon
<1>4. CASE Len(w) > MaxPre
  <2>0. MaxPre \in Nat
    BY TimingAssumption, Zenon
  <2>1. Len(w) - MaxPre + 1 \in 1..(Len(w) + 1)
    BY ONLY <1>1, <1>4, <2>0
  <2>2. latest(w, MaxPre) = SubSeq(w, Len(w) - MaxPre + 1, Len(w))
    BY <1>4, Zenon DEF latest
  <2>. QED  BY <2>1, <2>2, <1>3, SinceRest, Zenon
<1>5. CASE ~(Len(w) > MaxPre)
  <2>1. latest(w, MaxPre) = w
    BY <1>5, Zenon DEF latest
  <2>. QED  BY <2>1, <1>3, SinceRest, Zenon
<1>. QED  BY <1>4, <1>5, Zenon

\* A frame that comes now, after the pauses, adds its sample.
LEMMA SinceNext ==
    ASSUME NEW w, NEW m \in Times, NEW pauses, Since(w, {m}, pauses),
           NEW p \in Phases, \A q \in pauses : q.after <= m.mono
    PROVE  Since(Append(w, [phase |-> p, at |-> m.mono]), {m}, pauses)
<1>. DEFINE s == [phase |-> p, at |-> m.mono]
            longer == Append(w, s)
<1>1. s \in Samples /\ s.at = m.mono /\ m.mono \in Int
  BY Zenon DEF Samples, Times
<1>. HIDE DEF s
<1>2. /\ w \in Seq(Samples) /\ Len(w) \in Nat
      /\ longer \in Seq(Samples) /\ Len(longer) = Len(w) + 1
      /\ longer[Len(w) + 1] = s /\ \A i \in 1..Len(w) : longer[i] = w[i]
  BY <1>1, SeqAppended, SeqElements DEF Since
<1>. HIDE DEF longer
<1>3. ASSUME NEW i \in 1..Len(longer)
      PROVE  /\ \E u \in {m} : longer[i].at <= u.mono
             /\ \A q \in pauses : q.after <= longer[i].at
  <2>1. i \in 1..Len(w) \/ i = Len(w) + 1
    BY <1>2
  <2>2. CASE i \in 1..Len(w)
    BY <1>2, <2>2, Zenon DEF Since
  <2>3. CASE i = Len(w) + 1
    <3>1. longer[i].at = m.mono /\ m.mono <= m.mono
      BY <1>1, <1>2, <2>3
    <3>. QED  BY <3>1, Zenon
  <2>. QED  BY <2>1, <2>2, <2>3, Zenon
<1>4. Since(longer, {m}, pauses)
  BY <1>2, <1>3, Zenon DEF Since
<1>. QED  BY <1>4, Zenon DEF longer, s

\* Samples from after the pauses are on one side of each.
LEMMA SinceOneSide ==
    ASSUME NEW w, NEW at, NEW pauses, Since(w, at, pauses), NEW p \in pauses, p.after \in Int
    PROVE  OneSide(w, p)
<1>1. w \in Seq(Samples) /\ DOMAIN w = 1..Len(w)
  BY SeqElements, Zenon DEF Since
<1>2. ASSUME NEW i \in 1..Len(w) PROVE w[i].at >= p.after
  <2>1. w[i] \in Samples /\ p.after <= w[i].at
    BY <1>1, SeqElements, Zenon DEF Since
  <2>2. w[i].at \in Int
    BY <2>1, Zenon DEF Samples
  <2>. QED  BY <2>1, <2>2
<1>. QED  BY <1>1, <1>2, Zenon DEF OneSide

\* What is kept when the next frame comes, pause or not, unless ModelCapture
\* finds a gap: then the frame before it was not from this capture, which has
\* kept nothing.
LEMMA SinceFrame ==
    ASSUME RingInv, BridgeInv, NEW f \in FramesAfter(last), BothIngest(f),
           NEW m, m = [source |-> f.source, mono |-> f.mono]
    PROVE  /\ m \in Times /\ last' = {m} /\ previous' = {m}
           /\ \A p \in pause' : p.after \in Int /\ p.after <= m.mono
           /\ ~M!Gap(f) => /\ Since(pre, {m}, pause')
                           /\ Since(episode, {m}, pause')
           /\ \A p \in pause' : OneSide(episode, p)
<1>1. ingest(f) /\ M!capture_ingest(f)
      /\ pause' = IF PauseBefore(f) = {} THEN pause ELSE PauseBefore(f)
  BY Zenon DEF BothIngest
<1>2. Received(f)
  BY <1>1, IngestTimes, Zenon
<1>3. last' = {m} /\ previous' = {m} /\ ~Reordered(f)
  BY <1>1, <1>2, Zenon DEF Received, M!capture_ingest, M!IngestGap, M!Arrived
<1>4. m \in Times /\ m.mono = f.mono /\ f.mono \in Int /\ m.mono \in Int
  BY NextFrame, Zenon DEF RingInv, Times, Frames
<1>5. ASSUME NEW u \in last
      PROVE  u \in Times /\ u.mono \in Int /\ u.mono <= m.mono
  <2>1. u \in Times /\ u.mono \in Int /\ ~(f.mono < u.mono)
    BY <1>3, <1>5, Zenon DEF RingInv, LastType, Times, Reordered
  <2>. QED  BY <2>1, <1>4
<1>6. ASSUME NEW w, Since(w, previous, pause), NEW i \in 1..Len(w)
      PROVE  \E u \in last : w[i].at \in Int /\ w[i].at <= u.mono
  <2>1. w[i] \in Samples
    BY <1>6, SeqElements, Zenon DEF Since
  <2>2. w[i].at \in Int /\ previous \subseteq last
    BY <2>1, Zenon DEF Samples, BridgeInv
  <2>. QED  BY <2>2, <1>6, Zenon DEF Since
<1>7. CASE PauseBefore(f) = {}
  <2>1. pause' = pause
    BY <1>1, <1>7, Zenon
  <2>2. \A p \in pause : p.after \in Int /\ p.after <= m.mono
    <3>. SUFFICES ASSUME NEW p \in pause PROVE p.after \in Int /\ p.after <= m.mono
      BY Zenon
    <3>1. PICK u \in last : p.after \in Int /\ p.after <= u.mono
      BY Zenon DEF BridgeInv
    <3>. QED  BY <3>1, <1>4, <1>5
  <2>3. ASSUME NEW w, Since(w, previous, pause)
        PROVE  Since(w, {m}, pause)
    <3>1. ASSUME NEW i \in 1..Len(w) PROVE w[i].at <= m.mono
      <4>1. PICK u \in last : w[i].at \in Int /\ w[i].at <= u.mono
        BY <2>3, <3>1, <1>6, Zenon
      <4>. QED  BY <4>1, <1>4, <1>5
    <3>. QED  BY <2>3, <3>1, Zenon DEF Since
  <2>4. \A p \in pause : OneSide(episode, p)
    BY SinceOneSide, Zenon DEF BridgeInv
  <2>. QED  BY <1>3, <1>4, <2>1, <2>2, <2>3, <2>4, Zenon DEF BridgeInv
<1>8. CASE PauseBefore(f) # {}
  <2>1. PICK u \in last : f.source - u.source > MaxGap \/ f.mono - u.mono > MaxGap
    BY <1>8, Zenon DEF PauseBefore
  <2>2. last = {u}
    BY <2>1, Zenon DEF RingInv, LastType
  <2>3. pause' = PauseBefore(f) /\ PauseBefore(f) \subseteq {[before |-> u.mono, after |-> f.mono]}
    BY <1>1, <1>8, <2>2, Zenon DEF PauseBefore
  <2>4. \A p \in pause' : p.before = u.mono /\ p.after \in Int /\ p.after <= m.mono
    <3>1. f.mono <= m.mono
      BY <1>4
    <3>2. ASSUME NEW p \in pause' PROVE p.before = u.mono /\ p.after = f.mono
      BY <2>3, <3>2
    <3>. QED  BY <3>1, <3>2, <1>4, Zenon
  <2>5. ASSUME NEW p \in pause' PROVE OneSide(episode, p)
    <3>1. DOMAIN episode = 1..Len(episode) /\ p.before = u.mono
      BY <2>4, SeqElements, Zenon DEF BridgeInv, Since
    <3>. QED  BY <3>1, <2>2, <1>6, Zenon DEF OneSide, BridgeInv
  <2>6. ASSUME ~M!Gap(f), NEW w, Since(w, previous, pause)
        PROVE  Since(w, {m}, pause')
    <3>1. previous = {}
      BY <2>1, <2>2, <2>6, Zenon DEF M!Gap, BridgeInv
    <3>2. w \in Seq(Samples) /\ ~(\E i \in 1..Len(w) : TRUE)
      BY <3>1, <2>6, Zenon DEF Since
    <3>. QED  BY <3>2, Zenon DEF Since
  <2>. QED  BY <1>3, <1>4, <2>4, <2>5, <2>6, Zenon DEF BridgeInv
<1>. QED  BY <1>7, <1>8, Zenon

\* Every step keeps the samples on one side of the latest pause.
LEMMA BridgeStep ==
    ASSUME RingInv, BridgeInv, [BothNext]_bothVars
    PROVE  BridgeInv'
<1>1. ASSUME NEW f \in FramesAfter(last), BothIngest(f)
      PROVE  BridgeInv'
  <2>. DEFINE m == [source |-> f.source, mono |-> f.mono]
              Fits(w) == Since(w, {m}, pause')
  <2>1. /\ m \in Times /\ last' = {m} /\ previous' = {m}
        /\ \A p \in pause' : p.after \in Int /\ p.after <= m.mono
        /\ ~M!Gap(f) => Fits(pre) /\ Fits(episode)
        /\ \A p \in pause' : OneSide(episode, p)
    BY <1>1, SinceFrame, Zenon
  <2>2. m.mono = f.mono /\ f.mono \in Int
    BY <2>1, Zenon DEF Times
  <2>. HIDE DEF m
  <2>3. Fits(<<>>)
    BY SinceEmpty, Zenon
  <2>4. \A w, p : Fits(w) /\ p \in Phases => Fits(Append(w, [phase |-> p, at |-> f.mono]))
    BY <2>1, <2>2, SinceNext, Zenon
  <2>5. \A w : Fits(w) => Fits(recent(w, f.mono)) /\ Fits(latest(w, MaxPre))
    BY <2>2, SinceTrimmed, Zenon
  <2>6. \A w : Fits(w) => \A p \in pause' : OneSide(w, p)
    BY <2>1, SinceOneSide, Zenon
  <2>7. ASSUME Fits(pre'), Fits(episode'),
               \A r \in result', p \in pause' : OneSide(r.samples, p)
        PROVE  BridgeInv'
    <3>1. Since(pre, previous, pause)' /\ Since(episode, previous, pause)'
      BY <2>1, <2>7, Zenon DEF Since
    <3>2. (\A r \in result, p \in pause : OneSide(r.samples, p))'
      BY <2>7, Zenon DEF OneSide
    <3>3. previous' = last'
          /\ \A p \in pause' : p.after \in Int /\ \E u \in last' : p.after <= u.mono
      BY <2>1, Zenon
    <3>. QED  BY <3>1, <3>2, <3>3, Zenon DEF BridgeInv
  <2>8. ASSUME NEW t, NEW w, M!abort(t, w), \A p \in pause' : OneSide(w, p)
        PROVE  BridgeInv'
    <3>1. pre' = <<>> /\ episode' = <<>> /\ \A r \in result' : r.samples = w
      <4>1. /\ pre' = <<>> /\ episode' = <<>>
            /\ result' = IF phase = "Idle" THEN {} ELSE {[terminal |-> t, samples |-> w]}
        BY <2>8, Zenon DEF M!abort
      <4>. QED  BY <4>1
    <3>2. \A r \in result', p \in pause' : OneSide(r.samples, p)
      BY <2>8, <3>1, Zenon
    <3>. QED  BY <2>3, <2>7, <3>1, <3>2, Zenon
  <2>9. CASE M!IngestGap(f)
    <3>1. M!abort("INCOMPLETE_SOURCE_GAP", episode)
      BY <2>9, Zenon DEF M!IngestGap
    <3>. QED  BY <3>1, <2>1, <2>8, Zenon
  <2>10. CASE ~M!IngestGap(f)
    <3>1. /\ ~M!Gap(f) /\ Fits(pre) /\ Fits(episode)
          /\ \/ M!CaptureSuppressed(f) \/ M!CaptureIdle(f) \/ M!CaptureTruncated(f)
             \/ M!CaptureActive(f) \/ M!CapturePost(f)
      BY <1>1, <2>1, <2>10, Zenon DEF BothIngest, M!capture_ingest
    <3>. HIDE DEF Fits
    <3>2. M!retain_pre(f) => Fits(pre')
      <4>1. Fits(recent(latest(Append(pre, [phase |-> "PRE", at |-> f.mono]), MaxPre),
                        f.mono))
        BY <2>4, <2>5, <3>1, Zenon DEF Phases
      <4>2. M!retain_pre(f) =>
               \/ pre' = recent(latest(Append(pre, [phase |-> "PRE", at |-> f.mono]), MaxPre),
                                f.mono)
               \/ pre' = pre
        BY SharedOperators, Zenon DEF M!retain_pre
      <4>. QED  BY <3>1, <4>1, <4>2, Zenon
    <3>3. \A p \in Phases : Fits(M!with_sample(f, p))
      <4>. SUFFICES ASSUME NEW p \in Phases PROVE Fits(M!with_sample(f, p))
        BY Zenon
      <4>1. M!with_sample(f, p) \in {Append(episode, [phase |-> p, at |-> f.mono]), episode}
        BY Zenon DEF M!with_sample
      <4>. QED  BY <2>4, <3>1, <4>1, Zenon
    <3>4. ASSUME NEW w, Fits(w), M!Capture(w)
          PROVE  BridgeInv'
      <4>1. CASE M!abort("TRUNCATED_MAX_DURATION", w)
        BY <2>6, <2>8, <3>4, <4>1, Zenon
      <4>2. CASE episode' = w /\ result' = {} /\ pre' = pre
        BY <2>7, <3>1, <3>4, <4>2, Zenon
      <4>. QED  BY <3>4, <4>1, <4>2, Zenon DEF M!Capture
    <3>5. CASE M!CaptureSuppressed(f)
      BY <2>7, <3>1, <3>2, <3>5, Zenon DEF M!CaptureSuppressed
    <3>6. CASE M!CaptureIdle(f)
      <4>. DEFINE kept == recent(pre, f.mono)
                  longer == Append(kept, [phase |-> "ACTIVE", at |-> f.mono])
      <4>1. Fits(kept) /\ Fits(longer)
        BY <2>4, <2>5, <3>1, Zenon DEF Phases
      <4>2. /\ result' = {}
            /\ \/ pre' = <<>> /\ episode' \in {longer, kept}
               \/ M!retain_pre(f) /\ episode' = episode
        <5>1. CASE pre' = <<>> /\ episode' = IF M!Retain(f) THEN longer ELSE kept
          BY <3>6, <5>1, Zenon DEF M!CaptureIdle
        <5>2. CASE M!retain_pre(f) /\ episode' = episode
          BY <3>6, <5>2, Zenon DEF M!CaptureIdle
        <5>. QED  BY <3>6, <5>1, <5>2, SharedOperators, Zenon DEF M!CaptureIdle
      <4>. HIDE DEF kept, longer
      <4>. QED  BY <2>3, <2>7, <3>1, <3>2, <4>1, <4>2, Zenon
    <3>7. CASE M!CaptureTruncated(f)
      BY <2>1, <2>8, <3>7, Zenon DEF M!CaptureTruncated
    <3>8. CASE M!CaptureActive(f)
      <4>1. \E p \in Phases : M!Capture(M!with_sample(f, p))
        BY <3>8, Zenon DEF M!CaptureActive, Phases
      <4>. QED  BY <3>3, <3>4, <4>1, Zenon
    <3>9. CASE M!CapturePost(f)
      <4>1. \/ M!abort("COMPLETE", episode)
            \/ \E p \in Phases : M!Capture(M!with_sample(f, p))
        BY <3>9, Zenon DEF M!CapturePost, Phases
      <4>. QED  BY <2>1, <2>8, <3>3, <3>4, <4>1, Zenon
    <3>. QED  BY <3>1, <3>5, <3>6, <3>7, <3>8, <3>9, Zenon
  <2>. QED  BY <2>9, <2>10, Zenon
<1>2. ASSUME pre' = <<>>, episode' = <<>>, pause' = pause, last' = last,
             previous' \in {{}, previous},
             \A r \in result' : r.samples = episode
      PROVE  BridgeInv'
  <2>1. Since(<<>>, previous', pause')
    BY SinceEmpty, Zenon
  <2>2. Since(pre, previous, pause)' /\ Since(episode, previous, pause)'
    BY <1>2, <2>1, Zenon DEF Since
  <2>3. \A p \in pause : OneSide(episode, p)
    BY SinceOneSide, Zenon DEF BridgeInv
  <2>4. (\A r \in result, p \in pause : OneSide(r.samples, p))'
    BY <1>2, <2>3, Zenon DEF OneSide
  <2>5. previous' = {} \/ previous' = last'
    BY <1>2, Zenon DEF BridgeInv
  <2>. QED  BY <1>2, <2>2, <2>4, <2>5, Zenon DEF BridgeInv
<1>3. ASSUME M!SourceGap, last' = last, pause' = pause
      PROVE  BridgeInv'
  <2>1. /\ pre' = <<>> /\ episode' = <<>> /\ previous' = previous
        /\ result' = IF phase = "Idle" THEN {}
                     ELSE {[terminal |-> "INCOMPLETE_SOURCE_GAP", samples |-> episode]}
    BY <1>3, Zenon DEF M!SourceGap, M!abort
  <2>2. \A r \in result' : r.samples = episode
    BY <2>1
  <2>. QED  BY <1>2, <1>3, <2>1, <2>2, Zenon
<1>4. CASE BothGap
  BY <1>3, <1>4, Zenon DEF BothGap, IngestInvalid
<1>5. CASE BothStop
  BY <1>3, <1>5, Zenon DEF BothStop, abort_service_stop
<1>6. CASE CaptureReset
  BY <1>2, <1>6, Zenon DEF CaptureReset, M!reset_demo, vars
<1>7. CASE UNCHANGED bothVars
  BY <1>7, Zenon DEF bothVars, vars, M!captureVars, M!times, BridgeInv, Since, OneSide
<1>. QED  BY <1>1, <1>4, <1>5, <1>6, <1>7, Zenon DEF BothNext

\* ModelCapture never joins samples across a pause, whatever the limits and
\* however the two clocks advance from frame to frame.
THEOREM PausesNotBridged == BothSpec => []NoBridge
<1>1. BothInit => RingInv /\ BridgeInv
  <2>. SUFFICES ASSUME BothInit PROVE RingInv /\ BridgeInv
    BY Zenon
  <2>1. RingInv
    BY RingInit, Zenon DEF BothInit
  <2>2. Since(<<>>, previous, pause)
    BY SinceEmpty, Zenon
  <2>3. BridgeInv
    BY <2>2, Zenon DEF BothInit, M!Init, BridgeInv
  <2>. QED  BY <2>1, <2>3, Zenon
<1>2. RingInv /\ BridgeInv /\ [BothNext]_bothVars => (RingInv /\ BridgeInv)'
  BY EngineSteps, RingStep, BridgeStep, Zenon
<1>3. BridgeInv => NoBridge
  <2>. SUFFICES ASSUME BridgeInv, NEW p \in pause,
                       NEW w \in {pre, episode} \union {r.samples : r \in result}
                PROVE  OneSide(w, p)
    BY Zenon DEF NoBridge, OneSide
  <2>1. \A v : Since(v, previous, pause) => OneSide(v, p)
    BY SinceOneSide, Zenon DEF BridgeInv
  <2>. QED  BY <2>1, Zenon DEF BridgeInv
<1>. QED  BY <1>1, <1>2, <1>3, PTL DEF BothSpec

-----------------------------------------------------------------------------
(* The V1 engine between and in episodes.                                  *)

\* Between episodes V1 keeps no samples but PRE, in one no PRE ring, and a
\* suppression hold only while it is suppressed.
IdleInv ==
    /\ retrigger_suppressed \in BOOLEAN /\ samples \in Seq(Samples)
    /\ state = "Idle" => samples = <<>>
    /\ state # "Idle" => pre_ring = <<>>
    /\ retrigger_suppressed => state = "Idle"
    /\ ~retrigger_suppressed => suppression_hold = {}

\* add_capture_sample() adds a sample or nothing.
LEMMA SampleType ==
    ASSUME NEW w \in Seq(Samples), NEW now \in Int, NEW p \in Phases
    PROVE  Append(w, [phase |-> p, at |-> now]) \in Seq(Samples)
<1>1. [phase |-> p, at |-> now] \in Samples
  BY Zenon DEF Samples
<1>. QED  BY <1>1

\* What finish() leaves.
LEMMA FinishIdle ==
    ASSUME retrigger_suppressed \in BOOLEAN, NEW t, NEW w, finish(t, w)
    PROVE  /\ state' = "Idle" /\ samples' = <<>> /\ samples' \in Seq(Samples)
           /\ retrigger_suppressed' \in BOOLEAN
           /\ retrigger_suppressed' =
                 (retrigger_suppressed \/ t = "TRUNCATED_MAX_DURATION")
BY DEF finish

\* The end of a path that keeps the episode, or finds it full.
LEMMA CaptureIdleInv ==
    ASSUME IdleInv, state # "Idle", ~retrigger_suppressed,
           NEW w \in Seq(Samples), capture(w),
           Len(w) < MaxTotal => state' \in {"Active", "Post"}
    PROVE  IdleInv'
<1>1. CASE finish("TRUNCATED_MAX_DURATION", w) /\ suppression_hold' = {}
  BY <1>1, FinishIdle, Zenon DEF IdleInv
<1>2. CASE /\ Len(w) < MaxTotal /\ samples' = w /\ pre_ring' = pre_ring
           /\ suppression_hold' = suppression_hold
           /\ retrigger_suppressed' = retrigger_suppressed
  <2>1. state' # "Idle"
    BY <1>2, Zenon
  <2>. QED  BY <1>2, <2>1, Zenon DEF IdleInv
<1>. QED  BY <1>1, <1>2, Zenon DEF capture

LEMMA IdleStep ==
    ASSUME RingInv, IdleInv, [Next]_vars
    PROVE  IdleInv'
<1>1. ASSUME NEW f \in FramesAfter(last), ingest(f)
      PROVE  IdleInv'
  <2>1. ~Reordered(f)
    BY <1>1, IngestTimes, Zenon DEF Received
  <2>2. f.mono \in Int /\ "ACTIVE" \in Phases /\ "POST" \in Phases
    BY <2>1, RingBefore, Zenon DEF Phases
  <2>3. CASE IngestSuppressed(f)
    <3>1. /\ state' = state /\ samples' = samples /\ state = "Idle"
          /\ retrigger_suppressed' \in BOOLEAN
          /\ ~retrigger_suppressed' => suppression_hold' = {}
      BY <2>3, Zenon DEF IngestSuppressed, IdleInv
    <3>. QED  BY <3>1, Zenon DEF IdleInv
  <2>4. CASE IngestIdle(f)
    <3>1. /\ retrigger_suppressed' = retrigger_suppressed /\ ~retrigger_suppressed
          /\ suppression_hold' = suppression_hold /\ state = "Idle"
      BY <2>4, Zenon DEF IngestIdle
    <3>2. CASE begin_event(f)
      <4>. DEFINE kept == recent(pre_ring, f.mono)
      <4>1. kept \in Seq(Samples)
        <5>1. PICK was \in Int : was <= f.mono /\ PreRing(pre_ring, was)
          BY <2>1, RingBefore, Zenon
        <5>. QED  BY <2>2, <5>1, RecentRing, Zenon DEF PreRing
      <4>2. /\ state' = "Active" /\ pre_ring' = <<>>
            /\ samples' = IF retained(f)
                          THEN Append(kept, [phase |-> "ACTIVE", at |-> f.mono]) ELSE kept
        BY <3>2, Zenon DEF begin_event
      <4>. HIDE DEF kept
      <4>3. samples' \in Seq(Samples) /\ state' # "Idle"
        BY <2>2, <4>1, <4>2, SampleType, Zenon
      <4>. QED  BY <3>1, <4>2, <4>3, Zenon DEF IdleInv
    <3>3. CASE state' = state /\ samples' = samples
      BY <3>1, <3>3, Zenon DEF IdleInv
    <3>. QED  BY <2>4, <3>2, <3>3, Zenon DEF IngestIdle
  <2>5. CASE IngestTruncated(f)
    BY <2>5, FinishIdle, Zenon DEF IngestTruncated, IdleInv
  <2>6. \A p \in Phases : add_capture_sample(f, p) \in Seq(Samples)
    BY <2>2, SampleType, Zenon DEF add_capture_sample, IdleInv
  <2>7. CASE ~retrigger_suppressed /\ IngestActive(f)
    <3>. DEFINE clear == held(hold_start(qualifying_clear(f), f.mono, clear_hold),
                              f.mono, ClearHold)
                p == IF clear THEN "POST" ELSE "ACTIVE"
                window == add_capture_sample(f, p)
    <3>1. /\ state = "Active" /\ capture(window)
          /\ Len(window) < MaxTotal => state' = IF clear THEN "Post" ELSE "Active"
      BY <2>7, Zenon DEF IngestActive
    <3>2. /\ window \in Seq(Samples)
          /\ (IF clear THEN "Post" ELSE "Active") \in {"Active", "Post"}
      BY <2>2, <2>6, Zenon
    <3>. HIDE DEF window, clear
    <3>. QED  BY <2>7, <3>1, <3>2, CaptureIdleInv, Zenon
  <2>8. CASE ~retrigger_suppressed /\ IngestPost(f)
    <3>. DEFINE retrigger == held(hold_start(qualifying_trigger(f), f.mono, trigger_hold),
                                  f.mono, TriggerHold)
                p == IF retrigger THEN "ACTIVE" ELSE "POST"
                window == add_capture_sample(f, p)
    <3>1. /\ state = "Post"
          /\ \/ finish("COMPLETE", samples) /\ suppression_hold' = suppression_hold
             \/ /\ capture(window)
                /\ Len(window) < MaxTotal => state' = IF retrigger THEN "Active" ELSE "Post"
      BY <2>8, Zenon DEF IngestPost
    <3>2. /\ window \in Seq(Samples)
          /\ (IF retrigger THEN "Active" ELSE "Post") \in {"Active", "Post"}
      BY <2>2, <2>6, Zenon
    <3>. HIDE DEF window, retrigger
    <3>3. CASE finish("COMPLETE", samples) /\ suppression_hold' = suppression_hold
      BY <2>8, <3>3, FinishIdle, Zenon DEF IdleInv
    <3>. QED  BY <2>8, <3>1, <3>2, <3>3, CaptureIdleInv, Zenon
  <2>. QED  BY <1>1, <2>3, <2>4, <2>5, <2>7, <2>8, Zenon DEF ingest
<1>2. CASE IngestInvalid
  <2>1. CASE state # "Idle" /\ finish("INCOMPLETE_SOURCE_GAP", samples)
    BY <1>2, <2>1, FinishIdle, Zenon DEF IdleInv, IngestInvalid
  <2>2. CASE /\ state = "Idle" /\ state' = state /\ samples' = samples
             /\ retrigger_suppressed' = retrigger_suppressed
    BY <1>2, <2>2, Zenon DEF IdleInv, IngestInvalid
  <2>. QED  BY <1>2, <2>1, <2>2, Zenon DEF IngestInvalid
<1>3. CASE abort_service_stop
  BY <1>3, FinishIdle, Zenon DEF IdleInv, abort_service_stop
<1>4. CASE UNCHANGED vars
  BY <1>4, Zenon DEF vars, holds, IdleInv
<1>. QED  BY <1>1, <1>2, <1>3, <1>4, Zenon DEF Next

-----------------------------------------------------------------------------
(* The two captures in lockstep.                                           *)

\* The two captures agree.  Only V1 forgets the active time when an episode
\* ends.
SameCapture ==
    /\ state = phase /\ samples = episode /\ pre_ring = pre
    /\ completed = result /\ retrigger_suppressed = suppressed
SameTimes == last = previous /\ retained_source_bucket = retained_bucket
SameHolds ==
    /\ trigger_hold = trigger_since /\ clear_hold = clear_since
    /\ suppression_hold = suppression_since
SameClocks ==
    /\ event_start = episode_start /\ active_segment_start = active_start
    /\ post_start = post_since
    /\ state # "Idle" => accumulated_active = active_so_far

Together == SameCapture /\ SameTimes /\ SameHolds /\ SameClocks

\* They agree as long as nothing happened that they treat differently.
Lockstep == parted \in Nat /\ (parted = 0 => Together)

\* Captures that agree compute the same limits and the same window.
LEMMA SameTests ==
    ASSUME Together, NEW f
    PROVE  /\ retained(f) = M!Retain(f)
           /\ \A p : add_capture_sample(f, p) = M!with_sample(f, p)
           /\ state # "Idle" => (over_limit(f) <=> M!OverLimit(f))
<1>1. retained(f) = M!Retain(f)
  BY Zenon DEF retained, M!Retain, Together, SameTimes
<1>2. \A p : add_capture_sample(f, p) = M!with_sample(f, p)
  BY <1>1, Zenon DEF add_capture_sample, M!with_sample, Together, SameCapture
<1>3. ASSUME state # "Idle"
      PROVE  over_limit(f) <=> M!OverLimit(f)
  <2>1. active_elapsed(f.mono) =
           active_so_far + (IF phase = "Active" THEN f.mono - active_start ELSE 0)
    BY <1>3, Zenon DEF active_elapsed, Together, SameCapture, SameClocks
  <2>2. phase_count(samples, "ACTIVE") = M!phase_count(episode, "ACTIVE")
    BY SharedOperators, Zenon DEF Together, SameCapture
  <2>. QED  BY <2>1, <2>2, Zenon DEF over_limit, M!OverLimit, Together, SameCapture,
                 SameClocks
<1>. QED  BY <1>1, <1>2, <1>3, Zenon

\* Captures that agree end an episode alike.
LEMMA SameEnd ==
    ASSUME IdleInv, Together, state # "Idle", ~retrigger_suppressed, SameTimes',
           NEW t, NEW w, finish(t, w), M!abort(t, w),
           suppression_hold' \in {{}, suppression_hold}
    PROVE  Together'
<1>1. suppression_hold' = {} /\ pre_ring = <<>>
  BY Zenon DEF IdleInv
<1>2. phase # "Idle"
  BY Zenon DEF Together, SameCapture
<1>3. SameCapture'
  <2>1. /\ state' = "Idle" /\ samples' = <<>> /\ pre_ring' = <<>>
        /\ completed' = {[terminal |-> t, samples |-> w]}
        /\ retrigger_suppressed' = (retrigger_suppressed \/ t = "TRUNCATED_MAX_DURATION")
    BY <1>1, Zenon DEF finish
  <2>2. /\ phase' = "Idle" /\ episode' = <<>> /\ pre' = <<>>
        /\ result' = {[terminal |-> t, samples |-> w]}
        /\ suppressed' = (suppressed \/ t = "TRUNCATED_MAX_DURATION")
    BY <1>2, Zenon DEF M!abort
  <2>3. retrigger_suppressed = suppressed
    BY Zenon DEF Together, SameCapture
  <2>. QED  BY <2>1, <2>2, <2>3, Zenon DEF SameCapture
<1>4. SameHolds'
  BY <1>1, Zenon DEF finish, M!abort, SameHolds
<1>5. SameClocks'
  BY Zenon DEF finish, M!abort, M!times, SameClocks, Together
<1>. QED  BY <1>3, <1>4, <1>5, Zenon DEF Together

\* A frame that keeps the episode, or fills it.
LEMMA SameKeep ==
    ASSUME IdleInv, Together, state # "Idle", ~retrigger_suppressed, SameTimes',
           NEW w \in Seq(Samples), capture(w), M!Capture(w),
           Len(w) < MaxTotal =>
              /\ state' = phase' /\ accumulated_active' = active_so_far'
              /\ active_segment_start' = active_start' /\ post_start' = post_since'
              /\ trigger_hold' = trigger_since' /\ clear_hold' = clear_since'
    PROVE  Together'
<1>1. Len(w) \in Int /\ MaxTotal \in Int
  BY TimingAssumption
<1>2. CASE Len(w) >= MaxTotal
  <2>1. ~(Len(w) < MaxTotal)
    BY <1>1, <1>2
  <2>2. /\ finish("TRUNCATED_MAX_DURATION", w) /\ suppression_hold' = {}
        /\ M!abort("TRUNCATED_MAX_DURATION", w)
    BY <2>1, Zenon DEF capture, M!Capture
  <2>. QED  BY <2>2, SameEnd, Zenon
<1>3. CASE Len(w) < MaxTotal
  <2>1. ~(Len(w) >= MaxTotal)
    BY <1>1, <1>3
  <2>2. /\ samples' = w /\ completed' = {} /\ pre_ring' = pre_ring
        /\ suppression_hold' = suppression_hold /\ event_start' = event_start
        /\ retrigger_suppressed' = retrigger_suppressed
        /\ episode' = w /\ result' = {} /\ pre' = pre
        /\ suppression_since' = suppression_since /\ episode_start' = episode_start
        /\ suppressed' = suppressed
    BY <2>1, Zenon DEF capture, M!Capture
  <2>3. SameCapture'
    BY <1>3, <2>2, Zenon DEF Together, SameCapture
  <2>4. SameHolds'
    BY <1>3, <2>2, Zenon DEF Together, SameHolds
  <2>5. SameClocks'
    BY <1>3, <2>2, Zenon DEF Together, SameClocks
  <2>. QED  BY <2>3, <2>4, <2>5, Zenon DEF Together
<1>. QED  BY <1>1, <1>2, <1>3

\* The two PRE rings, trimmed in different orders, stay the same.
LEMMA SameRing ==
    ASSUME RingInv, Together, NEW f \in FramesAfter(last), ~Reordered(f),
           add_pre_sample(f), M!retain_pre(f)
    PROVE  pre_ring' = pre'
<1>. DEFINE s == [phase |-> "PRE", at |-> f.mono]
<1>1. PICK was \in Int : was <= f.mono /\ PreRing(pre_ring, was)
  BY RingBefore, Zenon
<1>2. f.mono \in Int /\ s \in Samples /\ s.at = f.mono
  BY RingBefore, Zenon DEF Samples, Phases
<1>. HIDE DEF s
<1>3. latest(Append(recent(pre_ring, f.mono), s), MaxPre)
         = recent(latest(Append(pre_ring, s), MaxPre), f.mono)
  BY <1>1, <1>2, TrimEitherWay, Zenon DEF PreRing
<1>4. pre_ring = pre /\ retained(f) = M!Retain(f)
  BY SameTests, Zenon DEF Together, SameCapture
<1>5. pre_ring' = IF retained(f) THEN latest(Append(recent(pre_ring, f.mono), s), MaxPre)
                  ELSE pre_ring
  BY Zenon DEF add_pre_sample, s
<1>6. pre' = IF M!Retain(f) THEN recent(latest(Append(pre, s), MaxPre), f.mono) ELSE pre
  BY SharedOperators, Zenon DEF M!retain_pre, s
<1>. QED  BY <1>3, <1>4, <1>5, <1>6, Zenon

\* Captures that agree take a frame alike, unless V2/V3 sees a gap.
LEMMA SameIngest ==
    ASSUME RingInv, IdleInv, Together, NEW f \in FramesAfter(last),
           ingest(f), M!capture_ingest(f), ~M!Gap(f)
    PROVE  Together'
<1>1. /\ Received(f) /\ M!Arrived(f) /\ M!Bucket(f)
      /\ \/ M!CaptureSuppressed(f) \/ M!CaptureIdle(f) \/ M!CaptureTruncated(f)
         \/ M!CaptureActive(f) \/ M!CapturePost(f)
  BY IngestTimes, Zenon DEF M!capture_ingest, M!IngestGap
<1>2. SameTimes' /\ ~Reordered(f)
  BY <1>1, Zenon DEF Received, M!Arrived, M!Bucket, SameTimes
<1>3. /\ state = phase /\ retrigger_suppressed = suppressed
      /\ trigger_hold = trigger_since /\ clear_hold = clear_since
      /\ suppression_hold = suppression_since
  BY Zenon DEF Together, SameCapture, SameHolds
<1>4. CASE retrigger_suppressed
  <2>1. IngestSuppressed(f)
    BY <1>4, Zenon DEF ingest
  <2>2. M!CaptureSuppressed(f)
    BY <1>1, <1>3, <1>4, Zenon DEF M!CaptureIdle, M!CaptureTruncated, M!CaptureActive,
         M!CapturePost
  <2>3. pre_ring' = pre'
    BY <1>2, <2>1, <2>2, SameRing, Zenon DEF IngestSuppressed, M!CaptureSuppressed
  <2>. DEFINE hold == hold_start(qualifying_clear(f), f.mono, suppression_hold)
              over == held(hold, f.mono, ClearHold)
  <2>4. /\ M!hold_start(M!qualifying_clear(f), f.mono, suppression_since) = hold
        /\ M!held(hold, f.mono, ClearHold) = over
    BY <1>3, SharedOperators, Zenon
  <2>5. /\ retrigger_suppressed' = ~over /\ completed' = {}
        /\ suppression_hold' = IF over THEN {} ELSE hold
        /\ state' = state /\ samples' = samples /\ trigger_hold' = trigger_hold
        /\ clear_hold' = clear_hold /\ event_start' = event_start
        /\ active_segment_start' = active_segment_start
        /\ accumulated_active' = accumulated_active /\ post_start' = post_start
    BY <2>1, Zenon DEF IngestSuppressed, clocks
  <2>6. /\ suppressed' = ~over /\ result' = {}
        /\ suppression_since' = IF over THEN {} ELSE hold
        /\ phase' = phase /\ episode' = episode /\ trigger_since' = trigger_since
        /\ clear_since' = clear_since /\ episode_start' = episode_start
        /\ active_start' = active_start /\ active_so_far' = active_so_far
        /\ post_since' = post_since
    BY <2>2, <2>4, Zenon DEF M!CaptureSuppressed, M!times
  <2>. HIDE DEF over, hold
  <2>7. SameCapture'
    BY <2>3, <2>5, <2>6, Zenon DEF Together, SameCapture
  <2>8. SameHolds' /\ SameClocks'
    BY <2>5, <2>6, Zenon DEF Together, SameHolds, SameClocks
  <2>. QED  BY <1>2, <2>7, <2>8, Zenon DEF Together
<1>5. CASE ~retrigger_suppressed /\ state = "Idle"
  <2>1. IngestIdle(f)
    BY <1>5, Zenon DEF ingest, IngestSuppressed, IngestTruncated, IngestActive, IngestPost
  <2>2. M!CaptureIdle(f)
    BY <1>1, <1>3, <1>5, Zenon DEF M!CaptureSuppressed, M!CaptureTruncated,
         M!CaptureActive, M!CapturePost
  <2>. DEFINE hold == hold_start(qualifying_trigger(f), f.mono, trigger_hold)
              begins == held(hold, f.mono, TriggerHold)
              kept == recent(pre_ring, f.mono)
  <2>3. /\ M!hold_start(M!qualifying_trigger(f), f.mono, trigger_since) = hold
        /\ M!held(hold, f.mono, TriggerHold) = begins
        /\ M!recent(pre, f.mono) = kept
    BY <1>3, SharedOperators, Zenon DEF Together, SameCapture
  <2>4. retained(f) = M!Retain(f)
    BY SameTests, Zenon
  <2>5. /\ completed' = {} /\ suppression_hold' = suppression_hold
        /\ post_start' = post_start /\ retrigger_suppressed' = retrigger_suppressed
        /\ result' = {} /\ suppression_since' = suppression_since
        /\ post_since' = post_since /\ suppressed' = suppressed
    BY <2>1, <2>2, Zenon DEF IngestIdle, M!CaptureIdle
  <2>6. CASE begins
    <3>1. begin_event(f)
      BY <2>1, <2>6, Zenon DEF IngestIdle
    <3>2. /\ phase' = "Active" /\ pre' = <<>>
          /\ episode' = IF M!Retain(f)
                        THEN Append(kept, [phase |-> "ACTIVE", at |-> f.mono]) ELSE kept
          /\ episode_start' = IF kept = <<>> THEN f.mono ELSE Head(kept).at
          /\ active_start' = f.mono /\ active_so_far' = 0
          /\ trigger_since' = {} /\ clear_since' = {}
      <4>. HIDE DEF hold, begins, kept
      <4>. QED  BY <2>2, <2>3, <2>6, Zenon DEF M!CaptureIdle
    <3>3. /\ state' = "Active" /\ pre_ring' = <<>>
          /\ samples' = IF retained(f)
                        THEN Append(kept, [phase |-> "ACTIVE", at |-> f.mono]) ELSE kept
          /\ event_start' = IF kept = <<>> THEN f.mono ELSE Head(kept).at
          /\ active_segment_start' = f.mono /\ accumulated_active' = 0
          /\ trigger_hold' = {} /\ clear_hold' = {}
      BY <3>1, Zenon DEF begin_event
    <3>. HIDE DEF kept, hold, begins
    <3>4. SameCapture'
      BY <2>4, <2>5, <3>2, <3>3, Zenon DEF Together, SameCapture
    <3>5. SameHolds' /\ SameClocks'
      BY <2>5, <3>2, <3>3, Zenon DEF Together, SameHolds, SameClocks
    <3>. QED  BY <1>2, <3>4, <3>5, Zenon DEF Together
  <2>7. CASE ~begins
    <3>1. /\ trigger_hold' = hold /\ add_pre_sample(f) /\ state' = state
          /\ samples' = samples /\ clear_hold' = clear_hold /\ event_start' = event_start
          /\ active_segment_start' = active_segment_start
          /\ accumulated_active' = accumulated_active
      BY <2>1, <2>7, Zenon DEF IngestIdle
    <3>. HIDE DEF kept, hold, begins
    <3>2. /\ trigger_since' = hold /\ M!retain_pre(f) /\ phase' = phase
          /\ episode' = episode /\ clear_since' = clear_since
          /\ episode_start' = episode_start /\ active_start' = active_start
          /\ active_so_far' = active_so_far
      BY <2>2, <2>3, <2>7, Zenon DEF M!CaptureIdle
    <3>3. pre_ring' = pre'
      BY <1>2, <3>1, <3>2, SameRing, Zenon
    <3>4. SameCapture'
      BY <2>5, <3>1, <3>2, <3>3, Zenon DEF Together, SameCapture
    <3>5. SameHolds' /\ SameClocks'
      BY <2>5, <3>1, <3>2, Zenon DEF Together, SameHolds, SameClocks
    <3>. QED  BY <1>2, <3>4, <3>5, Zenon DEF Together
  <2>. QED  BY <2>6, <2>7, Zenon
<1>6. CASE ~retrigger_suppressed /\ state # "Idle" /\ over_limit(f)
  <2>0. M!OverLimit(f)
    BY <1>6, SameTests, Zenon
  <2>1. IngestTruncated(f)
    BY <1>6, Zenon DEF ingest, IngestSuppressed, IngestIdle, IngestActive, IngestPost
  <2>2. M!CaptureTruncated(f)
    BY <1>1, <1>3, <1>6, <2>0, Zenon DEF M!CaptureSuppressed, M!CaptureIdle,
         M!CaptureActive, M!CapturePost
  <2>3. /\ finish("TRUNCATED_MAX_DURATION", samples) /\ suppression_hold' = {}
        /\ M!abort("TRUNCATED_MAX_DURATION", samples)
    BY <2>1, <2>2, Zenon DEF IngestTruncated, M!CaptureTruncated, Together, SameCapture
  <2>. QED  BY <1>2, <1>6, <2>3, SameEnd, Zenon
<1>7. \A p \in Phases : add_capture_sample(f, p) \in Seq(Samples)
  <2>1. f.mono \in Int
    BY <1>2, RingBefore, Zenon
  <2>. QED  BY <2>1, SampleType, Zenon DEF add_capture_sample, IdleInv
<1>8. CASE ~retrigger_suppressed /\ state = "Active" /\ ~over_limit(f)
  <2>0. ~M!OverLimit(f) /\ phase = "Active" /\ "Active" # "Idle" /\ "Active" # "Post"
    BY <1>3, <1>8, SameTests, Zenon
  <2>1. IngestActive(f)
    BY <1>8, <2>0, Zenon DEF ingest, IngestSuppressed, IngestIdle, IngestTruncated, IngestPost
  <2>2. M!CaptureActive(f)
    BY <1>1, <1>3, <1>8, <2>0, Zenon DEF M!CaptureSuppressed, M!CaptureIdle,
         M!CaptureTruncated, M!CapturePost
  <2>. DEFINE hold == hold_start(qualifying_clear(f), f.mono, clear_hold)
              clear == held(hold, f.mono, ClearHold)
              p == IF clear THEN "POST" ELSE "ACTIVE"
              window == add_capture_sample(f, p)
  <2>3. /\ M!hold_start(M!qualifying_clear(f), f.mono, clear_since) = hold
        /\ M!held(hold, f.mono, ClearHold) = clear
        /\ M!with_sample(f, p) = window
    BY <1>3, SharedOperators, SameTests, Zenon
  <2>4. window \in Seq(Samples)
    BY <1>7, Zenon DEF Phases
  <2>5. /\ capture(window)
        /\ Len(window) < MaxTotal =>
              /\ state' = IF clear THEN "Post" ELSE "Active"
              /\ accumulated_active' = accumulated_active
                    + IF clear THEN f.mono - active_segment_start ELSE 0
              /\ post_start' = IF clear THEN f.mono ELSE post_start
              /\ clear_hold' = IF clear THEN {} ELSE hold
              /\ trigger_hold' = IF clear THEN {} ELSE trigger_hold
              /\ active_segment_start' = active_segment_start
    BY <2>1, Zenon DEF IngestActive
  <2>. HIDE DEF hold, clear, window
  <2>6. /\ M!Capture(window)
        /\ Len(window) < MaxTotal =>
              /\ phase' = IF clear THEN "Post" ELSE "Active"
              /\ active_so_far' = active_so_far
                    + IF clear THEN f.mono - active_start ELSE 0
              /\ post_since' = IF clear THEN f.mono ELSE post_since
              /\ clear_since' = IF clear THEN {} ELSE hold
              /\ trigger_since' = IF clear THEN {} ELSE trigger_since
              /\ active_start' = active_start
    BY <2>2, <2>3, Zenon DEF M!CaptureActive
  <2>7. /\ accumulated_active = active_so_far /\ active_segment_start = active_start
        /\ post_start = post_since /\ trigger_hold = trigger_since
    BY <1>3, <1>8, <2>0, Zenon DEF Together, SameClocks
  <2>8. Len(window) < MaxTotal =>
              /\ state' = phase' /\ accumulated_active' = active_so_far'
              /\ active_segment_start' = active_start' /\ post_start' = post_since'
              /\ trigger_hold' = trigger_since' /\ clear_hold' = clear_since'
    BY <2>5, <2>6, <2>7, Zenon
  <2>. QED  BY <1>2, <1>8, <2>4, <2>5, <2>6, <2>8, SameKeep, Zenon
<1>9. CASE ~retrigger_suppressed /\ state = "Post" /\ ~over_limit(f)
  <2>0. ~M!OverLimit(f) /\ phase = "Post" /\ "Post" # "Idle" /\ "Active" # "Post"
    BY <1>3, <1>9, SameTests, Zenon
  <2>1. IngestPost(f)
    BY <1>9, <2>0, Zenon DEF ingest, IngestSuppressed, IngestIdle, IngestTruncated, IngestActive
  <2>2. M!CapturePost(f)
    BY <1>1, <1>3, <1>9, <2>0, Zenon DEF M!CaptureSuppressed, M!CaptureIdle,
         M!CaptureTruncated, M!CaptureActive
  <2>. DEFINE hold == hold_start(qualifying_trigger(f), f.mono, trigger_hold)
              retrigger == held(hold, f.mono, TriggerHold)
              p == IF retrigger THEN "ACTIVE" ELSE "POST"
              window == add_capture_sample(f, p)
              over == \/ f.mono - post_since >= PostDuration
                      \/ M!phase_count(episode, "POST") >= MaxPost
  <2>3. /\ M!hold_start(M!qualifying_trigger(f), f.mono, trigger_since) = hold
        /\ M!held(hold, f.mono, TriggerHold) = retrigger
        /\ M!with_sample(f, p) = window
    BY <1>3, SharedOperators, SameTests, Zenon
  <2>4. window \in Seq(Samples)
    BY <1>7, Zenon DEF Phases
  <2>5. PostOver(f) <=> over
    <3>1. phase_count(samples, "POST") = M!phase_count(episode, "POST")
      BY SharedOperators, Zenon DEF Together, SameCapture
    <3>. QED  BY <3>1, Zenon DEF PostOver, Together, SameClocks
  <2>. DEFINE Ends == ~retrigger /\ over
              Kept == /\ state' = IF retrigger THEN "Active" ELSE "Post"
                      /\ active_segment_start' =
                            IF retrigger THEN f.mono ELSE active_segment_start
                      /\ trigger_hold' = IF retrigger THEN {} ELSE hold
                      /\ clear_hold' = IF retrigger THEN {} ELSE clear_hold
                      /\ accumulated_active' = accumulated_active /\ post_start' = post_start
              KeptToo == /\ phase' = IF retrigger THEN "Active" ELSE "Post"
                         /\ active_start' = IF retrigger THEN f.mono ELSE active_start
                         /\ trigger_since' = IF retrigger THEN {} ELSE hold
                         /\ clear_since' = IF retrigger THEN {} ELSE clear_since
                         /\ active_so_far' = active_so_far /\ post_since' = post_since
  <2>6. \/ /\ Ends /\ finish("COMPLETE", samples)
           /\ suppression_hold' = suppression_hold
        \/ ~Ends /\ capture(window) /\ (Len(window) < MaxTotal => Kept)
    <3>. HIDE DEF over
    <3>. QED  BY <2>1, <2>5, Zenon DEF IngestPost
  <2>7. \/ Ends /\ M!abort("COMPLETE", episode)
        \/ ~Ends /\ M!Capture(window) /\ (Len(window) < MaxTotal => KeptToo)
    <3>. HIDE DEF hold, retrigger, window
    <3>. QED  BY <2>2, <2>3, Zenon DEF M!CapturePost
  <2>. HIDE DEF hold, retrigger, window, over
  <2>8. CASE Ends
    <3>1. /\ finish("COMPLETE", samples) /\ M!abort("COMPLETE", samples)
          /\ suppression_hold' = suppression_hold
      BY <2>6, <2>7, <2>8, Zenon DEF Together, SameCapture
    <3>. QED  BY <1>2, <1>9, <3>1, SameEnd, Zenon
  <2>9. CASE ~Ends
    <3>1. /\ capture(window) /\ M!Capture(window)
          /\ Len(window) < MaxTotal => Kept /\ KeptToo
      BY <2>6, <2>7, <2>9, Zenon
    <3>2. /\ accumulated_active = active_so_far /\ active_segment_start = active_start
          /\ post_start = post_since /\ clear_hold = clear_since
      BY <1>3, <1>9, <2>0, Zenon DEF Together, SameClocks
    <3>3. Len(window) < MaxTotal =>
              /\ state' = phase' /\ accumulated_active' = active_so_far'
              /\ active_segment_start' = active_start' /\ post_start' = post_since'
              /\ trigger_hold' = trigger_since' /\ clear_hold' = clear_since'
      BY <3>1, <3>2, Zenon
    <3>. QED  BY <1>2, <1>9, <2>4, <3>1, <3>3, SameKeep, Zenon
  <2>. QED  BY <2>8, <2>9, Zenon
<1>. QED
  <2>1. ~retrigger_suppressed /\ state # "Idle" /\ ~over_limit(f)
           => state \in {"Active", "Post"}
    BY Zenon DEF ingest, IngestSuppressed, IngestIdle, IngestTruncated, IngestActive,
         IngestPost
  <2>. QED  BY <1>4, <1>5, <1>6, <1>8, <1>9, <2>1, Zenon

\* Every step keeps the lockstep, or is counted.
LEMMA LockstepStep ==
    ASSUME RingInv, IdleInv, Lockstep, [BothNext]_bothVars
    PROVE  Lockstep'
<1>1. ASSUME NEW d, Part(d), parted = 0 /\ ~d => Together'
      PROVE  Lockstep'
  <2>1. parted' \in Nat /\ (parted' = 0 => parted = 0 /\ ~d)
    BY <1>1 DEF Part, Lockstep
  <2>. QED  BY <1>1, <2>1, Zenon DEF Lockstep
<1>2. ASSUME NEW f \in FramesAfter(last), BothIngest(f)
      PROVE  Lockstep'
  <2>1. parted = 0 /\ ~M!Gap(f) => Together'
    BY <1>2, SameIngest, Zenon DEF BothIngest, Lockstep
  <2>. QED  BY <1>1, <1>2, <2>1, Zenon DEF BothIngest
<1>3. CASE BothGap
  <2>. DEFINE d == phase = "Idle" /\ pre # <<>>
  <2>1. ASSUME parted = 0, ~d
        PROVE  Together'
    <3>0. Together /\ IngestInvalid /\ M!abort("INCOMPLETE_SOURCE_GAP", episode)
      BY <1>3, <2>1, Zenon DEF Lockstep, BothGap, M!SourceGap
    <3>1. SameTimes'
      BY <1>3, <3>0, Zenon DEF BothGap, IngestInvalid, M!SourceGap, Together, SameTimes
    <3>2. CASE state # "Idle"
      <4>1. /\ finish("INCOMPLETE_SOURCE_GAP", samples) /\ suppression_hold' = {}
            /\ M!abort("INCOMPLETE_SOURCE_GAP", samples) /\ ~retrigger_suppressed
        BY <3>0, <3>2, Zenon DEF IngestInvalid, Together, SameCapture, IdleInv
      <4>. QED  BY <3>0, <3>1, <3>2, <4>1, SameEnd, Zenon
    <3>3. CASE state = "Idle"
      <4>1. /\ suppression_hold' = {} /\ trigger_hold' = {} /\ clear_hold' = {}
            /\ completed' = {} /\ state' = state /\ pre_ring' = pre_ring
            /\ samples' = samples /\ event_start' = event_start
            /\ active_segment_start' = active_segment_start /\ post_start' = post_start
            /\ retrigger_suppressed' = retrigger_suppressed
        BY <3>0, <3>3, Zenon DEF IngestInvalid, clocks
      <4>2. phase = "Idle" /\ pre_ring = <<>> /\ samples = <<>>
        BY <2>1, <3>0, <3>3, Zenon DEF Together, SameCapture, IdleInv
      <4>3. /\ suppression_since' = {} /\ trigger_since' = {} /\ clear_since' = {}
            /\ result' = {} /\ phase' = "Idle" /\ pre' = <<>> /\ episode' = <<>>
            /\ episode_start' = episode_start /\ active_start' = active_start
            /\ post_since' = post_since
        BY <3>0, <4>2, Zenon DEF M!abort, M!times
      <4>4. suppressed' = suppressed
        BY <3>0, <4>2, Zenon DEF M!abort, Together, SameCapture, IdleInv
      <4>5. SameCapture'
        BY <3>0, <3>3, <4>1, <4>2, <4>3, <4>4, Zenon DEF Together, SameCapture
      <4>6. SameHolds' /\ SameClocks'
        BY <3>0, <3>3, <4>1, <4>3, Zenon DEF Together, SameHolds, SameClocks
      <4>. QED  BY <3>1, <4>5, <4>6, Zenon DEF Together
    <3>. QED  BY <3>2, <3>3, Zenon
  <2>. QED  BY <1>1, <1>3, <2>1, Zenon DEF BothGap
<1>4. CASE BothStop
  BY <1>1, <1>4, Zenon DEF BothStop
<1>5. CASE CaptureReset
  BY <1>1, <1>5, Zenon DEF CaptureReset
<1>6. CASE UNCHANGED bothVars
  BY <1>6, Zenon DEF bothVars, vars, holds, clocks, M!captureVars, M!times, Lockstep,
       Together, SameCapture, SameTimes, SameHolds, SameClocks
<1>. QED  BY <1>2, <1>3, <1>4, <1>5, <1>6, Zenon DEF BothNext

\* V1 and V2/V3 find the same episodes, for all limits and all steps of the two
\* clocks: until V2/V3 first drops what V1 keeps (parted), the window engine and
\* ModelCapture are in the same phase with the same samples and end the same
\* episodes with the same frame.
THEOREM EpisodesAgree == BothSpec => []SameEpisodes
<1>1. BothInit => RingInv /\ IdleInv /\ Lockstep
  <2>. SUFFICES ASSUME BothInit PROVE RingInv /\ IdleInv /\ Lockstep
    BY Zenon
  <2>1. RingInv
    BY RingInit, Zenon DEF BothInit
  <2>2. IdleInv
    <3>1. <<>> \in Seq(Samples) /\ FALSE \in BOOLEAN
      OBVIOUS
    <3>. QED  BY <3>1, Zenon DEF BothInit, Init, IdleInv
  <2>3. Together
    BY Zenon DEF BothInit, Init, M!Init, Together, SameCapture, SameTimes, SameHolds,
       SameClocks
  <2>4. parted \in Nat
    BY Zenon DEF BothInit
  <2>. QED  BY <2>1, <2>2, <2>3, <2>4, Zenon DEF Lockstep
<1>2. RingInv /\ IdleInv /\ Lockstep /\ [BothNext]_bothVars
         => (RingInv /\ IdleInv /\ Lockstep)'
  BY EngineSteps, RingStep, IdleStep, LockstepStep, Zenon
<1>3. Lockstep => SameEpisodes
  BY Zenon DEF Lockstep, Together, SameCapture, SameEpisodes
<1>. QED  BY <1>1, <1>2, <1>3, PTL DEF BothSpec

=============================================================================
