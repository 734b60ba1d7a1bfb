------------------------- MODULE ObservationProofs --------------------------
(***************************************************************************)
(* The observation stream for any number of contents, any queue limit and  *)
(* any number of crashes, power losses and failed commits: what a crash    *)
(* leaves behind is accepted at the next start, an attempted message is    *)
(* kept until it is stored, and no identity is used for two contents.      *)
(***************************************************************************)
EXTENDS FunctionObservation, SequenceTheorems, WellFoundedInduction, TLAPS

\* The numbers (generation, sequence) of a ledger or a message are the same.
SameId(m, n) == m.generation = n.generation /\ m.sequence = n.sequence

\* A ledger the constructor accepts.
Good(l) ==
    /\ l \in Ledgers
    /\ Len(l.pending) <= QueueLimit
    /\ \A i \in 1..Len(l.pending) : ~Before(l, l.pending[i].message)
    /\ \A i, j \in 1..Len(l.pending) :
          SameId(l.pending[i].message, l.pending[j].message) => i = j

\* A ledger that knows what was handed out: its numbers are not below, an
\* entry with the identity of a posted message is that message, and what is
\* not stored is pending as attempted.
Agrees(l, P, S) ==
    /\ \A m \in P : ~Before(l, m)
    /\ \A m \in P : \A i \in 1..Len(l.pending) :
          SameId(l.pending[i].message, m) => l.pending[i].message = m
    /\ \A m \in P \ S : \E i \in 1..Len(l.pending) :
          l.pending[i] = [attempted |-> TRUE, message |-> m]

Committing == worker \in {"write", "rename", "sync"}

\* The inductive invariant.  Both ledgers a crash can leave behind and the
\* one being committed are good and agree with what was posted; the ledger in
\* memory is the one on disk except between rename and sync.
StreamInv ==
    /\ posted \subseteq Messages
    /\ \A m, n \in posted : SameId(m, n) => m = n
    /\ Good(ledger_json) /\ Agrees(ledger_json, posted, stored)
    /\ Good(synced) /\ Agrees(synced, posted, stored)
    /\ Committing => Good(target) /\ Agrees(target, posted, stored)
    /\ Committing /\ then = "posting" =>
          target.pending # <<>> /\ target.pending[1].attempted
    /\ then \in {"idle", "posting"}
    /\ worker \in {"idle", "posting"} => ledger_json = ledger /\ synced = ledger
    /\ worker \in {"write", "rename"} => ledger_json = ledger
    /\ worker = "sync" => ledger_json = target
    /\ worker = "posting" => ledger.pending # <<>>

-----------------------------------------------------------------------------
(* Ledgers.                                                                *)

\* A set of positions that is not empty has a last one.
LEMMA LastOf ==
    ASSUME NEW n \in Nat, NEW S \in SUBSET (1..n), S # {}
    PROVE  \E i \in S : \A j \in S : j <= i
<1>. DEFINE T == {k \in Nat : n - k \in S}
            R == OpToRel(<, Nat)
<1>1. T \subseteq Nat /\ T # {}
  <2>1. PICK i \in S : TRUE
    BY Zenon
  <2>2. n - i \in Nat /\ n - (n - i) = i
    BY <2>1
  <2>. QED  BY <2>1, <2>2, Zenon
<1>2. PICK k \in T : \A l \in T : ~(<<l, k>> \in R)
  <2>1. IsWellFoundedOn(R, Nat)
    BY NatLessThanWellFounded, Zenon
  <2>. HIDE DEF T, R
  <2>. QED  BY <1>1, <2>1, WFMin, Zenon
<1>3. \A l \in T : ~(l < k)
  <2>1. \A l \in T : l < k => <<l, k>> \in R
    BY Zenon DEF OpToRel
  <2>. QED  BY <1>2, <2>1, Zenon
<1>4. \A j \in S : n - j \in T
  <2>. TAKE j \in S
  <2>1. n - j \in Nat /\ n - (n - j) = j
    OBVIOUS
  <2>. QED  BY <2>1, Zenon
<1>5. n - k \in S /\ \A j \in S : j <= n - k
  BY <1>3, <1>4
<1>. QED  BY <1>5, Zenon

\* The types of a ledger's parts.
LEMMA LedgerTypes ==
    ASSUME NEW l \in Ledgers
    PROVE  /\ l.generation \in Nat /\ l.sequence \in Nat
           /\ l.pending \in Seq(Entries) /\ Len(l.pending) \in Nat
           /\ DOMAIN l.pending = 1..Len(l.pending)
           /\ \A i \in 1..Len(l.pending) :
                 /\ l.pending[i] \in Entries
                 /\ l.pending[i].message \in Messages
<1>1. /\ l.generation \in Nat /\ l.sequence \in Nat
      /\ l.pending \in Seq(Entries)
  BY ObservationAssumption DEF Ledgers
<1>2. /\ Len(l.pending) \in Nat /\ DOMAIN l.pending = 1..Len(l.pending)
      /\ \A i \in 1..Len(l.pending) : l.pending[i] \in Entries
  BY <1>1, LenProperties, ElementOfSeq, Zenon
<1>. QED  BY <1>1, <1>2, Zenon DEF Entries

\* The types of a message's parts.
LEMMA MessageTypes ==
    ASSUME NEW m \in Messages
    PROVE  m.generation \in Nat /\ m.sequence \in Nat
BY ObservationAssumption DEF Messages

\* A ledger that takes its messages from another one, each at most once,
\* without going back in numbers and without losing one that was attempted
\* and is not stored, is as good.
LEMMA Inherits ==
    ASSUME NEW l, Good(l), Agrees(l, posted, stored), NEW n \in Ledgers,
           NEW f \in [1..Len(n.pending) -> 1..Len(l.pending)],
           Len(n.pending) <= Len(l.pending),
           \A i \in 1..Len(n.pending) :
              n.pending[i].message = l.pending[f[i]].message,
           \A i, j \in 1..Len(n.pending) : f[i] = f[j] => i = j,
           SameId(l, n) \/ Before(l, n),
           \A k \in 1..Len(l.pending) :
              l.pending[k].attempted /\ l.pending[k].message \notin stored
                 => \E i \in 1..Len(n.pending) : n.pending[i] = l.pending[k],
           posted \subseteq Messages
    PROVE  Good(n) /\ Agrees(n, posted, stored)
<1>1. l \in Ledgers
  BY Zenon DEF Good
<1>2. ASSUME NEW m \in Messages, ~Before(l, m)
      PROVE  ~Before(n, m)
  <2>1. /\ l.generation \in Nat /\ l.sequence \in Nat
        /\ n.generation \in Nat /\ n.sequence \in Nat
    BY <1>1, LedgerTypes, Zenon
  <2>2. m.generation \in Nat /\ m.sequence \in Nat
    BY MessageTypes, Zenon
  <2>. QED  BY <1>2, <2>1, <2>2 DEF Before, SameId
<1>3. \A i \in 1..Len(n.pending) :
         /\ f[i] \in 1..Len(l.pending)
         /\ l.pending[f[i]].message \in Messages
  BY <1>1, LedgerTypes, Zenon
<1>4. Len(n.pending) <= QueueLimit
  <2>1. Len(n.pending) \in Nat /\ Len(l.pending) \in Nat
    BY <1>1, LedgerTypes, Zenon
  <2>. QED  BY <2>1, ObservationAssumption DEF Good
<1>5. \A i \in 1..Len(n.pending) : ~Before(n, n.pending[i].message)
  BY <1>2, <1>3, Zenon DEF Good
<1>6. \A i, j \in 1..Len(n.pending) :
         SameId(n.pending[i].message, n.pending[j].message) => i = j
  BY <1>3, Zenon DEF Good
<1>7. \A m \in posted : ~Before(n, m)
  BY <1>2, Zenon DEF Agrees
<1>8. \A m \in posted : \A i \in 1..Len(n.pending) :
         SameId(n.pending[i].message, m) => n.pending[i].message = m
  BY <1>3, Zenon DEF Agrees
<1>9. \A m \in posted \ stored : \E i \in 1..Len(n.pending) :
         n.pending[i] = [attempted |-> TRUE, message |-> m]
  <2>. TAKE m \in posted \ stored
  <2>1. PICK k \in 1..Len(l.pending) :
           l.pending[k] = [attempted |-> TRUE, message |-> m]
    BY Zenon DEF Agrees
  <2>2. l.pending[k].attempted /\ l.pending[k].message = m
    BY <2>1
  <2>. QED  BY <2>1, <2>2
<1>. QED  BY <1>4, <1>5, <1>6, <1>7, <1>8, <1>9, Zenon DEF Good, Agrees

\* A ledger with other numbers or another queue, by its parts.
LEMMA LedgerIs ==
    ASSUME NEW g \in 0..MaxInteger, NEW s \in 0..MaxInteger,
           NEW p \in Seq(Entries)
    PROVE  LET n == [generation |-> g, sequence |-> s, pending |-> p]
           IN  /\ n \in Ledgers
               /\ n.generation = g /\ n.sequence = s /\ n.pending = p
BY Zenon DEF Ledgers

\* The same queue under the numbers of a new generation.
LEMMA NextGeneration ==
    ASSUME NEW l, Good(l), Agrees(l, posted, stored), posted \subseteq Messages,
           l.generation < MaxInteger
    PROVE  LET n == [generation |-> l.generation + 1, sequence |-> 0,
                     pending |-> l.pending]
           IN  Good(n) /\ Agrees(n, posted, stored)
<1>. DEFINE n == [generation |-> l.generation + 1, sequence |-> 0,
                  pending |-> l.pending]
            f == [i \in 1..Len(l.pending) |-> i]
<1>1. l \in Ledgers
  BY Zenon DEF Good
<1>2. /\ l.generation \in Nat /\ l.sequence \in Nat
      /\ Len(l.pending) \in Nat
  BY <1>1, LedgerTypes, Zenon
<1>3. /\ n \in Ledgers /\ n.pending = l.pending
      /\ n.generation = l.generation + 1 /\ n.sequence = 0
  <2>1. l.generation + 1 \in 0..MaxInteger /\ 0 \in 0..MaxInteger
    BY <1>2, ObservationAssumption
  <2>2. l.pending \in Seq(Entries)
    BY <1>1, LedgerTypes, Zenon
  <2>. QED  BY <2>1, <2>2, LedgerIs, Zenon
<1>. HIDE DEF n
<1>4. Before(l, n)
  BY <1>2, <1>3 DEF Before
<1>5. /\ f \in [1..Len(n.pending) -> 1..Len(l.pending)]
      /\ \A i \in 1..Len(n.pending) : f[i] = i
  BY <1>3, Zenon
<1>. HIDE DEF f
<1>6. /\ Len(n.pending) <= Len(l.pending)
      /\ \A i \in 1..Len(n.pending) :
            n.pending[i].message = l.pending[f[i]].message
      /\ \A i, j \in 1..Len(n.pending) : f[i] = f[j] => i = j
      /\ \A k \in 1..Len(l.pending) :
            \E i \in 1..Len(n.pending) : n.pending[i] = l.pending[k]
  BY <1>2, <1>3, <1>5
<1>7. Good(n) /\ Agrees(n, posted, stored)
  BY <1>3, <1>4, <1>5, <1>6, Inherits, Zenon
<1>. QED  BY <1>7, Zenon DEF n

\* The ledger with another queue.
LEMMA Requeued ==
    ASSUME NEW l \in Ledgers, NEW p \in Seq(Entries)
    PROVE  LET n == [l EXCEPT !.pending = p]
           IN  /\ n \in Ledgers /\ n.pending = p /\ SameId(l, n)
               /\ n.generation = l.generation /\ n.sequence = l.sequence
BY Zenon DEF Ledgers, SameId

\* accept(): the head, once stored, leaves the queue.
LEMMA Retired ==
    ASSUME NEW l, Good(l), Agrees(l, posted, stored), posted \subseteq Messages,
           l.pending # <<>>, Head(l.pending).message \in stored
    PROVE  LET n == [l EXCEPT !.pending = Tail(@)]
           IN  Good(n) /\ Agrees(n, posted, stored)
<1>. DEFINE p == Tail(l.pending)
            n == [l EXCEPT !.pending = p]
            f == [i \in 1..Len(p) |-> i + 1]
<1>1. l \in Ledgers /\ l.pending \in Seq(Entries) /\ Len(l.pending) \in Nat
  BY LedgerTypes, Zenon DEF Good
<1>2. /\ p \in Seq(Entries) /\ Len(p) = Len(l.pending) - 1 /\ Len(p) \in Nat
      /\ \A i \in 1..Len(p) : p[i] = l.pending[i + 1]
      /\ Head(l.pending) = l.pending[1]
  BY <1>1, HeadTailProperties, LenProperties
<1>. HIDE DEF p
<1>3. n \in Ledgers /\ n.pending = p /\ SameId(l, n)
  BY <1>1, <1>2, Requeued, Zenon
<1>. HIDE DEF n
<1>4. /\ f \in [1..Len(n.pending) -> 1..Len(l.pending)]
      /\ \A i \in 1..Len(n.pending) : f[i] = i + 1
  BY <1>1, <1>2, <1>3
<1>. HIDE DEF f
<1>5. /\ Len(n.pending) <= Len(l.pending)
      /\ \A i \in 1..Len(n.pending) :
            n.pending[i].message = l.pending[f[i]].message
      /\ \A i, j \in 1..Len(n.pending) : f[i] = f[j] => i = j
  <2>1. Len(n.pending) <= Len(l.pending)
    BY <1>1, <1>2, <1>3
  <2>2. \A i \in 1..Len(n.pending) :
           n.pending[i].message = l.pending[f[i]].message
    BY <1>2, <1>3, <1>4, Zenon
  <2>3. ASSUME NEW i \in 1..Len(n.pending), NEW j \in 1..Len(n.pending),
               f[i] = f[j]
        PROVE  i = j
    <3>1. i + 1 = j + 1 /\ i \in Int /\ j \in Int
      BY <1>2, <1>3, <1>4, <2>3
    <3>. QED  BY <3>1
  <2>. QED  BY <2>1, <2>2, <2>3, Zenon
<1>6. \A k \in 1..Len(l.pending) :
         l.pending[k].attempted /\ l.pending[k].message \notin stored
            => \E i \in 1..Len(n.pending) : n.pending[i] = l.pending[k]
  <2>. SUFFICES ASSUME NEW k \in 1..Len(l.pending),
                       l.pending[k].message \notin stored
                PROVE  \E i \in 1..Len(n.pending) : n.pending[i] = l.pending[k]
    BY Zenon
  <2>1. k # 1
    BY <1>2, Zenon
  <2>2. k - 1 \in 1..Len(p) /\ (k - 1) + 1 = k
    BY <1>1, <1>2, <2>1
  <2>3. p[k - 1] = l.pending[k]
    BY <1>2, <2>2, Zenon
  <2>. QED  BY <1>3, <2>2, <2>3, Zenon
<1>7. Good(n) /\ Agrees(n, posted, stored)
  BY <1>3, <1>4, <1>5, <1>6, Inherits, Zenon
<1>. QED  BY <1>7, Zenon DEF n, p

\* next(): the head is marked before it is handed out.
LEMMA Marked ==
    ASSUME NEW l, Good(l), Agrees(l, posted, stored), posted \subseteq Messages,
           l.pending # <<>>, ~l.pending[1].attempted
    PROVE  LET n == [l EXCEPT !.pending[1].attempted = TRUE]
           IN  /\ Good(n) /\ Agrees(n, posted, stored)
               /\ n.pending # <<>> /\ n.pending[1].attempted
<1>. DEFINE e == [l.pending[1] EXCEPT !.attempted = TRUE]
            p == [l.pending EXCEPT ![1] = e]
            n == [l EXCEPT !.pending = p]
            f == [i \in 1..Len(l.pending) |-> i]
<1>1. l \in Ledgers /\ l.pending \in Seq(Entries) /\ Len(l.pending) \in Nat
  BY LedgerTypes, Zenon DEF Good
<1>2. 1 \in 1..Len(l.pending)
  BY <1>1, EmptySeq
<1>3. /\ e \in Entries /\ e.attempted /\ e.message = l.pending[1].message
  <2>1. l.pending[1] \in Entries
    BY <1>1, <1>2, LedgerTypes, Zenon
  <2>. QED  BY <2>1, Zenon DEF Entries
<1>. HIDE DEF e
<1>4. /\ p \in Seq(Entries) /\ Len(p) = Len(l.pending) /\ p[1] = e
      /\ \A i \in 1..Len(p) : i # 1 => p[i] = l.pending[i]
  BY <1>1, <1>2, <1>3, ExceptSeq
<1>. HIDE DEF p
<1>5. n \in Ledgers /\ n.pending = p /\ SameId(l, n)
  BY <1>1, <1>4, Requeued, Zenon
<1>. HIDE DEF n
<1>6. /\ f \in [1..Len(n.pending) -> 1..Len(l.pending)]
      /\ \A i \in 1..Len(n.pending) : f[i] = i
  BY <1>4, <1>5, Zenon
<1>. HIDE DEF f
<1>7. /\ Len(n.pending) <= Len(l.pending)
      /\ \A i \in 1..Len(n.pending) :
            n.pending[i].message = l.pending[f[i]].message
      /\ \A i, j \in 1..Len(n.pending) : f[i] = f[j] => i = j
  BY <1>1, <1>3, <1>4, <1>5, <1>6
<1>8. \A k \in 1..Len(l.pending) : l.pending[k].attempted
         => \E i \in 1..Len(n.pending) : n.pending[i] = l.pending[k]
  BY <1>4, <1>5, Zenon
<1>9. Good(n) /\ Agrees(n, posted, stored)
  BY <1>5, <1>6, <1>7, <1>8, Inherits
<1>10. n.pending # <<>> /\ n.pending[1].attempted
  <2>1. Len(p) # 0
    BY <1>1, <1>2, <1>4
  <2>. QED  BY <1>3, <1>4, <1>5, <2>1, EmptySeq, Zenon
<1>. QED  BY <1>9, <1>10, Zenon DEF n, p, e

\* observe(): making room removes one entry that was never attempted.
LEMMA Evicted ==
    ASSUME NEW l, Good(l), Agrees(l, posted, stored), posted \subseteq Messages,
           \E i \in DOMAIN l.pending : ~l.pending[i].attempted
    PROVE  LET n == [l EXCEPT !.pending = Evict(l.pending)]
           IN  /\ Good(n) /\ Agrees(n, posted, stored) /\ SameId(l, n)
               /\ n.pending = Evict(l.pending)
               /\ Len(n.pending) = Len(l.pending) - 1
<1>. DEFINE q == l.pending
            N == Len(q)
            unsent == {i \in DOMAIN q : ~q[i].attempted}
            last == CHOOSE i \in unsent : \A j \in unsent : j <= i
            a == SubSeq(q, 1, last - 1)
            b == SubSeq(q, last + 1, N)
            p == a \o b
            n == [l EXCEPT !.pending = p]
            f == [i \in 1..(N - 1) |-> IF i < last THEN i ELSE i + 1]
<1>1. /\ l \in Ledgers /\ q \in Seq(Entries) /\ N \in Nat
      /\ DOMAIN q = 1..N /\ \A i \in 1..N : q[i] \in Entries
  BY LedgerTypes, Zenon DEF Good
<1>2. last \in 1..N /\ ~q[last].attempted
  <2>1. unsent \in SUBSET (1..N) /\ unsent # {}
    BY <1>1, Zenon
  <2>2. \E i \in unsent : \A j \in unsent : j <= i
    <3>. HIDE DEF unsent
    <3>. QED  BY <1>1, <2>1, LastOf, Zenon
  <2>3. last \in unsent
    <3>. HIDE DEF unsent
    <3>. QED  BY <2>2, Zenon
  <2>. QED  BY <1>1, <2>3, Zenon
<1>3. Evict(q) = p
  BY Zenon DEF Evict
<1>. HIDE DEF last
<1>4. /\ a \in Seq(Entries) /\ Len(a) = last - 1
      /\ \A i \in 1..(last - 1) : a[i] = q[i]
  <2>1. 1 \in Int /\ last - 1 \in Int /\ last - 1 \in Nat
        /\ \A i \in 1..(last - 1) : q[i] \in Entries
    BY <1>1, <1>2
  <2>2. /\ a \in Seq(Entries)
        /\ Len(a) = IF 1 <= last - 1 THEN (last - 1) - 1 + 1 ELSE 0
        /\ \A i \in 1..((last - 1) - 1 + 1) : a[i] = q[1 + i - 1]
    <3>. HIDE DEF q
    <3>. QED  BY <2>1, SubSeqProperties
  <2>3. \A i \in 1..(last - 1) : i \in 1..((last - 1) - 1 + 1) /\ 1 + i - 1 = i
    BY <1>2
  <2>. HIDE DEF a, q
  <2>4. Len(a) = last - 1
    BY <2>1, <2>2
  <2>. QED  BY <2>2, <2>3, <2>4, Zenon
<1>5. /\ b \in Seq(Entries) /\ Len(b) = N - last
      /\ \A i \in 1..(N - last) : b[i] = q[last + i]
  <2>1. last + 1 \in Int /\ N \in Int
        /\ \A i \in (last + 1)..N : q[i] \in Entries
    BY <1>1, <1>2
  <2>2. /\ b \in Seq(Entries)
        /\ Len(b) = IF last + 1 <= N THEN N - (last + 1) + 1 ELSE 0
        /\ \A i \in 1..(N - (last + 1) + 1) : b[i] = q[(last + 1) + i - 1]
    <3>. HIDE DEF q, N
    <3>. QED  BY <2>1, SubSeqProperties
  <2>3. \A i \in 1..(N - last) :
           i \in 1..(N - (last + 1) + 1) /\ (last + 1) + i - 1 = last + i
    BY <1>1, <1>2
  <2>4. N \in Nat /\ last \in 1..N
    BY <1>1, <1>2, Zenon
  <2>. HIDE DEF b, q, N
  <2>5. Len(b) = N - last
    BY <2>2, <2>4
  <2>. QED  BY <2>2, <2>3, <2>5, Zenon
<1>6. /\ p \in Seq(Entries) /\ Len(p) = N - 1 /\ N - 1 \in Nat
      /\ \A i \in 1..(N - 1) : p[i] = q[IF i < last THEN i ELSE i + 1]
  <2>. HIDE DEF a, b
  <2>1. /\ p \in Seq(Entries) /\ Len(p) = Len(a) + Len(b)
        /\ \A i \in 1..(Len(a) + Len(b)) :
              p[i] = IF i <= Len(a) THEN a[i] ELSE b[i - Len(a)]
    BY <1>4, <1>5, ConcatProperties, Zenon
  <2>. HIDE DEF p
  <2>2. Len(p) = N - 1 /\ N - 1 \in Nat /\ Len(a) + Len(b) = N - 1
    BY <1>1, <1>2, <1>4, <1>5, <2>1
  <2>3. ASSUME NEW i \in 1..(N - 1)
        PROVE  p[i] = q[IF i < last THEN i ELSE i + 1]
    <3>1. CASE i < last
      <4>1. i \in 1..(last - 1) /\ i <= Len(a) /\ i \in 1..(Len(a) + Len(b))
        BY <1>1, <1>2, <1>4, <2>2, <3>1
      <4>. QED  BY <1>4, <2>1, <3>1, <4>1, Zenon
    <3>2. CASE ~(i < last)
      <4>1. /\ i \in 1..(Len(a) + Len(b)) /\ ~(i <= Len(a))
            /\ i - Len(a) \in 1..(N - last) /\ last + (i - Len(a)) = i + 1
        BY <1>1, <1>2, <1>4, <2>2, <3>2
      <4>2. p[i] = b[i - Len(a)]
        BY <2>1, <4>1, Zenon
      <4>3. b[i - Len(a)] = q[last + (i - Len(a))]
        BY <1>5, <4>1, Zenon
      <4>. QED  BY <3>2, <4>1, <4>2, <4>3, Zenon
    <3>. QED  BY <3>1, <3>2, Zenon
  <2>. QED  BY <2>1, <2>2, <2>3, Zenon
<1>. HIDE DEF p
<1>7. n \in Ledgers /\ n.pending = p /\ SameId(l, n)
  BY <1>1, <1>6, Requeued, Zenon
<1>. HIDE DEF n
<1>8. /\ f \in [1..Len(n.pending) -> 1..Len(l.pending)]
      /\ \A i \in 1..Len(n.pending) : f[i] = IF i < last THEN i ELSE i + 1
  BY <1>1, <1>2, <1>6, <1>7
<1>. HIDE DEF f
<1>9. Len(n.pending) <= Len(l.pending)
  BY <1>1, <1>6, <1>7
<1>10. \A i \in 1..Len(n.pending) :
          n.pending[i].message = l.pending[f[i]].message
  BY <1>6, <1>7, <1>8, Zenon
<1>11. ASSUME NEW i \in 1..Len(n.pending), NEW j \in 1..Len(n.pending),
              f[i] = f[j]
       PROVE  i = j
  <2>1. i \in Int /\ j \in Int /\ last \in Int
    BY <1>2, <1>6, <1>7
  <2>2. (IF i < last THEN i ELSE i + 1) = (IF j < last THEN j ELSE j + 1)
    BY <1>8, <1>11, Zenon
  <2>. QED  BY <2>1, <2>2
<1>12. ASSUME NEW k \in 1..Len(l.pending), l.pending[k].attempted
       PROVE  \E i \in 1..Len(n.pending) : n.pending[i] = l.pending[k]
  <2>1. k # last
    BY <1>2, <1>12, Zenon
  <2>2. CASE k < last
    <3>1. k \in 1..(N - 1)
      BY <1>1, <1>2, <2>2
    <3>. QED  BY <1>6, <1>7, <2>2, <3>1, Zenon
  <2>3. CASE last < k
    <3>1. k - 1 \in 1..(N - 1) /\ ~(k - 1 < last) /\ (k - 1) + 1 = k
      BY <1>1, <1>2, <2>3
    <3>2. p[k - 1] = q[k]
      BY <1>6, <3>1, Zenon
    <3>. QED  BY <1>6, <1>7, <3>1, <3>2, Zenon
  <2>. QED  BY <1>1, <1>2, <2>1, <2>2, <2>3
<1>13. Good(n) /\ Agrees(n, posted, stored)
  BY <1>7, <1>8, <1>9, <1>10, <1>11, <1>12, Inherits, Zenon
<1>. QED  BY <1>3, <1>6, <1>7, <1>13, Zenon DEF n

\* observe(): a message under the next number joins a queue with room.
LEMMA Appended ==
    ASSUME NEW l, Good(l), Agrees(l, posted, stored), posted \subseteq Messages,
           Len(l.pending) < QueueLimit, l.sequence < MaxInteger,
           NEW c \in Contents
    PROVE  LET m == [generation |-> l.generation,
                     sequence |-> l.sequence + 1, content |-> c]
               n == [generation |-> m.generation, sequence |-> m.sequence,
                     pending |-> Append(l.pending,
                                        [attempted |-> FALSE, message |-> m])]
           IN  Good(n) /\ Agrees(n, posted, stored)
<1>. DEFINE m == [generation |-> l.generation,
                  sequence |-> l.sequence + 1, content |-> c]
            e == [attempted |-> FALSE, message |-> m]
            p == Append(l.pending, e)
            n == [generation |-> m.generation, sequence |-> m.sequence,
                  pending |-> p]
            N == Len(l.pending)
<1>1. /\ l \in Ledgers /\ l.pending \in Seq(Entries) /\ N \in Nat
      /\ l.generation \in Nat /\ l.sequence \in Nat
      /\ l.generation \in 0..MaxInteger
      /\ \A i \in 1..N : l.pending[i].message \in Messages
  <2>1. l \in Ledgers
    BY Zenon DEF Good
  <2>. QED  BY <2>1, LedgerTypes, Zenon DEF Ledgers
<1>2. /\ m \in Messages
      /\ m.generation = l.generation /\ m.sequence = l.sequence + 1
      /\ m.generation \in 0..MaxInteger /\ m.sequence \in 0..MaxInteger
  BY <1>1, ObservationAssumption DEF Messages
<1>. HIDE DEF m
<1>3. e \in Entries /\ e.message = m
  BY <1>2, Zenon DEF Entries
<1>. HIDE DEF e
<1>4. /\ p \in Seq(Entries) /\ Len(p) = N + 1
      /\ \A i \in 1..N : p[i] = l.pending[i]
      /\ p[N + 1] = e
  BY <1>1, <1>3, AppendProperties
<1>. HIDE DEF p
<1>5. /\ n \in Ledgers /\ n.pending = p
      /\ n.generation = m.generation /\ n.sequence = m.sequence
  BY <1>2, <1>4, LedgerIs, Zenon
<1>. HIDE DEF n
<1>6. ASSUME NEW x \in Messages, ~Before(l, x)
      PROVE  ~Before(n, x) /\ ~SameId(m, x) /\ ~SameId(x, m)
  <2>1. x.generation \in Nat /\ x.sequence \in Nat
    BY MessageTypes, Zenon
  <2>. QED  BY <1>1, <1>2, <1>5, <1>6, <2>1 DEF Before, SameId
<1>7. ~Before(n, m)
  BY <1>1, <1>2, <1>5 DEF Before
<1>8. \A i \in 1..N : /\ ~Before(l, l.pending[i].message)
                      /\ l.pending[i].message \in Messages
  BY <1>1, Zenon DEF Good
<1>9. \A i \in 1..(N + 1) : i \in 1..N \/ i = N + 1
  BY <1>1
<1>10. Len(n.pending) <= QueueLimit
  BY <1>1, <1>4, <1>5, ObservationAssumption
<1>11. \A i \in 1..(N + 1) : ~Before(n, p[i].message)
  BY <1>3, <1>4, <1>6, <1>7, <1>8, <1>9, Zenon
<1>12. ASSUME NEW i \in 1..(N + 1), NEW j \in 1..(N + 1),
              SameId(p[i].message, p[j].message)
       PROVE  i = j
  <2>1. CASE i \in 1..N /\ j \in 1..N
    BY <1>4, <1>12, <2>1, Zenon DEF Good
  <2>2. CASE i = N + 1 /\ j \in 1..N
    BY <1>3, <1>4, <1>6, <1>8, <1>12, <2>2, Zenon
  <2>3. CASE i \in 1..N /\ j = N + 1
    BY <1>3, <1>4, <1>6, <1>8, <1>12, <2>3, Zenon
  <2>. QED  BY <1>9, <2>1, <2>2, <2>3, Zenon
<1>13. \A x \in posted : ~Before(n, x) /\ ~SameId(m, x)
  BY <1>6, Zenon DEF Agrees
<1>14. \A x \in posted : \A i \in 1..(N + 1) :
          SameId(p[i].message, x) => p[i].message = x
  <2>. TAKE x \in posted
  <2>. TAKE i \in 1..(N + 1)
  <2>1. CASE i \in 1..N
    BY <1>4, <2>1, Zenon DEF Agrees
  <2>2. CASE i = N + 1
    BY <1>3, <1>4, <1>13, <2>2, Zenon
  <2>. QED  BY <1>9, <2>1, <2>2, Zenon
<1>15. \A x \in posted \ stored : \E i \in 1..(N + 1) :
          p[i] = [attempted |-> TRUE, message |-> x]
  <2>. TAKE x \in posted \ stored
  <2>1. PICK i \in 1..N :
           l.pending[i] = [attempted |-> TRUE, message |-> x]
    BY Zenon DEF Agrees
  <2>2. i \in 1..(N + 1)
    BY <1>1
  <2>. QED  BY <1>4, <2>1, <2>2, Zenon
<1>16. Good(n)
  BY <1>4, <1>5, <1>10, <1>11, <1>12, Zenon DEF Good
<1>17. Agrees(n, posted, stored)
  BY <1>4, <1>5, <1>13, <1>14, <1>15, Zenon DEF Agrees
<1>. QED  BY <1>16, <1>17, Zenon DEF n, p, e, m

-----------------------------------------------------------------------------
(* Steps.                                                                  *)

\* What the messages handed out so far demand of a ledger only relaxes when
\* the backend stores one.
LEMMA StoredRelaxes ==
    ASSUME NEW l, NEW P, NEW S, NEW m, Agrees(l, P, S)
    PROVE  Agrees(l, P, S \union {m})
BY Zenon DEF Agrees

\* Handing out the attempted head of a ledger: its identity is new or it was
\* handed out before.
LEMMA HandedOut ==
    ASSUME NEW l, Good(l), Agrees(l, posted, stored), posted \subseteq Messages,
           l.pending # <<>>, l.pending[1].attempted,
           \A m, n \in posted : SameId(m, n) => m = n
    PROVE  LET h == Head(l.pending).message
               P == posted \union {h}
           IN  /\ h = l.pending[1].message
               /\ P \subseteq Messages
               /\ \A m, n \in P : SameId(m, n) => m = n
               /\ Agrees(l, P, stored)
<1>1. /\ l \in Ledgers /\ l.pending \in Seq(Entries) /\ Len(l.pending) \in Nat
      /\ \A i \in 1..Len(l.pending) : /\ l.pending[i] \in Entries
                                      /\ l.pending[i].message \in Messages
  BY LedgerTypes, Zenon DEF Good
<1>2. 1 \in 1..Len(l.pending) /\ Head(l.pending) = l.pending[1]
  BY <1>1, EmptySeq, HeadTailProperties
<1>. DEFINE h == l.pending[1].message
            P == posted \union {h}
<1>3. P \subseteq Messages
  BY <1>1, <1>2, Zenon
<1>4. \A m \in posted : SameId(h, m) \/ SameId(m, h) => h = m
  BY <1>2, Zenon DEF Agrees, SameId
<1>5. \A m, n \in P : SameId(m, n) => m = n
  BY <1>4, Zenon
<1>6. \A m \in P : ~Before(l, m)
  BY <1>2 DEF Good, Agrees
<1>7. \A i \in 1..Len(l.pending) :
         SameId(l.pending[i].message, h) => l.pending[i].message = h
  BY <1>2, Zenon DEF Good
<1>8. \A m \in P : \A i \in 1..Len(l.pending) :
         SameId(l.pending[i].message, m) => l.pending[i].message = m
  BY <1>7 DEF Agrees
<1>9. l.pending[1] = [attempted |-> TRUE, message |-> h]
  <2>1. l.pending[1] \in Entries
    BY <1>1, <1>2, Zenon
  <2>. QED  BY <2>1, Zenon DEF Entries
<1>10. \A m \in P \ stored : \E i \in 1..Len(l.pending) :
          l.pending[i] = [attempted |-> TRUE, message |-> m]
  BY <1>2, <1>9, Zenon DEF Agrees
<1>11. Agrees(l, P, stored)
  BY <1>6, <1>8, <1>10, Zenon DEF Agrees
<1>. QED  BY <1>2, <1>3, <1>5, <1>11, Zenon

\* The first process finds an empty directory.
LEMMA InitStream == Init => StreamInv
<1>. SUFFICES ASSUME Init PROVE StreamInv
  BY Zenon
<1>1. NoLedger \in Ledgers /\ NoLedger.pending = <<>>
  <2>1. 0 \in 0..MaxInteger /\ <<>> \in Seq(Entries)
    BY ObservationAssumption, EmptySeq
  <2>. QED  BY <2>1, LedgerIs, Zenon DEF NoLedger
<1>2. Len(NoLedger.pending) = 0
  BY <1>1, EmptySeq, Zenon
<1>3. Good(NoLedger)
  BY <1>1, <1>2, ObservationAssumption DEF Good
<1>4. Agrees(NoLedger, posted, stored)
  BY Zenon DEF Agrees, Init
<1>. QED  BY <1>3, <1>4, Zenon DEF Init, StreamInv, Committing

\* Every step keeps the invariant.
LEMMA NextStream == StreamInv /\ [Next]_vars => StreamInv'
<1>. SUFFICES ASSUME StreamInv, [Next]_vars PROVE StreamInv'
  BY Zenon
<1>1. CASE Construct
  <2>1. CASE ledger_json.generation < MaxInteger
    <3>1. /\ target' = [generation |-> ledger_json.generation + 1,
                        sequence |-> 0, pending |-> ledger_json.pending]
          /\ then' = "idle" /\ worker' = "write" /\ ledger' = ledger_json
      BY <1>1, <2>1, ObservationAssumption DEF Construct, commit
    <3>2. Good(target') /\ Agrees(target', posted, stored)
      BY <2>1, <3>1, NextGeneration, Zenon DEF StreamInv
    <3>. QED  BY <1>1, <3>1, <3>2, Zenon DEF Construct, StreamInv, Committing
  <2>2. CASE ~(ledger_json.generation < MaxInteger)
    BY <1>1, <2>2, Zenon DEF Construct, StreamInv, Committing
  <2>. QED  BY <2>1, <2>2, Zenon
<1>2. CASE next
  <2>1. /\ ledger_json = ledger /\ synced = ledger /\ ledger.pending # <<>>
        /\ Good(ledger) /\ Agrees(ledger, posted, stored)
        /\ posted \subseteq Messages
        /\ Head(ledger.pending) = ledger.pending[1]
    <3>1. /\ ledger_json = ledger /\ synced = ledger /\ ledger.pending # <<>>
          /\ Good(ledger) /\ Agrees(ledger, posted, stored)
          /\ posted \subseteq Messages
      BY <1>2, Zenon DEF next, StreamInv
    <3>2. ledger.pending \in Seq(Entries)
      BY <3>1, LedgerTypes, Zenon DEF Good
    <3>. QED  BY <3>1, <3>2, HeadTailProperties
  <2>2. CASE Head(ledger.pending).attempted
    <3>1. /\ worker' = "posting" /\ UNCHANGED <<target, then>>
          /\ posted' = posted \union {Head(ledger.pending).message}
          /\ UNCHANGED <<ledger_json, synced, ledger, stored>>
      BY <1>2, <2>2, Zenon DEF next
    <3>2. /\ posted' \subseteq Messages
          /\ \A m, n \in posted' : SameId(m, n) => m = n
          /\ Agrees(ledger, posted', stored)
      <4>1. \A m, n \in posted : SameId(m, n) => m = n
        BY Zenon DEF StreamInv
      <4>. QED  BY <2>1, <2>2, <3>1, <4>1, HandedOut, Zenon
    <3>. QED  BY <2>1, <3>1, <3>2, Zenon DEF StreamInv, Committing, SameId
  <2>3. CASE ~Head(ledger.pending).attempted
    <3>1. /\ target' = [ledger EXCEPT !.pending[1].attempted = TRUE]
          /\ then' = "posting" /\ worker' = "write"
          /\ UNCHANGED <<ledger_json, synced, ledger, stored, posted>>
      BY <1>2, <2>3, Zenon DEF next, commit
    <3>2. /\ Good(target') /\ Agrees(target', posted, stored)
          /\ target'.pending # <<>> /\ target'.pending[1].attempted
      BY <2>1, <2>3, <3>1, Marked, Zenon
    <3>. QED  BY <2>1, <3>1, <3>2, Zenon DEF StreamInv, Committing, SameId
  <2>. QED  BY <2>2, <2>3, Zenon
<1>3. CASE Store
  <2>1. \A l : Agrees(l, posted, stored) => Agrees(l, posted, stored')
    BY <1>3, StoredRelaxes, Zenon DEF Store
  <2>. QED  BY <1>3, <2>1, Zenon DEF Store, StreamInv, Committing, SameId
<1>4. CASE accept
  <2>1. CASE worker' = "idle" /\ UNCHANGED <<target, then>>
    BY <1>4, <2>1, Zenon DEF accept, StreamInv, Committing, SameId
  <2>2. CASE /\ Head(ledger.pending).message \in stored
             /\ commit([ledger EXCEPT !.pending = Tail(@)], "idle")
    <3>1. /\ target' = [ledger EXCEPT !.pending = Tail(@)]
          /\ then' = "idle" /\ worker' = "write"
          /\ UNCHANGED <<ledger_json, synced, ledger, stored, posted>>
      BY <1>4, <2>2, Zenon DEF accept, commit
    <3>2. /\ ledger_json = ledger /\ ledger.pending # <<>>
          /\ Good(ledger) /\ Agrees(ledger, posted, stored)
          /\ posted \subseteq Messages
      BY <1>4, Zenon DEF accept, StreamInv
    <3>3. Good(target') /\ Agrees(target', posted, stored)
      BY <2>2, <3>1, <3>2, Retired, Zenon
    <3>. QED  BY <3>1, <3>2, <3>3, Zenon DEF StreamInv, Committing, SameId
  <2>. QED  BY <1>4, <2>1, <2>2, Zenon DEF accept
<1>5. CASE Step
  <2>1. CASE CommitWrite
    BY <2>1, Zenon DEF CommitWrite, StreamInv, Committing, SameId
  <2>2. CASE CommitRename
    BY <2>2, Zenon DEF CommitRename, StreamInv, Committing, SameId
  <2>3. CASE CommitSync
    <3>1. /\ worker = "sync" /\ worker' = then /\ ledger_json = target
          /\ ledger' = target /\ ledger_json' = target /\ synced' = target
          /\ Good(target) /\ Agrees(target, posted, stored)
          /\ UNCHANGED <<target, then, stored>>
          /\ posted \subseteq Messages
          /\ \A m, n \in posted : SameId(m, n) => m = n
      BY <2>3, Zenon DEF CommitSync, StreamInv, Committing
    <3>2. CASE then = "posting"
      <4>1. target.pending # <<>> /\ target.pending[1].attempted
        BY <3>1, <3>2, Zenon DEF StreamInv, Committing
      <4>2. /\ posted' \subseteq Messages
            /\ \A m, n \in posted' : SameId(m, n) => m = n
            /\ Agrees(target, posted', stored)
        <5>1. posted' = posted \union {Head(target.pending).message}
          BY <2>3, <3>2, Zenon DEF CommitSync
        <5>. QED  BY <3>1, <4>1, <5>1, HandedOut, Zenon
      <4>. QED  BY <3>1, <3>2, <4>1, <4>2, Zenon DEF StreamInv, Committing, SameId
    <3>3. CASE then = "idle"
      <4>1. posted' = posted
        BY <2>3, <3>3, Zenon DEF CommitSync
      <4>. QED  BY <3>1, <3>3, <4>1, Zenon DEF StreamInv, Committing, SameId
    <3>. QED  BY <3>2, <3>3, Zenon DEF StreamInv
  <2>. QED  BY <1>5, <2>1, <2>2, <2>3, Zenon DEF Step
<1>6. CASE Exhausted
  BY <1>6, Zenon DEF Exhausted, StreamInv, Committing, SameId
<1>7. CASE Fail
  BY <1>7, Zenon DEF Fail, StreamInv, Committing, SameId
<1>8. CASE Crash
  BY <1>8, Zenon DEF Crash, StreamInv, Committing, SameId
<1>9. CASE Tick
  BY <1>9, Zenon DEF Tick, StreamInv, Committing, SameId
<1>10. ASSUME NEW c \in Contents, observe(c)
       PROVE  StreamInv'
  <2>. DEFINE m == [generation |-> ledger.generation,
                    sequence |-> ledger.sequence + 1, content |-> c]
              kept == IF Full THEN Evict(ledger.pending) ELSE ledger.pending
              k == [ledger EXCEPT !.pending = kept]
  <2>1. /\ worker = "idle" /\ ledger.sequence < MaxInteger
        /\ Full => Evictable
        /\ target' = [generation |-> m.generation, sequence |-> m.sequence,
                      pending |-> Append(kept, [attempted |-> FALSE, message |-> m])]
        /\ then' = "idle" /\ worker' = "write"
        /\ UNCHANGED <<ledger_json, synced, ledger, stored, posted>>
    BY <1>10, Zenon DEF observe, commit
  <2>2. /\ ledger_json = ledger /\ Good(ledger)
        /\ Agrees(ledger, posted, stored) /\ posted \subseteq Messages
    BY <2>1, Zenon DEF StreamInv
  <2>3. /\ ledger \in Ledgers /\ Len(ledger.pending) \in Nat
        /\ ledger.pending \in Seq(Entries)
        /\ Len(ledger.pending) <= QueueLimit
    BY <2>2, LedgerTypes, Zenon DEF Good
  <2>4. /\ Good(k) /\ Agrees(k, posted, stored) /\ SameId(ledger, k)
        /\ k.pending = kept /\ Len(k.pending) < QueueLimit
    <3>1. CASE Full
      <4>1. /\ kept = Evict(ledger.pending)
            /\ \E i \in DOMAIN ledger.pending : ~ledger.pending[i].attempted
            /\ Len(ledger.pending) = QueueLimit
        BY <2>1, <3>1, Zenon DEF Full, Evictable
      <4>2. /\ Good(k) /\ Agrees(k, posted, stored) /\ SameId(ledger, k)
            /\ k.pending = kept /\ Len(k.pending) = Len(ledger.pending) - 1
        BY <2>2, <4>1, Evicted, Zenon
      <4>. HIDE DEF k, kept
      <4>. QED  BY <2>3, <4>1, <4>2
    <3>2. CASE ~Full
      <4>1. k = ledger
        BY <2>3, <3>2, Zenon DEF Ledgers
      <4>2. Len(ledger.pending) < QueueLimit
        BY <2>3, <3>2, ObservationAssumption DEF Full
      <4>. QED  BY <2>2, <3>2, <4>1, <4>2, Zenon DEF SameId
    <3>. QED  BY <3>1, <3>2, Zenon
  <2>. HIDE DEF k, kept
  <2>5. Good(target') /\ Agrees(target', posted, stored)
    <3>1. k.generation = ledger.generation /\ k.sequence = ledger.sequence
      BY <2>4, Zenon DEF SameId
    <3>. QED  BY <2>1, <2>2, <2>4, <3>1, Appended, Zenon
  <2>. QED  BY <2>1, <2>2, <2>5, Zenon DEF StreamInv, Committing, SameId
<1>11. CASE UNCHANGED vars
  BY <1>11, Zenon DEF vars, StreamInv, Committing, SameId
<1>. QED
  BY <1>1, <1>2, <1>3, <1>4, <1>5, <1>6, <1>7, <1>8, <1>9, <1>10, <1>11, Zenon DEF Next

-----------------------------------------------------------------------------
(* The theorems.                                                           *)

\* The invariant holds in every state of every run of the stream.
THEOREM StreamInvariant == Spec => []StreamInv
BY InitStream, NextStream, PTL DEF Spec

\* Two messages that next() handed out under one (generation, sequence) are
\* one message, whatever commits failed and whatever a power loss undid.
THEOREM IdentityIsContent == Spec => []OneContentPerIdentity
<1>1. StreamInv => OneContentPerIdentity
  <2>. SUFFICES ASSUME StreamInv, NEW m \in posted, NEW n \in posted
                PROVE  Before(m, n) \/ Before(n, m) \/ m = n
    BY Zenon DEF OneContentPerIdentity
  <2>1. /\ m.generation \in Nat /\ m.sequence \in Nat
        /\ n.generation \in Nat /\ n.sequence \in Nat
    BY MessageTypes, Zenon DEF StreamInv
  <2>2. SameId(m, n) => m = n
    BY Zenon DEF StreamInv
  <2>3. Before(m, n) \/ Before(n, m) \/ SameId(m, n)
    BY <2>1 DEF Before, SameId
  <2>. QED  BY <2>2, <2>3, Zenon
<1>. QED  BY <1>1, StreamInvariant, PTL

\* A message that next() handed out is pending, marked as attempted, in each
\* ledger that a crash can leave behind, until the backend has it.
THEOREM AttemptsAreKept == Spec => []AttemptedKept
<1>1. StreamInv => AttemptedKept
  <2>. SUFFICES ASSUME StreamInv, NEW m \in posted \ stored,
                       NEW l \in {ledger_json, synced}
                PROVE  [attempted |-> TRUE, message |-> m]
                          \in {l.pending[i] : i \in DOMAIN l.pending}
    BY Zenon DEF AttemptedKept
  <2>1. Good(l) /\ Agrees(l, posted, stored)
    BY Zenon DEF StreamInv
  <2>2. DOMAIN l.pending = 1..Len(l.pending)
    BY <2>1, LedgerTypes, Zenon DEF Good
  <2>. QED  BY <2>1, <2>2, Zenon DEF Agrees
<1>. QED  BY <1>1, StreamInvariant, PTL

\* The constructor's checks accept each ledger that a crash can leave behind.
THEOREM AlwaysRestartable == Spec => []Restartable
<1>1. StreamInv => Restartable
  <2>. SUFFICES ASSUME StreamInv, NEW l \in {ledger_json, synced}
                PROVE  /\ Len(l.pending) <= QueueLimit
                       /\ \A i \in DOMAIN l.pending :
                             ~Before(l, l.pending[i].message)
                       /\ \A i, j \in DOMAIN l.pending :
                             \/ Before(l.pending[i].message, l.pending[j].message)
                             \/ Before(l.pending[j].message, l.pending[i].message)
                             \/ i = j
    BY Zenon DEF Restartable
  <2>1. Good(l)
    BY Zenon DEF StreamInv
  <2>2. /\ DOMAIN l.pending = 1..Len(l.pending)
        /\ \A i \in 1..Len(l.pending) : l.pending[i].message \in Messages
    BY <2>1, LedgerTypes, Zenon DEF Good
  <2>3. ASSUME NEW m \in Messages, NEW n \in Messages
        PROVE  Before(m, n) \/ Before(n, m) \/ SameId(m, n)
    <3>1. /\ m.generation \in Nat /\ m.sequence \in Nat
          /\ n.generation \in Nat /\ n.sequence \in Nat
      BY MessageTypes, Zenon
    <3>. QED  BY <3>1 DEF Before, SameId
  <2>. QED  BY <2>1, <2>2, <2>3, Zenon DEF Good
<1>. QED  BY <1>1, StreamInvariant, PTL

-----------------------------------------------------------------------------
(* SessionInterruption, for any number of threads.                         *)

CONSTANT Threads
VARIABLES cause_, pc, change, previous

I == INSTANCE SessionInterruption

\* The inductive invariant: types, no finished observation lost, and every
\* expected value was once the cause, which has not improved since.
InterruptionInv ==
    /\ I!TypeOK
    /\ I!NotLost
    /\ \A t \in Threads : previous[t] <= cause_

\* The fresh atomic of a session satisfies the inductive invariant.
LEMMA InterruptionInit == I!Init => InterruptionInv
  BY DEF I!Init, InterruptionInv, I!TypeOK, I!NotLost, I!SessionInputChange, I!None, I!Unavailable

\* Every step of observe() keeps the inductive invariant, and no step makes
\* the cause better.
LEMMA InterruptionStep ==
    InterruptionInv /\ [I!Next]_(I!vars) => InterruptionInv' /\ cause_' >= cause_
  <1> SUFFICES ASSUME InterruptionInv, [I!Next]_(I!vars)
               PROVE  InterruptionInv' /\ cause_' >= cause_
    BY Zenon
  <1> USE DEF InterruptionInv, I!TypeOK, I!NotLost, I!SessionInputChange, I!None, I!Unavailable
  <1>1. ASSUME NEW t \in Threads, NEW c \in I!SessionInputChange, I!Call(t, c)
        PROVE  InterruptionInv' /\ cause_' >= cause_
    BY <1>1 DEF I!Call
  <1>2. ASSUME NEW t \in Threads, I!Load(t)
        PROVE  InterruptionInv' /\ cause_' >= cause_
    BY <1>2 DEF I!Load
  <1>3. ASSUME NEW t \in Threads, I!Keep(t)
        PROVE  InterruptionInv' /\ cause_' >= cause_
    BY <1>3 DEF I!Keep
  <1>4. ASSUME NEW t \in Threads, I!Exchange(t)
        PROVE  InterruptionInv' /\ cause_' >= cause_
    BY <1>4 DEF I!Exchange
  <1>5. ASSUME NEW t \in Threads, I!Retry(t)
        PROVE  InterruptionInv' /\ cause_' >= cause_
    BY <1>5 DEF I!Retry
  <1>6. CASE UNCHANGED I!vars
    BY <1>6 DEF I!vars
  <1>7. QED
    BY <1>1, <1>2, <1>3, <1>4, <1>5, <1>6, Zenon DEF I!Next

\* However many threads of a session race in observe(), an observation that
\* has returned is never lost from the cause.
THEOREM ObservationsKept == I!Spec => []I!NotLost
  <1>1. InterruptionInv => I!NotLost
    BY Zenon DEF InterruptionInv
  <1>2. QED
    BY <1>1, InterruptionInit, InterruptionStep, PTL DEF I!Spec

\* However many threads of a session race in observe(), the cause never
\* improves: a failed session is never reclassified as a planned renewal.
THEOREM CauseSticky == I!Spec => I!Sticky
  <1>1. InterruptionInv /\ [I!Next]_(I!vars) => [cause_' >= cause_]_(I!vars)
    BY InterruptionStep, Zenon
  <1>2. QED
    BY <1>1, InterruptionInit, InterruptionStep, PTL DEF I!Spec, I!Sticky
=============================================================================
