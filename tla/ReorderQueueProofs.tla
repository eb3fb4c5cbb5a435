------------------------- MODULE ReorderQueueProofs -------------------------
(***************************************************************************)
(* Proofs about ReorderQueue, for any inputs, sessions and capacity.  What *)
(* the queue holds are distinct items of the current session, none behind  *)
(* the next number; sorting them loses none and adds none, so a flush      *)
(* takes as much room in the channel as it frees in the buffer.            *)
(***************************************************************************)
EXTENDS ReorderQueue, FiniteSetTheorems, SequenceTheorems, WellFoundedInduction, TLAPS

(* A nonempty set of numbers has a least one.                              *)
LEMMA LeastNumber ==
    ASSUME NEW T \in SUBSET Nat, T # {}
    PROVE  \E x \in T : \A y \in T : x <= y
  <1>1. PICK x \in T : \A y \in T : ~(<<y, x>> \in OpToRel(<, Nat))
    BY NatLessThanWellFounded, WFMin
  <1>2. \A y \in T : ~(y < x)
    BY <1>1 DEF OpToRel
  <1> QED
    BY <1>2

LEMMA GreatestNumber ==
    ASSUME NEW T \in SUBSET Nat, T # {}, NEW b \in Nat, \A x \in T : x <= b
    PROVE  \E x \in T : \A y \in T : y <= x
  <1> DEFINE U == {b - x : x \in T}
  <1>1. U \in SUBSET Nat /\ U # {}
    OBVIOUS
  <1> HIDE DEF U
  <1>2. PICK u \in U : \A v \in U : u <= v
    BY <1>1, LeastNumber
  <1>3. PICK x \in T : u = b - x
    BY DEF U
  <1>4. ASSUME NEW y \in T PROVE y <= x
    <2>1. b - y \in U
      BY DEF U
    <2>2. b - x <= b - y
      BY <1>2, <1>3, <2>1
    <2> QED
      BY <2>2
  <1> QED
    BY <1>4

-----------------------------------------------------------------------------
(* A finite set in a strict total order of its members, as a sequence.     *)
StrictOrder(S, less) ==
    /\ \A x \in S : <<x, x>> \notin less
    /\ \A x, y, z \in S : <<x, y>> \in less /\ <<y, z>> \in less => <<x, z>> \in less
    /\ \A x, y \in S : x # y => <<x, y>> \in less \/ <<y, x>> \in less

Distinct(s) == \A i, j \in 1 .. Len(s) : s[i] = s[j] => i = j

LEMMA InOrderIsOrdered ==
    ASSUME NEW S, IsFiniteSet(S), NEW less, StrictOrder(S, less)
    PROVE  /\ InOrder(S, less) \in [1 .. Cardinality(S) -> S]
           /\ \A i, j \in 1 .. Cardinality(S) :
                i < j => <<InOrder(S, less)[i], InOrder(S, less)[j]>> \in less
           /\ \A x \in S : \E k \in 1 .. Cardinality(S) : InOrder(S, less)[k] = x
  <1> DEFINE n == Cardinality(S)
             below(x) == {y \in S : <<y, x>> \in less}
             rank == [x \in S |-> Cardinality(below(x))]
  <1>1. n \in Nat
    BY FS_CardinalityType
  <1>2. ASSUME NEW x \in S PROVE IsFiniteSet(below(x)) /\ Cardinality(below(x)) \in 0 .. n - 1
    <2>1. below(x) \in SUBSET (S \ {x}) /\ below(x) \in SUBSET S
      BY DEF StrictOrder
    <2>2. IsFiniteSet(S \ {x}) /\ Cardinality(S \ {x}) = n - 1
      BY FS_RemoveElement
    <2> HIDE DEF below
    <2>3. IsFiniteSet(below(x)) /\ Cardinality(below(x)) <= n - 1
      BY <2>1, <2>2, FS_Subset
    <2>4. Cardinality(below(x)) \in Nat
      BY <2>3, FS_CardinalityType
    <2> QED
      BY <1>1, <2>3, <2>4
  <1>3. ASSUME NEW x \in S, NEW y \in S, <<y, x>> \in less
        PROVE  Cardinality(below(y)) < Cardinality(below(x))
    <2>1. below(y) \in SUBSET below(x) /\ y \in below(x) /\ y \notin below(y)
      BY <1>3 DEF StrictOrder
    <2> HIDE DEF below
    <2>2. /\ Cardinality(below(y)) <= Cardinality(below(x))
          /\ Cardinality(below(y)) # Cardinality(below(x))
      BY <1>2, <2>1, FS_Subset
    <2>3. Cardinality(below(y)) \in Int /\ Cardinality(below(x)) \in Int
      BY <1>2
    <2> QED
      BY <2>2, <2>3
  <1>4. \A x \in S : rank[x] = Cardinality(below(x)) /\ rank[x] \in 0 .. n - 1
    BY <1>2
  <1>5. \A x, y \in S : <<y, x>> \in less => rank[y] < rank[x]
    BY <1>3, <1>4
  <1>6. rank \in [S -> 0 .. n - 1]
    BY <1>2
  <1> HIDE DEF rank
  <1>7. ASSUME NEW x \in S, NEW y \in S, rank[x] = rank[y] PROVE x = y
    <2>1. rank[x] \in Int /\ rank[y] \in Int
      BY <1>6
    <2>2. ~(<<x, y>> \in less) /\ ~(<<y, x>> \in less)
      BY <1>5, <1>7, <2>1
    <2> QED
      BY <2>2 DEF StrictOrder
  <1>8. \A k \in 0 .. n - 1 : \E x \in S : rank[x] = k
    <2>1. rank \in Injection(S, 0 .. n - 1)
      BY <1>6, <1>7 DEF Injection, IsInjective
    <2>2. IsFiniteSet(0 .. n - 1) /\ Cardinality(0 .. n - 1) = n
      BY <1>1, FS_Interval
    <2>3. rank \in Surjection(S, 0 .. n - 1)
      BY <2>1, <2>2, FS_Injection
    <2> QED
      BY <2>3 DEF Surjection
  <1> DEFINE s == InOrder(S, less)
  <1>9. s = [k \in 1 .. n |-> CHOOSE x \in S : Cardinality(below(x)) = k - 1]
    BY DEF InOrder
  <1> HIDE DEF s, n, below
  <1>10. ASSUME NEW k \in 1 .. n PROVE s[k] \in S /\ rank[s[k]] = k - 1
    <2>1. k - 1 \in 0 .. n - 1
      BY <1>1
    <2>2. \E x \in S : Cardinality(below(x)) = k - 1
      BY <1>4, <1>8, <2>1
    <2>3. s[k] = CHOOSE x \in S : Cardinality(below(x)) = k - 1
      BY <1>9
    <2>4. s[k] \in S /\ Cardinality(below(s[k])) = k - 1
      BY <2>2, <2>3
    <2> QED
      BY <1>4, <2>4
  <1>11. s \in [1 .. n -> S]
    BY <1>9, <1>10
  <1>12. ASSUME NEW i \in 1 .. n, NEW j \in 1 .. n, i < j PROVE <<s[i], s[j]>> \in less
    <2>1. /\ s[i] \in S /\ s[j] \in S /\ rank[s[i]] = i - 1 /\ rank[s[j]] = j - 1
      BY <1>10
    <2>2. s[i] # s[j] /\ ~(<<s[j], s[i]>> \in less)
      BY <1>1, <1>5, <1>12, <2>1
    <2> QED
      BY <2>1, <2>2 DEF StrictOrder
  <1>13. ASSUME NEW x \in S PROVE \E k \in 1 .. n : s[k] = x
    <2>1. rank[x] + 1 \in 1 .. n
      BY <1>1, <1>4
    <2>2. s[rank[x] + 1] \in S /\ rank[s[rank[x] + 1]] = rank[x]
      BY <1>1, <1>4, <1>10, <2>1
    <2> QED
      BY <1>7, <2>1, <2>2
  <1> QED
    BY <1>11, <1>12, <1>13 DEF s, n

(* A sequence without repetition is as long as the set of its members.     *)
LEMMA DistinctLength ==
    ASSUME NEW A, NEW s \in Seq(A), Distinct(s)
    PROVE  IsFiniteSet(ToSet(s)) /\ Cardinality(ToSet(s)) = Len(s)
  <1>1. Len(s) \in Nat /\ s \in [1 .. Len(s) -> ToSet(s)] /\ ToSet(s) = {s[i] : i \in 1 .. Len(s)}
    BY DEF ToSet
  <1>2. s \in Injection(1 .. Len(s), ToSet(s))
    BY <1>1 DEF Distinct, Injection, IsInjective
  <1>3. s \in Surjection(1 .. Len(s), ToSet(s))
    BY <1>1 DEF Surjection
  <1>4. ExistsBijection(1 .. Len(s), ToSet(s))
    BY <1>2, <1>3 DEF ExistsBijection, Bijection
  <1>5. IsFiniteSet(1 .. Len(s)) /\ Cardinality(1 .. Len(s)) = Len(s)
    <2>1. ASSUME NEW l \in Nat PROVE IsFiniteSet(1 .. l) /\ Cardinality(1 .. l) = l
      <3>1. IsFiniteSet(1 .. l) /\ Cardinality(1 .. l) = IF 1 > l THEN 0 ELSE l - 1 + 1
        BY ONLY l \in Nat, FS_Interval
      <3> QED
        BY <3>1
    <2> QED
      BY <1>1, <2>1
  <1> QED
    BY <1>4, <1>5, FS_Bijection

-----------------------------------------------------------------------------
(* Items of one session: what is sorted, kept and taken of them.           *)
Items(s, c) == \A i \in 1 .. Len(s) : Session(s[i]) = c
Rising(s) == \A i, j \in 1 .. Len(s) : i < j => SeqNum(s[i]) < SeqNum(s[j])

LEMMA ItemsDiffer ==
    ASSUME NEW a \in QItems, NEW b \in QItems, Session(a) = Session(b)
    PROVE  SeqNum(a) \in Nat /\ (SeqNum(a) = SeqNum(b) => a = b)
  BY ReorderQueueAssumption DEF Session, SeqNum

LEMMA MembersOf ==
    ASSUME NEW A, NEW s \in Seq(A)
    PROVE  /\ Len(s) \in Nat /\ ToSet(s) = {s[i] : i \in 1 .. Len(s)} /\ ToSet(s) \subseteq A
           /\ \A i \in 1 .. Len(s) : s[i] \in ToSet(s)
           /\ \A x \in ToSet(s) : \E i \in 1 .. Len(s) : s[i] = x
  BY DEF ToSet

(* Sorting the items of a session loses none and adds none.                *)
LEMMA SortedItems ==
    ASSUME NEW T, NEW seen \in Seq(T), NEW c \in ToSet(seen),
           NEW s \in Seq(QItems), Distinct(s), Items(s, c)
    PROVE  /\ Sorted(seen, s) \in Seq(QItems) /\ Len(Sorted(seen, s)) = Len(s)
           /\ ToSet(Sorted(seen, s)) = ToSet(s)
           /\ Items(Sorted(seen, s), c) /\ Rising(Sorted(seen, s))
  <1> DEFINE S == ToSet(s)
             less == {p \in S \X S : Before(seen, p[1], p[2])}
             t == Sorted(seen, s)
  <1>1. IsFiniteSet(S) /\ Cardinality(S) = Len(s) /\ Len(s) \in Nat
    BY DistinctLength
  <1>2. S \subseteq QItems /\ \A x \in S : Session(x) = c
    BY MembersOf DEF Items
  <1>3. Age(seen, c) \in Int
    <2>1. \E i \in 1 .. Len(seen) : seen[i] = c
      BY MembersOf
    <2>2. Age(seen, c) \in DOMAIN seen /\ DOMAIN seen = 1 .. Len(seen)
      BY <2>1 DEF Age
    <2> QED
      BY <2>2
  <1>4. \A x, y \in S : Before(seen, x, y) <=> SeqNum(x) < SeqNum(y)
    BY <1>2, <1>3 DEF Before
  <1>5. \A x, y \in S : <<x, y>> \in less <=> SeqNum(x) < SeqNum(y)
    BY <1>4
  <1>6. t = InOrder(S, less)
    BY DEF Sorted
  <1> HIDE DEF less, t, S
  <1>7. \A x, y \in S : SeqNum(x) \in Nat /\ (SeqNum(x) = SeqNum(y) => x = y)
    BY <1>2, ItemsDiffer
  <1>8. StrictOrder(S, less)
    BY <1>5, <1>7 DEF StrictOrder
  <1>9. /\ t \in [1 .. Len(s) -> S]
        /\ \A i, j \in 1 .. Len(s) : i < j => <<t[i], t[j]>> \in less
        /\ \A x \in S : \E k \in 1 .. Len(s) : t[k] = x
    BY <1>1, <1>6, <1>8, InOrderIsOrdered
  <1>10. t \in Seq(QItems) /\ Len(t) = Len(s)
    BY <1>1, <1>2, <1>9
  <1>11. ToSet(t) = S
    <2>1. ToSet(t) = {t[i] : i \in 1 .. Len(t)}
      BY <1>10, MembersOf
    <2> QED
      BY <1>9, <1>10, <2>1
  <1>12. Items(t, c) /\ Rising(t)
    BY <1>2, <1>5, <1>9, <1>10 DEF Items, Rising
  <1> QED
    BY <1>10, <1>11, <1>12 DEF t, S

LEMMA RisingDistinct ==
    ASSUME NEW s \in Seq(QItems), Rising(s)
    PROVE  Distinct(s)
  <1> SUFFICES ASSUME NEW i \in 1 .. Len(s), NEW j \in 1 .. Len(s), s[i] = s[j] PROVE i = j
    BY DEF Distinct
  <1>1. s[i] \in QItems /\ SeqNum(s[i]) \in Nat
    BY ItemsDiffer
  <1>2. ~(i < j) /\ ~(j < i)
    BY <1>1 DEF Rising
  <1> QED
    BY <1>2

(* What stays of a sequence keeps its order and its distinctness.          *)
LEMMA WithoutItems ==
    ASSUME NEW s \in Seq(QItems), Distinct(s), NEW out
    PROVE  /\ Without(s, out) \in Seq(QItems) /\ Distinct(Without(s, out))
           /\ ToSet(Without(s, out)) = ToSet(s) \ ToSet(out)
  <1> DEFINE stay == {i \in DOMAIN s : s[i] \notin ToSet(out)}
             less == {p \in stay \X stay : p[1] < p[2]}
             pos == InOrder(stay, less)
             n == Cardinality(stay)
             w == Without(s, out)
  <1>1. DOMAIN s = 1 .. Len(s) /\ Len(s) \in Nat
    OBVIOUS
  <1>2. stay \subseteq 1 .. Len(s) /\ \A i \in 1 .. Len(s) : i \in stay <=> s[i] \notin ToSet(out)
    BY <1>1
  <1>3. \A x, y \in stay : <<x, y>> \in less <=> x < y
    OBVIOUS
  <1>4. w = [k \in DOMAIN pos |-> s[pos[k]]]
    BY DEF Without
  <1> HIDE DEF stay, less, w
  <1>5. IsFiniteSet(stay)
    <2>1. stay \in SUBSET Nat /\ \A i \in stay : i <= Len(s)
      BY <1>1, <1>2
    <2> QED
      BY <1>1, <2>1, FS_BoundedSetOfNaturals
  <1>6. StrictOrder(stay, less)
    BY <1>1, <1>2, <1>3 DEF StrictOrder
  <1>7. /\ pos \in [1 .. n -> stay] /\ n \in Nat
        /\ \A i, j \in 1 .. n : i < j => <<pos[i], pos[j]>> \in less
        /\ \A x \in stay : \E k \in 1 .. n : pos[k] = x
    BY <1>5, <1>6, InOrderIsOrdered, FS_CardinalityType
  <1> HIDE DEF pos, n
  <1>8. /\ w = [k \in 1 .. n |-> s[pos[k]]]
        /\ \A k \in 1 .. n : pos[k] \in stay /\ pos[k] \in 1 .. Len(s) /\ w[k] = s[pos[k]]
    BY <1>2, <1>4, <1>7
  <1>9. w \in Seq(QItems) /\ Len(w) = n
    BY <1>7, <1>8
  <1>10. Distinct(w)
    <2> SUFFICES ASSUME NEW i \in 1 .. n, NEW j \in 1 .. n, w[i] = w[j] PROVE i = j
      BY <1>9 DEF Distinct
    <2>1. pos[i] = pos[j]
      BY <1>8 DEF Distinct
    <2>2. ~(<<pos[i], pos[j]>> \in less) /\ ~(<<pos[j], pos[i]>> \in less)
      <3>1. pos[i] \in stay /\ pos[i] \in Nat
        BY <1>1, <1>8
      <3> QED
        BY <1>3, <2>1, <3>1
    <2> QED
      BY <1>7, <2>2
  <1>11. ASSUME NEW x PROVE x \in ToSet(w) <=> x \in ToSet(s) /\ x \notin ToSet(out)
    <2>1. ASSUME x \in ToSet(w) PROVE x \in ToSet(s) /\ x \notin ToSet(out)
      <3>1. PICK k \in 1 .. n : w[k] = x
        BY <1>9, <2>1, MembersOf
      <3>2. s[pos[k]] \in ToSet(s)
        BY <1>8, MembersOf
      <3> QED
        BY <1>2, <1>8, <3>1, <3>2
    <2>2. ASSUME x \in ToSet(s), x \notin ToSet(out) PROVE x \in ToSet(w)
      <3>1. PICK i \in 1 .. Len(s) : s[i] = x
        BY <2>2, MembersOf
      <3>2. i \in stay
        BY <1>2, <2>2, <3>1
      <3>3. PICK k \in 1 .. n : pos[k] = i
        BY <1>7, <3>2
      <3>4. w[k] = x /\ k \in 1 .. Len(w)
        BY <1>8, <1>9, <3>1, <3>3
      <3> QED
        BY <1>9, <3>4, MembersOf
    <2> QED
      BY <2>1, <2>2
  <1> QED
    BY <1>9, <1>10, <1>11 DEF w

LEMMA WithoutLength ==
    ASSUME NEW s \in Seq(QItems), Distinct(s), NEW out \in Seq(QItems), Distinct(out),
           ToSet(out) \subseteq ToSet(s)
    PROVE  Len(Without(s, out)) + Len(out) = Len(s)
  <1> DEFINE w == Without(s, out)
  <1>1. w \in Seq(QItems) /\ Distinct(w) /\ ToSet(w) = ToSet(s) \ ToSet(out)
    BY WithoutItems
  <1> HIDE DEF w
  <1>2. /\ Cardinality(ToSet(w)) = Len(w) /\ Cardinality(ToSet(s)) = Len(s)
        /\ Cardinality(ToSet(out)) = Len(out) /\ IsFiniteSet(ToSet(s))
    BY <1>1, DistinctLength
  <1>3. ToSet(s) \cap ToSet(out) = ToSet(out)
    OBVIOUS
  <1>4. Cardinality(ToSet(s) \ ToSet(out)) = Cardinality(ToSet(s)) - Cardinality(ToSet(out))
    <2>1. ASSUME NEW A, NEW B, IsFiniteSet(A)
          PROVE  Cardinality(A \ B) = Cardinality(A) - Cardinality(A \cap B)
      BY ONLY IsFiniteSet(A), FS_Difference
    <2>2. Cardinality(ToSet(s) \ ToSet(out))
            = Cardinality(ToSet(s)) - Cardinality(ToSet(s) \cap ToSet(out))
      BY <1>2, <2>1
    <2> QED
      BY <1>3, <2>2
  <1>5. Len(w) \in Nat /\ Len(s) \in Nat /\ Len(out) \in Nat
    BY <1>1
  <1> QED
    BY <1>1, <1>2, <1>4, <1>5 DEF w

(* The front of sorted items, and what is left behind it.                  *)
LEMMA FrontItems ==
    ASSUME NEW t \in Seq(QItems), Rising(t), NEW n \in 0 .. Len(t)
    PROVE  /\ SubSeq(t, 1, n) \in Seq(QItems) /\ Len(SubSeq(t, 1, n)) = n
           /\ \A i \in 1 .. n : SubSeq(t, 1, n)[i] = t[i]
           /\ Rising(SubSeq(t, 1, n))
           /\ ToSet(SubSeq(t, 1, n)) \subseteq ToSet(t)
           /\ \A x \in ToSet(t) \ ToSet(SubSeq(t, 1, n)), i \in 1 .. n :
                SeqNum(SubSeq(t, 1, n)[i]) < SeqNum(x)
  <1> DEFINE p == SubSeq(t, 1, n)
  <1>0. Len(t) \in Nat /\ n \in Nat /\ \A i \in 1 .. n : i \in 1 .. Len(t)
    OBVIOUS
  <1>1. p \in Seq(QItems) /\ Len(p) = n /\ \A i \in 1 .. n : p[i] = t[i]
    <2>1. 1 \in 1 .. Len(t) + 1 /\ n \in 1 - 1 .. Len(t)
      BY <1>0
    <2>2. \A i \in 1 .. n : t[i] \in QItems
      BY <1>0
    <2> QED
      BY <1>0, <2>1, <2>2, SubSeqProperties
  <1> HIDE DEF p
  <1>2. Rising(p)
    BY <1>0, <1>1 DEF Rising
  <1>3. /\ ToSet(p) = {p[i] : i \in 1 .. Len(p)} /\ ToSet(t) = {t[i] : i \in 1 .. Len(t)}
    BY <1>1, MembersOf
  <1>4. ToSet(p) \subseteq ToSet(t)
    BY <1>0, <1>1, <1>3
  <1>5. ASSUME NEW x \in ToSet(t) \ ToSet(p), NEW i \in 1 .. n PROVE SeqNum(p[i]) < SeqNum(x)
    <2>1. PICK k \in 1 .. Len(t) : t[k] = x
      BY <1>3
    <2>2. ~(k \in 1 .. n)
      BY <1>1, <1>3, <2>1
    <2>3. i < k
      BY <1>0, <2>2
    <2> QED
      BY <1>0, <1>1, <2>1, <2>3 DEF Rising
  <1> QED
    BY <1>1, <1>2, <1>4, <1>5 DEF p

(* The followers of an item: held items, in sequence from the next number. *)
LEMMA FollowersItems ==
    ASSUME NEW T, NEW seen \in Seq(T), NEW c \in ToSet(seen), c = Last(seen),
           NEW s \in Seq(QItems), Distinct(s), Items(s, c), NEW next \in Nat
    PROVE  /\ InSequence(seen, s, next) \in Seq(QItems) /\ Rising(InSequence(seen, s, next))
           /\ ToSet(InSequence(seen, s, next)) \subseteq ToSet(s)
           /\ \A i \in 1 .. Len(InSequence(seen, s, next)) :
                InSequence(seen, s, next)[i] = <<c, next + i - 1>>
           /\ \A x \in ToSet(s) \ ToSet(InSequence(seen, s, next)) :
                /\ \A i \in 1 .. Len(InSequence(seen, s, next)) :
                     SeqNum(InSequence(seen, s, next)[i]) < SeqNum(x)
                /\ SeqNum(x) >= next => SeqNum(x) >= next + Len(InSequence(seen, s, next))
  <1> DEFINE t == Sorted(seen, s)
             follows(k) == \A i \in 1 .. k : t[i] = <<Last(seen), next + i - 1>>
             n == CHOOSE k \in 0 .. Len(t) : follows(k) /\ (k = Len(t) \/ ~follows(k + 1))
             f == InSequence(seen, s, next)
  <1>1. t \in Seq(QItems) /\ ToSet(t) = ToSet(s) /\ Items(t, c) /\ Rising(t) /\ Len(t) \in Nat
    BY SortedItems
  <1>2. f = SubSeq(t, 1, n)
    BY DEF InSequence
  <1> HIDE DEF t, f
  <1>3. n \in 0 .. Len(t) /\ follows(n)
    <2> DEFINE U == {k \in Nat : k <= Len(t) /\ (k = Len(t) \/ ~follows(k + 1))}
    <2>1. U \in SUBSET Nat /\ U # {}
      <3>1. Len(t) \in U
        BY <1>1
      <3> QED
        BY <3>1
    <2> HIDE DEF U
    <2>2. PICK k \in U : \A j \in U : k <= j
      BY <2>1, LeastNumber
    <2>3. k \in 0 .. Len(t) /\ (k = Len(t) \/ ~follows(k + 1))
      BY <1>1, <2>2 DEF U
    <2>4. follows(k)
      <3>1. CASE k = 0
        <4>1. \A i : ~(i \in 1 .. 0)
          OBVIOUS
        <4> QED
          BY <3>1, <4>1
      <3>2. CASE k # 0
        <4>1. k - 1 \in Nat /\ k - 1 < k /\ k - 1 <= Len(t) /\ k - 1 # Len(t) /\ (k - 1) + 1 = k
          BY <1>1, <2>3, <3>2
        <4>2. k - 1 \notin U
          BY <2>1, <2>2, <4>1
        <4> HIDE DEF follows
        <4> QED
          BY <4>1, <4>2 DEF U
      <3> QED
        BY <3>1, <3>2
    <2> HIDE DEF follows
    <2> QED
      BY <2>3, <2>4
  <1> HIDE DEF n
  <1>4. /\ f \in Seq(QItems) /\ Len(f) = n /\ \A i \in 1 .. n : f[i] = t[i]
        /\ Rising(f) /\ ToSet(f) \subseteq ToSet(t)
        /\ \A x \in ToSet(t) \ ToSet(f), i \in 1 .. n : SeqNum(f[i]) < SeqNum(x)
    BY <1>1, <1>2, <1>3, FrontItems
  <1>5. \A i \in 1 .. n : f[i] = <<c, next + i - 1>>
    BY <1>3, <1>4
  <1>6. ASSUME NEW x \in ToSet(s) \ ToSet(f), SeqNum(x) >= next PROVE SeqNum(x) >= next + n
    <2>1. n \in Nat
      BY <1>1, <1>3
    <2>2. CASE n = 0
      BY <1>6, <2>2
    <2>3. CASE n # 0
      <3>1. n \in 1 .. n /\ x \in ToSet(t) \ ToSet(f)
        BY <1>1, <2>1, <2>3
      <3>2. SeqNum(f[n]) < SeqNum(x) /\ f[n] = <<c, next + n - 1>>
        BY <1>4, <1>5, <3>1
      <3>3. SeqNum(f[n]) = next + n - 1
        BY <3>2 DEF SeqNum
      <3>4. SeqNum(x) \in Nat
        BY <1>1, <3>1, MembersOf, ItemsDiffer
      <3> QED
        BY <2>1, <3>2, <3>3, <3>4
    <2> QED
      BY <2>2, <2>3
  <1> QED
    BY <1>1, <1>4, <1>5, <1>6 DEF f

-----------------------------------------------------------------------------
(* The inductive invariant.                                                *)
HeldIs(seen, next, buffer) ==
    /\ buffer \in Seq(QItems) /\ Distinct(buffer)
    /\ \A x \in ToSet(buffer) : Session(x) = Last(seen) /\ SeqNum(x) >= next

SeenIs(seen) == seen \in Seq({Session(it) : it \in QItems}) /\ Distinct(seen)

QueueInv ==
    /\ QueueTypeOK
    /\ SeenIs(qSeen) /\ HeldIs(qSeen, qNext, held) /\ (held # << >> => qSeen # << >>)
    /\ qOut \in Seq(QItems)
    /\ ToSet(held) \subseteq offered
    /\ NeverBlocks

(* What ensureSessionTs leaves for an item: its session is known, what it  *)
(* flushes was held and is of other sessions, in order.                    *)
Ensures(it, q) ==
    /\ SeenIs(q.seen) /\ Session(it) \in ToSet(q.seen) /\ Last(q.seen) \in ToSet(q.seen)
    /\ q.next \in Nat \ {0} /\ q.timer \in QItems \cup {NoItem}
    /\ HeldIs(q.seen, q.next, q.held)
    /\ q.out \in Seq(QItems) /\ Rising(q.out)
    /\ Len(q.held) + Len(q.out) = Len(held)
    /\ ToSet(q.held) \subseteq ToSet(held)
    /\ \/ q.out = << >> /\ q.held = held
       \/ /\ q.held = << >> /\ ToSet(q.out) = ToSet(held)
          /\ \A x \in ToSet(held) : Session(x) # Session(it)

LEMMA NothingIn ==
    ASSUME NEW A
    PROVE  /\ << >> \in Seq(A) /\ Len(<< >>) = 0 /\ ToSet(<< >>) = {}
           /\ Distinct(<< >>) /\ Rising(<< >>)
  <1>1. << >> \in Seq(A) /\ Len(<< >>) = 0 /\ \A i : ~(i \in 1 .. 0)
    OBVIOUS
  <1> QED
    BY <1>1, MembersOf DEF Distinct, Rising

LEMMA LastIn ==
    ASSUME NEW A, NEW s \in Seq(A), s # << >>
    PROVE  Last(s) \in ToSet(s)
  <1>1. Len(s) \in 1 .. Len(s)
    BY EmptySeq
  <1> QED
    BY <1>1, MembersOf DEF Last

(* What the queue holds, sorted.                                           *)
LEMMA SortedHeld ==
    ASSUME QueueInv
    PROVE  /\ Sorted(qSeen, held) \in Seq(QItems) /\ Len(Sorted(qSeen, held)) = Len(held)
           /\ ToSet(Sorted(qSeen, held)) = ToSet(held) /\ Rising(Sorted(qSeen, held))
  <1>1. /\ qSeen \in Seq({Session(x) : x \in QItems}) /\ HeldIs(qSeen, qNext, held)
        /\ (held # << >> => qSeen # << >>) /\ held \in Seq(QItems)
    BY DEF QueueInv, QueueTypeOK, HeldIs
  <1>2. CASE held = << >>
    <2>1. ToSet(held) = {} /\ Len(held) = 0 /\ IsFiniteSet({}) /\ Cardinality({}) = 0
      BY <1>2, NothingIn, FS_EmptySet
    <2> DEFINE less == {p \in {} \X {} : Before(qSeen, p[1], p[2])}
    <2>2. Sorted(qSeen, held) = InOrder({}, less)
      BY <2>1 DEF Sorted
    <2> HIDE DEF less
    <2>3. InOrder({}, less) \in [1 .. 0 -> {}]
      <3>1. StrictOrder({}, less)
        BY DEF StrictOrder
      <3> QED
        BY <2>1, <3>1, InOrderIsOrdered
    <2>4. Sorted(qSeen, held) = << >>
      BY <2>2, <2>3
    <2> QED
      BY <1>2, <2>1, <2>4, NothingIn
  <1>3. CASE held # << >>
    <2>1. Last(qSeen) \in ToSet(qSeen)
      BY <1>1, <1>3, LastIn
    <2>2. Distinct(held) /\ Items(held, Last(qSeen))
      BY <1>1, MembersOf DEF HeldIs, Items
    <2> QED
      BY <1>1, <2>1, <2>2, SortedItems
  <1> QED
    BY <1>2, <1>3

LEMMA SessionEnsured ==
    ASSUME QueueInv, NEW it \in QItems
    PROVE  Ensures(it, EnsureSession(Session(it)))
  <1> DEFINE c == Session(it)
             q == EnsureSession(c)
  <1>1. /\ SeenIs(qSeen) /\ HeldIs(qSeen, qNext, held) /\ (held # << >> => qSeen # << >>)
        /\ qNext \in Nat \ {0} /\ qTimer \in QItems \cup {NoItem}
        /\ qSeen \in Seq({Session(x) : x \in QItems})
        /\ held \in Seq(QItems) /\ Len(held) \in Nat
    BY DEF QueueInv, QueueTypeOK, HeldIs
  <1>2. CASE c \in ToSet(qSeen)
    <2>1. /\ q.seen = qSeen /\ q.next = qNext /\ q.held = held /\ q.out = << >>
          /\ q.timer = qTimer
      BY <1>2 DEF EnsureSession
    <2>2. qSeen # << >>
      BY <1>2, NothingIn
    <2>3. Last(qSeen) \in ToSet(qSeen)
      BY <1>1, <2>2, LastIn
    <2> HIDE DEF q, c
    <2>4. q.out \in Seq(QItems) /\ Rising(q.out) /\ Len(q.out) = 0
      BY <2>1, NothingIn
    <2> QED
      BY <1>1, <1>2, <2>1, <2>3, <2>4 DEF Ensures, c, q
  <1>3. CASE c \notin ToSet(qSeen)
    <2>1. /\ q.seen = Append(qSeen, c) /\ q.next = 1 /\ q.held = << >>
          /\ q.out = Sorted(qSeen, held)
          /\ q.timer = IF held = << >> THEN qTimer ELSE NoItem
      BY <1>3 DEF EnsureSession
    <2> DEFINE SS == {Session(x) : x \in QItems}
               l == Len(qSeen)
    <2>2. /\ q.seen \in Seq(SS) /\ Len(q.seen) = l + 1 /\ l \in Nat /\ q.seen[l + 1] = c
          /\ \A i \in 1 .. l : q.seen[i] = qSeen[i]
      BY <1>1, <2>1
    <2>3. Distinct(q.seen)
      <3>1. \A i \in 1 .. l : qSeen[i] # c
        BY <1>1, <1>3, MembersOf
      <3>2. \A i, j \in 1 .. l : qSeen[i] = qSeen[j] => i = j
        BY <1>1 DEF SeenIs, Distinct
      <3> HIDE DEF l, q
      <3>3. \A i \in 1 .. l + 1 : i \in 1 .. l \/ i = l + 1
        BY <2>2
      <3> QED
        BY <2>2, <3>1, <3>2, <3>3 DEF Distinct
    <2>4. Last(q.seen) = c /\ c \in ToSet(q.seen)
      <3>1. l + 1 \in 1 .. Len(q.seen)
        BY <2>2
      <3> QED
        BY <2>2, <3>1, MembersOf DEF Last
    <2>5. HeldIs(q.seen, q.next, q.held) /\ ToSet(q.held) = {} /\ Len(q.held) = 0
      BY <2>1, NothingIn DEF HeldIs
    <2>6. /\ q.out \in Seq(QItems) /\ Rising(q.out) /\ Len(q.out) = Len(held)
          /\ ToSet(q.out) = ToSet(held)
          /\ \A x \in ToSet(held) : Session(x) # c
      <3>1. /\ Sorted(qSeen, held) \in Seq(QItems) /\ Len(Sorted(qSeen, held)) = Len(held)
            /\ ToSet(Sorted(qSeen, held)) = ToSet(held) /\ Rising(Sorted(qSeen, held))
        BY SortedHeld
      <3>2. \A x \in ToSet(held) : Session(x) # c
        <4>1. CASE held = << >>
          BY <4>1, NothingIn
        <4>2. CASE held # << >>
          <5>1. Last(qSeen) \in ToSet(qSeen)
            BY <1>1, <4>2, LastIn
          <5> QED
            BY <1>1, <1>3, <5>1 DEF HeldIs
        <4> QED
          BY <4>1, <4>2
      <3> QED
        BY <2>1, <3>1, <3>2
    <2>7. q.next \in Nat \ {0} /\ q.timer \in QItems \cup {NoItem}
      BY <1>1, <2>1
    <2>8. Len(q.held) + Len(q.out) = Len(held)
      BY <1>1, <2>5, <2>6
    <2>9. SeenIs(q.seen)
      BY <2>2, <2>3 DEF SeenIs
    <2> HIDE DEF q, c
    <2> QED
      BY <2>1, <2>4, <2>5, <2>6, <2>7, <2>8, <2>9 DEF Ensures, c, q
  <1> QED
    BY <1>2, <1>3

-----------------------------------------------------------------------------
(* What joins the channel overtakes nothing that is held or comes later.   *)
FairOut(buffer, ext) ==
    \A i \in 1 .. Len(ext) :
        \A x \in ToSet(buffer) \cup {ext[j] : j \in i + 1 .. Len(ext)} :
            Session(x) = Session(ext[i]) /\ 0 < SeqNum(x) /\ SeqNum(x) < SeqNum(ext[i])
                => \E j \in 1 .. i : ext[j] = x

FairStep ==
    \A i \in Len(qOut) + 1 .. Len(qOut') :
        \A it \in ToSet(held) \cup {qOut'[j] : j \in i + 1 .. Len(qOut')} :
            Session(it) = Session(qOut'[i]) /\ 0 < SeqNum(it) /\ SeqNum(it) < SeqNum(qOut'[i])
                => \E j \in Len(qOut) + 1 .. i : qOut'[j] = it

LEMMA ExtensionFair ==
    ASSUME qOut \in Seq(QItems), NEW ext \in Seq(QItems), qOut' = qOut \o ext,
           FairOut(held, ext)
    PROVE  FairStep
  <1> DEFINE l == Len(qOut)
             m == Len(ext)
  <1>1. /\ l \in Nat /\ m \in Nat /\ Len(qOut') = l + m
        /\ \A k \in 1 .. m : qOut'[l + k] = ext[k]
    BY ConcatProperties
  <1> SUFFICES ASSUME NEW i \in l + 1 .. l + m,
                      NEW x \in ToSet(held) \cup {qOut'[j] : j \in i + 1 .. l + m},
                      Session(x) = Session(qOut'[i]), 0 < SeqNum(x), SeqNum(x) < SeqNum(qOut'[i])
               PROVE  \E j \in l + 1 .. i : qOut'[j] = x
    BY <1>1, SMTT(20) DEF FairStep
  <1> HIDE DEF l, m
  <1>2. \A j \in l + 1 .. l + m : j - l \in 1 .. m /\ qOut'[j] = ext[j - l]
    <2>1. \A j \in l + 1 .. l + m : j - l \in 1 .. m /\ l + (j - l) = j
      BY <1>1
    <2> QED
      BY <1>1, <2>1
  <1>3. x \in ToSet(held) \cup {ext[j] : j \in (i - l) + 1 .. m}
    <2>1. CASE x \in ToSet(held)
      BY <2>1
    <2>2. CASE x \in {qOut'[j] : j \in i + 1 .. l + m}
      <3>1. PICK j \in i + 1 .. l + m : qOut'[j] = x
        BY <2>2
      <3>2. j \in l + 1 .. l + m /\ j - l \in (i - l) + 1 .. m
        BY <1>1
      <3> QED
        BY <1>2, <3>1, <3>2
    <2> QED
      BY <2>1, <2>2
  <1>4. PICK k \in 1 .. i - l : ext[k] = x
    BY <1>2, <1>3 DEF FairOut, m
  <1>5. l + k \in l + 1 .. i /\ k \in 1 .. m
    BY <1>1
  <1> QED
    BY <1>1, <1>4, <1>5

(* The front of the sorted buffer.                                         *)
LEMMA FrontFair ==
    ASSUME NEW buffer \in Seq(QItems), NEW out \in Seq(QItems), Rising(out),
           \A x \in ToSet(buffer) \ ToSet(out), i \in 1 .. Len(out) : SeqNum(out[i]) < SeqNum(x)
    PROVE  FairOut(buffer, out)
  <1> SUFFICES ASSUME NEW i \in 1 .. Len(out),
                      NEW x \in ToSet(buffer) \cup {out[j] : j \in i + 1 .. Len(out)},
                      SeqNum(x) < SeqNum(out[i])
               PROVE  \E j \in 1 .. i : out[j] = x
    BY DEF FairOut
  <1>1. \A j \in 1 .. Len(out) : SeqNum(out[j]) \in Nat
    BY ItemsDiffer
  <1>2. x \in QItems /\ SeqNum(x) \in Nat
    <2>1. ToSet(buffer) \subseteq QItems
      BY MembersOf
    <2>2. \A j \in i + 1 .. Len(out) : j \in 1 .. Len(out)
      OBVIOUS
    <2>3. x \in QItems
      BY <2>1, <2>2
    <2> QED
      BY <2>3, ItemsDiffer
  <1>3. PICK j \in 1 .. Len(out) : out[j] = x
    <2>1. CASE x \in ToSet(out)
      BY <2>1, MembersOf
    <2>2. CASE x \in {out[j] : j \in i + 1 .. Len(out)}
      <3>1. \A j \in i + 1 .. Len(out) : j \in 1 .. Len(out)
        OBVIOUS
      <3> QED
        BY <2>2, <3>1
    <2>3. CASE x \in ToSet(buffer) \ ToSet(out)
      BY <1>1, <1>2, <2>3
    <2> QED
      BY <2>1, <2>2, <2>3
  <1>4. ~(i < j)
    <2>1. SeqNum(out[i]) \in Nat /\ SeqNum(out[j]) \in Nat /\ SeqNum(out[j]) < SeqNum(out[i])
      BY <1>1, <1>3
    <2>2. i < j => SeqNum(out[i]) < SeqNum(out[j])
      BY DEF Rising
    <2> QED
      BY <2>1, <2>2
  <1> QED
    BY <1>3, <1>4

(* An item, what its session flushed before it, and its followers.         *)
LEMMA ItemFair ==
    ASSUME NEW buffer \in Seq(QItems), NEW it \in QItems,
           NEW out \in Seq(QItems), Rising(out), NEW fol \in Seq(QItems), Rising(fol),
           \/ out = << >>
           \/ /\ fol = << >> /\ ToSet(out) = ToSet(buffer)
              /\ \A x \in ToSet(buffer) : Session(x) # Session(it),
           ToSet(fol) \subseteq ToSet(buffer),
           \A x \in ToSet(buffer) \ ToSet(fol), i \in 1 .. Len(fol) :
             SeqNum(fol[i]) < SeqNum(x),
           \A x \in ToSet(buffer) :
             Session(x) = Session(it) /\ 0 < SeqNum(x) => SeqNum(it) <= SeqNum(x)
    PROVE  FairOut(buffer, out \o <<it>> \o fol) /\ out \o <<it>> \o fol \in Seq(QItems)
  <1>0. \A x \in QItems : SeqNum(x) \in Nat
    BY ItemsDiffer
  <1>1. ToSet(buffer) \subseteq QItems
    BY MembersOf
  <1>2. CASE out = << >>
    <2> DEFINE ext == out \o <<it>> \o fol
               m == Len(fol)
    <2>1. /\ ext \in Seq(QItems) /\ Len(ext) = m + 1 /\ m \in Nat /\ ext[1] = it
          /\ \A k \in 1 .. m : ext[k + 1] = fol[k]
      BY <1>2
    <2> HIDE DEF ext
    <2>2. \A k \in 1 .. Len(ext) : k = 1 \/ (k - 1 \in 1 .. m /\ ext[k] = fol[k - 1])
      <3>1. \A k \in 1 .. m + 1 : k = 1 \/ (k - 1 \in 1 .. m /\ (k - 1) + 1 = k)
        BY <2>1
      <3> QED
        BY <2>1, <3>1
    <2>3. FairOut(buffer, fol)
      BY FrontFair
    <2>4. ASSUME NEW i \in 1 .. Len(ext),
                 NEW x \in ToSet(buffer) \cup {ext[j] : j \in i + 1 .. Len(ext)},
                 Session(x) = Session(ext[i]), 0 < SeqNum(x), SeqNum(x) < SeqNum(ext[i])
          PROVE  \E j \in 1 .. i : ext[j] = x
      <3>1. CASE i = 1
        <4>1. x \in ToSet(buffer)
          <5>1. ASSUME NEW j \in i + 1 .. Len(ext), x = ext[j] PROVE x \in ToSet(buffer)
            <6>1. j \in 1 .. Len(ext) /\ j # 1
              BY <2>1, <5>1
            <6>2. j - 1 \in 1 .. m /\ x = fol[j - 1]
              BY <2>2, <5>1, <6>1
            <6> QED
              BY <6>2, MembersOf
          <5> QED
            BY <5>1
        <4> QED
          BY <1>0, <1>1, <2>1, <2>4, <3>1, <4>1
      <3>2. CASE i # 1
        <4>1. i - 1 \in 1 .. m /\ ext[i] = fol[i - 1]
          BY <2>2, <3>2
        <4>2. x \in ToSet(buffer) \cup {fol[j] : j \in (i - 1) + 1 .. m}
          <5>1. ASSUME NEW j \in i + 1 .. Len(ext), x = ext[j]
                PROVE  \E k \in (i - 1) + 1 .. m : x = fol[k]
            <6>1. j \in 1 .. Len(ext) /\ j # 1 /\ j - 1 \in (i - 1) + 1 .. m
              BY <2>1, <5>1
            <6> QED
              BY <2>2, <5>1, <6>1
          <5> QED
            BY <5>1
        <4>3. PICK k \in 1 .. i - 1 : fol[k] = x
          BY <2>3, <2>4, <4>1, <4>2 DEF FairOut
        <4>4. k \in 1 .. m /\ k + 1 \in 1 .. i
          BY <2>1, <4>1
        <4> QED
          BY <2>1, <4>3, <4>4
      <3> QED
        BY <3>1, <3>2
    <2> QED
      BY <2>1, <2>4 DEF FairOut, ext
  <1>3. CASE /\ fol = << >> /\ ToSet(out) = ToSet(buffer)
             /\ \A x \in ToSet(buffer) : Session(x) # Session(it)
    <2> DEFINE ext == out \o <<it>> \o fol
               l == Len(out)
    <2>1. /\ ext \in Seq(QItems) /\ Len(ext) = l + 1 /\ l \in Nat /\ ext[l + 1] = it
          /\ \A k \in 1 .. l : ext[k] = out[k]
      BY <1>3
    <2> HIDE DEF ext
    <2>2. FairOut(buffer, out)
      BY <1>3, FrontFair
    <2>3. ASSUME NEW i \in 1 .. Len(ext),
                 NEW x \in ToSet(buffer) \cup {ext[j] : j \in i + 1 .. Len(ext)},
                 Session(x) = Session(ext[i]), 0 < SeqNum(x), SeqNum(x) < SeqNum(ext[i])
          PROVE  \E j \in 1 .. i : ext[j] = x
      <3>1. CASE i = l + 1
        <4>1. x \in ToSet(buffer)
          <5>1. \A j : ~(j \in i + 1 .. Len(ext))
            BY <2>1, <3>1
          <5> QED
            BY <5>1
        <4> QED
          BY <1>3, <2>1, <2>3, <3>1, <4>1
      <3>2. CASE i # l + 1
        <4>1. i \in 1 .. l /\ ext[i] = out[i]
          BY <2>1, <3>2
        <4>2. Session(out[i]) # Session(it)
          BY <1>3, <4>1, MembersOf
        <4>3. x \in ToSet(buffer) \cup {out[j] : j \in i + 1 .. l}
          <5>1. ASSUME NEW j \in i + 1 .. Len(ext), x = ext[j]
                PROVE  \E k \in i + 1 .. l : x = out[k]
            <6>1. j # l + 1
              BY <2>1, <2>3, <4>1, <4>2, <5>1
            <6>2. j \in i + 1 .. l /\ j \in 1 .. l
              BY <2>1, <4>1, <6>1
            <6> QED
              BY <2>1, <5>1, <6>2
          <5> QED
            BY <5>1
        <4>4. PICK k \in 1 .. i : out[k] = x
          BY <2>2, <2>3, <4>1, <4>3 DEF FairOut
        <4>5. k \in 1 .. l
          BY <2>1, <4>1
        <4> QED
          BY <2>1, <4>4, <4>5
      <3> QED
        BY <3>1, <3>2
    <2> QED
      BY <2>1, <2>3 DEF FairOut, ext
  <1> QED
    BY <1>2, <1>3

-----------------------------------------------------------------------------
(* The steps.                                                              *)
LEMMA AgeOf ==
    ASSUME NEW A, NEW seen \in Seq(A), Distinct(seen), NEW c \in ToSet(seen)
    PROVE  /\ Age(seen, c) \in 1 .. Len(seen) /\ seen[Age(seen, c)] = c
           /\ Last(seen) \in ToSet(seen) /\ Age(seen, Last(seen)) = Len(seen)
  <1>1. Len(seen) \in Nat /\ DOMAIN seen = 1 .. Len(seen)
    OBVIOUS
  <1>2. \A d \in ToSet(seen) : Age(seen, d) \in 1 .. Len(seen) /\ seen[Age(seen, d)] = d
    <2> TAKE d \in ToSet(seen)
    <2>1. \E i \in 1 .. Len(seen) : seen[i] = d
      BY MembersOf
    <2> QED
      BY <1>1, <2>1 DEF Age
  <1>3. Last(seen) \in ToSet(seen) /\ Len(seen) \in 1 .. Len(seen) /\ Last(seen) = seen[Len(seen)]
    <2>1. Len(seen) \in 1 .. Len(seen)
      BY <1>1, <1>2
    <2> QED
      BY <2>1, MembersOf DEF Last
  <1>4. Age(seen, Last(seen)) = Len(seen)
    BY <1>2, <1>3 DEF Distinct
  <1> QED
    BY <1>2, <1>3, <1>4

LEMMA StillFair ==
    ASSUME qOut \in Seq(QItems), Len(qOut') <= Len(qOut), qOut' \in Seq(QItems)
    PROVE  FairStep
  <1>1. \A i : ~(i \in Len(qOut) + 1 .. Len(qOut'))
    OBVIOUS
  <1> QED
    BY <1>1 DEF FairStep

(* The invariant from what a step makes of it.                             *)
LEMMA InvFrom ==
    ASSUME SeenIs(qSeen'), HeldIs(qSeen', qNext', held'), held' # << >> => qSeen' # << >>,
           qNext' \in Nat \ {0}, qTimer' \in QItems \cup {NoItem},
           qOut' \in Seq(QItems), ToSet(held') \subseteq offered', offered' \subseteq QItems,
           Len(held') + Len(qOut') <= QCap
    PROVE  QueueInv'
  <1>1. ToSet(qOut') \subseteq QItems /\ ToSet(held') \subseteq QItems
    BY MembersOf DEF HeldIs
  <1> QED
    BY <1>1 DEF QueueInv, QueueTypeOK, SeenIs, NeverBlocks

LEMMA Joins ==
    ASSUME NEW A, NEW a \in Seq(A), NEW b \in Seq(A), NEW e \in Seq(A), Len(e) = 1,
           NEW c \in Seq(A)
    PROVE  /\ a \o b \o e \in Seq(A) /\ Len(a \o b \o e) = Len(a) + (Len(b) + 1)
           /\ a \o b \o e \o c \in Seq(A)
           /\ Len(a \o b \o e \o c) = Len(a) + (Len(b) + 1 + Len(c))
  <1> DEFINE ab == a \o b
             abe == ab \o e
             abec == abe \o c
  <1>0. Len(a) \in Nat /\ Len(b) \in Nat /\ Len(c) \in Nat
    OBVIOUS
  <1>1. ab \in Seq(A) /\ Len(ab) = Len(a) + Len(b)
    OBVIOUS
  <1> HIDE DEF ab
  <1>2. abe \in Seq(A) /\ Len(abe) = Len(ab) + 1
    <2>1. ab \in Seq(A)
      BY <1>1
    <2>2. abe \in Seq(A) /\ Len(abe) = Len(ab) + Len(e)
      BY ONLY <2>1, e \in Seq(A), ConcatProperties
    <2> QED
      BY <2>2
  <1> HIDE DEF abe
  <1>3. abec \in Seq(A) /\ Len(abec) = Len(abe) + Len(c)
    BY <1>2, ConcatProperties
  <1> HIDE DEF abec
  <1> QED
    BY <1>0, <1>1, <1>2, <1>3 DEF ab, abe, abec

(* What joins the channel left the buffer, but for the item.               *)
LEMMA Fits ==
    ASSUME NEW h \in Nat, NEW o \in Nat, NEW cap \in Nat, h + o < cap,
           NEW b \in Nat, NEW p \in Nat, b + p = h
    PROVE  /\ b + (o + (p + 1)) <= cap
           /\ (b + 1) + (o + p) <= cap
           /\ \A k, f \in Nat : k + f = b => k + (o + (p + 1 + f)) <= cap
  OBVIOUS

LEMMA QueueItemKeeps ==
    ASSUME QueueInv, NEW it \in QItems, QueueItem(it)
    PROVE  QueueInv' /\ FairStep
  <1> DEFINE q == EnsureSession(Session(it))
             next == <<Last(q.seen), q.next>>
             fol == InSequence(q.seen, q.held, q.next + 1)
             SS == {Session(x) : x \in QItems}
  <1>1. /\ it \notin offered /\ offered' = offered \cup {it} /\ offered \subseteq QItems
        /\ ToSet(held) \subseteq offered /\ qOut \in Seq(QItems) /\ held \in Seq(QItems)
        /\ QCap \in Nat /\ Len(held) + Len(qOut) <= QCap /\ Len(held) \in Nat /\ Len(qOut) \in Nat
    BY ReorderQueueAssumption
    DEF QueueItem, QueueInv, QueueTypeOK, HeldIs, NeverBlocks
  <1>2. CASE ~HasRoom
    <2>1. UNCHANGED <<qSeen, qNext, held, qOut, qTimer>>
      BY <1>2 DEF QueueItem
    <2>2. QueueInv'
      BY <1>1, <2>1 DEF QueueInv, QueueTypeOK, SeenIs, HeldIs, NeverBlocks
    <2>3. FairStep
      BY <1>1, <2>1, StillFair
    <2> QED
      BY <2>2, <2>3
  <1>3. CASE HasRoom
    <2>0. Len(held) + Len(qOut) < QCap
      BY <1>3 DEF HasRoom
    <2>1. Ensures(it, q)
      BY SessionEnsured
    <2>2. qSeen' = q.seen
      BY <1>3 DEF QueueItem
    <2>3. \/ /\ SeqNum(it) = 0 \/ Before(q.seen, it, next)
             /\ qOut' = qOut \o q.out \o <<it>>
             /\ qNext' = q.next /\ held' = q.held /\ qTimer' = q.timer
          \/ /\ it = next
             /\ qOut' = qOut \o q.out \o <<it>> \o fol
             /\ qNext' = q.next + 1 + Len(fol)
             /\ held' = Without(q.held, fol) /\ qTimer' = q.timer
          \/ /\ ~(SeqNum(it) = 0 \/ Before(q.seen, it, next))
             /\ it # next
             /\ held' = Append(q.held, it)
             /\ qTimer' = IF q.timer = NoItem THEN it ELSE q.timer
             /\ qOut' = qOut \o q.out /\ qNext' = q.next
      BY <1>3 DEF QueueItem
    <2> HIDE DEF q, fol
    <2>4. /\ SeenIs(q.seen) /\ q.seen \in Seq(SS) /\ Distinct(q.seen)
          /\ Session(it) \in ToSet(q.seen) /\ q.seen # << >>
          /\ q.next \in Nat \ {0} /\ q.timer \in QItems \cup {NoItem}
          /\ HeldIs(q.seen, q.next, q.held) /\ q.held \in Seq(QItems) /\ Distinct(q.held)
          /\ q.out \in Seq(QItems) /\ Rising(q.out)
          /\ Len(q.held) + Len(q.out) = Len(held)
          /\ ToSet(q.held) \subseteq ToSet(held)
          /\ Len(q.held) \in Nat /\ Len(q.out) \in Nat
      <3>1. Session(it) \in ToSet(q.seen)
        BY <2>1 DEF Ensures
      <3>2. q.seen # << >>
        BY <3>1, NothingIn
      <3>3. q.held \in Seq(QItems) /\ q.out \in Seq(QItems)
        BY <2>1 DEF Ensures, HeldIs
      <3>4. Len(q.held) \in Nat /\ Len(q.out) \in Nat
        BY <3>3
      <3>5. Distinct(q.held) /\ q.seen \in Seq(SS) /\ Distinct(q.seen)
        BY <2>1 DEF Ensures, HeldIs, SeenIs
      <3> QED
        BY <2>1, <3>2, <3>3, <3>4, <3>5 DEF Ensures
    <2>5. \/ q.out = << >> /\ q.held = held
          \/ /\ q.held = << >> /\ ToSet(q.out) = ToSet(held)
             /\ \A x \in ToSet(held) : Session(x) # Session(it)
      BY <2>1 DEF Ensures
    <2>6. /\ Age(q.seen, Session(it)) \in 1 .. Len(q.seen)
          /\ q.seen[Age(q.seen, Session(it))] = Session(it)
          /\ Last(q.seen) \in ToSet(q.seen) /\ Age(q.seen, Last(q.seen)) = Len(q.seen)
          /\ Last(q.seen) = q.seen[Len(q.seen)] /\ Len(q.seen) \in Nat
      <3>1. Len(q.seen) \in Nat /\ Last(q.seen) = q.seen[Len(q.seen)]
        BY <2>4 DEF Last
      <3> QED
        BY <2>4, <3>1, AgeOf
    <2>7. SeqNum(it) \in Nat /\ Session(next) = Last(q.seen) /\ SeqNum(next) = q.next
      BY ItemsDiffer DEF Session, SeqNum
    <2>13. /\ Len(q.held) + Len(q.out) = Len(held) /\ Len(held) \in Nat
           /\ Len(q.held) \in Nat /\ Len(q.out) \in Nat
      BY <1>1, <2>4
    <2>15. /\ Len(q.held) + (Len(qOut) + (Len(q.out) + 1)) <= QCap
           /\ (Len(q.held) + 1) + (Len(qOut) + Len(q.out)) <= QCap
           /\ \A k, f \in Nat :
                k + f = Len(q.held) => k + (Len(qOut) + (Len(q.out) + 1 + f)) <= QCap
      BY <1>1, <2>0, <2>13, Fits
    <2>14. /\ qOut \o q.out \o <<it>> = qOut \o (q.out \o <<it>>)
           /\ q.out \o <<it>> \o << >> = q.out \o <<it>>
           /\ qOut \o q.out \o <<it>> \in Seq(QItems)
           /\ Len(qOut \o q.out \o <<it>>) = Len(qOut) + (Len(q.out) + 1)
           /\ qOut \o q.out \in Seq(QItems) /\ Len(qOut \o q.out) = Len(qOut) + Len(q.out)
      <3> DEFINE a == qOut
                 b == q.out
                 e == <<it>>
      <3>1. /\ a \in Seq(QItems) /\ b \in Seq(QItems) /\ e \in Seq(QItems) /\ Len(e) = 1
            /\ << >> \in Seq(QItems)
        BY <1>1, <2>4, NothingIn
      <3> HIDE DEF a, b, e
      <3>2. a \o b \o e = a \o (b \o e) /\ b \o e \o << >> = b \o e
        <4>1. a \o b \o e = a \o (b \o e)
          BY <3>1
        <4>2. b \o e \in Seq(QItems)
          BY <3>1
        <4>3. b \o e \o << >> = b \o e
          BY <4>2, ConcatEmptySeq
        <4> QED
          BY <4>1, <4>3
      <3>3. a \o b \in Seq(QItems) /\ Len(a \o b) = Len(a) + Len(b)
        BY <3>1
      <3>4. a \o b \o e \in Seq(QItems) /\ Len(a \o b \o e) = Len(a) + (Len(b) + 1)
        BY <3>1, Joins
      <3> QED
        BY <3>2, <3>3, <3>4 DEF a, b, e
    <2>8. \A x \in ToSet(q.held) : Session(x) = Last(q.seen) /\ SeqNum(x) >= q.next
      BY <2>4 DEF HeldIs
    <2>9. \A x \in ToSet(held) : x \in QItems /\ x # it
      BY <1>1
    <2> HIDE DEF next
    <2>10. CASE /\ SeqNum(it) = 0 \/ Before(q.seen, it, next)
                /\ qOut' = qOut \o q.out \o <<it>>
                /\ qNext' = q.next /\ held' = q.held /\ qTimer' = q.timer
      <3>1. \A x \in ToSet(held) :
              Session(x) = Session(it) /\ 0 < SeqNum(x) => SeqNum(it) <= SeqNum(x)
        <4> SUFFICES ASSUME NEW x \in ToSet(held), Session(x) = Session(it), 0 < SeqNum(x)
                     PROVE  SeqNum(it) <= SeqNum(x)
          OBVIOUS
        <4>1. SeqNum(x) \in Nat /\ x \in ToSet(q.held)
          BY <2>5, <2>9, ItemsDiffer
        <4>2. Session(it) = Last(q.seen) /\ SeqNum(x) >= q.next
          BY <2>8, <4>1
        <4>3. CASE SeqNum(it) = 0
          BY <4>1, <4>3
        <4>4. CASE Before(q.seen, it, next)
          <5>1. SeqNum(it) < q.next
            BY <2>6, <2>7, <4>2, <4>4 DEF Before
          <5> QED
            BY <2>4, <2>7, <4>1, <4>2, <5>1
        <4> QED
          BY <2>10, <4>3, <4>4
      <3>2. << >> \in Seq(QItems) /\ ToSet(<< >>) = {} /\ Rising(<< >>) /\ \A i : ~(i \in 1 .. Len(<< >>))
        <4>1. \A i : ~(i \in 1 .. 0)
          OBVIOUS
        <4> QED
          BY <4>1, NothingIn
      <3>3. /\ FairOut(held, q.out \o <<it>> \o << >>)
            /\ q.out \o <<it>> \o << >> \in Seq(QItems)
        BY <1>1, <2>4, <2>5, <3>1, <3>2, ItemFair
      <3>4. /\ q.out \o <<it>> \o << >> = q.out \o <<it>>
            /\ qOut' = qOut \o (q.out \o <<it>>) /\ qOut' \in Seq(QItems)
            /\ Len(qOut') = Len(qOut) + (Len(q.out) + 1)
        BY <2>10, <2>14
      <3>5. FairStep
        BY <1>1, <3>3, <3>4, ExtensionFair
      <3>6. Len(held') + Len(qOut') <= QCap
        <4>1. held' = q.held
          BY <2>10
        <4> QED
          BY <2>15, <3>4, <4>1
      <3>7. ToSet(held') \subseteq offered' /\ offered' \subseteq QItems
        BY <1>1, <2>4, <2>10
      <3>8. QueueInv'
        BY <2>2, <2>4, <2>10, <3>4, <3>6, <3>7, InvFrom
      <3> QED
        BY <3>5, <3>8
    <2>11. CASE /\ it = next
                /\ qOut' = qOut \o q.out \o <<it>> \o fol
                /\ qNext' = q.next + 1 + Len(fol)
                /\ held' = Without(q.held, fol) /\ qTimer' = q.timer
      <3>0. Items(q.held, Last(q.seen)) /\ q.next + 1 \in Nat
        BY <2>4, <2>8, MembersOf DEF Items
      <3>1. /\ fol \in Seq(QItems) /\ Rising(fol) /\ ToSet(fol) \subseteq ToSet(q.held)
            /\ \A x \in ToSet(q.held) \ ToSet(fol) :
                 /\ \A i \in 1 .. Len(fol) : SeqNum(fol[i]) < SeqNum(x)
                 /\ SeqNum(x) >= q.next + 1 => SeqNum(x) >= q.next + 1 + Len(fol)
        BY <2>4, <2>6, <3>0, FollowersItems DEF fol
      <3>2. \A x \in ToSet(held) :
              Session(x) = Session(it) /\ 0 < SeqNum(x) => SeqNum(it) <= SeqNum(x)
        BY <2>5, <2>7, <2>8, <2>11
      <3>3. Len(fol) \in Nat /\ (q.held = << >> => fol = << >>)
        <4>1. q.held = << >> => ToSet(fol) = {}
          BY <3>1, NothingIn
        <4>2. ToSet(fol) = {} => fol = << >>
          BY <3>1, LastIn
        <4> QED
          BY <3>1, <4>1, <4>2
      <3>4. /\ \A x \in ToSet(held) \ ToSet(fol), i \in 1 .. Len(fol) : SeqNum(fol[i]) < SeqNum(x)
            /\ ToSet(fol) \subseteq ToSet(held)
        <4>1. CASE q.held = held
          BY <3>1, <4>1
        <4>2. CASE q.held = << >>
          <5>1. fol = << >> /\ \A i : ~(i \in 1 .. 0)
            BY <3>3, <4>2
          <5>2. Len(fol) = 0 /\ ToSet(fol) = {}
            BY <5>1, NothingIn
          <5> QED
            BY <5>1, <5>2
        <4> QED
          BY <2>5, <4>1, <4>2
      <3>5. /\ FairOut(held, q.out \o <<it>> \o fol)
            /\ q.out \o <<it>> \o fol \in Seq(QItems)
        BY <1>1, <2>4, <2>5, <3>1, <3>2, <3>3, <3>4, ItemFair
      <3>6. /\ qOut' = qOut \o (q.out \o <<it>> \o fol) /\ qOut' \in Seq(QItems)
            /\ Len(qOut') = Len(qOut) + (Len(q.out) + 1 + Len(fol))
        <4>1. qOut \in Seq(QItems) /\ q.out \in Seq(QItems) /\ fol \in Seq(QItems)
          BY <1>1, <2>4, <3>1
        <4>2. /\ qOut \o q.out \o <<it>> \o fol = qOut \o (q.out \o <<it>> \o fol)
              /\ qOut \o q.out \o <<it>> \o fol \in Seq(QItems)
              /\ Len(qOut \o q.out \o <<it>> \o fol) = Len(qOut) + (Len(q.out) + 1 + Len(fol))
          <5> DEFINE a == qOut
                     b == q.out
                     e == <<it>>
          <5>1. /\ a \in Seq(QItems) /\ b \in Seq(QItems) /\ fol \in Seq(QItems)
                /\ e \in Seq(QItems) /\ Len(e) = 1
            BY <4>1
          <5> HIDE DEF a, b, e
          <5>2. a \o b \o e \o fol = a \o (b \o e \o fol)
            <6>1. a \o b \o e = a \o (b \o e) /\ b \o e \in Seq(QItems)
              BY <5>1
            <6>2. (a \o (b \o e)) \o fol = a \o (b \o e \o fol)
              BY <5>1, <6>1
            <6> QED
              BY <6>1, <6>2
          <5>3. /\ a \o b \o e \o fol \in Seq(QItems)
                /\ Len(a \o b \o e \o fol) = Len(a) + (Len(b) + 1 + Len(fol))
            BY <5>1, Joins
          <5> QED
            BY <5>2, <5>3 DEF a, b, e
        <4> QED
          BY <2>11, <4>2
      <3>7. FairStep
        BY <1>1, <3>5, <3>6, ExtensionFair
      <3>8. /\ held' \in Seq(QItems) /\ Distinct(held')
            /\ ToSet(held') = ToSet(q.held) \ ToSet(fol)
            /\ Len(held') + Len(fol) = Len(q.held) /\ Len(held') \in Nat
        <4>1. /\ Without(q.held, fol) \in Seq(QItems) /\ Distinct(Without(q.held, fol))
              /\ ToSet(Without(q.held, fol)) = ToSet(q.held) \ ToSet(fol)
          BY <2>4, WithoutItems
        <4>2. Distinct(fol)
          BY <3>1, RisingDistinct
        <4>3. Len(Without(q.held, fol)) + Len(fol) = Len(q.held)
          BY <2>4, <3>1, <4>2, WithoutLength
        <4> QED
          BY <2>11, <4>1, <4>3
      <3>9. \A x \in ToSet(held') : Session(x) = Last(qSeen') /\ SeqNum(x) >= qNext'
        <4> TAKE x \in ToSet(held')
        <4>1. /\ x \in ToSet(q.held) \ ToSet(fol) /\ x # it /\ x \in QItems /\ SeqNum(x) \in Nat
              /\ Session(x) = Last(q.seen) /\ SeqNum(x) >= q.next
          BY <2>4, <2>8, <2>9, <3>8, ItemsDiffer
        <4>2. SeqNum(x) # q.next
          BY <2>7, <2>11, <4>1, ItemsDiffer
        <4>3. SeqNum(x) >= q.next + 1
          BY <2>4, <4>1, <4>2
        <4> QED
          BY <2>2, <2>11, <3>1, <4>1, <4>3
      <3>10. HeldIs(qSeen', qNext', held')
        BY <3>8, <3>9 DEF HeldIs
      <3>11. Len(held') + Len(qOut') <= QCap
        BY <2>15, <3>3, <3>6, <3>8
      <3>12. ToSet(held') \subseteq offered' /\ offered' \subseteq QItems
        BY <1>1, <2>4, <3>8
      <3>13. qNext' \in Nat \ {0}
        BY <2>4, <2>11, <3>3
      <3>14. QueueInv'
        BY <2>2, <2>4, <2>11, <3>6, <3>10, <3>11, <3>12, <3>13, InvFrom
      <3> QED
        BY <3>7, <3>14
    <2>12. CASE /\ ~(SeqNum(it) = 0 \/ Before(q.seen, it, next))
                /\ it # next
                /\ held' = Append(q.held, it)
                /\ qTimer' = IF q.timer = NoItem THEN it ELSE q.timer
                /\ qOut' = qOut \o q.out /\ qNext' = q.next
      <3>1. Session(it) = Last(q.seen) /\ SeqNum(it) >= q.next
        <4>1. ~(Age(q.seen, Session(it)) < Age(q.seen, Last(q.seen)))
              /\ (Session(it) = Last(q.seen) => ~(SeqNum(it) < q.next))
          BY <2>7, <2>12 DEF Before
        <4>2. Age(q.seen, Session(it)) = Len(q.seen)
          BY <2>6, <4>1
        <4>3. Session(it) = Last(q.seen)
          BY <2>6, <4>2
        <4> QED
          BY <2>4, <2>7, <4>1, <4>3
      <3> DEFINE h == q.held
                 l == Len(q.held)
      <3>2. /\ held' \in Seq(QItems) /\ Len(held') = l + 1 /\ l \in Nat /\ held'[l + 1] = it
            /\ \A i \in 1 .. l : held'[i] = h[i]
        BY <2>4, <2>12
      <3>3. \A i \in 1 .. l : h[i] \in ToSet(q.held) /\ h[i] # it
        BY <2>4, <2>9, MembersOf
      <3>4. ToSet(held') = ToSet(q.held) \cup {it}
        <4>1. /\ ToSet(held') = {held'[i] : i \in 1 .. Len(held')}
              /\ ToSet(q.held) = {h[i] : i \in 1 .. l}
          <5>1. held' \in Seq(QItems) /\ h \in Seq(QItems)
            BY <2>4, <3>2
          <5> HIDE DEF h
          <5> QED
            BY <5>1, MembersOf DEF h
        <4>2. /\ \A i \in 1 .. l + 1 : i \in 1 .. l \/ i = l + 1
              /\ \A i \in 1 .. l : i \in 1 .. l + 1
              /\ l + 1 \in 1 .. l + 1
          BY <3>2
        <4> HIDE DEF l, h
        <4> QED
          BY <3>2, <4>1, <4>2
      <3>5. Distinct(held')
        <4>1. \A i, j \in 1 .. l : h[i] = h[j] => i = j
          BY <2>4 DEF Distinct
        <4>2. \A i \in 1 .. l + 1 : i \in 1 .. l \/ i = l + 1
          BY <3>2
        <4> HIDE DEF l, h
        <4> QED
          BY <3>2, <3>3, <4>1, <4>2 DEF Distinct
      <3>6. HeldIs(qSeen', qNext', held')
        BY <2>2, <2>8, <2>12, <3>1, <3>2, <3>4, <3>5 DEF HeldIs
      <3>7. FairOut(held, q.out)
        <4>1. \A x \in ToSet(held) \ ToSet(q.out), i \in 1 .. Len(q.out) :
                 SeqNum(q.out[i]) < SeqNum(x)
          <5>1. CASE q.out = << >>
            <6>1. Len(q.out) = 0 /\ \A i : ~(i \in 1 .. 0)
              BY <5>1, NothingIn
            <6> QED
              BY <6>1
          <5> QED
            BY <2>5, <5>1
        <4> QED
          BY <1>1, <2>4, <4>1, FrontFair
      <3>8. qOut' = qOut \o q.out /\ qOut' \in Seq(QItems) /\ Len(qOut') = Len(qOut) + Len(q.out)
        BY <2>12, <2>14
      <3>9. FairStep
        BY <1>1, <2>4, <3>7, <3>8, ExtensionFair
      <3>10. Len(held') + Len(qOut') <= QCap
        BY <2>15, <3>2, <3>8
      <3>11. ToSet(held') \subseteq offered' /\ offered' \subseteq QItems
        BY <1>1, <2>4, <3>4
      <3>12. qTimer' \in QItems \cup {NoItem}
        BY <2>4, <2>12
      <3>13. QueueInv'
        BY <2>2, <2>4, <2>12, <3>6, <3>8, <3>10, <3>11, <3>12, InvFrom
      <3> QED
        BY <3>9, <3>13
    <2> QED
      BY <2>3, <2>10, <2>11, <2>12
  <1> QED
    BY <1>2, <1>3

(* A timeout lets the front of what is held go, in order.                  *)
LEMMA OnTimeoutKeeps ==
    ASSUME QueueInv, OnTimeout
    PROVE  QueueInv' /\ FairStep
  <1>1. /\ SeenIs(qSeen) /\ HeldIs(qSeen, qNext, held) /\ (held # << >> => qSeen # << >>)
        /\ qNext \in Nat \ {0} /\ qOut \in Seq(QItems) /\ held \in Seq(QItems) /\ Distinct(held)
        /\ ToSet(held) \subseteq offered /\ offered \subseteq QItems
        /\ Len(held) + Len(qOut) <= QCap /\ Len(held) \in Nat /\ Len(qOut) \in Nat
        /\ QCap \in Nat
    BY ReorderQueueAssumption DEF QueueInv, QueueTypeOK, HeldIs, NeverBlocks
  <1> DEFINE t == Sorted(qSeen, held)
  <1>2. /\ t \in Seq(QItems) /\ Len(t) = Len(held) /\ ToSet(t) = ToSet(held) /\ Rising(t)
        /\ DOMAIN t = 1 .. Len(held)
    BY SortedHeld
  <1> HIDE DEF t
  <1>3. PICK k \in 0 .. Len(held) :
          LET expired == {i \in DOMAIN t : \E j \in 1 .. k : t[i] = held[j]}
              out == SubSeq(t, 1, IF expired = {} THEN 0
                                  ELSE CHOOSE i \in expired : \A j \in expired : j <= i)
              stay == Without(held, out)
              last == {SeqNum(out[i]) + 1 : i \in {j \in DOMAIN out :
                           Session(out[j]) = Last(qSeen) /\ SeqNum(out[j]) >= qNext}}
          IN  /\ qOut' = qOut \o out
              /\ held' = stay
              /\ qNext' = IF last = {} THEN qNext
                          ELSE CHOOSE n \in last : \A m \in last : m <= n
              /\ qTimer' = IF stay = << >> THEN NoItem ELSE Head(stay)
    BY DEF OnTimeout, t
  <1> DEFINE expired == {i \in DOMAIN t : \E j \in 1 .. k : t[i] = held[j]}
             n == IF expired = {} THEN 0 ELSE CHOOSE i \in expired : \A j \in expired : j <= i
             out == SubSeq(t, 1, n)
             stay == Without(held, out)
             last == {SeqNum(out[i]) + 1 : i \in {j \in DOMAIN out :
                          Session(out[j]) = Last(qSeen) /\ SeqNum(out[j]) >= qNext}}
  <1>4. /\ qOut' = qOut \o out /\ held' = stay
        /\ qNext' = IF last = {} THEN qNext ELSE CHOOSE m \in last : \A j \in last : j <= m
        /\ qTimer' = IF stay = << >> THEN NoItem ELSE Head(stay)
    BY <1>3
  <1>5. n \in 0 .. Len(t)
    <2>1. expired \in SUBSET Nat /\ \A i \in expired : i <= Len(t) /\ i \in 1 .. Len(t)
      BY <1>1, <1>2
    <2> HIDE DEF expired
    <2>2. CASE expired = {}
      BY <1>1, <1>2, <2>2
    <2>3. CASE expired # {}
      <3>1. \E i \in expired : \A j \in expired : j <= i
        BY <1>1, <1>2, <2>1, <2>3, GreatestNumber
      <3>2. n \in expired
        BY <2>3, <3>1
      <3> HIDE DEF n
      <3>3. n \in Nat /\ n <= Len(t)
        BY <2>1, <3>2
      <3> QED
        BY <3>3
    <2> QED
      BY <2>2, <2>3
  <1> HIDE DEF n
  <1>6. /\ out \in Seq(QItems) /\ Len(out) = n /\ Rising(out) /\ ToSet(out) \subseteq ToSet(held)
        /\ \A x \in ToSet(held) \ ToSet(out), i \in 1 .. n : SeqNum(out[i]) < SeqNum(x)
    BY <1>2, <1>5, FrontItems
  <1> HIDE DEF out
  <1>7. /\ stay \in Seq(QItems) /\ Distinct(stay) /\ ToSet(stay) = ToSet(held) \ ToSet(out)
        /\ Len(stay) + Len(out) = Len(held)
    <2>1. Distinct(out)
      BY <1>6, RisingDistinct
    <2> QED
      BY <1>1, <1>6, <2>1, WithoutItems, WithoutLength
  <1> HIDE DEF stay
  <1>8. \A x \in ToSet(held) : Session(x) = Last(qSeen) /\ SeqNum(x) >= qNext /\ SeqNum(x) \in Nat
    <2>1. \A x \in ToSet(held) : x \in QItems
      BY <1>1
    <2> QED
      BY <1>1, <2>1, ItemsDiffer DEF HeldIs
  <1>9. qNext' \in Nat \ {0} /\ \A x \in ToSet(stay) : SeqNum(x) >= qNext'
    <2>1. last = {SeqNum(out[i]) + 1 : i \in 1 .. n}
      <3>1. DOMAIN out = 1 .. n /\ \A i \in 1 .. n : out[i] \in ToSet(held)
        BY <1>6, MembersOf
      <3> QED
        BY <1>8, <3>1
    <2>2. \A i \in 1 .. n : SeqNum(out[i]) \in Nat /\ out[i] \in QItems
      BY <1>6, ItemsDiffer
    <2> HIDE DEF last
    <2>3. CASE last = {}
      BY <1>1, <1>4, <1>7, <1>8, <2>3
    <2>4. CASE last # {}
      <3>1. \E m \in last : \A j \in last : j <= m
        <4>1. n \in 1 .. n
          BY <1>2, <1>5, <2>1, <2>4
        <4>2. \A i \in 1 .. n : i = n \/ i < n
          BY <1>2, <1>5
        <4>3. \A i \in 1 .. n : SeqNum(out[i]) + 1 <= SeqNum(out[n]) + 1
          BY <1>6, <2>2, <4>1, <4>2 DEF Rising
        <4>4. SeqNum(out[n]) + 1 \in last /\ \A j \in last : j <= SeqNum(out[n]) + 1
          BY <2>1, <4>1, <4>3
        <4> QED
          BY <4>4
      <3>2. qNext' \in last
        BY <1>4, <2>4, <3>1
      <3>3. PICK i \in 1 .. n : qNext' = SeqNum(out[i]) + 1
        BY <2>1, <3>2
      <3>4. ASSUME NEW x \in ToSet(stay) PROVE SeqNum(x) >= SeqNum(out[i]) + 1
        <4>1. x \in ToSet(held) \ ToSet(out)
          BY <1>7
        <4>2. SeqNum(out[i]) < SeqNum(x) /\ SeqNum(x) \in Nat /\ SeqNum(out[i]) \in Nat
          BY <1>6, <1>8, <2>2, <4>1
        <4> QED
          BY <4>2
      <3> QED
        BY <2>2, <3>3, <3>4
    <2> QED
      BY <2>3, <2>4
  <1> HIDE DEF last
  <1>10. qSeen' = qSeen /\ offered' = offered
    BY DEF OnTimeout
  <1>11. HeldIs(qSeen', qNext', held') /\ SeenIs(qSeen')
    BY <1>1, <1>4, <1>7, <1>8, <1>9, <1>10 DEF HeldIs
  <1>12. held' # << >> => qSeen' # << >>
    <2>1. held = << >> => ToSet(stay) = {}
      BY <1>7, NothingIn
    <2>2. stay # << >> => ToSet(stay) # {}
      BY <1>7, LastIn
    <2> QED
      BY <1>1, <1>4, <1>10, <2>1, <2>2
  <1>13. qTimer' \in QItems \cup {NoItem}
    BY <1>4, <1>7, HeadTailProperties
  <1>14. qOut' \in Seq(QItems) /\ Len(qOut') = Len(qOut) + Len(out)
    BY <1>1, <1>4, <1>6, ConcatProperties
  <1>15. Len(held') + Len(qOut') <= QCap
    <2>1. Len(stay) \in Nat /\ Len(out) \in Nat
      BY <1>6, <1>7
    <2>2. ASSUME NEW s \in Nat, NEW u \in Nat, NEW h \in Nat, NEW o \in Nat, NEW cap \in Nat,
                 s + u = h, h + o <= cap
          PROVE  s + (o + u) <= cap
      BY <2>2
    <2>3. Len(stay) + (Len(qOut) + Len(out)) <= QCap
      BY <1>1, <1>7, <2>1, <2>2
    <2> QED
      BY <1>4, <1>14, <2>3
  <1>16. QueueInv'
    <2>1. ToSet(held') \subseteq offered' /\ offered' \subseteq QItems
      BY <1>1, <1>4, <1>7, <1>10
    <2>2. qNext' \in Nat \ {0}
      BY <1>9
    <2> QED
      BY <1>11, <1>12, <1>13, <1>14, <1>15, <2>1, <2>2, InvFrom
  <1>17. FairStep
    <2>1. FairOut(held, out)
      BY <1>1, <1>6, FrontFair
    <2> QED
      BY <1>1, <1>4, <1>6, <2>1, ExtensionFair
  <1> QED
    BY <1>16, <1>17

LEMMA TakeItemKeeps ==
    ASSUME QueueInv, TakeItem
    PROVE  QueueInv' /\ FairStep
  <1>1. /\ qOut \in Seq(QItems) /\ qOut # << >> /\ qOut' = Tail(qOut)
        /\ UNCHANGED <<qSeen, qNext, held, qTimer, offered>>
    BY DEF QueueInv, TakeItem
  <1>2. qOut' \in Seq(QItems) /\ Len(qOut') <= Len(qOut) /\ Len(qOut') \in Nat /\ Len(qOut) \in Nat
    BY <1>1, HeadTailProperties, EmptySeq
  <1>3. FairStep
    BY <1>1, <1>2, StillFair
  <1>4. Len(held') + Len(qOut') <= QCap
    <2>1. Len(held) \in Nat /\ QCap \in Nat /\ Len(held) + Len(qOut) <= QCap
      BY ReorderQueueAssumption DEF QueueInv, HeldIs, NeverBlocks
    <2> QED
      BY <1>1, <1>2, <2>1
  <1>5. QueueInv'
    <2>1. /\ SeenIs(qSeen') /\ HeldIs(qSeen', qNext', held') /\ (held' # << >> => qSeen' # << >>)
          /\ qNext' \in Nat \ {0} /\ qTimer' \in QItems \cup {NoItem}
          /\ ToSet(held') \subseteq offered' /\ offered' \subseteq QItems
      BY <1>1 DEF QueueInv, QueueTypeOK, SeenIs, HeldIs
    <2> QED
      BY <1>2, <1>4, <2>1, InvFrom
  <1> QED
    BY <1>3, <1>5

-----------------------------------------------------------------------------
(* The queue keeps its invariant.                                          *)
LEMMA QueueInvariant == QueueSpec => []QueueInv
  <1>1. QueueInit => QueueInv
    <2> SUFFICES ASSUME QueueInit PROVE QueueInv
      OBVIOUS
    <2>1. /\ qSeen = << >> /\ qNext = 1 /\ held = << >> /\ qOut = << >>
          /\ qTimer = NoItem /\ offered = {}
      BY DEF QueueInit
    <2>2. \A A : << >> \in Seq(A) /\ Len(<< >>) = 0 /\ ToSet(<< >>) = {} /\ Distinct(<< >>)
      BY NothingIn
    <2>3. QueueTypeOK
      BY <2>1, <2>2 DEF QueueTypeOK
    <2>4. SeenIs(qSeen) /\ HeldIs(qSeen, qNext, held)
      BY <2>1, <2>2 DEF SeenIs, HeldIs
    <2>5. NeverBlocks
      BY <2>1, <2>2, ReorderQueueAssumption DEF NeverBlocks
    <2> QED
      BY <2>1, <2>2, <2>3, <2>4, <2>5 DEF QueueInv
  <1>2. QueueInv /\ [QueueNext]_queueVars => QueueInv'
    <2> SUFFICES ASSUME QueueInv, [QueueNext]_queueVars PROVE QueueInv'
      OBVIOUS
    <2>1. CASE UNCHANGED queueVars
      BY <2>1 DEF queueVars, QueueInv, QueueTypeOK, SeenIs, HeldIs, NeverBlocks
    <2>2. CASE QueueNext
      BY <2>2, QueueItemKeeps, OnTimeoutKeeps, TakeItemKeeps DEF QueueNext
    <2> QED
      BY <2>1, <2>2
  <1> QED
    BY <1>1, <1>2, PTL DEF QueueSpec

(* The sessions seen, the items held and sent, the timer keep their types. *)
THEOREM QueueTypes == QueueSpec => []QueueTypeOK
  <1>1. QueueInv => QueueTypeOK
    BY DEF QueueInv
  <1> QED
    BY <1>1, QueueInvariant, PTL

(* No flush waits for room in q.outCh while q.lock is held, for any inputs *)
(* and any capacity: the check that QueueItem makes at its start is enough *)
(* for all that it, the next session and the timeouts put in the channel.  *)
THEOREM FlushNeverBlocks == QueueSpec => []NeverBlocks
  <1>1. QueueInv => NeverBlocks
    BY DEF QueueInv
  <1> QED
    BY <1>1, QueueInvariant, PTL

(* No item that the queue has is overtaken by a later one of its session,  *)
(* neither when it is flushed with others nor while it stays.              *)
THEOREM ItemsInOrder == QueueSpec => NoOvertaking
  <1>1. QueueInv /\ [QueueNext]_queueVars => [FairStep]_queueVars
    BY QueueItemKeeps, OnTimeoutKeeps, TakeItemKeeps DEF QueueNext
  <1>2. QueueSpec => [][FairStep]_queueVars
    BY <1>1, QueueInvariant, PTL DEF QueueSpec
  <1> QED
    BY <1>2, PTL DEF NoOvertaking, FairStep
=============================================================================
