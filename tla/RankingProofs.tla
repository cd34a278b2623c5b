---------------------------- MODULE RankingProofs ----------------------------
(***************************************************************************)
(* Proofs about the rules of Points, for every pull request, and about     *)
(* what the page and the API of Ranking show, for every list of them.      *)
(***************************************************************************)
EXTENDS Ranking, FiniteSetTheorems, SequenceTheorems, TLAPS

LEMMA ThreadPointsRange ==
    ASSUME NEW pr \in Pr
    PROVE  ThreadPoints(pr) \in -10..80
  BY DEF Pr, ThreadPoints, If

LEMMA OwnPointsRange ==
    ASSUME NEW pr \in Pr, NEW username, NEW now \in Int
    PROVE  OwnPoints(pr, username, now) \in -10..131
<1>1. pr.reviewers \in Nat /\ pr.updated \in Int
  BY DEF Pr
<1>2. If(pr.reviewStatus = "APPROVED", 100)
        + If(pr.reviewStatus = "CHANGES_REQUESTED", 50) \in {0, 50, 100}
  BY DEF If
<1>3. If(pr.lastCommenter # NoOne /\ pr.lastCommenter # username, 10) \in {0, 10}
  BY DEF If
<1>4. /\ If(pr.isDraft, 10) \in {0, 10}
      /\ If(pr.reviewers = 0, 10) \in {0, 10}
      /\ If(pr.updated < now - 14, 11) \in {0, 11}
  BY DEF If
<1> QED BY <1>2, <1>3, <1>4 DEF OwnPoints, If

LEMMA OtherPointsRange ==
    ASSUME NEW pr \in Pr, NEW now \in Int
    PROVE  OtherPoints(pr, now) \in -170..0
<1>1. /\ If(pr.isDraft, IF pr.updated < now - 5 THEN 70 ELSE 10) \in {0, 10, 70}
      /\ If(pr.reviewStatus = "APPROVED", 100)
           + If(pr.reviewStatus = "CHANGES_REQUESTED", 100) \in {0, 100}
  BY DEF If
<1> QED BY <1>1 DEF OtherPoints, If

LEMMA SizePointsRange ==
    ASSUME NEW n \in Nat
    PROVE  SizePoints(n) \in 10..50
  BY DEF SizePoints

(* The points of a pull request that is not buried have both bounds, in    *)
(* every combination of the rules.                                         *)
THEOREM PointsAreBounded ==
    ASSUME NEW pr \in Pr, NEW username, NEW now \in Int
    PROVE  UnburiedPoints(pr, username, now) \in LeastPoints..MostPoints
<1>1. pr.changed \in Nat
  BY DEF Pr
<1>2. CASE pr.author = username
  BY <1>2, ThreadPointsRange, OwnPointsRange
  DEF UnburiedPoints, LeastPoints, MostPoints
<1>3. CASE pr.author # username
  <2> DEFINE total == ThreadPoints(pr) + OtherPoints(pr, now)
  <2>1. total \in -180..80
    BY ThreadPointsRange, OtherPointsRange
  <2>2. SizePoints(pr.changed) \in 10..50
    BY <1>1, SizePointsRange
  <2>3. UnburiedPoints(pr, username, now)
          = IF total = 0 THEN SizePoints(pr.changed) ELSE total
    BY <1>3 DEF UnburiedPoints
  <2> HIDE DEF total
  <2> QED BY <2>1, <2>2, <2>3 DEF LeastPoints, MostPoints
<1> QED BY <1>2, <1>3

(* No combination of inputs negates the effect of burying, whatever the    *)
(* two pull requests and whoever looks: points.go asks for this test.      *)
THEOREM BuriedRanksBelow ==
    ASSUME NEW p \in Pr, NEW q \in Pr, NEW username, NEW now \in Int,
           p.buried, ~q.buried
    PROVE  Better(q, p, username, now) /\ ~Better(p, q, username, now)
<1> DEFINE a == UnburiedPoints(p, username, now)
           b == UnburiedPoints(q, username, now)
<1>1. a \in -180..211 /\ b \in -180..211
  BY PointsAreBounded DEF LeastPoints, MostPoints
<1>2. StandardPrPoints(p, username, now) = a - 1000
  BY DEF StandardPrPoints, If
<1>3. StandardPrPoints(q, username, now) = b
  BY <1>1 DEF StandardPrPoints, If
<1>4. /\ Better(q, p, username, now)
         <=> b > a - 1000 \/ (b = a - 1000 /\ p.updated < q.updated)
      /\ Better(p, q, username, now)
         <=> a - 1000 > b \/ (a - 1000 = b /\ q.updated < p.updated)
  BY <1>2, <1>3 DEF Better
<1> HIDE DEF a, b
<1>5. b > a - 1000 /\ ~(a - 1000 > b) /\ a - 1000 # b
  BY <1>1
<1> QED BY <1>4, <1>5, Zenon

LEMMA PointsAreNumbers ==
    ASSUME NEW pr \in Pr, NEW username, NEW now \in Int
    PROVE  StandardPrPoints(pr, username, now) \in Int
<1>1. UnburiedPoints(pr, username, now) \in -180..211
  BY PointsAreBounded DEF LeastPoints, MostPoints
<1> QED BY <1>1 DEF StandardPrPoints, If

(* The page's less is a strict weak order, which is what sort.Slice needs  *)
(* to sort at all: neither less nor "as good as" ever runs in a circle.    *)
THEOREM BetterIsStrictWeakOrder ==
    ASSUME NEW p \in Pr, NEW q \in Pr, NEW r \in Pr,
           NEW username, NEW now \in Int
    PROVE  /\ ~Better(p, p, username, now)
           /\ Better(p, q, username, now) /\ Better(q, r, username, now)
                => Better(p, r, username, now)
           /\ ~Better(p, q, username, now) /\ ~Better(q, r, username, now)
                => ~Better(p, r, username, now)
<1> DEFINE points(pr) == StandardPrPoints(pr, username, now)
<1>1. points(p) \in Int /\ points(q) \in Int /\ points(r) \in Int
  BY PointsAreNumbers
<1>2. p.updated \in Int /\ q.updated \in Int /\ r.updated \in Int
  BY DEF Pr
<1>3. \A a, b \in Pr : Better(a, b, username, now) <=>
         points(a) > points(b) \/ (points(a) = points(b) /\ b.updated < a.updated)
  BY DEF Better
<1> HIDE DEF points
<1> QED BY <1>1, <1>2, <1>3

----------------------------------------------------------------------------
(* The loops over lists.  Induction is by way of a set of numbers, since   *)
(* the theorems of NaturalsInduction are about operators.                  *)

LEMMA NumbersFromZero ==
    ASSUME NEW S, S \subseteq Nat, 0 \in S, \A n \in S : n + 1 \in S
    PROVE  S = Nat
<1> SUFFICES ASSUME Nat \ S # {} PROVE FALSE
  OBVIOUS
<1>1. PICK x \in Nat \ S : \A y \in Nat \ S : ~(<<y, x>> \in OpToRel(<, Nat))
  BY NatLessThanWellFounded, WFMin
<1>2. \A y \in Nat \ S : ~(y < x)
  BY <1>1 DEF OpToRel
<1>3. x # 0 /\ x - 1 \in Nat /\ x - 1 < x /\ x = (x - 1) + 1
  OBVIOUS
<1> QED BY <1>2, <1>3

(* One round of the loop of Kept, after the rounds before it. *)
KeptBy(f, prs, positions, k) ==
    IF k = 0 THEN <<>>
    ELSE IF k \in positions THEN Append(f[k - 1], prs[k]) ELSE f[k - 1]

(* The function Kept chooses exists: the loop comes to its end.            *)
LEMMA KeptIsALoop ==
    ASSUME NEW prs, NEW positions, Len(prs) \in Nat
    PROVE  \E f : /\ Kept(prs, positions) = f[Len(prs)]
                  /\ \A k \in 0..Len(prs) : f[k] = KeptBy(f, prs, positions, k)
<1> DEFINE Run(n, f) == f = [k \in 0..n |-> KeptBy(f, prs, positions, k)]
           N == {n \in Nat : \E f : Run(n, f)}
<1>1. 0 \in N
  <2>1. Run(0, [k \in 0..0 |-> <<>>])
    BY DEF KeptBy
  <2> QED BY <2>1
<1>2. ASSUME NEW n \in N PROVE n + 1 \in N
  <2>1. n \in Nat
    OBVIOUS
  <2>2. PICK f : Run(n, f)
    OBVIOUS
  <2> DEFINE g == [k \in 0..(n + 1) |->
                     IF k <= n THEN f[k] ELSE KeptBy(f, prs, positions, n + 1)]
  <2>3. \A k \in 0..n : f[k] = KeptBy(f, prs, positions, k)
    BY <2>2
  <2>4. \A k \in 0..(n + 1) :
           KeptBy(f, prs, positions, k) = KeptBy(g, prs, positions, k)
    BY <2>1 DEF KeptBy
  <2>5. \A k \in 0..(n + 1) : g[k] = KeptBy(g, prs, positions, k)
    <3> TAKE k \in 0..(n + 1)
    <3>1. CASE k \in 0..n
      BY <2>3, <2>4, <3>1
    <3>2. CASE k = n + 1
      BY <2>1, <2>4, <3>2
    <3> QED BY <2>1, <3>1, <3>2
  <2>6. g = [k \in 0..(n + 1) |-> g[k]]
    OBVIOUS
  <2> HIDE DEF g
  <2>7. Run(n + 1, g)
    BY <2>5, <2>6
  <2> QED BY <2>1, <2>7
<1>3. Len(prs) \in N
  <2> HIDE DEF N
  <2>1. N \subseteq Nat
    BY DEF N
  <2> QED BY <1>1, <1>2, <2>1, NumbersFromZero
<1> DEFINE F == CHOOSE f : Run(Len(prs), f)
<1>4. \E f : Run(Len(prs), f)
  BY <1>3
<1>5. Run(Len(prs), F)
  <2> HIDE DEF Run
  <2> QED BY <1>4
<1>6. Kept(prs, positions) = F[Len(prs)]
  BY DEF Kept, KeptBy
<1>7. \A k \in 0..Len(prs) : F[k] = KeptBy(F, prs, positions, k)
  BY <1>5
<1> HIDE DEF F
<1> QED BY <1>6, <1>7

LEMMA AppendTimes ==
    ASSUME NEW S, NEW list \in Seq(S), NEW x \in S, NEW e
    PROVE  /\ Times(e, list) \in Nat
           /\ Times(e, Append(list, x)) = Times(e, list) + (IF x = e THEN 1 ELSE 0)
<1> DEFINE longer == Append(list, x)
           n == Len(list)
           at == {k \in DOMAIN list : list[k] = e}
           atLonger == {k \in DOMAIN longer : longer[k] = e}
<1>1. n \in Nat /\ DOMAIN list = 1..n
  BY LenProperties
<1>2. /\ longer \in Seq(S) /\ Len(longer) = n + 1
      /\ \A k \in 1..n : longer[k] = list[k]
      /\ longer[n + 1] = x
  BY AppendProperties
<1>3. DOMAIN longer = 1..(n + 1)
  BY <1>2, LenProperties
<1> HIDE DEF longer, n
<1>4. IsFiniteSet(at) /\ n + 1 \notin at
  <2>1. IsFiniteSet(1..n) /\ at \subseteq 1..n
    BY <1>1, FS_Interval
  <2> QED BY <1>1, <2>1, FS_Subset
<1>5. atLonger = IF x = e THEN at \cup {n + 1} ELSE at
  <2>1. 1..(n + 1) = (1..n) \cup {n + 1}
    BY <1>1
  <2>2. \A k \in 1..n : k # n + 1
    BY <1>1
  <2> QED BY <1>1, <1>2, <1>3, <2>1, <2>2
<1> HIDE DEF at, atLonger
<1>6. Cardinality(at) \in Nat /\ Cardinality(at \cup {n + 1}) = Cardinality(at) + 1
  BY <1>4, FS_CardinalityType, FS_AddElement
<1>7. Times(e, list) = Cardinality(at) /\ Times(e, longer) = Cardinality(atLonger)
  BY DEF Times, at, atLonger
<1> QED BY <1>5, <1>6, <1>7 DEF longer

(* The loop keeps as many elements as there are positions to keep, and     *)
(* only what stands at one of them.                                        *)
LEMMA KeptElements ==
    ASSUME NEW S, NEW prs \in Seq(S), NEW positions
    PROVE  /\ Kept(prs, positions) \in Seq(S)
           /\ Len(Kept(prs, positions))
                = Cardinality({k \in 1..Len(prs) : k \in positions})
           /\ Len(Kept(prs, positions)) <= Len(prs)
           /\ \A a \in 1..Len(Kept(prs, positions)) :
                 \E k \in 1..Len(prs) :
                    k \in positions /\ Kept(prs, positions)[a] = prs[k]
<1> DEFINE n == Len(prs)
           Upto(k) == {l \in 1..k : l \in positions}
           Right(s, k) ==
               /\ s \in Seq(S) /\ Len(s) = Cardinality(Upto(k)) /\ Len(s) <= k
               /\ \A a \in 1..Len(s) : \E l \in 1..k : l \in positions /\ s[a] = prs[l]
<1>1. n \in Nat
  BY LenProperties
<1>2. PICK f : /\ Kept(prs, positions) = f[n]
               /\ \A k \in 0..n : f[k] = KeptBy(f, prs, positions, k)
  BY <1>1, KeptIsALoop
<1> DEFINE N == {k \in Nat : k <= n => Right(f[k], k)}
<1>3. 0 \in N
  <2>1. f[0] = <<>> /\ Upto(0) = {}
    BY <1>1, <1>2 DEF KeptBy
  <2>2. <<>> \in Seq(S) /\ Len(<<>>) = 0
    BY EmptySeq
  <2>3. Right(f[0], 0)
    <3>1. Cardinality(Upto(0)) = 0
      BY <2>1, FS_EmptySet
    <3> HIDE DEF Upto
    <3> QED BY <2>1, <2>2, <3>1
  <2> QED BY <2>3
<1>4. ASSUME NEW k \in N PROVE k + 1 \in N
  <2>1. k \in Nat
    OBVIOUS
  <2> SUFFICES ASSUME k + 1 <= n PROVE Right(f[k + 1], k + 1)
    BY <2>1
  <2>2. Right(f[k], k)
    BY <1>1, <2>1
  <2>3. f[k + 1] = IF k + 1 \in positions THEN Append(f[k], prs[k + 1]) ELSE f[k]
    BY <1>1, <1>2, <2>1 DEF KeptBy
  <2>4. IsFiniteSet(Upto(k)) /\ k + 1 \notin Upto(k)
    <3>1. IsFiniteSet(1..k)
      BY <2>1, FS_Interval
    <3>2. Upto(k) \subseteq 1..k
      OBVIOUS
    <3> QED BY <2>1, <3>1, <3>2, FS_Subset
  <2>5. CASE k + 1 \in positions
    <3>1. Upto(k + 1) = Upto(k) \cup {k + 1}
      BY <2>1, <2>5
    <3>2. Cardinality(Upto(k + 1)) = Cardinality(Upto(k)) + 1
      <4> HIDE DEF Upto
      <4> QED BY <2>4, <3>1, FS_AddElement
    <3>3. prs[k + 1] \in S
      BY <1>1, <2>1, ElementOfSeq
    <3>4. f[k + 1] = Append(f[k], prs[k + 1])
      BY <2>3, <2>5
    <3>5. /\ f[k + 1] \in Seq(S) /\ Len(f[k + 1]) = Len(f[k]) + 1
          /\ \A a \in 1..Len(f[k]) : f[k + 1][a] = f[k][a]
          /\ f[k + 1][Len(f[k]) + 1] = prs[k + 1]
      <4>1. f[k] \in Seq(S)
        BY <2>2
      <4> QED BY <3>3, <3>4, <4>1, AppendProperties
    <3>6. Len(f[k]) \in Nat
      <4>1. f[k] \in Seq(S)
        BY <2>2
      <4> QED BY <4>1, LenProperties
    <3>7. ASSUME NEW a \in 1..Len(f[k + 1])
          PROVE  \E l \in 1..(k + 1) : l \in positions /\ f[k + 1][a] = prs[l]
      <4>1. CASE a = Len(f[k]) + 1
        BY <2>1, <2>5, <3>5, <4>1
      <4>2. CASE a # Len(f[k]) + 1
        <5>1. a \in 1..Len(f[k])
          BY <3>5, <3>6, <4>2
        <5> QED BY <2>1, <2>2, <3>5, <5>1
      <4> QED BY <4>1, <4>2
    <3>8. Len(f[k + 1]) = Cardinality(Upto(k + 1)) /\ Len(f[k + 1]) <= k + 1
      <4>1. Len(f[k]) = Cardinality(Upto(k)) /\ Len(f[k]) <= k
        BY <2>2
      <4> HIDE DEF Upto
      <4> QED BY <2>1, <3>2, <3>5, <3>6, <4>1
    <3> QED BY <3>5, <3>7, <3>8
  <2>6. CASE k + 1 \notin positions
    <3>1. Upto(k + 1) = Upto(k) /\ f[k + 1] = f[k]
      BY <2>1, <2>3, <2>6
    <3>2. /\ f[k] \in Seq(S) /\ Len(f[k]) = Cardinality(Upto(k)) /\ Len(f[k]) <= k
          /\ \A a \in 1..Len(f[k]) :
                \E l \in 1..k : l \in positions /\ f[k][a] = prs[l]
      BY <2>2
    <3>3. Len(f[k]) \in Nat
      BY <3>2, LenProperties
    <3>4. \A a \in 1..Len(f[k]) :
             \E l \in 1..(k + 1) : l \in positions /\ f[k][a] = prs[l]
      <4>1. 1..k \subseteq 1..(k + 1)
        BY <2>1
      <4> QED BY <3>2, <4>1, Zenon
    <3> HIDE DEF Upto
    <3> QED BY <2>1, <3>1, <3>2, <3>3, <3>4
  <2> QED BY <2>5, <2>6
<1>5. n \in N
  <2> HIDE DEF N
  <2>1. N \subseteq Nat
    BY DEF N
  <2> QED BY <1>1, <1>3, <1>4, <2>1, NumbersFromZero
<1>6. Right(f[n], n)
  BY <1>1, <1>5
<1> QED BY <1>2, <1>6

(* It keeps every element as often as a position to keep has it.           *)
LEMMA KeptTimes ==
    ASSUME NEW S, NEW prs \in Seq(S), NEW positions, NEW e
    PROVE  Times(e, Kept(prs, positions))
             = Cardinality({k \in 1..Len(prs) : k \in positions /\ prs[k] = e})
<1> DEFINE n == Len(prs)
           Upto(k) == {l \in 1..k : l \in positions /\ prs[l] = e}
<1>1. n \in Nat
  BY LenProperties
<1>2. PICK f : /\ Kept(prs, positions) = f[n]
               /\ \A k \in 0..n : f[k] = KeptBy(f, prs, positions, k)
  BY <1>1, KeptIsALoop
<1> DEFINE N == {k \in Nat : k <= n =>
                    f[k] \in Seq(S) /\ Times(e, f[k]) = Cardinality(Upto(k))}
<1>3. 0 \in N
  <2>1. f[0] = <<>> /\ Upto(0) = {} /\ <<>> \in Seq(S)
    BY <1>1, <1>2, EmptySeq DEF KeptBy
  <2>2. {k \in DOMAIN <<>> : <<>>[k] = e} = {}
    BY EmptySeq
  <2> HIDE DEF Upto
  <2> QED BY <2>1, <2>2 DEF Times
<1>4. ASSUME NEW k \in N PROVE k + 1 \in N
  <2>1. k \in Nat
    OBVIOUS
  <2> SUFFICES ASSUME k + 1 <= n
               PROVE  f[k + 1] \in Seq(S) /\ Times(e, f[k + 1]) = Cardinality(Upto(k + 1))
    BY <2>1
  <2>2. f[k] \in Seq(S) /\ Times(e, f[k]) = Cardinality(Upto(k))
    BY <1>1, <2>1
  <2>3. f[k + 1] = IF k + 1 \in positions THEN Append(f[k], prs[k + 1]) ELSE f[k]
    BY <1>1, <1>2, <2>1 DEF KeptBy
  <2>4. prs[k + 1] \in S
    BY <1>1, <2>1, ElementOfSeq
  <2>5. Upto(k + 1) = IF k + 1 \in positions /\ prs[k + 1] = e
                      THEN Upto(k) \cup {k + 1} ELSE Upto(k)
    <3>1. 1..(k + 1) = (1..k) \cup {k + 1}
      BY <2>1
    <3> QED BY <3>1, Zenon
  <2>6. IsFiniteSet(Upto(k)) /\ k + 1 \notin Upto(k)
    <3>1. IsFiniteSet(1..k)
      BY <2>1, FS_Interval
    <3>2. Upto(k) \subseteq 1..k
      OBVIOUS
    <3> QED BY <2>1, <3>1, <3>2, FS_Subset
  <2> HIDE DEF Upto, n, N
  <2>7. Cardinality(Upto(k) \cup {k + 1}) = Cardinality(Upto(k)) + 1
    BY <2>6, FS_AddElement
  <2>8. /\ Append(f[k], prs[k + 1]) \in Seq(S) /\ Times(e, f[k]) \in Nat
        /\ Times(e, Append(f[k], prs[k + 1]))
             = Times(e, f[k]) + (IF prs[k + 1] = e THEN 1 ELSE 0)
    BY <2>2, <2>4, AppendTimes, AppendProperties
  <2>9. CASE k + 1 \in positions
    BY <2>2, <2>3, <2>5, <2>7, <2>8, <2>9
  <2>10. CASE k + 1 \notin positions
    BY <2>2, <2>3, <2>5, <2>10
  <2> QED BY <2>9, <2>10
<1>5. n \in N
  <2> HIDE DEF N
  <2>1. N \subseteq Nat
    BY DEF N
  <2> QED BY <1>1, <1>3, <1>4, <2>1, NumbersFromZero
<1> QED BY <1>1, <1>2, <1>5

(* Swapping two elements of a list leaves every element as often in it.    *)
LEMMA SwapKeepsTimes ==
    ASSUME NEW S, NEW list \in Seq(S), NEW e,
           NEW a \in 1..Len(list), NEW b \in 1..Len(list)
    PROVE  Times(e, [list EXCEPT ![a] = list[b], ![b] = list[a]]) = Times(e, list)
<1> DEFINE swapped == [list EXCEPT ![a] = list[b], ![b] = list[a]]
           before == {k \in DOMAIN list : list[k] = e}
           after == {k \in DOMAIN swapped : swapped[k] = e}
           f == [k \in before |-> IF k = a THEN b ELSE IF k = b THEN a ELSE k]
<1>1. DOMAIN list = 1..Len(list) /\ Len(list) \in Nat
  BY LenProperties
<1>2. /\ DOMAIN swapped = 1..Len(list)
      /\ \A k \in 1..Len(list) :
            swapped[k] = IF k = b THEN list[a] ELSE IF k = a THEN list[b] ELSE list[k]
  BY <1>1
<1>3. IsFiniteSet(before)
  <2>1. IsFiniteSet(1..Len(list)) /\ before \subseteq 1..Len(list)
    BY <1>1, FS_Interval
  <2> QED BY <2>1, FS_Subset
<1>4. f \in [before -> after]
  BY <1>1, <1>2
<1>5. \A k, l \in before : f[k] = f[l] => k = l
  OBVIOUS
<1>6. ASSUME NEW l \in after PROVE \E k \in before : f[k] = l
  <2>1. (IF l = a THEN b ELSE IF l = b THEN a ELSE l) \in before
    BY <1>1, <1>2
  <2> QED BY <2>1
<1>7. ExistsBijection(before, after)
  <2> HIDE DEF before, after, f
  <2>1. f \in Bijection(before, after)
    BY <1>4, <1>5, <1>6 DEF Bijection, Injection, IsInjective, Surjection
  <2> QED BY <2>1 DEF ExistsBijection
<1>8. Cardinality(after) = Cardinality(before)
  <2> HIDE DEF before, after
  <2> QED BY <1>3, <1>7, FS_Bijection
<1> QED BY <1>8 DEF Times

----------------------------------------------------------------------------
(* What a step of Ranking does, whichever pull requests GitHub answers.    *)
RankStep ==
    \/ \E prs \in Seq(Pr) : Len(prs) <= MaxPrs /\ Store(prs)
    \/ GetPage \/ (\E n \in MinPoints : GetPrs(n))
    \/ SwapDown \/ NextElement \/ Show
    \/ UNCHANGED rankVars

LEMMA SamplesAreLists ==
    ASSUME NEW prs \in BoundedSeq(Samples, MaxPrs)
    PROVE  prs \in Seq(Pr) /\ Len(prs) <= MaxPrs
<1>1. PICK n \in 0..MaxPrs : prs \in [1..n -> Samples]
  BY MaxPrsAssumption DEF BoundedSeq, SeqOf
<1>2. prs \in [1..n -> Pr] /\ n \in Nat
  BY <1>1, SamplesAssumption
<1> QED BY <1>1, <1>2

LEMMA StepsOfRanking == [Next]_rankVars => RankStep
  BY SamplesAreLists DEF Next, RankStep, Done

LEMMA StoredIsPr == ASSUME NEW pr \in Pr PROVE Stored(pr) \in Pr
  BY DEF Stored, Pr

(* What the list that is being sorted has to do with the rows: the page    *)
(* has them all, the API those with enough points, each as often.          *)
Worthy == {k \in 1..Len(stored) : Total(stored[k]) >= minimum}

ListInv ==
    /\ TypeOK
    /\ Len(stored) <= MaxPrs /\ j <= i
    /\ phase = "empty" => stored = <<>>
    /\ by = "nothing" <=> phase \in {"empty", "stored"}
    /\ by = "nothing" => ranked = <<>>
    /\ by = "page" => /\ Len(ranked) = Len(stored)
                      /\ \A pr \in Pr : Times(pr, ranked) = Times(pr, stored)
    /\ by = "api" => /\ Len(ranked) = Cardinality(Worthy)
                     /\ Len(ranked) <= Len(stored)
                     /\ \A a \in 1..Len(ranked) : Total(ranked[a]) >= minimum
                     /\ \A pr \in Pr : Times(pr, ranked)
                          = IF Total(pr) >= minimum THEN Times(pr, stored) ELSE 0

(* A step that only moves elements, if any. *)
SameTimes ==
    /\ UNCHANGED <<stored, minimum, by>>
    /\ \A pr : Times(pr, ranked)' = Times(pr, ranked) /\ Times(pr, stored)' = Times(pr, stored)

LEMMA TimesStay ==
    ASSUME ListInv, SameTimes
    PROVE  /\ (by = "page" => \A pr \in Pr : Times(pr, ranked) = Times(pr, stored))'
           /\ (by = "api" => \A pr \in Pr : Times(pr, ranked)
                  = IF Total(pr) >= minimum THEN Times(pr, stored) ELSE 0)'
<1>1. by' = by /\ minimum' = minimum /\ \A pr : Total(pr)' = Total(pr)
  BY DEF SameTimes, Total
<1>2. /\ by = "page" => \A pr \in Pr : Times(pr, ranked) = Times(pr, stored)
      /\ by = "api" => \A pr \in Pr : Times(pr, ranked)
            = IF Total(pr) >= minimum THEN Times(pr, stored) ELSE 0
  BY DEF ListInv
<1> QED BY <1>1, <1>2 DEF SameTimes

LEMMA ListInit == Init => ListInv
  BY EmptySeq, MaxPrsAssumption DEF Init, ListInv, TypeOK, DefaultMinimum

LEMMA ListStores ==
    ASSUME ListInv, NEW prs \in Seq(Pr), Len(prs) <= MaxPrs, Store(prs)
    PROVE  ListInv'
<1>1. stored' = [k \in 1..Len(prs) |-> Stored(prs[k])] /\ Len(prs) \in Nat
  BY LenProperties DEF Store
<1>2. stored' \in Seq(Pr) /\ Len(stored') = Len(prs)
  <2>1. \A k \in 1..Len(prs) : Stored(prs[k]) \in Pr
    BY StoredIsPr, ElementOfSeq
  <2> QED BY <1>1, <2>1
<1>3. /\ phase = "empty" /\ phase' = "stored" /\ fetched' = prs
      /\ UNCHANGED <<ranked, minimum, by, i, j>>
  BY DEF Store
<1> QED BY <1>2, <1>3 DEF ListInv, TypeOK

LEMMA ListStartsPage ==
    ASSUME ListInv, GetPage
    PROVE  ListInv'
<1>1. /\ phase = "stored" /\ phase' = "sorting" /\ by' = "page" /\ ranked' = stored
      /\ i' = 2 /\ j' = 2 /\ UNCHANGED <<fetched, stored, minimum>>
  BY DEF GetPage, StartSort
<1> QED BY <1>1, MaxPrsAssumption DEF ListInv, TypeOK

LEMMA ListStartsApi ==
    ASSUME ListInv, NEW n \in MinPoints, GetPrs(n)
    PROVE  ListInv'
<1> DEFINE positions == {k \in DOMAIN stored : Total(stored[k]) >= ParsedMinimum(n)}
<1>1. /\ phase = "stored" /\ phase' = "sorting" /\ by' = "api"
      /\ ranked' = Kept(stored, positions) /\ minimum' = ParsedMinimum(n)
      /\ i' = 2 /\ j' = 2 /\ UNCHANGED <<fetched, stored>>
  BY DEF GetPrs, StartSort
<1>2. stored \in Seq(Pr) /\ DOMAIN stored = 1..Len(stored)
  BY LenProperties DEF ListInv, TypeOK
<1>3. ParsedMinimum(n) \in -999..999
  BY MinPointsAssumption DEF ParsedMinimum, DefaultMinimum
<1>4. {k \in 1..Len(stored) : k \in positions} = Worthy'
  BY <1>1, <1>2 DEF Worthy
<1>5. \A k \in positions : Total(stored[k]) >= ParsedMinimum(n)
  OBVIOUS
<1> HIDE DEF positions
<1>6. /\ ranked' \in Seq(Pr) /\ Len(ranked') <= Len(stored)
      /\ Len(ranked') = Cardinality(Worthy')
      /\ \A a \in 1..Len(ranked') : \E k \in positions : ranked'[a] = stored[k]
  BY <1>1, <1>2, <1>4, KeptElements
<1>7. \A a \in 1..Len(ranked') : Total(ranked'[a]) >= minimum'
  BY <1>1, <1>5, <1>6
<1>8. \A a \in 1..Len(ranked') : Total(ranked[a])' >= minimum'
  BY <1>7 DEF Total
<1>9. ASSUME NEW pr \in Pr
      PROVE  Times(pr, ranked)'
               = (IF Total(pr) >= minimum THEN Times(pr, stored) ELSE 0)'
  <2> DEFINE at == {k \in 1..Len(stored) : k \in positions /\ stored[k] = pr}
  <2>1. Times(pr, ranked') = Cardinality(at)
    BY <1>1, <1>2, KeptTimes
  <2>2. at = IF Total(pr) >= minimum'
             THEN {k \in DOMAIN stored : stored[k] = pr} ELSE {}
    BY <1>1, <1>2 DEF positions
  <2>3. Cardinality({}) = 0
    BY FS_EmptySet
  <2> HIDE DEF at
  <2>4. Times(pr, ranked') = IF Total(pr) >= minimum' THEN Times(pr, stored) ELSE 0
    BY <2>1, <2>2, <2>3 DEF Times
  <2> QED BY <1>1, <2>4 DEF Times, Total
<1> QED BY <1>1, <1>3, <1>6, <1>8, <1>9, MaxPrsAssumption DEF ListInv, TypeOK

LEMMA ListSwaps ==
    ASSUME ListInv, SwapDown
    PROVE  ListInv'
<1>1. /\ phase = "sorting" /\ i <= Len(ranked) /\ j > 1
      /\ ranked' = [ranked EXCEPT ![j] = ranked[j - 1], ![j - 1] = ranked[j]]
      /\ j' = j - 1
      /\ UNCHANGED <<fetched, stored, minimum, phase, by, i>>
  BY DEF SwapDown, MustSwap
<1>2. /\ ranked \in Seq(Pr) /\ stored \in Seq(Pr) /\ j \in Int /\ i \in Int /\ j <= i
      /\ Len(ranked) \in Nat
  BY LenProperties DEF ListInv, TypeOK
<1>3. j \in 1..Len(ranked) /\ j - 1 \in 1..Len(ranked)
  BY <1>1, <1>2
<1>4. ranked' \in Seq(Pr) /\ Len(ranked') = Len(ranked)
  BY <1>1, <1>2, <1>3
<1>5. \A pr : Times(pr, ranked') = Times(pr, ranked)
  BY <1>1, <1>2, <1>3, SwapKeepsTimes
<1>6. \A a \in 1..Len(ranked) :
         \E b \in 1..Len(ranked) : ranked'[a] = ranked[b]
  BY <1>1, <1>2, <1>3
<1>7. by = "api" => \A a \in 1..Len(ranked') : Total(ranked[a])' >= minimum'
  BY <1>1, <1>4, <1>6 DEF ListInv, Total
<1>8. SameTimes
  BY <1>1, <1>5 DEF SameTimes, Times
<1>9. Worthy' = Worthy
  BY <1>1 DEF Worthy, Total
<1>10. j' \in 1..(MaxPrs + 1) /\ j' <= i'
  <2>1. j \in 1..(MaxPrs + 1) /\ MaxPrs \in Nat
    BY MaxPrsAssumption DEF ListInv, TypeOK
  <2>2. j' = j - 1 /\ i' = i /\ j > 1
    BY <1>1
  <2> QED BY <1>2, <2>1, <2>2
<1> QED BY <1>1, <1>4, <1>7, <1>8, <1>9, <1>10, TimesStay DEF ListInv, TypeOK

LEMMA ListStep == ListInv /\ RankStep => ListInv'
<1> SUFFICES ASSUME ListInv, RankStep PROVE ListInv'
  OBVIOUS
<1>1. CASE NextElement
  <2>1. /\ i <= Len(ranked) /\ i' = i + 1 /\ j' = i + 1 /\ phase = "sorting"
        /\ UNCHANGED <<fetched, stored, minimum, ranked, phase, by>>
    BY <1>1 DEF NextElement
  <2>2. /\ i \in Int /\ i >= 1 /\ Len(stored) <= MaxPrs
        /\ Len(stored) \in Nat /\ Len(ranked) \in Nat
    BY LenProperties DEF ListInv, TypeOK
  <2>3. by = "page" \/ by = "api"
    BY <2>1 DEF ListInv, TypeOK
  <2>4. Len(ranked) <= Len(stored)
    BY <2>2, <2>3 DEF ListInv
  <2>5. i' \in 1..(MaxPrs + 1) /\ j' \in 1..(MaxPrs + 1) /\ j' <= i'
    BY <2>1, <2>2, <2>4, MaxPrsAssumption
  <2>6. SameTimes
    BY <2>1 DEF SameTimes, Times
  <2> QED BY <2>1, <2>5, <2>6, TimesStay DEF ListInv, TypeOK, Worthy, Total
<1>2. CASE Show \/ UNCHANGED rankVars
  <2>1. /\ UNCHANGED <<fetched, stored, minimum, ranked, by, i, j>>
        /\ phase' = phase \/ (phase = "sorting" /\ phase' = "shown")
    BY <1>2 DEF Show, rankVars
  <2>2. Worthy' = Worthy /\ \A a : Total(ranked[a])' = Total(ranked[a])
    BY <2>1 DEF Worthy, Total
  <2>3. SameTimes
    BY <2>1 DEF SameTimes, Times
  <2>4. TypeOK'
    BY <2>1 DEF ListInv, TypeOK
  <2> QED BY <2>1, <2>2, <2>3, <2>4, TimesStay DEF ListInv
<1> QED BY <1>1, <1>2, ListStores, ListStartsPage, ListStartsApi, ListSwaps
        DEF RankStep

----------------------------------------------------------------------------
(* The page: an insertion sort with a strict weak order. *)

Sorting == phase = "sorting" /\ by = "page"

(* No element up to i has a better one behind it, but for the one that is  *)
(* being moved to its place, which is at j.                                *)
Inserted ==
    \A a, b \in 1..Len(ranked) :
        a < b /\ b <= i /\ b # j => ~Better(ranked[b], ranked[a], User, Now)

PageInv ==
    /\ stored \in Seq(Pr)
    /\ i \in Nat /\ j \in 1..i
    /\ by = "page" => ranked \in Seq(Pr)
    /\ Sorting => Inserted /\ (i > Len(ranked) => j = i)
    /\ Shown("page") => InOrder(ranked)
    /\ phase \in {"empty", "stored"} => by = "nothing"

LEMMA PageInit == Init => PageInv
  BY DEF Init, PageInv, Sorting, Shown

LEMMA PageStores ==
    ASSUME PageInv, NEW prs \in Seq(Pr), Store(prs)
    PROVE  PageInv'
<1>1. stored' \in Seq(Pr)
  <2>1. stored' = [k \in 1..Len(prs) |-> Stored(prs[k])] /\ Len(prs) \in Nat
    BY DEF Store
  <2>2. \A k \in 1..Len(prs) : Stored(prs[k]) \in Pr
    BY StoredIsPr
  <2> QED BY <2>1, <2>2
<1>2. phase = "empty" /\ phase' = "stored" /\ UNCHANGED <<ranked, minimum, by, i, j>>
  BY DEF Store
<1> QED BY <1>1, <1>2 DEF PageInv, Sorting, Shown

LEMMA PageStarts ==
    ASSUME PageInv, GetPage \/ \E n \in MinPoints : GetPrs(n)
    PROVE  PageInv'
<1>1. i' = 2 /\ j' = 2 /\ phase' = "sorting" /\ stored' = stored
  BY DEF GetPage, GetPrs, StartSort
<1>2. \/ by' = "api" \/ (by' = "page" /\ ranked' = stored)
  BY DEF GetPage, GetPrs, StartSort
<1>3. by' = "page" => Inserted'
  BY <1>1, <1>2 DEF Inserted, PageInv
<1> QED BY <1>1, <1>2, <1>3 DEF PageInv, Sorting, Shown

(* What a better element jumps over is not better than it, nor better than *)
(* what it already was behind.                                             *)
LEMMA PageSwaps ==
    ASSUME PageInv, SwapDown
    PROVE  PageInv'
<1>1. /\ phase = "sorting" /\ i <= Len(ranked) /\ j > 1 /\ Less(j, j - 1)
      /\ ranked' = [ranked EXCEPT ![j] = ranked[j - 1], ![j - 1] = ranked[j]]
      /\ j' = j - 1
      /\ UNCHANGED <<stored, phase, by, i>>
  BY DEF SwapDown, MustSwap
<1>2. i \in Nat /\ j \in 1..i /\ j' \in 1..i
  BY <1>1 DEF PageInv
<1>3. CASE by # "page"
  BY <1>1, <1>2, <1>3 DEF PageInv, Sorting, Shown
<1>4. CASE by = "page"
  <2>1. ranked \in Seq(Pr) /\ Inserted
    BY <1>1, <1>4 DEF PageInv, Sorting
  <2>2. j \in 1..Len(ranked) /\ j - 1 \in 1..Len(ranked) /\ Len(ranked) \in Nat
    BY <1>1, <1>2, <2>1
  <2>3. Better(ranked[j], ranked[j - 1], User, Now)
    BY <1>1, <1>4 DEF Less
  <2>4. ranked' \in Seq(Pr) /\ Len(ranked') = Len(ranked)
    BY <1>1, <2>1, <2>2
  <2>5. /\ ranked'[j] = ranked[j - 1] /\ ranked'[j - 1] = ranked[j]
        /\ \A a \in 1..Len(ranked) : a # j /\ a # j - 1 => ranked'[a] = ranked[a]
    BY <1>1, <2>1, <2>2
  <2>6. \A a \in 1..Len(ranked) : ranked[a] \in Pr
    BY <2>1
  <2>7. ~Better(ranked[j - 1], ranked[j], User, Now)
    BY <2>2, <2>3, <2>6, UserAssumption, BetterIsStrictWeakOrder
  <2>8. ASSUME NEW a \in 1..Len(ranked), NEW b \in 1..Len(ranked),
               a < b, b <= i, b # j - 1
        PROVE  ~Better(ranked'[b], ranked'[a], User, Now)
    <3>1. CASE b = j
      <4>1. CASE a = j - 1
        BY <2>5, <2>7, <3>1, <4>1
      <4>2. CASE a # j - 1
        <5>1. ranked'[b] = ranked[j - 1] /\ ranked'[a] = ranked[a] /\ a < j - 1
          BY <2>5, <2>8, <3>1, <4>2, <1>2
        <5>2. j - 1 <= i /\ j - 1 # j
          BY <1>2
        <5> QED BY <2>1, <2>2, <5>1, <5>2 DEF Inserted
      <4> QED BY <4>1, <4>2
    <3>2. CASE b # j
      <4>1. ranked'[b] = ranked[b]
        BY <2>5, <2>8, <3>2
      <4>2. \/ a = j /\ ranked'[a] = ranked[j - 1] /\ j - 1 < b
            \/ a = j - 1 /\ ranked'[a] = ranked[j] /\ j < b
            \/ ranked'[a] = ranked[a]
        BY <1>2, <2>5, <2>8, <3>2
      <4> QED BY <2>1, <2>2, <2>8, <3>2, <4>1, <4>2 DEF Inserted
    <3> QED BY <3>1, <3>2
  <2>9. Inserted'
    BY <1>1, <2>4, <2>8 DEF Inserted
  <2> QED BY <1>1, <1>2, <1>4, <2>4, <2>9 DEF PageInv, Sorting, Shown
<1> QED BY <1>3, <1>4

(* What is in its place is in order with all before it. *)
LEMMA InItsPlace ==
    ASSUME PageInv, Sorting, i <= Len(ranked), ~MustSwap
    PROVE  \A a, b \in 1..Len(ranked) :
              a < b /\ b <= i => ~Better(ranked[b], ranked[a], User, Now)
<1> SUFFICES ASSUME NEW a \in 1..Len(ranked), NEW b \in 1..Len(ranked), a < b, b <= i
             PROVE  ~Better(ranked[b], ranked[a], User, Now)
  OBVIOUS
<1>1. ranked \in Seq(Pr) /\ Inserted /\ i \in Nat /\ j \in 1..i
  BY DEF PageInv, Sorting
<1>2. CASE b # j
  BY <1>1, <1>2 DEF Inserted
<1>3. CASE b = j
  <2>1. j > 1 /\ j - 1 \in 1..Len(ranked) /\ j - 1 <= i /\ j - 1 # j
    BY <1>1, <1>3
  <2>2. ~Better(ranked[j], ranked[j - 1], User, Now)
    BY <2>1 DEF MustSwap, Less, Sorting
  <2>3. a = j - 1 \/ a < j - 1
    BY <1>1, <1>3
  <2>4. CASE a < j - 1
    <3>1. ~Better(ranked[j - 1], ranked[a], User, Now)
      BY <1>1, <2>1, <2>4 DEF Inserted
    <3>2. ranked[a] \in Pr /\ ranked[j] \in Pr /\ ranked[j - 1] \in Pr
      BY <1>1, <1>3, <2>1
    <3> QED BY <1>3, <2>2, <3>1, <3>2, UserAssumption, BetterIsStrictWeakOrder
  <2> QED BY <1>3, <2>2, <2>3, <2>4
<1> QED BY <1>2, <1>3

LEMMA PageMovesOn ==
    ASSUME PageInv, NextElement \/ Show
    PROVE  PageInv'
<1>1. CASE NextElement
  <2>1. /\ phase = "sorting" /\ i <= Len(ranked) /\ ~MustSwap
        /\ i' = i + 1 /\ j' = i + 1
        /\ UNCHANGED <<stored, ranked, phase, by>>
    BY <1>1 DEF NextElement
  <2>2. by = "page" => Inserted'
    <3> SUFFICES ASSUME by = "page" PROVE Inserted'
      OBVIOUS
    <3>1. \A a, b \in 1..Len(ranked) :
             a < b /\ b <= i => ~Better(ranked[b], ranked[a], User, Now)
      BY <2>1, InItsPlace DEF Sorting
    <3>2. \A b \in 1..Len(ranked) : b <= i + 1 /\ b # i + 1 => b <= i
      BY DEF PageInv
    <3> QED BY <2>1, <3>1, <3>2 DEF Inserted
  <2>3. i' \in Nat /\ j' \in 1..i'
    BY <2>1 DEF PageInv
  <2> QED BY <2>1, <2>2, <2>3 DEF PageInv, Sorting, Shown
<1>2. CASE Show
  <2>1. /\ phase = "sorting" /\ i > Len(ranked) /\ phase' = "shown"
        /\ UNCHANGED <<stored, ranked, by, i, j>>
    BY <1>2 DEF Show
  <2>2. by = "page" => InOrder(ranked)
    <3> SUFFICES ASSUME by = "page", NEW a \in 1..Len(ranked), NEW b \in 1..Len(ranked),
                        a < b
                 PROVE  ~Better(ranked[b], ranked[a], User, Now)
      BY DEF InOrder
    <3>1. Inserted /\ j = i /\ i \in Nat /\ ranked \in Seq(Pr)
      BY <2>1 DEF PageInv, Sorting
    <3>2. b <= i /\ b # j
      BY <2>1, <3>1
    <3> QED BY <3>1, <3>2 DEF Inserted
  <2> QED BY <2>1, <2>2 DEF PageInv, Sorting, Shown, InOrder
<1> QED BY <1>1, <1>2

LEMMA PageStep == PageInv /\ RankStep => PageInv'
<1> SUFFICES ASSUME PageInv, RankStep PROVE PageInv'
  OBVIOUS
<1>1. CASE UNCHANGED rankVars
  BY <1>1 DEF rankVars, PageInv, Sorting, Shown, Inserted, InOrder
<1> QED BY <1>1, PageStores, PageStarts, PageSwaps, PageMovesOn DEF RankStep

RankInv == ListInv /\ PageInv

LEMMA RankInvariant == Spec => []RankInv
<1>1. Init => RankInv
  BY ListInit, PageInit DEF RankInv
<1>2. RankInv /\ [Next]_rankVars => RankInv'
  BY StepsOfRanking, ListStep, PageStep DEF RankInv
<1> QED BY <1>1, <1>2, PTL DEF Spec

LEMMA RankTypes == RankInv => TypeOK
  BY DEF RankInv, ListInv

LEMMA RankedOnPage == RankInv => PageIsRanked
<1> SUFFICES ASSUME RankInv, Shown("page") PROVE PageIsRanked
  BY DEF PageIsRanked
<1>1. /\ InOrder(ranked) /\ Len(ranked) = Len(stored) /\ stored \in Seq(Pr)
      /\ \A pr \in Pr : Times(pr, ranked) = Times(pr, stored)
  BY DEF RankInv, PageInv, ListInv, Shown
<1>2. ToSet(stored) \subseteq Pr
  BY <1>1, LenProperties, ElementOfSeq DEF ToSet
<1> QED BY <1>1, <1>2 DEF PageIsRanked

LEMMA BuriedAtBottom == RankInv => BuriedAtTheBottom
<1> SUFFICES ASSUME RankInv, Shown("page"),
                    NEW a \in 1..Len(ranked), NEW b \in 1..Len(ranked),
                    a < b, ranked[a].buried, ~ranked[b].buried
             PROVE  FALSE
  BY DEF BuriedAtTheBottom
<1>1. ranked \in Seq(Pr) /\ InOrder(ranked)
  BY DEF RankInv, PageInv, Shown
<1>2. ranked[a] \in Pr /\ ranked[b] \in Pr
  BY <1>1
<1>3. Better(ranked[b], ranked[a], User, Now)
  BY <1>2, UserAssumption, BuriedRanksBelow
<1> QED BY <1>1, <1>3 DEF InOrder

LEMMA BuriedNotCounted == RankInv => BuriedIsNotCounted
<1> SUFFICES ASSUME RankInv, Shown("api"), minimum > MostPoints - BuriedPenalty,
                    NEW a \in 1..Len(ranked), ranked[a].buried
             PROVE  FALSE
  BY DEF BuriedIsNotCounted
<1>1. /\ ranked \in Seq(Pr) /\ minimum \in Int
      /\ Total(ranked[a]) >= minimum
  BY DEF RankInv, ListInv, TypeOK, Shown
<1>2. ranked[a] \in Pr
  BY <1>1, ElementOfSeq
<1> DEFINE points == UnburiedPoints(ranked[a], User, Now)
<1>3. points \in LeastPoints..MostPoints
  BY <1>2, UserAssumption, PointsAreBounded
<1>4. Total(ranked[a]) = points - 1000
  BY DEF Total, StandardPrPoints, If
<1> HIDE DEF points
<1> QED BY <1>1, <1>3, <1>4 DEF LeastPoints, MostPoints, BuriedPenalty

LEMMA ApiHasAll == RankInv => ApiHasTheWorthy
<1> SUFFICES ASSUME RankInv, Shown("api") PROVE ApiHasTheWorthy
  BY DEF ApiHasTheWorthy
<1>1. /\ stored \in Seq(Pr) /\ ranked \in Seq(Pr)
      /\ \A pr \in Pr : Times(pr, ranked)
            = IF Total(pr) >= minimum THEN Times(pr, stored) ELSE 0
  BY DEF RankInv, ListInv, TypeOK, Shown
<1>2. ToSet(stored) \cup ToSet(ranked) \subseteq Pr
  BY <1>1, LenProperties, ElementOfSeq DEF ToSet
<1> QED BY <1>1, <1>2 DEF ApiHasTheWorthy

(* Lists, indices and the limit stay what they are taken for: the sort     *)
(* never reaches beyond the list, whatever is answered and asked for.      *)
THEOREM RankingIsTyped == Spec => []TypeOK
  BY RankInvariant, RankTypes, PTL

(* Every list of any pull requests, in any order of the rows, is shown by  *)
(* the page in order, with every pull request as often as it was stored.   *)
THEOREM PageRanksTheList == Spec => []PageIsRanked
  BY RankInvariant, RankedOnPage, PTL

(* On the page no combination of rules lifts a buried pull request above   *)
(* one that is not, whatever the list and its length.                      *)
THEOREM BuriedStayAtTheBottom == Spec => []BuriedAtTheBottom
  BY RankInvariant, BuriedAtBottom, PTL

(* No list and no limit above the most points a buried pull request can    *)
(* have lets one into the answer of the API.                               *)
THEOREM BuriedAreNotCounted == Spec => []BuriedIsNotCounted
  BY RankInvariant, BuriedNotCounted, PTL

(* Sorting by a list that is not the one sorted loses and repeats nothing: *)
(* the API has each pull request with enough points as often as the rows   *)
(* do, and no other, for every list and every limit.                       *)
THEOREM ApiListsTheWorthy == Spec => []ApiHasTheWorthy
  BY RankInvariant, ApiHasAll, PTL
=============================================================================
