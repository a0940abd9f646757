--------------------------- MODULE RankingProofs ---------------------------
(***************************************************************************)
(* What the operators of Ranking return, for every catalog, request and    *)
(* window: factors and scores are numbers, sorting keeps every target and  *)
(* is a sort, promotion moves one target, and dropping the constant        *)
(* factors changes no order.                                               *)
(***************************************************************************)
EXTENDS Ranking, SubsequenceProofs

-----------------------------------------------------------------------------
(* Sorting *)

\* Scores are numbers, given to targets.
AreScores(scores) ==
  DOMAIN scores \subseteq Targets /\ \A x \in DOMAIN scores : scores[x] \in Int

LEMMA TargetsFinite == IsFiniteSet(Targets)
<1>. DEFINE f == [i \in 1 .. Len(Catalog) |-> Target(Catalog[i])]
<1>1. Len(Catalog) \in Nat /\ DOMAIN Catalog = 1 .. Len(Catalog)
  BY CatalogAssumption
<1>2. Targets = {Target(Catalog[i]) : i \in 1 .. Len(Catalog)}
  BY <1>1 DEF Targets, ToSet
<1>3. f \in Surjection(1 .. Len(Catalog), Targets)
  BY <1>2 DEF Surjection
<1>4. IsFiniteSet(1 .. Len(Catalog))
  BY <1>1, FS_Interval
<1>. QED  BY <1>3, <1>4, FS_Surjection

LEMMA OrderIsTotal ==
  ASSUME NEW scores, AreScores(scores),
         NEW x \in DOMAIN scores, NEW y \in DOMAIN scores, NEW z \in DOMAIN scores
  PROVE  /\ ~Before(scores, x, x)
         /\ Before(scores, x, y) => ~Before(scores, y, x)
         /\ Before(scores, x, y) /\ Before(scores, y, z) => Before(scores, x, z)
         /\ x # y => Before(scores, x, y) \/ Before(scores, y, x)
<1>1. /\ scores[x] \in Int /\ scores[y] \in Int /\ scores[z] \in Int
      /\ Lexical[x] \in Int /\ Lexical[y] \in Int /\ Lexical[z] \in Int
      /\ Lexical[x] = Lexical[y] => x = y
  BY LexicalAssumption DEF AreScores
<1>. QED  BY <1>1 DEF Before

\* The more are ahead, the later the place, and one's own place is not ahead.
LEMMA AheadGrows ==
  ASSUME NEW scores, AreScores(scores),
         NEW x \in DOMAIN scores, NEW y \in DOMAIN scores
  PROVE  /\ IsFiniteSet(DOMAIN scores)
         /\ Cardinality(Ahead(scores, x)) \in 0 .. Cardinality(DOMAIN scores) - 1
         /\ Before(scores, x, y) =>
              Cardinality(Ahead(scores, x)) < Cardinality(Ahead(scores, y))
<1>1. IsFiniteSet(DOMAIN scores)
  BY TargetsFinite, FS_Subset DEF AreScores
<1>2. /\ IsFiniteSet(Ahead(scores, x)) /\ IsFiniteSet(Ahead(scores, y))
      /\ Ahead(scores, x) \subseteq DOMAIN scores
      /\ Ahead(scores, y) \subseteq DOMAIN scores
  BY <1>1, FS_Subset DEF Ahead
<1>3. /\ Cardinality(DOMAIN scores) \in Nat /\ Cardinality(Ahead(scores, x)) \in Nat
      /\ Cardinality(Ahead(scores, y)) \in Nat
  BY <1>1, <1>2, FS_CardinalityType
<1>4. x \in DOMAIN scores \ Ahead(scores, x)
  BY OrderIsTotal DEF Ahead
<1>5. Cardinality(Ahead(scores, x)) < Cardinality(DOMAIN scores)
  <2>1. /\ Cardinality(Ahead(scores, x)) <= Cardinality(DOMAIN scores)
        /\ Cardinality(DOMAIN scores) = Cardinality(Ahead(scores, x)) =>
             DOMAIN scores = Ahead(scores, x)
    BY <1>1, <1>2, FS_Subset
  <2>. QED  BY <1>3, <1>4, <2>1
<1>6. ASSUME Before(scores, x, y)
      PROVE  Cardinality(Ahead(scores, x)) < Cardinality(Ahead(scores, y))
  <2>1. Ahead(scores, x) \subseteq Ahead(scores, y)
    <3>1. ASSUME NEW w \in Ahead(scores, x) PROVE w \in Ahead(scores, y)
      BY <1>6, <3>1, OrderIsTotal DEF Ahead
    <3>. QED  BY <3>1
  <2>2. x \in Ahead(scores, y)
    BY <1>6 DEF Ahead
  <2>3. /\ Cardinality(Ahead(scores, x)) <= Cardinality(Ahead(scores, y))
        /\ Cardinality(Ahead(scores, y)) = Cardinality(Ahead(scores, x)) =>
             Ahead(scores, y) = Ahead(scores, x)
    BY <1>2, <2>1, FS_Subset
  <2>. QED  BY <1>3, <1>4, <2>2, <2>3
<1>. QED  BY <1>1, <1>3, <1>5, <1>6

\* Every place is taken.
LEMMA PlacesTaken ==
  ASSUME NEW scores, AreScores(scores), NEW i \in 1 .. Cardinality(DOMAIN scores)
  PROVE  \E x \in DOMAIN scores : Cardinality(Ahead(scores, x)) = i - 1
<1>. DEFINE D == DOMAIN scores
            n == Cardinality(D)
            place == [x \in D |-> Cardinality(Ahead(scores, x))]
<1>1. IsFiniteSet(D) /\ n \in Nat
  BY TargetsFinite, FS_Subset, FS_CardinalityType DEF AreScores
<1>2. place \in [D -> 0 .. n - 1]
  BY AheadGrows
<1>3. ASSUME NEW x \in D, NEW y \in D, x # y PROVE place[x] # place[y]
  <2>1. CASE Before(scores, x, y)
    BY <2>1, AheadGrows
  <2>2. CASE Before(scores, y, x)
    BY <2>2, AheadGrows
  <2>. QED  BY <1>3, <2>1, <2>2, OrderIsTotal
<1>4. place \in Injection(D, 0 .. n - 1)
  BY <1>2, <1>3 DEF Injection, IsInjective
<1>5. IsFiniteSet(0 .. n - 1) /\ Cardinality(0 .. n - 1) = n
  <2>. HIDE DEF n
  <2>1. 0 \in Int /\ n - 1 \in Int
    BY <1>1
  <2>2. /\ IsFiniteSet(0 .. n - 1)
        /\ Cardinality(0 .. n - 1) = IF 0 > n - 1 THEN 0 ELSE n - 1 - 0 + 1
    BY <2>1, FS_Interval
  <2>. QED  BY <1>1, <2>2
<1>6. place \in Surjection(D, 0 .. n - 1)
  <2>. HIDE DEF place
  <2>. QED  BY <1>4, <1>5, FS_Injection
<1>7. i - 1 \in 0 .. n - 1
  BY <1>1
<1>8. \E x \in D : place[x] = i - 1
  <2>. HIDE DEF place, n, D
  <2>. QED  BY <1>6, <1>7 DEF Surjection
<1>. QED  BY <1>8

\* Sorting keeps every target, names none twice and puts them in order.
LEMMA SortedIsOrder ==
  ASSUME NEW scores, AreScores(scores)
  PROVE  /\ Sorted(scores) \in Seq(DOMAIN scores)
         /\ Len(Sorted(scores)) = Cardinality(DOMAIN scores)
         /\ \A i, j \in 1 .. Len(Sorted(scores)) :
              i < j => Before(scores, Sorted(scores)[i], Sorted(scores)[j])
         /\ \A x \in DOMAIN scores : \E i \in 1 .. Len(Sorted(scores)) :
              Sorted(scores)[i] = x
<1>. DEFINE n == Cardinality(DOMAIN scores)
            s == Sorted(scores)
<1>1. n \in Nat
  BY TargetsFinite, FS_Subset, FS_CardinalityType DEF AreScores
<1>2. ASSUME NEW i \in 1 .. n
      PROVE  s[i] \in DOMAIN scores /\ Cardinality(Ahead(scores, s[i])) = i - 1
  BY PlacesTaken DEF Sorted
<1>3. s \in [1 .. n -> DOMAIN scores]
  BY <1>2 DEF Sorted
<1>4. s \in Seq(DOMAIN scores) /\ Len(s) = n
  <2>. HIDE DEF s, n
  <2>. QED  BY <1>1, <1>3
<1>5. ASSUME NEW i \in 1 .. n, NEW j \in 1 .. n, i < j PROVE Before(scores, s[i], s[j])
  <2>1. s[i] # s[j]
    BY <1>1, <1>2, <1>5
  <2>2. ~Before(scores, s[j], s[i])
    <3>1. SUFFICES ASSUME Before(scores, s[j], s[i]) PROVE FALSE
      OBVIOUS
    <3>2. Cardinality(Ahead(scores, s[j])) < Cardinality(Ahead(scores, s[i]))
      BY <1>2, <3>1, AheadGrows
    <3>. QED  BY <1>1, <1>2, <1>5, <3>2
  <2>. QED  BY <1>2, <2>1, <2>2, OrderIsTotal
<1>6. ASSUME NEW x \in DOMAIN scores PROVE \E i \in 1 .. n : s[i] = x
  <2>1. Cardinality(Ahead(scores, x)) \in 0 .. n - 1
    BY AheadGrows
  <2>2. PICK i \in 1 .. n : i - 1 = Cardinality(Ahead(scores, x))
    BY <1>1, <2>1
  <2>3. s[i] \in DOMAIN scores /\ Cardinality(Ahead(scores, s[i])) = Cardinality(Ahead(scores, x))
    BY <1>2, <2>2
  <2>4. ~Before(scores, x, s[i]) /\ ~Before(scores, s[i], x)
    BY <2>1, <2>3, AheadGrows
  <2>. QED  BY <2>3, <2>4, OrderIsTotal
<1>. QED  BY <1>4, <1>5, <1>6

-----------------------------------------------------------------------------
(* Promotion *)

\* Moving an element to the front keeps the sequence's elements, each as often.
LEMMA MovedIsPermuted ==
  ASSUME NEW S, NEW ranked \in Seq(S), NEW k \in 1 .. Len(ranked)
  PROVE  LET moved == MoveToFront(ranked, k) IN
         /\ moved \in Seq(S) /\ Len(moved) = Len(ranked)
         /\ ToSet(moved) = ToSet(ranked)
         /\ IsInjective(ranked) => IsInjective(moved)
<1>. DEFINE n == Len(ranked)
            moved == MoveToFront(ranked, k)
            from == [i \in 1 .. n |-> IF i = 1 THEN k ELSE IF i <= k THEN i - 1 ELSE i]
<1>1. n \in Nat /\ DOMAIN ranked = 1 .. n /\ k \in 1 .. n
  OBVIOUS
<1>2. from \in [1 .. n -> 1 .. n]
  BY <1>1
<1>3. \A i, j \in 1 .. n : from[i] = from[j] => i = j
  BY <1>1
<1>4. \A j \in 1 .. n : \E i \in 1 .. n : from[i] = j
  <2>1. SUFFICES ASSUME NEW j \in 1 .. n PROVE \E i \in 1 .. n : from[i] = j
    OBVIOUS
  <2>2. CASE j = k
    <3>1. from[1] = j /\ 1 \in 1 .. n
      BY <1>1, <2>2
    <3>. QED  BY <3>1
  <2>3. CASE j < k
    <3>1. from[j + 1] = j /\ j + 1 \in 1 .. n
      BY <1>1, <2>3
    <3>. QED  BY <3>1
  <2>4. CASE j > k
    <3>1. from[j] = j
      BY <1>1, <2>4
    <3>. QED  BY <3>1
  <2>. QED  BY <1>1, <2>2, <2>3, <2>4
<1>5. moved = [i \in 1 .. n |-> ranked[from[i]]]
  BY <1>1 DEF MoveToFront
<1>6. \A i \in 1 .. n : ranked[i] \in S
  BY <1>1
<1>7. moved \in [1 .. n -> S]
  <2>. HIDE DEF from, moved, n
  <2>. QED  BY <1>2, <1>5, <1>6
<1>8. moved \in Seq(S) /\ Len(moved) = n /\ DOMAIN moved = 1 .. n
  <2>. HIDE DEF moved, n
  <2>. QED  BY <1>1, <1>7
<1>9. ToSet(moved) = ToSet(ranked)
  <2>. HIDE DEF from, moved, n
  <2>. QED  BY <1>1, <1>2, <1>4, <1>5, <1>8 DEF ToSet
<1>10. IsInjective(ranked) => IsInjective(moved)
  <2>. HIDE DEF from, moved, n
  <2>. QED  BY <1>1, <1>2, <1>3, <1>5, <1>8 DEF IsInjective
<1>. QED  BY <1>8, <1>9, <1>10

\* What promotion does: it moves a remembered target within the band to the
\* front, or it found none and leaves the ranking alone.
LEMMA PromotionMovesOne ==
  ASSUME NEW ranked, NEW scores, NEW remembered
  PROVE  LET near(i) == ranked[i] \in remembered
                          /\ WithinBand(scores[ranked[i]], scores[ranked[1]])
         IN  \/ /\ Promote(ranked, scores, remembered) = ranked
                /\ \A i \in DOMAIN ranked : ~near(i)
             \/ \E k \in DOMAIN ranked :
                  near(k) /\ Promote(ranked, scores, remembered) = MoveToFront(ranked, k)
BY DEF Promote

LEMMA PromotedIsPermuted ==
  ASSUME NEW S, NEW ranked \in Seq(S), NEW scores, NEW remembered
  PROVE  LET final == Promote(ranked, scores, remembered) IN
         /\ final \in Seq(S) /\ Len(final) = Len(ranked)
         /\ ToSet(final) = ToSet(ranked)
         /\ IsInjective(ranked) => IsInjective(final)
<1>1. CASE Promote(ranked, scores, remembered) = ranked
  BY <1>1
<1>2. CASE \E k \in DOMAIN ranked :
             Promote(ranked, scores, remembered) = MoveToFront(ranked, k)
  BY <1>2, MovedIsPermuted
<1>. QED  BY <1>1, <1>2, PromotionMovesOne

\* The final ranking of some scores: each of their targets once, and no other.
LEMMA RankingNamesEachOnce ==
  ASSUME NEW scores, AreScores(scores), NEW remembered
  PROVE  LET final == Promote(Sorted(scores), scores, remembered) IN
         /\ final \in Seq(DOMAIN scores)
         /\ Len(final) = Cardinality(DOMAIN scores)
         /\ ToSet(final) = DOMAIN scores
         /\ IsInjective(final)
<1>. DEFINE s == Sorted(scores)
<1>1. /\ s \in Seq(DOMAIN scores) /\ DOMAIN s = 1 .. Len(s)
      /\ Len(s) = Cardinality(DOMAIN scores) /\ Len(s) \in Nat
      /\ \A i, j \in 1 .. Len(s) : i < j => Before(scores, s[i], s[j])
      /\ \A x \in DOMAIN scores : \E i \in 1 .. Len(s) : s[i] = x
  BY SortedIsOrder
<1>. HIDE DEF s
<1>2. ToSet(s) = DOMAIN scores
  <2>1. \A i \in 1 .. Len(s) : s[i] \in DOMAIN scores
    BY <1>1
  <2>2. ToSet(s) = {s[i] : i \in 1 .. Len(s)}
    BY <1>1 DEF ToSet
  <2>. QED  BY <1>1, <2>1, <2>2
<1>3. IsInjective(s)
  <2>1. ASSUME NEW i \in 1 .. Len(s), NEW j \in 1 .. Len(s), i # j PROVE s[i] # s[j]
    <3>1. s[i] \in DOMAIN scores /\ s[j] \in DOMAIN scores
      BY <1>1
    <3>2. ~Before(scores, s[i], s[i]) /\ ~Before(scores, s[j], s[j])
      BY <3>1, OrderIsTotal
    <3>3. i < j \/ j < i
      BY <2>1
    <3>. QED  BY <1>1, <3>2, <3>3
  <2>. QED  BY <1>1, <2>1 DEF IsInjective
<1>. QED  BY <1>1, <1>2, <1>3, PromotedIsPermuted DEF s

-----------------------------------------------------------------------------
(* Factors and scores *)

Attempts == [ok : BOOLEAN, latency : Nat]

LEMMA QuotientIsNumber ==
  ASSUME NEW m \in Int, NEW n \in Nat \ {0}
  PROVE  m \div n \in Int
OBVIOUS

LEMMA LatencyIsNumber ==
  ASSUME NEW attempts \in Seq(Attempts), NEW i \in DOMAIN attempts
  PROVE  attempts[i].latency \in Nat
<1>1. attempts[i] \in Attempts
  OBVIOUS
<1>. QED  BY <1>1 DEF Attempts

\* Among finitely many attempts one has the greatest latency.
LEMMA SlowestExists ==
  ASSUME NEW attempts \in Seq(Attempts), attempts # <<>>
  PROVE  \E k \in DOMAIN attempts : \A i \in DOMAIN attempts :
           attempts[i].latency <= attempts[k].latency
<1>. DEFINE D == DOMAIN attempts
            slower(k) == {i \in D : attempts[i].latency > attempts[k].latency}
            T == {Cardinality(slower(k)) : k \in D}
<1>1. D = 1 .. Len(attempts) /\ Len(attempts) \in Nat \ {0} /\ IsFiniteSet(D)
  <2>1. D = 1 .. Len(attempts) /\ Len(attempts) \in Nat \ {0}
    OBVIOUS
  <2>. QED  BY <2>1, FS_Interval
<1>2. \A i \in D : attempts[i].latency \in Nat
  BY LatencyIsNumber
<1>3. \A k \in D : IsFiniteSet(slower(k)) /\ Cardinality(slower(k)) \in Nat
  <2>1. SUFFICES ASSUME NEW k \in D
                 PROVE  IsFiniteSet(slower(k)) /\ Cardinality(slower(k)) \in Nat
    OBVIOUS
  <2>2. slower(k) \in SUBSET D
    OBVIOUS
  <2>. QED  BY <1>1, <2>2, FS_Subset, FS_CardinalityType
<1>4. T \in SUBSET Nat /\ T # {}
  <2>1. 1 \in D
    BY <1>1
  <2>. QED  BY <1>3, <2>1
<1>5. PICK n \in T : \A m \in T : n <= m
  <2>. HIDE DEF T
  <2>. QED  BY <1>4, LeastNumber
<1>6. PICK k \in D : n = Cardinality(slower(k))
  BY <1>5
<1>7. \A i \in D : ~(attempts[i].latency > attempts[k].latency)
  <2>1. SUFFICES ASSUME NEW i \in D, attempts[i].latency > attempts[k].latency
                 PROVE  FALSE
    OBVIOUS
  <2>2. slower(i) \subseteq slower(k) /\ i \in slower(k) /\ i \notin slower(i)
    BY <1>2, <2>1
  <2>3. /\ Cardinality(slower(i)) <= Cardinality(slower(k))
        /\ Cardinality(slower(k)) = Cardinality(slower(i)) => slower(k) = slower(i)
    <3>. HIDE DEF slower
    <3>. QED  BY <1>3, <2>2, FS_Subset
  <2>4. Cardinality(slower(k)) <= Cardinality(slower(i))
    BY <1>5, <1>6
  <2>. HIDE DEF slower
  <2>. QED  BY <1>3, <2>2, <2>3, <2>4
<1>8. \A i \in D : attempts[i].latency <= attempts[k].latency
  BY <1>2, <1>7
<1>. QED  BY <1>8

\* The percentile is the latency of some attempt.
LEMMA PercentileIsNumber ==
  ASSUME NEW attempts \in Seq(Attempts), attempts # <<>>
  PROVE  P95Latency(attempts) \in Nat
<1>. DEFINE D == DOMAIN attempts
            n == Len(attempts)
            place == (95 * n + 99) \div 100
            upTo(l) == {i \in D : attempts[i].latency <= l}
            below(l) == {i \in D : attempts[i].latency < l}
            L == {attempts[i].latency : i \in D}
            T == {l \in Nat : place <= Cardinality(upTo(l))}
<1>1. D = 1 .. n /\ n \in Nat \ {0}
  OBVIOUS
<1>2. place \in 1 .. n
  BY <1>1
<1>3. IsFiniteSet(D) /\ Cardinality(D) = n
  <2>. HIDE DEF n, D
  <2>1. IsFiniteSet(1 .. n) /\ Cardinality(1 .. n) = IF 1 > n THEN 0 ELSE n - 1 + 1
    BY <1>1, FS_Interval
  <2>. QED  BY <1>1, <2>1
<1>4. \A i \in D : attempts[i].latency \in Nat
  BY LatencyIsNumber
<1>5. ASSUME NEW l
      PROVE  /\ IsFiniteSet(upTo(l)) /\ Cardinality(upTo(l)) \in Nat
             /\ IsFiniteSet(below(l)) /\ Cardinality(below(l)) \in Nat
  <2>1. upTo(l) \in SUBSET D /\ below(l) \in SUBSET D
    OBVIOUS
  <2>. HIDE DEF upTo, below, D
  <2>. QED  BY <1>3, <2>1, FS_Subset, FS_CardinalityType
<1>6. T # {}
  <2>1. PICK k \in D : \A i \in D : attempts[i].latency <= attempts[k].latency
    BY SlowestExists
  <2>2. upTo(attempts[k].latency) = D
    BY <2>1
  <2>3. attempts[k].latency \in Nat /\ place <= Cardinality(upTo(attempts[k].latency))
    <3>. HIDE DEF upTo, place, D, n
    <3>. QED  BY <1>1, <1>2, <1>3, <1>4, <2>1, <2>2
  <2>. QED  BY <2>3
<1>7. PICK l \in T : \A m \in T : l <= m
  <2>1. T \in SUBSET Nat
    OBVIOUS
  <2>. HIDE DEF T
  <2>. QED  BY <1>6, <2>1, LeastNumber
<1>8. l \in Nat /\ place <= Cardinality(upTo(l))
  BY <1>7
<1>9. Cardinality(below(l)) < place
  <2>1. CASE l = 0
    <3>1. below(l) = {}
      BY <1>4, <2>1
    <3>. HIDE DEF below, place
    <3>. QED  BY <1>1, <1>2, <3>1, FS_EmptySet
  <2>2. CASE l # 0
    <3>1. l - 1 \in Nat /\ l - 1 \notin T
      BY <1>7, <1>8, <2>2
    <3>2. below(l) = upTo(l - 1)
      BY <1>4, <1>8, <2>2
    <3>3. ~(place <= Cardinality(upTo(l - 1)))
      BY <3>1
    <3>. HIDE DEF below, upTo, place
    <3>. QED  BY <1>1, <1>2, <1>5, <3>2, <3>3
  <2>. QED  BY <2>1, <2>2
<1>10. l \in L
  <2>1. SUFFICES ASSUME l \notin L PROVE FALSE
    OBVIOUS
  <2>2. upTo(l) = below(l)
    BY <1>4, <1>8, <2>1
  <2>. HIDE DEF upTo, below, place
  <2>. QED  BY <1>1, <1>2, <1>5, <1>8, <1>9, <2>2
<1>11. P95Latency(attempts) \in L
  <2>1. P95Latency(attempts) =
          CHOOSE m \in L : Cardinality(below(m)) < place /\ place <= Cardinality(upTo(m))
    BY DEF P95Latency
  <2>. HIDE DEF upTo, below, place, L
  <2>. QED  BY <1>8, <1>9, <1>10, <2>1
<1>. QED  BY <1>4, <1>11

LEMMA ErrorRateIsNumber ==
  ASSUME NEW attempts \in Seq(Attempts), attempts # <<>>
  PROVE  ErrorRate(attempts) \in Int
<1>. DEFINE bad == {i \in DOMAIN attempts : ~attempts[i].ok}
<1>1. DOMAIN attempts = 1 .. Len(attempts) /\ Len(attempts) \in Nat \ {0}
  OBVIOUS
<1>2. bad \in SUBSET (1 .. Len(attempts)) /\ IsFiniteSet(1 .. Len(attempts))
  BY <1>1, FS_Interval
<1>3. Cardinality(bad) \in Nat
  <2>. HIDE DEF bad
  <2>. QED  BY <1>2, FS_Subset, FS_CardinalityType
<1>4. Scale * Cardinality(bad) \in Int
  <2>. HIDE DEF bad
  <2>. QED  BY <1>3, ScaleAssumption
<1>5. ErrorRate(attempts) = (Scale * Cardinality(bad)) \div Len(attempts)
  BY DEF ErrorRate
<1>. HIDE DEF bad
<1>. QED  BY <1>1, <1>4, <1>5, QuotientIsNumber

LEMMA FactorsAreNumbers ==
  ASSUME NEW entry \in ToSet(Catalog), NEW r, Answerable(r),
         NEW window, window[Target(entry)] \in Seq(Attempts), NEW f \in FactorNames
  PROVE  Factors(entry, r, window)[f] \in Int
<1>. DEFINE x == Target(entry)
            w == window[x]
<1>1. x \in Targets /\ Scale \in Nat \ {0}
  BY ScaleAssumption DEF Targets
<1>2. r.quota[x] \subseteq Int
  BY <1>1 DEF Answerable
<1>3. \A n \in Int : Clamp01(n) \in Int
  BY <1>1 DEF Clamp01
<1>4. CASE f = "quota"
  <2>1. CASE r.quota[x] = {}
    BY <1>1, <1>4, <2>1 DEF Factors
  <2>2. CASE r.quota[x] # {}
    <3>1. (CHOOSE n \in r.quota[x] : TRUE) \in Int
      BY <1>2, <2>2
    <3>. QED  BY <1>3, <1>4, <2>2, <3>1 DEF Factors
  <2>. QED  BY <2>1, <2>2
<1>5. CASE f = "health"
  <2>1. CASE w = <<>>
    BY <1>1, <1>5, <2>1 DEF Factors
  <2>2. CASE w # <<>>
    <3>1. ErrorRate(w) \in Int
      BY <2>2, ErrorRateIsNumber
    <3>2. Scale - ErrorRate(w) \in Int
      BY <1>1, <3>1
    <3>3. Clamp01(Scale - ErrorRate(w)) \in Int
      BY <1>3, <3>2
    <3>. QED  BY <1>5, <2>2, <3>3 DEF Factors
  <2>. QED  BY <2>1, <2>2
<1>6. CASE f = "latency_inv"
  <2>1. CASE w = <<>>
    BY <1>1, <1>6, <2>1 DEF Factors
  <2>2. CASE w # <<>>
    <3>1. P95Latency(w) \in Nat
      BY <2>2, PercentileIsNumber
    <3>2. 1000 * Scale \in Int /\ 1000 + P95Latency(w) \in Nat \ {0}
      BY <1>1, <3>1
    <3>3. (1000 * Scale) \div (1000 + P95Latency(w)) \in Int
      BY <3>2, QuotientIsNumber
    <3>. QED  BY <1>6, <2>2, <3>3 DEF Factors
  <2>. QED  BY <2>1, <2>2
<1>7. CASE f = "tier_fit"
  <2>1. TierFit(entry, r.tier) \in Int
    <3>1. \A t \in DOMAIN entry.tier_affinity : entry.tier_affinity[t] \in Int
      BY CatalogAssumption, ScaleAssumption
    <3>. QED  BY <1>1, <3>1 DEF TierFit
  <2>. QED  BY <1>7, <2>1 DEF Factors
<1>8. CASE f = "cost_inv"
  BY <1>1, <1>8 DEF Factors
<1>. QED  BY <1>4, <1>5, <1>6, <1>7, <1>8 DEF FactorNames

LEMMA SumIsNumber ==
  ASSUME NEW factors, \A f \in FactorNames : factors[f] \in Int, NEW names
  PROVE  WeightedSum(factors, names) \in Int
<1>1. \A f \in FactorNames : (IF f \in names THEN Weight[f] * factors[f] ELSE 0) \in Int
  BY DEF FactorNames, Weight
<1>. QED  BY <1>1 DEF WeightedSum, FactorNames

\* Scores of entries of the catalog are numbers, one for each of their targets.
LEMMA ScoresAreScores ==
  ASSUME NEW entries \in SUBSET ToSet(Catalog), NEW r, Answerable(r),
         NEW window, \A x \in Targets : window[x] \in Seq(Attempts)
  PROVE  /\ AreScores(Scores(entries, r, window))
         /\ DOMAIN Scores(entries, r, window) = {Target(e) : e \in entries}
<1>. DEFINE scores == Scores(entries, r, window)
            active == FactorNames \ ConstantFactors({Factors(e, r, window) : e \in entries})
<1>1. scores = [x \in {Target(e) : e \in entries} |->
                  WeightedSum(Factors(CHOOSE e \in entries : Target(e) = x, r, window), active)]
  BY DEF Scores
<1>2. DOMAIN scores = {Target(e) : e \in entries} /\ DOMAIN scores \subseteq Targets
  BY <1>1 DEF Targets
<1>3. ASSUME NEW x \in DOMAIN scores PROVE scores[x] \in Int
  <2>. DEFINE e == CHOOSE e \in entries : Target(e) = x
  <2>1. e \in entries /\ Target(e) = x
    BY <1>2, <1>3
  <2>2. e \in ToSet(Catalog) /\ window[Target(e)] \in Seq(Attempts)
    BY <2>1 DEF Targets
  <2>3. \A f \in FactorNames : Factors(e, r, window)[f] \in Int
    BY <2>2, FactorsAreNumbers
  <2>4. scores[x] = WeightedSum(Factors(e, r, window), active)
    BY <1>1, <1>3
  <2>. HIDE DEF e, active, scores
  <2>. QED  BY <2>3, <2>4, SumIsNumber
<1>. QED  BY <1>2, <1>3 DEF AreScores

\* Factors that are the same shift two sums by the same.
LEMMA ConstantsShiftAlike ==
  ASSUME NEW a, NEW b, \A f \in FactorNames : a[f] \in Int /\ b[f] \in Int,
         NEW names \in SUBSET FactorNames,
         \A f \in FactorNames \ names : a[f] = b[f]
  PROVE  (WeightedSum(a, names) > WeightedSum(b, names)) <=>
           (WeightedSum(a, FactorNames) > WeightedSum(b, FactorNames))
<1>. DEFINE term(v, f) == IF f \in names THEN Weight[f] * v[f] ELSE 0
            difference(f) == Weight[f] * a[f] - Weight[f] * b[f]
<1>1. \A f \in FactorNames : Weight[f] * a[f] \in Int /\ Weight[f] * b[f] \in Int
  BY DEF FactorNames, Weight
<1>2. \A f \in FactorNames :
        /\ term(a, f) \in Int /\ term(b, f) \in Int
        /\ term(a, f) - term(b, f) = Weight[f] * a[f] - Weight[f] * b[f]
  BY <1>1
<1>3. /\ WeightedSum(a, names) = term(a, "quota") + term(a, "health") + term(a, "latency_inv")
                                   + term(a, "tier_fit") + term(a, "cost_inv")
      /\ WeightedSum(b, names) = term(b, "quota") + term(b, "health") + term(b, "latency_inv")
                                   + term(b, "tier_fit") + term(b, "cost_inv")
  BY DEF WeightedSum
<1>4. \A v : WeightedSum(v, FactorNames) =
        Weight["quota"] * v["quota"] + Weight["health"] * v["health"]
          + Weight["latency_inv"] * v["latency_inv"] + Weight["tier_fit"] * v["tier_fit"]
          + Weight["cost_inv"] * v["cost_inv"]
  BY DEF WeightedSum, FactorNames
<1>5. {"quota", "health", "latency_inv", "tier_fit", "cost_inv"} = FactorNames
  BY DEF FactorNames
<1>. HIDE DEF term
<1>. QED  BY <1>1, <1>2, <1>3, <1>4, <1>5

-----------------------------------------------------------------------------
(* The pool *)

LEMMA PoolFromCatalog ==
  ASSUME NEW r, NEW e \in BuildPool(r)
  PROVE  e \in ToSet(Catalog) /\ Admitted(e, r)
BY DEF BuildPool, ToSet

\* A target with an entry that is admitted is in the pool.
LEMMA FirstIsInPool ==
  ASSUME NEW r, NEW entry \in ToSet(Catalog), Admitted(entry, r)
  PROVE  \E e \in BuildPool(r) : Target(e) = Target(entry)
<1>. DEFINE T == {i \in DOMAIN Catalog :
                    Admitted(Catalog[i], r) /\ Target(Catalog[i]) = Target(entry)}
<1>1. DOMAIN Catalog = 1 .. Len(Catalog) /\ Len(Catalog) \in Nat
  BY CatalogAssumption
<1>2. T \in SUBSET Nat /\ T # {}
  BY <1>1 DEF ToSet
<1>3. PICK i \in T : \A j \in T : i <= j
  <2>. HIDE DEF T
  <2>. QED  BY <1>2, LeastNumber
<1>4. \A j \in 1 .. i - 1 : j \in DOMAIN Catalog /\ j \notin T
  BY <1>1, <1>3
<1>5. Catalog[i] \in BuildPool(r) /\ Target(Catalog[i]) = Target(entry)
  BY <1>3, <1>4 DEF BuildPool
<1>. QED  BY <1>5

=============================================================================
