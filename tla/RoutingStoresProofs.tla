------------------------ MODULE RoutingStoresProofs ------------------------
(***************************************************************************)
(* The stores keep their types, and whatever they hold, the ranking that   *)
(* is computed from them is the right one, for every catalog, window size, *)
(* set of requests and history of attempts.                                *)
(***************************************************************************)
EXTENDS RoutingStores, RankingProofs

WindowAttempts == [ok : BOOLEAN, latency : Latencies]

\* TypeOK, with what it leaves open: there is a window for each target.
IInv == TypeOK /\ window \in [Targets -> Seq(WindowAttempts)]

LEMMA InitHolds == Init => IInv
<1>. SUFFICES ASSUME Init PROVE IInv
  OBVIOUS
<1>. DEFINE none == <<>>
<1>0. none \in Seq(WindowAttempts) /\ Len(none) = 0
  OBVIOUS
<1>1. /\ lock \in [Targets -> {"open", "timed", "terminal"}]
      /\ known \in [Keys -> SUBSET Targets]
      /\ \A k \in Keys : known[k] = {}
      /\ window = [x \in Targets |-> none]
  BY DEF Init
<1>2. \A k \in Keys : Cardinality(known[k]) <= 1
  BY <1>1, FS_EmptySet
<1>. HIDE DEF none
<1>3. /\ window \in [Targets -> Seq(WindowAttempts)]
      /\ \A x \in Targets : Len(window[x]) <= Window
  BY <1>0, <1>1, WindowAssumption
<1>. QED  BY <1>1, <1>2, <1>3 DEF IInv, TypeOK, WindowAttempts

\* The window keeps as many of the latest attempts as it may.
LEMMA LatestFits ==
  ASSUME NEW S, NEW attempts \in Seq(S)
  PROVE  Latest(attempts) \in Seq(S) /\ Len(Latest(attempts)) <= Window
<1>. DEFINE n == Len(attempts)
            first == IF n > Window THEN n - Window + 1 ELSE 1
<1>1. n \in Nat /\ Window \in Nat /\ first \in Nat \ {0}
  BY WindowAssumption
<1>2. Latest(attempts) = SubSeq(attempts, first, n)
  BY DEF Latest
<1>3. \A i \in first .. n : attempts[i] \in S
  BY <1>1
<1>. HIDE DEF first
<1>4. Latest(attempts) = [i \in 1 .. (n - first + 1) |-> attempts[i + first - 1]]
  BY <1>1, <1>2
<1>5. \A i \in 1 .. (n - first + 1) : i + first - 1 \in first .. n
  BY <1>1
<1>6. Latest(attempts) \in [1 .. (n - first + 1) -> S]
  BY <1>3, <1>4, <1>5
<1>. USE DEF first
<1>7. CASE first <= n
  <2>1. n - first + 1 \in Nat /\ n - first + 1 <= Window
    BY <1>1
  <2>. HIDE DEF first, n
  <2>. QED  BY <1>6, <2>1
<1>8. CASE n < first
  <2>1. n - first + 1 <= 0 /\ n - first + 1 \in Int
    BY <1>1, <1>8
  <2>2. Latest(attempts) = <<>>
    <3>. HIDE DEF first, n
    <3>. QED  BY <1>1, <1>4, <2>1
  <2>. QED  BY <1>1, <2>2
<1>. QED  BY <1>1, <1>7, <1>8

LEMMA LockKeeps ==
  ASSUME IInv, NEW x \in Targets, NEW cooldown, Lock(x, cooldown) \/ LockRunsOut(x)
  PROVE  IInv'
<1>1. known' = known /\ window' = window
  BY DEF Lock, LockRunsOut
<1>2. PICK l \in {"open", "timed", "terminal"} : lock' = [lock EXCEPT ![x] = l]
  BY DEF Lock, LockRunsOut, LockState
<1>3. lock' \in [Targets -> {"open", "timed", "terminal"}]
  BY <1>2 DEF IInv, TypeOK
<1>. QED  BY <1>1, <1>3 DEF IInv, TypeOK

LEMMA KnownKeeps ==
  ASSUME IInv, NEW k \in Keys,
         Forget(k) \/ \E x \in Targets : Remember(k, x)
  PROVE  IInv'
<1>1. lock' = lock /\ window' = window
  BY DEF Forget, Remember
<1>2. PICK S \in SUBSET Targets :
        known' = [known EXCEPT ![k] = S] /\ (S = {} \/ \E x \in Targets : S = {x})
  BY DEF Forget, Remember
<1>3. Cardinality(S) <= 1
  BY <1>2, FS_EmptySet, FS_Singleton
<1>4. known \in [Keys -> SUBSET Targets]
  BY DEF IInv, TypeOK
<1>5. /\ known' \in [Keys -> SUBSET Targets]
      /\ \A l \in Keys : Cardinality(known'[l]) <= 1
  BY <1>2, <1>3, <1>4 DEF IInv, TypeOK
<1>. QED  BY <1>1, <1>5 DEF IInv, TypeOK

LEMMA RecordKeeps ==
  ASSUME IInv, NEW x \in Targets, NEW ok \in BOOLEAN, NEW latency \in Latencies,
         Record(x, ok, latency)
  PROVE  IInv'
<1>. DEFINE attempt == [ok |-> ok, latency |-> latency]
            longer == Append(window[x], attempt)
<1>1. /\ lock' = lock /\ known' = known
      /\ window' = [window EXCEPT ![x] = Latest(longer)]
  BY DEF Record
<1>2. window[x] \in Seq(WindowAttempts) /\ attempt \in WindowAttempts
  BY DEF IInv, WindowAttempts
<1>3. longer \in Seq(WindowAttempts)
  <2>. HIDE DEF attempt
  <2>. QED  BY <1>2
<1>4. Latest(longer) \in Seq(WindowAttempts) /\ Len(Latest(longer)) <= Window
  <2>. HIDE DEF longer
  <2>. QED  BY <1>3, LatestFits
<1>5. /\ window' \in [Targets -> Seq(WindowAttempts)]
      /\ \A y \in Targets : Len(window'[y]) <= Window
  <2>. HIDE DEF longer
  <2>. QED  BY <1>1, <1>4 DEF IInv, TypeOK
<1>. QED  BY <1>1, <1>5 DEF IInv, TypeOK, WindowAttempts

LEMMA NextKeeps == IInv /\ [Next]_vars => IInv'
<1>. SUFFICES ASSUME IInv, [Next]_vars PROVE IInv'
  OBVIOUS
<1>1. ASSUME NEW x \in Targets, NEW cooldown \in Cooldowns, Lock(x, cooldown) PROVE IInv'
  BY <1>1, LockKeeps
<1>2. ASSUME NEW x \in Targets, LockRunsOut(x) PROVE IInv'
  BY <1>2, LockKeeps
<1>3. ASSUME NEW x \in Targets, NEW k \in Keys, Remember(k, x) PROVE IInv'
  BY <1>3, KnownKeeps
<1>4. ASSUME NEW x \in Targets, NEW ok \in BOOLEAN, NEW latency \in Latencies,
             Record(x, ok, latency)
      PROVE  IInv'
  BY <1>4, RecordKeeps
<1>5. ASSUME NEW k \in Keys, Forget(k) PROVE IInv'
  BY <1>5, KnownKeeps
<1>6. CASE UNCHANGED vars
  BY <1>6 DEF IInv, TypeOK, vars
<1>. QED  BY <1>1, <1>2, <1>3, <1>4, <1>5, <1>6 DEF Next

LEMMA SpecKeeps == Spec => []IInv
BY InitHolds, NextKeeps, PTL DEF Spec

\* A lock is open, timed or terminal, a key has at most one remembered target
\* and no deque is longer than its maxlen, whatever the calls do.
THEOREM TypeCorrect == Spec => []TypeOK
<1>1. IInv => TypeOK
  BY DEF IInv
<1>. QED  BY <1>1, SpecKeeps, PTL

-----------------------------------------------------------------------------
(* The ranking of a request *)

LEMMA ScoresFit ==
  ASSUME IInv, NEW r \in Requests
  PROVE  /\ AreScores(ScoresNow(r))
         /\ DOMAIN ScoresNow(r) = {Target(e) : e \in Eligible(r, lock)}
<1>1. Answerable(r)
  BY RequestsAssumption
<1>2. \A x \in Targets : window[x] \in Seq(Attempts)
  <2>1. WindowAttempts \subseteq Attempts
    BY WindowAssumption DEF WindowAttempts, Attempts
  <2>2. \A x \in Targets : window[x] \in Seq(WindowAttempts)
    BY DEF IInv
  <2>. QED  BY <2>1, <2>2
<1>3. Eligible(r, lock) \in SUBSET ToSet(Catalog)
  BY PoolFromCatalog DEF Eligible
<1>. QED  BY <1>1, <1>2, <1>3, ScoresAreScores DEF ScoresNow

\* The targets of the eligible entries are those that some entry qualifies.
LEMMA EligibleTargets ==
  ASSUME NEW r, NEW x \in Targets
  PROVE  (\E e \in Eligible(r, lock) : Target(e) = x) <=>
           /\ lock[x] = "open" /\ x[1] \notin r.cooling
           /\ \A n \in r.quota[x] : n >= MinQuota
           /\ \E e \in ToSet(Catalog) :
                Target(e) = x /\ Admitted(e, r) /\ e.adapter \in KnownAdapters
<1>1. \A e : Target(e) = x => e.provider = x[1]
  BY DEF Target
<1>2. ASSUME NEW e \in Eligible(r, lock), Target(e) = x
      PROVE  /\ lock[x] = "open" /\ x[1] \notin r.cooling
             /\ \A n \in r.quota[x] : n >= MinQuota
             /\ e \in ToSet(Catalog) /\ Admitted(e, r) /\ e.adapter \in KnownAdapters
  BY <1>1, <1>2, PoolFromCatalog DEF Eligible, Passes
<1>3. ASSUME lock[x] = "open", x[1] \notin r.cooling,
             \A n \in r.quota[x] : n >= MinQuota,
             NEW e \in ToSet(Catalog), Target(e) = x, Admitted(e, r)
      PROVE  \E d \in Eligible(r, lock) : Target(d) = x
  <2>1. PICK d \in BuildPool(r) : Target(d) = x
    BY <1>3, FirstIsInPool
  <2>2. d.adapter \in KnownAdapters
    BY PoolFromCatalog, CatalogAssumption
  <2>. QED  BY <1>1, <1>3, <2>1, <2>2 DEF Eligible, Passes
<1>. QED  BY <1>2, <1>3

LEMMA RanksThem == IInv => RanksTheEligible
<1>. SUFFICES ASSUME IInv, NEW r \in Requests
              PROVE  LET ranked == RankedNow(r)
                         fits(x) == /\ lock[x] = "open" /\ x[1] \notin r.cooling
                                    /\ \A n \in r.quota[x] : n >= MinQuota
                                    /\ \E e \in ToSet(Catalog) :
                                         Target(e) = x /\ Admitted(e, r)
                                           /\ e.adapter \in KnownAdapters
                     IN  /\ ToSet(ranked) = {x \in Targets : fits(x)}
                         /\ Len(ranked) = Cardinality(ToSet(ranked))
  BY DEF RanksTheEligible
<1>1. /\ AreScores(ScoresNow(r))
      /\ DOMAIN ScoresNow(r) = {Target(e) : e \in Eligible(r, lock)}
  BY ScoresFit
<1>2. /\ ToSet(RankedNow(r)) = DOMAIN ScoresNow(r)
      /\ Len(RankedNow(r)) = Cardinality(DOMAIN ScoresNow(r))
  BY <1>1, RankingNamesEachOnce DEF RankedNow
<1>3. DOMAIN ScoresNow(r) \subseteq Targets
  BY <1>1 DEF AreScores
<1>4. \A x : x \in DOMAIN ScoresNow(r) <=>
        x \in Targets /\ \E e \in Eligible(r, lock) : Target(e) = x
  BY <1>1, <1>3
<1>. QED  BY <1>2, <1>4, EligibleTargets

\* A ranking holds a target, once, exactly if some catalog entry of it passes
\* pool and prefilter: neither duplicates, filters, sorting nor promotion lose
\* or repeat one.
THEOREM RanksAllEligible == Spec => []RanksTheEligible
BY RanksThem, SpecKeeps, PTL

-----------------------------------------------------------------------------
(* Promotion *)

LEMMA AtMostOne ==
  ASSUME NEW S \in SUBSET Targets, Cardinality(S) <= 1, NEW x \in S
  PROVE  S = {x}
<1>1. IsFiniteSet(S) /\ IsFiniteSet(S \ {x})
  BY TargetsFinite, FS_Subset
<1>2. Cardinality(S \ {x}) = Cardinality(S) - 1 /\ Cardinality(S) \in Nat
      /\ Cardinality(S \ {x}) \in Nat
  BY <1>1, FS_RemoveElement, FS_CardinalityType
<1>3. Cardinality(S \ {x}) = 0
  BY <1>2
<1>. QED  BY <1>1, <1>3, FS_EmptySet

\* Among the others a target moved to the front leaves the order as it was.
LEMMA MovedStaysOrdered ==
  ASSUME NEW scores, AreScores(scores), NEW k \in 1 .. Len(Sorted(scores)),
         NEW i \in 3 .. Len(Sorted(scores))
  PROVE  LET moved == MoveToFront(Sorted(scores), k)
         IN  Before(scores, moved[i - 1], moved[i])
<1>. DEFINE s == Sorted(scores)
            moved == MoveToFront(s, k)
<1>1. /\ Len(s) \in Nat /\ DOMAIN s = 1 .. Len(s)
      /\ \A a, b \in 1 .. Len(s) : a < b => Before(scores, s[a], s[b])
  BY SortedIsOrder
<1>. HIDE DEF s
<1>2. \A j \in 2 .. Len(s) : moved[j] = IF j <= k THEN s[j - 1] ELSE s[j]
  BY <1>1 DEF MoveToFront
<1>3. i \in 3 .. Len(s) /\ k \in 1 .. Len(s)
  BY DEF s
<1>4. /\ i - 1 \in 2 .. Len(s) /\ i \in 2 .. Len(s)
      /\ i - 2 \in 1 .. Len(s) /\ i - 1 \in 1 .. Len(s) /\ i \in 1 .. Len(s)
      /\ i - 1 - 1 = i - 2
  BY <1>1, <1>3
<1>5. /\ moved[i - 1] = IF i - 1 <= k THEN s[i - 2] ELSE s[i - 1]
      /\ moved[i] = IF i <= k THEN s[i - 1] ELSE s[i]
  BY <1>2, <1>4
<1>. HIDE DEF moved
<1>6. Before(scores, moved[i - 1], moved[i])
  <2>1. CASE i <= k
    BY <1>1, <1>3, <1>4, <1>5, <2>1
  <2>2. CASE i - 1 = k
    BY <1>1, <1>3, <1>4, <1>5, <2>2
  <2>3. CASE i - 1 > k
    BY <1>1, <1>3, <1>4, <1>5, <2>3
  <2>. QED  BY <1>3, <1>4, <2>1, <2>2, <2>3
<1>. QED  BY <1>6 DEF moved, s

LEMMA PromotesThem == IInv => PromotesOnlyWithinBand
<1>. SUFFICES ASSUME IInv, NEW r \in Requests, RankedNow(r) # <<>>
              PROVE
    LET ranked == RankedNow(r)
        scores == ScoresNow(r)
        best(x) == \A y \in DOMAIN scores : scores[y] <= scores[x]
        close(x) == \E y \in DOMAIN scores : best(y) /\ 10 * scores[x] >= 9 * scores[y]
        later(i) == i > 1 /\ ~Before(scores, ranked[i - 1], ranked[i])
    IN  /\ \A x \in known[MakeKey(r)] \cap DOMAIN scores : close(x) => ranked[1] = x
        /\ \A i \in DOMAIN ranked : later(i) => i = 2 /\ known[MakeKey(r)] = {ranked[1]}
        /\ best(ranked[1]) \/ (known[MakeKey(r)] = {ranked[1]} /\ close(ranked[1]))
  BY DEF PromotesOnlyWithinBand
<1>. DEFINE ranked == RankedNow(r)
            scores == ScoresNow(r)
            s == Sorted(scores)
            K == known[MakeKey(r)]
            best(x) == \A y \in DOMAIN scores : scores[y] <= scores[x]
            close(x) == \E y \in DOMAIN scores : best(y) /\ 10 * scores[x] >= 9 * scores[y]
<1>1. AreScores(scores)
  BY ScoresFit
<1>2. /\ s \in Seq(DOMAIN scores) /\ Len(s) \in Nat /\ DOMAIN s = 1 .. Len(s)
      /\ \A i, j \in 1 .. Len(s) : i < j => Before(scores, s[i], s[j])
      /\ \A x \in DOMAIN scores : \E i \in 1 .. Len(s) : s[i] = x
  BY <1>1, SortedIsOrder
<1>3. ranked = Promote(s, scores, K)
  BY DEF RankedNow
<1>4. K \in SUBSET Targets /\ \A x \in K : K = {x}
  <2>1. MakeKey(r) \in Keys
    BY DEF Keys
  <2>2. K \in SUBSET Targets /\ Cardinality(K) <= 1
    BY <2>1 DEF IInv, TypeOK
  <2>. HIDE DEF K
  <2>. QED  BY <2>2, AtMostOne
<1>5. /\ ranked \in Seq(DOMAIN scores) /\ Len(ranked) = Len(s)
  <2>. HIDE DEF scores, s
  <2>. QED  BY <1>2, <1>3, PromotedIsPermuted
<1>6. 1 \in 1 .. Len(s) /\ s[1] \in DOMAIN scores /\ DOMAIN ranked = 1 .. Len(s)
  <2>. HIDE DEF ranked, s
  <2>1. ranked # <<>>
    BY DEF ranked
  <2>. QED  BY <1>2, <1>5, <2>1
<1>. HIDE DEF ranked, scores, s, K
<1>7. \A x \in DOMAIN scores : scores[x] \in Int
  BY <1>1 DEF AreScores
<1>8. \A y \in DOMAIN scores : scores[y] <= scores[s[1]]
  <2>1. SUFFICES ASSUME NEW y \in DOMAIN scores PROVE scores[y] <= scores[s[1]]
    OBVIOUS
  <2>2. PICK i \in 1 .. Len(s) : s[i] = y
    BY <1>2
  <2>3. i = 1 \/ Before(scores, s[1], s[i])
    BY <1>2, <1>6
  <2>. QED  BY <1>6, <1>7, <2>2, <2>3 DEF Before
<1>9. \A x \in DOMAIN scores : WithinBand(scores[x], scores[s[1]]) <=> close(x)
  <2>1. SUFFICES ASSUME NEW x \in DOMAIN scores
                 PROVE  WithinBand(scores[x], scores[s[1]]) <=> close(x)
    OBVIOUS
  <2>2. \A y \in DOMAIN scores : best(y) => scores[y] = scores[s[1]]
    BY <1>6, <1>7, <1>8
  <2>3. best(s[1])
    BY <1>8
  <2>. HIDE DEF best
  <2>. QED  BY <1>6, <2>2, <2>3 DEF WithinBand
<1>. HIDE DEF close, best
<1>10. CASE /\ ranked = s
            /\ \A i \in DOMAIN s : ~(s[i] \in K /\ WithinBand(scores[s[i]], scores[s[1]]))
  <2>1. \A x \in K \cap DOMAIN scores : ~close(x)
    BY <1>2, <1>9, <1>10
  <2>2. \A i \in 1 .. Len(s) : i > 1 => Before(scores, ranked[i - 1], ranked[i])
    <3>1. \A i \in 1 .. Len(s) : i > 1 => i - 1 \in 1 .. Len(s) /\ i - 1 < i
      BY <1>2
    <3>. QED  BY <1>2, <1>10, <3>1
  <2>3. best(ranked[1])
    BY <1>8, <1>10 DEF best
  <2>. QED  BY <1>6, <2>1, <2>2, <2>3 DEF ranked, scores, K, best, close
<1>11. ASSUME NEW k \in DOMAIN s, s[k] \in K, WithinBand(scores[s[k]], scores[s[1]]),
              ranked = MoveToFront(s, k)
       PROVE  /\ \A x \in K \cap DOMAIN scores : ranked[1] = x
              /\ \A i \in DOMAIN ranked :
                   i > 1 /\ ~Before(scores, ranked[i - 1], ranked[i]) => i = 2
              /\ K = {ranked[1]} /\ close(ranked[1])
  <2>1. ranked[1] = s[k] /\ s[k] \in DOMAIN scores /\ k \in 1 .. Len(s)
    BY <1>2, <1>6, <1>11 DEF MoveToFront
  <2>2. K = {ranked[1]}
    BY <1>4, <1>11, <2>1
  <2>3. close(ranked[1])
    BY <1>9, <1>11, <2>1
  <2>4. \A i \in 3 .. Len(s) : Before(scores, ranked[i - 1], ranked[i])
    BY <1>1, <1>11, <2>1, MovedStaysOrdered DEF s
  <2>5. \A i \in DOMAIN ranked : i > 1 => i = 2 \/ i \in 3 .. Len(s)
    BY <1>2, <1>6
  <2>. QED  BY <2>2, <2>3, <2>4, <2>5
<1>12. \/ /\ ranked = s
          /\ \A i \in DOMAIN s : ~(s[i] \in K /\ WithinBand(scores[s[i]], scores[s[1]]))
       \/ \E k \in DOMAIN s :
            /\ s[k] \in K /\ WithinBand(scores[s[k]], scores[s[1]])
            /\ ranked = MoveToFront(s, k)
  BY <1>3, PromotionMovesOne
<1>13. CASE \E k \in DOMAIN s :
              /\ s[k] \in K /\ WithinBand(scores[s[k]], scores[s[1]])
              /\ ranked = MoveToFront(s, k)
  BY <1>11, <1>13 DEF ranked, scores, K, best, close
<1>. QED  BY <1>10, <1>12, <1>13

\* The remembered target comes first exactly if it is ranked and within the
\* band of the best score, ahead of a better one only then, and nothing else
\* about the order by score and name changes.
THEOREM PromotesWithinBand == Spec => []PromotesOnlyWithinBand
BY PromotesThem, SpecKeeps, PTL

-----------------------------------------------------------------------------
(* Dropped factors *)

LEMMA DropsKeepOrder == IInv => DroppingKeepsOrder
<1>. SUFFICES ASSUME IInv, NEW r \in Requests,
                     NEW x \in DOMAIN Scores(Eligible(r, lock), r, window),
                     NEW y \in DOMAIN Scores(Eligible(r, lock), r, window)
              PROVE
    LET entries == Eligible(r, lock)
        scores  == Scores(entries, r, window)
        whole(z) == WeightedSum(Factors(CHOOSE e \in entries : Target(e) = z, r, window),
                                FactorNames)
    IN  (scores[x] > scores[y]) <=> (whole(x) > whole(y))
  BY DEF DroppingKeepsOrder
<1>. DEFINE entries == Eligible(r, lock)
            of(z) == CHOOSE e \in entries : Target(e) = z
            rows == {Factors(e, r, window) : e \in entries}
            active == FactorNames \ ConstantFactors(rows)
            a == Factors(of(x), r, window)
            b == Factors(of(y), r, window)
<1>1. DOMAIN Scores(entries, r, window) = {Target(e) : e \in entries}
  BY DEF Scores
<1>2. of(x) \in entries /\ of(y) \in entries
  BY <1>1
<1>3. entries \subseteq ToSet(Catalog)
  BY PoolFromCatalog DEF Eligible
<1>4. ASSUME NEW e \in entries, NEW f \in FactorNames
      PROVE  Factors(e, r, window)[f] \in Int
  <2>1. Answerable(r) /\ e \in ToSet(Catalog) /\ Target(e) \in Targets
    BY <1>3, RequestsAssumption DEF Targets
  <2>2. window[Target(e)] \in Seq(Attempts)
    <3>1. window[Target(e)] \in Seq(WindowAttempts)
      BY <2>1 DEF IInv
    <3>2. WindowAttempts \subseteq Attempts
      BY WindowAssumption DEF WindowAttempts, Attempts
    <3>. QED  BY <3>1, <3>2
  <2>. QED  BY <2>1, <2>2, FactorsAreNumbers
<1>5. \A f \in FactorNames : a[f] \in Int /\ b[f] \in Int
  <2>. HIDE DEF entries, of
  <2>. QED  BY <1>2, <1>4
<1>6. a \in rows /\ b \in rows
  <2>. HIDE DEF entries, of
  <2>. QED  BY <1>2
<1>7. \A f \in FactorNames \ active : a[f] = b[f]
  <2>. HIDE DEF rows, a, b
  <2>. QED  BY <1>6 DEF ConstantFactors
<1>8. /\ Scores(entries, r, window)[x] = WeightedSum(a, active)
      /\ Scores(entries, r, window)[y] = WeightedSum(b, active)
  BY DEF Scores
<1>9. (WeightedSum(a, active) > WeightedSum(b, active)) <=>
        (WeightedSum(a, FactorNames) > WeightedSum(b, FactorNames))
  <2>1. active \in SUBSET FactorNames
    OBVIOUS
  <2>. HIDE DEF a, b, active
  <2>. QED  BY <1>5, <1>7, <2>1, ConstantsShiftAlike
<1>. QED  BY <1>8, <1>9

\* Rescaling the weights without the constant factors orders the targets of a
\* ranking as the whole weighted sum does.
THEOREM DroppingIsHarmless == Spec => []DroppingKeepsOrder
BY DropsKeepOrder, SpecKeeps, PTL

=============================================================================
