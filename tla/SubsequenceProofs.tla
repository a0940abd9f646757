-------------------------- MODULE SubsequenceProofs --------------------------
(***************************************************************************)
(* What Kept returns: the kept elements and no others, in their order; and *)
(* what other proofs need of sequences and numbers.                        *)
(***************************************************************************)
EXTENDS Subsequences, FiniteSetTheorems, WellFoundedInduction, TLAPS

\* A function on the first numbers is a sequence.
LEMMA FunctionIsSequence ==
  ASSUME NEW S, NEW n \in Nat, NEW f \in [1 .. n -> S]
  PROVE  f \in Seq(S) /\ Len(f) = n
OBVIOUS

\* What appending does.
LEMMA Appended ==
  ASSUME NEW S, NEW s \in Seq(S), NEW x \in S
  PROVE  /\ Append(s, x) \in Seq(S) /\ Append(s, x) # <<>>
         /\ Len(Append(s, x)) = Len(s) + 1 /\ Len(s) \in Nat
         /\ \A i \in 1 .. Len(s) : Append(s, x)[i] = s[i]
         /\ Append(s, x)[Len(s) + 1] = x
OBVIOUS

LEMMA AppendIs ==
  ASSUME NEW S, NEW s \in Seq(S), NEW x \in S
  PROVE  Append(s, x) =
           [i \in 1 .. Len(s) + 1 |-> IF i = Len(s) + 1 THEN x ELSE s[i]]
<1>1. /\ Append(s, x) \in Seq(S) /\ Len(s) \in Nat
      /\ Len(Append(s, x)) = Len(s) + 1
      /\ \A i \in 1 .. Len(s) : Append(s, x)[i] = s[i]
      /\ Append(s, x)[Len(s) + 1] = x
  BY Appended
<1> DEFINE t == Append(s, x)
<1>2. t = [i \in 1 .. Len(s) + 1 |-> t[i]]
  <2>1. t \in Seq(S) /\ Len(t) = Len(s) + 1
    BY <1>1
  <2> HIDE DEF t
  <2>2. t \in [1 .. Len(t) -> S]
    BY <2>1
  <2>. QED  BY <2>1, <2>2
<1>3. \A i \in 1 .. Len(s) + 1 : Append(s, x)[i] = IF i = Len(s) + 1 THEN x ELSE s[i]
  BY <1>1
<1>. QED  BY <1>2, <1>3

\* Among numbers that something holds of, there is a least one.
LEMMA LeastNumber ==
  ASSUME NEW T \in SUBSET Nat, T # {}
  PROVE  \E n \in T : \A m \in T : n <= m
<1>1. PICK n \in T : \A m \in T : ~(<<m, n>> \in OpToRel(<, Nat))
  BY WFMin, NatLessThanWellFounded
<1>2. \A m \in T : ~(m < n)
  BY <1>1 DEF OpToRel
<1>. QED  BY <1>2

\* The further a place, the more of them are below it, and never all.
LEMMA BelowGrows ==
  ASSUME NEW places \in SUBSET Int, IsFiniteSet(places),
         NEW i \in places, NEW j \in places
  PROVE  /\ Cardinality({k \in places : k < i}) \in 0 .. Cardinality(places) - 1
         /\ i < j => Cardinality({k \in places : k < i}) < Cardinality({k \in places : k < j})
<1>. DEFINE below(x) == {k \in places : k < x}
<1>1. \A x \in places : IsFiniteSet(below(x)) /\ Cardinality(below(x)) \in Nat
  <2>1. ASSUME NEW x \in places
        PROVE  IsFiniteSet(below(x)) /\ Cardinality(below(x)) \in Nat
    <3>1. below(x) \in SUBSET places
      OBVIOUS
    <3>. QED  BY <3>1, FS_Subset, FS_CardinalityType
  <2>. QED  BY <2>1
<1>2. Cardinality(places) \in Nat
  BY FS_CardinalityType
<1>3. Cardinality(below(i)) < Cardinality(places)
  <2>1. below(i) \subseteq places /\ below(i) # places
    OBVIOUS
  <2>2. /\ Cardinality(below(i)) <= Cardinality(places)
        /\ Cardinality(places) = Cardinality(below(i)) => places = below(i)
    <3>. HIDE DEF below
    <3>. QED  BY <2>1, FS_Subset
  <2>. QED  BY <1>1, <1>2, <2>1, <2>2
<1>4. ASSUME i < j PROVE Cardinality(below(i)) < Cardinality(below(j))
  <2>1. below(i) \subseteq below(j) /\ i \in below(j) /\ i \notin below(i)
    <3>1. i \in Int /\ j \in Int /\ \A k \in places : k \in Int
      OBVIOUS
    <3>2. \A k \in places : k < i => k < j
      BY <1>4, <3>1
    <3>3. below(i) \subseteq below(j)
      BY <3>2
    <3>4. i \in below(j) /\ ~(i < i)
      BY <1>4, <3>1
    <3>. QED  BY <3>3, <3>4
  <2>2. /\ Cardinality(below(i)) <= Cardinality(below(j))
        /\ Cardinality(below(j)) = Cardinality(below(i)) => below(j) = below(i)
    <3>. HIDE DEF below
    <3>. QED  BY <1>1, <2>1, FS_Subset
  <2>. QED  BY <1>1, <2>1, <2>2
<1>. QED  BY <1>1, <1>2, <1>3, <1>4

\* As many places as there are numbers of them: each number is taken.
LEMMA NumbersTaken ==
  ASSUME NEW places \in SUBSET Int, IsFiniteSet(places),
         NEW k \in 1 .. Cardinality(places)
  PROVE  \E i \in places : Cardinality({j \in places : j < i}) = k - 1
<1>. DEFINE n == Cardinality(places)
            number == [i \in places |-> Cardinality({j \in places : j < i})]
<1>1. n \in Nat
  BY FS_CardinalityType
<1>2. number \in [places -> 0 .. n - 1]
  BY BelowGrows
<1>3. ASSUME NEW i \in places, NEW j \in places, i # j PROVE number[i] # number[j]
  <2>1. CASE i < j
    BY <2>1, BelowGrows
  <2>2. CASE j < i
    BY <2>2, BelowGrows
  <2>. QED  BY <1>3, <2>1, <2>2
<1>4. number \in Injection(places, 0 .. n - 1)
  BY <1>2, <1>3 DEF Injection, IsInjective
<1>5. IsFiniteSet(0 .. n - 1) /\ Cardinality(0 .. n - 1) = n
  <2>. HIDE DEF n
  <2>1. /\ IsFiniteSet(0 .. n - 1)
        /\ Cardinality(0 .. n - 1) = IF 0 > n - 1 THEN 0 ELSE n - 1 - 0 + 1
    BY <1>1, FS_Interval
  <2>. QED  BY <1>1, <2>1
<1>6. number \in Surjection(places, 0 .. n - 1)
  <2>. HIDE DEF number
  <2>. QED  BY <1>4, <1>5, FS_Injection
<1>7. k - 1 \in 0 .. n - 1
  BY <1>1
<1>8. \E i \in places : number[i] = k - 1
  <2>. HIDE DEF number, n
  <2>. QED  BY <1>6, <1>7 DEF Surjection
<1>. QED  BY <1>8

\* The places, numbered: in their order, and all of them.
LEMMA PlacesInOrder ==
  ASSUME NEW places \in SUBSET Int, IsFiniteSet(places)
  PROVE  LET n == Cardinality(places) IN
         /\ n \in Nat
         /\ \A k \in 1 .. n : NthPlace(places, k) \in places
         /\ \A k, l \in 1 .. n : k < l => NthPlace(places, k) < NthPlace(places, l)
         /\ \A i \in places : \E k \in 1 .. n : NthPlace(places, k) = i
<1>. DEFINE n == Cardinality(places)
            place == [k \in 1 .. n |-> NthPlace(places, k)]
            number == [i \in places |-> Cardinality({j \in places : j < i})]
<1>1. n \in Nat
  BY FS_CardinalityType
<1>2. /\ \A k \in 1 .. n : place[k] \in places /\ number[place[k]] = k - 1
      /\ \A k \in 1 .. n : place[k] = NthPlace(places, k)
  BY NumbersTaken DEF NthPlace
<1>3. /\ \A i \in places : number[i] \in 0 .. n - 1
      /\ \A i, j \in places : i < j => number[i] < number[j]
  BY BelowGrows
<1>4. \A i \in places : i \in Int
  OBVIOUS
<1>. HIDE DEF n, place, number
<1>5. ASSUME NEW k \in 1 .. n, NEW l \in 1 .. n, k < l PROVE place[k] < place[l]
  <2>1. /\ place[k] \in places /\ number[place[k]] = k - 1 /\ place[k] \in Int
        /\ place[l] \in places /\ number[place[l]] = l - 1 /\ place[l] \in Int
    BY <1>2, <1>4
  <2>2. ~(number[place[l]] < number[place[k]]) /\ place[l] # place[k]
    BY <1>1, <1>5, <2>1
  <2>3. ~(place[l] < place[k])
    BY <1>3, <2>1, <2>2
  <2>. QED  BY <2>1, <2>2, <2>3
<1>6. ASSUME NEW i \in places PROVE \E k \in 1 .. n : place[k] = i
  <2>1. PICK k \in 1 .. n : k - 1 = number[i]
    BY <1>1, <1>3
  <2>2. place[k] \in places /\ number[place[k]] = number[i]
    BY <1>2, <2>1
  <2>3. PICK j \in places : j = place[k]
    BY <2>2
  <2>4. number[i] \in Int /\ number[j] = number[i] /\ i \in Int /\ j \in Int
    BY <1>1, <1>3, <1>4, <2>2, <2>3
  <2>5. ~(j < i) /\ ~(i < j)
    BY <1>3, <2>4
  <2>6. i = j
    BY <2>4, <2>5
  <2>. QED  BY <2>3, <2>6
<1>. QED  BY <1>1, <1>2, <1>5, <1>6 DEF n

\* What is kept is a sequence of as many elements as places, each of which
\* stands in the same order in both.
LEMMA KeptInOrder ==
  ASSUME NEW S, NEW s \in Seq(S), NEW places \in SUBSET DOMAIN s
  PROVE  /\ Kept(s, places) \in Seq(S)
         /\ Len(Kept(s, places)) = Cardinality(places)
         /\ IsFiniteSet(places)
         /\ \A k \in DOMAIN Kept(s, places) :
              /\ NthPlace(places, k) \in places
              /\ Kept(s, places)[k] = s[NthPlace(places, k)]
         /\ \A k, l \in DOMAIN Kept(s, places) :
              k < l => NthPlace(places, k) < NthPlace(places, l)
         /\ \A i \in places : \E k \in DOMAIN Kept(s, places) : NthPlace(places, k) = i
<1>. DEFINE n == Cardinality(places)
<1>1. DOMAIN s = 1 .. Len(s) /\ Len(s) \in Nat
  OBVIOUS
<1>2. IsFiniteSet(places) /\ places \in SUBSET Int
  <2>1. IsFiniteSet(1 .. Len(s))
    BY <1>1, FS_Interval
  <2>2. places \in SUBSET (1 .. Len(s)) /\ 1 .. Len(s) \subseteq Int
    BY <1>1
  <2>. QED  BY <2>1, <2>2, FS_Subset
<1>3. /\ n \in Nat
      /\ \A k \in 1 .. n : NthPlace(places, k) \in places
      /\ \A k, l \in 1 .. n : k < l => NthPlace(places, k) < NthPlace(places, l)
      /\ \A i \in places : \E k \in 1 .. n : NthPlace(places, k) = i
  BY <1>2, PlacesInOrder
<1>. HIDE DEF n
<1>4. Kept(s, places) = [k \in 1 .. n |-> s[NthPlace(places, k)]]
  BY DEF Kept, n
<1>5. Kept(s, places) \in [1 .. n -> S]
  BY <1>3, <1>4
<1>6. /\ Kept(s, places) \in Seq(S) /\ Len(Kept(s, places)) = n
      /\ DOMAIN Kept(s, places) = 1 .. n
  BY <1>3, <1>5
<1>. QED  BY <1>2, <1>3, <1>4, <1>6 DEF n

\* The number of each place among those that are kept.
LEMMA KeptNumbered ==
  ASSUME NEW S, NEW s \in Seq(S), NEW places \in SUBSET DOMAIN s
  PROVE  LET n == Len(Kept(s, places)) IN
         /\ n \in Nat /\ DOMAIN Kept(s, places) = 1 .. n
         /\ \E number \in [places -> 1 .. n] :
              /\ \A i \in places : Kept(s, places)[number[i]] = s[i]
              /\ \A i, j \in places : i < j => number[i] < number[j]
              /\ \A k \in 1 .. n : \E i \in places : number[i] = k
<1>. DEFINE n == Len(Kept(s, places))
            place == [k \in 1 .. n |-> NthPlace(places, k)]
            number == [i \in places |-> CHOOSE k \in 1 .. n : place[k] = i]
<1>1. n \in Nat /\ DOMAIN Kept(s, places) = 1 .. n
  BY KeptInOrder
<1>2. /\ \A k \in 1 .. n : place[k] \in places /\ Kept(s, places)[k] = s[place[k]]
      /\ \A k, l \in 1 .. n : k < l => place[k] < place[l]
      /\ \A i \in places : \E k \in 1 .. n : place[k] = i
  <2>1. /\ \A k \in 1 .. n :
             /\ NthPlace(places, k) \in places
             /\ Kept(s, places)[k] = s[NthPlace(places, k)]
        /\ \A k, l \in 1 .. n : k < l => NthPlace(places, k) < NthPlace(places, l)
        /\ \A i \in places : \E k \in 1 .. n : NthPlace(places, k) = i
    <3>. HIDE DEF n
    <3>. QED  BY <1>1, KeptInOrder
  <2>2. \A k \in 1 .. n : place[k] = NthPlace(places, k)
    OBVIOUS
  <2>. HIDE DEF place, n
  <2>. QED  BY <2>1, <2>2
<1>3. \A i \in places : i \in Nat
  BY DOMAIN s = 1 .. Len(s)
<1>. HIDE DEF place, n
<1>4. \A i \in places : number[i] \in 1 .. n /\ place[number[i]] = i
  BY <1>2
<1>5. number \in [places -> 1 .. n]
  BY <1>4
<1>. HIDE DEF number
<1>6. ASSUME NEW k \in 1 .. n, NEW l \in 1 .. n, place[k] <= place[l] PROVE k <= l
  <2>1. SUFFICES ASSUME l < k PROVE FALSE
    BY <1>1
  <2>2. place[l] < place[k] /\ place[l] \in Nat /\ place[k] \in Nat
    BY <1>2, <1>3, <2>1
  <2>. QED  BY <1>6, <2>2
<1>7. ASSUME NEW i \in places, NEW j \in places, i < j PROVE number[i] < number[j]
  <2>1. /\ number[i] \in 1 .. n /\ place[number[i]] = i
        /\ number[j] \in 1 .. n /\ place[number[j]] = j
    BY <1>4
  <2>2. number[i] <= number[j]
    BY <1>3, <1>6, <1>7, <2>1
  <2>3. number[i] # number[j]
    BY <1>3, <1>7, <2>1
  <2>. QED  BY <1>1, <2>1, <2>2, <2>3
<1>8. ASSUME NEW k \in 1 .. n PROVE \E i \in places : number[i] = k
  <2>1. place[k] \in places /\ number[place[k]] \in 1 .. n
        /\ place[number[place[k]]] = place[k]
    BY <1>2, <1>4
  <2>2. number[place[k]] <= k /\ k <= number[place[k]]
    BY <1>3, <1>6, <2>1
  <2>. QED  BY <1>1, <2>1, <2>2
<1>9. \A i \in places : Kept(s, places)[number[i]] = s[i]
  BY <1>2, <1>4
<1>. QED  BY <1>1, <1>5, <1>7, <1>8, <1>9 DEF n

\* The elements of what is kept.
LEMMA KeptElements ==
  ASSUME NEW S, NEW s \in Seq(S), NEW places \in SUBSET DOMAIN s
  PROVE  ToSet(Kept(s, places)) = {s[i] : i \in places}
BY KeptInOrder DEF ToSet

LEMMA OnlyElements ==
  ASSUME NEW S, NEW s \in Seq(S), NEW wanted
  PROVE  /\ Only(s, wanted) \in Seq(S)
         /\ ToSet(Only(s, wanted)) = ToSet(s) \cap wanted
<1>. DEFINE places == {i \in DOMAIN s : s[i] \in wanted}
<1>1. places \in SUBSET DOMAIN s /\ Only(s, wanted) = Kept(s, places)
  BY DEF Only
<1>2. {s[i] : i \in places} = ToSet(s) \cap wanted
  BY DEF ToSet
<1>. HIDE DEF places
<1>3. Kept(s, places) \in Seq(S) /\ ToSet(Kept(s, places)) = {s[i] : i \in places}
  BY <1>1, KeptInOrder, KeptElements
<1>. QED  BY <1>1, <1>2, <1>3

LEMMA OnlyFits ==
  ASSUME NEW s, s \in Seq(ToSet(s)), NEW wanted, NEW S, ToSet(s) \cap wanted \subseteq S
  PROVE  Only(s, wanted) \in Seq(S)
<1>1. /\ Only(s, wanted) \in Seq(ToSet(s))
      /\ ToSet(Only(s, wanted)) \subseteq S
  BY OnlyElements
<1>2. \A i \in DOMAIN Only(s, wanted) : Only(s, wanted)[i] \in S
  BY <1>1 DEF ToSet
<1>. QED  BY <1>1, <1>2

\* The elements of two sequences in a row.
LEMMA BothElements ==
  ASSUME NEW S, NEW s \in Seq(S), NEW t \in Seq(S)
  PROVE  s \o t \in Seq(S) /\ ToSet(s \o t) = ToSet(s) \cup ToSet(t)
<1>1. /\ s \o t \in Seq(S) /\ Len(s \o t) = Len(s) + Len(t)
      /\ Len(s) \in Nat /\ Len(t) \in Nat
      /\ DOMAIN s = 1 .. Len(s) /\ DOMAIN t = 1 .. Len(t)
      /\ DOMAIN (s \o t) = 1 .. Len(s) + Len(t)
      /\ \A i \in 1 .. Len(s) : (s \o t)[i] = s[i]
      /\ \A i \in 1 .. Len(t) : (s \o t)[Len(s) + i] = t[i]
  OBVIOUS
<1>2. ToSet(s) \cup ToSet(t) \subseteq ToSet(s \o t)
  <2>1. \A i \in 1 .. Len(t) : Len(s) + i \in 1 .. Len(s) + Len(t)
    BY <1>1
  <2>2. \A i \in 1 .. Len(s) : i \in 1 .. Len(s) + Len(t)
    BY <1>1
  <2>. QED  BY <1>1, <2>1, <2>2 DEF ToSet
<1>3. ASSUME NEW i \in 1 .. Len(s) + Len(t)
      PROVE  (s \o t)[i] \in ToSet(s) \cup ToSet(t)
  <2>1. CASE i <= Len(s)
    BY <1>1, <2>1 DEF ToSet
  <2>2. CASE i > Len(s)
    <3>1. i - Len(s) \in 1 .. Len(t) /\ Len(s) + (i - Len(s)) = i
      BY <1>1, <2>2
    <3>. QED  BY <1>1, <3>1 DEF ToSet
  <2>. QED  BY <1>1, <2>1, <2>2
<1>. QED  BY <1>1, <1>2, <1>3 DEF ToSet

=============================================================================
