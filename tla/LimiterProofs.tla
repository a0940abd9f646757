--------------------------- MODULE LimiterProofs ---------------------------
(***************************************************************************)
(* The limiter keeps its promise for every set of providers and addresses, *)
(* every table of limits and every budget.                                 *)
(***************************************************************************)
EXTENDS Limiter, FiniteSetTheorems, TLAPS

\* The inductive invariant: the types, finitely many addresses in _held (else
\* Cardinality says nothing), the accounting and the limits.
IInv ==
  /\ TypeOK
  /\ IsFiniteSet(held)
  /\ Accounting
  /\ WithinLimits

\* Adding one address that was not in a finite set of addresses, and removing
\* one that was, moves its cardinality by one.
LEMMA OneMore ==
  ASSUME NEW S, IsFiniteSet(S), NEW a, a \notin S
  PROVE  /\ IsFiniteSet(S \cup {a})
         /\ Cardinality(S) \in Nat
         /\ Cardinality(S \cup {a}) = Cardinality(S) + 1
BY FS_AddElement, FS_CardinalityType

LEMMA OneLess ==
  ASSUME NEW S, IsFiniteSet(S), NEW a \in S
  PROVE  /\ IsFiniteSet(S \ {a})
         /\ Cardinality(S) \in Nat
         /\ Cardinality(S \ {a}) \in Nat
         /\ Cardinality(S) = Cardinality(S \ {a}) + 1
<1>1. IsFiniteSet(S \ {a}) /\ Cardinality(S \ {a}) = Cardinality(S) - 1
  BY FS_RemoveElement
<1>2. Cardinality(S) \in Nat /\ Cardinality(S \ {a}) \in Nat
  BY <1>1, FS_CardinalityType
<1>. QED  BY <1>1, <1>2

\* The sets of reservations that are out are finite, their sizes numbers.
LEMMA OutFinite ==
  ASSUME IsFiniteSet(held)
  PROVE  /\ \A p : IsFiniteSet(Out(p)) /\ Cardinality(Out(p)) \in Nat
         /\ IsFiniteSet(OutAll) /\ Cardinality(OutAll) \in Nat
<1>1. OutAll \subseteq held /\ \A p : Out(p) \subseteq held
  BY DEF Out, OutAll
<1>2. IsFiniteSet(OutAll) /\ \A p : IsFiniteSet(Out(p))
  BY <1>1, FS_Subset
<1>. QED  BY <1>2, FS_CardinalityType

LEMMA EmptyCounts == Cardinality({}) = 0 /\ IsFiniteSet({})
BY FS_EmptySet

LEMMA InitHolds == Init => IInv
<1> SUFFICES ASSUME Init PROVE IInv
  OBVIOUS
<1>1. OutAll = {} /\ \A p \in Providers : Out(p) = {}
  BY DEF Init, Out, OutAll
<1>2. TypeOK
  BY DEF Init, TypeOK
<1>3. Accounting
  BY <1>1, EmptyCounts DEF Init, Accounting
<1>4. WithinLimits
  BY <1>1 DEF WithinLimits
<1>. QED  BY <1>2, <1>3, <1>4, EmptyCounts DEF IInv, Init

\* What a grant does to the sets that are out: its address joins them.  The
\* address was free, so it was in none of them, even when it is still in _held
\* because an earlier reservation there leaked.
LEMMA GrantSets ==
  ASSUME IInv, NEW a \in Addrs, NEW p \in Providers, TryReserve(p, a)
  PROVE  /\ a \notin OutAll /\ a \notin Out(p)
         /\ OutAll' = OutAll \cup {a}
         /\ Out(p)' = Out(p) \cup {a}
         /\ \A q \in Providers : q # p => Out(q)' = Out(q)
         /\ IsFiniteSet(held')
<1>1. IsFiniteSet(held \cup {a})
  BY FS_AddElement DEF IInv
<1>2. \A b \in Addrs : live'[b] = IF b = a THEN p ELSE live[b]
  BY DEF TryReserve, IInv, TypeOK
<1>3. held \subseteq Addrs /\ held' = held \cup {a} /\ live[a] = NoObj
  BY DEF TryReserve, IInv, TypeOK
<1>. QED  BY <1>1, <1>2, <1>3, NamesAssumption DEF Out, OutAll

\* The provider of a reservation is one of the providers.
LEMMA LiveProvider ==
  ASSUME IInv, NEW a \in Addrs, live[a] # NoObj
  PROVE  live[a] \in Providers
BY DEF IInv, TypeOK

\* What a return does to them: the address, which is in _held, leaves.
LEMMA DropSets ==
  ASSUME IInv, NEW a \in held, NEW p \in Providers, live[a] = p, Drop(a)
  PROVE  /\ a \in OutAll /\ a \in Out(p)
         /\ OutAll' = OutAll \ {a}
         /\ Out(p)' = Out(p) \ {a}
         /\ \A q \in Providers : q # p => Out(q)' = Out(q)
         /\ IsFiniteSet(held')
<1>1. IsFiniteSet(held \ {a})
  BY FS_RemoveElement DEF IInv
<1>2. held' = held \ {a} /\ live' = live /\ live[a] # NoObj
  BY DEF Drop
<1>. QED  BY <1>1, <1>2 DEF Out, OutAll

\* What the death of a reservation does to them: an unreturned one leaves, a
\* returned one was in none of them.
LEMMA CollectSets ==
  ASSUME IInv, NEW a \in Addrs, NEW p \in Providers, live[a] = p, Collect(a)
  PROVE  /\ a \in held => /\ a \in OutAll /\ a \in Out(p)
                          /\ OutAll' = OutAll \ {a}
                          /\ Out(p)' = Out(p) \ {a}
         /\ a \notin held => OutAll' = OutAll /\ Out(p)' = Out(p)
         /\ \A q \in Providers : q # p => Out(q)' = Out(q)
<1>1. \A b \in Addrs : live'[b] = IF b = a THEN NoObj ELSE live[b]
  BY DEF Collect, IInv, TypeOK
<1>2. held \subseteq Addrs /\ held' = held /\ live[a] # NoObj
  BY DEF Collect, IInv, TypeOK
<1>3. /\ OutAll' = OutAll \ {a} /\ Out(p)' = Out(p) \ {a}
      /\ \A q \in Providers : q # p => Out(q)' = Out(q)
  BY <1>1, <1>2, NamesAssumption DEF Out, OutAll
<1>4. a \in held => a \in OutAll /\ a \in Out(p)
  BY <1>2 DEF Out, OutAll
<1>5. a \notin held => a \notin OutAll /\ a \notin Out(p)
  BY DEF Out, OutAll
<1>. QED  BY <1>3, <1>4, <1>5

LEMMA GrantKeeps ==
  ASSUME IInv, NEW a \in Addrs, NEW p \in Providers, TryReserve(p, a)
  PROVE  IInv'
<1>1. TypeOK'
  BY DEF TryReserve, IInv, TypeOK
<1>2. /\ \A q : IsFiniteSet(Out(q)) /\ Cardinality(Out(q)) \in Nat
      /\ IsFiniteSet(OutAll) /\ Cardinality(OutAll) \in Nat
  BY OutFinite DEF IInv
<1>3. /\ Cardinality(OutAll') = Cardinality(OutAll) + 1
      /\ Cardinality(Out(p)') = Cardinality(Out(p)) + 1
      /\ \A q \in Providers : q # p => Cardinality(Out(q)') = Cardinality(Out(q))
  BY <1>2, GrantSets, OneMore
<1>4. /\ \A q \in Providers : inflight'[q] = IF q = p THEN inflight[q] + 1 ELSE inflight[q]
      /\ globalInflight' = globalInflight + 1
      /\ lost' = lost /\ lostAll' = lostAll
  BY DEF TryReserve, IInv, TypeOK
<1>5. /\ \A q \in Providers : inflight[q] = Cardinality(Out(q)) + lost[q] /\ lost[q] \in Nat
      /\ globalInflight = Cardinality(OutAll) + lostAll /\ lostAll \in Nat
  BY DEF IInv, Accounting, TypeOK
<1>6. Accounting'
  BY <1>2, <1>3, <1>4, <1>5 DEF Accounting
<1>7. WithinLimits'
  <2>1. LimitFor(p) \in Int /\ inflight[p] < LimitFor(p)
    <3>1. LimitFor(p) \in Int
      BY LimitsAssumption DEF LimitFor
    <3>. QED  BY <3>1 DEF TryReserve, RateLimitedOn, Full, IInv, TypeOK
  <2>2. GlobalBudget # NoBudget => GlobalBudget \in Int /\ globalInflight < GlobalBudget
    <3>1. GlobalBudget # NoBudget => GlobalBudget \in Int
      BY BudgetAssumption
    <3>. QED  BY <3>1 DEF TryReserve, RateLimitedOn, BudgetExceededOn, OverBudget, IInv, TypeOK
  <2>3. ASSUME NEW q \in Providers, Out(q)' # {}
        PROVE  Cardinality(Out(q)') + lost'[q] <= LimitFor(q)
    <3>1. CASE q = p
      BY <3>1, <1>2, <1>3, <1>4, <1>5, <2>1
    <3>2. CASE q # p
      BY <3>2, <2>3, <1>4, GrantSets DEF IInv, WithinLimits
    <3>. QED  BY <3>1, <3>2
  <2>4. GlobalBudget # NoBudget => Cardinality(OutAll') + lostAll' <= GlobalBudget
    BY <1>2, <1>3, <1>4, <1>5, <2>2
  <2>. QED  BY <2>3, <2>4 DEF WithinLimits, LimitFor
<1>. QED  BY <1>1, <1>6, <1>7, GrantSets DEF IInv

LEMMA DropKeeps ==
  ASSUME IInv, NEW a \in held, NEW p \in Providers, live[a] = p, Drop(a)
  PROVE  IInv'
<1>1. /\ \A q : IsFiniteSet(Out(q)) /\ Cardinality(Out(q)) \in Nat
      /\ IsFiniteSet(OutAll) /\ Cardinality(OutAll) \in Nat
  BY OutFinite DEF IInv
<1>3. /\ Cardinality(OutAll) = Cardinality(OutAll') + 1 /\ Cardinality(OutAll') \in Nat
      /\ Cardinality(Out(p)) = Cardinality(Out(p)') + 1 /\ Cardinality(Out(p)') \in Nat
      /\ \A q \in Providers : q # p => Cardinality(Out(q)') = Cardinality(Out(q))
  <2>1. /\ a \in OutAll /\ a \in Out(p)
        /\ OutAll' = OutAll \ {a} /\ Out(p)' = Out(p) \ {a}
        /\ \A q \in Providers : q # p => Out(q)' = Out(q)
    BY DropSets
  <2>. QED  BY <1>1, <2>1, OneLess
<1>4. /\ \A q \in Providers : inflight[q] = Cardinality(Out(q)) + lost[q] /\ lost[q] \in Nat
      /\ globalInflight = Cardinality(OutAll) + lostAll /\ lostAll \in Nat
  BY DEF IInv, Accounting, TypeOK
\* Neither clamp of _drop applies: the reservation is counted in both.
<1>5. inflight[p] > 0 /\ globalInflight > 0
  BY <1>3, <1>4
<1>6. /\ \A q \in Providers : inflight'[q] = IF q = p THEN inflight[q] - 1 ELSE inflight[q]
      /\ globalInflight' = globalInflight - 1
      /\ lost' = lost /\ lostAll' = lostAll
  BY <1>5 DEF Drop, Decrement, IInv, TypeOK
<1>7. TypeOK'
  <2>1. inflight' \in [Providers -> Nat]
    BY <1>5 DEF Drop, Decrement, IInv, TypeOK
  <2>2. globalInflight' \in Nat
    BY <1>5, <1>6 DEF IInv, TypeOK
  <2>. QED  BY <2>1, <2>2 DEF Drop, IInv, TypeOK
<1>8. Accounting'
  BY <1>1, <1>3, <1>4, <1>6 DEF Accounting
<1>9. WithinLimits'
  <2>1. ASSUME NEW q \in Providers, Out(q)' # {}
        PROVE  Cardinality(Out(q)') + lost'[q] <= LimitFor(q)
    <3>1. Out(q) # {}
      BY <2>1, DropSets
    <3>2. Cardinality(Out(q)) + lost[q] <= LimitFor(q)
      BY <3>1 DEF IInv, WithinLimits
    <3>3. LimitFor(q) \in Int
      BY LimitsAssumption DEF LimitFor
    <3>4. Cardinality(Out(q)') <= Cardinality(Out(q)) /\ Cardinality(Out(q)') \in Nat
      BY <1>1, <1>3
    <3>. QED  BY <3>2, <3>3, <3>4, <1>1, <1>4, <1>6
  <2>2. GlobalBudget # NoBudget => Cardinality(OutAll') + lostAll' <= GlobalBudget
    <3>1. OutAll # {}
      BY DropSets
    <3>2. GlobalBudget # NoBudget =>
            GlobalBudget \in Int /\ Cardinality(OutAll) + lostAll <= GlobalBudget
      BY <3>1, BudgetAssumption DEF IInv, WithinLimits
    <3>. QED  BY <3>2, <1>1, <1>3, <1>4, <1>6
  <2>. QED  BY <2>1, <2>2 DEF WithinLimits, LimitFor
<1>. QED  BY <1>7, <1>8, <1>9, DropSets DEF IInv

\* A second return leaves every variable as it was.
LEMMA DropAgain ==
  ASSUME NEW a, a \notin held, Drop(a)
  PROVE  UNCHANGED vars
BY DEF Drop, vars

LEMMA CollectKeeps ==
  ASSUME IInv, NEW a \in Addrs, Collect(a)
  PROVE  IInv'
<1> DEFINE p == live[a]
<1>1. p \in Providers
  BY LiveProvider DEF Collect
<1>2. /\ \A q : IsFiniteSet(Out(q)) /\ Cardinality(Out(q)) \in Nat
      /\ IsFiniteSet(OutAll) /\ Cardinality(OutAll) \in Nat
  BY OutFinite DEF IInv
<1>3. PICK q \in Providers : q = live[a]
  BY <1>1
<1> HIDE DEF p
<1>4. TypeOK'
  <2>1. lost' \in [Providers -> Nat] /\ lostAll' \in Nat
    BY <1>3 DEF Collect, IInv, TypeOK
  <2>. QED  BY <2>1 DEF Collect, IInv, TypeOK
<1>5. held' = held /\ inflight' = inflight /\ globalInflight' = globalInflight
  BY DEF Collect
<1>6. CASE a \in held
  <2>1. /\ a \in OutAll /\ a \in Out(q)
        /\ OutAll' = OutAll \ {a} /\ Out(q)' = Out(q) \ {a}
        /\ \A r \in Providers : r # q => Out(r)' = Out(r)
    BY <1>3, <1>6, CollectSets
  <2>2. /\ Cardinality(OutAll) = Cardinality(OutAll') + 1 /\ Cardinality(OutAll') \in Nat
        /\ Cardinality(Out(q)) = Cardinality(Out(q)') + 1 /\ Cardinality(Out(q)') \in Nat
        /\ \A r \in Providers : r # q => Cardinality(Out(r)') = Cardinality(Out(r))
    BY <1>2, <2>1, OneLess
  <2>3. /\ \A r \in Providers : lost'[r] = IF r = q THEN lost[r] + 1 ELSE lost[r]
        /\ lostAll' = lostAll + 1
    BY <1>3, <1>6 DEF Collect, IInv, TypeOK
  <2>4. (\A r \in Providers : lost[r] \in Nat) /\ lostAll \in Nat
    BY DEF IInv, TypeOK
  <2>5. /\ \A r \in Providers : Cardinality(Out(r)') + lost'[r] = Cardinality(Out(r)) + lost[r]
        /\ Cardinality(OutAll') + lostAll' = Cardinality(OutAll) + lostAll
    BY <1>2, <2>2, <2>3, <2>4
  <2>6. Accounting'
    BY <1>5, <2>5 DEF IInv, Accounting
  <2>7. WithinLimits'
    BY <2>1, <2>5 DEF IInv, WithinLimits, LimitFor
  <2>. QED  BY <1>4, <1>5, <2>6, <2>7 DEF IInv
<1>7. CASE a \notin held
  <2>1. OutAll' = OutAll /\ \A r \in Providers : Out(r)' = Out(r)
    BY <1>3, <1>7, CollectSets
  <2>2. lost' = lost /\ lostAll' = lostAll
    BY <1>7 DEF Collect
  <2>3. Accounting' /\ WithinLimits'
    BY <1>5, <2>1, <2>2 DEF IInv, Accounting, WithinLimits, LimitFor
  <2>. QED  BY <1>4, <1>5, <2>3 DEF IInv
<1>. QED  BY <1>6, <1>7

LEMMA NextKeeps == IInv /\ [Next]_vars => IInv'
<1> SUFFICES ASSUME IInv, [Next]_vars PROVE IInv'
  OBVIOUS
<1>1. ASSUME NEW a \in Addrs, NEW p \in Providers, TryReserve(p, a)
      PROVE  IInv'
  BY <1>1, GrantKeeps
<1>2. ASSUME NEW a \in Addrs, Drop(a)
      PROVE  IInv'
  <2>1. CASE a \in held
    <3>1. PICK p \in Providers : p = live[a]
      BY <1>2, LiveProvider DEF Drop
    <3>. QED  BY <1>2, <2>1, <3>1, DropKeeps
  <2>2. CASE a \notin held
    <3>1. UNCHANGED vars
      BY <1>2, <2>2, DropAgain
    <3>. QED  BY <3>1 DEF vars, IInv, TypeOK, Accounting, WithinLimits, Out, OutAll, LimitFor
  <2>. QED  BY <2>1, <2>2
<1>3. ASSUME NEW a \in Addrs, Collect(a)
      PROVE  IInv'
  BY <1>3, CollectKeeps
<1>4. CASE UNCHANGED vars
  BY <1>4 DEF vars, IInv, TypeOK, Accounting, WithinLimits, Out, OutAll, LimitFor
<1>. QED  BY <1>1, <1>2, <1>3, <1>4 DEF Next

LEMMA Inductive == Spec => []IInv
<1>. QED  BY InitHolds, NextKeeps, PTL DEF Spec

\* InMemoryLimiter's counters stay numbers: _drop never takes one below zero.
THEOREM TypeCorrect == Spec => []TypeOK
<1>1. IInv => TypeOK
  BY DEF IInv
<1>. QED  BY <1>1, Inductive, PTL

\* _inflight and _global_inflight are exact at every moment, for every set of
\* providers, callers and limits, whatever is returned twice or leaked.
THEOREM AccountingExact == Spec => []Accounting
<1>1. IInv => Accounting
  BY DEF IInv
<1>. QED  BY <1>1, Inductive, PTL

\* try_reserve never lets more reservations out than max_inflight and the
\* global budget allow.
THEOREM LimitsHold == Spec => []WithinLimits
<1>1. IInv => WithinLimits
  BY DEF IInv
<1>. QED  BY <1>1, Inductive, PTL

\* SlotPool counts with the same Cardinality.
LEMMA SameCardinality == \A S : Pool!Cardinality(S) = Cardinality(S)
BY DEF Pool!Cardinality, Cardinality, Pool!IsFiniteSet, IsFiniteSet

\* What the pool calls taken is what the limiter calls out.
LEMMA TakenIsOut ==
  ASSUME IInv
  PROVE  /\ \A p \in Providers : Pool!Taken(p) = inflight[p]
         /\ Pool!TakenAll = globalInflight
<1> DEFINE owner == [a \in Addrs |-> IF a \in held THEN live[a] ELSE NoObj]
<1>1. \A p \in Providers : {h \in Addrs : owner[h] = p} = Out(p)
  BY NamesAssumption DEF Out, IInv, TypeOK
<1>2. {h \in Addrs : owner[h] # NoObj} = OutAll
  BY DEF OutAll, IInv, TypeOK
<1>. QED  BY <1>1, <1>2, SameCardinality DEF Pool!Taken, Pool!TakenAll, IInv, Accounting

LEMMA InitMaps == Init => Pool!Init
BY DEF Init, Pool!Init

LEMMA GrantMaps ==
  ASSUME IInv, NEW a \in Addrs, NEW p \in Providers, TryReserve(p, a)
  PROVE  Pool!Acquire(a, p)
<1> DEFINE owner == [b \in Addrs |-> IF b \in held THEN live[b] ELSE NoObj]
<1>1. owner[a] = NoObj
  BY DEF TryReserve
<1>2. Pool!Taken(p) < LimitFor(p)
  <2>1. LimitFor(p) \in Int
    BY LimitsAssumption DEF LimitFor
  <2>. QED  BY <2>1, TakenIsOut DEF TryReserve, RateLimitedOn, Full, IInv, TypeOK
<1>3. GlobalBudget # NoBudget => Pool!TakenAll < GlobalBudget
  BY TakenIsOut, BudgetAssumption
     DEF TryReserve, RateLimitedOn, BudgetExceededOn, OverBudget, IInv, TypeOK
<1>4. owner' = [owner EXCEPT ![a] = p]
  BY DEF TryReserve, IInv, TypeOK
<1>5. UNCHANGED <<lost, lostAll>>
  BY DEF TryReserve
<1>. QED  BY <1>1, <1>2, <1>3, <1>4, <1>5 DEF Pool!Acquire

LEMMA DropMaps ==
  ASSUME IInv, NEW a \in Addrs, Drop(a), a \in held
  PROVE  Pool!Return(a)
<1> DEFINE owner == [b \in Addrs |-> IF b \in held THEN live[b] ELSE NoObj]
<1>1. owner[a] # NoObj
  BY DEF Drop
<1>2. owner' = [owner EXCEPT ![a] = NoObj]
  BY DEF Drop, IInv, TypeOK
<1>. QED  BY <1>1, <1>2 DEF Drop, Pool!Return

LEMMA CollectMaps ==
  ASSUME IInv, NEW a \in Addrs, Collect(a)
  PROVE  Pool!Lose(a) \/ UNCHANGED Pool!vars
<1> DEFINE owner == [b \in Addrs |-> IF b \in held THEN live[b] ELSE NoObj]
<1>1. owner' = [owner EXCEPT ![a] = NoObj]
  BY DEF Collect, IInv, TypeOK
<1>2. CASE a \in held
  <2>1. owner[a] # NoObj /\ owner[a] = live[a]
    BY <1>2 DEF Collect
  <2>. QED  BY <1>1, <1>2, <2>1 DEF Collect, Pool!Lose
<1>3. CASE a \notin held
  <2>1. owner' = owner
    BY <1>1, <1>3 DEF IInv, TypeOK
  <2>. QED  BY <1>3, <2>1 DEF Collect, Pool!vars
<1>. QED  BY <1>2, <1>3

LEMMA StepMaps == IInv /\ [Next]_vars => [Pool!Next]_(Pool!vars)
<1> SUFFICES ASSUME IInv, [Next]_vars PROVE [Pool!Next]_(Pool!vars)
  OBVIOUS
<1>1. ASSUME NEW a \in Addrs, NEW p \in Providers, TryReserve(p, a)
      PROVE  Pool!Next
  BY <1>1, GrantMaps DEF Pool!Next
<1>2. ASSUME NEW a \in Addrs, Drop(a)
      PROVE  Pool!Next \/ UNCHANGED Pool!vars
  <2>1. CASE a \in held
    BY <1>2, <2>1, DropMaps DEF Pool!Next
  <2>2. CASE a \notin held
    BY <1>2, <2>2, DropAgain DEF vars, Pool!vars
  <2>. QED  BY <2>1, <2>2
<1>3. ASSUME NEW a \in Addrs, Collect(a)
      PROVE  Pool!Next \/ UNCHANGED Pool!vars
  BY <1>3, CollectMaps DEF Pool!Next
<1>4. CASE UNCHANGED vars
  BY <1>4 DEF vars, Pool!vars
<1>. QED  BY <1>1, <1>2, <1>3, <1>4 DEF Next

\* The limiter implements the pool of slots of SlotPool: with counters and
\* addresses alone it hands out exactly the slots there are, takes each back
\* once, and loses only those whose reservation was dropped unreturned.
THEOREM Implements == Spec => ImplementsSlotPool
<1>1. Init => Pool!Init
  BY InitMaps
<1>2. IInv /\ [Next]_vars => [Pool!Next]_(Pool!vars)
  BY StepMaps
<1>. QED  BY <1>1, <1>2, Inductive, PTL DEF Spec, ImplementsSlotPool, Pool!Spec

=============================================================================
