------------------------------- MODULE Limiter -------------------------------
(***************************************************************************)
(* InMemoryLimiter (limits.py): the inflight counters that every Client    *)
(* and AsyncClient call goes through.  try_reserve, release and finalize   *)
(* run under one lock, so each is one action.                              *)
(*                                                                         *)
(* The limiter remembers a reservation by id(reservation), the address of  *)
(* the MemoryReservation object, which CPython gives to another object as  *)
(* soon as the last reference to this one is dropped.  The model keeps the *)
(* addresses: `live` is the part of the heap that matters, `held` the set  *)
(* of addresses in _held.  Callers are arbitrary: they may return a        *)
(* reservation any number of times while they have it, and may drop it     *)
(* without returning it (an exception that arrives between try_reserve and *)
(* the try statement of Client.complete), which leaks the slot.            *)
(***************************************************************************)
EXTENDS Integers, FiniteSets

CONSTANTS
  Providers,       \* the provider names callers may pass
  Addrs,           \* object addresses
  NoObj,           \* no reservation at this address
  PerProvider,     \* _per_provider: max_inflight of the providers it lists
  GlobalBudget,    \* _global_budget: an integer, or NoBudget for None
  NoBudget

ASSUME NamesAssumption == NoObj \notin Providers
ASSUME LimitsAssumption ==
  /\ DOMAIN PerProvider \subseteq Providers
  /\ \A p \in DOMAIN PerProvider : PerProvider[p] \in Int
ASSUME BudgetAssumption ==
  /\ NoBudget \notin Int
  /\ GlobalBudget \in Int \cup {NoBudget}

VARIABLES
  inflight,        \* _inflight, 0 where the dictionary has no entry
  globalInflight,  \* _global_inflight
  held,            \* _held: the addresses of reservations not yet returned
  live,            \* live[a]: provider of the reservation object at a, or NoObj
  lost,            \* history: slots of p whose reservation was dropped unreturned
  lostAll          \* history: the same over all providers

vars == <<inflight, globalInflight, held, live, lost, lostAll>>

-----------------------------------------------------------------------------

\* _limit_for: a provider without an entry gets one slot.
LimitFor(p) == IF p \in DOMAIN PerProvider THEN PerProvider[p] ELSE 1

\* Mutant of Full: one reservation too many.
Full_OffByOne(p) == inflight[p] > LimitFor(p)

Full(p) == inflight[p] >= LimitFor(p)
OverBudget == GlobalBudget # NoBudget /\ globalInflight >= GlobalBudget

\* What try_reserve(p) answers; the provider's limit is looked at first.
RateLimitedOn(p) == Full(p)
BudgetExceededOn(p) == ~Full(p) /\ OverBudget

Init ==
  /\ inflight = [p \in Providers |-> 0]
  /\ globalInflight = 0
  /\ held = {}
  /\ live = [a \in Addrs |-> NoObj]
  /\ lost = [p \in Providers |-> 0]
  /\ lostAll = 0

\* try_reserve that succeeds, the new reservation being allocated at a.
TryReserve(p, a) ==
  /\ ~RateLimitedOn(p)
  /\ ~BudgetExceededOn(p)
  /\ live[a] = NoObj
  /\ inflight' = [inflight EXCEPT ![p] = @ + 1]
  /\ globalInflight' = globalInflight + 1
  /\ held' = held \cup {a}
  /\ live' = [live EXCEPT ![a] = p]
  /\ UNCHANGED <<lost, lostAll>>

Decrement(n) == IF n > 0 THEN n - 1 ELSE n

\* Mutants of Drop: without the look into _held, without that and the clamps,
\* and without taking the address out of _held.
Drop_Unchecked(a) ==
  /\ live[a] # NoObj
  /\ held' = held \ {a}
  /\ inflight' = [inflight EXCEPT ![live[a]] = Decrement(@)]
  /\ globalInflight' = Decrement(globalInflight)
  /\ UNCHANGED <<live, lost, lostAll>>

Drop_Unclamped(a) ==
  /\ live[a] # NoObj
  /\ held' = held \ {a}
  /\ inflight' = [inflight EXCEPT ![live[a]] = @ - 1]
  /\ globalInflight' = globalInflight - 1
  /\ UNCHANGED <<live, lost, lostAll>>

Drop_KeepsId(a) ==
  /\ live[a] # NoObj /\ a \in held
  /\ inflight' = [inflight EXCEPT ![live[a]] = Decrement(@)]
  /\ globalInflight' = Decrement(globalInflight)
  /\ UNCHANGED <<held, live, lost, lostAll>>

\* release and finalize: a reservation whose address is not in _held was
\* returned before, and nothing happens.
Drop(a) ==
  /\ live[a] # NoObj
  /\ IF a \in held
     THEN /\ held' = held \ {a}
          /\ inflight' = [inflight EXCEPT ![live[a]] = Decrement(@)]
          /\ globalInflight' = Decrement(globalInflight)
     ELSE UNCHANGED <<held, inflight, globalInflight>>
  /\ UNCHANGED <<live, lost, lostAll>>

\* The caller's last reference goes away and the address is free again.  The
\* limiter is not told: an unreturned address stays in _held.
Collect(a) ==
  /\ live[a] # NoObj
  /\ live' = [live EXCEPT ![a] = NoObj]
  /\ IF a \in held
     THEN /\ lost' = [lost EXCEPT ![live[a]] = @ + 1]
          /\ lostAll' = lostAll + 1
     ELSE UNCHANGED <<lost, lostAll>>
  /\ UNCHANGED <<inflight, globalInflight, held>>

Next ==
  \E a \in Addrs :
     \/ \E p \in Providers : TryReserve(p, a)
     \/ Drop(a)
     \/ Collect(a)

Spec == Init /\ [][Next]_vars

-----------------------------------------------------------------------------

\* The reservations of p that are out: allocated, alive, not yet returned.
Out(p) == {a \in held : live[a] = p}
OutAll == {a \in held : live[a] # NoObj}

\* The counters are numbers, the reservations alive name providers.
TypeOK ==
  /\ inflight \in [Providers -> Nat]
  /\ globalInflight \in Nat
  /\ held \in SUBSET Addrs
  /\ live \in [Addrs -> Providers \cup {NoObj}]
  /\ lost \in [Providers -> Nat]
  /\ lostAll \in Nat

\* Every counter is exactly the reservations that are out plus the slots that
\* leaked: no double return, no reuse of the address of a leaked reservation
\* makes _inflight or _global_inflight drift from the truth.
Accounting ==
  /\ \A p \in Providers : inflight[p] = Cardinality(Out(p)) + lost[p]
  /\ globalInflight = Cardinality(OutAll) + lostAll

\* More reservations than max_inflight are never out for a provider, nor more
\* than the global budget in all, whatever was returned twice or leaked; a
\* limit or a budget of zero or below admits nothing.
WithinLimits ==
  /\ \A p \in Providers :
        Out(p) # {} => Cardinality(Out(p)) + lost[p] <= LimitFor(p)
  /\ GlobalBudget # NoBudget /\ OutAll # {} =>
        Cardinality(OutAll) + lostAll <= GlobalBudget

\* The promise to callers: the limiter's counters and addresses implement a
\* pool of slots in which nothing is counted.
Pool == INSTANCE SlotPool WITH
  Holders <- Addrs,
  Nobody <- NoObj,
  Capacity <- LimitFor,
  HasBudget <- GlobalBudget # NoBudget,
  Budget <- GlobalBudget,
  owner <- [a \in Addrs |-> IF a \in held THEN live[a] ELSE NoObj]

\* Every step of the limiter is a step of that pool, or changes nothing in it:
\* in particular a second return, and the death of a returned reservation.
ImplementsSlotPool == Pool!Spec

=============================================================================
