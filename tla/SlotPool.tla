------------------------------ MODULE SlotPool ------------------------------
(***************************************************************************)
(* What the inflight limiter of multiprovider-llm promises its callers: a  *)
(* pool of request slots, some of them reserved for one provider, all of   *)
(* them drawn from an optional global budget.  A holder owns at most one   *)
(* slot, a slot comes back to the pool once however often it is returned,  *)
(* and a slot whose holder vanishes without returning it is lost for good. *)
(* Nothing here counts: what is taken is the set of the owned slots.       *)
(***************************************************************************)
EXTENDS Integers, FiniteSets

CONSTANTS
  Providers,       \* the provider names
  Holders,         \* who may own a slot
  Nobody,          \* the owner of no slot
  Capacity(_),     \* the slots of a provider
  HasBudget,       \* whether there is a global budget
  Budget           \* the global budget, when there is one

VARIABLES
  owner,           \* owner[h]: the provider whose slot h owns, or Nobody
  lost,            \* lost[p]: slots of p whose holder vanished
  lostAll          \* slots of any provider whose holder vanished

vars == <<owner, lost, lostAll>>

Taken(p) == Cardinality({h \in Holders : owner[h] = p}) + lost[p]
TakenAll == Cardinality({h \in Holders : owner[h] # Nobody}) + lostAll

Init ==
  /\ owner = [h \in Holders |-> Nobody]
  /\ lost = [p \in Providers |-> 0]
  /\ lostAll = 0

Acquire(h, p) ==
  /\ owner[h] = Nobody
  /\ Taken(p) < Capacity(p)
  /\ HasBudget => TakenAll < Budget
  /\ owner' = [owner EXCEPT ![h] = p]
  /\ UNCHANGED <<lost, lostAll>>

Return(h) ==
  /\ owner[h] # Nobody
  /\ owner' = [owner EXCEPT ![h] = Nobody]
  /\ UNCHANGED <<lost, lostAll>>

Lose(h) ==
  /\ owner[h] # Nobody
  /\ owner' = [owner EXCEPT ![h] = Nobody]
  /\ lost' = [lost EXCEPT ![owner[h]] = @ + 1]
  /\ lostAll' = lostAll + 1

Next ==
  \E h \in Holders :
     \/ \E p \in Providers : Acquire(h, p)
     \/ Return(h)
     \/ Lose(h)

Spec == Init /\ [][Next]_vars

=============================================================================
