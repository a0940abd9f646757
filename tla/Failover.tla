------------------------------ MODULE Failover ------------------------------
(***************************************************************************)
(* What a client promises a caller, of docs/design.md, "Orchestration      *)
(* flow": a call goes through a plan in order, each attempt says whether   *)
(* another may follow, and what the call ends with is what its attempts    *)
(* say.  Slots, cooldowns, locks, hooks and other calls do not appear;     *)
(* ChainClient and SmartClient implement it.                               *)
(***************************************************************************)
EXTENDS Integers, Sequences

CONSTANTS
  Calls,
  Repeated,   \* the callers that call again when their call has ended
  MaySkip     \* whether a place of the plan may be left out

VARIABLES
  plan,       \* plan[c]: the targets c is to try, <<>> before they are known
  trail,      \* trail[c]: its attempts: their place and verdict
  outcome     \* outcome[c]: "none" until c ends

vars == <<plan, trail, outcome>>

Verdicts == {"ok", "pass", "stop"}

Reached(c) == IF trail[c] = <<>> THEN 0 ELSE trail[c][Len(trail[c])].at
LastSays(c, verdict) == trail[c] # <<>> /\ trail[c][Len(trail[c])].verdict = verdict
MayTry(c) == trail[c] = <<>> \/ LastSays(c, "pass")

Init ==
  /\ plan = [c \in Calls |-> <<>>]
  /\ trail = [c \in Calls |-> <<>>]
  /\ outcome = [c \in Calls |-> "none"]

\* The call knows its targets, and keeps to them.
Begin(c) ==
  /\ plan[c] = <<>> /\ outcome[c] = "none"
  /\ plan' = [plan EXCEPT ![c] = plan'[c]]
  /\ UNCHANGED <<trail, outcome>>

Try(c) ==
  /\ outcome[c] = "none" /\ MayTry(c)
  /\ \E i \in Reached(c) + 1 .. Len(plan[c]), v \in Verdicts :
       /\ ~MaySkip => i = Reached(c) + 1
       /\ trail' = [trail EXCEPT ![c] = Append(@, [at |-> i, verdict |-> v])]
  /\ UNCHANGED <<plan, outcome>>

\* Whether the call may end like this.
Fits(c, o) ==
  CASE o = "result"      -> LastSays(c, "ok")
    [] o = "stopped"     -> LastSays(c, "stop")
    [] o = "exhausted"   -> LastSays(c, "pass") /\ (MaySkip \/ Reached(c) = Len(plan[c]))
    [] o = "ineligible"  -> trail[c] = <<>> /\ (MaySkip \/ plan[c] = <<>>)
    [] o = "refused"     -> plan[c] = <<>>
    [] o = "budget"      -> plan[c] # <<>> /\ MayTry(c)
    [] o = "interrupted" -> TRUE

End(c) ==
  /\ outcome[c] = "none"
  /\ \E o \in {"result", "stopped", "exhausted", "ineligible", "refused", "budget",
               "interrupted"} :
       Fits(c, o) /\ outcome' = [outcome EXCEPT ![c] = o]
  /\ UNCHANGED <<plan, trail>>

Again(c) ==
  /\ c \in Repeated /\ outcome[c] # "none"
  /\ plan' = [plan EXCEPT ![c] = <<>>]
  /\ trail' = [trail EXCEPT ![c] = <<>>]
  /\ outcome' = [outcome EXCEPT ![c] = "none"]

Next == \E c \in Calls : Begin(c) \/ Try(c) \/ End(c) \/ Again(c)

Spec == Init /\ [][Next]_vars

=============================================================================
