-------------------------- MODULE ChainClientProofs --------------------------
(***************************************************************************)
(* For every configuration, every set of calls and whatever the adapters   *)
(* answer: concurrent calls hold no slot while a hook runs, lose and       *)
(* miscount none, and never wait for a provider beyond its limit; what a   *)
(* call ends with and what its hooks are told fit its attempts; and each   *)
(* call is the failover that Failover promises.                            *)
(*                                                                         *)
(* The invariant IInv is about slots; the parts after it go on from it.    *)
(***************************************************************************)
EXTENDS ChainClient, SubsequenceProofs

\* Types of the variables the argument is about.
Shape ==
  /\ pc \in [Calls -> PCs]
  /\ rsv \in [Calls -> Addrs \cup {NoObj}]
  /\ held \subseteq Addrs
  /\ live \in [Addrs -> Providers \cup {NoObj}]
  /\ request \in [Calls -> Requests]
  /\ chain \in [Calls -> Seq(Providers)]
  /\ pos \in [Calls -> Nat \ {0}]

\* A call at a provider is at a place of its chain.
OnChain(c) ==
  pc[c] \in {"reserve", "denied", "build", "call", "release", "record", "cool"} =>
    pos[c] <= Len(chain[c])

\* A call's reservation object is alive and its own.
Own ==
  /\ \A c \in Calls : rsv[c] # NoObj => live[rsv[c]] # NoObj
  /\ \A c, d \in Calls : c # d /\ rsv[c] = rsv[d] => rsv[c] = NoObj

\* Where a call has a reservation, where it has none, and where the one it has
\* was returned already.
Stage(c) ==
  /\ pc[c] \in {"build", "call", "release", "record", "cool", "report", "unwind"} =>
       rsv[c] # NoObj
  /\ pc[c] \in {"idle", "choose", "reserve", "denied"} => rsv[c] = NoObj
  /\ pc[c] \in {"record", "cool", "notify", "report", "returned", "raised"} =>
       rsv[c] \notin held

IInv == Shape /\ Own /\ \A c \in Calls : OnChain(c) /\ Stage(c)

LEMMA InitHolds == Init => IInv
BY ObjectsAssumption DEF Init, Limiter!Init, IInv, Shape, Own, Stage, OnChain, PCs

\* The provider a call is at is one of the providers.
LEMMA CurrentProvider ==
  ASSUME IInv, NEW c \in Calls, pos[c] <= Len(chain[c])
  PROVE  Current(c) \in Providers
<1>1. chain[c] \in Seq(Providers) /\ pos[c] \in Nat \ {0}
  BY DEF IInv, Shape
<1>2. pos[c] \in 1 .. Len(chain[c])
  BY <1>1
<1>. QED  BY <1>1, <1>2 DEF Current

\* A step of one call that leaves the limiter and the reservations alone keeps
\* the invariant if the call's new place fits what it holds.
LEMMA QuietStep ==
  ASSUME IInv, NEW c \in Calls, NEW l \in PCs,
         pc' = [pc EXCEPT ![c] = l],
         UNCHANGED <<held, live, rsv, request>>,
         chain' \in [Calls -> Seq(Providers)], pos' \in [Calls -> Nat \ {0}],
         \A d \in Calls : d # c => chain'[d] = chain[d] /\ pos'[d] = pos[d],
         OnChain(c)', Stage(c)'
  PROVE  IInv'
<1>1. Shape'
  BY DEF IInv, Shape
<1>2. Own'
  BY DEF IInv, Own
<1>3. ASSUME NEW d \in Calls PROVE OnChain(d)' /\ Stage(d)'
  <2>1. CASE d = c
    BY <2>1
  <2>2. CASE d # c
    <3>1. pc'[d] = pc[d] /\ chain'[d] = chain[d] /\ pos'[d] = pos[d]
      BY <2>2 DEF IInv, Shape
    <3>. QED  BY <3>1 DEF IInv, OnChain, Stage
  <2>. QED  BY <2>1, <2>2
<1>. QED  BY <1>1, <1>2, <1>3 DEF IInv

\* The same for a step that also moves nothing in the chain.
LEMMA LabelStep ==
  ASSUME IInv, NEW c \in Calls, NEW l \in PCs,
         pc' = [pc EXCEPT ![c] = l],
         UNCHANGED <<held, live, rsv, request, chain, pos>>,
         OnChain(c)', Stage(c)'
  PROVE  IInv'
<1>1. chain' \in [Calls -> Seq(Providers)] /\ pos' \in [Calls -> Nat \ {0}]
  BY DEF IInv, Shape
<1>. QED  BY <1>1, QuietStep

\* NoObj is the address of nothing the limiter holds.
LEMMA NoObjNotHeld == IInv => NoObj \notin held
BY ObjectsAssumption DEF IInv, Shape

\* A chain that is resolved is a sequence of configured providers.
LEMMA ChainIsResolved ==
  ASSUME NEW r \in Requests
  PROVE  ResolveChain(Config, r) \in Seq(Providers)
<1>. DEFINE order == Config.provider_order
            able == {n \in Providers : Eligible(Config, n, r.fresh)}
            base == FilterNames(Config, order, r.fresh)
<1>1. ASSUME NEW names, names \in Seq(ToSet(names))
      PROVE  FilterNames(Config, names, r.fresh) \in Seq(Providers)
  <2>1. {n \in ToSet(names) : Eligible(Config, n, r.fresh)} \subseteq Providers
    BY DEF Eligible, Providers
  <2>. QED  BY <1>1, <2>1, OnlyFits DEF FilterNames
<1>2. base \in Seq(Providers)
  BY <1>1, NamesAssumption DEF NameLists
<1>3. ASSUME NEW route, route \in Seq(ToSet(route))
      PROVE  TierChain(base, route) \in Seq(Providers)
  <2>. DEFINE lead == Only(route, ToSet(base))
              others == Only(base, ToSet(base) \ ToSet(lead))
  <2>1. ToSet(base) \subseteq Providers
    BY <1>2 DEF ToSet
  <2>2. lead \in Seq(Providers)
    BY <1>3, <2>1, OnlyFits
  <2>3. others \in Seq(Providers)
    BY <1>2, OnlyElements
  <2>4. lead \o others \in Seq(Providers)
    BY <2>2, <2>3, BothElements
  <2>. QED  BY <2>4 DEF TierChain
<1>. DEFINE routed == r.tier \cap DOMAIN Config.tier_routing
<1>4. CASE r.provider_chain # {}
  <2>1. PICK names \in r.provider_chain : ResolveChain(Config, r) = FilterNames(Config, names, r.fresh)
    BY <1>4 DEF ResolveChain
  <2>2. names \in NameLists(Config, Requests)
    BY <2>1 DEF NameLists
  <2>3. names \in Seq(ToSet(names))
    BY <2>2, NamesAssumption
  <2>. QED  BY <1>1, <2>1, <2>3
<1>5. CASE r.provider_chain = {} /\ routed = {}
  BY <1>2, <1>5 DEF ResolveChain
<1>6. CASE r.provider_chain = {} /\ routed # {}
  <2>1. PICK t \in routed : ResolveChain(Config, r) = TierChain(base, Config.tier_routing[t])
    BY <1>6 DEF ResolveChain
  <2>2. Config.tier_routing[t] \in NameLists(Config, Requests)
    BY DEF NameLists
  <2>3. Config.tier_routing[t] \in Seq(ToSet(Config.tier_routing[t]))
    BY <2>2, NamesAssumption
  <2>. QED  BY <1>3, <2>1, <2>3
<1>. QED  BY <1>4, <1>5, <1>6

LEMMA PrepareKeeps ==
  ASSUME IInv, NEW c \in Calls, Prepare(c) \/ InterruptPrepare(c)
  PROVE  IInv'
<1>1. UNCHANGED <<held, live, rsv, request, pos>> /\ pc[c] = "idle"
  BY DEF Prepare, InterruptPrepare, limiterVars
<1>2. rsv[c] = NoObj /\ NoObj \notin held
  BY <1>1, NoObjNotHeld DEF IInv, Stage
<1>3. pos' \in [Calls -> Nat \ {0}]
  BY <1>1 DEF IInv, Shape
<1>4. CASE pc' = [pc EXCEPT ![c] = "notify"] /\ chain' = chain
  <2>1. pc'[c] = "notify"
    BY <1>4 DEF IInv, Shape
  <2>2. OnChain(c)' /\ Stage(c)'
    BY <1>1, <1>2, <2>1 DEF OnChain, Stage
  <2>. QED  BY <1>1, <1>4, <2>2, LabelStep DEF PCs
<1>5. CASE /\ pc' = [pc EXCEPT ![c] = "choose"]
           /\ ~UnknownProvider(Config, request[c])
           /\ chain' = [chain EXCEPT ![c] = ResolveChain(Config, request[c])]
  <2>1. pc'[c] = "choose"
    BY <1>5 DEF IInv, Shape
  <2>2. OnChain(c)' /\ Stage(c)'
    BY <1>1, <1>2, <2>1 DEF OnChain, Stage
  <2>3. request[c] \in Requests
    BY DEF IInv, Shape
  <2>4. ResolveChain(Config, request[c]) \in Seq(Providers)
    BY <2>3, ChainIsResolved
  <2>5. /\ chain' \in [Calls -> Seq(Providers)]
        /\ \A d \in Calls : d # c => chain'[d] = chain[d]
    BY <1>5, <2>4 DEF IInv, Shape
  <2>. QED  BY <1>1, <1>3, <1>5, <2>2, <2>5, QuietStep DEF PCs
<1>. QED  BY <1>4, <1>5 DEF Prepare, InterruptPrepare, Refused, Goto

\* The loop head and the refusals of try_reserve.
LEMMA ChooseKeeps ==
  ASSUME IInv, NEW c \in Calls,
         SkipCooling(c) \/ NotCooling(c) \/ Denied(c) \/ RecordDenied(c)
           \/ OutOfBudget(c) \/ Exhausted(c)
  PROVE  IInv'
<1>1. UNCHANGED <<held, live, rsv, request, chain>>
  BY DEF SkipCooling, NotCooling, Denied, RecordDenied, OutOfBudget, Exhausted, limiterVars
<1>2. pc[c] \in {"choose", "reserve", "denied"}
  BY DEF SkipCooling, NotCooling, Denied, RecordDenied, OutOfBudget, Exhausted
<1>3. rsv[c] = NoObj /\ NoObj \notin held
  BY <1>2, NoObjNotHeld DEF IInv, Stage
<1>4. pos[c] \in Nat \ {0} /\ chain[c] \in Seq(Providers) /\ Len(chain[c]) \in Nat
  BY DEF IInv, Shape
<1>5. CASE SkipCooling(c)
  <2>1. pc' = [pc EXCEPT ![c] = "choose"] /\ pc'[c] = "choose"
    BY <1>5 DEF SkipCooling, IInv, Shape
  <2>2. pos' \in [Calls -> Nat \ {0}] /\ \A d \in Calls : d # c => pos'[d] = pos[d]
    BY <1>5 DEF SkipCooling, IInv, Shape
  <2>3. OnChain(c)' /\ Stage(c)'
    BY <1>1, <1>3, <2>1 DEF OnChain, Stage
  <2>4. chain' \in [Calls -> Seq(Providers)]
    BY <1>1 DEF IInv, Shape
  <2>. QED  BY <1>1, <2>1, <2>2, <2>3, <2>4, QuietStep DEF PCs
<1>6. CASE NotCooling(c)
  <2>1. pc' = [pc EXCEPT ![c] = "reserve"] /\ pc'[c] = "reserve" /\ pos' = pos
    BY <1>6 DEF NotCooling, Goto, IInv, Shape
  <2>2. pos[c] <= Len(chain[c])
    BY <1>4, <1>6 DEF NotCooling, AtEnd
  <2>3. OnChain(c)' /\ Stage(c)'
    BY <1>1, <1>3, <2>1, <2>2 DEF OnChain, Stage
  <2>. QED  BY <1>1, <2>1, <2>3, LabelStep DEF PCs
<1>7. CASE Denied(c)
  <2>1. pc' = [pc EXCEPT ![c] = "denied"] /\ pc'[c] = "denied" /\ pos' = pos
    BY <1>7 DEF Denied, Goto, IInv, Shape
  <2>2. pos[c] <= Len(chain[c])
    BY <1>7 DEF Denied, IInv, OnChain
  <2>3. OnChain(c)' /\ Stage(c)'
    BY <1>1, <1>3, <2>1, <2>2 DEF OnChain, Stage
  <2>. QED  BY <1>1, <2>1, <2>3, LabelStep DEF PCs
<1>8. CASE RecordDenied(c)
  <2>1. pc' = [pc EXCEPT ![c] = "choose"] /\ pc'[c] = "choose"
    BY <1>8 DEF RecordDenied, Goto, IInv, Shape
  <2>2. pos' \in [Calls -> Nat \ {0}] /\ \A d \in Calls : d # c => pos'[d] = pos[d]
    BY <1>8 DEF RecordDenied, IInv, Shape
  <2>3. OnChain(c)' /\ Stage(c)'
    BY <1>1, <1>3, <2>1 DEF OnChain, Stage
  <2>4. chain' \in [Calls -> Seq(Providers)]
    BY <1>1 DEF IInv, Shape
  <2>. QED  BY <1>1, <2>1, <2>2, <2>3, <2>4, QuietStep DEF PCs
<1>9. CASE OutOfBudget(c) \/ Exhausted(c)
  <2>1. pc' = [pc EXCEPT ![c] = "notify"] /\ pc'[c] = "notify" /\ pos' = pos
    BY <1>9 DEF OutOfBudget, Exhausted, Goto, IInv, Shape
  <2>2. OnChain(c)' /\ Stage(c)'
    BY <1>1, <1>3, <2>1 DEF OnChain, Stage
  <2>. QED  BY <1>1, <2>1, <2>2, LabelStep DEF PCs
<1>. QED  BY <1>5, <1>6, <1>7, <1>8, <1>9

\* A granted reservation is at an address no other call has.
LEMMA ReserveKeeps ==
  ASSUME IInv, NEW c \in Calls, Reserve(c)
  PROVE  IInv'
<1>1. PICK a \in Addrs : Limiter!TryReserve(Current(c), a) /\ rsv' = [rsv EXCEPT ![c] = a]
  BY DEF Reserve
<1>2. /\ pc[c] = "reserve" /\ pc' = [pc EXCEPT ![c] = "build"]
      /\ UNCHANGED <<request, chain, pos>>
  BY DEF Reserve, Goto
<1>3. pos[c] <= Len(chain[c])
  BY <1>2 DEF IInv, OnChain
<1>4. Current(c) \in Providers
  BY <1>3, CurrentProvider
<1>5. PICK p \in Providers : p = Current(c)
  BY <1>4
<1>6. /\ live[a] = NoObj /\ live' = [live EXCEPT ![a] = p]
      /\ held' = held \cup {a}
  BY <1>1, <1>5 DEF Limiter!TryReserve
<1>7. Shape'
  BY <1>1, <1>2, <1>6 DEF IInv, Shape, PCs
<1>8. \A d \in Calls : d # c => rsv'[d] = rsv[d] /\ rsv[d] # a /\ pc'[d] = pc[d]
  BY <1>1, <1>2, <1>6, ObjectsAssumption DEF IInv, Shape, Own
<1>9. rsv'[c] = a /\ pc'[c] = "build" /\ live'[a] = p
  BY <1>1, <1>2, <1>6 DEF IInv, Shape
<1>10. \A b \in Addrs : b # a => live'[b] = live[b]
  BY <1>6 DEF IInv, Shape
<1>11. Own'
  <2>1. \A d \in Calls : rsv'[d] # NoObj => live'[rsv'[d]] # NoObj
    BY <1>8, <1>9, <1>10, ObjectsAssumption DEF IInv, Shape, Own
  <2>2. \A d, e \in Calls : d # e /\ rsv'[d] = rsv'[e] => rsv'[d] = NoObj
    BY <1>8, <1>9 DEF IInv, Own
  <2>. QED  BY <2>1, <2>2 DEF Own
<1>12. ASSUME NEW d \in Calls PROVE OnChain(d)' /\ Stage(d)'
  <2>1. CASE d = c
    BY <2>1, <1>2, <1>3, <1>9, ObjectsAssumption DEF OnChain, Stage
  <2>2. CASE d # c
    BY <2>2, <1>2, <1>6, <1>8 DEF IInv, OnChain, Stage
  <2>. QED  BY <2>1, <2>2
<1>. QED  BY <1>1, <1>5, <1>7, <1>11, <1>12 DEF IInv

\* Steps that only move a call that has its reservation.
LEMMA MoveKeeps ==
  ASSUME IInv, NEW c \in Calls,
         Build(c) \/ AdapterReplies(c) \/ RecordSuccess(c) \/ RecordStop(c)
           \/ RecordCooling(c) \/ NotifyFailure(c) \/ Interrupt(c) \/ Cancel(c)
  PROVE  IInv'
<1>1. UNCHANGED <<held, live, rsv, request, chain, pos>>
  BY DEF Build, AdapterReplies, RecordSuccess, RecordStop, RecordCooling,
         NotifyFailure, Interrupt, Cancel, limiterVars
<1>2. CASE Build(c)
  <2>1. pc[c] = "build" /\ pc' = [pc EXCEPT ![c] = "call"] /\ pc'[c] = "call"
    BY <1>2 DEF Build, Goto, IInv, Shape
  <2>2. OnChain(c)' /\ Stage(c)'
    BY <1>1, <2>1 DEF IInv, OnChain, Stage
  <2>. QED  BY <1>1, <2>1, <2>2, LabelStep DEF PCs
<1>3. CASE AdapterReplies(c)
  <2>1. pc[c] = "call" /\ pc' = [pc EXCEPT ![c] = "release"] /\ pc'[c] = "release"
    BY <1>3 DEF AdapterReplies, Goto, IInv, Shape
  <2>2. OnChain(c)' /\ Stage(c)'
    BY <1>1, <2>1 DEF IInv, OnChain, Stage
  <2>. QED  BY <1>1, <2>1, <2>2, LabelStep DEF PCs
<1>4. CASE RecordSuccess(c) \/ RecordStop(c) \/ RecordCooling(c)
  <2>1. PICK l \in {"report", "notify", "cool"} : pc' = [pc EXCEPT ![c] = l]
    BY <1>4 DEF RecordSuccess, RecordStop, RecordCooling, Goto
  <2>2. pc[c] = "record" /\ pc'[c] = l
    BY <1>4, <2>1 DEF RecordSuccess, RecordStop, RecordCooling, Recorded, IInv, Shape
  <2>3. OnChain(c)' /\ Stage(c)'
    BY <1>1, <2>2 DEF IInv, OnChain, Stage
  <2>. QED  BY <1>1, <2>1, <2>3, LabelStep DEF PCs
<1>5. CASE NotifyFailure(c)
  <2>1. PICK l \in {"raised", "interrupted", "unwind"} :
          pc' = [pc EXCEPT ![c] = l] /\ (l = "unwind" => rsv[c] # NoObj)
    BY <1>5 DEF NotifyFailure, Goto
  <2>2. pc[c] = "notify" /\ pc'[c] = l
    BY <1>5, <2>1 DEF NotifyFailure, IInv, Shape
  <2>3. OnChain(c)' /\ Stage(c)'
    BY <1>1, <2>1, <2>2 DEF IInv, OnChain, Stage
  <2>. QED  BY <1>1, <2>1, <2>3, LabelStep DEF PCs
<1>6. CASE Interrupt(c) \/ Cancel(c)
  <2>1. PICK l \in {"interrupted", "unwind"} :
          /\ pc' = [pc EXCEPT ![c] = l]
          /\ l = "unwind" => UnderTry(c)
    BY <1>6 DEF Interrupt, Cancel, Goto, UnderTry
  <2>2. pc'[c] = l
    BY <2>1 DEF IInv, Shape
  <2>3. l = "unwind" => rsv[c] # NoObj
    BY <2>1 DEF UnderTry, IInv, Stage
  <2>4. OnChain(c)' /\ Stage(c)'
    BY <1>1, <2>2, <2>3 DEF OnChain, Stage
  <2>. QED  BY <1>1, <2>1, <2>4, LabelStep DEF PCs
<1>. QED  BY <1>2, <1>3, <1>4, <1>5, <1>6

\* finalize and release, by the handlers and by the finally clause: afterwards
\* the reservation is not in _held, whether it was before or not.
LEMMA DropKeeps ==
  ASSUME IInv, NEW c \in Calls, ReturnSlot(c) \/ Unwind(c)
  PROVE  IInv'
<1>1. /\ pc[c] \in {"release", "unwind"} /\ Limiter!Drop(rsv[c])
      /\ UNCHANGED <<request, chain, pos, rsv>>
  BY DEF ReturnSlot, Unwind
<1>2. PICK l \in {"record", "interrupted", "raised"} :
        pc' = [pc EXCEPT ![c] = l] /\ (l = "record" => pc[c] = "release")
  BY DEF ReturnSlot, Unwind, Goto
<1>3. rsv[c] # NoObj /\ rsv[c] \in Addrs
  BY <1>1 DEF IInv, Stage, Shape
<1>4. live' = live /\ held' \subseteq held /\ rsv[c] \notin held'
  BY <1>1 DEF Limiter!Drop
<1>5. pc'[c] = l /\ \A d \in Calls : d # c => pc'[d] = pc[d]
  BY <1>2 DEF IInv, Shape
<1>6. Shape' /\ Own'
  BY <1>1, <1>2, <1>4 DEF IInv, Shape, Own, PCs
<1>7. ASSUME NEW d \in Calls PROVE OnChain(d)' /\ Stage(d)'
  <2>1. CASE d = c
    BY <2>1, <1>1, <1>2, <1>3, <1>4, <1>5 DEF IInv, OnChain, Stage
  <2>2. CASE d # c
    BY <2>2, <1>1, <1>4, <1>5 DEF IInv, OnChain, Stage
  <2>. QED  BY <2>1, <2>2
<1>. QED  BY <1>1, <1>3, <1>6, <1>7 DEF IInv

\* A reservation object dies: at the next provider, at the return, or with the
\* traceback of the exception that ended the call.
LEMMA CollectKeeps ==
  ASSUME IInv, NEW c \in Calls,
         RecordContinue(c) \/ SetCooldown(c) \/ Return(c) \/ DropTraceback(c)
  PROVE  IInv'
<1>1. /\ Limiter!Collect(rsv[c]) /\ rsv' = [rsv EXCEPT ![c] = NoObj]
      /\ UNCHANGED <<request, chain>>
  BY DEF RecordContinue, SetCooldown, Return, DropTraceback, NextProvider
<1>2. PICK l \in {"choose", "returned", pc[c]} :
        /\ pc' = [pc EXCEPT ![c] = l]
        /\ pos' = pos \/ pos' = [pos EXCEPT ![c] = @ + 1]
        /\ l = "choose" \/ l = "returned" \/ Ended(c)
  BY DEF RecordContinue, SetCooldown, Return, DropTraceback, NextProvider, Goto, IInv, Shape
<1>3. rsv[c] \in Addrs
  <2>1. CASE DropTraceback(c)
    BY <2>1 DEF DropTraceback, IInv, Shape
  <2>2. CASE RecordContinue(c) \/ SetCooldown(c) \/ Return(c)
    <3>1. pc[c] \in {"record", "cool", "report"}
      BY <2>2 DEF RecordContinue, SetCooldown, Return, Recorded
    <3>. QED  BY <3>1 DEF IInv, Stage, Shape
  <2>. QED  BY <2>1, <2>2
<1>4. held' = held /\ live' = [live EXCEPT ![rsv[c]] = NoObj]
  BY <1>1 DEF Limiter!Collect
<1>5. /\ rsv'[c] = NoObj /\ pc'[c] = l
      /\ \A d \in Calls : d # c => rsv'[d] = rsv[d] /\ pc'[d] = pc[d] /\ pos'[d] = pos[d]
  BY <1>1, <1>2 DEF IInv, Shape
<1>6. l \in PCs
  BY <1>2 DEF IInv, Shape, PCs
<1>7. Shape'
  <2>1. pos' \in [Calls -> Nat \ {0}]
    <3>1. pos \in [Calls -> Nat \ {0}] /\ pos[c] + 1 \in Nat \ {0}
      BY DEF IInv, Shape
    <3>2. CASE pos' = pos
      BY <3>1, <3>2
    <3>3. CASE pos' = [pos EXCEPT ![c] = @ + 1]
      BY <3>1, <3>3
    <3>. QED  BY <1>2, <3>2, <3>3
  <2>2. pc' \in [Calls -> PCs]
    BY <1>2, <1>6 DEF IInv, Shape
  <2>3. live' \in [Addrs -> Providers \cup {NoObj}] /\ held' \subseteq Addrs
    BY <1>4 DEF IInv, Shape
  <2>4. rsv' \in [Calls -> Addrs \cup {NoObj}]
    BY <1>1 DEF IInv, Shape
  <2>. QED  BY <1>1, <2>1, <2>2, <2>3, <2>4 DEF IInv, Shape
<1>8. Own'
  <2>1. \A d \in Calls : d # c /\ rsv[d] # NoObj => rsv[d] # rsv[c] /\ rsv[d] \in Addrs
    BY <1>3, ObjectsAssumption DEF IInv, Shape, Own
  <2>2. ASSUME NEW d \in Calls, rsv'[d] # NoObj PROVE live'[rsv'[d]] # NoObj
    <3>1. d # c /\ rsv'[d] = rsv[d] /\ rsv[d] # NoObj
      BY <1>5, <2>2
    <3>2. rsv[d] # rsv[c] /\ rsv[d] \in Addrs /\ live[rsv[d]] # NoObj
      BY <2>1, <3>1 DEF IInv, Own
    <3>. QED  BY <1>4, <3>1, <3>2 DEF IInv, Shape
  <2>3. \A d, e \in Calls : d # e /\ rsv'[d] = rsv'[e] => rsv'[d] = NoObj
    BY <1>5 DEF IInv, Own
  <2>. QED  BY <2>2, <2>3 DEF Own
<1>9. ASSUME NEW d \in Calls PROVE OnChain(d)' /\ Stage(d)'
  <2>1. CASE d = c
    <3>1. l \in {"choose", "returned", "raised", "interrupted"}
      BY <1>2 DEF Ended
    <3>2. NoObj \notin held'
      BY <1>4, NoObjNotHeld
    <3>. QED  BY <2>1, <3>1, <3>2, <1>5 DEF OnChain, Stage
  <2>2. CASE d # c
    BY <2>2, <1>1, <1>4, <1>5 DEF IInv, OnChain, Stage
  <2>. QED  BY <2>1, <2>2
<1>. QED  BY <1>1, <1>3, <1>7, <1>8, <1>9 DEF IInv

LEMMA Stutter == IInv /\ UNCHANGED vars => IInv'
BY DEF vars, limiterVars, callVars, IInv, Shape, Own, Stage, OnChain

LEMMA NextKeeps == IInv /\ [Next]_vars => IInv'
<1> SUFFICES ASSUME IInv, [Next]_vars PROVE IInv'
  OBVIOUS
<1>1. ASSUME NEW c \in Calls, Prepare(c) \/ InterruptPrepare(c) PROVE IInv'
  BY <1>1, PrepareKeeps
<1>2. ASSUME NEW c \in Calls, Step(c) PROVE IInv'
  BY <1>2, ChooseKeeps, ReserveKeeps, MoveKeeps, DropKeeps, CollectKeeps DEF Step
<1>3. ASSUME NEW c \in Calls, Interrupt(c) \/ Cancel(c) PROVE IInv'
  BY <1>3, MoveKeeps
<1>4. ASSUME NEW c \in Calls, DropTraceback(c) PROVE IInv'
  BY <1>4, CollectKeeps
<1>5. CASE Tick
  BY <1>5 DEF Tick, limiterVars, callVars, IInv, Shape, Own, Stage, OnChain
<1>6. CASE UNCHANGED vars
  BY <1>6, Stutter
<1>. QED  BY <1>1, <1>2, <1>3, <1>4, <1>5, <1>6 DEF Next

LEMMA Inductive == Spec => []IInv
<1>. QED  BY InitHolds, NextKeeps, PTL DEF Spec

\* No hook of a call runs while the call holds a slot, for every set of calls,
\* every configuration and every answer: what _handle_adapter_exception and
\* _handle_success must release or finalize first.
THEOREM HooksUnreserved == Spec => []HooksRunUnreserved
<1>1. IInv => HooksRunUnreserved
  BY DEF IInv, Stage, HooksRunUnreserved, Holds
<1>. QED  BY <1>1, Inductive, PTL

-----------------------------------------------------------------------------
(* What the invariant is enough for *)

\* Error and hooks are tables over the calls; no type of their entries is needed.
Tables ==
  /\ error = [c \in Calls |-> error[c]]
  /\ told = [c \in Calls |-> told[c]]

\* A step of one call leaves every other call where it was.
LEMMA OneCallMoves ==
  ASSUME IInv, Tables, NEW c \in Calls,
         Prepare(c) \/ InterruptPrepare(c) \/ Step(c) \/ Interrupt(c) \/ Cancel(c) \/ DropTraceback(c)
  PROVE  /\ Tables'
         /\ \A d \in Calls : d # c =>
              /\ pc'[d] = pc[d] /\ rsv'[d] = rsv[d]
              /\ error'[d] = error[d] /\ told'[d] = told[d]
<1>1. PICK l : pc' = [pc EXCEPT ![c] = l]
  <2>1. pc = [pc EXCEPT ![c] = pc[c]]
    BY DEF IInv, Shape
  <2>. QED
    BY <2>1 DEF Prepare, InterruptPrepare, Refused, Step, SkipCooling, NotCooling, Reserve, Denied,
       RecordDenied, OutOfBudget, Build, AdapterReplies, ReturnSlot, RecordSuccess,
       RecordStop, RecordCooling, RecordContinue, SetCooldown, NextProvider, Exhausted,
       NotifyFailure, Return, Unwind, Interrupt, Cancel, DropTraceback, Goto
<1>2. PICK a : rsv' = [rsv EXCEPT ![c] = a]
  <2>1. rsv = [rsv EXCEPT ![c] = rsv[c]]
    BY DEF IInv, Shape
  <2>. QED
    BY <2>1 DEF Prepare, InterruptPrepare, Step, SkipCooling, NotCooling, Reserve, Denied,
       RecordDenied, OutOfBudget, Build, AdapterReplies, ReturnSlot, RecordSuccess,
       RecordStop, RecordCooling, RecordContinue, SetCooldown, NextProvider, Exhausted,
       NotifyFailure, Return, Unwind, Interrupt, Cancel, DropTraceback
<1>3. PICK e : error' = [error EXCEPT ![c] = e]
  <2>1. error = [error EXCEPT ![c] = error[c]]
    BY DEF Tables
  <2>. QED
    BY <2>1 DEF Prepare, InterruptPrepare, Refused, Step, SkipCooling, NotCooling, Reserve, Denied,
       RecordDenied, OutOfBudget, Build, AdapterReplies, ReturnSlot, RecordSuccess,
       RecordStop, RecordCooling, RecordContinue, SetCooldown, Exhausted,
       NotifyFailure, Return, Unwind, Interrupt, Cancel, DropTraceback
<1>4. PICK t : told' = [told EXCEPT ![c] = t]
  <2>1. told = [told EXCEPT ![c] = told[c]]
    BY DEF Tables
  <2>. QED
    BY <2>1 DEF TellSuccess, TellFailure, Prepare, InterruptPrepare, Step, SkipCooling, NotCooling, Reserve, Denied,
       RecordDenied, OutOfBudget, Build, AdapterReplies, ReturnSlot, RecordSuccess,
       RecordStop, RecordCooling, RecordContinue, SetCooldown, Exhausted,
       NotifyFailure, Return, Unwind, Interrupt, Cancel, DropTraceback
<1>. QED  BY <1>1, <1>2, <1>3, <1>4 DEF IInv, Shape, Tables

-----------------------------------------------------------------------------
(* Which calls lose a slot *)

\* The calls that were interrupted and whose reservation object is gone: each
\* of them lost one slot at most.
Leakers == {c \in Interruptible : pc[c] = "interrupted" /\ rsv[c] = NoObj}

\* A task that was cancelled went through its finally clause.
CancelledGaveBack(c) ==
  pc[c] = "interrupted" /\ c \notin Interruptible => rsv[c] \notin held

LeakInv ==
  /\ Tables
  /\ lostAll \in Nat
  /\ lostAll <= Cardinality(Leakers)
  /\ \A c \in Calls : CancelledGaveBack(c)

\* A call that was interrupted stays so, and what it lost is not found again.
LEMMA LeakersGrow ==
  ASSUME IInv, Tables, NEW c \in Calls,
         Prepare(c) \/ InterruptPrepare(c) \/ Step(c) \/ Interrupt(c) \/ Cancel(c) \/ DropTraceback(c)
  PROVE  Leakers \subseteq Leakers'
<1>1. \A d \in Calls : d # c => pc'[d] = pc[d] /\ rsv'[d] = rsv[d]
  BY OneCallMoves
<1>2. pc[c] = "interrupted" => rsv[c] # NoObj
  BY DEF Prepare, InterruptPrepare, Step, SkipCooling, NotCooling, Reserve, Denied, RecordDenied,
     OutOfBudget, Build, AdapterReplies, ReturnSlot, RecordSuccess, RecordStop,
     RecordCooling, RecordContinue, Recorded, SetCooldown, Exhausted, NotifyFailure,
     Return, Unwind, Interrupt, Cancel, DropTraceback, Ended
<1>. QED  BY <1>1, <1>2, CallsAssumption DEF Leakers

\* The slots lost so far are covered by more leakers than before.
LEMMA MoreLeakers ==
  ASSUME Leakers \subseteq Leakers', lostAll' = lostAll,
         lostAll \in Nat, lostAll <= Cardinality(Leakers)
  PROVE  lostAll' <= Cardinality(Leakers')
<1>1. IsFiniteSet(Leakers')
  BY ThreadsAssumption, FS_Subset DEF Leakers
<1>2. Leakers \in SUBSET Leakers'
  OBVIOUS
<1>3. IsFiniteSet(Leakers) /\ Cardinality(Leakers) <= Cardinality(Leakers')
  BY <1>1, <1>2, FS_Subset
<1>4. Cardinality(Leakers) \in Nat /\ Cardinality(Leakers') \in Nat
  BY <1>1, <1>3, FS_CardinalityType
<1>. QED  BY <1>3, <1>4

\* A reservation that is not held is not held after a step of another call
\* either: a new one has an address of its own.
LEMMA HeldByOthers ==
  ASSUME IInv, NEW c \in Calls, NEW d \in Calls, c # d,
         Prepare(c) \/ InterruptPrepare(c) \/ Step(c) \/ Interrupt(c) \/ Cancel(c) \/ DropTraceback(c),
         rsv[d] \notin held
  PROVE  rsv[d] \notin held'
<1>1. CASE Reserve(c)
  <2>1. PICK a \in Addrs : live[a] = NoObj /\ held' = held \cup {a}
    BY <1>1 DEF Reserve, Limiter!TryReserve
  <2>2. rsv[d] # a
    BY <2>1, ObjectsAssumption DEF IInv, Own
  <2>. QED  BY <2>1, <2>2
<1>2. CASE ~Reserve(c)
  <2>1. held' \subseteq held
    BY <1>2 DEF Prepare, InterruptPrepare, Step, SkipCooling, NotCooling, Denied, RecordDenied,
       OutOfBudget, Build, AdapterReplies, ReturnSlot, RecordSuccess, RecordStop,
       RecordCooling, RecordContinue, SetCooldown, NextProvider, Exhausted,
       NotifyFailure, Return, Unwind, Interrupt, Cancel, DropTraceback, limiterVars,
       Limiter!Drop, Limiter!Collect
  <2>. QED  BY <2>1
<1>. QED  BY <1>1, <1>2

\* Only the traceback of an interrupted call takes a slot with it.
LEMMA LossIsDropped ==
  ASSUME IInv, LeakInv, NEW c \in Calls,
         Prepare(c) \/ InterruptPrepare(c) \/ Step(c) \/ Interrupt(c) \/ Cancel(c) \/ DropTraceback(c)
  PROVE  \/ lostAll' = lostAll
         \/ /\ lostAll' = lostAll + 1
            /\ c \in Interruptible /\ pc[c] = "interrupted" /\ rsv[c] # NoObj
            /\ pc'[c] = "interrupted" /\ rsv'[c] = NoObj
<1>1. CASE DropTraceback(c)
  <2>1. /\ Ended(c) /\ rsv[c] # NoObj /\ Limiter!Collect(rsv[c])
        /\ rsv' = [rsv EXCEPT ![c] = NoObj] /\ pc' = pc
    BY <1>1 DEF DropTraceback
  <2>2. rsv'[c] = NoObj
    BY <2>1 DEF IInv, Shape
  <2>3. CASE rsv[c] \in held
    <3>1. pc[c] = "interrupted" /\ c \in Interruptible
      BY <2>1, <2>3 DEF Ended, IInv, Stage, LeakInv, CancelledGaveBack
    <3>2. lostAll' = lostAll + 1
      BY <2>1, <2>3 DEF Limiter!Collect
    <3>. QED  BY <2>1, <2>2, <3>1, <3>2
  <2>4. CASE rsv[c] \notin held
    BY <2>1, <2>4 DEF Limiter!Collect
  <2>. QED  BY <2>3, <2>4
<1>2. CASE RecordContinue(c) \/ SetCooldown(c) \/ Return(c)
  <2>1. Limiter!Collect(rsv[c]) /\ pc[c] \in {"record", "cool", "report"}
    BY <1>2 DEF RecordContinue, Recorded, SetCooldown, Return, NextProvider
  <2>2. CASE pc[c] \in {"record", "cool"}
    <3>1. rsv[c] \notin held
      BY <2>2 DEF IInv, Stage
    <3>. QED  BY <2>1, <3>1 DEF Limiter!Collect
  <2>3. CASE pc[c] = "report"
    <3>1. rsv[c] \notin held
      BY <2>3 DEF IInv, Stage
    <3>. QED  BY <2>1, <3>1 DEF Limiter!Collect
  <2>. QED  BY <2>1, <2>2, <2>3
<1>3. CASE ~(DropTraceback(c) \/ RecordContinue(c) \/ SetCooldown(c) \/ Return(c))
  BY <1>3 DEF Prepare, InterruptPrepare, Step, SkipCooling, NotCooling, Reserve, Denied, RecordDenied,
     OutOfBudget, Build, AdapterReplies, ReturnSlot, RecordSuccess, RecordStop,
     RecordCooling, Exhausted, NotifyFailure, Unwind, Interrupt, Cancel, limiterVars,
     Limiter!TryReserve, Limiter!Drop
<1>. QED  BY <1>1, <1>2, <1>3

\* The call that moves: out of its finally clause it has given its slot back.
LEMMA MoverGaveBack ==
  ASSUME IInv, LeakInv, NEW c \in Calls,
         Prepare(c) \/ InterruptPrepare(c) \/ Step(c) \/ Interrupt(c) \/ Cancel(c) \/ DropTraceback(c)
  PROVE  CancelledGaveBack(c)'
<1>1. pc \in [Calls -> PCs] /\ rsv \in [Calls -> Addrs \cup {NoObj}]
  BY DEF IInv, Shape
<1>2. CASE Unwind(c)
  <2>1. rsv' = rsv /\ rsv[c] \notin held'
    BY <1>2 DEF Unwind, Limiter!Drop
  <2>. QED  BY <2>1 DEF CancelledGaveBack
<1>3. CASE DropTraceback(c)
  <2>1. rsv'[c] = NoObj /\ held' = held
    BY <1>1, <1>3 DEF DropTraceback, Limiter!Collect
  <2>. QED  BY <2>1, NoObjNotHeld DEF CancelledGaveBack
<1>4. CASE Interrupt(c)
  BY <1>4 DEF Interrupt, CancelledGaveBack
<1>6. CASE NotifyFailure(c)
  <2>1. CASE rsv[c] = NoObj
    <3>1. rsv'[c] = NoObj /\ held' = held
      BY <1>6, <2>1 DEF NotifyFailure, limiterVars
    <3>. QED  BY <3>1, NoObjNotHeld DEF CancelledGaveBack
  <2>2. CASE rsv[c] # NoObj
    <3>1. pc'[c] = "unwind"
      BY <1>1, <1>6, <2>2 DEF NotifyFailure, Goto
    <3>. QED  BY <3>1 DEF CancelledGaveBack
  <2>. QED  BY <2>1, <2>2
<1>5. CASE ~(Unwind(c) \/ DropTraceback(c) \/ Interrupt(c) \/ NotifyFailure(c))
  <2>1. pc'[c] # "interrupted"
    BY <1>1, <1>5 DEF Prepare, InterruptPrepare, Refused, Step, SkipCooling, NotCooling, Reserve, Denied,
       RecordDenied, OutOfBudget, Build, AdapterReplies, ReturnSlot, RecordSuccess,
       RecordStop, RecordCooling, RecordContinue, SetCooldown, NextProvider, Exhausted,
       Return, Cancel, Goto
  <2>. QED  BY <2>1 DEF CancelledGaveBack
<1>. QED  BY <1>2, <1>3, <1>4, <1>5, <1>6

LEMMA NextLeaks == IInv /\ LeakInv /\ [Next]_vars => LeakInv'
<1> SUFFICES ASSUME IInv, LeakInv, [Next]_vars PROVE LeakInv'
  OBVIOUS
<1>1. ASSUME NEW c \in Calls,
             Prepare(c) \/ InterruptPrepare(c) \/ Step(c) \/ Interrupt(c) \/ Cancel(c) \/ DropTraceback(c)
      PROVE  LeakInv'
  <2>1. Tables /\ Tables' /\ Leakers \subseteq Leakers'
    BY <1>1, LeakersGrow, OneCallMoves DEF LeakInv
  <2>2. ASSUME NEW d \in Calls PROVE CancelledGaveBack(d)'
    <3>1. CASE d = c
      BY <1>1, <3>1, MoverGaveBack
    <3>2. CASE d # c
      <4>1. pc'[d] = pc[d] /\ rsv'[d] = rsv[d]
        BY <1>1, <2>1, <3>2, OneCallMoves
      <4>2. rsv[d] \notin held => rsv[d] \notin held'
        BY <1>1, <3>2, HeldByOthers
      <4>. QED  BY <4>1, <4>2 DEF LeakInv, CancelledGaveBack
    <3>. QED  BY <3>1, <3>2
  <2>3. CASE lostAll' = lostAll
    BY <2>1, <2>2, <2>3, MoreLeakers DEF LeakInv
  <2>4. CASE /\ lostAll' = lostAll + 1
             /\ c \in Interruptible /\ pc[c] = "interrupted" /\ rsv[c] # NoObj
             /\ pc'[c] = "interrupted" /\ rsv'[c] = NoObj
    <3>1. Leakers \cup {c} \subseteq Leakers' /\ c \notin Leakers
      BY <2>1, <2>4 DEF Leakers
    <3>2. IsFiniteSet(Leakers) /\ IsFiniteSet(Leakers')
      BY ThreadsAssumption, FS_Subset DEF Leakers
    <3>3. Cardinality(Leakers \cup {c}) = Cardinality(Leakers) + 1
      BY <3>1, <3>2, FS_AddElement
    <3>4. Cardinality(Leakers \cup {c}) <= Cardinality(Leakers')
      BY <3>1, <3>2, FS_Subset
    <3>5. Cardinality(Leakers) \in Nat /\ Cardinality(Leakers') \in Nat
      BY <3>2, FS_CardinalityType
    <3>6. lostAll' \in Nat /\ lostAll' <= Cardinality(Leakers')
      BY <2>4, <3>3, <3>4, <3>5 DEF LeakInv
    <3>. QED  BY <2>1, <2>2, <3>6 DEF LeakInv
  <2>. QED  BY <1>1, <2>3, <2>4, LossIsDropped
<1>2. CASE Tick \/ UNCHANGED vars
  <2>1. UNCHANGED <<pc, rsv, held, lostAll, error, told>>
    BY <1>2 DEF Tick, vars, callVars, limiterVars
  <2>. QED  BY <2>1 DEF LeakInv, Tables, Leakers, CancelledGaveBack
<1>. QED  BY <1>1, <1>2 DEF Next

\* Errors, rejected texts, refusals and cancelled tasks give their slot back, and
\* no more slots are lost than threads were interrupted: release and finalize in
\* the handlers and the finally clause miss no path.
THEOREM OnlyInterruptionsLeak == Spec => []OnlyInterruptsLeak
<1>1. Init => Tables
  BY DEF Init, Tables
<1>2. Init => LeakInv
  <2> SUFFICES ASSUME Init PROVE LeakInv
    OBVIOUS
  <2>1. lostAll = 0 /\ \A c \in Calls : pc[c] = "idle"
    BY DEF Init, Limiter!Init
  <2>2. Leakers = {}
    BY <2>1, CallsAssumption DEF Leakers
  <2>. QED  BY <1>1, <2>1, <2>2, FS_EmptySet DEF LeakInv, CancelledGaveBack
<1>3. IInv /\ LeakInv => OnlyInterruptsLeak
  <2> SUFFICES ASSUME IInv, LeakInv PROVE OnlyInterruptsLeak
    OBVIOUS
  <2>1. \A c \in Calls : pc[c] \in {"returned", "raised"} => ~Holds(c)
    BY DEF IInv, Stage, Holds
  <2> DEFINE Cut == {c \in Interruptible : pc[c] = "interrupted"}
  <2>2. IsFiniteSet(Cut) /\ Leakers \in SUBSET Cut
    BY ThreadsAssumption, FS_Subset DEF Leakers
  <2>3. IsFiniteSet(Leakers) /\ Cardinality(Leakers) <= Cardinality(Cut)
    BY <2>2, FS_Subset
  <2>4. Cardinality(Leakers) \in Nat /\ Cardinality(Cut) \in Nat
    BY <2>2, <2>3, FS_CardinalityType
  <2>5. lostAll <= Cardinality(Cut)
    BY <2>3, <2>4 DEF LeakInv
  <2>. QED  BY <2>1, <2>5 DEF OnlyInterruptsLeak
<1>. QED
  BY <1>2, <1>3, NextLeaks, Inductive, PTL DEF Spec

-----------------------------------------------------------------------------
(* The counters and the calls *)

\* The calls that hold a slot, and those that hold one of a provider.
Holders == {c \in Calls : Holds(c)}
HoldersOf(p) == {c \in Calls : Holds(c) /\ live[rsv[c]] = p}

\* The counters are the holders and the losses.  Holders are finitely many, as
\* every call takes its slot in a step of its own.
SlotInv ==
  /\ inflight \in [Providers -> Nat] /\ globalInflight \in Nat
  /\ lost \in [Providers -> Nat] /\ lostAll \in Nat
  /\ IsFiniteSet(Holders)
  /\ \A p \in Providers : inflight[p] = Cardinality(HoldersOf(p)) + lost[p]
  /\ globalInflight = Cardinality(Holders) + lostAll

LEMMA HoldersFinite ==
  ASSUME SlotInv
  PROVE  /\ Cardinality(Holders) \in Nat
         /\ \A p : IsFiniteSet(HoldersOf(p)) /\ Cardinality(HoldersOf(p)) \in Nat
<1>1. IsFiniteSet(Holders)
  BY DEF SlotInv
<1>2. \A p : HoldersOf(p) \in SUBSET Holders
  BY DEF HoldersOf, Holders
<1>3. \A p : IsFiniteSet(HoldersOf(p))
  BY <1>1, <1>2, FS_Subset
<1>. QED  BY <1>1, <1>3, FS_CardinalityType

\* Every held object of a call is at an address, for a provider.
LEMMA HolderObject ==
  ASSUME IInv, NEW c \in Calls, Holds(c)
  PROVE  rsv[c] \in Addrs /\ live[rsv[c]] \in Providers
<1>1. rsv[c] # NoObj /\ rsv[c] \in Addrs /\ live[rsv[c]] # NoObj
  BY DEF Holds, IInv, Shape, Own
<1>. QED  BY <1>1 DEF IInv, Shape

\* A reservation makes its call a holder; nobody else becomes or stays one for
\* a reason of its own.
LEMMA ReserveSlots ==
  ASSUME IInv, SlotInv, NEW c \in Calls, Reserve(c)
  PROVE  SlotInv'
<1>1. PICK a \in Addrs : Limiter!TryReserve(Current(c), a) /\ rsv' = [rsv EXCEPT ![c] = a]
  BY DEF Reserve
<1>2. pc[c] = "reserve" /\ Current(c) \in Providers
  BY CurrentProvider DEF Reserve, IInv, OnChain
<1>3. PICK p \in Providers : p = Current(c)
  BY <1>2
<1>4. /\ live[a] = NoObj /\ live' = [live EXCEPT ![a] = p]
      /\ held' = held \cup {a}
      /\ inflight' = [inflight EXCEPT ![p] = @ + 1]
      /\ globalInflight' = globalInflight + 1
      /\ UNCHANGED <<lost, lostAll>>
  BY <1>1, <1>3 DEF Limiter!TryReserve
<1>5. rsv[c] = NoObj /\ ~Holds(c)
  BY <1>2 DEF IInv, Stage, Holds
<1>6. Holds(c)' /\ (live[rsv[c]] = p)'
  BY <1>1, <1>4, ObjectsAssumption DEF Holds, IInv, Shape
<1>7. ASSUME NEW d \in Calls, d # c
      PROVE  /\ Holds(d)' <=> Holds(d)
             /\ Holds(d) => live'[rsv'[d]] = live[rsv[d]]
  <2>1. rsv'[d] = rsv[d] /\ rsv[d] # a
    BY <1>1, <1>4, <1>7, ObjectsAssumption DEF IInv, Shape, Own
  <2>2. Holds(d)' <=> Holds(d)
    BY <1>4, <2>1 DEF Holds
  <2>3. Holds(d) => live'[rsv[d]] = live[rsv[d]]
    BY <1>4, <2>1, HolderObject DEF IInv, Shape
  <2>. QED  BY <2>1, <2>2, <2>3
<1>8. Holders' = Holders \cup {c} /\ c \notin Holders
  BY <1>5, <1>6, <1>7 DEF Holders
<1>9. HoldersOf(p)' = HoldersOf(p) \cup {c} /\ c \notin HoldersOf(p)
  BY <1>5, <1>6, <1>7 DEF HoldersOf
<1>10. \A q \in Providers : q # p => HoldersOf(q)' = HoldersOf(q)
  BY <1>5, <1>6, <1>7 DEF HoldersOf
<1>11. /\ IsFiniteSet(Holders')
       /\ Cardinality(Holders') = Cardinality(Holders) + 1
       /\ Cardinality(HoldersOf(p)') = Cardinality(HoldersOf(p)) + 1
  BY <1>8, <1>9, HoldersFinite, FS_AddElement DEF SlotInv
<1>12. globalInflight' = Cardinality(Holders') + lostAll'
  BY <1>4, <1>11, HoldersFinite DEF SlotInv
<1>13. ASSUME NEW q \in Providers
       PROVE  inflight'[q] = Cardinality(HoldersOf(q)') + lost'[q]
  <2>1. CASE q = p
    BY <2>1, <1>4, <1>11, HoldersFinite DEF SlotInv
  <2>2. CASE q # p
    BY <2>2, <1>4, <1>10 DEF SlotInv
  <2>. QED  BY <2>1, <2>2
<1>14. /\ inflight' \in [Providers -> Nat] /\ globalInflight' \in Nat
       /\ lost' \in [Providers -> Nat] /\ lostAll' \in Nat
  BY <1>4 DEF SlotInv
<1>. QED  BY <1>11, <1>12, <1>13, <1>14 DEF SlotInv

\* One holder fewer.
LEMMA HolderGone ==
  ASSUME IInv, SlotInv, NEW c \in Calls, Holds(c), NEW p, p = live[rsv[c]],
         ~Holds(c)',
         \A d \in Calls : d # c =>
           (Holds(d)' <=> Holds(d)) /\ (Holds(d) => live'[rsv'[d]] = live[rsv[d]])
  PROVE  /\ IsFiniteSet(Holders')
         /\ Cardinality(Holders) = Cardinality(Holders') + 1
         /\ Cardinality(HoldersOf(p)) = Cardinality(HoldersOf(p)') + 1
         /\ Cardinality(Holders') \in Nat /\ Cardinality(HoldersOf(p)') \in Nat
         /\ \A q : q # p => HoldersOf(q)' = HoldersOf(q)
<1>1. Holders' = Holders \ {c} /\ c \in Holders
  BY DEF Holders
<1>2. HoldersOf(p)' = HoldersOf(p) \ {c} /\ c \in HoldersOf(p)
  BY DEF HoldersOf
<1>3. \A q : q # p => HoldersOf(q)' = HoldersOf(q)
  BY DEF HoldersOf
<1>4. IsFiniteSet(Holders) /\ IsFiniteSet(HoldersOf(p))
  BY HoldersFinite DEF SlotInv
<1>5. IsFiniteSet(Holders') /\ IsFiniteSet(HoldersOf(p)')
  BY <1>1, <1>2, <1>4, FS_RemoveElement
<1>6. Holders = Holders' \cup {c} /\ c \notin Holders'
  BY <1>1
<1>7. HoldersOf(p) = HoldersOf(p)' \cup {c} /\ c \notin HoldersOf(p)'
  BY <1>2
<1>8. Cardinality(Holders) = Cardinality(Holders') + 1
  BY <1>5, <1>6, FS_AddElement
<1>9. Cardinality(HoldersOf(p)) = Cardinality(HoldersOf(p)') + 1
  BY <1>5, <1>7, FS_AddElement
<1>10. Cardinality(Holders') \in Nat /\ Cardinality(HoldersOf(p)') \in Nat
  BY <1>5, FS_CardinalityType
<1>. QED  BY <1>3, <1>5, <1>8, <1>9, <1>10

\* finalize or release, by a handler or the finally clause, whether it is the
\* first time or not: the clamp at zero is never reached.
LEMMA DropSlots ==
  ASSUME IInv, SlotInv, NEW c \in Calls, ReturnSlot(c) \/ Unwind(c)
  PROVE  SlotInv'
<1>1. Limiter!Drop(rsv[c]) /\ rsv' = rsv /\ rsv[c] # NoObj
  BY DEF ReturnSlot, Unwind, IInv, Stage
<1>2. UNCHANGED <<live, lost, lostAll>>
  BY <1>1 DEF Limiter!Drop
<1>3. CASE rsv[c] \notin held
  <2>1. UNCHANGED <<held, inflight, globalInflight>>
    BY <1>1, <1>3 DEF Limiter!Drop
  <2>. QED  BY <1>1, <1>2, <2>1 DEF SlotInv, Holders, HoldersOf, Holds
<1>4. CASE rsv[c] \in held
  <2>1. /\ held' = held \ {rsv[c]}
        /\ inflight' = [inflight EXCEPT ![live[rsv[c]]] = Limiter!Decrement(@)]
        /\ globalInflight' = Limiter!Decrement(globalInflight)
    BY <1>1, <1>4 DEF Limiter!Drop
  <2>2. Holds(c) /\ ~Holds(c)'
    BY <1>1, <1>4, <2>1 DEF Holds
  <2>3. PICK p \in Providers : p = live[rsv[c]]
    BY <2>2, HolderObject
  <2>4. ASSUME NEW d \in Calls, d # c
        PROVE  /\ Holds(d)' <=> Holds(d)
               /\ Holds(d) => live'[rsv'[d]] = live[rsv[d]]
    <3>1. rsv[d] # rsv[c]
      BY <1>1, <2>4 DEF IInv, Own
    <3>. QED  BY <1>1, <1>2, <2>1, <3>1 DEF Holds
  <2>5. /\ IsFiniteSet(Holders')
        /\ Cardinality(Holders) = Cardinality(Holders') + 1
        /\ Cardinality(HoldersOf(p)) = Cardinality(HoldersOf(p)') + 1
        /\ Cardinality(Holders') \in Nat /\ Cardinality(HoldersOf(p)') \in Nat
        /\ \A q : q # p => HoldersOf(q)' = HoldersOf(q)
    BY <2>2, <2>3, <2>4, HolderGone
  <2>6. globalInflight' = Cardinality(Holders') + lostAll' /\ globalInflight' \in Nat
    BY <1>2, <2>1, <2>5 DEF SlotInv, Limiter!Decrement
  <2>7. inflight[p] \in Nat /\ lost[p] \in Nat
    BY DEF SlotInv
  <2>8. inflight'[p] = Cardinality(HoldersOf(p)') + lost'[p]
    BY <1>2, <2>1, <2>3, <2>5, <2>7 DEF SlotInv, Limiter!Decrement
  <2>9. ASSUME NEW q \in Providers, q # p
        PROVE  inflight'[q] = Cardinality(HoldersOf(q)') + lost'[q]
    BY <1>2, <2>1, <2>3, <2>5, <2>9 DEF SlotInv
  <2>10. inflight' \in [Providers -> Nat]
    BY <2>1, <2>3 DEF SlotInv, Limiter!Decrement
  <2>. QED  BY <1>2, <2>5, <2>6, <2>8, <2>9, <2>10 DEF SlotInv
<1>. QED  BY <1>3, <1>4

\* A reservation object dies: a slot that was held goes from holder to loss.
LEMMA CollectSlots ==
  ASSUME IInv, SlotInv, NEW c \in Calls,
         RecordContinue(c) \/ SetCooldown(c) \/ Return(c) \/ DropTraceback(c)
  PROVE  SlotInv'
<1>1. Limiter!Collect(rsv[c]) /\ rsv' = [rsv EXCEPT ![c] = NoObj]
  BY DEF RecordContinue, SetCooldown, Return, DropTraceback, NextProvider
<1>2. /\ UNCHANGED <<inflight, globalInflight, held>>
      /\ live' = [live EXCEPT ![rsv[c]] = NoObj]
  BY <1>1 DEF Limiter!Collect
<1>3. rsv'[c] = NoObj /\ ~Holds(c)'
  BY <1>1 DEF IInv, Shape, Holds
<1>4. rsv[c] # NoObj
  <2>1. CASE DropTraceback(c)
    BY <2>1 DEF DropTraceback
  <2>2. CASE RecordContinue(c) \/ SetCooldown(c) \/ Return(c)
    <3>1. pc[c] \in {"record", "cool", "report"}
      BY <2>2 DEF RecordContinue, SetCooldown, Return, Recorded
    <3>. QED  BY <3>1 DEF IInv, Stage
  <2>. QED  BY <2>1, <2>2
<1>5. ASSUME NEW d \in Calls, d # c
      PROVE  /\ Holds(d)' <=> Holds(d)
             /\ Holds(d) => live'[rsv'[d]] = live[rsv[d]]
  <2>1. rsv'[d] = rsv[d] /\ rsv[d] # rsv[c]
    BY <1>1, <1>4, <1>5 DEF IInv, Shape, Own
  <2>2. Holds(d) => live'[rsv[d]] = live[rsv[d]]
    BY <1>2, <2>1, HolderObject DEF IInv, Shape
  <2>. QED  BY <1>2, <2>1, <2>2 DEF Holds
<1>6. CASE rsv[c] \notin held
  <2>1. UNCHANGED <<lost, lostAll>>
    BY <1>1, <1>6 DEF Limiter!Collect
  <2>2. ~Holds(c)
    BY <1>6 DEF Holds
  <2>3. Holders' = Holders /\ \A p \in Providers : HoldersOf(p)' = HoldersOf(p)
    BY <1>3, <1>5, <2>2 DEF Holders, HoldersOf
  <2>. QED  BY <1>2, <2>1, <2>3 DEF SlotInv
<1>7. CASE rsv[c] \in held
  <2>1. Holds(c)
    BY <1>4, <1>7 DEF Holds
  <2>2. PICK p \in Providers : p = live[rsv[c]]
    BY <2>1, HolderObject
  <2>3. lost' = [lost EXCEPT ![p] = @ + 1] /\ lostAll' = lostAll + 1
    BY <1>1, <1>7, <2>2 DEF Limiter!Collect
  <2>4. /\ IsFiniteSet(Holders')
        /\ Cardinality(Holders) = Cardinality(Holders') + 1
        /\ Cardinality(HoldersOf(p)) = Cardinality(HoldersOf(p)') + 1
        /\ Cardinality(Holders') \in Nat /\ Cardinality(HoldersOf(p)') \in Nat
        /\ \A q : q # p => HoldersOf(q)' = HoldersOf(q)
    BY <1>3, <1>5, <2>1, <2>2, HolderGone
  <2>5. globalInflight' = Cardinality(Holders') + lostAll' /\ lostAll' \in Nat
    BY <1>2, <2>3, <2>4 DEF SlotInv
  <2>6. lost' \in [Providers -> Nat] /\ lost'[p] = lost[p] + 1 /\ lost[p] \in Nat
    BY <2>3 DEF SlotInv
  <2>7. inflight'[p] = Cardinality(HoldersOf(p)') + lost'[p]
    BY <1>2, <2>4, <2>6 DEF SlotInv
  <2>8. ASSUME NEW q \in Providers, q # p
        PROVE  inflight'[q] = Cardinality(HoldersOf(q)') + lost'[q]
    BY <1>2, <2>3, <2>4, <2>8 DEF SlotInv
  <2>. QED  BY <1>2, <2>4, <2>5, <2>6, <2>7, <2>8 DEF SlotInv
<1>. QED  BY <1>6, <1>7

LEMMA NextSlots == IInv /\ SlotInv /\ [Next]_vars => SlotInv'
<1> SUFFICES ASSUME IInv, SlotInv, [Next]_vars PROVE SlotInv'
  OBVIOUS
<1>1. ASSUME NEW c \in Calls, Reserve(c) PROVE SlotInv'
  BY <1>1, ReserveSlots
<1>2. ASSUME NEW c \in Calls, ReturnSlot(c) \/ Unwind(c) PROVE SlotInv'
  BY <1>2, DropSlots
<1>3. ASSUME NEW c \in Calls,
             RecordContinue(c) \/ SetCooldown(c) \/ Return(c) \/ DropTraceback(c)
      PROVE  SlotInv'
  BY <1>3, CollectSlots
<1>4. ASSUME NEW c \in Calls,
             \/ SkipCooling(c) \/ NotCooling(c) \/ Denied(c) \/ RecordDenied(c)
             \/ OutOfBudget(c) \/ Exhausted(c) \/ Build(c) \/ AdapterReplies(c)
             \/ RecordSuccess(c) \/ RecordStop(c) \/ RecordCooling(c)
             \/ NotifyFailure(c) \/ Interrupt(c) \/ Cancel(c)
             \/ Prepare(c) \/ InterruptPrepare(c)
      PROVE  SlotInv'
  <2>1. UNCHANGED <<limiterVars, rsv>>
    BY <1>4 DEF SkipCooling, NotCooling, Denied, RecordDenied, OutOfBudget, Exhausted,
       Build, AdapterReplies, RecordSuccess, RecordStop, RecordCooling, NotifyFailure,
       Interrupt, Cancel, Prepare, InterruptPrepare
  <2>. QED  BY <2>1 DEF limiterVars, SlotInv, Holders, HoldersOf, Holds
<1>5. CASE Tick \/ UNCHANGED vars
  <2>1. UNCHANGED <<limiterVars, rsv>>
    BY <1>5 DEF Tick, vars, callVars
  <2>. QED  BY <2>1 DEF limiterVars, SlotInv, Holders, HoldersOf, Holds
<1>. QED  BY <1>1, <1>2, <1>3, <1>4, <1>5 DEF Next, Step

LEMMA InitSlots == Init => SlotInv
<1> SUFFICES ASSUME Init PROVE SlotInv
  OBVIOUS
<1>1. /\ Limiter!Init
      /\ \A c \in Calls : ~Holds(c)
  BY DEF Init, Holds
<1>2. Holders = {} /\ \A p \in Providers : HoldersOf(p) = {}
  BY <1>1 DEF Holders, HoldersOf
<1>3. IsFiniteSet({}) /\ Cardinality({}) = 0
  BY FS_EmptySet
<1>. QED  BY <1>1, <1>2, <1>3 DEF SlotInv, Limiter!Init

\* The limiter's counters say at every moment which calls hold a slot, whatever
\* fails, is interrupted or is cancelled: no path through the handlers and the
\* finally clause returns a slot twice, keeps one or returns another call's.
THEOREM CountersMatchCalls == Spec => []SlotsMatchCalls
<1>1. Init => SlotInv
  BY InitSlots
<1>2. IInv /\ SlotInv /\ [Next]_vars => SlotInv'
  BY NextSlots
<1>3. SlotInv => SlotsMatchCalls
  BY DEF SlotInv, SlotsMatchCalls, Holders, HoldersOf
<1>. QED  BY <1>1, <1>2, <1>3, Inductive, PTL DEF Spec

-----------------------------------------------------------------------------
(* Places *)

\* A call is at a place of its chain or just behind it, and starts at the first.
PlaceInv ==
  /\ cool \in [Providers -> Nat]
  /\ reply \in [Calls -> Replies \cup {NoReply}]
  /\ \A c \in Calls :
       /\ pos[c] \in 1 .. Len(chain[c]) + 1
       /\ pc[c] = "idle" => pos[c] = 1

\* A cooldown is a number of seconds, also for what is no answer of an adapter.
LEMMA CooldownIsNumber ==
  ASSUME NEW r \in Replies \cup {NoReply}
  PROVE  RetryAfterSeconds(r.exc) \in Nat
<1>1. CASE r \in {Failure(e) : e \in Exceptions}
  <2>1. PICK e \in Exceptions : r.exc = e
    BY <1>1 DEF Failure
  <2>2. e.retryAfter \subseteq Int
    BY ExceptionsAssumption DEF Raisable
  <2>3. CASE \E n \in e.retryAfter : n > 0
    BY <2>1, <2>2, <2>3 DEF RetryAfterSeconds
  <2>4. CASE ~\E n \in e.retryAfter : n > 0
    BY <2>1, <2>4 DEF RetryAfterSeconds, DefaultCooldown
  <2>. QED  BY <2>3, <2>4
<1>2. CASE r \in {Answer("json"), Answer("prose"), NoReply}
  <2>1. r.exc = Raised("Interrupt")
    <3>1. CASE r = Answer("json")
      BY <3>1 DEF Answer
    <3>2. CASE r = Answer("prose")
      BY <3>2 DEF Answer
    <3>3. CASE r = NoReply
      BY <3>3 DEF NoReply
    <3>. QED  BY <1>2, <3>1, <3>2, <3>3
  <2>2. Raised("Interrupt").retryAfter = {}
    BY DEF Raised
  <2>3. r.exc.retryAfter = {}
    BY <2>1, <2>2
  <2>. QED  BY <2>3 DEF RetryAfterSeconds, DefaultCooldown
<1>. QED  BY <1>1, <1>2 DEF Replies

\* The place in the chain is advanced only from a place that is in the chain.
LEMMA AdvanceKeepsPlace ==
  ASSUME IInv, PlaceInv, NEW c \in Calls,
         SkipCooling(c) \/ RecordDenied(c) \/ RecordContinue(c) \/ SetCooldown(c)
  PROVE  \A d \in Calls : /\ pos'[d] \in 1 .. Len(chain'[d]) + 1
                          /\ pc'[d] = "idle" => pos'[d] = 1
<1>1. /\ pos' = [pos EXCEPT ![c] = @ + 1] /\ chain' = chain
      /\ pc' = pc \/ pc' = [pc EXCEPT ![c] = "choose"]
      /\ pc[c] \in {"choose", "denied", "record", "cool"}
  BY DEF SkipCooling, RecordDenied, RecordContinue, Recorded, SetCooldown, NextProvider, Goto
<1>2. pos[c] \in Nat \ {0} /\ Len(chain[c]) \in Nat
  BY DEF IInv, Shape
<1>3. pos[c] <= Len(chain[c])
  <2>1. CASE SkipCooling(c)
    BY <1>2, <2>1 DEF SkipCooling, AtEnd
  <2>2. CASE pc[c] \in {"denied", "record", "cool"}
    BY <2>2 DEF IInv, OnChain
  <2>3. pc[c] = "choose" => SkipCooling(c)
    BY DEF RecordDenied, RecordContinue, Recorded, SetCooldown
  <2>. QED  BY <1>1, <2>1, <2>2, <2>3
<1>4. pos'[c] = pos[c] + 1 /\ pc'[c] # "idle"
  BY <1>1 DEF IInv, Shape
<1>5. pos'[c] \in 1 .. Len(chain'[c]) + 1
  BY <1>1, <1>2, <1>3, <1>4
<1>6. \A d \in Calls : d # c => pos'[d] = pos[d] /\ pc'[d] = pc[d] /\ chain'[d] = chain[d]
  BY <1>1 DEF IInv, Shape
<1>. QED  BY <1>4, <1>5, <1>6 DEF PlaceInv

\* A call whose chain is being set is at its first place.
LEMMA PrepareKeepsPlace ==
  ASSUME IInv, PlaceInv, NEW c \in Calls, Prepare(c) \/ InterruptPrepare(c)
  PROVE  PlaceInv'
<1>1. UNCHANGED <<pos, cool, reply>> /\ pc[c] = "idle"
  BY DEF Prepare, InterruptPrepare
<1>2. /\ pc'[c] # "idle"
      /\ \A d \in Calls : d # c => pc'[d] = pc[d] /\ chain'[d] = chain[d]
  BY DEF Prepare, InterruptPrepare, Refused, Goto, IInv, Shape
<1>3. chain' \in [Calls -> Seq(Providers)]
  <2>1. IInv'
    BY PrepareKeeps
  <2>. QED  BY <2>1 DEF IInv, Shape
<1>4. pos'[c] = 1 /\ Len(chain'[c]) \in Nat
  BY <1>1, <1>3 DEF PlaceInv
<1>5. pos'[c] \in 1 .. Len(chain'[c]) + 1
  BY <1>4
<1>6. \A d \in Calls : /\ pos'[d] \in 1 .. Len(chain'[d]) + 1
                       /\ pc'[d] = "idle" => pos'[d] = 1
  BY <1>1, <1>2, <1>5 DEF PlaceInv
<1>. QED  BY <1>1, <1>6 DEF PlaceInv

LEMMA NextPlace == IInv /\ PlaceInv /\ [Next]_vars => PlaceInv'
<1> SUFFICES ASSUME IInv, PlaceInv, [Next]_vars PROVE PlaceInv'
  OBVIOUS
<1>1. ASSUME NEW c \in Calls, Prepare(c) \/ InterruptPrepare(c) PROVE PlaceInv'
  BY <1>1, PrepareKeepsPlace
<1>2. ASSUME NEW c \in Calls,
             SkipCooling(c) \/ RecordDenied(c) \/ RecordContinue(c) \/ SetCooldown(c)
      PROVE  PlaceInv'
  <2>1. \A d \in Calls : /\ pos'[d] \in 1 .. Len(chain'[d]) + 1
                         /\ pc'[d] = "idle" => pos'[d] = 1
    BY <1>2, AdvanceKeepsPlace
  <2>2. reply' \in [Calls -> Replies \cup {NoReply}]
    BY <1>2 DEF SkipCooling, RecordDenied, RecordContinue, SetCooldown, NextProvider, PlaceInv
  <2>3. cool' \in [Providers -> Nat]
    <3>1. CASE SetCooldown(c)
      <4>1. RetryAfterSeconds(reply[c].exc) \in Nat
        BY CooldownIsNumber DEF PlaceInv
      <4>. QED  BY <3>1, <4>1 DEF SetCooldown, PlaceInv
    <3>2. CASE SkipCooling(c) \/ RecordDenied(c) \/ RecordContinue(c)
      BY <3>2 DEF SkipCooling, RecordDenied, RecordContinue, PlaceInv
    <3>. QED  BY <1>2, <3>1, <3>2
  <2>. QED  BY <2>1, <2>2, <2>3 DEF PlaceInv
<1>3. ASSUME NEW c \in Calls, AdapterReplies(c) PROVE PlaceInv'
  <2>1. PICK r \in Replies : reply' = [reply EXCEPT ![c] = r]
    BY <1>3 DEF AdapterReplies
  <2>2. /\ UNCHANGED <<cool, pos, chain>>
        /\ pc'[c] = "release" /\ \A d \in Calls : d # c => pc'[d] = pc[d]
    BY <1>3 DEF AdapterReplies, Goto, IInv, Shape
  <2>. QED  BY <2>1, <2>2 DEF PlaceInv
<1>4. ASSUME NEW c \in Calls,
             \/ NotCooling(c) \/ Reserve(c) \/ Denied(c) \/ OutOfBudget(c) \/ Build(c)
             \/ ReturnSlot(c) \/ RecordSuccess(c) \/ RecordStop(c) \/ RecordCooling(c)
             \/ Exhausted(c) \/ NotifyFailure(c) \/ Return(c) \/ Unwind(c)
             \/ Interrupt(c) \/ Cancel(c) \/ DropTraceback(c)
      PROVE  PlaceInv'
  <2>1. UNCHANGED <<cool, reply, pos, chain>>
    BY <1>4 DEF NotCooling, Reserve, Denied, OutOfBudget, Build, ReturnSlot,
       RecordSuccess, RecordStop, RecordCooling, Exhausted, NotifyFailure, Return,
       Unwind, Interrupt, Cancel, DropTraceback
  <2>2. pc' = pc \/ \E l \in PCs \ {"idle"} : pc' = [pc EXCEPT ![c] = l]
    BY <1>4 DEF NotCooling, Reserve, Denied, OutOfBudget, Build, ReturnSlot,
       RecordSuccess, RecordStop, RecordCooling, Exhausted, NotifyFailure, Return,
       Unwind, Interrupt, Cancel, DropTraceback, Goto, PCs
  <2>3. \A d \in Calls : pc'[d] = "idle" => pc[d] = "idle"
    BY <2>2 DEF IInv, Shape
  <2>. QED  BY <2>1, <2>3 DEF PlaceInv
<1>5. CASE Tick
  <2>1. /\ cool' = [p \in Providers |-> IF cool[p] > 0 THEN cool[p] - 1 ELSE 0]
        /\ UNCHANGED <<pc, reply, pos, chain>>
    BY <1>5 DEF Tick, callVars
  <2>2. cool' \in [Providers -> Nat]
    BY <2>1 DEF PlaceInv
  <2>. QED  BY <2>1, <2>2 DEF PlaceInv
<1>6. CASE UNCHANGED vars
  BY <1>6 DEF vars, callVars, PlaceInv
<1>. QED  BY <1>1, <1>2, <1>3, <1>4, <1>5, <1>6 DEF Next, Step

-----------------------------------------------------------------------------
(* What the attempts of a call say of it *)

\* An attempt record says where it was made, and what its class and status are.
AttemptRecords ==
  [pos : Nat \ {0}, provider : Providers, ok : BOOLEAN,
   error_type : ClassNames \cup {"None", "budget"},
   status_code : {e.status : e \in Exceptions} \cup {0, 200}]

Passed(attempt, r) == ~attempt.ok /\ MayContinueAfter(attempt, r)

\* Every attempt so far failed and may be followed by another.
AllPassed(c) == \A i \in 1 .. Len(attempts[c]) : Passed(attempts[c][i], request[c])

LastAttempt(c) == attempts[c][Len(attempts[c])]

\* A call on its way down the chain has passed every attempt, and made each of
\* them at an earlier place.
Underway(c) ==
  /\ request[c].valid /\ chain[c] # <<>> /\ AllPassed(c)
  /\ \A i \in 1 .. Len(attempts[c]) :
       attempts[c][i].pos < pos[c] \/ (pc[c] = "cool" /\ attempts[c][i].pos = pos[c])

Succeeded(c) ==
  request[c].valid /\ chain[c] # <<>> /\ attempts[c] # <<>> /\ LastAttempt(c).ok

\* The errors of a call whose chain was never resolved.
Refusals == InvalidArguments \cup {"ConfigError", "NoEligibleProviders", "Interrupt"}

Stopped(c) ==
  /\ attempts[c] # <<>> /\ error[c].class \in ClassNames \ {"Interrupt"}
  /\ LastAttempt(c).error_type = error[c].class
  /\ ~LastAttempt(c).ok /\ ~MayContinueAfter(LastAttempt(c), request[c])
  /\ IsInstance(Raised(error[c].class), "MultiproviderError") =>
       error[c].attached = attempts[c]

\* What the error of a call says of its chain and its attempts.
ErrorFits(c) ==
  \/ /\ ~error[c].adapter /\ error[c].class \in Refusals
     /\ chain[c] = <<>> /\ attempts[c] = <<>> /\ error[c].attached = <<>>
  \/ /\ ~error[c].adapter /\ chain[c] # <<>>
     /\ \/ /\ error[c].class = "NoEligibleProviders"
           /\ attempts[c] = <<>> /\ error[c].attached = <<>>
        \/ /\ error[c].class = "AllProvidersFailed"
           /\ attempts[c] # <<>> /\ AllPassed(c) /\ AtEnd(c)
           /\ error[c].attached = attempts[c]
        \/ error[c].class = "BudgetExceeded" /\ AllPassed(c)
  \/ error[c].adapter /\ Stopped(c)

\* What holds of a call wherever it is.
TrailFits(c) ==
  /\ pc[c] = "idle" => attempts[c] = <<>> /\ chain[c] = <<>>
  /\ pc[c] \in {"choose", "reserve", "denied", "build", "call", "release", "record", "cool"}
       => Underway(c)
  /\ pc[c] \in {"release", "record", "cool"} => reply[c] \in Replies
  /\ pc[c] \in {"report", "returned"} => Succeeded(c)
  /\ pc[c] \in {"notify", "raised"} => ErrorFits(c)
  /\ pc[c] = "raised" => error[c].class # "Interrupt"
  /\ pc[c] = "unwind" /\ error[c].class # "Interrupt" => ErrorFits(c)

OutcomeInv ==
  /\ Tables
  /\ attempts \in [Calls -> Seq(AttemptRecords)]
  /\ \A c \in Calls : TrailFits(c)

\* What the isinstance tests of the handlers come to.
LEMMA Classes ==
  ASSUME NEW e, e.class \in ClassNames
  PROVE  /\ \A class \in {"RateLimited", "ValidationError", "ConfigError", "BudgetExceeded"} :
              IsInstance(e, class) <=> e.class = class
         /\ IsInstance(e, "ProviderError") <=> e.class \in {"ProviderError", "RateLimited"}
<1>1. \A class \in ClassNames :
        /\ Bases[class] \subseteq {"MultiproviderError", "ProviderError"}
        /\ "ProviderError" \in Bases[class] <=> class = "RateLimited"
  BY DEF ClassNames, Bases
<1>. QED  BY <1>1 DEF IsInstance

\* An exception stops the call exactly if the table of design.md has it so, and
\* a text without JSON never does.
LEMMA StopsByTheTable ==
  ASSUME NEW c \in Calls, reply[c] \in Replies
  PROVE  /\ Accepted(c) => AttemptOf(c).ok
         /\ Stops(c) =>
              /\ reply[c].exc.class \in ClassNames \ {"Interrupt"}
              /\ AttemptOf(c).error_type = reply[c].exc.class
              /\ ~AttemptOf(c).ok /\ ~MayContinueAfter(AttemptOf(c), request[c])
         /\ ~Accepted(c) /\ ~Stops(c) => Passed(AttemptOf(c), request[c])
<1>1. CASE reply[c] \in {Failure(e) : e \in Exceptions}
  <2>1. PICK e \in Exceptions : reply[c] = Failure(e)
    BY <1>1
  <2>2. reply[c].kind = "raised" /\ reply[c].exc = e
    BY <2>1 DEF Failure
  <2>3. Raisable(e)
    BY ExceptionsAssumption
  <2>4. /\ AttemptOf(c).error_type = e.class /\ AttemptOf(c).status_code = e.status
        /\ AttemptOf(c).ok = FALSE /\ ~Accepted(c) /\ Raises(c)
    BY <2>2 DEF AttemptOf, Attempt, Raises, Accepted
  <2>5. e.class \in ClassNames \ {"Interrupt"}
    BY <2>3 DEF Raisable
  <2>6. /\ \A class \in {"RateLimited", "ValidationError", "ConfigError", "BudgetExceeded"} :
              IsInstance(e, class) <=> e.class = class
        /\ IsInstance(e, "ProviderError") <=> e.class \in {"ProviderError", "RateLimited"}
    BY <2>5, Classes
  <2>7. /\ e.class \notin {"ProviderError", "RateLimited"} => e.status = 0
        /\ e.class # "budget"
    BY <2>3, <2>5, <2>6 DEF Raisable, ClassNames, Bases
  <2>8. Stops(c) <=> ~MayContinueAfter(AttemptOf(c), request[c])
    BY <2>2, <2>4, <2>6, <2>7 DEF Stops, IsAuthFailure, IsRetryable, MayContinueAfter,
       RetryableStatusCodes
  <2>. QED  BY <2>2, <2>4, <2>5, <2>8 DEF Passed
<1>2. CASE reply[c] \in {Answer("json"), Answer("prose")}
  <2>1. reply[c].kind \in {"json", "prose"} /\ ~Raises(c) /\ ~Stops(c)
    BY <1>2 DEF Answer, Raises, Stops
  <2>2. CASE Accepted(c)
    BY <2>1, <2>2 DEF AttemptOf, Attempt
  <2>3. CASE ~Accepted(c)
    <3>1. /\ request[c].json /\ AttemptOf(c).error_type = "ValidationError"
          /\ AttemptOf(c).status_code = 200 /\ AttemptOf(c).ok = FALSE
      BY <2>1, <2>3 DEF Accepted, AttemptOf, Attempt
    <3>. QED  BY <2>1, <2>3, <3>1 DEF Passed, MayContinueAfter
  <2>. QED  BY <2>1, <2>2, <2>3
<1>. QED  BY <1>1, <1>2 DEF Replies

\* Both kinds of attempt are attempt records.
LEMMA AttemptIsRecord ==
  ASSUME IInv, NEW c \in Calls
  PROVE  /\ pc[c] = "denied" => Attempt(c, FALSE, "budget", 0) \in AttemptRecords
         /\ pc[c] = "record" /\ reply[c] \in Replies => AttemptOf(c) \in AttemptRecords
<1>1. pc[c] \in {"denied", "record"} => pos[c] \in Nat \ {0} /\ Current(c) \in Providers
  BY CurrentProvider DEF IInv, Shape, OnChain
<1>2. ASSUME pc[c] = "record", reply[c] \in Replies
      PROVE  AttemptOf(c) \in AttemptRecords
  <2>1. CASE reply[c] \in {Failure(e) : e \in Exceptions}
    <3>1. PICK e \in Exceptions : reply[c] = Failure(e)
      BY <2>1
    <3>2. reply[c].kind = "raised" /\ reply[c].exc = e
      BY <3>1 DEF Failure
    <3>3. e.class \in ClassNames
      BY ExceptionsAssumption DEF Raisable
    <3>4. AttemptOf(c) = [pos |-> pos[c], provider |-> Current(c), ok |-> FALSE,
                          error_type |-> e.class, status_code |-> e.status]
      BY <3>2 DEF AttemptOf, Attempt, Raises
    <3>. QED  BY <1>1, <1>2, <3>3, <3>4 DEF AttemptRecords
  <2>2. CASE reply[c] \in {Answer("json"), Answer("prose")}
    <3>1. ~Raises(c)
      BY <2>2 DEF Answer, Raises
    <3>2. "ValidationError" \in ClassNames
      BY DEF ClassNames, Bases
    <3>3. PICK b \in BOOLEAN, t \in {"None", "ValidationError"} :
            AttemptOf(c) = [pos |-> pos[c], provider |-> Current(c), ok |-> b,
                            error_type |-> t, status_code |-> 200]
      BY <3>1 DEF AttemptOf, Attempt
    <3>. QED  BY <1>1, <1>2, <3>2, <3>3 DEF AttemptRecords
  <2>. QED  BY <1>2, <2>1, <2>2 DEF Replies
<1>3. ASSUME pc[c] = "denied" PROVE Attempt(c, FALSE, "budget", 0) \in AttemptRecords
  BY <1>1, <1>3 DEF Attempt, AttemptRecords
<1>. QED  BY <1>2, <1>3

\* A step of one call leaves the chain, place, answer and attempts of the others.
LEMMA OthersStay ==
  ASSUME IInv, PlaceInv, OutcomeInv, NEW c \in Calls,
         Prepare(c) \/ InterruptPrepare(c) \/ Step(c) \/ Interrupt(c) \/ Cancel(c) \/ DropTraceback(c)
  PROVE  /\ request' = request
         /\ attempts' \in [Calls -> Seq(AttemptRecords)]
         /\ \A d \in Calls : d # c =>
              /\ pc'[d] = pc[d] /\ error'[d] = error[d]
              /\ chain'[d] = chain[d] /\ pos'[d] = pos[d]
              /\ reply'[d] = reply[d] /\ attempts'[d] = attempts[d]
<1>1. /\ \E k : chain' = [chain EXCEPT ![c] = k]
      /\ \E p : pos' = [pos EXCEPT ![c] = p]
      /\ \E r : reply' = [reply EXCEPT ![c] = r]
  <2>1. \E k : chain' = [chain EXCEPT ![c] = k]
    <3>1. chain = [chain EXCEPT ![c] = chain[c]]
      BY DEF IInv, Shape, PlaceInv
    <3>. QED
      BY <3>1 DEF Prepare, InterruptPrepare, Refused, Step, SkipCooling, NotCooling, Reserve, Denied,
         RecordDenied, OutOfBudget, Build, AdapterReplies, ReturnSlot, RecordSuccess,
         RecordStop, RecordCooling, RecordContinue, SetCooldown, NextProvider, Exhausted,
         NotifyFailure, Return, Unwind, Interrupt, Cancel, DropTraceback
  <2>2. \E p : pos' = [pos EXCEPT ![c] = p]
    <3>1. pos = [pos EXCEPT ![c] = pos[c]]
      BY DEF IInv, Shape, PlaceInv
    <3>. QED
      BY <3>1 DEF Prepare, InterruptPrepare, Refused, Step, SkipCooling, NotCooling, Reserve, Denied,
         RecordDenied, OutOfBudget, Build, AdapterReplies, ReturnSlot, RecordSuccess,
         RecordStop, RecordCooling, RecordContinue, SetCooldown, NextProvider, Exhausted,
         NotifyFailure, Return, Unwind, Interrupt, Cancel, DropTraceback
  <2>3. \E r : reply' = [reply EXCEPT ![c] = r]
    <3>1. reply = [reply EXCEPT ![c] = reply[c]]
      BY DEF IInv, Shape, PlaceInv
    <3>. QED
      BY <3>1 DEF Prepare, InterruptPrepare, Refused, Step, SkipCooling, NotCooling, Reserve, Denied,
         RecordDenied, OutOfBudget, Build, AdapterReplies, ReturnSlot, RecordSuccess,
         RecordStop, RecordCooling, RecordContinue, SetCooldown, NextProvider, Exhausted,
         NotifyFailure, Return, Unwind, Interrupt, Cancel, DropTraceback
  <2>. QED  BY <2>1, <2>2, <2>3
<1>2. /\ attempts' \in [Calls -> Seq(AttemptRecords)]
      /\ \A d \in Calls : d # c => attempts'[d] = attempts[d]
  <2>1. attempts \in [Calls -> Seq(AttemptRecords)]
    BY DEF OutcomeInv
  <2>2. CASE RecordDenied(c)
    <3>1. Attempt(c, FALSE, "budget", 0) \in AttemptRecords
      BY <2>2, AttemptIsRecord DEF RecordDenied
    <3>. QED  BY <2>1, <2>2, <3>1, Appended DEF RecordDenied
  <2>3. CASE RecordSuccess(c) \/ RecordStop(c) \/ RecordCooling(c) \/ RecordContinue(c)
    <3>1. Recorded(c)
      BY <2>3 DEF RecordSuccess, RecordStop, RecordCooling, RecordContinue
    <3>2. AttemptOf(c) \in AttemptRecords
      BY <3>1, AttemptIsRecord DEF Recorded, OutcomeInv, TrailFits
    <3>. QED  BY <2>1, <3>1, <3>2, Appended DEF Recorded
  <2>4. CASE ~(RecordDenied(c) \/ RecordSuccess(c) \/ RecordStop(c) \/ RecordCooling(c)
                 \/ RecordContinue(c))
    <3>1. attempts' = attempts
      BY <2>4 DEF Prepare, InterruptPrepare, Step, SkipCooling, NotCooling, Reserve, Denied, OutOfBudget,
         Build, AdapterReplies, ReturnSlot, SetCooldown, Exhausted,
         NotifyFailure, Return, Unwind, Interrupt, Cancel, DropTraceback
    <3>. QED  BY <2>1, <3>1
  <2>. QED  BY <2>2, <2>3, <2>4
<1>3. request' = request
  BY DEF Prepare, InterruptPrepare, Step, SkipCooling, NotCooling, Reserve, Denied,
     RecordDenied, OutOfBudget, Build, AdapterReplies, ReturnSlot, RecordSuccess,
     RecordStop, RecordCooling, RecordContinue, SetCooldown, Exhausted,
     NotifyFailure, Return, Unwind, Interrupt, Cancel, DropTraceback
<1>4. \A d \in Calls : d # c => pc'[d] = pc[d] /\ error'[d] = error[d]
  BY OneCallMoves DEF OutcomeInv
<1>. QED  BY <1>1, <1>2, <1>3, <1>4 DEF IInv, Shape, PlaceInv

\* The attempt that a handler appends goes last, and the earlier ones stay.
LEMMA Appends ==
  ASSUME IInv, OutcomeInv, NEW c \in Calls, NEW a \in AttemptRecords,
         attempts' = [attempts EXCEPT ![c] = Append(@, a)], request' = request
  PROVE  /\ attempts'[c] # <<>> /\ LastAttempt(c)' = a
         /\ attempts'[c][Len(attempts'[c])] = a
         /\ Len(attempts[c]) \in Nat /\ Len(attempts'[c]) = Len(attempts[c]) + 1
         /\ attempts'[c][Len(attempts[c]) + 1] = a
         /\ \A i \in 1 .. Len(attempts[c]) : attempts'[c][i] = attempts[c][i]
         /\ AllPassed(c) /\ Passed(a, request[c]) => AllPassed(c)'
<1>1. attempts[c] \in Seq(AttemptRecords) /\ attempts'[c] = Append(attempts[c], a)
  BY DEF OutcomeInv
<1>2. /\ attempts'[c] # <<>>
      /\ Len(attempts[c]) \in Nat /\ Len(attempts'[c]) = Len(attempts[c]) + 1
      /\ attempts'[c][Len(attempts[c]) + 1] = a
      /\ \A i \in 1 .. Len(attempts[c]) : attempts'[c][i] = attempts[c][i]
  BY <1>1, Appended
<1>3. AllPassed(c) /\ Passed(a, request[c]) => AllPassed(c)'
  <2>1. ASSUME AllPassed(c), Passed(a, request[c]), NEW i \in 1 .. Len(attempts'[c])
        PROVE  Passed(attempts'[c][i], request'[c])
    <3>1. CASE i \in 1 .. Len(attempts[c])
      BY <1>2, <2>1, <3>1 DEF AllPassed
    <3>2. CASE i = Len(attempts[c]) + 1
      BY <1>2, <2>1, <3>2
    <3>. QED  BY <1>2, <2>1, <3>1, <3>2
  <2>. QED  BY <2>1 DEF AllPassed
<1>. QED  BY <1>2, <1>3 DEF LastAttempt

LEMMA PlacesAreNumbers ==
  ASSUME IInv, OutcomeInv, NEW c \in Calls
  PROVE  pos[c] \in Nat /\ \A i \in 1 .. Len(attempts[c]) : attempts[c][i].pos \in Nat
<1>1. attempts[c] \in Seq(AttemptRecords) /\ pos[c] \in Nat
  BY DEF IInv, Shape, OutcomeInv
<1>2. \A i \in 1 .. Len(attempts[c]) : attempts[c][i] \in AttemptRecords
  BY <1>1
<1>. QED  BY <1>1, <1>2 DEF AttemptRecords

\* A passed attempt behind the earlier ones, and the next place of the chain.
LEMMA GoesOn ==
  ASSUME IInv, OutcomeInv, NEW c \in Calls, NEW a \in AttemptRecords,
         Underway(c), pc[c] # "cool",
         a.pos = pos[c], Passed(a, request[c]),
         attempts' = [attempts EXCEPT ![c] = Append(@, a)],
         UNCHANGED <<request, chain>>,
         \/ pos'[c] = pos[c] + 1
         \/ pos'[c] = pos[c] /\ pc'[c] = "cool"
  PROVE  Underway(c)'
<1>1. /\ Len(attempts[c]) \in Nat /\ Len(attempts'[c]) = Len(attempts[c]) + 1
      /\ attempts'[c][Len(attempts[c]) + 1] = a
      /\ \A i \in 1 .. Len(attempts[c]) : attempts'[c][i] = attempts[c][i]
      /\ AllPassed(c)'
  <2>1. request' = request /\ AllPassed(c)
    BY DEF Underway
  <2>. QED  BY <2>1, Appends
<1>2. pos[c] \in Nat /\ \A i \in 1 .. Len(attempts[c]) : attempts[c][i].pos \in Nat
  BY PlacesAreNumbers
<1>3. ASSUME NEW i \in 1 .. Len(attempts'[c])
      PROVE  attempts'[c][i].pos < pos'[c] \/ (pc'[c] = "cool" /\ attempts'[c][i].pos = pos'[c])
  <2>1. CASE i \in 1 .. Len(attempts[c])
    <3>1. attempts'[c][i] = attempts[c][i] /\ attempts[c][i].pos < pos[c]
      BY <1>1, <2>1 DEF Underway
    <3>. QED  BY <1>2, <2>1, <3>1
  <2>2. CASE i = Len(attempts[c]) + 1
    BY <1>1, <1>2, <2>2
  <2>. QED  BY <1>1, <1>3, <2>1, <2>2
<1>. QED  BY <1>1, <1>3 DEF Underway

\* A call on its way to an adapter, where nothing is appended.
LEMMA WalkKeeps ==
  ASSUME IInv, PlaceInv, OutcomeInv, NEW c \in Calls,
         \/ SkipCooling(c) \/ NotCooling(c) \/ Reserve(c) \/ Denied(c)
         \/ Build(c) \/ AdapterReplies(c) \/ ReturnSlot(c) \/ SetCooldown(c)
  PROVE  TrailFits(c)'
<1>1. /\ UNCHANGED <<request, chain, attempts>>
      /\ pc[c] \in {"choose", "reserve", "build", "call", "release", "cool"}
  BY DEF SkipCooling, NotCooling, Reserve, Denied, Build, AdapterReplies, ReturnSlot, SetCooldown
<1>2. pc'[c] \in {"choose", "reserve", "denied", "build", "call", "release", "record"}
  BY <1>1 DEF SkipCooling, NotCooling, Reserve, Denied, Build, AdapterReplies, ReturnSlot,
     SetCooldown, NextProvider, Goto, IInv, Shape
<1>3. \/ pos'[c] = pos[c] /\ pc[c] # "cool"
      \/ pos'[c] = pos[c] + 1
  BY DEF SkipCooling, NotCooling, Reserve, Denied, Build, AdapterReplies, ReturnSlot,
     SetCooldown, NextProvider, IInv, Shape
<1>4. Underway(c)
  BY <1>1 DEF OutcomeInv, TrailFits
<1>5. AllPassed(c)'
  BY <1>1, <1>4 DEF Underway, AllPassed
<1>6. pos[c] \in Nat /\ \A i \in 1 .. Len(attempts[c]) : attempts[c][i].pos \in Nat
  BY PlacesAreNumbers
<1>7. ASSUME NEW i \in 1 .. Len(attempts[c]) PROVE attempts[c][i].pos < pos'[c]
  <2>1. \/ attempts[c][i].pos < pos[c]
        \/ pc[c] = "cool" /\ attempts[c][i].pos = pos[c]
    BY <1>4, <1>7 DEF Underway
  <2>2. pos[c] \in Nat /\ attempts[c][i].pos \in Nat
    BY <1>6, <1>7
  <2>. QED  BY <1>3, <2>1, <2>2
<1>8. Underway(c)'
  BY <1>1, <1>4, <1>5, <1>7 DEF Underway
<1>9. pc'[c] \in {"release", "record"} => reply'[c] \in Replies
  <2>1. CASE AdapterReplies(c)
    BY <2>1 DEF AdapterReplies, PlaceInv
  <2>2. CASE ReturnSlot(c)
    BY <2>2 DEF ReturnSlot, OutcomeInv, TrailFits
  <2>3. CASE ~AdapterReplies(c) /\ ~ReturnSlot(c)
    BY <2>3 DEF SkipCooling, NotCooling, Reserve, Denied, Build, SetCooldown, NextProvider,
       Goto, IInv, Shape
  <2>. QED  BY <2>1, <2>2, <2>3
<1>. QED  BY <1>2, <1>8, <1>9 DEF TrailFits

\* The handlers append the attempt they saw: the call goes on if it may be
\* passed, and otherwise ends with it.
LEMMA RecordKeeps ==
  ASSUME IInv, PlaceInv, OutcomeInv, NEW c \in Calls,
         \/ RecordDenied(c) \/ RecordSuccess(c) \/ RecordStop(c)
         \/ RecordCooling(c) \/ RecordContinue(c)
  PROVE  TrailFits(c)'
<1>1. UNCHANGED <<request, chain>> /\ pc[c] \in {"denied", "record"}
  BY DEF RecordDenied, RecordSuccess, RecordStop, RecordCooling, RecordContinue, Recorded
<1>2. Underway(c) /\ pc[c] # "cool" /\ request[c].valid /\ chain[c] # <<>>
  BY <1>1 DEF OutcomeInv, TrailFits, Underway
<1>3. CASE RecordDenied(c)
  <2> DEFINE a == Attempt(c, FALSE, "budget", 0)
  <2>1. /\ a \in AttemptRecords /\ a.pos = pos[c] /\ Passed(a, request[c])
    BY <1>3, AttemptIsRecord DEF RecordDenied, Attempt, Passed, MayContinueAfter
  <2>2. /\ attempts' = [attempts EXCEPT ![c] = Append(@, a)]
        /\ pos'[c] = pos[c] + 1 /\ pc'[c] = "choose"
    BY <1>3 DEF RecordDenied, Goto, IInv, Shape
  <2> HIDE DEF a
  <2>3. Underway(c)'
    BY <1>1, <1>2, <2>1, <2>2, GoesOn
  <2>. QED  BY <2>2, <2>3 DEF TrailFits
<1>4. ASSUME pc[c] = "record"
      PROVE  /\ reply[c] \in Replies /\ AttemptOf(c) \in AttemptRecords
             /\ AttemptOf(c).pos = pos[c]
  <2>1. reply[c] \in Replies
    BY <1>4 DEF OutcomeInv, TrailFits
  <2>2. AttemptOf(c) \in AttemptRecords
    BY <1>4, <2>1, AttemptIsRecord
  <2>3. AttemptOf(c).pos = pos[c]
    BY DEF AttemptOf, Attempt
  <2>. QED  BY <2>1, <2>2, <2>3
<1>5. CASE RecordSuccess(c)
  <2>1. /\ pc[c] = "record" /\ Accepted(c) /\ pc'[c] = "report"
        /\ attempts' = [attempts EXCEPT ![c] = Append(@, AttemptOf(c))]
    BY <1>5 DEF RecordSuccess, Recorded, Goto, IInv, Shape
  <2>2. AttemptOf(c).ok
    BY <1>4, <2>1, StopsByTheTable
  <2>3. attempts'[c] # <<>> /\ LastAttempt(c)' = AttemptOf(c)
    BY <1>1, <1>4, <2>1, Appends
  <2>4. Succeeded(c)'
    BY <1>1, <1>2, <2>2, <2>3 DEF Succeeded
  <2>. QED  BY <2>1, <2>4 DEF TrailFits
<1>6. CASE RecordStop(c)
  <2>1. /\ pc[c] = "record" /\ Stops(c) /\ pc'[c] = "notify"
        /\ attempts' = [attempts EXCEPT ![c] = Append(@, AttemptOf(c))]
    BY <1>6 DEF RecordStop, Recorded, Goto, IInv, Shape
  <2>2. /\ error'[c].class = reply[c].exc.class /\ error'[c].adapter
        /\ IsInstance(reply[c].exc, "MultiproviderError") =>
             error'[c].attached = attempts'[c]
    BY <1>6 DEF RecordStop, Rethrown, OutcomeInv, Tables
  <2>3. /\ reply[c].exc.class \in ClassNames \ {"Interrupt"}
        /\ AttemptOf(c).error_type = reply[c].exc.class
        /\ ~AttemptOf(c).ok /\ ~MayContinueAfter(AttemptOf(c), request[c])
    BY <1>4, <2>1, StopsByTheTable
  <2>4. attempts'[c] # <<>> /\ LastAttempt(c)' = AttemptOf(c)
    BY <1>1, <1>4, <2>1, Appends
  <2>5. IsInstance(Raised(error'[c].class), "MultiproviderError") =>
          IsInstance(reply[c].exc, "MultiproviderError")
    BY <2>2 DEF IsInstance, Raised
  <2>6. Stopped(c)'
    BY <1>1, <2>2, <2>3, <2>4, <2>5 DEF Stopped
  <2>7. ErrorFits(c)'
    BY <2>2, <2>6 DEF ErrorFits
  <2>. QED  BY <2>1, <2>7 DEF TrailFits
<1>7. CASE RecordCooling(c) \/ RecordContinue(c)
  <2>1. /\ pc[c] = "record" /\ ~Stops(c)
        /\ attempts' = [attempts EXCEPT ![c] = Append(@, AttemptOf(c))]
        /\ \/ pos'[c] = pos[c] + 1 /\ pc'[c] = "choose"
           \/ pos'[c] = pos[c] /\ pc'[c] = "cool" /\ reply' = reply
    BY <1>7 DEF RecordCooling, RecordContinue, NextProvider, Recorded, Goto, IInv, Shape
  <2>2. ~Accepted(c)
    BY <1>7 DEF RecordCooling, RecordContinue, CoolsDown, Raises, Accepted
  <2>3. Passed(AttemptOf(c), request[c])
    BY <1>4, <2>1, <2>2, StopsByTheTable
  <2>4. Underway(c)'
    <3>1. AttemptOf(c) \in AttemptRecords /\ AttemptOf(c).pos = pos[c]
      BY <1>4, <2>1
    <3> DEFINE a == AttemptOf(c)
    <3>2. /\ a \in AttemptRecords /\ a.pos = pos[c] /\ Passed(a, request[c])
          /\ attempts' = [attempts EXCEPT ![c] = Append(@, a)]
      BY <2>1, <2>3, <3>1
    <3> HIDE DEF a
    <3>. QED  BY <1>1, <1>2, <2>1, <3>2, GoesOn
  <2>5. pc'[c] = "cool" => reply'[c] \in Replies
    BY <1>4, <2>1
  <2>. QED  BY <2>1, <2>4, <2>5 DEF TrailFits
<1>. QED  BY <1>3, <1>5, <1>6, <1>7

\* Preparation, the end of the chain and of the budget, and the last steps.
LEMMA EndKeeps ==
  ASSUME IInv, PlaceInv, OutcomeInv, NEW c \in Calls,
         \/ Prepare(c) \/ InterruptPrepare(c)
         \/ OutOfBudget(c) \/ Exhausted(c) \/ NotifyFailure(c) \/ Return(c)
         \/ Unwind(c) \/ Interrupt(c) \/ Cancel(c) \/ DropTraceback(c)
  PROVE  TrailFits(c)'
<1>1. UNCHANGED <<request, attempts, pos>> /\ TrailFits(c)
  BY DEF Prepare, InterruptPrepare, OutOfBudget, Exhausted, NotifyFailure, Return, Unwind, Interrupt, Cancel,
     DropTraceback, OutcomeInv
<1>2. /\ AllPassed(c)' <=> AllPassed(c)
      /\ LastAttempt(c)' = LastAttempt(c)
  BY <1>1 DEF AllPassed, LastAttempt
<1>3. CASE Prepare(c) \/ InterruptPrepare(c)
  <2>1. pc[c] = "idle" /\ attempts[c] = <<>> /\ chain[c] = <<>>
    BY <1>1, <1>3 DEF Prepare, InterruptPrepare, TrailFits
  <2>2. CASE /\ pc' = [pc EXCEPT ![c] = "choose"]
             /\ request[c].valid
             /\ ResolveChain(Config, request[c]) # <<>>
             /\ chain' = [chain EXCEPT ![c] = ResolveChain(Config, request[c])]
    <3>1. pc'[c] = "choose" /\ chain'[c] # <<>>
      BY <2>2 DEF IInv, Shape
    <3>2. Underway(c)'
      BY <1>1, <2>1, <2>2, <3>1 DEF Underway, AllPassed
    <3>. QED  BY <3>1, <3>2 DEF TrailFits
  <2>3. CASE \E class \in Refusals : Refused(c, class)
    <3>1. pc'[c] = "notify" /\ chain' = chain
      BY <2>3 DEF Refused, Goto, IInv, Shape
    <3>2. /\ error'[c].class \in Refusals
          /\ ~error'[c].adapter /\ error'[c].attached = <<>>
      BY <2>3 DEF Refused, Error, OutcomeInv, Tables
    <3>3. ErrorFits(c)'
      BY <1>1, <2>1, <3>1, <3>2 DEF ErrorFits
    <3>. QED  BY <3>1, <3>3 DEF TrailFits
  <2>. QED  BY <1>3, <2>2, <2>3 DEF Prepare, InterruptPrepare, Refusals, Goto
<1>4. CASE OutOfBudget(c) \/ Exhausted(c)
  <2>1. chain' = chain /\ pc'[c] = "notify" /\ Underway(c)
    BY <1>1, <1>4 DEF OutOfBudget, Exhausted, Goto, IInv, Shape, TrailFits
  <2>2. CASE OutOfBudget(c)
    <3>1. error'[c].class = "BudgetExceeded" /\ ~error'[c].adapter
      BY <2>2 DEF OutOfBudget, Error, OutcomeInv, Tables
    <3>2. ErrorFits(c)'
      BY <1>1, <1>2, <2>1, <3>1 DEF ErrorFits, Underway
    <3>. QED  BY <2>1, <3>2 DEF TrailFits
  <2>3. CASE Exhausted(c)
    <3>1. AtEnd(c)'
      BY <1>1, <2>1, <2>3 DEF Exhausted, AtEnd
    <3>2. /\ ~error'[c].adapter
          /\ \/ /\ error'[c].class = "NoEligibleProviders"
                /\ attempts[c] = <<>> /\ error'[c].attached = <<>>
             \/ /\ error'[c].class = "AllProvidersFailed"
                /\ attempts[c] # <<>> /\ error'[c].attached = attempts[c]
      BY <2>3 DEF Exhausted, Error, OutcomeInv, Tables
    <3>3. ErrorFits(c)'
      BY <1>1, <1>2, <2>1, <3>1, <3>2 DEF ErrorFits, Underway
    <3>. QED  BY <2>1, <3>3 DEF TrailFits
  <2>. QED  BY <1>4, <2>2, <2>3
<1>5. CASE NotifyFailure(c) \/ Return(c) \/ Unwind(c) \/ DropTraceback(c)
  <2>1. UNCHANGED <<error, chain>>
    BY <1>5 DEF NotifyFailure, Return, Unwind, DropTraceback
  <2>2. (ErrorFits(c) => ErrorFits(c)') /\ (Succeeded(c) => Succeeded(c)')
    BY <1>1, <1>2, <2>1 DEF ErrorFits, Succeeded, Stopped, AtEnd
  <2>3. \/ pc[c] = "notify" /\ pc'[c] \in {"unwind", "interrupted"}
        \/ pc[c] = "notify" /\ error[c].class # "Interrupt" /\ pc'[c] = "raised"
        \/ pc[c] = "report" /\ pc'[c] = "returned"
        \/ pc[c] = "unwind" /\ pc'[c] = "interrupted"
        \/ pc[c] = "unwind" /\ error[c].class # "Interrupt" /\ pc'[c] = "raised"
        \/ pc'[c] = pc[c] /\ Ended(c)
    BY <1>5 DEF NotifyFailure, Return, Unwind, DropTraceback, Goto, IInv, Shape
  <2>. QED  BY <1>1, <2>1, <2>2, <2>3 DEF TrailFits, Ended
<1>6. CASE Interrupt(c) \/ Cancel(c)
  <2>1. pc'[c] \in {"unwind", "interrupted"} /\ error'[c].class = "Interrupt"
    BY <1>6 DEF Interrupt, Cancel, Goto, Error, OutcomeInv, Tables, IInv, Shape
  <2>. QED  BY <2>1 DEF TrailFits
<1>. QED  BY <1>3, <1>4, <1>5, <1>6

LEMMA NextFits == IInv /\ PlaceInv /\ OutcomeInv /\ [Next]_vars => OutcomeInv'
<1> SUFFICES ASSUME IInv, PlaceInv, OutcomeInv, [Next]_vars PROVE OutcomeInv'
  OBVIOUS
<1>1. ASSUME NEW c \in Calls,
             Prepare(c) \/ InterruptPrepare(c) \/ Step(c) \/ Interrupt(c) \/ Cancel(c) \/ DropTraceback(c)
      PROVE  OutcomeInv'
  <2>1. /\ request' = request
        /\ attempts' \in [Calls -> Seq(AttemptRecords)]
        /\ \A d \in Calls : d # c =>
             /\ pc'[d] = pc[d] /\ error'[d] = error[d]
             /\ chain'[d] = chain[d] /\ pos'[d] = pos[d]
             /\ reply'[d] = reply[d] /\ attempts'[d] = attempts[d]
    BY <1>1, OthersStay
  <2>2. Tables'
    BY <1>1, OneCallMoves DEF OutcomeInv
  <2>3. TrailFits(c)'
    BY <1>1, WalkKeeps, RecordKeeps, EndKeeps DEF Step
  <2>4. ASSUME NEW d \in Calls, d # c PROVE TrailFits(d)'
    <3>1. /\ Underway(d)' <=> Underway(d)
          /\ Succeeded(d)' <=> Succeeded(d)
          /\ ErrorFits(d)' <=> ErrorFits(d)
      BY <2>1, <2>4 DEF Underway, Succeeded, ErrorFits, Stopped, AllPassed, LastAttempt, AtEnd
    <3>. QED  BY <2>1, <2>4, <3>1 DEF OutcomeInv, TrailFits
  <2>. QED  BY <2>1, <2>2, <2>3, <2>4 DEF OutcomeInv
<1>2. CASE Tick \/ UNCHANGED vars
  <2>1. UNCHANGED <<pc, request, chain, pos, reply, attempts, error, told>>
    BY <1>2 DEF Tick, vars, callVars
  <2>. QED
    BY <2>1 DEF OutcomeInv, Tables, TrailFits, Underway, Succeeded, ErrorFits, Stopped,
       AllPassed, LastAttempt, AtEnd
<1>. QED  BY <1>1, <1>2 DEF Next

LEMMA InitFits == Init => OutcomeInv
<1> SUFFICES ASSUME Init PROVE OutcomeInv
  OBVIOUS
<1>1. <<>> \in Seq(AttemptRecords)
  OBVIOUS
<1>. QED  BY <1>1 DEF Init, OutcomeInv, Tables, TrailFits

LEMMA OutcomeInductive == Spec => [](IInv /\ PlaceInv /\ OutcomeInv)
<1>1. Init => PlaceInv
  BY DEF Init, PlaceInv
<1>. QED  BY <1>1, InitFits, NextPlace, NextFits, Inductive, PTL DEF Spec

\* A call ends with what its attempts say, for every chain and every answer: a
\* result, an adapter's error or AllProvidersFailed, each with the attempts the
\* handlers recorded, the last of which is the one that decided.
THEOREM OutcomesFit == Spec => []OutcomeFitsAttempts
<1>1. ASSUME OutcomeInv PROVE OutcomeFitsAttempts
  <2> SUFFICES ASSUME NEW c \in Calls
      PROVE  LET n == Len(attempts[c])
                 class == error[c].class
                 own   == ~error[c].adapter
             IN  /\ pc[c] = "returned" =>
                      n > 0 /\ attempts[c][n].ok /\ request[c].valid
                 /\ pc[c] = "raised" /\ own /\ class = "AllProvidersFailed" =>
                      /\ n > 0 /\ AtEnd(c)
                      /\ \A i \in 1 .. n : MayContinueAfter(attempts[c][i], request[c])
                 /\ pc[c] = "raised" /\ ~own =>
                      /\ n > 0 /\ attempts[c][n].error_type = class
                      /\ ~MayContinueAfter(attempts[c][n], request[c])
                 /\ pc[c] = "raised" /\ (own => class # "BudgetExceeded")
                      /\ IsInstance(Raised(class), "MultiproviderError") =>
                      error[c].attached = attempts[c]
    BY DEF OutcomeFitsAttempts
  <2>1. attempts[c] \in Seq(AttemptRecords) /\ TrailFits(c)
    BY <1>1 DEF OutcomeInv
  <2>2. /\ Len(attempts[c]) \in Nat
        /\ attempts[c] # <<>> => Len(attempts[c]) > 0
        /\ attempts[c] = <<>> => Len(attempts[c]) = 0
    BY <2>1
  <2>3. CASE pc[c] = "returned"
    BY <2>1, <2>2, <2>3 DEF TrailFits, Succeeded, LastAttempt
  <2>4. CASE pc[c] = "raised"
    <3>1. ErrorFits(c)
      BY <2>1, <2>4 DEF TrailFits
    <3>2. CASE /\ attempts[c] = <<>> /\ error[c].attached = <<>>
               /\ ~error[c].adapter /\ error[c].class # "AllProvidersFailed"
      BY <2>2, <2>4, <3>2
    <3>3. CASE /\ ~error[c].adapter /\ error[c].class = "AllProvidersFailed"
               /\ attempts[c] # <<>> /\ AllPassed(c) /\ AtEnd(c)
               /\ error[c].attached = attempts[c]
      BY <2>2, <2>4, <3>3 DEF AllPassed, Passed
    <3>4. CASE ~error[c].adapter /\ error[c].class = "BudgetExceeded"
      BY <2>4, <3>4
    <3>5. CASE error[c].adapter /\ Stopped(c)
      BY <2>2, <2>4, <3>5 DEF Stopped, LastAttempt
    <3>. QED
      BY <3>1, <3>2, <3>3, <3>4, <3>5 DEF ErrorFits, Refusals, InvalidArguments
  <2>. QED  BY <2>3, <2>4
<1>. QED  BY <1>1, OutcomeInductive, PTL

-----------------------------------------------------------------------------
(* What the hooks were told *)

\* What a hook was told fits the attempts; with one hook this is ToldTruly.
Truth(c, t) ==
  /\ t.hook \in {"on_success", "on_failure"}
  /\ t.hook = "on_success" => attempts[c] # <<>> /\ LastAttempt(c).ok
  /\ t.hook = "on_failure" => attempts[c] = <<>> \/ ~LastAttempt(c).ok
  /\ t.class = "Interrupt" => chain[c] = <<>>

\* A call in its finally clause was told of its failure, unless it is there
\* because of an interruption.
ToldSoFar(c) ==
  /\ told[c] = <<>> \/ \E t : told[c] = <<t>> /\ Truth(c, t)
  /\ pc[c] = "returned" => told[c] = <<Told("on_success", "None")>>
  /\ pc[c] = "raised" \/ (pc[c] = "unwind" /\ error[c].class # "Interrupt") =>
       told[c] = <<Told("on_failure", error[c].class)>>
  /\ ~Ended(c) /\ pc[c] # "unwind" => told[c] = <<>>

ToldInv == \A c \in Calls : ToldSoFar(c)

\* The hook that is due would be told the truth.
LEMMA DueIsTrue ==
  ASSUME OutcomeInv, NEW c \in Calls
  PROVE  /\ pc[c] = "notify" => Truth(c, Told("on_failure", error[c].class))
         /\ pc[c] = "report" => Truth(c, Told("on_success", "None"))
<1>1. TrailFits(c) /\ attempts[c] \in Seq(AttemptRecords)
  BY DEF OutcomeInv
<1>2. AllPassed(c) => attempts[c] = <<>> \/ ~LastAttempt(c).ok
  <2>1. attempts[c] # <<>> => Len(attempts[c]) \in 1 .. Len(attempts[c])
    BY <1>1
  <2>. QED  BY <2>1 DEF AllPassed, Passed, LastAttempt
<1>3. ASSUME ErrorFits(c) PROVE attempts[c] = <<>> \/ ~LastAttempt(c).ok
  BY <1>2, <1>3 DEF ErrorFits, Stopped
<1>4. ASSUME ErrorFits(c), error[c].class = "Interrupt" PROVE chain[c] = <<>>
  BY <1>4 DEF ErrorFits, Stopped
<1>. QED  BY <1>1, <1>3, <1>4 DEF TrailFits, Succeeded, Truth, Told

\* The hooks of the call that moves: on_success and on_failure each run in one
\* step, after which the call ends or is in its finally clause.
LEMMA MoverTold ==
  ASSUME IInv, OutcomeInv, ToldInv, NEW c \in Calls,
         Prepare(c) \/ InterruptPrepare(c) \/ Step(c) \/ Interrupt(c) \/ Cancel(c) \/ DropTraceback(c)
  PROVE  ToldSoFar(c)'
<1>1. pc \in [Calls -> PCs] /\ ToldSoFar(c) /\ Tables
  BY DEF IInv, Shape, ToldInv, OutcomeInv
<1>0. PICK Failed, Success :
        Failed = Told("on_failure", error[c].class) /\ Success = Told("on_success", "None")
  OBVIOUS
<1>2. ASSUME UNCHANGED <<attempts, chain>>, NEW t
      PROVE  Truth(c, t)' <=> Truth(c, t)
  BY <1>2 DEF Truth, LastAttempt
<1>3. ASSUME told[c] = <<>>, NEW t, told' = [told EXCEPT ![c] = Append(@, t)]
      PROVE  told'[c] = <<t>>
  <2>1. told'[c] = Append(<<>>, t)
    BY <1>1, <1>3 DEF Tables
  <2>. QED  BY <2>1
<1>4. CASE NotifyFailure(c)
  <2>1. /\ pc[c] = "notify" /\ told[c] = <<>> /\ UNCHANGED <<error, attempts, chain>>
        /\ told' = [told EXCEPT ![c] = Append(@, Failed)]
    BY <1>0, <1>1, <1>4 DEF NotifyFailure, TellFailure, ToldSoFar, Ended
  <2>2. /\ pc'[c] \in {"raised", "unwind", "interrupted"}
        /\ Truth(c, Failed)
    BY <1>0, <1>1, <1>4, <2>1, DueIsTrue DEF NotifyFailure, Goto
  <2>3. told'[c] = <<Failed>> /\ Truth(c, Failed)'
    BY <1>2, <1>3, <2>1, <2>2
  <2>. QED  BY <1>0, <2>1, <2>2, <2>3 DEF ToldSoFar, Ended
<1>5. CASE Return(c)
  <2>1. /\ pc[c] = "report" /\ told[c] = <<>> /\ UNCHANGED <<error, attempts, chain>>
        /\ told' = [told EXCEPT ![c] = Append(@, Success)]
    BY <1>0, <1>1, <1>5 DEF Return, TellSuccess, ToldSoFar, Ended
  <2>2. pc'[c] = "returned" /\ Truth(c, Success)
    BY <1>0, <1>1, <1>5, <2>1, DueIsTrue DEF Return, Goto
  <2>3. told'[c] = <<Success>> /\ Truth(c, Success)'
    BY <1>2, <1>3, <2>1, <2>2
  <2>. QED  BY <1>0, <2>1, <2>2, <2>3 DEF ToldSoFar, Ended
<1>6. CASE Unwind(c)
  <2>1. /\ pc[c] = "unwind" /\ UNCHANGED <<told, error, attempts, chain>>
        /\ pc'[c] = IF error[c].class = "Interrupt" THEN "interrupted" ELSE "raised"
    BY <1>1, <1>6 DEF Unwind, Goto
  <2>. QED  BY <1>1, <1>2, <2>1 DEF ToldSoFar, Ended
<1>7. CASE Interrupt(c) \/ Cancel(c)
  <2>1. pc'[c] \in {"unwind", "interrupted"} /\ UNCHANGED <<attempts, chain>>
    BY <1>1, <1>7 DEF Interrupt, Cancel, Goto
  <2>2. error'[c].class = "Interrupt"
    BY <1>1, <1>7 DEF Interrupt, Cancel, Error, Tables
  <2>3. \/ told' = told
        \/ pc[c] = "notify" /\ told' = [told EXCEPT ![c] = Append(@, Failed)]
        \/ pc[c] = "report" /\ told' = [told EXCEPT ![c] = Append(@, Success)]
    BY <1>0, <1>7 DEF Interrupt, Cancel, TellFailure, TellSuccess
  <2>4. pc[c] \in {"notify", "report"} => told[c] = <<>>
    BY <1>1 DEF ToldSoFar, Ended
  <2>5. /\ pc[c] = "notify" => Truth(c, Failed)
        /\ pc[c] = "report" => Truth(c, Success)
    BY <1>0, DueIsTrue
  <2>6. told'[c] = <<>> \/ \E t : told'[c] = <<t>> /\ Truth(c, t)'
    <3>1. CASE told' = told
      BY <1>1, <1>2, <2>1, <3>1 DEF ToldSoFar
    <3>2. CASE pc[c] = "notify" /\ told' = [told EXCEPT ![c] = Append(@, Failed)]
      <4>1. told'[c] = <<Failed>> /\ Truth(c, Failed)'
        BY <1>2, <1>3, <2>1, <2>4, <2>5, <3>2
      <4>. QED  BY <4>1
    <3>3. CASE pc[c] = "report" /\ told' = [told EXCEPT ![c] = Append(@, Success)]
      <4>1. told'[c] = <<Success>> /\ Truth(c, Success)'
        BY <1>2, <1>3, <2>1, <2>4, <2>5, <3>3
      <4>. QED  BY <4>1
    <3>. QED  BY <2>3, <3>1, <3>2, <3>3
  <2>. QED  BY <2>1, <2>2, <2>6 DEF ToldSoFar, Ended
<1>8. CASE DropTraceback(c)
  <2>1. UNCHANGED <<pc, error, told, attempts, chain>>
    BY <1>8 DEF DropTraceback
  <2>. QED  BY <1>1, <1>2, <2>1 DEF ToldSoFar, Ended
<1>9. CASE \/ Prepare(c) \/ InterruptPrepare(c)
           \/ SkipCooling(c) \/ NotCooling(c) \/ Reserve(c) \/ Denied(c)
           \/ RecordDenied(c) \/ OutOfBudget(c) \/ Build(c) \/ AdapterReplies(c)
           \/ ReturnSlot(c) \/ RecordSuccess(c) \/ RecordStop(c) \/ RecordCooling(c)
           \/ RecordContinue(c) \/ SetCooldown(c) \/ Exhausted(c)
  <2>1. /\ told' = told
        /\ pc[c] \in {"idle", "choose", "reserve", "denied", "build", "call", "release",
                      "record", "cool"}
    BY <1>9 DEF Prepare, InterruptPrepare, SkipCooling, NotCooling, Reserve, Denied, RecordDenied,
       OutOfBudget, Build, AdapterReplies, ReturnSlot, RecordSuccess, RecordStop,
       RecordCooling, RecordContinue, Recorded, SetCooldown, Exhausted
  <2>2. pc'[c] \in {"choose", "reserve", "denied", "build", "call", "release",
                    "record", "cool", "notify", "report"}
    BY <1>1, <1>9 DEF Prepare, InterruptPrepare, Refused, SkipCooling, NotCooling, Reserve, Denied,
       RecordDenied, OutOfBudget, Build, AdapterReplies, ReturnSlot, RecordSuccess,
       RecordStop, RecordCooling, RecordContinue, SetCooldown, NextProvider, Exhausted, Goto
  <2>3. told[c] = <<>>
    BY <1>1, <2>1 DEF ToldSoFar, Ended
  <2>. QED  BY <2>1, <2>2, <2>3 DEF ToldSoFar, Ended
<1>. QED  BY <1>4, <1>5, <1>6, <1>7, <1>8, <1>9 DEF Step

LEMMA NextTells == IInv /\ PlaceInv /\ OutcomeInv /\ ToldInv /\ [Next]_vars => ToldInv'
<1> SUFFICES ASSUME IInv, PlaceInv, OutcomeInv, ToldInv, [Next]_vars PROVE ToldInv'
  OBVIOUS
<1>1. ASSUME NEW c \in Calls,
             Prepare(c) \/ InterruptPrepare(c) \/ Step(c) \/ Interrupt(c) \/ Cancel(c) \/ DropTraceback(c)
      PROVE  ToldInv'
  <2>1. ToldSoFar(c)'
    BY <1>1, MoverTold
  <2>2. ASSUME NEW d \in Calls, d # c PROVE ToldSoFar(d)'
    <3>1. /\ pc'[d] = pc[d] /\ error'[d] = error[d]
          /\ chain'[d] = chain[d] /\ attempts'[d] = attempts[d]
      BY <1>1, <2>2, OthersStay
    <3>2. told'[d] = told[d]
      BY <1>1, <2>2, OneCallMoves DEF OutcomeInv
    <3>3. \A t : Truth(d, t)' <=> Truth(d, t)
      BY <3>1 DEF Truth, LastAttempt
    <3>4. ToldSoFar(d)
      BY DEF ToldInv
    <3>. QED  BY <3>1, <3>2, <3>3, <3>4 DEF ToldSoFar, Ended
  <2>. QED  BY <2>1, <2>2 DEF ToldInv
<1>2. CASE Tick \/ UNCHANGED vars
  <2>1. UNCHANGED <<pc, error, told, attempts, chain>>
    BY <1>2 DEF Tick, vars, callVars
  <2>. QED  BY <2>1 DEF ToldInv, ToldSoFar, Truth, LastAttempt, Ended
<1>. QED  BY <1>1, <1>2 DEF Next

LEMMA ToldInductive == Spec => [](IInv /\ PlaceInv /\ OutcomeInv /\ ToldInv)
<1>1. Init => ToldInv
  BY DEF Init, ToldInv, ToldSoFar, Ended, NoError, Error
<1>. QED  BY <1>1, NextTells, OutcomeInductive, PTL DEF Spec

\* Whatever an adapter answers, a call that returns ran on_success once and one
\* that raises on_failure once, of what it raises.  A call that is interrupted
\* or cancelled ran at most one, which told the truth of its attempts, and
\* hears of the interruption itself only in _prepare_call.
THEOREM OutcomeToldOnce == Spec => []OneOutcomeTold
<1>1. ASSUME OutcomeInv, ToldInv PROVE OneOutcomeTold
  <2> SUFFICES ASSUME NEW c \in Calls
      PROVE  /\ pc[c] = "returned" => told[c] = <<Told("on_success", "None")>>
             /\ pc[c] = "raised" => told[c] = <<Told("on_failure", error[c].class)>>
             /\ ~Ended(c) /\ pc[c] # "unwind" => told[c] = <<>>
             /\ Len(told[c]) <= 1
             /\ ToldTruly(c)
    BY DEF OneOutcomeTold
  <2>1. ToldSoFar(c) /\ attempts[c] \in Seq(AttemptRecords)
    BY <1>1 DEF ToldInv, OutcomeInv
  <2>2. Len(told[c]) <= 1
    <3>1. CASE told[c] = <<>>
      BY <3>1
    <3>2. ASSUME NEW t, told[c] = <<t>> PROVE Len(told[c]) <= 1
      BY <3>2
    <3>. QED  BY <2>1, <3>1, <3>2 DEF ToldSoFar
  <2>3. /\ Len(attempts[c]) \in Nat
        /\ attempts[c] # <<>> <=> Len(attempts[c]) > 0
    BY <2>1
  <2>4. ToldTruly(c)
    <3>1. CASE told[c] = <<>>
      BY <3>1 DEF ToldTruly
    <3>2. ASSUME NEW t, told[c] = <<t>>, Truth(c, t) PROVE ToldTruly(c)
      <4>1. \A i \in DOMAIN told[c] : told[c][i] = t
        BY <3>2
      <4>. QED  BY <2>3, <3>2, <4>1 DEF ToldTruly, Truth, LastAttempt
    <3>. QED  BY <2>1, <3>1, <3>2 DEF ToldSoFar
  <2>. QED  BY <2>1, <2>2, <2>4 DEF ToldSoFar
<1>. QED  BY <1>1, ToldInductive, PTL

-----------------------------------------------------------------------------
(* Types *)

\* An attempt is one at a place of the chain, with the provider of that place.
Located(c) ==
  \A i \in 1 .. Len(attempts[c]) :
    /\ attempts[c][i].pos \in 1 .. Len(chain[c])
    /\ attempts[c][i].provider = chain[c][attempts[c][i].pos]

LocatedInv ==
  \A c \in Calls : Located(c) /\ error[c].class \in ClassNames \cup {"None"}

\* A handler that appends an attempt is at a place of the chain.
LEMMA RecordLocates ==
  ASSUME IInv, OutcomeInv, LocatedInv, NEW c \in Calls,
         RecordDenied(c) \/ RecordSuccess(c) \/ RecordStop(c)
           \/ RecordCooling(c) \/ RecordContinue(c)
  PROVE  Located(c)'
<1>1. /\ UNCHANGED <<request, chain>> /\ pc[c] \in {"denied", "record"}
      /\ pc[c] = "record" => reply[c] \in Replies
  BY DEF RecordDenied, RecordSuccess, RecordStop, RecordCooling, RecordContinue, Recorded,
     OutcomeInv, TrailFits
<1>2. PICK a \in AttemptRecords :
        /\ attempts' = [attempts EXCEPT ![c] = Append(@, a)]
        /\ a.pos = pos[c] /\ a.provider = Current(c)
  <2>1. CASE RecordDenied(c)
    <3> DEFINE a == Attempt(c, FALSE, "budget", 0)
    <3>1. a \in AttemptRecords /\ a.pos = pos[c] /\ a.provider = Current(c)
      BY <2>1, AttemptIsRecord DEF RecordDenied, Attempt
    <3>2. attempts' = [attempts EXCEPT ![c] = Append(@, a)]
      BY <2>1 DEF RecordDenied
    <3>. QED  BY <3>1, <3>2
  <2>2. CASE RecordSuccess(c) \/ RecordStop(c) \/ RecordCooling(c) \/ RecordContinue(c)
    <3>1. pc[c] = "record" /\ attempts' = [attempts EXCEPT ![c] = Append(@, AttemptOf(c))]
      BY <2>2 DEF RecordSuccess, RecordStop, RecordCooling, RecordContinue, Recorded
    <3>2. AttemptOf(c) \in AttemptRecords
      BY <1>1, <3>1, AttemptIsRecord
    <3>3. AttemptOf(c).pos = pos[c] /\ AttemptOf(c).provider = Current(c)
      BY DEF AttemptOf, Attempt
    <3>. QED  BY <3>1, <3>2, <3>3
  <2>. QED  BY <2>1, <2>2
<1>3. pos[c] \in 1 .. Len(chain[c])
  <2>1. pos[c] \in Nat \ {0} /\ chain[c] \in Seq(Providers) /\ pos[c] <= Len(chain[c])
    BY <1>1 DEF IInv, Shape, OnChain
  <2>. QED  BY <2>1
<1>4. /\ Len(attempts[c]) \in Nat /\ Len(attempts'[c]) = Len(attempts[c]) + 1
      /\ attempts'[c][Len(attempts[c]) + 1] = a
      /\ \A i \in 1 .. Len(attempts[c]) : attempts'[c][i] = attempts[c][i]
  BY <1>1, <1>2, Appends
<1>5. ASSUME NEW i \in 1 .. Len(attempts'[c])
      PROVE  /\ attempts'[c][i].pos \in 1 .. Len(chain[c])
             /\ attempts'[c][i].provider = chain[c][attempts'[c][i].pos]
  <2>1. CASE i \in 1 .. Len(attempts[c])
    BY <1>4, <2>1 DEF LocatedInv, Located
  <2>2. CASE i = Len(attempts[c]) + 1
    BY <1>2, <1>3, <1>4, <2>2 DEF Current
  <2>. QED  BY <1>4, <1>5, <2>1, <2>2
<1>. QED  BY <1>1, <1>5 DEF Located

LEMMA NextLocates ==
  IInv /\ PlaceInv /\ OutcomeInv /\ LocatedInv /\ [Next]_vars => LocatedInv'
<1> SUFFICES ASSUME IInv, PlaceInv, OutcomeInv, LocatedInv, [Next]_vars PROVE LocatedInv'
  OBVIOUS
<1>1. ASSUME NEW c \in Calls,
             Prepare(c) \/ InterruptPrepare(c) \/ Step(c) \/ Interrupt(c) \/ Cancel(c) \/ DropTraceback(c)
      PROVE  LocatedInv'
  <2>1. \A d \in Calls : d # c =>
          /\ error'[d] = error[d] /\ chain'[d] = chain[d] /\ attempts'[d] = attempts[d]
    BY <1>1, OthersStay
  <2>2. Located(c)'
    <3>1. CASE Prepare(c) \/ InterruptPrepare(c)
      <4>1. attempts'[c] = <<>>
        BY <3>1 DEF Prepare, InterruptPrepare, OutcomeInv, TrailFits
      <4>. QED  BY <4>1 DEF Located
    <3>2. CASE RecordDenied(c) \/ RecordSuccess(c) \/ RecordStop(c)
                 \/ RecordCooling(c) \/ RecordContinue(c)
      BY <3>2, RecordLocates
    <3>3. CASE /\ ~(Prepare(c) \/ InterruptPrepare(c))
               /\ ~(RecordDenied(c) \/ RecordSuccess(c) \/ RecordStop(c)
                      \/ RecordCooling(c) \/ RecordContinue(c))
      <4>1. UNCHANGED <<attempts, chain>>
        BY <1>1, <3>3 DEF Step, SkipCooling, NotCooling, Reserve, Denied, OutOfBudget,
           Build, AdapterReplies, ReturnSlot, SetCooldown, Exhausted,
           NotifyFailure, Return, Unwind, Interrupt, Cancel, DropTraceback
      <4>. QED  BY <4>1 DEF LocatedInv, Located
    <3>. QED  BY <3>1, <3>2, <3>3
  <2>3. error'[c].class \in ClassNames \cup {"None"}
    <3>1. CASE RecordStop(c)
      <4>1. reply[c] \in Replies /\ Stops(c) /\ error'[c].class = reply[c].exc.class
        BY <3>1 DEF RecordStop, Recorded, Rethrown, OutcomeInv, TrailFits, Tables
      <4>. QED  BY <4>1, StopsByTheTable
    <3>2. CASE error' = error
      BY <3>2 DEF LocatedInv
    <3>3. CASE \E class \in Refusals \cup {"AllProvidersFailed", "BudgetExceeded"} : \E carried :
                 error' = [error EXCEPT ![c] = Error(class, carried)]
      <4>1. error'[c].class \in Refusals \cup {"AllProvidersFailed", "BudgetExceeded"}
        BY <3>3 DEF Error, OutcomeInv, Tables
      <4>. QED  BY <4>1 DEF Refusals, InvalidArguments, ClassNames, Bases
    <3>4. \/ error' = error
          \/ \E class \in Refusals \cup {"AllProvidersFailed", "BudgetExceeded"} : \E carried :
               error' = [error EXCEPT ![c] = Error(class, carried)]
          \/ RecordStop(c)
      <4>1. CASE Prepare(c) \/ InterruptPrepare(c)
        BY <4>1 DEF Prepare, InterruptPrepare, Refused, Refusals, InvalidArguments
      <4>2. CASE OutOfBudget(c) \/ Interrupt(c) \/ Cancel(c)
        BY <4>2 DEF OutOfBudget, Interrupt, Cancel, Refusals
      <4>3. CASE Exhausted(c)
        BY <4>3 DEF Exhausted, Refusals
      <4>4. CASE ~(\/ Prepare(c) \/ InterruptPrepare(c) \/ OutOfBudget(c) \/ Interrupt(c)
                   \/ Cancel(c) \/ Exhausted(c) \/ RecordStop(c))
        BY <1>1, <4>4 DEF Step, SkipCooling, NotCooling, Reserve, Denied, RecordDenied,
           Build, AdapterReplies, ReturnSlot, RecordSuccess, RecordCooling, RecordContinue,
           SetCooldown, NotifyFailure, Return, Unwind, DropTraceback
      <4>. QED  BY <4>1, <4>2, <4>3, <4>4
    <3>. QED  BY <3>1, <3>2, <3>3, <3>4
  <2>4. ASSUME NEW d \in Calls, d # c
        PROVE  Located(d)' /\ error'[d].class \in ClassNames \cup {"None"}
    BY <2>1, <2>4 DEF LocatedInv, Located
  <2>. QED  BY <2>2, <2>3, <2>4 DEF LocatedInv
<1>2. CASE Tick \/ UNCHANGED vars
  <2>1. UNCHANGED <<error, attempts, chain>>
    BY <1>2 DEF Tick, vars, callVars
  <2>. QED  BY <2>1 DEF LocatedInv, Located
<1>. QED  BY <1>1, <1>2 DEF Next

\* Counters and cooldowns are never negative, no handler advances a call past
\* the end of its chain, an attempt names a place of the chain and the provider
\* there, and no two calls share a reservation object.
THEOREM TypeCorrect == Spec => []TypeOK
<1>1. Init => SlotInv
  BY InitSlots
<1>2. Init => LocatedInv
  BY DEF Init, LocatedInv, Located, NoError, Error
<1>3. IInv /\ SlotInv /\ PlaceInv /\ OutcomeInv /\ ToldInv /\ LocatedInv => TypeOK
  <2> SUFFICES ASSUME IInv, SlotInv, PlaceInv, OutcomeInv, ToldInv, LocatedInv PROVE TypeOK
    OBVIOUS
  <2>1. Limiter!TypeOK
    BY DEF Limiter!TypeOK, IInv, Shape, SlotInv
  <2>2. ASSUME NEW c \in Calls, NEW i \in DOMAIN attempts[c]
        PROVE  /\ attempts[c][i].pos \in DOMAIN chain[c]
               /\ attempts[c][i].provider = chain[c][attempts[c][i].pos]
    <3>1. attempts[c] \in Seq(AttemptRecords) /\ chain[c] \in Seq(Providers)
      BY DEF OutcomeInv, IInv, Shape
    <3>2. i \in 1 .. Len(attempts[c]) /\ DOMAIN chain[c] = 1 .. Len(chain[c])
      BY <2>2, <3>1
    <3>. QED  BY <3>2 DEF LocatedInv, Located
  <2>3. ASSUME NEW c \in Calls, NEW i \in DOMAIN told[c]
        PROVE  told[c][i].hook \in {"on_success", "on_failure"}
    <3>1. CASE told[c] = <<>>
      BY <2>3, <3>1
    <3>2. ASSUME NEW t, told[c] = <<t>>, Truth(c, t)
          PROVE  told[c][i].hook \in {"on_success", "on_failure"}
      <4>1. told[c][i] = t
        BY <2>3, <3>2
      <4>. QED  BY <3>2, <4>1 DEF Truth
    <3>. QED  BY <3>1, <3>2 DEF ToldInv, ToldSoFar
  <2>4. \A c, d \in Calls : c # d /\ rsv[c] = rsv[d] => rsv[c] = NoObj
    BY DEF IInv, Own
  <2>. QED
    BY <2>1, <2>2, <2>3, <2>4 DEF TypeOK, IInv, Shape, PlaceInv, LocatedInv
<1>. QED
  BY <1>1, <1>2, <1>3, NextSlots, NextLocates, ToldInductive, PTL DEF Spec

-----------------------------------------------------------------------------
(* Capacity *)

\* A call that goes to an adapter holds a slot of that adapter's provider.
AtWork(c) ==
  pc[c] \in {"build", "call"} => rsv[c] \in held /\ live[rsv[c]] = Current(c)

\* A counter is zero or within its limit.
InBounds ==
  /\ \A p \in Providers : inflight[p] > 0 => inflight[p] <= DefaultLimits[p]
  /\ Config.global_budget # NoBudget /\ globalInflight > 0 =>
       globalInflight <= Config.global_budget

CapacityInv == InBounds /\ \A c \in Calls : AtWork(c)

LEMMA LimitsAreNumbers ==
  ASSUME NEW p \in Providers
  PROVE  DefaultLimits[p] \in Int /\ p \in DOMAIN DefaultLimits
<1>1. CASE Config.providers[p].rate_limits = {}
  BY <1>1 DEF DefaultLimits, DefaultMaxInflight
<1>2. CASE Config.providers[p].rate_limits # {}
  <2>1. (CHOOSE n \in Config.providers[p].rate_limits : TRUE) \in Config.providers[p].rate_limits
    BY <1>2
  <2>. QED  BY <1>2, <2>1, NumbersAssumption DEF DefaultLimits
<1>. QED  BY <1>1, <1>2

\* A reservation is only granted below the limit and the budget.
LEMMA ReserveInBounds ==
  ASSUME IInv, SlotInv, InBounds, NEW c \in Calls, Reserve(c)
  PROVE  InBounds' /\ AtWork(c)'
<1>1. PICK a \in Addrs : Limiter!TryReserve(Current(c), a) /\ rsv' = [rsv EXCEPT ![c] = a]
  BY DEF Reserve
<1>2. /\ pc[c] = "reserve" /\ Current(c) \in Providers
      /\ pc' = [pc EXCEPT ![c] = "build"] /\ UNCHANGED <<chain, pos>>
  BY CurrentProvider DEF Reserve, Goto, IInv, OnChain
<1>3. PICK p \in Providers : p = Current(c)
  BY <1>2
<1>4. /\ live[a] = NoObj /\ live' = [live EXCEPT ![a] = p]
      /\ held' = held \cup {a}
      /\ inflight' = [inflight EXCEPT ![p] = @ + 1]
      /\ globalInflight' = globalInflight + 1
  BY <1>1, <1>3 DEF Limiter!TryReserve
<1>5. DefaultLimits[p] \in Int /\ p \in DOMAIN DefaultLimits
  BY LimitsAreNumbers
<1>6. ~(inflight[p] >= DefaultLimits[p])
  BY <1>1, <1>3, <1>5
     DEF Limiter!TryReserve, Limiter!RateLimitedOn, Limiter!Full, Limiter!LimitFor
<1>7. Config.global_budget = NoBudget \/ ~(globalInflight >= Config.global_budget)
  BY <1>1 DEF Limiter!TryReserve, Limiter!RateLimitedOn, Limiter!BudgetExceededOn,
     Limiter!OverBudget
<1>8. inflight \in [Providers -> Nat] /\ globalInflight \in Nat
  BY DEF SlotInv
<1>9. InBounds'
  <2>1. ASSUME NEW q \in Providers, inflight'[q] > 0 PROVE inflight'[q] <= DefaultLimits[q]
    <3>1. CASE q = p
      BY <3>1, <1>4, <1>5, <1>6, <1>8
    <3>2. CASE q # p
      BY <3>2, <2>1, <1>4, <1>8 DEF InBounds
    <3>. QED  BY <3>1, <3>2
  <2>2. Config.global_budget # NoBudget => globalInflight' <= Config.global_budget
    BY <1>4, <1>7, <1>8, NumbersAssumption
  <2>. QED  BY <2>1, <2>2 DEF InBounds
<1>10. AtWork(c)'
  <2>1. rsv'[c] = a /\ live'[a] = p /\ Current(c)' = Current(c)
    BY <1>1, <1>2, <1>4 DEF IInv, Shape, Current
  <2>. QED  BY <2>1, <1>3, <1>4 DEF AtWork
<1>. QED  BY <1>9, <1>10

\* Every other step of a call leaves the counters no higher.
LEMMA OthersInBounds ==
  ASSUME IInv, SlotInv, InBounds, NEW c \in Calls, ~Reserve(c),
         Prepare(c) \/ InterruptPrepare(c) \/ Step(c) \/ Interrupt(c) \/ Cancel(c) \/ DropTraceback(c)
  PROVE  InBounds'
<1>1. CASE ReturnSlot(c) \/ Unwind(c)
  <2>1. Limiter!Drop(rsv[c]) /\ rsv[c] # NoObj /\ SlotInv'
    BY <1>1, DropSlots DEF ReturnSlot, Unwind, IInv, Stage
  <2>2. CASE rsv[c] \notin held
    <3>1. UNCHANGED <<inflight, globalInflight>>
      BY <2>1, <2>2 DEF Limiter!Drop
    <3>. QED  BY <3>1 DEF InBounds
  <2>3. CASE rsv[c] \in held
    <3>1. PICK p \in Providers : p = live[rsv[c]]
      BY <2>1, <2>3, HolderObject DEF Holds
    <3>2. /\ inflight' = [inflight EXCEPT ![p] = Limiter!Decrement(@)]
          /\ globalInflight' = Limiter!Decrement(globalInflight)
      BY <2>1, <2>3, <3>1 DEF Limiter!Drop
    <3>3. inflight \in [Providers -> Nat] /\ globalInflight \in Nat
      BY DEF SlotInv
    <3>4. ASSUME NEW q \in Providers, inflight'[q] > 0 PROVE inflight'[q] <= DefaultLimits[q]
      <4>1. inflight[q] \in Nat /\ inflight'[q] \in Nat /\ inflight'[q] <= inflight[q]
        BY <3>2, <3>3 DEF Limiter!Decrement
      <4>2. inflight[q] <= DefaultLimits[q]
        BY <3>4, <4>1 DEF InBounds
      <4>3. DefaultLimits[q] \in Int
        BY LimitsAreNumbers
      <4>. QED  BY <4>1, <4>2, <4>3
    <3>5. Config.global_budget # NoBudget /\ globalInflight' > 0 =>
            globalInflight' <= Config.global_budget
      BY <3>2, <3>3, NumbersAssumption DEF InBounds, Limiter!Decrement
    <3>. QED  BY <3>4, <3>5 DEF InBounds
  <2>. QED  BY <2>2, <2>3
<1>2. CASE ~(ReturnSlot(c) \/ Unwind(c))
  <2>1. UNCHANGED <<inflight, globalInflight>>
    BY <1>2 DEF Prepare, InterruptPrepare, Step, SkipCooling, NotCooling, Denied, RecordDenied,
       OutOfBudget, Build, AdapterReplies, RecordSuccess, RecordStop, RecordCooling,
       RecordContinue, SetCooldown, NextProvider, Exhausted, NotifyFailure, Return,
       Interrupt, Cancel, DropTraceback, limiterVars, Limiter!Collect
  <2>. QED  BY <2>1 DEF InBounds
<1>. QED  BY <1>1, <1>2

\* Another call's slot stays held by its object, for its provider.
LEMMA OthersAtWork ==
  ASSUME IInv, PlaceInv, OutcomeInv, NEW c \in Calls, NEW d \in Calls, d # c, AtWork(d),
         Prepare(c) \/ InterruptPrepare(c) \/ Step(c) \/ Interrupt(c) \/ Cancel(c) \/ DropTraceback(c)
  PROVE  AtWork(d)'
<1>1. pc'[d] = pc[d] /\ Current(d)' = Current(d)
  BY OthersStay DEF Current
<1>2. rsv'[d] = rsv[d]
  BY OneCallMoves DEF OutcomeInv
<1>3. ASSUME pc[d] \in {"build", "call"}
      PROVE  rsv[d] \in held' /\ live'[rsv[d]] = live[rsv[d]]
  <2>1. rsv[d] \in held /\ rsv[d] # NoObj /\ rsv[d] \in Addrs
    BY <1>3 DEF AtWork, IInv, Shape, Stage
  <2>2. rsv[d] # rsv[c] /\ live[rsv[d]] # NoObj
    BY <2>1 DEF IInv, Own
  <2>3. CASE Reserve(c)
    <3>1. PICK a \in Addrs : /\ live[a] = NoObj /\ held' = held \cup {a}
                             /\ live' = [live EXCEPT ![a] = Current(c)]
      BY <2>3 DEF Reserve, Limiter!TryReserve
    <3>. QED  BY <2>1, <2>2, <3>1 DEF IInv, Shape
  <2>4. CASE ReturnSlot(c) \/ Unwind(c)
    <3>1. held \ {rsv[c]} \subseteq held' /\ live' = live
      BY <2>4 DEF ReturnSlot, Unwind, Limiter!Drop
    <3>. QED  BY <2>1, <2>2, <3>1
  <2>5. CASE RecordContinue(c) \/ SetCooldown(c) \/ Return(c) \/ DropTraceback(c)
    <3>1. held' = held /\ live' = [live EXCEPT ![rsv[c]] = NoObj]
      BY <2>5 DEF RecordContinue, SetCooldown, Return, DropTraceback, NextProvider,
         Limiter!Collect
    <3>. QED  BY <2>1, <2>2, <3>1 DEF IInv, Shape
  <2>6. CASE ~(\/ Reserve(c) \/ ReturnSlot(c) \/ Unwind(c)
               \/ RecordContinue(c) \/ SetCooldown(c) \/ Return(c) \/ DropTraceback(c))
    <3>1. UNCHANGED <<held, live>>
      BY <2>6 DEF Prepare, InterruptPrepare, Step, SkipCooling, NotCooling, Denied, RecordDenied,
         OutOfBudget, Build, AdapterReplies, RecordSuccess, RecordStop, RecordCooling,
         Exhausted, NotifyFailure, Interrupt, Cancel, limiterVars
    <3>. QED  BY <2>1, <3>1
  <2>. QED  BY <2>3, <2>4, <2>5, <2>6
<1>. QED  BY <1>1, <1>2, <1>3 DEF AtWork

\* The call that moves is at work only behind its own reservation.
LEMMA MoverAtWork ==
  ASSUME IInv, PlaceInv, OutcomeInv, NEW c \in Calls, AtWork(c), ~Reserve(c),
         Prepare(c) \/ InterruptPrepare(c) \/ Step(c) \/ Interrupt(c) \/ Cancel(c) \/ DropTraceback(c)
  PROVE  AtWork(c)'
<1>1. CASE Build(c)
  <2>1. /\ pc[c] = "build" /\ UNCHANGED <<limiterVars, rsv, chain, pos>>
    BY <1>1 DEF Build
  <2>. QED  BY <2>1 DEF AtWork, limiterVars, Current
<1>2. CASE ~Build(c)
  <2>1. pc'[c] \notin {"build", "call"}
    BY <1>2 DEF Prepare, InterruptPrepare, Refused, Step, SkipCooling, NotCooling, Denied,
       RecordDenied, OutOfBudget, AdapterReplies, ReturnSlot, RecordSuccess, RecordStop,
       RecordCooling, RecordContinue, SetCooldown, NextProvider, Exhausted, NotifyFailure,
       Return, Unwind, Interrupt, Cancel, DropTraceback, Goto, Ended, IInv, Shape
  <2>. QED  BY <2>1 DEF AtWork
<1>. QED  BY <1>1, <1>2

LEMMA NextInBounds ==
  IInv /\ PlaceInv /\ OutcomeInv /\ SlotInv /\ CapacityInv /\ [Next]_vars => CapacityInv'
<1> SUFFICES ASSUME IInv, PlaceInv, OutcomeInv, SlotInv, CapacityInv, [Next]_vars
    PROVE  CapacityInv'
  OBVIOUS
<1>1. ASSUME NEW c \in Calls,
             Prepare(c) \/ InterruptPrepare(c) \/ Step(c) \/ Interrupt(c) \/ Cancel(c) \/ DropTraceback(c)
      PROVE  CapacityInv'
  <2>1. InBounds' /\ AtWork(c)'
    BY <1>1, ReserveInBounds, OthersInBounds, MoverAtWork DEF CapacityInv
  <2>2. ASSUME NEW d \in Calls, d # c PROVE AtWork(d)'
    BY <1>1, <2>2, OthersAtWork DEF CapacityInv
  <2>. QED  BY <2>1, <2>2 DEF CapacityInv
<1>2. CASE Tick \/ UNCHANGED vars
  <2>1. UNCHANGED <<limiterVars, pc, rsv, chain, pos>>
    BY <1>2 DEF Tick, vars, callVars
  <2>. QED  BY <2>1 DEF CapacityInv, InBounds, AtWork, Current, limiterVars
<1>. QED  BY <1>1, <1>2 DEF Next

\* For every configuration and number of calls, whatever leaks, is returned
\* twice or reuses an address, no more calls wait for a provider at once than
\* its max_inflight, nor for all of them than the global budget.
THEOREM CapacityHolds == Spec => []CapacityKept
<1>1. Init => SlotInv
  BY InitSlots
<1>2. Init => CapacityInv
  BY DEF Init, Limiter!Init, CapacityInv, InBounds, AtWork
<1>3. ASSUME IInv, SlotInv, CapacityInv PROVE CapacityKept
  <2> DEFINE all == UNION {Waiting(p) : p \in Providers}
  <2>1. /\ inflight \in [Providers -> Nat] /\ globalInflight \in Nat
        /\ lost \in [Providers -> Nat] /\ lostAll \in Nat
        /\ IsFiniteSet(Holders)
    BY <1>3 DEF SlotInv
  <2>2. \A p \in Providers : Waiting(p) \subseteq HoldersOf(p)
    <3>1. ASSUME NEW p \in Providers, NEW c \in Waiting(p) PROVE c \in HoldersOf(p)
      <4>1. c \in Calls /\ pc[c] = "call" /\ Current(c) = p
        BY <3>1 DEF Waiting
      <4>2. rsv[c] \in held /\ live[rsv[c]] = p /\ rsv[c] # NoObj
        BY <1>3, <4>1 DEF CapacityInv, AtWork, IInv, Stage
      <4>. QED  BY <4>1, <4>2 DEF HoldersOf, Holds
    <3>. QED  BY <3>1
  <2>3. all \subseteq Holders
    BY <2>2 DEF HoldersOf, Holders
  <2>4. ASSUME NEW S, NEW T, S \subseteq T, IsFiniteSet(T), S # {}
        PROVE  /\ Cardinality(S) \in Nat /\ Cardinality(T) \in Nat
               /\ 0 < Cardinality(S) /\ Cardinality(S) <= Cardinality(T)
    <3>1. S \in SUBSET T
      BY <2>4
    <3>2. IsFiniteSet(S) /\ Cardinality(S) <= Cardinality(T)
      BY <2>4, <3>1, FS_Subset
    <3>3. Cardinality(S) \in Nat /\ Cardinality(T) \in Nat /\ Cardinality(S) # 0
      BY <2>4, <3>2, FS_CardinalityType, FS_EmptySet
    <3>. QED  BY <3>2, <3>3
  <2>5. ASSUME NEW p \in Providers, Waiting(p) # {}
        PROVE  Cardinality(Waiting(p)) + lost[p] <= DefaultLimits[p]
    <3>1. IsFiniteSet(HoldersOf(p))
      BY <1>3, HoldersFinite
    <3>2. /\ Cardinality(Waiting(p)) \in Nat /\ Cardinality(HoldersOf(p)) \in Nat
          /\ 0 < Cardinality(Waiting(p))
          /\ Cardinality(Waiting(p)) <= Cardinality(HoldersOf(p))
      BY <2>2, <2>4, <2>5, <3>1
    <3>3. inflight[p] = Cardinality(HoldersOf(p)) + lost[p] /\ lost[p] \in Nat
      BY <1>3, <2>1 DEF SlotInv
    <3>4. inflight[p] > 0
      BY <3>2, <3>3
    <3>5. inflight[p] <= DefaultLimits[p] /\ DefaultLimits[p] \in Int
      BY <1>3, <3>4, LimitsAreNumbers DEF CapacityInv, InBounds
    <3>. QED  BY <3>2, <3>3, <3>5
  <2>6. ASSUME all # {}, Config.global_budget # NoBudget
        PROVE  Cardinality(all) + lostAll <= Config.global_budget
    <3> HIDE DEF all
    <3>1. /\ Cardinality(all) \in Nat /\ Cardinality(Holders) \in Nat
          /\ 0 < Cardinality(all) /\ Cardinality(all) <= Cardinality(Holders)
      BY <2>1, <2>3, <2>4, <2>6
    <3>2. globalInflight = Cardinality(Holders) + lostAll
      BY <1>3 DEF SlotInv
    <3>3. globalInflight > 0
      BY <2>1, <3>1, <3>2
    <3>4. globalInflight <= Config.global_budget /\ Config.global_budget \in Int
      BY <1>3, <2>6, <3>3, NumbersAssumption DEF CapacityInv, InBounds
    <3>. QED  BY <2>1, <3>1, <3>2, <3>4
  <2>. QED  BY <2>5, <2>6 DEF CapacityKept
<1>. QED
  BY <1>1, <1>2, <1>3, NextSlots, NextInBounds, OutcomeInductive, PTL DEF Spec

-----------------------------------------------------------------------------
(* Cooldowns *)

\* A cooldown is as long as its header asks, and never of no length.
LEMMA CooldownAsAsked ==
  ASSUME NEW e \in Exceptions
  PROVE  RetryAfterSeconds(e) > 0 /\ \A n \in e.retryAfter : RetryAfterSeconds(e) >= n
<1>1. e.retryAfter \subseteq Int /\ \A m, n \in e.retryAfter : m = n
  BY ExceptionsAssumption DEF Raisable
<1>2. CASE \E n \in e.retryAfter : n > 0
  <2>1. PICK n \in e.retryAfter : n > 0
    BY <1>2
  <2>2. RetryAfterSeconds(e) = n
    BY <1>1, <2>1 DEF RetryAfterSeconds
  <2>. QED  BY <1>1, <2>1, <2>2
<1>3. CASE ~\E n \in e.retryAfter : n > 0
  <2>1. RetryAfterSeconds(e) = 1
    BY <1>3 DEF RetryAfterSeconds, DefaultCooldown
  <2>2. \A n \in e.retryAfter : n \in Int /\ ~(n > 0)
    BY <1>1, <1>3
  <2>. QED  BY <2>1, <2>2
<1>. QED  BY <1>2, <1>3

\* A RateLimited answer of an adapter is one of its exceptions.
LEMMA LimitedIsRaised ==
  ASSUME NEW c \in Calls, reply[c] \in Replies, reply[c].exc.class = "RateLimited"
  PROVE  Raises(c) /\ reply[c].exc \in Exceptions
<1>1. CASE reply[c] \in {Failure(e) : e \in Exceptions}
  BY <1>1 DEF Failure, Raises
<1>2. CASE reply[c] \in {Answer("json"), Answer("prose")}
  <2>1. reply[c].exc = Raised("Interrupt")
    BY <1>2 DEF Answer
  <2>2. Raised("Interrupt").class = "Interrupt"
    BY DEF Raised
  <2>. QED  BY <2>1, <2>2
<1>. QED  BY <1>1, <1>2 DEF Replies

\* Whatever other calls do to the cooldowns, a call has set the cooldown of a
\* provider that answered 429 in the step in which it moves on: no branch of
\* _handle_adapter_exception leaves such a provider without one.
THEOREM CooldownsPrecedeMoves == Spec => CoolsBeforeMovingOn
<1>1. ASSUME IInv, PlaceInv, OutcomeInv, [Next]_vars, NEW c \in Calls,
             pc[c] \in {"record", "cool"}, pc'[c] = "choose",
             reply[c].exc.class = "RateLimited", reply[c].exc.status = 429
      PROVE  /\ cool'[Current(c)] > 0
             /\ \A n \in reply[c].exc.retryAfter : cool'[Current(c)] >= n
  <2>1. reply[c] \in Replies
    BY <1>1 DEF OutcomeInv, TrailFits
  <2>2. Raises(c) /\ reply[c].exc \in Exceptions
    BY <1>1, <2>1, LimitedIsRaised
  <2>3. CoolsDown(c)
    <3>1. reply[c].exc.class \in ClassNames
      BY <1>1, <2>2, ExceptionsAssumption DEF Raisable
    <3>. QED  BY <1>1, <2>2, <3>1, Classes DEF CoolsDown, IsAuthFailure
  <2>4. pc'[c] # pc[c]
    BY <1>1
  <2>5. PICK d \in Calls :
          Prepare(d) \/ InterruptPrepare(d) \/ Step(d) \/ Interrupt(d) \/ Cancel(d) \/ DropTraceback(d)
    <3>1. ~Tick /\ ~UNCHANGED vars
      BY <2>4 DEF Tick, vars, callVars
    <3>. QED  BY <1>1, <3>1 DEF Next
  <2>6. d = c
    BY <1>1, <2>4, <2>5, OneCallMoves DEF OutcomeInv
  <2>7. SetCooldown(c)
    <3>1. ~RecordContinue(c)
      BY <2>3 DEF RecordContinue
    <3>2. RecordSuccess(c) \/ RecordStop(c) \/ RecordCooling(c) \/ SetCooldown(c) \/ Interrupt(c)
      BY <1>1, <2>5, <2>6, <3>1 DEF Prepare, InterruptPrepare, Step, SkipCooling, NotCooling,
         Reserve, Denied, RecordDenied, OutOfBudget, Build, AdapterReplies, ReturnSlot,
         Exhausted, NotifyFailure, Return, Unwind, Cancel, DropTraceback, Ended
    <3>. QED
      BY <1>1, <3>2 DEF RecordSuccess, RecordStop, RecordCooling, Interrupt, Goto, IInv, Shape
  <2>8. Current(c) \in Providers
    BY <1>1, CurrentProvider, <2>7 DEF SetCooldown, IInv, OnChain
  <2>9. cool'[Current(c)] = RetryAfterSeconds(reply[c].exc)
    BY <1>1, <2>7, <2>8 DEF SetCooldown, PlaceInv
  <2>. QED  BY <2>2, <2>9, CooldownAsAsked
<1>2. IInv /\ PlaceInv /\ OutcomeInv /\ [Next]_vars =>
        [\A c \in Calls :
           pc[c] \in {"record", "cool"} /\ pc'[c] = "choose"
             /\ reply[c].exc.class = "RateLimited" /\ reply[c].exc.status = 429
             => /\ cool'[Current(c)] > 0
                /\ \A n \in reply[c].exc.retryAfter : cool'[Current(c)] >= n]_vars
  BY <1>1
<1>. QED  BY <1>2, OutcomeInductive, PTL DEF Spec, CoolsBeforeMovingOn

-----------------------------------------------------------------------------
(* Failover *)

\* The trail of a call is the sequence of the places and verdicts.
LEMMA TrailIs ==
  ASSUME OutcomeInv, NEW c \in Calls
  PROVE  /\ Trail(c) \in Seq([at : Nat, verdict : Failover!Verdicts])
         /\ Len(Trail(c)) = Len(attempts[c]) /\ Len(attempts[c]) \in Nat
         /\ Trail(c) = <<>> <=> attempts[c] = <<>>
         /\ \A i \in 1 .. Len(attempts[c]) :
              Trail(c)[i] = [at |-> attempts[c][i].pos,
                             verdict |-> Verdict(attempts[c][i], request[c])]
<1>1. attempts[c] \in Seq(AttemptRecords)
  BY DEF OutcomeInv
<1>2. Len(attempts[c]) \in Nat /\ DOMAIN attempts[c] = 1 .. Len(attempts[c])
  BY <1>1
<1>3. \A i \in 1 .. Len(attempts[c]) : attempts[c][i].pos \in Nat
  <2>1. \A i \in 1 .. Len(attempts[c]) : attempts[c][i] \in AttemptRecords
    BY <1>1
  <2>. QED  BY <2>1 DEF AttemptRecords
<1>4. \A a, r : Verdict(a, r) \in Failover!Verdicts
  BY DEF Verdict, Failover!Verdicts
<1>5. Trail(c) = [i \in 1 .. Len(attempts[c]) |->
                    [at |-> attempts[c][i].pos,
                     verdict |-> Verdict(attempts[c][i], request[c])]]
  BY <1>2 DEF Trail
<1>6. \A i \in 1 .. Len(attempts[c]) :
        /\ Trail(c)[i] = [at |-> attempts[c][i].pos,
                          verdict |-> Verdict(attempts[c][i], request[c])]
        /\ Trail(c)[i] \in [at : Nat, verdict : Failover!Verdicts]
  BY <1>3, <1>4, <1>5
<1>7. Trail(c) \in [1 .. Len(attempts[c]) -> [at : Nat, verdict : Failover!Verdicts]]
  BY <1>5, <1>6
<1>8. Trail(c) \in Seq([at : Nat, verdict : Failover!Verdicts])
  BY <1>2, <1>7, FunctionIsSequence
<1>9. Len(Trail(c)) = Len(attempts[c])
  BY <1>2, <1>7, FunctionIsSequence
<1>10. Trail(c) = <<>> <=> attempts[c] = <<>>
  BY <1>1, <1>8, <1>9
<1>. QED  BY <1>2, <1>6, <1>8, <1>9, <1>10

\* What Failover reads of a trail, said of the attempts.
LEMMA TrailSays ==
  ASSUME OutcomeInv, NEW c \in Calls
  PROVE  /\ attempts[c] = <<>> => Failover!Reached(c) = 0
         /\ attempts[c] # <<>> => Failover!Reached(c) = LastAttempt(c).pos
         /\ \A v : Failover!LastSays(c, v) <=>
                     attempts[c] # <<>> /\ Verdict(LastAttempt(c), request[c]) = v
         /\ Failover!MayTry(c) <=>
              attempts[c] = <<>> \/ Verdict(LastAttempt(c), request[c]) = "pass"
<1>1. attempts[c] \in Seq(AttemptRecords)
  BY DEF OutcomeInv
<1>2. attempts[c] # <<>> =>
        /\ Trail(c) # <<>>
        /\ Trail(c)[Len(Trail(c))].at = LastAttempt(c).pos
        /\ Trail(c)[Len(Trail(c))].verdict = Verdict(LastAttempt(c), request[c])
  <2> SUFFICES ASSUME attempts[c] # <<>>
      PROVE  /\ Trail(c) # <<>>
             /\ Trail(c)[Len(Trail(c))].at = LastAttempt(c).pos
             /\ Trail(c)[Len(Trail(c))].verdict = Verdict(LastAttempt(c), request[c])
    OBVIOUS
  <2>1. Len(attempts[c]) \in 1 .. Len(attempts[c])
    BY <1>1
  <2>2. Trail(c) # <<>> /\ Len(Trail(c)) = Len(attempts[c])
    BY TrailIs
  <2>3. Trail(c)[Len(attempts[c])] =
          [at |-> LastAttempt(c).pos, verdict |-> Verdict(LastAttempt(c), request[c])]
    BY <2>1, TrailIs DEF LastAttempt
  <2>. QED  BY <2>2, <2>3
<1>3. [d \in Calls |-> Trail(d)][c] = Trail(c)
  OBVIOUS
<1>4. attempts[c] = <<>> => Trail(c) = <<>>
  BY TrailIs
<1>5. /\ attempts[c] = <<>> => Failover!Reached(c) = 0
      /\ attempts[c] # <<>> => Failover!Reached(c) = LastAttempt(c).pos
  BY <1>2, <1>3, <1>4 DEF Failover!Reached
<1>6. \A v : Failover!LastSays(c, v) <=>
               attempts[c] # <<>> /\ Verdict(LastAttempt(c), request[c]) = v
  BY <1>2, <1>3, <1>4 DEF Failover!LastSays
<1>7. Failover!MayTry(c) <=>
        attempts[c] = <<>> \/ Verdict(LastAttempt(c), request[c]) = "pass"
  BY <1>2, <1>3, <1>4, <1>6 DEF Failover!MayTry
<1>. QED  BY <1>5, <1>6, <1>7

\* A call that is on its way may try on.
LEMMA UnderwayMayTry ==
  ASSUME IInv, OutcomeInv, NEW c \in Calls, AllPassed(c)
  PROVE  /\ Failover!MayTry(c)
         /\ attempts[c] # <<>> => Failover!LastSays(c, "pass")
<1>1. attempts[c] # <<>> => Verdict(LastAttempt(c), request[c]) = "pass"
  <2>1. attempts[c] \in Seq(AttemptRecords)
    BY DEF OutcomeInv
  <2>2. attempts[c] # <<>> => Len(attempts[c]) \in 1 .. Len(attempts[c])
    BY <2>1
  <2>. QED  BY <2>2 DEF AllPassed, Passed, LastAttempt, Verdict
<1>. QED  BY <1>1, TrailSays

\* What the error of a call that raised makes of its outcome.
ErrorOutcome(c) ==
  IF error[c].adapter THEN "stopped"
  ELSE IF error[c].class = "NoEligibleProviders" THEN "ineligible"
  ELSE IF error[c].class = "AllProvidersFailed" THEN "exhausted"
  ELSE IF error[c].class = "BudgetExceeded" THEN "budget"
  ELSE "refused"

\* A call has an outcome exactly when it has ended.
LEMMA OutcomeIs ==
  ASSUME NEW c \in Calls
  PROVE  /\ ~Ended(c) => Outcome(c) = "none"
         /\ pc[c] = "returned" => Outcome(c) = "result"
         /\ pc[c] = "interrupted" => Outcome(c) = "interrupted"
         /\ pc[c] = "raised" =>
              Outcome(c) = ErrorOutcome(c)
BY DEF Outcome, Ended, ErrorOutcome

\* Calls other than the one that moves keep trail and outcome.
LEMMA OthersAbstract ==
  ASSUME IInv, PlaceInv, OutcomeInv, NEW c \in Calls,
         Prepare(c) \/ InterruptPrepare(c) \/ Step(c) \/ Interrupt(c) \/ Cancel(c) \/ DropTraceback(c)
  PROVE  \A d \in Calls : d # c =>
           chain'[d] = chain[d] /\ Trail(d)' = Trail(d) /\ Outcome(d)' = Outcome(d)
BY OthersStay DEF Trail, Outcome

\* Steps that show nothing of themselves: trail and outcome stay as they are.
LEMMA SilentStep ==
  ASSUME IInv, PlaceInv, OutcomeInv, NEW c \in Calls,
         Prepare(c) \/ InterruptPrepare(c) \/ Step(c) \/ Interrupt(c) \/ Cancel(c) \/ DropTraceback(c),
         UNCHANGED <<chain, attempts>>, Outcome(c)' = Outcome(c)
  PROVE  UNCHANGED Failover!vars
<1>1. request' = request /\ Trail(c)' = Trail(c)
  BY OthersStay DEF Trail
<1>2. \A d \in Calls : Trail(d)' = Trail(d) /\ Outcome(d)' = Outcome(d)
  BY <1>1, OthersAbstract
<1>. QED  BY <1>2 DEF Failover!vars

\* A recorded attempt is a try at the call's place of the plan.
LEMMA TryStep ==
  ASSUME IInv, PlaceInv, OutcomeInv, NEW c \in Calls, NEW a \in AttemptRecords,
         Step(c), pc[c] \in {"denied", "record"}, ~Ended(c)',
         attempts' = [attempts EXCEPT ![c] = Append(@, a)],
         a.pos = pos[c], chain' = chain
  PROVE  Failover!Try(c)
<1>1. Underway(c) /\ pc[c] # "cool" /\ AllPassed(c)
  BY DEF OutcomeInv, TrailFits, Underway
<1>2. Outcome(c) = "none" /\ Outcome(c)' = "none"
  BY OutcomeIs DEF Ended, Outcome
<1>3. request' = request /\ OutcomeInv'
  <2>1. [Next]_vars
    BY DEF Next
  <2>. QED  BY <2>1, OthersStay, NextFits
<1>4. pos[c] \in 1 .. Len(chain[c])
  <2>1. pos[c] \in Nat \ {0} /\ chain[c] \in Seq(Providers) /\ pos[c] <= Len(chain[c])
    BY DEF IInv, Shape, OnChain
  <2>. QED  BY <2>1
<1>5. Failover!MayTry(c)
  BY <1>1, UnderwayMayTry
<1>6. Failover!Reached(c) \in Nat /\ Failover!Reached(c) < pos[c]
  <2>1. CASE attempts[c] = <<>>
    BY <1>4, <2>1, TrailSays
  <2>2. CASE attempts[c] # <<>>
    <3>1. Len(attempts[c]) \in 1 .. Len(attempts[c])
      <4>1. attempts[c] \in Seq(AttemptRecords)
        BY DEF OutcomeInv
      <4>. QED  BY <2>2, <4>1
    <3>2. LastAttempt(c).pos \in Nat /\ LastAttempt(c).pos < pos[c]
      BY <1>1, <3>1, PlacesAreNumbers DEF Underway, LastAttempt
    <3>. QED  BY <2>2, <3>2, TrailSays
  <2>. QED  BY <2>1, <2>2
<1>7. pos[c] \in Failover!Reached(c) + 1 .. Len(chain[c])
  BY <1>4, <1>6
<1> DEFINE entry == [at |-> pos[c], verdict |-> Verdict(a, request[c])]
<1>8. entry.verdict \in Failover!Verdicts
  BY DEF Verdict, Failover!Verdicts
<1>9. Trail(c)' = Append(Trail(c), entry)
  <2> DEFINE n == Len(attempts[c])
  <2>1. /\ n \in Nat /\ Len(attempts'[c]) = n + 1
        /\ attempts'[c][n + 1] = a
        /\ \A i \in 1 .. n : attempts'[c][i] = attempts[c][i]
    BY <1>3, Appends
  <2>2. /\ Trail(c) \in Seq([at : Nat, verdict : Failover!Verdicts]) /\ Len(Trail(c)) = n
        /\ \A i \in 1 .. n :
             Trail(c)[i] = [at |-> attempts[c][i].pos,
                            verdict |-> Verdict(attempts[c][i], request[c])]
    BY TrailIs
  <2>3. DOMAIN attempts'[c] = 1 .. n + 1
    <3>1. attempts'[c] \in Seq(AttemptRecords)
      BY <1>3 DEF OutcomeInv
    <3>. QED  BY <2>1, <3>1
  <2>4. Trail(c)' = [i \in 1 .. n + 1 |->
                       [at |-> attempts'[c][i].pos,
                        verdict |-> Verdict(attempts'[c][i], request[c])]]
    BY <1>3, <2>3 DEF Trail
  <2>5. entry \in [at : Nat, verdict : Failover!Verdicts]
    BY <1>4, <1>8
  <2> HIDE DEF n, entry
  <2>6. Append(Trail(c), entry) =
          [i \in 1 .. n + 1 |-> IF i = n + 1 THEN entry ELSE Trail(c)[i]]
    <3> DEFINE Entries == [at : Nat, verdict : Failover!Verdicts]
    <3>1. Trail(c) \in Seq(Entries) /\ entry \in Entries
      BY <2>2, <2>5
    <3> HIDE DEF Entries
    <3>2. Append(Trail(c), entry) =
            [i \in 1 .. Len(Trail(c)) + 1 |->
               IF i = Len(Trail(c)) + 1 THEN entry ELSE Trail(c)[i]]
      BY <3>1, AppendIs
    <3>. QED  BY <2>2, <3>2
  <2>7. ASSUME NEW i \in 1 .. n + 1
        PROVE  [at |-> attempts'[c][i].pos, verdict |-> Verdict(attempts'[c][i], request[c])]
                 = IF i = n + 1 THEN entry ELSE Trail(c)[i]
    <3>1. CASE i = n + 1
      BY <2>1, <3>1 DEF entry
    <3>2. CASE i # n + 1
      <4>1. i \in 1 .. n
        BY <2>1, <3>2
      <4>. QED  BY <2>1, <2>2, <3>2, <4>1
    <3>. QED  BY <3>1, <3>2
  <2>. QED  BY <2>4, <2>6, <2>7
<1>10. \A d \in Calls : d # c => Trail(d)' = Trail(d) /\ Outcome(d)' = Outcome(d)
  BY OthersAbstract
<1>11. [d \in Calls |-> Trail(d)]' =
         [[d \in Calls |-> Trail(d)] EXCEPT ![c] = Append(@, entry)]
  BY <1>9, <1>10
<1>12. [d \in Calls |-> Outcome(d)]' = [d \in Calls |-> Outcome(d)]
  BY <1>2, <1>10
<1>. QED
  BY <1>2, <1>5, <1>7, <1>8, <1>11, <1>12 DEF Failover!Try

\* A step that ends a call does so with an outcome that fits its trail.
LEMMA EndStep ==
  ASSUME IInv, PlaceInv, OutcomeInv, NEW c \in Calls,
         Step(c) \/ Interrupt(c), UNCHANGED <<chain, attempts>>,
         ~Ended(c), NEW o \in {"result", "stopped", "exhausted", "ineligible", "refused",
                               "budget", "interrupted"},
         Outcome(c)' = o, Failover!Fits(c, o)
  PROVE  Failover!End(c)
<1>1. request' = request /\ Trail(c)' = Trail(c)
  BY OthersStay DEF Trail
<1>2. \A d \in Calls : Trail(d)' = Trail(d) /\ (d # c => Outcome(d)' = Outcome(d))
  BY <1>1, OthersAbstract
<1>3. Outcome(c) = "none"
  BY OutcomeIs
<1>4. [d \in Calls |-> Outcome(d)]' = [[d \in Calls |-> Outcome(d)] EXCEPT ![c] = o]
  BY <1>2
<1>5. [d \in Calls |-> Trail(d)]' = [d \in Calls |-> Trail(d)]
  BY <1>2
<1>. QED  BY <1>3, <1>4, <1>5 DEF Failover!End

\* An error that fits its attempts is an outcome that fits the trail.
LEMMA ErrorIsOutcome ==
  ASSUME IInv, OutcomeInv, NEW c \in Calls, ErrorFits(c)
  PROVE  Failover!Fits(c, ErrorOutcome(c))
<1>1. CASE error[c].adapter
  <2>1. Stopped(c)
    BY <1>1 DEF ErrorFits
  <2>2. attempts[c] # <<>> /\ Verdict(LastAttempt(c), request[c]) = "stop"
    BY <2>1 DEF Stopped, Verdict
  <2>3. Failover!LastSays(c, "stop")
    BY <2>2, TrailSays
  <2>. QED  BY <1>1, <2>3 DEF ErrorOutcome, Failover!Fits
<1>2. CASE ~error[c].adapter /\ error[c].class = "NoEligibleProviders"
  <2>1. attempts[c] = <<>>
    BY <1>2 DEF ErrorFits
  <2>2. [d \in Calls |-> Trail(d)][c] = <<>>
    BY <2>1, TrailIs
  <2>. QED  BY <1>2, <2>2 DEF ErrorOutcome, Failover!Fits
<1>3. CASE ~error[c].adapter /\ error[c].class = "AllProvidersFailed"
  <2>1. attempts[c] # <<>> /\ AllPassed(c)
    BY <1>3 DEF ErrorFits, Refusals, InvalidArguments
  <2>. QED  BY <1>3, <2>1, UnderwayMayTry DEF ErrorOutcome, Failover!Fits
<1>4. CASE ~error[c].adapter /\ error[c].class = "BudgetExceeded"
  <2>1. chain[c] # <<>> /\ AllPassed(c)
    BY <1>4 DEF ErrorFits, Refusals, InvalidArguments
  <2>. QED  BY <1>4, <2>1, UnderwayMayTry DEF ErrorOutcome, Failover!Fits
<1>5. CASE /\ ~error[c].adapter
           /\ error[c].class \notin {"NoEligibleProviders", "AllProvidersFailed", "BudgetExceeded"}
  <2>1. chain[c] = <<>>
    BY <1>5 DEF ErrorFits
  <2>. QED  BY <1>5, <2>1 DEF ErrorOutcome, Failover!Fits
<1>. QED  BY <1>1, <1>2, <1>3, <1>4, <1>5

LEMMA PrepareAbstract ==
  ASSUME IInv, PlaceInv, OutcomeInv, NEW c \in Calls, Prepare(c) \/ InterruptPrepare(c)
  PROVE  [Failover!Next]_(Failover!vars)
<1>1. /\ pc[c] = "idle" /\ chain[c] = <<>> /\ UNCHANGED <<attempts, request>>
      /\ Outcome(c) = "none"
  BY OutcomeIs DEF Prepare, InterruptPrepare, OutcomeInv, TrailFits, Ended
<1>2. pc'[c] \in {"choose", "notify"}
  BY DEF Prepare, InterruptPrepare, Refused, Goto, IInv, Shape
<1>3. Outcome(c)' = "none"
  BY <1>2 DEF Outcome
<1>4. CASE chain' = chain
  BY <1>1, <1>3, <1>4, SilentStep
<1>5. CASE chain' # chain
  <2>1. chain' = [chain EXCEPT ![c] = chain'[c]]
    BY <1>5 DEF Prepare, InterruptPrepare, Refused, IInv, Shape
  <2>2. \A d \in Calls : Trail(d)' = Trail(d) /\ Outcome(d)' = Outcome(d)
    BY <1>1, <1>3, OthersAbstract DEF Trail
  <2>3. Failover!Begin(c)
    BY <1>1, <2>1, <2>2 DEF Failover!Begin
  <2>. QED  BY <2>3 DEF Failover!Next
<1>. QED  BY <1>4, <1>5

LEMMA RecordAbstract ==
  ASSUME IInv, PlaceInv, OutcomeInv, NEW c \in Calls,
         \/ RecordDenied(c) \/ RecordSuccess(c) \/ RecordStop(c)
         \/ RecordCooling(c) \/ RecordContinue(c)
  PROVE  Failover!Try(c)
<1>1. Step(c)
  BY DEF Step
<1>2. chain' = chain /\ ~Ended(c)'
  BY DEF RecordDenied, RecordSuccess, RecordStop, RecordCooling, RecordContinue,
     NextProvider, Goto, Ended, IInv, Shape
<1>3. CASE RecordDenied(c)
  <2> DEFINE a == Attempt(c, FALSE, "budget", 0)
  <2>1. /\ pc[c] = "denied" /\ a \in AttemptRecords /\ a.pos = pos[c]
        /\ attempts' = [attempts EXCEPT ![c] = Append(@, a)]
    BY <1>3, AttemptIsRecord DEF RecordDenied, Attempt
  <2> HIDE DEF a
  <2>. QED  BY <1>1, <1>2, <2>1, TryStep
<1>4. CASE RecordSuccess(c) \/ RecordStop(c) \/ RecordCooling(c) \/ RecordContinue(c)
  <2> DEFINE a == AttemptOf(c)
  <2>1. pc[c] = "record" /\ attempts' = [attempts EXCEPT ![c] = Append(@, a)]
    BY <1>4 DEF RecordSuccess, RecordStop, RecordCooling, RecordContinue, Recorded
  <2>2. a \in AttemptRecords
    BY <2>1, AttemptIsRecord DEF OutcomeInv, TrailFits
  <2>3. a.pos = pos[c]
    BY DEF AttemptOf, Attempt
  <2> HIDE DEF a
  <2>. QED  BY <1>1, <1>2, <2>1, <2>2, <2>3, TryStep
<1>. QED  BY <1>3, <1>4

LEMMA EndAbstract ==
  ASSUME IInv, PlaceInv, OutcomeInv, NEW c \in Calls,
         NotifyFailure(c) \/ Return(c) \/ Unwind(c) \/ Interrupt(c)
  PROVE  [Failover!Next]_(Failover!vars)
<1>1. /\ UNCHANGED <<chain, attempts>> /\ ~Ended(c) /\ Outcome(c) = "none"
      /\ Step(c) \/ Interrupt(c)
  BY OutcomeIs DEF NotifyFailure, Return, Unwind, Interrupt, Ended, Step
<1>2. CASE ~Ended(c)'
  <2>1. Outcome(c)' = "none"
    BY <1>2 DEF Ended, Outcome
  <2>. QED  BY <1>1, <2>1, SilentStep
<1>3. CASE pc'[c] = "returned"
  <2>1. pc[c] = "report"
    BY <1>3 DEF NotifyFailure, Return, Unwind, Interrupt, Goto, IInv, Shape
  <2>2. attempts[c] # <<>> /\ Verdict(LastAttempt(c), request[c]) = "ok"
    BY <2>1 DEF OutcomeInv, TrailFits, Succeeded, Verdict
  <2>3. Failover!Fits(c, "result")
    BY <2>2, TrailSays DEF Failover!Fits
  <2>4. Outcome(c)' = "result"
    BY <1>3 DEF Outcome
  <2>. QED  BY <1>1, <2>3, <2>4, EndStep DEF Failover!Next
<1>4. CASE pc'[c] = "interrupted"
  <2>1. Outcome(c)' = "interrupted" /\ Failover!Fits(c, "interrupted")
    BY <1>4 DEF Outcome, Failover!Fits
  <2>. QED  BY <1>1, <2>1, EndStep DEF Failover!Next
<1>5. CASE pc'[c] = "raised"
  <2>1. error' = error /\ ErrorFits(c)
    BY <1>5 DEF NotifyFailure, Return, Unwind, Interrupt, Goto, IInv, Shape, OutcomeInv,
       TrailFits
  <2> DEFINE o == ErrorOutcome(c)
  <2>2. Failover!Fits(c, o)
    BY <2>1, ErrorIsOutcome
  <2>3. Outcome(c)' = o
    BY <1>1, <1>5, <2>1 DEF Outcome, ErrorOutcome
  <2>4. o \in {"result", "stopped", "exhausted", "ineligible", "refused", "budget",
               "interrupted"}
    BY DEF ErrorOutcome
  <2> HIDE DEF o
  <2>. QED  BY <1>1, <2>2, <2>3, <2>4, EndStep DEF Failover!Next
<1>. QED  BY <1>2, <1>3, <1>4, <1>5 DEF Ended

LEMMA StepAbstract ==
  IInv /\ PlaceInv /\ OutcomeInv /\ [Next]_vars => [Failover!Next]_(Failover!vars)
<1> SUFFICES ASSUME IInv, PlaceInv, OutcomeInv, [Next]_vars
    PROVE  [Failover!Next]_(Failover!vars)
  OBVIOUS
<1>1. ASSUME NEW c \in Calls, Prepare(c) \/ InterruptPrepare(c)
      PROVE  [Failover!Next]_(Failover!vars)
  BY <1>1, PrepareAbstract
<1>2. ASSUME NEW c \in Calls,
             \/ RecordDenied(c) \/ RecordSuccess(c) \/ RecordStop(c)
             \/ RecordCooling(c) \/ RecordContinue(c)
      PROVE  [Failover!Next]_(Failover!vars)
  BY <1>2, RecordAbstract DEF Failover!Next
<1>3. ASSUME NEW c \in Calls, NotifyFailure(c) \/ Return(c) \/ Unwind(c) \/ Interrupt(c)
      PROVE  [Failover!Next]_(Failover!vars)
  BY <1>3, EndAbstract
<1>4. ASSUME NEW c \in Calls,
             \/ SkipCooling(c) \/ NotCooling(c) \/ Reserve(c) \/ Denied(c) \/ OutOfBudget(c)
             \/ Build(c) \/ AdapterReplies(c) \/ ReturnSlot(c) \/ SetCooldown(c)
             \/ Exhausted(c) \/ Cancel(c) \/ DropTraceback(c)
      PROVE  [Failover!Next]_(Failover!vars)
  <2>1. UNCHANGED <<chain, attempts>>
    BY <1>4 DEF SkipCooling, NotCooling, Reserve, Denied, OutOfBudget, Build,
       AdapterReplies, ReturnSlot, SetCooldown, Exhausted, Cancel, DropTraceback
  <2>2. \/ ~Ended(c) /\ ~Ended(c)'
        \/ UNCHANGED <<pc, error>>
    BY <1>4 DEF SkipCooling, NotCooling, Reserve, Denied, OutOfBudget, Build,
       AdapterReplies, ReturnSlot, SetCooldown, NextProvider, Exhausted, Cancel,
       DropTraceback, Goto, Ended, IInv, Shape
  <2>3. Outcome(c)' = Outcome(c)
    BY <2>1, <2>2 DEF Outcome, Ended
  <2>. QED  BY <1>4, <2>1, <2>3, SilentStep DEF Step
<1>5. CASE Tick \/ UNCHANGED vars
  <2>1. UNCHANGED <<pc, request, chain, attempts, error>>
    BY <1>5 DEF Tick, vars, callVars
  <2>. QED  BY <2>1 DEF Failover!vars, Trail, Outcome
<1>. QED  BY <1>1, <1>2, <1>3, <1>4, <1>5 DEF Next, Step

\* A call of Client or AsyncClient is a failover along its chain, however calls
\* interleave, cool providers for each other, are interrupted or cancelled: no
\* provider is tried out of order, or after a success or a failure that must
\* stop the call, and the call ends as its attempts say.
THEOREM ImplementsFailover == Spec => FailsOver
<1>1. Init => Failover!Init
  <2> SUFFICES ASSUME Init PROVE Failover!Init
    OBVIOUS
  <2>1. /\ chain = [c \in Calls |-> <<>>]
        /\ \A c \in Calls : Trail(c) = <<>> /\ Outcome(c) = "none"
    BY DEF Init, Trail, Outcome
  <2>. QED  BY <2>1 DEF Failover!Init
<1>2. IInv /\ PlaceInv /\ OutcomeInv /\ [Next]_vars => [Failover!Next]_(Failover!vars)
  BY StepAbstract
<1>. QED
  BY <1>1, <1>2, OutcomeInductive, PTL DEF Spec, FailsOver, Failover!Spec

=============================================================================
