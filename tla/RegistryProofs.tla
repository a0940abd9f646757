---------------------------- MODULE RegistryProofs ----------------------------
(***************************************************************************)
(* What threads without a lock may rely on in the registry, for every set  *)
(* of threads, clients, documents, requests and registrations.             *)
(*                                                                         *)
(* The table only grows, which every thread's past observations of it      *)
(* survive: this is what makes the invariant inductive although any other  *)
(* thread may act between two steps of one.                                *)
(***************************************************************************)
EXTENDS Registry, SubsequenceProofs

\* The configuration is None or that of an accepted document.
Configured ==
  config # None =>
    \E d \in DOMAIN Documents : Accepts(Documents[d]) /\ config = ConfigFromDict(Documents[d])

\* A factory that may stand under a name.
Proper(n, factory) ==
  \/ n \in ToSet(Builtins) /\ factory = BuiltinFactory(n)
  \/ \E r \in Registrations : r.wellNamed /\ r.name = n /\ factory = r.factory

Table == \A n \in Names : factories[n] # None => Proper(n, factories[n])

Fits(n, adapter) ==
  /\ Proper(n, adapter.factory)
  /\ adapter.key = config.providers[n].api_key_env
  /\ adapter.key \in environ \cup {NoKey}

Cache == \A k \in Clients, n \in Names : cached[k][n] # None => Fits(n, cached[k][n])

\* What a thread has seen of the table: the names when it began, the built-ins
\* it went past, all of them when it looks its provider up.
Seen(t) ==
  /\ before[t] \subseteq Registered
  /\ \A i \in 1 .. at[t] - 1 : Builtins[i] \in Registered
  /\ pc[t] = "lookup" => ToSet(Builtins) \subseteq Registered

\* A registration under way, by an application or by a load.
Underway(t) ==
  /\ pc[t] = "idle" => wanted[t] = None
  /\ job[t] # None => Proper(job[t].name, job[t].factory)
  /\ pc[t] \in {"register", "write"} /\ wanted[t] # None =>
       /\ at[t] <= Len(Builtins)
       /\ job[t].name = Builtins[at[t]]
       /\ Builtins[at[t]] \notin before[t]
  /\ pc[t] = "write" => job[t].replace \/ job[t].name \notin before[t]

InHand(t) ==
  /\ pc[t] = "make" => Proper(wanted[t], found[t].factory)
  /\ pc[t] = "store" => Fits(wanted[t], found[t])

\* What a failed call was told.
Told(t) ==
  /\ failure[t] = "unknown provider" => wanted[t] \notin ToSet(Builtins) \cup before[t]
  /\ failure[t] = "already registered" /\ wanted[t] # None =>
       /\ at[t] <= Len(Builtins)
       /\ Builtins[at[t]] \in Registered
       /\ Builtins[at[t]] \notin before[t]

Thread(t) == Seen(t) /\ Underway(t) /\ InHand(t) /\ Told(t)

IInv ==
  TypeOK /\ Configured /\ Table /\ Cache /\ LoadedMeansComplete /\ \A t \in Threads : Thread(t)

-----------------------------------------------------------------------------

\* The built-ins are the names in their sequence, and names.
LEMMA BuiltinNames ==
  /\ Len(Builtins) = 3
  /\ \A i \in 1 .. Len(Builtins) : Builtins[i] \in ToSet(Builtins)
  /\ \A n \in ToSet(Builtins) : \E i \in 1 .. Len(Builtins) : Builtins[i] = n
  /\ ToSet(Builtins) \subseteq Names
BY DEF Builtins, ToSet, Names

LEMMA InitHolds == Init => IInv
<1>. SUFFICES ASSUME Init PROVE IInv
  OBVIOUS
<1>1. TypeOK
  <2>1. /\ environ \subseteq Keys /\ loaded \in BOOLEAN
        /\ factories \in [Names -> Factories \cup {None}]
        /\ cached \in [Clients -> [Names -> Adapters \cup {None}]]
    BY DEF Init
  <2>2. /\ pc \in [Threads -> PCs] /\ wanted \in [Threads -> Names \cup {None}]
        /\ at \in [Threads -> 1 .. Len(Builtins) + 1]
        /\ before \in [Threads -> SUBSET Names]
    BY BuiltinNames DEF Init, PCs
  <2>3. /\ job \in [Threads -> Jobs \cup {None}]
        /\ found \in [Threads -> Drafts \cup Adapters \cup {None}]
        /\ failure \in [Threads -> Failures \cup {None}]
    BY DEF Init
  <2>4. \A t \in Threads : pc[t] = "idle" /\ job[t] = None /\ failure[t] = None
    BY DEF Init
  <2>. QED  BY <2>1, <2>2, <2>3, <2>4 DEF TypeOK
<1>2. Configured
  BY DEF Init, Configured
<1>3. Table /\ Cache /\ LoadedMeansComplete
  BY DEF Init, Table, Cache, LoadedMeansComplete
<1>4. ASSUME NEW t \in Threads PROVE Thread(t)
  <2>1. /\ pc[t] = "idle" /\ wanted[t] = None /\ at[t] = 1 /\ job[t] = None
        /\ failure[t] = None /\ before[t] = {}
    BY DEF Init
  <2>2. Seen(t) /\ Underway(t) /\ InHand(t)
    BY <2>1 DEF Seen, Underway, InHand
  <2>3. failure[t] \notin Failures
    BY <2>1, NoneAssumption
  <2>. QED  BY <2>1, <2>2, <2>3 DEF Thread, Told, Failures
<1>. QED  BY <1>1, <1>2, <1>3, <1>4 DEF IInv

-----------------------------------------------------------------------------

\* What is true of a thread stays true while others enlarge the table or the
\* environment.
LEMMA OthersKeep ==
  ASSUME NEW d \in Threads, Thread(d),
         Registered \subseteq Registered', environ \subseteq environ', config' = config,
         pc'[d] = pc[d], wanted'[d] = wanted[d], at'[d] = at[d], job'[d] = job[d],
         found'[d] = found[d], failure'[d] = failure[d], before'[d] = before[d]
  PROVE  Thread(d)'
<1>1. Seen(d)'
  BY DEF Thread, Seen
<1>2. Underway(d)'
  BY DEF Thread, Underway
<1>3. InHand(d)'
  BY DEF Thread, InHand, Fits
<1>4. Told(d)'
  BY DEF Thread, Told
<1>. QED  BY <1>1, <1>2, <1>3, <1>4 DEF Thread

\* Only t's own variables change.
Alone(t) ==
  \A d \in Threads \ {t} :
    /\ pc'[d] = pc[d] /\ wanted'[d] = wanted[d] /\ at'[d] = at[d] /\ job'[d] = job[d]
    /\ found'[d] = found[d] /\ failure'[d] = failure[d] /\ before'[d] = before[d]

\* TypeOK in three parts: what threads share, what each has, how it fits.
SharedTypes ==
  /\ environ \subseteq Keys
  /\ factories \in [Names -> Factories \cup {None}]
  /\ loaded \in BOOLEAN
  /\ cached \in [Clients -> [Names -> Adapters \cup {None}]]

LocalTypes ==
  /\ pc \in [Threads -> PCs]
  /\ wanted \in [Threads -> Names \cup {None}]
  /\ at \in [Threads -> 1 .. Len(Builtins) + 1]
  /\ job \in [Threads -> Jobs \cup {None}]
  /\ found \in [Threads -> Drafts \cup Adapters \cup {None}]
  /\ failure \in [Threads -> Failures \cup {None}]
  /\ before \in [Threads -> SUBSET Names]

Coherent(t) ==
  /\ pc[t] \in {"register", "write"} <=> job[t] # None
  /\ pc[t] \notin {"idle", "register", "write", "failed"} => wanted[t] # None
  /\ pc[t] = "make" => found[t] \in Drafts
  /\ pc[t] \in {"store", "resolved"} => found[t] \in Adapters
  /\ failure[t] # None => pc[t] = "failed"

LEMMA TypeParts ==
  TypeOK <=> SharedTypes /\ LocalTypes /\ \A t \in Threads : Coherent(t)
BY DEF TypeOK, SharedTypes, LocalTypes, Coherent

\* A step of one thread keeps the invariant if the table and the environment
\* only grow and are still right, and the thread's own part holds after it.
LEMMA OneStep ==
  ASSUME IInv, NEW t \in Threads, config' = config, environ \subseteq environ',
         Registered \subseteq Registered', SharedTypes', LocalTypes', Alone(t),
         Table', Cache', LoadedMeansComplete', Coherent(t)', Thread(t)'
  PROVE  IInv'
<1>1. ASSUME NEW d \in Threads PROVE Coherent(d)' /\ Thread(d)'
  <2>1. CASE d = t
    BY <2>1
  <2>2. CASE d # t
    <3>1. Coherent(d) /\ Thread(d)
      BY TypeParts DEF IInv
    <3>2. Thread(d)'
      BY <2>2, <3>1, OthersKeep DEF Alone
    <3>3. Coherent(d)'
      BY <2>2, <3>1 DEF Alone, Coherent
    <3>. QED  BY <3>2, <3>3
  <2>. QED  BY <2>1, <2>2
<1>2. TypeOK'
  BY <1>1 DEF TypeOK, SharedTypes, LocalTypes, Coherent
<1>3. Configured'
  BY DEF IInv, Configured
<1>. QED  BY <1>1, <1>2, <1>3 DEF IInv

\* A step that leaves what threads share alone.
LEMMA QuietStep ==
  ASSUME IInv, NEW t \in Threads, UNCHANGED <<config, shared>>, LocalTypes', Alone(t),
         Coherent(t)', Seen(t)', Underway(t)', InHand(t)', Told(t)'
  PROVE  IInv'
<1>1. Registered' = Registered
  BY DEF shared, Registered
<1>2. Table' /\ Cache' /\ LoadedMeansComplete'
  BY <1>1 DEF IInv, Table, Cache, Fits, LoadedMeansComplete, shared
<1>3. SharedTypes'
  BY TypeParts DEF IInv, SharedTypes, shared
<1>. QED  BY <1>1, <1>2, <1>3, OneStep DEF Thread, shared

-----------------------------------------------------------------------------
(* The steps that leave what threads share alone *)

\* A step that only moves the program counter.
LEMMA GotoStep ==
  ASSUME IInv, NEW t \in Threads, NEW l \in PCs, Goto(t, l),
         UNCHANGED <<config, shared, wanted, at, job, found, failure, before>>,
         Coherent(t)', Seen(t)', Underway(t)', InHand(t)', Told(t)'
  PROVE  IInv'
<1>1. LocalTypes' /\ Alone(t)
  BY TypeParts DEF IInv, LocalTypes, Alone, Goto
<1>. QED  BY <1>1, QuietStep

LEMMA PermitKeeps ==
  ASSUME IInv, NEW t \in Threads, Permit(t) PROVE IInv'
<1>1. /\ UNCHANGED <<config, shared, wanted, at, job, found, failure, before>>
      /\ Goto(t, "write") /\ "write" \in PCs /\ pc[t] = "register" /\ ~Taken(t)
  BY DEF Permit, PCs
<1>2. /\ Coherent(t) /\ Thread(t) /\ pc'[t] = "write" /\ Registered' = Registered
      /\ job[t] \in Jobs
  BY <1>1, TypeParts DEF IInv, LocalTypes, Goto, Registered, shared, Coherent
<1>3. job[t].replace \/ job[t].name \notin Registered
  BY <1>1, <1>2 DEF Taken, Registered
<1>4. Coherent(t)' /\ Seen(t)'
  BY <1>1, <1>2 DEF Thread, Coherent, Seen
<1>5. Underway(t)'
  BY <1>1, <1>2, <1>3 DEF Thread, Underway, Seen
<1>6. InHand(t)' /\ Told(t)'
  BY <1>1, <1>2 DEF Thread, InHand, Told
<1>. QED  BY <1>1, <1>4, <1>5, <1>6, GotoStep

LEMMA CacheMissKeeps ==
  ASSUME IInv, NEW t \in Threads, CacheMiss(t) PROVE IInv'
<1>1. /\ UNCHANGED <<config, shared, wanted, at, job, found, failure, before>>
      /\ Goto(t, "flag") /\ "flag" \in PCs /\ pc[t] = "cache"
  BY DEF CacheMiss, PCs
<1>2. Coherent(t) /\ Thread(t) /\ pc'[t] = "flag" /\ Registered' = Registered
  BY <1>1, TypeParts DEF IInv, LocalTypes, Goto, Registered, shared
<1>3. Coherent(t)' /\ Seen(t)' /\ Underway(t)' /\ InHand(t)' /\ Told(t)'
  BY <1>1, <1>2 DEF Thread, Coherent, Seen, Underway, InHand, Told
<1>. QED  BY <1>1, <1>3, GotoStep

LEMMA StartLoadingKeeps ==
  ASSUME IInv, NEW t \in Threads, StartLoading(t) PROVE IInv'
<1>1. /\ UNCHANGED <<config, shared, wanted, at, job, found, failure, before>>
      /\ Goto(t, "load") /\ "load" \in PCs /\ pc[t] = "flag"
  BY DEF StartLoading, PCs
<1>2. Coherent(t) /\ Thread(t) /\ pc'[t] = "load" /\ Registered' = Registered
  BY <1>1, TypeParts DEF IInv, LocalTypes, Goto, Registered, shared
<1>3. Coherent(t)' /\ Seen(t)' /\ Underway(t)' /\ InHand(t)' /\ Told(t)'
  BY <1>1, <1>2 DEF Thread, Coherent, Seen, Underway, InHand, Told
<1>. QED  BY <1>1, <1>3, GotoStep

\* Here the flag stands for the table: LoadedMeansComplete.
LEMMA AlreadyLoadedKeeps ==
  ASSUME IInv, NEW t \in Threads, AlreadyLoaded(t) PROVE IInv'
<1>1. /\ UNCHANGED <<config, shared, wanted, at, job, found, failure, before>>
      /\ Goto(t, "lookup") /\ "lookup" \in PCs /\ pc[t] = "flag" /\ loaded
  BY DEF AlreadyLoaded, PCs
<1>2. Coherent(t) /\ Thread(t) /\ pc'[t] = "lookup" /\ Registered' = Registered
  BY <1>1, TypeParts DEF IInv, LocalTypes, Goto, Registered, shared
<1>3. ToSet(Builtins) \subseteq Registered
  BY <1>1 DEF IInv, LoadedMeansComplete
<1>4. Coherent(t)' /\ Seen(t)' /\ Underway(t)' /\ InHand(t)' /\ Told(t)'
  BY <1>1, <1>2, <1>3 DEF Thread, Coherent, Seen, Underway, InHand, Told
<1>. QED  BY <1>1, <1>4, GotoStep

\* A step that ends in a ConfigError.
LEMMA FailStep ==
  ASSUME IInv, NEW t \in Threads, NEW why \in Failures, Fail(t, why),
         UNCHANGED <<config, shared, wanted, at>>,
         before' \in [Threads -> SUBSET Names],
         \A d \in Threads \ {t} : before'[d] = before[d],
         before'[t] \subseteq Registered,
         why = "unknown provider" => wanted[t] \notin ToSet(Builtins) \cup before'[t],
         why = "already registered" /\ wanted[t] # None =>
           /\ at[t] <= Len(Builtins)
           /\ Builtins[at[t]] \in Registered
           /\ Builtins[at[t]] \notin before'[t]
  PROVE  IInv'
<1>1. LocalTypes' /\ Alone(t)
  BY TypeParts DEF IInv, LocalTypes, Alone, Fail, Goto, PCs
<1>2. /\ pc'[t] = "failed" /\ job'[t] = None /\ failure'[t] = why
      /\ Registered' = Registered /\ Thread(t)
  BY TypeParts DEF IInv, LocalTypes, Fail, Goto, Registered, shared
<1>3. Coherent(t)' /\ Seen(t)'
  BY <1>2 DEF Coherent, Thread, Seen
<1>4. Underway(t)' /\ InHand(t)' /\ Told(t)'
  BY <1>2 DEF Underway, InHand, Told
<1>. QED  BY <1>1, <1>3, <1>4, QuietStep

\* The name that is taken was taken by another thread since the load began.
LEMMA RefuseKeeps ==
  ASSUME IInv, NEW t \in Threads, Refuse(t) PROVE IInv'
<1>1. /\ UNCHANGED <<config, shared, wanted, at, before>> /\ Fail(t, "already registered")
      /\ pc[t] = "register" /\ Taken(t)
  BY DEF Refuse
<1>2. Coherent(t) /\ Thread(t) /\ job[t] \in Jobs /\ before \in [Threads -> SUBSET Names]
  BY <1>1, TypeParts DEF IInv, LocalTypes, Coherent
<1>3. job[t].name \in Registered
  BY <1>1, <1>2 DEF Taken, Registered, Jobs
<1>. QED  BY <1>1, <1>2, <1>3, FailStep DEF Failures, Thread, Seen, Underway

LEMMA UnknownNameKeeps ==
  ASSUME IInv, NEW t \in Threads, UnknownName(t) PROVE IInv'
<1>1. /\ UNCHANGED <<config, shared, wanted, at, before>> /\ Fail(t, "unknown provider")
      /\ pc[t] = "lookup" /\ factories[wanted[t]] = None
  BY DEF UnknownName
<1>2. Thread(t) /\ before \in [Threads -> SUBSET Names]
  BY TypeParts DEF IInv, LocalTypes
<1>3. wanted[t] \notin Registered
  BY <1>1 DEF Registered
<1>. QED  BY <1>1, <1>2, <1>3, FailStep DEF Failures, Thread, Seen

LEMMA MissingKeyKeeps ==
  ASSUME IInv, NEW t \in Threads, MissingKey(t) PROVE IInv'
<1>1. UNCHANGED <<config, shared, wanted, at, before>> /\ Fail(t, "missing key")
  BY DEF MissingKey
<1>2. Thread(t) /\ before \in [Threads -> SUBSET Names]
  BY TypeParts DEF IInv, LocalTypes
<1>. QED  BY <1>1, <1>2, FailStep DEF Failures, Thread, Seen

LEMMA BeginRegisterKeeps ==
  ASSUME IInv, NEW t \in Threads, NEW r \in Registrations, BeginRegister(t, r) PROVE IInv'
<1>1. /\ UNCHANGED <<config, shared, wanted, at>> /\ pc[t] = "idle"
      /\ before' = [before EXCEPT ![t] = Registered]
  BY DEF BeginRegister
<1>2. Coherent(t) /\ Thread(t) /\ LocalTypes /\ wanted[t] = None
  BY <1>1, TypeParts DEF IInv, Thread, Underway
<1>3. /\ before' \in [Threads -> SUBSET Names] /\ before'[t] = Registered
      /\ \A d \in Threads \ {t} : before'[d] = before[d]
  BY <1>1, <1>2 DEF LocalTypes, Registered
<1>4. CASE ~r.wellNamed /\ Fail(t, "invalid name")
  BY <1>1, <1>3, <1>4, FailStep DEF Failures
<1>5. CASE /\ r.wellNamed /\ Goto(t, "register") /\ UNCHANGED <<found, failure>>
           /\ job' = [job EXCEPT ![t] = Job(r.name, r.factory, r.replace)]
  <2>1. Job(r.name, r.factory, r.replace) \in Jobs
    BY <1>5, RegistrationsAssumption DEF Job, Jobs, Factories
  <2>2. LocalTypes' /\ Alone(t)
    BY <1>1, <1>2, <1>3, <1>5, <2>1 DEF LocalTypes, Alone, Goto, PCs
  <2>3. /\ pc'[t] = "register" /\ job'[t] = Job(r.name, r.factory, r.replace)
        /\ job'[t] # None /\ Registered' = Registered
    BY <1>1, <1>2, <1>5, <2>1, NoneAssumption DEF LocalTypes, Goto, Registered, shared
  <2>4. Coherent(t)' /\ Seen(t)'
    BY <1>1, <1>2, <1>3, <1>5, <2>3 DEF Coherent, Thread, Seen
  <2>5. Proper(r.name, r.factory)
    BY <1>5 DEF Proper
  <2>6. Underway(t)'
    BY <1>1, <1>2, <2>3, <2>5 DEF Underway, Job, Proper
  <2>7. InHand(t)' /\ Told(t)'
    BY <1>1, <1>2, <1>5, <2>3, NoneAssumption DEF InHand, Told, Coherent, Failures
  <2>. QED  BY <1>1, <2>2, <2>4, <2>6, <2>7, QuietStep
<1>. QED  BY <1>4, <1>5 DEF BeginRegister

\* What a chain is taken from, and what is dropped on the way.
LEMMA ChainElements ==
  ASSUME Configured, config # None, NEW r \in Requests
  PROVE  \/ \E names \in r.provider_chain :
              ToSet(ResolveChain(config, r)) =
                {n \in ToSet(names) : Eligible(config, n, r.fresh)}
         \/ /\ r.provider_chain = {}
            /\ ToSet(ResolveChain(config, r)) =
                 {n \in ToSet(config.provider_order) : Eligible(config, n, r.fresh)}
<1>. DEFINE base == FilterNames(config, config.provider_order, r.fresh)
            able(names) == {n \in ToSet(names) : Eligible(config, n, r.fresh)}
            routed == r.tier \cap DOMAIN config.tier_routing
<1>1. \A names \in NameLists(config, Requests) : names \in Seq(ToSet(names))
  BY NamesAssumption DEF Configured
<1>2. ASSUME NEW names \in NameLists(config, Requests)
      PROVE  /\ FilterNames(config, names, r.fresh) \in Seq(ToSet(names))
             /\ ToSet(FilterNames(config, names, r.fresh)) = able(names)
  <2>1. /\ Only(names, able(names)) \in Seq(ToSet(names))
        /\ ToSet(Only(names, able(names))) = ToSet(names) \cap able(names)
    BY <1>1, OnlyElements
  <2>. QED  BY <2>1 DEF FilterNames
<1>3. config.provider_order \in NameLists(config, Requests)
  BY DEF NameLists
<1>. HIDE DEF able
<1>4. CASE r.provider_chain # {}
  <2>1. PICK names \in r.provider_chain : ResolveChain(config, r) = FilterNames(config, names, r.fresh)
    BY <1>4 DEF ResolveChain
  <2>2. names \in NameLists(config, Requests)
    BY <2>1 DEF NameLists
  <2>. QED  BY <1>2, <2>1, <2>2 DEF able
<1>5. CASE r.provider_chain = {} /\ routed = {}
  <2>1. ResolveChain(config, r) = base
    BY <1>5 DEF ResolveChain
  <2>. QED  BY <1>2, <1>3, <1>5, <2>1 DEF able
<1>6. CASE r.provider_chain = {} /\ routed # {}
  <2>1. PICK t \in routed : ResolveChain(config, r) = TierChain(base, config.tier_routing[t])
    BY <1>6 DEF ResolveChain
  <2>. DEFINE route == config.tier_routing[t]
              lead == Only(route, ToSet(base))
              others == Only(base, ToSet(base) \ ToSet(lead))
              order == config.provider_order
  <2>2. route \in NameLists(config, Requests)
    BY DEF NameLists
  <2>3. base \in Seq(ToSet(order)) /\ ToSet(base) = able(order)
    BY <1>2, <1>3
  <2>4. lead \in Seq(ToSet(order)) /\ ToSet(lead) \subseteq ToSet(base)
    <3>1. ToSet(base) \subseteq ToSet(order)
      BY <2>3 DEF able
    <3>2. route \in Seq(ToSet(route))
      BY <1>1, <2>2
    <3>3. ToSet(lead) = ToSet(route) \cap ToSet(base)
      BY <3>2, OnlyElements
    <3>. QED  BY <3>1, <3>2, <3>3, OnlyFits
  <2>5. others \in Seq(ToSet(order)) /\ ToSet(others) = ToSet(base) \ ToSet(lead)
    BY <2>3, OnlyElements
  <2>6. ToSet(lead \o others) = ToSet(lead) \cup ToSet(others)
    BY <2>4, <2>5, BothElements
  <2>7. ResolveChain(config, r) = lead \o others
    BY <2>1 DEF TierChain
  <2>8. ToSet(ResolveChain(config, r)) = able(order)
    BY <2>3, <2>4, <2>5, <2>6, <2>7
  <2>. QED  BY <1>6, <2>8 DEF able
<1>. QED  BY <1>4, <1>5, <1>6

\* config.py lets no route name a provider that is not configured.
LEMMA NamesAreKnown ==
  ASSUME Configured, config # None,
         NEW n \in ToSet(config.provider_order)
             \cup UNION {ToSet(config.tier_routing[x]) : x \in DOMAIN config.tier_routing}
  PROVE  n \in DOMAIN config.providers
<1>1. PICK d \in DOMAIN Documents :
        Accepts(Documents[d]) /\ config = ConfigFromDict(Documents[d])
  BY DEF Configured
<1>. DEFINE known == DOMAIN Field(Documents[d], "providers").val
            order == Field(Documents[d], "provider_order")
            routes == Field(Documents[d], "tier_routing")
<1>2. DOMAIN config.providers = known
  BY <1>1 DEF ConfigFromDict
<1>3. ASSUME NEW v, ValidNames(v, known) PROVE ToSet(ParseNames(v)) \subseteq known
  BY <1>3 DEF ValidNames, ParseNames, ToSet
<1>4. /\ config.provider_order = ParseNames(order) /\ ValidNames(order, known)
      /\ config.tier_routing = ParseTierRouting(routes) /\ ValidTierRouting(routes, known)
  BY <1>1 DEF ConfigFromDict, Accepts
<1>5. ASSUME NEW x \in DOMAIN config.tier_routing
      PROVE  ToSet(config.tier_routing[x]) \subseteq known
  <2>1. CASE routes.kind = "null"
    BY <1>4, <2>1 DEF ParseTierRouting
  <2>2. CASE routes.kind # "null"
    <3>1. x \in DOMAIN routes.val /\ config.tier_routing[x] = ParseNames(routes.val[x])
      BY <1>4, <2>2 DEF ParseTierRouting
    <3>2. ValidNames(routes.val[x], known)
      BY <1>4, <2>2, <3>1 DEF ValidTierRouting
    <3>. QED  BY <1>3, <3>1, <3>2
  <2>. QED  BY <2>1, <2>2
<1>. QED  BY <1>2, <1>3, <1>4, <1>5

LEMMA BeginResolveKeeps ==
  ASSUME IInv, NEW t \in Threads, NEW r \in Requests, BeginResolve(t, r) PROVE IInv'
<1>1. PICK n \in ToSet(ResolveChain(config, r)) : wanted' = [wanted EXCEPT ![t] = n]
  BY DEF BeginResolve
<1>2. /\ UNCHANGED <<config, shared, at, job, found, failure>> /\ pc[t] = "idle"
      /\ before' = [before EXCEPT ![t] = Registered] /\ Goto(t, "cache")
  BY DEF BeginResolve
<1>3. n \in Names /\ n # None
  <2>1. Configured /\ config # None
    BY DEF BeginResolve, IInv
  <2>2. Eligible(config, n, r.fresh)
    BY <1>1, <2>1, ChainElements
  <2>3. n \in DOMAIN config.providers
    BY <2>2 DEF Eligible
  <2>. QED  BY <2>1, <2>3, NamesAssumption, NoneAssumption DEF Configured
<1>4. Coherent(t) /\ Thread(t) /\ LocalTypes
  BY TypeParts DEF IInv
<1>5. LocalTypes' /\ Alone(t)
  BY <1>1, <1>2, <1>3, <1>4 DEF LocalTypes, Alone, Goto, PCs, Registered
<1>6. /\ pc'[t] = "cache" /\ wanted'[t] = n /\ before'[t] = Registered
      /\ Registered' = Registered
  BY <1>1, <1>2, <1>4 DEF LocalTypes, Goto, Registered, shared
<1>7. Coherent(t)' /\ Seen(t)' /\ Underway(t)' /\ InHand(t)'
  BY <1>2, <1>3, <1>4, <1>6 DEF Coherent, Thread, Seen, Underway, InHand
<1>8. Told(t)'
  BY <1>2, <1>4, NoneAssumption DEF Coherent, Told, Failures
<1>. QED  BY <1>2, <1>5, <1>7, <1>8, QuietStep

LEMMA CacheHitKeeps ==
  ASSUME IInv, NEW t \in Threads, CacheHit(t) PROVE IInv'
<1>1. /\ UNCHANGED <<config, shared, wanted, at, job, failure, before>> /\ pc[t] = "cache"
      /\ found' = [found EXCEPT ![t] = Cached(t)] /\ Cached(t) # None /\ Goto(t, "resolved")
  BY DEF CacheHit
<1>2. Coherent(t) /\ Thread(t) /\ LocalTypes /\ SharedTypes
  BY TypeParts DEF IInv
<1>3. wanted[t] \in Names
  BY <1>1, <1>2 DEF Coherent, LocalTypes
<1>4. Cached(t) \in Adapters
  BY <1>1, <1>2, <1>3, ClientsAssumption DEF Cached, SharedTypes
<1>5. LocalTypes' /\ Alone(t)
  BY <1>1, <1>2, <1>4 DEF LocalTypes, Alone, Goto, PCs
<1>6. pc'[t] = "resolved" /\ found'[t] = Cached(t) /\ Registered' = Registered
  BY <1>1, <1>2 DEF LocalTypes, Goto, Registered, shared
<1>7. Coherent(t)' /\ Seen(t)' /\ Underway(t)' /\ InHand(t)' /\ Told(t)'
  BY <1>1, <1>2, <1>4, <1>6 DEF Coherent, Thread, Seen, Underway, InHand, Told
<1>. QED  BY <1>1, <1>5, <1>7, QuietStep

LEMMA SkipBuiltinKeeps ==
  ASSUME IInv, NEW t \in Threads, SkipBuiltin(t) PROVE IInv'
<1>1. /\ UNCHANGED <<config, shared, pc, wanted, job, found, failure, before>>
      /\ pc[t] = "load" /\ at[t] <= Len(Builtins) /\ ~Missing(t)
      /\ at' = [at EXCEPT ![t] = @ + 1]
  BY DEF SkipBuiltin
<1>2. Coherent(t) /\ Thread(t) /\ LocalTypes
  BY TypeParts DEF IInv
<1>3. at[t] \in 1 .. Len(Builtins) /\ at'[t] = at[t] + 1
  BY <1>1, <1>2, BuiltinNames DEF LocalTypes
<1>4. Builtins[at[t]] \in Registered
  BY <1>1, <1>3, BuiltinNames DEF Missing, Registered
<1>5. LocalTypes' /\ Alone(t)
  BY <1>1, <1>2, <1>3, BuiltinNames DEF LocalTypes, Alone
<1>6. Registered' = Registered
  BY <1>1 DEF Registered, shared
<1>7. Seen(t)'
  BY <1>1, <1>2, <1>3, <1>4, <1>6, BuiltinNames DEF Thread, Seen
<1>8. Coherent(t)' /\ Underway(t)' /\ InHand(t)'
  BY <1>1, <1>2 DEF Coherent, Thread, Underway, InHand
<1>9. Told(t)'
  BY <1>1, <1>2, NoneAssumption DEF Coherent, Told, Failures
<1>. QED  BY <1>1, <1>5, <1>7, <1>8, <1>9, QuietStep

\* A built-in that is missing now was missing when the call began.
LEMMA LoadBuiltinKeeps ==
  ASSUME IInv, NEW t \in Threads, LoadBuiltin(t) PROVE IInv'
<1>. DEFINE n == Builtins[at[t]]
            j == Job(n, BuiltinFactory(n), FALSE)
<1>1. /\ UNCHANGED <<config, shared, wanted, at, found, failure, before>>
      /\ pc[t] = "load" /\ at[t] <= Len(Builtins) /\ factories[n] = None
      /\ job' = [job EXCEPT ![t] = j] /\ Goto(t, "register")
  BY DEF LoadBuiltin, Missing
<1>2. Coherent(t) /\ Thread(t) /\ LocalTypes
  BY TypeParts DEF IInv
<1>3. n \in ToSet(Builtins) /\ n \in Names /\ at[t] \in 1 .. Len(Builtins)
  BY <1>1, <1>2, BuiltinNames DEF LocalTypes
<1>4. j \in Jobs /\ j # None
  <2>1. BuiltinFactory(n) \in Factories
    BY <1>3 DEF Factories
  <2>2. j \in Jobs
    BY <1>3, <2>1 DEF Job, Jobs
  <2>. QED  BY <2>2, NoneAssumption
<1>5. n \notin before[t]
  BY <1>1, <1>2 DEF Thread, Seen, Registered
<1>6. LocalTypes' /\ Alone(t)
  BY <1>1, <1>2, <1>4 DEF LocalTypes, Alone, Goto, PCs
<1>7. pc'[t] = "register" /\ job'[t] = j /\ Registered' = Registered
  BY <1>1, <1>2 DEF LocalTypes, Goto, Registered, shared
<1>8. Coherent(t)' /\ Seen(t)' /\ InHand(t)' /\ Told(t)'
  BY <1>1, <1>2, <1>4, <1>7 DEF Coherent, Thread, Seen, InHand, Told
<1>9. Underway(t)'
  <2>1. job'[t].name = n /\ job'[t].factory = BuiltinFactory(n)
    BY <1>7 DEF Job
  <2>2. Proper(job'[t].name, job'[t].factory)
    BY <1>3, <2>1 DEF Proper
  <2>. QED  BY <1>1, <1>5, <1>7, <2>1, <2>2 DEF Underway, Proper
<1>. QED  BY <1>1, <1>6, <1>8, <1>9, QuietStep

LEMMA LookupKeeps ==
  ASSUME IInv, NEW t \in Threads, Lookup(t) PROVE IInv'
<1>. DEFINE a == Adapter(factories[wanted[t]], None)
<1>1. /\ UNCHANGED <<config, shared, wanted, at, job, failure, before>> /\ pc[t] = "lookup"
      /\ factories[wanted[t]] # None /\ found' = [found EXCEPT ![t] = a] /\ Goto(t, "make")
  BY DEF Lookup
<1>2. Coherent(t) /\ Thread(t) /\ LocalTypes /\ SharedTypes
  BY TypeParts DEF IInv
<1>3. wanted[t] \in Names
  BY <1>1, <1>2 DEF Coherent, LocalTypes
<1>4. a \in Drafts
  BY <1>1, <1>2, <1>3 DEF SharedTypes, Adapter, Drafts
<1>5. LocalTypes' /\ Alone(t)
  BY <1>1, <1>2, <1>4 DEF LocalTypes, Alone, Goto, PCs
<1>6. pc'[t] = "make" /\ found'[t] = a /\ Registered' = Registered
  BY <1>1, <1>2 DEF LocalTypes, Goto, Registered, shared
<1>7. Proper(wanted[t], a.factory)
  BY <1>1, <1>3 DEF IInv, Table, Adapter
<1>8. Coherent(t)' /\ Seen(t)' /\ Underway(t)' /\ Told(t)'
  BY <1>1, <1>2, <1>4, <1>6 DEF Coherent, Thread, Seen, Underway, Told
<1>9. InHand(t)'
  BY <1>1, <1>6, <1>7 DEF InHand, Proper
<1>. QED  BY <1>1, <1>5, <1>8, <1>9, QuietStep

LEMMA MakeKeeps ==
  ASSUME IInv, NEW t \in Threads, Make(t) PROVE IInv'
<1>1. /\ UNCHANGED <<config, shared, wanted, at, job, failure, before>> /\ pc[t] = "make"
      /\ KeyName(t) \in environ \cup {NoKey}
      /\ found' = [found EXCEPT ![t].key = KeyName(t)] /\ Goto(t, "store")
  BY DEF Make
<1>2. Coherent(t) /\ Thread(t) /\ LocalTypes /\ SharedTypes
  BY TypeParts DEF IInv
<1>3. found[t] \in Drafts /\ wanted[t] \in Names
  BY <1>1, <1>2 DEF Coherent, LocalTypes
<1>4. /\ found'[t] = [found[t] EXCEPT !.key = KeyName(t)]
      /\ \A d \in Threads \ {t} : found'[d] = found[d]
      /\ DOMAIN found' = Threads
  BY <1>1, <1>2 DEF LocalTypes
<1>5. /\ found'[t] \in Adapters
      /\ found'[t].factory = found[t].factory /\ found'[t].key = KeyName(t)
  BY <1>1, <1>2, <1>3, <1>4 DEF Drafts, Adapters, SharedTypes
<1>6. found' \in [Threads -> Drafts \cup Adapters \cup {None}]
  BY <1>1, <1>2, <1>5 DEF LocalTypes
<1>7. LocalTypes' /\ Alone(t)
  BY <1>1, <1>2, <1>4, <1>6 DEF LocalTypes, Alone, Goto, PCs
<1>8. pc'[t] = "store" /\ Registered' = Registered
  BY <1>1, <1>2 DEF LocalTypes, Goto, Registered, shared
<1>9. Coherent(t)' /\ Seen(t)' /\ Underway(t)' /\ Told(t)'
  BY <1>1, <1>2, <1>5, <1>8 DEF Coherent, Thread, Seen, Underway, Told
<1>10. InHand(t)'
  BY <1>1, <1>2, <1>5, <1>8 DEF InHand, Fits, Thread, KeyName, Proper, shared
<1>. QED  BY <1>1, <1>7, <1>9, <1>10, QuietStep

LEMMA FinishKeeps ==
  ASSUME IInv, NEW t \in Threads, Finish(t) PROVE IInv'
<1>1. Coherent(t) /\ Thread(t) /\ LocalTypes
  BY TypeParts DEF IInv
<1>2. LocalTypes' /\ Alone(t)
  BY <1>1, BuiltinNames DEF Finish, LocalTypes, Alone, Goto, PCs
<1>3. /\ pc'[t] = "idle" /\ wanted'[t] = None /\ failure'[t] = None /\ before'[t] = {}
      /\ at'[t] = 1 /\ job'[t] = None
  BY <1>1 DEF Finish, LocalTypes, Goto, Coherent
<1>4. Coherent(t)' /\ Seen(t)' /\ Underway(t)' /\ InHand(t)'
  BY <1>3 DEF Coherent, Seen, Underway, InHand
<1>5. Told(t)'
  BY <1>3, NoneAssumption DEF Told, Failures
<1>. QED  BY <1>2, <1>4, <1>5, QuietStep DEF Finish

LEMMA RetryKeeps ==
  ASSUME IInv, NEW t \in Threads, Retry(t) PROVE IInv'
<1>1. Coherent(t) /\ Thread(t) /\ LocalTypes /\ Registered \subseteq Names
  BY TypeParts DEF IInv, Registered
<1>2. LocalTypes' /\ Alone(t)
  BY <1>1, BuiltinNames DEF Retry, LocalTypes, Alone, Goto, PCs
<1>3. /\ pc'[t] = "cache" /\ wanted'[t] # None /\ failure'[t] = None
      /\ before'[t] = Registered /\ at'[t] = 1 /\ job'[t] = None /\ Registered' = Registered
  BY <1>1 DEF Retry, LocalTypes, Goto, Coherent, Registered, shared
<1>4. Coherent(t)' /\ Seen(t)' /\ Underway(t)' /\ InHand(t)'
  BY <1>3 DEF Coherent, Seen, Underway, InHand
<1>5. Told(t)'
  BY <1>3, NoneAssumption DEF Told, Failures
<1>. QED  BY <1>2, <1>4, <1>5, QuietStep DEF Retry

-----------------------------------------------------------------------------
(* The steps that change what threads share *)

\* The factory written is not None, so that the table grows; a load gets past
\* the built-in it wrote.
LEMMA WriteKeeps ==
  ASSUME IInv, NEW t \in Threads, Write(t) PROVE IInv'
<1>. DEFINE n == job[t].name
<1>1. /\ UNCHANGED <<config, environ, loaded, cached, wanted, found, failure>>
      /\ pc[t] = "write" /\ factories' = [factories EXCEPT ![n] = job[t].factory]
      /\ job' = [job EXCEPT ![t] = None]
  BY DEF Write
<1>2. Coherent(t) /\ Thread(t) /\ LocalTypes /\ SharedTypes
  BY TypeParts DEF IInv
<1>3. /\ job[t] \in Jobs /\ n \in Names /\ job[t].factory \in Factories
      /\ job[t].factory # None /\ Proper(n, job[t].factory)
  <2>1. job[t] \in Jobs /\ job[t] # None
    BY <1>1, <1>2 DEF Coherent, LocalTypes
  <2>. QED  BY <1>2, <2>1, NoneAssumption DEF Jobs, Thread, Underway
<1>4. Registered \subseteq Registered' /\ n \in Registered'
  BY <1>1, <1>2, <1>3 DEF SharedTypes, Registered
<1>5. SharedTypes'
  BY <1>1, <1>2, <1>3 DEF SharedTypes
<1>6. Table'
  <2>. SUFFICES ASSUME NEW m \in Names, factories'[m] # None
                PROVE  Proper(m, factories'[m])
    BY DEF Table, Proper
  <2>1. CASE m = n
    BY <1>1, <1>2, <1>3, <2>1 DEF SharedTypes
  <2>2. CASE m # n
    BY <1>1, <1>2, <2>2 DEF SharedTypes, IInv, Table
  <2>. QED  BY <2>1, <2>2
<1>7. Cache' /\ LoadedMeansComplete'
  BY <1>1, <1>4 DEF IInv, Cache, Fits, Proper, LoadedMeansComplete
<1>8. CASE /\ wanted[t] = None /\ Goto(t, "idle") /\ UNCHANGED at
           /\ before' = [before EXCEPT ![t] = {}]
  <2>1. LocalTypes' /\ Alone(t)
    BY <1>1, <1>2, <1>8 DEF LocalTypes, Alone, Goto, PCs
  <2>2. /\ pc'[t] = "idle" /\ job'[t] = None /\ before'[t] = {}
        /\ failure'[t] = None /\ wanted'[t] = None
    BY <1>1, <1>2, <1>8 DEF LocalTypes, Goto, Coherent
  <2>3. Coherent(t)' /\ Underway(t)' /\ InHand(t)'
    BY <2>2 DEF Coherent, Underway, InHand
  <2>4. Seen(t)' /\ Told(t)'
    BY <1>2, <1>4, <1>8, <2>2, NoneAssumption DEF Thread, Seen, Told, Failures
  <2>. QED  BY <1>1, <1>4, <1>5, <1>6, <1>7, <2>1, <2>3, <2>4, OneStep DEF Thread
<1>9. CASE /\ wanted[t] # None /\ Goto(t, "load") /\ UNCHANGED before
           /\ at' = [at EXCEPT ![t] = @ + 1]
  <2>1. at[t] \in 1 .. Len(Builtins) /\ n = Builtins[at[t]]
    BY <1>1, <1>2, <1>9, BuiltinNames DEF Thread, Underway, LocalTypes
  <2>2. LocalTypes' /\ Alone(t)
    BY <1>1, <1>2, <1>9, <2>1, BuiltinNames DEF LocalTypes, Alone, Goto, PCs
  <2>3. /\ pc'[t] = "load" /\ job'[t] = None /\ at'[t] = at[t] + 1
        /\ failure'[t] = None /\ wanted'[t] # None
    BY <1>1, <1>2, <1>9 DEF LocalTypes, Goto, Coherent
  <2>4. Coherent(t)' /\ Underway(t)' /\ InHand(t)'
    BY <2>3 DEF Coherent, Underway, InHand
  <2>5. Seen(t)'
    BY <1>2, <1>4, <1>9, <2>1, <2>3, BuiltinNames DEF Thread, Seen
  <2>6. Told(t)'
    BY <2>3, NoneAssumption DEF Told, Failures
  <2>. QED  BY <1>1, <1>4, <1>5, <1>6, <1>7, <2>2, <2>4, <2>5, <2>6, OneStep DEF Thread
<1>. QED  BY <1>8, <1>9 DEF Write

LEMMA StoreKeeps ==
  ASSUME IInv, NEW t \in Threads, Store(t) PROVE IInv'
<1>1. /\ UNCHANGED <<config, environ, factories, loaded, wanted, at, job, found,
                     failure, before>>
      /\ pc[t] = "store" /\ Goto(t, "resolved")
      /\ cached' = [cached EXCEPT ![ClientOf[t]][wanted[t]] = found[t]]
  BY DEF Store
<1>2. Coherent(t) /\ Thread(t) /\ LocalTypes /\ SharedTypes /\ Cache
  BY TypeParts DEF IInv
<1>3. /\ ClientOf[t] \in Clients /\ wanted[t] \in Names /\ found[t] \in Adapters
      /\ Fits(wanted[t], found[t])
  BY <1>1, <1>2, ClientsAssumption DEF Coherent, LocalTypes, Thread, InHand
<1>4. \A k \in Clients, n \in Names :
         cached'[k][n] = IF k = ClientOf[t] /\ n = wanted[t] THEN found[t] ELSE cached[k][n]
  BY <1>1, <1>2, <1>3 DEF SharedTypes
<1>5. Registered' = Registered /\ Table' /\ LoadedMeansComplete'
  BY <1>1 DEF IInv, Registered, Table, Proper, LoadedMeansComplete
<1>6. Cache'
  BY <1>1, <1>2, <1>3, <1>4 DEF Cache, Fits, Proper
<1>7. SharedTypes'
  BY <1>1, <1>2, <1>3 DEF SharedTypes
<1>8. LocalTypes' /\ Alone(t) /\ pc'[t] = "resolved"
  BY <1>1, <1>2 DEF LocalTypes, Alone, Goto, PCs
<1>9. Coherent(t)' /\ Seen(t)' /\ Underway(t)' /\ InHand(t)'
  BY <1>1, <1>2, <1>3, <1>5, <1>8 DEF Coherent, Thread, Seen, Underway, InHand
<1>10. Told(t)'
  BY <1>1, <1>2, NoneAssumption DEF Coherent, Told, Failures
<1>. QED  BY <1>1, <1>5, <1>6, <1>7, <1>8, <1>9, <1>10, OneStep DEF Thread

LEMMA SetLoadedKeeps ==
  ASSUME IInv, NEW t \in Threads, SetLoaded(t) PROVE IInv'
<1>1. /\ UNCHANGED <<config, environ, factories, cached, wanted, job, found, failure, before>>
      /\ pc[t] = "load" /\ at[t] > Len(Builtins) /\ loaded' = TRUE
      /\ at' = [at EXCEPT ![t] = 1] /\ Goto(t, "lookup")
  BY DEF SetLoaded
<1>2. Coherent(t) /\ Thread(t) /\ LocalTypes /\ SharedTypes
  BY TypeParts DEF IInv
<1>3. Registered' = Registered /\ Table' /\ Cache'
  BY <1>1 DEF IInv, Registered, Table, Proper, Cache, Fits
<1>4. ToSet(Builtins) \subseteq Registered
  <2>1. at[t] \in Nat /\ at[t] > Len(Builtins)
    BY <1>1, <1>2, BuiltinNames DEF LocalTypes
  <2>2. \A i \in 1 .. Len(Builtins) : Builtins[i] \in Registered
    BY <1>2, <2>1, BuiltinNames DEF Thread, Seen
  <2>. QED  BY <2>2, BuiltinNames
<1>5. SharedTypes' /\ LoadedMeansComplete'
  BY <1>1, <1>2, <1>3, <1>4 DEF SharedTypes, LoadedMeansComplete
<1>6. LocalTypes' /\ Alone(t) /\ pc'[t] = "lookup" /\ at'[t] = 1
  BY <1>1, <1>2, BuiltinNames DEF LocalTypes, Alone, Goto, PCs
<1>7. Coherent(t)' /\ Seen(t)' /\ Underway(t)' /\ InHand(t)'
  BY <1>1, <1>2, <1>3, <1>4, <1>6 DEF Coherent, Thread, Seen, Underway, InHand
<1>8. Told(t)'
  BY <1>1, <1>2, NoneAssumption DEF Coherent, Told, Failures
<1>. QED  BY <1>1, <1>3, <1>5, <1>6, <1>7, <1>8, OneStep DEF Thread

LEMMA ExportKeyKeeps ==
  ASSUME IInv, NEW k \in Keys, ExportKey(k) PROVE IInv'
<1>1. /\ UNCHANGED <<config, factories, loaded, cached, local>>
      /\ environ' = environ \cup {k}
  BY DEF ExportKey
<1>2. Registered' = Registered /\ Configured' /\ Table' /\ Cache' /\ LoadedMeansComplete'
  BY <1>1 DEF IInv, Registered, Configured, Table, Proper, Cache, Fits, LoadedMeansComplete
<1>3. TypeOK'
  BY <1>1 DEF IInv, TypeOK, local
<1>4. ASSUME NEW d \in Threads PROVE Thread(d)'
  BY <1>1, <1>2, OthersKeep DEF IInv, local
<1>. QED  BY <1>2, <1>3, <1>4 DEF IInv

-----------------------------------------------------------------------------

LEMMA StepKeeps == IInv /\ [Next]_vars => IInv'
<1>. SUFFICES ASSUME IInv, [Next]_vars PROVE IInv'
  OBVIOUS
<1>1. ASSUME NEW t \in Threads, Step(t) PROVE IInv'
  BY <1>1, RefuseKeeps, PermitKeeps, WriteKeeps, CacheHitKeeps, CacheMissKeeps, StoreKeeps,
     AlreadyLoadedKeeps, StartLoadingKeeps, SkipBuiltinKeeps, LoadBuiltinKeeps,
     SetLoadedKeeps, UnknownNameKeeps, LookupKeeps, MissingKeyKeeps, MakeKeeps
     DEF Step
<1>2. CASE Next
  BY <1>1, <1>2, BeginRegisterKeeps, BeginResolveKeeps, FinishKeeps, RetryKeeps,
     ExportKeyKeeps DEF Next
<1>3. CASE UNCHANGED vars
  <2>1. UNCHANGED <<config, shared>> /\ UNCHANGED local
    BY <1>3 DEF vars
  <2>2. Registered' = Registered /\ Configured' /\ Table' /\ Cache' /\ LoadedMeansComplete'
    BY <2>1 DEF IInv, Registered, Configured, Table, Proper, Cache, Fits,
                LoadedMeansComplete, shared
  <2>3. TypeOK'
    BY <2>1 DEF IInv, TypeOK, shared, local
  <2>4. ASSUME NEW d \in Threads PROVE Thread(d)'
    BY <2>1, <2>2, OthersKeep DEF IInv, shared, local
  <2>. QED  BY <2>2, <2>3, <2>4 DEF IInv
<1>. QED  BY <1>2, <1>3

LEMMA Invariance == Spec => []IInv
BY InitHolds, StepKeeps, PTL DEF Spec

\* TypeOK holds of every registry: globals, caches and threads of registry.py
\* and of _adapter_for have their types.
THEOREM TypeCorrect == Spec => []TypeOK
<1>1. IInv => TypeOK
  BY DEF IInv
<1>. QED  BY <1>1, Invariance, PTL

\* LoadedMeansComplete: _builtins_loaded is never TRUE over a table in which a
\* built-in is missing.
THEOREM FlagHonest == Spec => []LoadedMeansComplete
<1>1. IInv => LoadedMeansComplete
  BY DEF IInv
<1>. QED  BY <1>1, Invariance, PTL

\* UnknownMeansAbsent: get_provider denies no built-in and no provider that was
\* registered when the call began, whatever the other threads do.
THEOREM UnknownIsAbsent == Spec => []UnknownMeansAbsent
<1>1. IInv => UnknownMeansAbsent
  BY DEF IInv, UnknownMeansAbsent, Thread, Told
<1>. QED  BY <1>1, Invariance, PTL

\* RefusalsHaveRival: ensure_builtins_loaded fails only by the race of two loads
\* or of a load and a registration.
THEOREM RefusalsComeFromRivals == Spec => []RefusalsHaveRival
<1>1. IInv => RefusalsHaveRival
  BY DEF IInv, RefusalsHaveRival, Thread, Told
<1>. QED  BY <1>1, Invariance, PTL

\* AdaptersFit: _resolved holds adapters made for their provider with its key.
THEOREM CachedAdaptersFit == Spec => []AdaptersFit
<1>1. IInv => AdaptersFit
  BY DEF IInv, AdaptersFit, Cache, Fits, Proper
<1>. QED  BY <1>1, Invariance, PTL

\* RoutesLoseNothing: resolve_chain drops no name of an accepted configuration's
\* routes without a reason that the configuration gives.
THEOREM RoutesKeepTheirNames == Spec => []RoutesLoseNothing
<1>1. ASSUME Configured, config # None, NEW r \in Requests, r.provider_chain = {},
             NEW n \in ToSet(config.provider_order)
                 \cup UNION {ToSet(config.tier_routing[x]) : x \in DOMAIN config.tier_routing},
             n \notin ToSet(ResolveChain(config, r))
      PROVE  /\ n \in DOMAIN config.providers
             /\ \/ ~config.providers[n].enabled
                \/ r.fresh /\ ~config.providers[n].freshness_ok
                \/ n \notin ToSet(config.provider_order)
  <2>1. n \in DOMAIN config.providers
    BY <1>1, NamesAreKnown
  <2>2. ~(n \in ToSet(config.provider_order) /\ Eligible(config, n, r.fresh))
    BY <1>1, ChainElements
  <2>. QED  BY <2>1, <2>2 DEF Eligible
<1>2. IInv => RoutesLoseNothing
  BY <1>1 DEF IInv, RoutesLoseNothing
<1>. QED  BY <1>2, Invariance, PTL

\* SettledStays: no write overwrites, without replace=True, a factory that was
\* there when the writing registration or load began.
THEOREM SettledFactoriesStay == Spec => SettledStays
<1>1. ASSUME IInv, [Next]_vars, NEW n \in Names,
             factories[n] # None, factories'[n] # factories[n]
      PROVE  \E t \in Threads : /\ pc[t] = "write" /\ job[t].name = n
                                /\ job[t].replace \/ n \notin before[t]
  <2>1. PICK t \in Threads : Write(t)
    BY <1>1 DEF Next, vars, shared, local, BeginRegister, BeginResolve, Step, Finish, Retry,
       ExportKey, Refuse, Permit, CacheHit, CacheMiss, Store, AlreadyLoaded, StartLoading,
       SkipBuiltin, LoadBuiltin, SetLoaded, UnknownName, Lookup, MissingKey, Make
  <2>2. pc[t] = "write" /\ factories' = [factories EXCEPT ![job[t].name] = job[t].factory]
    BY <2>1 DEF Write
  <2>3. factories \in [Names -> Factories \cup {None}]
    BY <1>1 DEF IInv, TypeOK
  <2>4. job[t].name = n
    BY <1>1, <2>2, <2>3
  <2>5. job[t].replace \/ job[t].name \notin before[t]
    BY <1>1, <2>2 DEF IInv, Thread, Underway
  <2>. QED  BY <2>2, <2>4, <2>5
<1>2. IInv /\ [Next]_vars =>
        [\A n \in Names : factories[n] # None /\ factories'[n] # factories[n] =>
           \E t \in Threads : /\ pc[t] = "write" /\ job[t].name = n
                              /\ job[t].replace \/ n \notin before[t]]_vars
  BY <1>1
<1>. QED  BY <1>2, Invariance, PTL DEF Spec, SettledStays

=============================================================================
