------------------------------ MODULE Registry ------------------------------
(***************************************************************************)
(* providers/registry.py, and the cache that _adapter_for of client.py     *)
(* keeps in front of it: how the threads of a process get the adapter of a *)
(* provider, and register providers of their own meanwhile.                *)
(*                                                                         *)
(* The table of factories and the flag of the built-ins are globals with   *)
(* no lock.  A thread's program counter stops before each of its uses of   *)
(* the table, the flag, the environment and its client's cache:            *)
(*                                                                         *)
(*   idle -> cache -> flag -> load -> register -> write -> load ...        *)
(*                      \        \-> lookup -> make -> store -> resolved   *)
(*                                                                         *)
(* The table never forgets a name; _clear_for_tests is left to the tests.  *)
(***************************************************************************)
EXTENDS Configuration, FiniteSets

CONSTANTS
  Threads, Clients,
  ClientOf,        \* ClientOf[t]: the client thread t uses
  Documents,       \* what the configuration of the clients may be read from
  Requests,        \* the arguments calls are made with (see Routing)
  Customs,         \* the names of providers that are not built in
  Registrations,   \* what applications register: name, wellNamed, factory, replace
  Keys,            \* the names of environment variables that may hold a key
  NoKey,           \* the blank api_key_env of a provider that needs none
  None

\* The order in which ensure_builtins_loaded goes through them.
Builtins == <<"openai", "anthropic", "gemini">>
BuiltinFactory(n) == n   \* known by the name of the provider it is for

VARIABLES
  config,          \* the LibraryConfig, or None where the document is refused
  environ,         \* the environment variables that hold a key
  factories,       \* _factories: names to factories, or None
  loaded,          \* _builtins_loaded
  cached,          \* cached[k][n]: the adapter in _resolved of client k, or None
  pc,
  wanted,          \* wanted[t]: the provider asked for
  at,              \* at[t]: the built-in that is looked at, 1 when none is
  job,             \* job[t]: the registration under way, or None
  found,           \* found[t]: the adapter in hand, its key None until it is made
  failure,         \* failure[t]: the ConfigError raised, or None
  before           \* before[t]: history: the names registered when t began

shared == <<environ, factories, loaded, cached>>
local == <<pc, wanted, at, job, found, failure, before>>
vars == <<config, shared, local>>

-----------------------------------------------------------------------------

Names == ToSet(Builtins) \cup Customs
Registered == {n \in Names : factories[n] # None}
Job(n, factory, replace) == [name |-> n, factory |-> factory, replace |-> replace]
Adapter(factory, key) == [factory |-> factory, key |-> key]

PCs ==
  {"idle", "cache", "flag", "load", "register", "write", "lookup", "make",
   "store", "resolved", "failed"}

Factories == {BuiltinFactory(n) : n \in ToSet(Builtins)} \cup {r.factory : r \in Registrations}
Jobs == [name : Names, factory : Factories, replace : BOOLEAN]
Adapters == [factory : Factories, key : Keys \cup {NoKey}]
Drafts == [factory : Factories, key : {None}]   \* before the key is looked up
Failures == {"invalid name", "already registered", "unknown provider", "missing key"}

ASSUME ClientsAssumption == ClientOf \in [Threads -> Clients]
ASSUME RegistrationsAssumption ==
  \A r \in Registrations : r.wellNamed => r.name \in Names /\ r.replace \in BOOLEAN
ASSUME NoneAssumption ==
  None \notin Names \cup Factories \cup Jobs \cup Adapters \cup Drafts \cup Failures
\* Names has all configured names.
ASSUME NamesAssumption ==
  \A d \in DOMAIN Documents : Accepts(Documents[d]) =>
    /\ DOMAIN ConfigFromDict(Documents[d]).providers \subseteq Names
    /\ \A names \in NameLists(ConfigFromDict(Documents[d]), Requests) : names \in Seq(ToSet(names))

Goto(t, label) == pc' = [pc EXCEPT ![t] = label]

Init ==
  /\ \E d \in DOMAIN Documents :
       config = IF Accepts(Documents[d]) THEN ConfigFromDict(Documents[d]) ELSE None
  /\ environ \in SUBSET Keys
  /\ factories = [n \in Names |-> None]
  /\ loaded = FALSE
  /\ cached = [k \in Clients |-> [n \in Names |-> None]]
  /\ pc = [t \in Threads |-> "idle"]
  /\ wanted = [t \in Threads |-> None]
  /\ at = [t \in Threads |-> 1]
  /\ job = [t \in Threads |-> None]
  /\ found = [t \in Threads |-> None]
  /\ failure = [t \in Threads |-> None]
  /\ before = [t \in Threads |-> {}]

\* The ConfigError leaves every function on the stack.
Fail(t, why) ==
  /\ failure' = [failure EXCEPT ![t] = why]
  /\ found' = [found EXCEPT ![t] = None]
  /\ job' = [job EXCEPT ![t] = None]
  /\ Goto(t, "failed")

-----------------------------------------------------------------------------
(* register_provider *)

\* An application registers a provider; the name is checked first.
BeginRegister(t, r) ==
  /\ pc[t] = "idle"
  /\ before' = [before EXCEPT ![t] = Registered]
  /\ \/ /\ ~r.wellNamed
        /\ Fail(t, "invalid name")
     \/ /\ r.wellNamed
        /\ job' = [job EXCEPT ![t] = Job(r.name, r.factory, r.replace)]
        /\ Goto(t, "register")
        /\ UNCHANGED <<found, failure>>
  /\ UNCHANGED <<config, shared, wanted, at>>

\* Mutant of Taken: the table is not looked at.
Taken_Never(t) == FALSE

Taken(t) == factories[job[t].name] # None /\ ~job[t].replace

Refuse(t) ==
  /\ pc[t] = "register" /\ Taken(t)
  /\ Fail(t, "already registered")
  /\ UNCHANGED <<config, shared, wanted, at, before>>

Permit(t) ==
  /\ pc[t] = "register" /\ ~Taken(t)
  /\ Goto(t, "write")
  /\ UNCHANGED <<config, shared, wanted, at, job, found, failure, before>>

Write(t) ==
  /\ pc[t] = "write"
  /\ factories' = [factories EXCEPT ![job[t].name] = job[t].factory]
  /\ job' = [job EXCEPT ![t] = None]
  /\ IF wanted[t] = None
     THEN /\ Goto(t, "idle")
          /\ before' = [before EXCEPT ![t] = {}]
          /\ UNCHANGED at
     ELSE /\ Goto(t, "load")
          /\ at' = [at EXCEPT ![t] = @ + 1]
          /\ UNCHANGED before
  /\ UNCHANGED <<config, environ, loaded, cached, wanted, found, failure>>

-----------------------------------------------------------------------------
(* _adapter_for *)

\* A call of complete gets to one of the providers of its chain.
BeginResolve(t, r) ==
  /\ pc[t] = "idle"
  /\ config # None /\ ~UnknownProvider(config, r)
  /\ \E n \in ToSet(ResolveChain(config, r)) : wanted' = [wanted EXCEPT ![t] = n]
  /\ before' = [before EXCEPT ![t] = Registered]
  /\ Goto(t, "cache")
  /\ UNCHANGED <<config, shared, at, job, found, failure>>

Cached(t) == cached[ClientOf[t]][wanted[t]]

CacheHit(t) ==
  /\ pc[t] = "cache" /\ Cached(t) # None
  /\ found' = [found EXCEPT ![t] = Cached(t)]
  /\ Goto(t, "resolved")
  /\ UNCHANGED <<config, shared, wanted, at, job, failure, before>>

\* The name is configured, or resolve_chain would have dropped it.
CacheMiss(t) ==
  /\ pc[t] = "cache" /\ Cached(t) = None
  /\ Goto(t, "flag")
  /\ UNCHANGED <<config, shared, wanted, at, job, found, failure, before>>

Store(t) ==
  /\ pc[t] = "store"
  /\ cached' = [cached EXCEPT ![ClientOf[t]][wanted[t]] = found[t]]
  /\ Goto(t, "resolved")
  /\ UNCHANGED <<config, environ, factories, loaded, wanted, at, job, found, failure, before>>

-----------------------------------------------------------------------------
(* ensure_builtins_loaded *)

AlreadyLoaded(t) ==
  /\ pc[t] = "flag" /\ loaded
  /\ Goto(t, "lookup")
  /\ UNCHANGED <<config, shared, wanted, at, job, found, failure, before>>

\* Mutant of StartLoading: the flag is set before the work is done.
StartLoading_FlagFirst(t) ==
  /\ pc[t] = "flag" /\ ~loaded
  /\ loaded' = TRUE
  /\ Goto(t, "load")
  /\ UNCHANGED <<config, environ, factories, cached, wanted, at, job, found, failure, before>>

StartLoading(t) ==
  /\ pc[t] = "flag" /\ ~loaded
  /\ Goto(t, "load")
  /\ UNCHANGED <<config, shared, wanted, at, job, found, failure, before>>

\* Mutant of Missing: every built-in is registered, also one that is there.
Missing_Always(t) == at[t] <= Len(Builtins)

\* The built-in looked at is not in the table.
Missing(t) == at[t] <= Len(Builtins) /\ factories[Builtins[at[t]]] = None

SkipBuiltin(t) ==
  /\ pc[t] = "load" /\ at[t] <= Len(Builtins) /\ ~Missing(t)
  /\ at' = [at EXCEPT ![t] = @ + 1]
  /\ UNCHANGED <<config, shared, pc, wanted, job, found, failure, before>>

LoadBuiltin(t) ==
  /\ pc[t] = "load" /\ Missing(t)
  /\ job' = [job EXCEPT ![t] = Job(Builtins[at[t]], BuiltinFactory(Builtins[at[t]]), FALSE)]
  /\ Goto(t, "register")
  /\ UNCHANGED <<config, shared, wanted, at, found, failure, before>>

SetLoaded(t) ==
  /\ pc[t] = "load" /\ at[t] > Len(Builtins)
  /\ loaded' = TRUE
  /\ at' = [at EXCEPT ![t] = 1]
  /\ Goto(t, "lookup")
  /\ UNCHANGED <<config, environ, factories, cached, wanted, job, found, failure, before>>

-----------------------------------------------------------------------------
(* get_provider, and the factories *)

UnknownName(t) ==
  /\ pc[t] = "lookup" /\ factories[wanted[t]] = None
  /\ Fail(t, "unknown provider")
  /\ UNCHANGED <<config, shared, wanted, at, before>>

\* Mutant of Lookup: a missing factory is not noticed.
Lookup_Unchecked(t) ==
  /\ pc[t] = "lookup"
  /\ found' = [found EXCEPT ![t] = Adapter(factories[wanted[t]], None)]
  /\ Goto(t, "make")
  /\ UNCHANGED <<config, shared, wanted, at, job, failure, before>>

Lookup(t) ==
  /\ pc[t] = "lookup" /\ factories[wanted[t]] # None
  /\ found' = [found EXCEPT ![t] = Adapter(factories[wanted[t]], None)]
  /\ Goto(t, "make")
  /\ UNCHANGED <<config, shared, wanted, at, job, failure, before>>

\* Mutant of KeyName: a factory called without the ProviderConfig.
KeyName_Default(t) ==
  CHOOSE k \in Keys : \E n \in DOMAIN config.providers : config.providers[n].api_key_env = k

\* resolve_api_key: the variable that the provider's configuration names.
KeyName(t) == config.providers[wanted[t]].api_key_env

MissingKey(t) ==
  /\ pc[t] = "make" /\ KeyName(t) # NoKey /\ KeyName(t) \notin environ
  /\ Fail(t, "missing key")
  /\ UNCHANGED <<config, shared, wanted, at, before>>

Make(t) ==
  /\ pc[t] = "make" /\ KeyName(t) \in environ \cup {NoKey}
  /\ found' = [found EXCEPT ![t].key = KeyName(t)]
  /\ Goto(t, "store")
  /\ UNCHANGED <<config, shared, wanted, at, job, failure, before>>

-----------------------------------------------------------------------------
(* What happens around them *)

\* The thread is done with what it got and free for something else.
Finish(t) ==
  /\ pc[t] \in {"resolved", "failed"}
  /\ wanted' = [wanted EXCEPT ![t] = None]
  /\ found' = [found EXCEPT ![t] = None]
  /\ failure' = [failure EXCEPT ![t] = None]
  /\ before' = [before EXCEPT ![t] = {}]
  /\ at' = [at EXCEPT ![t] = 1]
  /\ Goto(t, "idle")
  /\ UNCHANGED <<config, shared, job>>

\* The caller makes the call that failed once more.
Retry(t) ==
  /\ pc[t] = "failed" /\ wanted[t] # None
  /\ failure' = [failure EXCEPT ![t] = None]
  /\ before' = [before EXCEPT ![t] = Registered]
  /\ at' = [at EXCEPT ![t] = 1]
  /\ Goto(t, "cache")
  /\ UNCHANGED <<config, shared, wanted, job, found>>

\* The application puts a key into os.environ.
ExportKey(k) ==
  /\ k \notin environ
  /\ environ' = environ \cup {k}
  /\ UNCHANGED <<config, factories, loaded, cached, local>>

\* What thread t does next once it began.
Step(t) ==
  \/ Refuse(t) \/ Permit(t) \/ Write(t)
  \/ CacheHit(t) \/ CacheMiss(t) \/ Store(t)
  \/ AlreadyLoaded(t) \/ StartLoading(t) \/ SkipBuiltin(t) \/ LoadBuiltin(t) \/ SetLoaded(t)
  \/ UnknownName(t) \/ Lookup(t) \/ MissingKey(t) \/ Make(t)

Next ==
  \/ \E t \in Threads :
       \/ \E r \in Registrations : BeginRegister(t, r)
       \/ \E r \in Requests : BeginResolve(t, r)
       \/ Step(t) \/ Finish(t) \/ Retry(t)
  \/ \E k \in Keys : ExportKey(k)

Spec == Init /\ [][Next]_vars

\* The operating system runs every thread.  Nobody has to call or to retry.
Fairness == \A t \in Threads : WF_vars(Step(t))
FairSpec == Spec /\ Fairness

-----------------------------------------------------------------------------
(* Properties *)

\* Every variable has its type; a thread registers, wants a provider, or has an
\* adapter in hand when its program counter says so.
TypeOK ==
  /\ environ \subseteq Keys
  /\ factories \in [Names -> Factories \cup {None}]
  /\ loaded \in BOOLEAN
  /\ cached \in [Clients -> [Names -> Adapters \cup {None}]]
  /\ pc \in [Threads -> PCs]
  /\ wanted \in [Threads -> Names \cup {None}]
  /\ at \in [Threads -> 1 .. Len(Builtins) + 1]
  /\ job \in [Threads -> Jobs \cup {None}]
  /\ found \in [Threads -> Drafts \cup Adapters \cup {None}]
  /\ failure \in [Threads -> Failures \cup {None}]
  /\ before \in [Threads -> SUBSET Names]
  /\ \A t \in Threads :
       /\ pc[t] \in {"register", "write"} <=> job[t] # None
       /\ pc[t] \notin {"idle", "register", "write", "failed"} => wanted[t] # None
       /\ pc[t] = "make" => found[t] \in Drafts
       /\ pc[t] \in {"store", "resolved"} => found[t] \in Adapters
       /\ failure[t] # None => pc[t] = "failed"

\* The flag spares a thread the loading only once the table has all built-ins,
\* also when a load was cut short by an error or overtaken by another.
LoadedMeansComplete == loaded => ToSet(Builtins) \subseteq Registered

\* "unknown provider" is said of no built-in and of no provider that had been
\* registered when the call began, whatever other threads do to the table.
UnknownMeansAbsent ==
  \A t \in Threads : failure[t] = "unknown provider" =>
    wanted[t] \notin ToSet(Builtins) \cup before[t]

\* A call is refused because a built-in is registered already only if another
\* thread registered it since the call began: what an application registered
\* earlier, in place of a built-in, is left alone.
RefusalsHaveRival ==
  \A t \in Threads : failure[t] = "already registered" /\ wanted[t] # None =>
    /\ Builtins[at[t]] \in Registered
    /\ Builtins[at[t]] \notin before[t]

\* A factory that was registered before a registration or a load began is
\* overwritten by it only with replace=True.
SettledStays ==
  [][\A n \in Names :
       factories[n] # None /\ factories'[n] # factories[n] =>
         \E t \in Threads :
           /\ pc[t] = "write" /\ job[t].name = n
           /\ job[t].replace \/ n \notin before[t]]_vars

\* The adapter a client keeps for a provider was built by a factory of that
\* provider, with the key that its own configuration names.
AdaptersFit ==
  \A k \in Clients : \A n \in Names : cached[k][n] # None =>
    /\ \/ n \in ToSet(Builtins) /\ cached[k][n].factory = BuiltinFactory(n)
       \/ \E r \in Registrations :
            r.wellNamed /\ r.name = n /\ cached[k][n].factory = r.factory
    /\ cached[k][n].key = config.providers[n].api_key_env
    /\ cached[k][n].key \in environ \cup {NoKey}

\* A route of an accepted configuration loses a provider only because it is
\* configured as disabled, not fresh, or outside provider_order: what
\* resolve_chain drops without a word is never a name that config.py let pass.
RoutesLoseNothing ==
  config # None =>
    \A r \in Requests : r.provider_chain = {} =>
      \A n \in ToSet(config.provider_order)
                 \cup UNION {ToSet(config.tier_routing[x]) : x \in DOMAIN config.tier_routing} :
        \/ n \in ToSet(ResolveChain(config, r))
        \/ /\ n \in DOMAIN config.providers
           /\ \/ ~config.providers[n].enabled
              \/ r.fresh /\ ~config.providers[n].freshness_ok
              \/ n \notin ToSet(config.provider_order)

\* A provider that can be had: built in or registered, its key exported.
Obtainable(n) ==
  /\ n \in ToSet(Builtins) \cup Registered
  /\ config.providers[n].api_key_env \in environ \cup {NoKey}

\* A thread that asks for such a provider again and again gets it again and
\* again: a load that another thread made fail is made good by the next one.
AskersGetIt ==
  \A t \in Threads, n \in Names :
    []<>(pc[t] = "cache" /\ wanted[t] = n /\ Obtainable(n))
      => []<>(pc[t] = "resolved" /\ wanted[t] = n)

=============================================================================
