# Verification of multiprovider-llm

`multiprovider-llm` sends one request to one of several LLM providers and falls over
to the next when a provider fails. This directory holds TLA+ models of its Python
source (`src/multiprovider_llm`), the TLC runs that check them and TLAPS proofs about
them. `PROJECT.json` maps every definition to the source lines it stands for.

## 1. Inventory

| Component (source) | State | Operations | Talks to |
| :-- | :-- | :-- | :-- |
| Inflight limiter (`limits.py`) | `_inflight`, `_global_inflight`, `_held` (ids of reservations), one lock | `try_reserve`, `release`, `finalize` | called by every client |
| Cooldowns (`limits.py`) | `_until` per provider, one lock | `set_cooldown`, `is_cooling` | set and read by the chain clients |
| Chain clients (`client.py`, `async_client.py`) | per call: prepared chain, attempts, reservation; shared: limiter, cooldowns, adapter cache, hooks | `complete`, `acomplete` | limiter, cooldowns, adapters, user hooks |
| Errors and retryability (`errors.py`, `routing/chain.py`, `providers/base.py`) | none | `is_retryable`, `is_auth_failure`, `raise_for_status` | read by the clients |
| Chain resolution (`routing/chain.py`) | none | `resolve_chain`, `resolve_model` | reads the configuration |
| Registry (`providers/registry.py`) | global factory table, loaded flag, no lock | `register_provider`, `get_provider`, `ensure_builtins_loaded` | called by the chain clients on first use of a provider |
| Smart client (`smart_client.py`) | last diagnostics; shared limiter, lockouts, last known good, metrics | `complete`, `explain_last_route` | pool, ranking, resilience, limiter, adapters, hooks |
| Resilience (`resilience/`) | lock deadlines per (provider, model) | `classify_error`, `lock`, `is_locked`, `remaining_seconds` | smart client, prefilter |
| Ranking (`routing/pool.py`, `prefilter.py`, `scoring.py`, `rank.py`) | none | pool, filter, score, sort, promote | reads lockouts, metrics, quota and cooldown readers |
| Last known good, metrics (`routing/lkgp.py`, `metrics.py`) | remembered pair per key with its time; windows of attempts | `remember`, `forget`, `get`, `promote`; `record`, `error_rate`, `p95_latency_ms` | smart client, ranking |
| Catalog, credentials, adapter factory | none after loading | `load_catalog`, `has_key`, `adapter_for` | pool, smart client |
| Configuration (`config.py`) | none after loading | `config_from_dict`, `load_config` | read by the chain clients, `resolve_chain` |
| Serialization (`serialization.py`) | none | `normalize_messages`, `extract_json_text` | called by both clients |
| HTTP adapters (`providers/`) | none | `complete`, `acomplete`: payload, post, status, parse | called by the clients, call httpx |
| Value types, protocols | none | none | all |

What is hard in it:

- **Concurrency.** One client is shared by threads; async clients interleave at their
  `await`. Calls meet in the limiter and the cooldown tracker (both locked), in the
  registry (not locked) and, for the smart client, in four stores that are each locked
  but read and written in sequences that are not atomic.
- **Failure.** An adapter may raise anything. Each exception must release the slot
  once, record one attempt, be classified, stop or continue the chain, and call one
  outcome hook. A task may be cancelled at its `await`; `KeyboardInterrupt` may arrive
  anywhere in the main thread, inside a `finally` clause too, and only while the
  arguments of a chain call are prepared is it told to a hook.
- **Double returns.** The handlers return the slot and the `finally` clause returns it
  again whenever a handler raises, so the limiter must be idempotent. It recognizes a
  reservation by `id()`, which CPython reuses.
- **Order.** The slot is returned before the attempt is recorded because the
  `on_attempt` hook runs there; the cooldown is set only after both.
- **Time.** Cooldowns and lockouts are deadlines that overlapping calls overwrite.

What makes each part correct: the limiter's counters are exact and never exceed the
limits, and so no provider is waited for by more calls than it may be; a call holds a slot
only around its adapter call; attempts follow the chain and
stop where the retryability table (`docs/design.md`, section 6) says; one outcome hook
runs; errors tell what happened; calls end and slots come back. For the smart client
also: the ranking is the eligible targets in score order, a lock or a remembered target
has the cause it should, a remembered target is never lost to another thread's failure,
a terminal lock stays (the last two do not hold, see section 3). For the registry:
whatever other threads do, nobody is denied a provider that is there, nothing settled is
overwritten, the cache holds only adapters of the right provider and key, and the one
error the race can cause goes away when the call is made again. For what surrounds an
attempt: every provider is told the whole conversation, an exception raised over its
response fits the status, and the JSON returned is the answer and not the thoughts.

## 2. Modules

```
SlotPool        abstract: a pool of slots, counted as a set of owners
   ^ implements
Limiter         limits.py, InMemoryLimiter          LimiterProofs
   ^ used by both clients
Failover        abstract: a call goes through a plan, an attempt at a time
   ^ implement
ChainClient     client.py, async_client.py          ChainClientProofs
   |-- ErrorPolicy    errors.py, chain.py predicates, Retry-After
   `-- Routing        chain.py, resolve_chain
SmartClient     smart_client.py                     SmartClientProofs
   |-- Limiter          as above
   |-- ErrorClassifier  error_classifier.py, over ErrorPolicy
   `-- RoutingStores    model_lockout.py, lkgp.py, metrics.py
          |                                         RoutingStoresProofs
          `-- Ranking   pool.py, prefilter.py, scoring.py, rank.py, promote
                                                    RankingProofs
ProviderCatalog       provider_catalog.py, credentials.py: what Ranking starts from
Registry        registry.py, _adapter_for           RegistryProofs
   `-- Configuration  config.py, over Routing
Translation     one attempt, arguments to result: client.py around providers/
   |-- ErrorPolicy    as above                      TranslationProofs
   `-- Serialization  serialization.py
Subsequences    what loops and patterns keep of a sequence, for Routing,
                Serialization and Translation       SubsequenceProofs
Documents       what json.load gives Configuration and ProviderCatalog
MCLimiter, MCChainClient, MCRoutingStores, MCSmartClient, MCRegistry, MCTranslation:
constants for TLC
```

**Limiter.** `inflight`, `globalInflight` and `held` are the fields of
`InMemoryLimiter`; each operation runs under its lock and is one action. `live` is the
heap: which addresses hold a `MemoryReservation` someone still references. `Collect`
is the death of that object, after which `TryReserve` may allocate at the same address.
If it dies before it was returned, its address stays in `held` and its slot is leaked;
`lost` and `lostAll` are history variables that count the leaks. Callers are arbitrary:
any reservation may be dropped, or returned any number of times. `RateLimitedOn` and
`BudgetExceededOn` are the two refusals in the order the code tests them.

**SlotPool** says what that is worth to a caller, without counters or addresses: an
owner per holder, and what is taken is the number of owners. `ImplementsSlotPool` maps
`owner[a]` to the provider of the reservation at `a` while `a` is in `held`.

**ErrorPolicy** holds exceptions as records of class, status and parsed Retry-After
(a set of at most one number, so that absent and unparsable headers are the empty set),
with `is_retryable`, `is_auth_failure` and `_retry_after_seconds` as operators. `Raisable`
is what an adapter may raise, an injected or registered one too: any of the classes but
the interruption, a library error of any class and status among them. Only a
`ProviderError` has a status and a body; an exception of another library that carries a
`status_code` of its own would only write it into the attempt.

**Subsequences** says what is kept of a sequence by counting places (`NthPlace`, `Kept`,
`Only`) instead of recurring through it, so that the filters of `resolve_chain`, the
thoughts of a text and the instructions of a conversation can be reasoned about.

**Routing** is `resolve_chain` over a configuration record.

**Failover** says what either client is worth to a caller (`docs/design.md`, section 5):
a call has a plan, goes through it in order, each attempt ends it or lets it go on, and it
ends as its last attempt says. Slots, cooldowns, locks, hooks and other calls do not
appear in it. Both clients map `plan` to the chain or ranking, `trail` to the attempts with
the verdict that the retryability table gives each, and `outcome` to what the caller gets;
`FailsOver` is that refinement. `ChainClient` may leave out places of its plan (a cooling
provider); `SmartClient` may not. `ChainClient`'s callers are made once, the smart ones
call again. An outcome "budget" after an attempt that may be followed by another is in
both; the limits of `chain_concurrent` reach it only in `smart_paths`.

**ChainClient** has one activation of `complete` or `acomplete` per member of `Calls`.
The program counter stops where another call may act:

| pc | code | next |
| :-- | :-- | :-- |
| `idle` | `_prepare_call` | `Prepare`: refuse, or resolve the chain; `InterruptPrepare` |
| `choose` | loop head, `is_cooling` | `SkipCooling`, `NotCooling`, `Exhausted` |
| `reserve` | `try_reserve` | `Reserve`, `Denied`, `OutOfBudget` |
| `denied` | attempt "budget" and its hook | `RecordDenied` |
| `build` | between `try_reserve` and `try` | `Build` |
| `call` | the adapter | `AdapterReplies`, `Cancel` |
| `release` | `finalize` or `release` | `ReturnSlot` |
| `record` | `_append_attempt` and its hook, classification | `RecordSuccess`, `RecordStop`, `RecordCooling`, `RecordContinue` |
| `cool` | `set_cooldown` | `SetCooldown` |
| `notify` | `on_failure` | `NotifyFailure` |
| `report` | `on_success`, return | `Return` |
| `unwind` | the `finally` clause | `Unwind` |

`InterruptPrepare` and `Interrupt` are an asynchronous exception at any of these points
(only in calls of `Interruptible`: CPython raises `KeyboardInterrupt` in the main thread).
The first is the one that `complete` catches: it goes to `on_failure` and is raised again.
The second passes every handler; under the `try` statement it goes through the `finally`
clause, elsewhere, and inside that clause, it leaves at once, with whatever the call
holds. A hook that was due may have run before it came. It does not arrive inside the
limiter's methods, which are one action each. `Cancel` is a task cancelled at its `await`.
`told` is history: which outcome hook ran, and of what class of exception; `error` says
whether an adapter raised what the call ends with, since an adapter may raise the
library's own classes. `DropTraceback` is the caller letting go of the
exception whose traceback keeps the reservation alive. Between two of these points a
call touches only its own variables, so finer interleavings add nothing. Tasks of one
event loop interleave only at their `await`; the model lets them interleave everywhere,
which contains that and also clients in several loops or threads that share a limiter.
Cooldowns are seconds left, which `Tick` lowers; the code compares a deadline with
`time.monotonic()`, and only the difference matters to it. The first reservation of a
call is dead to the model as soon as the loop goes on (in CPython, when the variable is
assigned again), which allows more reuse of addresses than the interpreter does.

**ErrorClassifier** is `classify_error`: whether the smart client goes on after an
exception, whether it locks the model, and for how long. Exceptions are the records of
`ErrorPolicy`, whose `body` field says which of the markers the body holds. Lock lengths
that come with no lock (`cooldown_s` of a timeout or a 5xx) are never used by the code
and left out.

**Ranking** goes from a catalog to an order of targets: `BuildPool`, `Passes`,
`Factors`, `Scores`, `Sorted`, `Promote`. Fractions are integers in units of
`1/Scale`; the error rate and the inverse latency are rounded down to them, where the
code has floats. A score is the weighted sum over the factors that differ between the
targets; the code divides it by the sum of those weights, which is the same for all
targets of one ranking and so changes neither the order nor the relative band. Two
targets whose scores the code computes with different rounding errors may be ordered by
them there and by name here. `Sorted` puts each target behind as many as are ahead of it
(`Ahead`), and the percentile of the latencies is found by counting too: what the code's
sorts return, without sorting.

**RoutingStores** holds the three stores, each with a lock of its own, so that each
operation is one action:

| Variable | code | abstraction |
| :-- | :-- | :-- |
| `lock` | `ModelLockoutTracker._until` | open, timed or terminal (`math.inf`); a timed lock runs out at any later moment |
| `known` | `LkgpStore._items` | the remembered target per key; `Forget` is `forget` and also a `get` after `ttl_s` |
| `window` | `RollingHealthMetrics._windows` | the last `Window` attempts: success and latency |

**SmartClient** is `complete`, one activation per member of `Calls`, over the limiter and
the stores; a call of `Repeated` is made again after it ended. As in `ChainClient`, the
program counter stops before each use of shared state:

| pc | code | next |
| :-- | :-- | :-- |
| `idle` | arguments, pool | `Refuse`, `Prepare` |
| `filter`, `score`, `promote` | the three reads of `rank_candidates` | `Filter`, `Score`, `PromoteKnown` |
| `reserve` | `try_reserve`, or the end of the loop | `Reserve`, `Denied`, `OutOfBudget`, `Exhausted` |
| `denied` | attempt "budget" into the metrics | `RecordDenied` |
| `build`, `call` | the request; the adapter | `Build`, `AdapterReplies` |
| `release` | `finalize` or `release` | `ReturnSlot` |
| `record` | `_record` | `RecordSuccess`, `RecordFailure` |
| `remember`, `report` | `remember`; `on_success`, return | `Remember`, `Return` |
| `lock` | `lock` | `LockModel` |
| `recall`, `forget` | `get`; `forget` | `Recall`, `Forget`, and from them the next target or the end |
| `notify`, `unwind` | `on_failure`; the `finally` clause | `NotifyFailure`, `Unwind` |

`Interrupt` is as in `ChainClient`, at every one of these points, the `finally` clause
included; no handler of `SmartClient.complete` catches it, so no hook is told of it.
The prefilter and the factors are each read at one moment where the code reads target
by target; what differs is only which of the legal rankings a call gets, and no property
of `SmartClient` says more of a ranking than that its targets are distinct. The injected
quota and cooldown readers answer what the request record says.

**Registry** has one thread per member of `Threads`. The factory table and the flag of
the built-ins are globals without a lock, so a thread stops before each use of them, of
the environment and of its client's cache:

| pc | code | next |
| :-- | :-- | :-- |
| `idle` | an application's call | `BeginRegister`, `BeginResolve` |
| `cache`, `store` | `_resolved` of `_adapter_for`, read and written | `CacheHit`, `CacheMiss`; `Store` |
| `flag` | `_builtins_loaded` | `AlreadyLoaded`, `StartLoading` |
| `load` | the next built-in of `ensure_builtins_loaded` | `SkipBuiltin`, `LoadBuiltin`, `SetLoaded` |
| `register`, `write` | the check and the write of `register_provider` | `Refuse`, `Permit`; `Write` |
| `lookup` | `_factories.get` | `Lookup`, `UnknownName` |
| `make` | the factory, `resolve_api_key` | `Make`, `MissingKey` |
| `resolved`, `failed` | back at the caller | `Finish`, `Retry` |

`before[t]` is history: the names registered when `t` began. `config` is what
**Configuration** makes of one of the documents, or `None` where it refuses it. A factory
of an application is taken to resolve its key as the built-in ones do. Keys may be
exported while threads run, not removed.

**Configuration** and **ProviderCatalog** say which documents are accepted and what is
made of them. A document (**Documents**) is a tree of tagged values, so that null and
absent, `True` and 1, an integer and a fraction stay apart where the code tells them apart
and only there. Refusals leave no trace, so their order does not matter.

**Translation** is one attempt, from the caller's arguments to the text, the object or the
exception, by each of the three adapters:

| phase | code | next |
| :-- | :-- | :-- |
| `arguments` | `_prepare_call` | `Refuse`, `Prepare` |
| `prepared` | `_build_request`, `_payload` | `Post` |
| `posted` | httpx | `Unanswered`, `Respond` |
| `replied` | `raise_for_status`, `_parse` | `RaiseForStatus`, `RaiseForGarbage`, `Parse` |
| `answered` | `_handle_success` | `TakeText`, `TakeObject`, `RejectText` |

Contents of messages are opaque; a body is the turns with their role and the contents
joined in each. A reply is its status, its Retry-After, the marker its body holds and
whether `truncate_body` cuts it off, the shape of the body and the text in it.
`ConversationKept` asks for a place in the body for each message: a part of the system field
or of a turn, where its content stands and the role says whether the assistant spoke it.

**Serialization** has texts as sequences of pieces: thinking tags, fences, objects, broken
objects, arrays, prose, and the two halves of an object that is cut inside a string. What
stands between those halves is the string: words, fences and tags (`Whole`). `ExtractJsonText`
follows the two regular expressions, which cut thoughts wherever their tags stand, the
whole text, the fence and the first brace; white space and the printing of the object are
left out.

## 3. Runs

| Run | Question | Result |
| :-- | :-- | :-- |
| `limiter` | Are the counters exact under double returns, leaks and address reuse, within the limits, and is it a pool of slots? | holds |
| `chain_concurrent` | Over every kind of request and failure, interrupted anywhere and beside another call that may be cancelled, is each call a failover along its chain, do outcome and errors tell what its attempts were, and do slots, hooks, cooldowns and limits stay straight? | holds |
| `chain_budget` | Under a tight global budget, do calls end and slots come back? | holds |
| `chain_budget_error` | Does every error carry the attempts made (`errors.py:9`)? | no, `BudgetExceeded` does not |
| `chain_rejected` | Does a text without JSON raise (smart-routing M4 plan, line 152, and design, line 341)? | no, the chain goes on |
| `stores` | Whatever the stores hold, is the ranking the eligible targets, in the order of the whole score, with at most one promoted within the band? | holds |
| `smart_paths` | Over every kind of request and failure, and rankings learned from earlier calls, is each call a failover along its whole ranking, does its outcome tell what its attempts were, and does it end? | holds |
| `smart_concurrent` | Do two interleaved calls, one interrupted, keep slots, locks and remembered targets straight? | holds |
| `registry` | With two threads anywhere between each other's steps, is what each is told true, does nothing settled get overwritten, and does who asks again get the adapter? | holds |
| `translation` | Does each adapter tell the whole conversation, do errors fit the status, and is the JSON taken the answer's? | holds |
| `smart_forget` | Does a failed call forget only its own target (M4 plan, line 135)? | no, also what another call remembered since it looked |
| `smart_terminal` | Does the lock of a model that does not exist stay (smart-routing design, line 335)? | no, a late lock of 60 seconds replaces it |

Two more places where the code and a text of the repository part, which no run is spent
on. `AllProvidersFailed` is also raised when every provider was refused by the limiter and
none contacted (`client.py:432`, against "At least one provider was attempted",
`errors.py:57`); a refusal is recorded as an attempt, and the tests count it as one. And an
answer that is one JSON object is rejected when a `<think>` stands in one of its strings,
because the cut comes first (`serialization.py:50`, against "Tries a full `json.loads`",
`serialization.py:45`); `Serialization` has that, and `translation` meets such texts.
`FailsOver` and `OutcomeFitsAttempts` of the chain clients take the refusals and the texts
without JSON as the code has them; `chain_rejected` is what the plan says of the latter.

Bounds. `limiter`: three providers with limits 1 (unlisted), 3 and 0, a budget of 3 and
four addresses, so that the provider limit and the budget are each the one that binds,
a leaked slot takes part of both, and a leaked address is reused. `chain_concurrent`: the
call of the main thread makes one of eight requests, meets ten exceptions (each row of the
retryability table, a Retry-After of 0 and one of 2, library errors that an adapter
raises), a provider with no slot, a provider named twice, an unknown and a disabled one.
The other call is a task's and asks for fresh content (`InitBesideFresh`), so that the two
meet at `q`, whose one slot either may hold, and at its cooldown; who meets there, and in
which order, is what the slots depend on, not what the task asked. Two addresses are as
many as two calls occupy, and are reused. A budget of two is reached by a leaked slot and
a held one. `chain_budget`: a budget of one makes `BudgetExceeded` reachable before and
after an attempt, and two calls with two requests each contend for it.

`stores`: three targets at two providers, two of them with a second catalog entry (one
whose first entry has no key, one whose second entry costs); five requests with and
without a tier, free only, fresh only, with quotas on both sides of the cutoff; windows
of one attempt, good or bad, fast or slow. A window of one already shows an attempt
dropped and makes every factor differ or agree; longer windows only make finer rates.
`smart_paths`: one caller who calls again and again with one of five requests, twelve
exceptions (each branch of `classify_error`, a Retry-After of 0, and library errors that an
adapter raises), two targets each within the band of the other until a failure is in the
metrics, one slot per provider and in all, so that a slot leaked by an interruption
shows as a refusal or as `BudgetExceeded` to later calls. `smart_concurrent`: two calls
with JSON requests, four exceptions that lock for a time, lock for ever, go on and stop.
They are made once each, since the attempts they keep are the history that
`LocksHaveCause` and `RememberedSucceeded` look at; windows are empty (`Window` 0).
`smart_forget` lets one of the two call again. `MinQuota` 3 of `Scale` 60 is the code's
0.05. The catalog of `stores` is the one that `load_catalog` makes of the document beside
it, which an assumption of `MCRoutingStores` checks, with seven documents it refuses.

`registry`: two threads that share one client, three built-ins of which two are
configured, a provider of the application, four registrations (a new name, a built-in with
and without `replace`, a malformed name), a key that may be exported at any moment, two
accepted configurations and nine refused ones. A race in the table needs two threads; a
third would only repeat the part of either. `translation`: every adapter, conversations of
up to three messages with instructions anywhere among them, every status the code or its
table names, every shape of body, and texts of up to four pieces: enough for a thought
before or after an object, a tag inside one, and a fence around one or around the halves
of one; the texts follow from the responses, so that a longer one adds no step.

Addresses are symmetric; symmetry is not used where liveness is checked. `CHECK_DEADLOCK` is off because calls
end and nothing restarts them, a client whose configuration is refused never calls, and a
response that was translated is not translated again.

Fairness in `registry`: weak fairness of each thread's `Step`, because the operating
system runs every thread; beginning, finishing, calling again and exporting a key are not
fair, and `AskersGetIt` says nothing of threads that do not ask again and again.

Fairness (`chain_budget`, `smart_paths`): weak fairness of each call's own steps,
because the operating system and the event loop run every thread and task, and because
an adapter hands `timeout_s` to its HTTP client. A call made with `timeout_s=None` may
wait for ever and is not covered. Making a call, interrupting it, cancelling it, dropping
a traceback and the clock are not fair.

Each property of a passing run has a mutant in `PROJECT.json`: a variant of one
definition (a dropped guard, a skipped release, a forgotten case), kept beside it in the
module, under which TLC finds the property violated.

## 4. Proofs

The theorems hold for every value of the constants that satisfies the named assumptions.
Those are what the source guarantees of its own data; TLC evaluates each of them on the
runs. Every safety property of a passing run is proved, the refinements among them, three
of the smart client's under a hypothesis on its callers that is given below.

`LimiterProofs`, for every set of providers and addresses, every table of limits and
every budget (`NamesAssumption`, `LimitsAssumption`, `BudgetAssumption`):

- `TypeCorrect`, `AccountingExact`, `LimitsHold`: the invariants of the `limiter` run.
  The inductive invariant `IInv` adds to them that `held` is finite, without which
  cardinalities mean nothing; `Accounting` is what makes `TypeOK` inductive, since it
  shows that `_drop` never meets a counter at zero. Each action has a lemma on the
  sets `Out` and `OutAll` (`GrantSets`, `DropSets`, `CollectSets`) and one on the
  invariant.
- `Implements`: the limiter refines `SlotPool`, from `IInv` and `TakenIsOut` (what the
  pool counts is what the counters say).

`SubsequenceProofs` has the lemmas on what a filter returns: a sequence of the wanted
elements, all of them, in their order (`KeptInOrder`, `KeptNumbered`, `OnlyElements`). They
rest on `PlacesInOrder`: counting the places below each one numbers them without a gap.

`ChainClientProofs`, for every set of calls, configuration, requests and exceptions. It
assumes that configured and requested chains are sequences (`NamesAssumption`), that each
exception is one an adapter can raise (`ExceptionsAssumption`, `Raisable` in `ErrorPolicy`),
that limits and the budget are integers (`NumbersAssumption`), and that asynchronous exceptions reach finitely many threads (`ThreadsAssumption`). That a resolved
chain is a sequence of configured providers is a lemma, `ChainIsResolved`.

- `HooksUnreserved`: no hook runs while its call holds a slot. Its inductive
  invariant `IInv` relates program counters to reservations: a reservation is alive and
  belongs to one call (`Own`), a call has one exactly between `reserve` and the end of the
  `try` statement, and after `release` it is not in `held` (`Stage`).
- `OnlyInterruptionsLeak`: each lost slot has an interrupted call whose reservation object
  is gone (`Leakers`), and no other step of a call loses one.
- `CountersMatchCalls`: the counters are the holders plus the losses. That the holders are
  finitely many is part of the invariant, since every call takes its slot in a step of its
  own; no bound on the number of calls is assumed.
- `CapacityHolds`: no more calls wait for a provider than its limit allows, nor for all of
  them than the budget. The calls that wait are holders, the counters are the holders and
  the losses, and the counters stay within the limits unless they are zero (`InBounds`: a
  limit may be negative).
- `OutcomeToldOnce`: `on_success` once for a call that returns, `on_failure` once, and of its
  exception, for one that raises; none or one, and that true, for one that is interrupted
  or cancelled. The strengthening (`ToldSoFar`) says what the finally clause may have been
  told: a call is there either after `on_failure` or because it was interrupted. It rests
  on `OutcomeInv` below for what is true of the attempts.
- `TypeCorrect`: the types, a place that stays within the chain or just behind it, attempts
  that name their place, and no reservation object with two calls.
- `OutcomesFit`: the result or error of a call and the attempts attached to it are what its
  attempts were. `OutcomeInv` says for each program counter what the attempts so far came
  to: a call on its way has passed every one of them at an earlier place (`Underway`), one
  that ends was answered by its last (`Succeeded`) or has an error that follows from them
  (`ErrorFits`). Without the places, a provider named twice would break the induction.
- `CooldownsPrecedeMoves`: no call leaves a rate-limited provider before its cooldown is set.
- `ImplementsFailover`: the refinement of `Failover`. One lemma per action shows which step
  of the plan it is; the others stutter.

`RankingProofs`, for every catalog that `load_catalog` accepts (`CatalogAssumption`,
`ScaleAssumption`, and `LexicalAssumption`, that names are ordered): factors and scores are
numbers, also after percentile and error rate (`PercentileIsNumber`, from `SlowestExists`);
counting who is ahead gives every target a place of its own, so that `Sorted` is a
permutation and a sort (`PlacesTaken`, `SortedIsOrder`); promotion moves one target
(`PromotionMovesOne`); and the constant factors shift all scores alike
(`ConstantsShiftAlike`).

`RoutingStoresProofs` adds the stores (`WindowAssumption`: 0 is a window too;
`RequestsAssumption`: quota readers answer numbers or None). Its invariant is `TypeOK` with
a window for each target; the stores hold anything it allows when a ranking is made.

- `TypeCorrect`: the types, one remembered target at most, windows within their size.
- `RanksAllEligible`, `PromotesWithinBand`, `DroppingIsHarmless`: the ranking is the
  eligible targets, each once; in score order but for one promoted from within the band;
  and no factor that tells two targets apart is dropped.

`SmartClientProofs`, for every catalog, set of calls, limits and answers. The invariant
`IInv` has the types, the stores (`StoresShape`), the reservations (`Own`, `Stage`, as in
`ChainClientProofs`, here also for callers that call again) and the rankings (`OnRanking`:
no target twice, a place within it); a step of one call is one of a few moves for the
limiter (`Act`), and leaves the others where they were. `OutcomeInv` goes on from it as in
`ChainClientProofs`: `TrailFits`, where each target before the one a call is at has its
attempt, and `ToldSoFar`.

- `TypeCorrect`, `CountersMatchCalls`, `EndedHoldsNone`, `FailuresForget`, `OutcomesFit`,
  `ImplementsFailover`: without further hypothesis.
- `OnlyInterruptionsLeak`, if no caller that may be interrupted calls again. Such a caller
  may lose a slot each time, and the property counts callers; `EndedHoldsNone` and
  `CountersMatchCalls` hold of it all the same.
- `LocksFollowAttempts`, `RememberedAnswered`, if no caller calls again: both look for the
  cause of what is stored among the attempts, which a new call of the same caller
  overwrites. Any number of further calls is still covered, as further members of `Calls`.

`RegistryProofs`, for every set of threads, clients, documents, requests and registrations
(`ClientsAssumption`, `RegistrationsAssumption`, `NoneAssumption`, and `NamesAssumption`:
`Names` has the configured names, and lists of names are sequences):

- `TypeCorrect`, `FlagHonest`: types, and a flag that is set only over a complete table.
- `UnknownIsAbsent`, `RefusalsComeFromRivals`, `CachedAdaptersFit`,
  `SettledFactoriesStay`: the safety properties of the `registry` run.
- `RoutesKeepTheirNames`: a route of an accepted document leaves a provider out only where
  it is disabled, stale or outside `provider_order`.

There is no lock to hold on to: what carries the argument is that the table only grows, so
that what a thread saw of it stays true whatever others do (`OthersKeep`). The inductive
invariant says for each thread what it has seen (`Seen`), what it is registering
(`Underway`), what it has in hand (`InHand`) and what it was told (`Told`), and has one
lemma per action; the steps that leave shared state alone go through `QuietStep`.

`TranslationProofs`, for conversations and texts of any length (`PiecesAssumption`: objects,
arrays, halves of objects and tags are different things, and an array gives an object; `ArgumentsAssumption`, `RepliesAssumption`: messages
and texts are sequences, a status is a number; `NoneAssumption`). The invariant says which
values the variables hold in each phase (`Phases`) and where an exception or a result came
from (`Verdict`).

- `TypeCorrect`, and `ErrorsFollowStatus`: an exception raised over a response of status 400
  or above tells the chain what the status and the Retry-After say, whatever the body
  holds; below 400 a body that cannot be read stops it. A text that is read but holds no
  JSON raises nothing: the chain goes on.
- `WholeConversationTold`: for each adapter a place for every message is given, and shown to
  be heard there, alone, and in order: the same place in `OpenaiTells`; one less behind the
  system field in `AnthropicTells`; and in `GeminiTells` the numbers that the filter gives
  to instructions and other messages, behind a turn of the instructions (`TurnAdded`) or in
  a turn with them (`TurnShared`).
- `ThoughtsAreNoAnswer`, `LoneObjectAccepted`: the depth of a place, how many more sections
  opened than closed before it, is 0 or 1 in a well-tagged text; the two regular
  expressions take away just the places at depth 1 and the tags (`UncutIsOpen`,
  `OpenIsUncut`), so that what decoding sees is what was open, in its order
  (`OpenIsLeft`). Tags count wherever they stand: a text with an opening tag in a string of
  its object is one whose last thought does not end, and neither theorem says that its
  object is found; the code rejects it, against "Tries a full `json.loads`"
  (`serialization.py:45`).

Only model-checked: liveness (`CallsEnd`, `SlotsComeBack`, `AskersGetIt`), which is out of
the prover's reach; the two parsers of documents (`Configuration`, `ProviderCatalog`), whose
results the proofs take from the assumptions above and the runs check on documents; and
`classify_error` beyond what `SmartClientProofs` uses of it.

## 5. Plan

In order of importance:

1. *Done:* limiter, error policy, chain resolution, chain clients; ranking, stores,
   classifier and smart client; registry, configuration, catalog, serialization and the
   adapters' translation; `Failover`, which both clients implement.
2. *Done:* theorems for every safety property of the passing runs and for both
   refinements of `Failover`. Left: a bound on lost slots that counts
   the interruptions of each caller, so that it holds of callers that call again; lemmas on `ConfigFromDict` and
   `Entries` that turn `NamesAssumption` and `CatalogAssumption` into theorems; a theorem
   on `classify_error` and `IsRetryable` (where the two clients' verdicts agree).
3. The key of a second catalog entry for one target, which `_api_key` takes from the first
   (`smart_client.py:260`), as part of a request; two registrations that overlap, of which
   the second overwrites the first (`registry.py:64`, against `docs/design.md:227`).

## 6. Not modelled

Value types, protocols and exports have no behaviour. Reading a file, the wording of
errors, URLs, headers that are sent, usage figures, raw bodies, the choice of a model's
name (`resolve_model`, `models`) and of an adapter object (`adapter_for`) decide nothing
that a property is about. Fractions are integers, so that a NaN in a catalog, which
`provider_catalog.py:129` lets pass, has no counterpart. `PROJECT.json` lists every
component with its status.
