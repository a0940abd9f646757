----------------------------- MODULE ChainClient -----------------------------
(***************************************************************************)
(* Client.complete and AsyncClient.acomplete: calls that run concurrently  *)
(* over one limiter and one cooldown tracker, each walking its provider    *)
(* chain until a provider answers, an error stops it or the chain ends.    *)
(*                                                                         *)
(* A call is one activation.  Its program counter stops wherever another   *)
(* call may act in between: before each use of the limiter and of the      *)
(* cooldowns, while the adapter is waited for, and before each call of the *)
(* user's hooks, which run arbitrary code.                                 *)
(*                                                                         *)
(*   idle -> choose -> reserve -> build -> call -> release -> record       *)
(*                                                                         *)
(* and from record to cool, choose, notify or report.  The finally clause  *)
(* is `unwind`.  Cooldowns are kept as the seconds that remain.            *)
(***************************************************************************)
EXTENDS Integers, Sequences, FiniteSets, ErrorPolicy, Routing

CONSTANTS
  Calls,           \* the calls that may be made
  Interruptible,   \* calls in a thread that asynchronous exceptions reach:
                   \* KeyboardInterrupt is raised in the main thread, anywhere
  Cancellable,     \* calls of acomplete, which a task may cancel at its await
  Config,          \* the LibraryConfig (see Routing)
  Requests,        \* the arguments calls are made with
  Exceptions,      \* what an adapter may raise (see ErrorPolicy)
  Addrs, NoObj,    \* addresses of reservation objects (see Limiter)
  NoBudget

Providers == DOMAIN Config.providers

ASSUME CallsAssumption == Interruptible \subseteq Calls /\ Cancellable \subseteq Calls
ASSUME ThreadsAssumption == IsFiniteSet(Interruptible)
ASSUME ExceptionsAssumption == \A e \in Exceptions : Raisable(e)
ASSUME ObjectsAssumption == NoObj \notin Addrs /\ NoObj \notin Providers
ASSUME NamesAssumption == \A names \in NameLists(Config, Requests) : names \in Seq(ToSet(names))

DefaultMaxInflight == 32

\* _default_limiter: the configured rate_limits, or 32.
DefaultLimits ==
  [p \in Providers |->
     IF Config.providers[p].rate_limits = {}
     THEN DefaultMaxInflight
     ELSE CHOOSE n \in Config.providers[p].rate_limits : TRUE]

ASSUME NumbersAssumption ==
  /\ \A p \in Providers : Config.providers[p].rate_limits \subseteq Int
  /\ Config.global_budget \in Int \cup {NoBudget}

VARIABLES
  inflight, globalInflight, held, live, lost, lostAll,    \* of the limiter
  cool,            \* _until, as seconds left; 0 when not cooling
  pc,              \* pc[c]: where call c is
  request,         \* request[c]: its arguments
  chain,           \* chain[c]: prepared.chain
  pos,             \* pos[c]: the place in the chain
  rsv,             \* rsv[c]: address of its reservation object, or NoObj
  reply,           \* reply[c]: what the adapter answered
  attempts,        \* attempts[c]: the attempt records, with their place
  error,           \* error[c]: the exception raised, whether an adapter raised
                   \* it, and the attempts it carries
  told             \* told[c]: history: the outcome hooks that ran, and of what

limiterVars == <<inflight, globalInflight, held, live, lost, lostAll>>
callVars == <<pc, request, chain, pos, rsv, reply, attempts, error, told>>
vars == <<limiterVars, cool, callVars>>

Limiter == INSTANCE Limiter WITH
  PerProvider <- DefaultLimits,
  GlobalBudget <- Config.global_budget

-----------------------------------------------------------------------------

NoReply == [kind |-> "none", exc |-> Raised("Interrupt")]
Answer(kind) == [kind |-> kind, exc |-> Raised("Interrupt")]
Failure(e) == [kind |-> "raised", exc |-> e]

\* An answer whose text holds a JSON object, one whose text does not, or an
\* exception.
Replies == {Answer("json"), Answer("prose")} \cup {Failure(e) : e \in Exceptions}

\* An exception of the call's own, and one that the call re-raises.
Error(class, carried) == [class |-> class, adapter |-> FALSE, attached |-> carried]
Rethrown(e, carried) == [class |-> e.class, adapter |-> TRUE, attached |-> carried]
NoError == Error("None", <<>>)

Told(hook, class) == [hook |-> hook, class |-> class]
TellSuccess(c) == told' = [told EXCEPT ![c] = Append(@, Told("on_success", "None"))]
TellFailure(c) == told' = [told EXCEPT ![c] = Append(@, Told("on_failure", error[c].class))]

Current(c) == chain[c][pos[c]]
AtEnd(c) == pos[c] > Len(chain[c])

Ended(c) == pc[c] \in {"returned", "raised", "interrupted"}
Holds(c) == rsv[c] # NoObj /\ rsv[c] \in held

Goto(c, label) == pc' = [pc EXCEPT ![c] = label]

Init ==
  /\ Limiter!Init
  /\ cool = [p \in Providers |-> 0]
  /\ pc = [c \in Calls |-> "idle"]
  /\ request \in [Calls -> Requests]
  /\ chain = [c \in Calls |-> <<>>]
  /\ pos = [c \in Calls |-> 1]
  /\ rsv = [c \in Calls |-> NoObj]
  /\ reply = [c \in Calls |-> NoReply]
  /\ attempts = [c \in Calls |-> <<>>]
  /\ error = [c \in Calls |-> NoError]
  /\ told = [c \in Calls |-> <<>>]

-----------------------------------------------------------------------------
(* _prepare_call *)

\* The arguments are checked, then the chain is resolved; whatever leaves here
\* is raised again after on_failure ran, with no attempts.
Refused(c, class) ==
  /\ error' = [error EXCEPT ![c] = Error(class, <<>>)]
  /\ Goto(c, "notify")
  /\ UNCHANGED chain

\* A keyword that is refused, or an item of messages that is no mapping.
InvalidArguments == {"ValidationError", "AttributeError"}

Prepare(c) ==
  LET r == request[c]
      resolved == ResolveChain(Config, r)
  IN  /\ pc[c] = "idle"
      /\ \/ /\ ~r.valid
            /\ \E class \in InvalidArguments : Refused(c, class)
         \/ r.valid /\ UnknownProvider(Config, r) /\ Refused(c, "ConfigError")
         \/ /\ r.valid /\ ~UnknownProvider(Config, r) /\ resolved = <<>>
            /\ Refused(c, "NoEligibleProviders")
         \/ /\ r.valid /\ ~UnknownProvider(Config, r) /\ resolved # <<>>
            /\ chain' = [chain EXCEPT ![c] = resolved]
            /\ Goto(c, "choose")
            /\ UNCHANGED error
      /\ UNCHANGED <<limiterVars, cool, request, pos, rsv, reply, attempts, told>>

\* Here, and nowhere else, a KeyboardInterrupt is told to on_failure.
InterruptPrepare(c) ==
  /\ c \in Interruptible
  /\ pc[c] = "idle"
  /\ Refused(c, "Interrupt")
  /\ UNCHANGED <<limiterVars, cool, request, pos, rsv, reply, attempts, told>>

-----------------------------------------------------------------------------
(* _try_reserve_attempt *)

SkipCooling(c) ==
  /\ pc[c] = "choose" /\ ~AtEnd(c)
  /\ cool[Current(c)] > 0
  /\ pos' = [pos EXCEPT ![c] = @ + 1]
  /\ UNCHANGED <<limiterVars, cool, pc, request, chain, rsv, reply, attempts, error, told>>

NotCooling(c) ==
  /\ pc[c] = "choose" /\ ~AtEnd(c)
  /\ cool[Current(c)] = 0
  /\ Goto(c, "reserve")
  /\ UNCHANGED <<limiterVars, cool, request, chain, pos, rsv, reply, attempts, error, told>>

\* Mutant of Reserve: the refusal of a provider at its limit is not seen.
Reserve_Unguarded(c) ==
  /\ pc[c] = "reserve"
  /\ \E a \in Addrs :
       /\ live[a] = NoObj
       /\ live' = [live EXCEPT ![a] = Current(c)]
       /\ held' = held \cup {a}
       /\ rsv' = [rsv EXCEPT ![c] = a]
  /\ inflight' = [inflight EXCEPT ![Current(c)] = @ + 1]
  /\ globalInflight' = globalInflight + 1
  /\ Goto(c, "build")
  /\ UNCHANGED <<lost, lostAll, cool, request, chain, pos, reply, attempts, error, told>>

Reserve(c) ==
  /\ pc[c] = "reserve"
  /\ \E a \in Addrs :
       /\ Limiter!TryReserve(Current(c), a)
       /\ rsv' = [rsv EXCEPT ![c] = a]
  /\ Goto(c, "build")
  /\ UNCHANGED <<cool, request, chain, pos, reply, attempts, error, told>>

\* try_reserve raised RateLimited: recorded, and on_attempt runs, later.
Denied(c) ==
  /\ pc[c] = "reserve"
  /\ Limiter!RateLimitedOn(Current(c))
  /\ Goto(c, "denied")
  /\ UNCHANGED <<limiterVars, cool, request, chain, pos, rsv, reply, attempts, error, told>>

Attempt(c, ok, type, status) ==
  [pos |-> pos[c], provider |-> Current(c), ok |-> ok,
   error_type |-> type, status_code |-> status]

\* Mutant of RecordDenied: the place is advanced by the handler and the loop.
RecordDenied_Twice(c) ==
  /\ pc[c] = "denied"
  /\ attempts' = [attempts EXCEPT ![c] = Append(@, Attempt(c, FALSE, "budget", 0))]
  /\ pos' = [pos EXCEPT ![c] = @ + 2]
  /\ Goto(c, "choose")
  /\ UNCHANGED <<limiterVars, cool, request, chain, rsv, reply, error, told>>

RecordDenied(c) ==
  /\ pc[c] = "denied"
  /\ attempts' = [attempts EXCEPT ![c] = Append(@, Attempt(c, FALSE, "budget", 0))]
  /\ pos' = [pos EXCEPT ![c] = @ + 1]
  /\ Goto(c, "choose")
  /\ UNCHANGED <<limiterVars, cool, request, chain, rsv, reply, error, told>>

\* try_reserve raised BudgetExceeded, which stops the call as it is: the
\* attempts made so far go to on_failure only.
OutOfBudget(c) ==
  /\ pc[c] = "reserve"
  /\ Limiter!BudgetExceededOn(Current(c))
  /\ error' = [error EXCEPT ![c] = Error("BudgetExceeded", <<>>)]
  /\ Goto(c, "notify")
  /\ UNCHANGED <<limiterVars, cool, request, chain, pos, rsv, reply, attempts, told>>

-----------------------------------------------------------------------------
(* The adapter *)

\* _build_request resolves the model outside the try statement.
Build(c) ==
  /\ pc[c] = "build"
  /\ Goto(c, "call")
  /\ UNCHANGED <<limiterVars, cool, request, chain, pos, rsv, reply, attempts, error, told>>

\* Mutant of AdapterReplies: the handlers leave the release to finally.
AdapterReplies_NoRelease(c) ==
  /\ pc[c] = "call"
  /\ \E r \in Replies : reply' = [reply EXCEPT ![c] = r]
  /\ Goto(c, "record")
  /\ UNCHANGED <<limiterVars, cool, request, chain, pos, rsv, attempts, error, told>>

AdapterReplies(c) ==
  /\ pc[c] = "call"
  /\ \E r \in Replies : reply' = [reply EXCEPT ![c] = r]
  /\ Goto(c, "release")
  /\ UNCHANGED <<limiterVars, cool, request, chain, pos, rsv, attempts, error, told>>

Raises(c) == reply[c].kind = "raised"
Accepted(c) == reply[c].kind = "json" \/ (reply[c].kind = "prose" /\ ~request[c].json)

\* finalize on success, release on an exception and on a text without JSON:
\* the slot is returned before the attempt is recorded and any hook runs.
ReturnSlot(c) ==
  /\ pc[c] = "release"
  /\ Limiter!Drop(rsv[c])
  /\ Goto(c, "record")
  /\ UNCHANGED <<cool, request, chain, pos, rsv, reply, attempts, error, told>>

-----------------------------------------------------------------------------
(* _handle_success and _handle_adapter_exception, after the slot is back *)

AttemptOf(c) ==
  IF Raises(c)
  THEN Attempt(c, FALSE, reply[c].exc.class, reply[c].exc.status)
  ELSE IF Accepted(c)
       THEN Attempt(c, TRUE, "None", 200)
       ELSE Attempt(c, FALSE, "ValidationError", 200)

\* Mutant of Stops: on_auth_failure is not looked at.
Stops_NotOnAuth(c) ==
  Raises(c) /\ ~IsAuthFailure(reply[c].exc) /\ ~IsRetryable(reply[c].exc)

\* Which exceptions are raised to the caller at once.
Stops(c) ==
  /\ Raises(c)
  /\ \/ reply[c].exc.class = "ValidationError"
     \/ /\ ~(IsAuthFailure(reply[c].exc) /\ request[c].on_auth_failure = "continue")
        /\ ~IsRetryable(reply[c].exc)

\* An exception that does not stop the call but is a RateLimited one; an
\* authentication failure that may continue is not asked for its header.
CoolsDown(c) ==
  /\ Raises(c)
  /\ ~(IsAuthFailure(reply[c].exc) /\ request[c].on_auth_failure = "continue")
  /\ IsInstance(reply[c].exc, "RateLimited")

\* _append_attempt with on_attempt; a library exception carries the attempts.
Recorded(c) ==
  /\ pc[c] = "record"
  /\ attempts' = [attempts EXCEPT ![c] = Append(@, AttemptOf(c))]

\* The loop goes on: the reservation object is dropped with its variable.
NextProvider(c) ==
  /\ pos' = [pos EXCEPT ![c] = @ + 1]
  /\ Limiter!Collect(rsv[c])
  /\ rsv' = [rsv EXCEPT ![c] = NoObj]
  /\ reply' = [reply EXCEPT ![c] = NoReply]
  /\ Goto(c, "choose")

RecordSuccess(c) ==
  /\ Accepted(c) /\ Recorded(c)
  /\ Goto(c, "report")
  /\ UNCHANGED <<limiterVars, cool, request, chain, pos, rsv, reply, error, told>>

\* Mutant of RecordStop: the attempts are attached before the last is appended.
RecordStop_Stale(c) ==
  /\ Stops(c) /\ Recorded(c)
  /\ error' = [error EXCEPT ![c] =
       Rethrown(reply[c].exc,
         IF IsInstance(reply[c].exc, "MultiproviderError") THEN attempts[c] ELSE <<>>)]
  /\ Goto(c, "notify")
  /\ UNCHANGED <<limiterVars, cool, request, chain, pos, rsv, reply, told>>

RecordStop(c) ==
  /\ Stops(c) /\ Recorded(c)
  /\ error' = [error EXCEPT ![c] =
       Rethrown(reply[c].exc,
         IF IsInstance(reply[c].exc, "MultiproviderError") THEN attempts'[c] ELSE <<>>)]
  /\ Goto(c, "notify")
  /\ UNCHANGED <<limiterVars, cool, request, chain, pos, rsv, reply, told>>

RecordCooling(c) ==
  /\ ~Stops(c) /\ CoolsDown(c) /\ Recorded(c)
  /\ Goto(c, "cool")
  /\ UNCHANGED <<limiterVars, cool, request, chain, pos, rsv, reply, error, told>>

RecordContinue(c) ==
  /\ ~Accepted(c) /\ ~Stops(c) /\ ~CoolsDown(c) /\ Recorded(c)
  /\ NextProvider(c)
  /\ UNCHANGED <<cool, request, chain, error, told>>

\* set_cooldown overwrites what was there.
SetCooldown(c) ==
  /\ pc[c] = "cool"
  /\ cool' = [cool EXCEPT ![Current(c)] = RetryAfterSeconds(reply[c].exc)]
  /\ NextProvider(c)
  /\ UNCHANGED <<request, chain, attempts, error, told>>

-----------------------------------------------------------------------------
(* How a call ends *)

\* Mutant of Exhausted: a call without attempts is forgotten.
Exhausted_OnlyFailed(c) ==
  /\ pc[c] = "choose" /\ AtEnd(c)
  /\ attempts[c] # <<>>
  /\ error' = [error EXCEPT ![c] = Error("AllProvidersFailed", attempts[c])]
  /\ Goto(c, "notify")
  /\ UNCHANGED <<limiterVars, cool, request, chain, pos, rsv, reply, attempts, told>>

Exhausted(c) ==
  /\ pc[c] = "choose" /\ AtEnd(c)
  /\ error' = [error EXCEPT ![c] =
       IF attempts[c] = <<>>
       THEN Error("NoEligibleProviders", <<>>)
       ELSE Error("AllProvidersFailed", attempts[c])]
  /\ Goto(c, "notify")
  /\ UNCHANGED <<limiterVars, cool, request, chain, pos, rsv, reply, attempts, told>>

\* on_failure runs, then the exception leaves complete, through the finally
\* clause when it was raised under the try.
NotifyFailure(c) ==
  /\ pc[c] = "notify"
  /\ TellFailure(c)
  /\ Goto(c, IF rsv[c] # NoObj THEN "unwind"
             ELSE IF error[c].class = "Interrupt" THEN "interrupted" ELSE "raised")
  /\ UNCHANGED <<limiterVars, cool, request, chain, pos, rsv, reply, attempts, error>>

\* on_success runs and the result is returned.
Return(c) ==
  /\ pc[c] = "report"
  /\ TellSuccess(c)
  /\ Limiter!Collect(rsv[c])
  /\ rsv' = [rsv EXCEPT ![c] = NoObj]
  /\ Goto(c, "returned")
  /\ UNCHANGED <<cool, request, chain, pos, reply, attempts, error>>

\* Mutants of Unwind: no finally clause, and an outer handler that notifies.
Unwind_NoRelease(c) ==
  /\ pc[c] = "unwind"
  /\ Goto(c, IF error[c].class = "Interrupt" THEN "interrupted" ELSE "raised")
  /\ UNCHANGED <<limiterVars, cool, request, chain, pos, rsv, reply, attempts, error, told>>

Unwind_Notifies(c) ==
  /\ pc[c] = "unwind"
  /\ Limiter!Drop(rsv[c])
  /\ TellFailure(c)
  /\ Goto(c, IF error[c].class = "Interrupt" THEN "interrupted" ELSE "raised")
  /\ UNCHANGED <<cool, request, chain, pos, rsv, reply, attempts, error>>

\* finally: not finalized, so release, for the second time if the handler ran.
Unwind(c) ==
  /\ pc[c] = "unwind"
  /\ Limiter!Drop(rsv[c])
  /\ Goto(c, IF error[c].class = "Interrupt" THEN "interrupted" ELSE "raised")
  /\ UNCHANGED <<cool, request, chain, pos, rsv, reply, attempts, error, told>>

\* Under the try, a BaseException goes through the finally clause; no handler
\* catches it, so nothing is recorded and no hook is called of it.
UnderTry(c) ==
  \/ pc[c] \in {"call", "release", "record", "cool"}
  \/ pc[c] = "notify" /\ rsv[c] # NoObj

\* KeyboardInterrupt after the preparation; a hook that was due may have run
\* by then, or be what is interrupted.
Interrupt(c) ==
  /\ c \in Interruptible
  /\ pc[c] # "idle" /\ ~Ended(c)
  /\ error' = [error EXCEPT ![c] = Error("Interrupt", <<>>)]
  /\ Goto(c, IF UnderTry(c) THEN "unwind" ELSE "interrupted")
  /\ \/ UNCHANGED told
     \/ pc[c] = "notify" /\ TellFailure(c)
     \/ pc[c] = "report" /\ TellSuccess(c)
  /\ UNCHANGED <<limiterVars, cool, request, chain, pos, rsv, reply, attempts>>

\* Mutant of Cancel: CancelledError leaves past the release.
Cancel_Escapes(c) ==
  /\ c \in Cancellable
  /\ pc[c] = "call"
  /\ error' = [error EXCEPT ![c] = Error("Interrupt", <<>>)]
  /\ Goto(c, "interrupted")
  /\ UNCHANGED <<limiterVars, cool, request, chain, pos, rsv, reply, attempts, told>>

Cancel(c) ==
  /\ c \in Cancellable
  /\ pc[c] = "call"
  /\ error' = [error EXCEPT ![c] = Error("Interrupt", <<>>)]
  /\ Goto(c, "unwind")
  /\ UNCHANGED <<limiterVars, cool, request, chain, pos, rsv, reply, attempts, told>>

\* The traceback of a raised exception keeps the frame, and with it the
\* reservation object, until the caller drops the exception.
DropTraceback(c) ==
  /\ Ended(c) /\ rsv[c] # NoObj
  /\ Limiter!Collect(rsv[c])
  /\ rsv' = [rsv EXCEPT ![c] = NoObj]
  /\ UNCHANGED <<cool, pc, request, chain, pos, reply, attempts, error, told>>

\* time.monotonic() advances by a second.
Tick ==
  /\ \E p \in Providers : cool[p] > 0
  /\ cool' = [p \in Providers |-> IF cool[p] > 0 THEN cool[p] - 1 ELSE 0]
  /\ UNCHANGED <<limiterVars, callVars>>

\* What the thread or task of c does next, once the call was made.
Step(c) ==
  \/ SkipCooling(c) \/ NotCooling(c)
  \/ Reserve(c) \/ Denied(c) \/ RecordDenied(c) \/ OutOfBudget(c)
  \/ Build(c) \/ AdapterReplies(c) \/ ReturnSlot(c)
  \/ RecordSuccess(c) \/ RecordStop(c) \/ RecordCooling(c) \/ RecordContinue(c)
  \/ SetCooldown(c)
  \/ Exhausted(c) \/ NotifyFailure(c) \/ Return(c) \/ Unwind(c)

Next ==
  \/ \E c \in Calls :
       \/ Prepare(c) \/ InterruptPrepare(c)
       \/ Step(c) \/ Interrupt(c) \/ Cancel(c) \/ DropTraceback(c)
  \/ Tick

Spec == Init /\ [][Next]_vars

\* The scheduler runs every thread and every task, and an adapter answers or
\* raises: it hands timeout_s to its HTTP client (a call made with timeout_s
\* None waits as long as the provider likes and is not covered).
Fairness == \A c \in Calls : WF_vars(Step(c))
FairSpec == Spec /\ Fairness

-----------------------------------------------------------------------------
(* Properties *)

PCs ==
  {"idle", "choose", "reserve", "denied", "build", "call", "release", "record",
   "cool", "notify", "report", "unwind", "returned", "raised", "interrupted"}

\* The limiter, the cooldowns and what a call keeps have their types, and its
\* place stays in its chain or just past it; attempts name places and providers
\* of the chain, errors a class, and no two calls have the same reservation
\* object.
TypeOK ==
  /\ Limiter!TypeOK
  /\ cool \in [Providers -> Nat]
  /\ pc \in [Calls -> PCs]
  /\ request \in [Calls -> Requests]
  /\ chain \in [Calls -> Seq(Providers)]
  /\ pos \in [Calls -> Nat \ {0}]
  /\ rsv \in [Calls -> Addrs \cup {NoObj}]
  /\ \A c, d \in Calls : c # d /\ rsv[c] = rsv[d] => rsv[c] = NoObj
  /\ reply \in [Calls -> Replies \cup {NoReply}]
  /\ \A c \in Calls : \A i \in DOMAIN attempts[c] :
        attempts[c][i].pos \in DOMAIN chain[c]
          /\ attempts[c][i].provider = chain[c][attempts[c][i].pos]
  /\ \A c \in Calls : error[c].class \in ClassNames \cup {"None"}
  /\ \A c \in Calls : \A i \in DOMAIN told[c] : told[c][i].hook \in {"on_success", "on_failure"}
  /\ \A c \in Calls : pc[c] \notin {"idle", "notify", "raised", "interrupted"} =>
        pos[c] \in 1 .. Len(chain[c]) + 1

\* The limiter's counters are the calls that hold a slot now plus the leaked
\* slots: no path through the handlers, the finally clause or a cancellation
\* returns a slot twice, keeps one, or returns another call's.
SlotsMatchCalls ==
  /\ \A p \in Providers :
        inflight[p] = Cardinality({c \in Calls : Holds(c) /\ live[rsv[c]] = p}) + lost[p]
  /\ globalInflight = Cardinality({c \in Calls : Holds(c)}) + lostAll

\* A call that returned or raised holds no slot, and only as many slots leak
\* as threads were interrupted: errors, rejected texts, refusals and the
\* cancellation of a task give the slot back.
OnlyInterruptsLeak ==
  /\ \A c \in Calls : pc[c] \in {"returned", "raised"} => ~Holds(c)
  /\ lostAll <= Cardinality({c \in Interruptible : pc[c] = "interrupted"})

\* Hooks run while their call holds no slot, so that a hook that takes its
\* time, or makes a call of its own, does so on no provider's slot.
HooksRunUnreserved ==
  \A c \in Calls : pc[c] \in {"denied", "record", "notify", "report"} => ~Holds(c)

\* What an outcome hook was told is so: a success after an attempt that
\* succeeded, a failure after none or one that did not, and an interruption only
\* of a call whose arguments were still being prepared.
ToldTruly(c) ==
  LET n == Len(attempts[c]) IN
  \A i \in DOMAIN told[c] :
    /\ told[c][i].hook = "on_success" => n > 0 /\ attempts[c][n].ok
    /\ told[c][i].hook = "on_failure" => n = 0 \/ ~attempts[c][n].ok
    /\ told[c][i].class = "Interrupt" => chain[c] = <<>>

\* A call that returns ran on_success once, one that raises ran on_failure once
\* and of the exception it raises, and no call runs more than one of them.  An
\* interrupted call ran none or one, and that told the truth; a call that is
\* still on its way ran none.
OneOutcomeTold ==
  \A c \in Calls :
    /\ pc[c] = "returned" => told[c] = <<Told("on_success", "None")>>
    /\ pc[c] = "raised" => told[c] = <<Told("on_failure", error[c].class)>>
    /\ ~Ended(c) /\ pc[c] # "unwind" => told[c] = <<>>
    /\ Len(told[c]) <= 1
    /\ ToldTruly(c)

\* An attempt after which the table of design.md, "Retryability", lets the
\* chain go on, or that the limiter denied.  A text without JSON is in no row
\* of the table; the code goes on, RejectedTextRaises below says otherwise.
MayContinueAfter(attempt, r) ==
  \/ attempt.error_type = "budget"
  \/ attempt.error_type \in {"RateLimited", "TimeoutException", "ConnectError"}
  \/ attempt.status_code \in {429, 500, 502, 503, 504, 529}
  \/ attempt.status_code \in {401, 403} /\ r.on_auth_failure = "continue"
  \/ attempt.error_type = "ValidationError" /\ attempt.status_code = 200 /\ r.json

Verdict(attempt, r) ==
  IF attempt.ok THEN "ok" ELSE IF MayContinueAfter(attempt, r) THEN "pass" ELSE "stop"

\* What Failover calls the end of a call.
Outcome(c) ==
  CASE pc[c] = "returned"    -> "result"
    [] pc[c] = "interrupted" -> "interrupted"
    [] pc[c] = "raised" ->
         IF error[c].adapter THEN "stopped"
         ELSE CASE error[c].class = "NoEligibleProviders" -> "ineligible"
                [] error[c].class = "AllProvidersFailed"  -> "exhausted"
                [] error[c].class = "BudgetExceeded"      -> "budget"
                [] OTHER -> "refused"
    [] OTHER -> "none"

\* What Failover calls the attempts of a call.
Trail(c) ==
  [i \in DOMAIN attempts[c] |->
     [at |-> attempts[c][i].pos, verdict |-> Verdict(attempts[c][i], request[c])]]

Failover == INSTANCE Failover WITH
  Repeated <- {},
  MaySkip <- TRUE,
  plan    <- chain,
  trail   <- [c \in Calls |-> Trail(c)],
  outcome <- [c \in Calls |-> Outcome(c)]

\* A call is a failover along its chain: no provider is tried out of order, or
\* after a success or a failure that the table of design.md lets stop it, and
\* it ends as its attempts say.
FailsOver == Failover!Spec

\* What a call ends with says what happened: a result comes with a last
\* attempt that succeeded; its own AllProvidersFailed with the end of the chain
\* and nothing but failures the chain may pass; an adapter's exception with the
\* attempt that failed last, which the chain may not pass; and every error of
\* the library, all but the limiter's BudgetExceeded, carries the attempts.
OutcomeFitsAttempts ==
  \A c \in Calls :
    LET n == Len(attempts[c])
        class == error[c].class
        own   == ~error[c].adapter
    IN  /\ pc[c] = "returned" =>
             n > 0 /\ attempts[c][n].ok /\ request[c].valid
        /\ pc[c] = "raised" /\ own /\ class = "AllProvidersFailed" =>
             /\ n > 0 /\ AtEnd(c)
             /\ \A i \in 1 .. n : MayContinueAfter(attempts[c][i], request[c])
        /\ pc[c] = "raised" /\ ~own =>
             /\ n > 0 /\ attempts[c][n].error_type = class
             /\ ~MayContinueAfter(attempts[c][n], request[c])
        /\ pc[c] = "raised" /\ (own => class # "BudgetExceeded")
             /\ IsInstance(Raised(class), "MultiproviderError") =>
             error[c].attached = attempts[c]

\* A call leaves a provider that answered 429 only once the provider cools,
\* for as long as its Retry-After asked.
CoolsBeforeMovingOn ==
  [][\A c \in Calls :
       pc[c] \in {"record", "cool"} /\ pc'[c] = "choose"
         /\ reply[c].exc.class = "RateLimited" /\ reply[c].exc.status = 429
         => /\ cool'[Current(c)] > 0
            /\ \A n \in reply[c].exc.retryAfter : cool'[Current(c)] >= n]_vars

\* The calls that wait for a provider's adapter.
Waiting(p) == {c \in Calls : pc[c] = "call" /\ Current(c) = p}

\* No more calls wait for a provider at once than its max_inflight, nor for all
\* of them than the global budget, whatever was returned twice or reused; the
\* slots that were lost count as taken.
CapacityKept ==
  /\ \A p \in Providers :
        Waiting(p) # {} => Cardinality(Waiting(p)) + lost[p] <= DefaultLimits[p]
  /\ LET all == UNION {Waiting(p) : p \in Providers} IN
        all # {} /\ Config.global_budget # NoBudget =>
          Cardinality(all) + lostAll <= Config.global_budget

\* Every call that was made ends.
CallsEnd == \A c \in Calls : pc[c] # "idle" ~> Ended(c)

\* Every slot comes back, also from a task cancelled at its await, unless the
\* thread that holds it is interrupted.
SlotsComeBack == \A c \in Calls \ Interruptible : Holds(c) ~> ~Holds(c)

-----------------------------------------------------------------------------
(* What docs and docstrings say that the code does not do *)

\* errors.py: attempts holds any record already made when the error is raised.
ErrorsCarryAttempts ==
  \A c \in Calls :
    pc[c] = "raised" /\ IsInstance(Raised(error[c].class), "MultiproviderError") =>
      error[c].attached = attempts[c]

\* The plan for the smart client: on a JSON ValidationError the chain client
\* still raises.  So a call that met a text without JSON ends with that error.
RejectedTextRaises ==
  \A c \in Calls :
    pc[c] \in {"returned", "raised"}
      /\ (\E i \in DOMAIN attempts[c] :
            attempts[c][i].error_type = "ValidationError" /\ attempts[c][i].status_code = 200) =>
      pc[c] = "raised" /\ error[c].class = "ValidationError"

=============================================================================
