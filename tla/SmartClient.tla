----------------------------- MODULE SmartClient -----------------------------
(***************************************************************************)
(* SmartClient.complete: calls that run concurrently over one limiter and  *)
(* the stores of RoutingStores.  A call ranks the targets once and tries   *)
(* them in that order; what it learns from each attempt goes to the stores,*)
(* from which later calls rank.                                            *)
(*                                                                         *)
(* As in ChainClient, the program counter stops before each use of shared  *)
(* state, while the adapter is waited for and before each hook:            *)
(*                                                                         *)
(*   idle -> filter -> score -> promote -> reserve -> build -> call        *)
(*        -> release -> record -> lock -> recall -> forget -> reserve ...  *)
(*                                                                         *)
(* with remember and report after a success and notify before an error.    *)
(* The prefilter and the scores are each read at one moment.               *)
(***************************************************************************)
EXTENDS Ranking, ErrorClassifier

CONSTANTS
  Calls,           \* the calls that may be made
  Repeated,        \* calls that are made again when they have ended
  Interruptible,   \* those in a thread that KeyboardInterrupt reaches
  Requests,        \* the arguments calls are made with (see Ranking), with
                   \* valid, json and on_auth_failure
  Window, Latencies,                \* see RoutingStores
  Exceptions,      \* what an adapter, or building it, may raise
  PerProvider, GlobalBudget,        \* of the limiter
  Addrs, NoObj, NoBudget

ASSUME CallsAssumption == Interruptible \subseteq Calls /\ Repeated \subseteq Calls
ASSUME StoresAssumption == Window \in Nat /\ Latencies \subseteq Nat
ASSUME RequestsAssumption == \A r \in Requests : Answerable(r)
ASSUME ExceptionsAssumption == \A e \in Exceptions : Raisable(e)

Providers == {x[1] : x \in Targets}

ASSUME ObjectsAssumption ==
  NoObj \notin Addrs /\ NoObj \notin Providers /\ NoObj \notin Calls

\* Asynchronous exceptions reach the main thread only.
ASSUME ThreadsAssumption == IsFiniteSet(Interruptible)

Keys == {MakeKey(r) : r \in Requests}

VARIABLES
  inflight, globalInflight, held, live, lost, lostAll,    \* of the limiter
  lock, known, window,                                    \* of the stores
  lastRoute,       \* _last_diagnostics: the call whose ranking it shows
  pc, request,
  scores,          \* scores[c]: the scores of the targets that passed
  ranked,          \* ranked[c]: ranking.ranked_targets
  pos,             \* pos[c]: the place in it
  rsv, reply, attempts, error, told     \* as in ChainClient

limiterVars == <<inflight, globalInflight, held, live, lost, lostAll>>
storeVars == <<lock, known, window>>
callVars == <<pc, request, scores, ranked, pos, rsv, reply, attempts, error, told>>
vars == <<limiterVars, storeVars, lastRoute, callVars>>

Limiter == INSTANCE Limiter

Stores == INSTANCE RoutingStores WITH
  Latencies <- Latencies \cup {0},
  Cooldowns <- {LockSeconds(e) : e \in Exceptions}

-----------------------------------------------------------------------------

Answer(kind) == [kind |-> kind, exc |-> Raised("Interrupt")]
Failure(e) == [kind |-> "raised", exc |-> e]
NoReply == Answer("none")
Replies == {Answer("json"), Answer("prose")} \cup {Failure(e) : e \in Exceptions}

\* The library's own exceptions, and those it raises again after an attempt.
Error(class, carried) == [class |-> class, adapter |-> FALSE, attached |-> carried]
Rethrown(e, carried) == [class |-> e.class, adapter |-> TRUE, attached |-> carried]
NoError == Error("None", <<>>)

NoScores == [x \in {} |-> 0]

Current(c) == ranked[c][pos[c]]
AtEnd(c) == pos[c] > Len(ranked[c])
Ended(c) == pc[c] \in {"returned", "raised", "interrupted"}
Holds(c) == rsv[c] # NoObj /\ rsv[c] \in held

Goto(c, label) == pc' = [pc EXCEPT ![c] = label]

Init ==
  /\ Limiter!Init
  /\ Stores!Init
  /\ lastRoute = NoObj
  /\ pc = [c \in Calls |-> "idle"]
  /\ request \in [Calls -> Requests]
  /\ scores = [c \in Calls |-> NoScores]
  /\ ranked = [c \in Calls |-> <<>>]
  /\ pos = [c \in Calls |-> 1]
  /\ rsv = [c \in Calls |-> NoObj]
  /\ reply = [c \in Calls |-> NoReply]
  /\ attempts = [c \in Calls |-> <<>>]
  /\ error = [c \in Calls |-> NoError]
  /\ told = [c \in Calls |-> <<>>]

-----------------------------------------------------------------------------
(* Ranking *)

\* What the checks of the arguments raise, and normalize_messages of a message
\* that is no mapping.
InvalidArguments == {"ValidationError", "AttributeError"}

\* Refused arguments raise before anything is ranked, and no hook runs.
Refuse(c) ==
  /\ pc[c] = "idle" /\ ~request[c].valid
  /\ \E class \in InvalidArguments : error' = [error EXCEPT ![c] = Error(class, <<>>)]
  /\ Goto(c, "raised")
  /\ UNCHANGED <<limiterVars, storeVars, lastRoute, request, scores, ranked, pos,
                 rsv, reply, attempts, told>>

\* The pool depends on the catalog and the request only.
Prepare(c) ==
  /\ pc[c] = "idle" /\ request[c].valid
  /\ Goto(c, "filter")
  /\ UNCHANGED <<limiterVars, storeVars, lastRoute, request, scores, ranked, pos,
                 rsv, reply, attempts, error, told>>

Filter(c) ==
  /\ pc[c] = "filter"
  /\ scores' = [scores EXCEPT ![c] =
       [x \in {Target(e) : e \in Eligible(request[c], lock)} |-> 0]]
  /\ Goto(c, "score")
  /\ UNCHANGED <<limiterVars, storeVars, lastRoute, request, ranked, pos,
                 rsv, reply, attempts, error, told>>

Score(c) ==
  LET eligible == {e \in BuildPool(request[c]) : Target(e) \in DOMAIN scores[c]}
  IN  /\ pc[c] = "score"
      /\ scores' = [scores EXCEPT ![c] = Scores(eligible, request[c], window)]
      /\ Goto(c, "promote")
      /\ UNCHANGED <<limiterVars, storeVars, lastRoute, request, ranked, pos,
                     rsv, reply, attempts, error, told>>

\* The remembered target goes first; an empty ranking ends the call.
PromoteKnown(c) ==
  LET final == Promote(Sorted(scores[c]), scores[c], known[MakeKey(request[c])])
  IN  /\ pc[c] = "promote"
      /\ ranked' = [ranked EXCEPT ![c] = final]
      /\ scores' = [scores EXCEPT ![c] = NoScores]
      /\ lastRoute' = c
      /\ error' = [error EXCEPT ![c] =
           IF final = <<>> THEN Error("NoEligibleProviders", <<>>) ELSE @]
      /\ Goto(c, IF final = <<>> THEN "notify" ELSE "reserve")
      /\ UNCHANGED <<limiterVars, storeVars, request, pos, rsv, reply, attempts, told>>

-----------------------------------------------------------------------------
(* The limiter *)

Reserve(c) ==
  /\ pc[c] = "reserve" /\ ~AtEnd(c)
  /\ \E a \in Addrs :
       /\ Limiter!TryReserve(Current(c)[1], a)
       /\ rsv' = [rsv EXCEPT ![c] = a]
  /\ Goto(c, "build")
  /\ UNCHANGED <<storeVars, lastRoute, request, scores, ranked, pos, reply,
                 attempts, error, told>>

Denied(c) ==
  /\ pc[c] = "reserve" /\ ~AtEnd(c)
  /\ Limiter!RateLimitedOn(Current(c)[1])
  /\ Goto(c, "denied")
  /\ UNCHANGED <<limiterVars, storeVars, lastRoute, request, scores, ranked, pos,
                 rsv, reply, attempts, error, told>>

\* BudgetExceeded stops the call; its attempts go to on_failure only.
OutOfBudget(c) ==
  /\ pc[c] = "reserve" /\ ~AtEnd(c)
  /\ Limiter!BudgetExceededOn(Current(c)[1])
  /\ error' = [error EXCEPT ![c] = Error("BudgetExceeded", <<>>)]
  /\ Goto(c, "notify")
  /\ UNCHANGED <<limiterVars, storeVars, lastRoute, request, scores, ranked, pos,
                 rsv, reply, attempts, told>>

Attempt(c, type, exc) == [pos |-> pos[c], type |-> type, exc |-> exc]

\* _record: the attempt is appended, enters the metrics, and on_attempt runs.
Recorded(c, attempt, latency) ==
  /\ attempts' = [attempts EXCEPT ![c] = Append(@, attempt)]
  /\ Stores!Record(Current(c), attempt.type = "ok", latency)

\* A refusal counts as a failure of no latency, and teaches nothing else.
RecordDenied(c) ==
  /\ pc[c] = "denied"
  /\ Recorded(c, Attempt(c, "budget", Raised("RateLimited")), 0)
  /\ pos' = [pos EXCEPT ![c] = @ + 1]
  /\ Goto(c, "reserve")
  /\ UNCHANGED <<limiterVars, lastRoute, request, scores, ranked, rsv, reply,
                 error, told>>

-----------------------------------------------------------------------------
(* The adapter *)

\* The request object is built outside the try statement.
Build(c) ==
  /\ pc[c] = "build"
  /\ Goto(c, "call")
  /\ UNCHANGED <<limiterVars, storeVars, lastRoute, request, scores, ranked, pos,
                 rsv, reply, attempts, error, told>>

AdapterReplies(c) ==
  /\ pc[c] = "call"
  /\ \E r \in Replies : reply' = [reply EXCEPT ![c] = r]
  /\ Goto(c, "release")
  /\ UNCHANGED <<limiterVars, storeVars, lastRoute, request, scores, ranked, pos,
                 rsv, attempts, error, told>>

Accepted(c) == reply[c].kind = "json" \/ (reply[c].kind = "prose" /\ ~request[c].json)

\* The exception a failed attempt is classified by: the adapter's, or the
\* ValidationError of a text that holds no JSON object.
Exc(c) == IF reply[c].kind = "raised" THEN reply[c].exc ELSE Raised("ValidationError")

\* Mutant of ReturnSlot: a rejected text keeps its slot.
ReturnSlot_NotOnReject(c) ==
  /\ pc[c] = "release"
  /\ IF reply[c].kind = "prose" /\ request[c].json
     THEN UNCHANGED limiterVars
     ELSE Limiter!Drop(rsv[c])
  /\ Goto(c, "record")
  /\ UNCHANGED <<storeVars, lastRoute, request, scores, ranked, pos, rsv, reply,
                 attempts, error, told>>

\* finalize on success, release on failure, before anything is recorded.
ReturnSlot(c) ==
  /\ pc[c] = "release"
  /\ Limiter!Drop(rsv[c])
  /\ Goto(c, "record")
  /\ UNCHANGED <<storeVars, lastRoute, request, scores, ranked, pos, rsv, reply,
                 attempts, error, told>>

-----------------------------------------------------------------------------
(* _on_success *)

RecordSuccess(c) ==
  /\ pc[c] = "record" /\ Accepted(c)
  /\ \E latency \in Latencies :
       Recorded(c, Attempt(c, "ok", Raised("Interrupt")), latency)
  /\ Goto(c, "remember")
  /\ UNCHANGED <<limiterVars, lastRoute, request, scores, ranked, pos, rsv, reply,
                 error, told>>

\* Mutant of Remember: the best target is remembered, not the one that answered.
Remember_First(c) ==
  /\ pc[c] = "remember"
  /\ Stores!Remember(MakeKey(request[c]), ranked[c][1])
  /\ Goto(c, "report")
  /\ UNCHANGED <<limiterVars, lastRoute, request, scores, ranked, pos, rsv, reply,
                 attempts, error, told>>

Remember(c) ==
  /\ pc[c] = "remember"
  /\ Stores!Remember(MakeKey(request[c]), Current(c))
  /\ Goto(c, "report")
  /\ UNCHANGED <<limiterVars, lastRoute, request, scores, ranked, pos, rsv, reply,
                 attempts, error, told>>

Return(c) ==
  /\ pc[c] = "report"
  /\ told' = [told EXCEPT ![c] = Append(@, "on_success")]
  /\ Limiter!Collect(rsv[c])
  /\ rsv' = [rsv EXCEPT ![c] = NoObj]
  /\ Goto(c, "returned")
  /\ UNCHANGED <<storeVars, lastRoute, request, scores, ranked, pos, reply,
                 attempts, error>>

-----------------------------------------------------------------------------
(* _on_failure *)

RecordFailure(c) ==
  /\ pc[c] = "record" /\ ~Accepted(c)
  /\ \E latency \in Latencies : Recorded(c, Attempt(c, "failed", Exc(c)), latency)
  /\ Goto(c, IF LocksModel(Exc(c)) THEN "lock" ELSE "recall")
  /\ UNCHANGED <<limiterVars, lastRoute, request, scores, ranked, pos, rsv, reply,
                 error, told>>

LockModel(c) ==
  /\ pc[c] = "lock"
  /\ Stores!Lock(Current(c), LockSeconds(Exc(c)))
  /\ Goto(c, "recall")
  /\ UNCHANGED <<limiterVars, lastRoute, request, scores, ranked, pos, rsv, reply,
                 attempts, error, told>>

\* Mutant of FallsBack: on_auth_failure is not looked at.
FallsBack_OnAuth(c) == reply[c].kind = "prose" \/ ShouldFallback(Exc(c), "continue")

FallsBack(c) ==
  reply[c].kind = "prose" \/ ShouldFallback(Exc(c), request[c].on_auth_failure)

\* The loop goes on, and its variable drops the reservation.
NextTarget(c) ==
  /\ FallsBack(c)
  /\ pos' = [pos EXCEPT ![c] = @ + 1]
  /\ Limiter!Collect(rsv[c])
  /\ rsv' = [rsv EXCEPT ![c] = NoObj]
  /\ reply' = [reply EXCEPT ![c] = NoReply]
  /\ Goto(c, "reserve")
  /\ UNCHANGED error

\* The exception is raised again; the attempts were attached to it.
Stop(c) ==
  /\ ~FallsBack(c)
  /\ error' = [error EXCEPT ![c] =
       Rethrown(Exc(c),
                IF IsInstance(Exc(c), "MultiproviderError") THEN attempts[c] ELSE <<>>)]
  /\ Goto(c, "notify")
  /\ UNCHANGED <<limiterVars, pos, rsv, reply>>

\* Mutant of Recall: what is remembered is left alone when the call goes on.
Recall_OnlyOnStop(c) ==
  /\ pc[c] = "recall"
  /\ \/ /\ known[MakeKey(request[c])] = {Current(c)} /\ ~FallsBack(c)
        /\ Goto(c, "forget")
        /\ UNCHANGED <<limiterVars, pos, rsv, reply, error>>
     \/ known[MakeKey(request[c])] # {Current(c)} /\ Stop(c)
     \/ NextTarget(c)
  /\ UNCHANGED <<storeVars, lastRoute, request, scores, ranked, attempts, told>>

\* get: is this target the one remembered?
Recall(c) ==
  /\ pc[c] = "recall"
  /\ \/ /\ known[MakeKey(request[c])] = {Current(c)}
        /\ Goto(c, "forget")
        /\ UNCHANGED <<limiterVars, pos, rsv, reply, error>>
     \/ /\ known[MakeKey(request[c])] # {Current(c)}
        /\ NextTarget(c) \/ Stop(c)
  /\ UNCHANGED <<storeVars, lastRoute, request, scores, ranked, attempts, told>>

\* forget drops whatever is remembered by then.
Forget(c) ==
  /\ pc[c] = "forget"
  /\ Stores!Forget(MakeKey(request[c]))
  /\ NextTarget(c) \/ Stop(c)
  /\ UNCHANGED <<lastRoute, request, scores, ranked, attempts, told>>

-----------------------------------------------------------------------------
(* How a call ends *)

\* Mutants of Exhausted: the error carries no attempts, and refusals alone are
\* not a failure to report.
Exhausted_NoAttempts(c) ==
  /\ pc[c] = "reserve" /\ AtEnd(c)
  /\ error' = [error EXCEPT ![c] = Error("AllProvidersFailed", <<>>)]
  /\ Goto(c, "notify")
  /\ UNCHANGED <<limiterVars, storeVars, lastRoute, request, scores, ranked, pos,
                 rsv, reply, attempts, told>>

Exhausted_OnlyFailed(c) ==
  /\ pc[c] = "reserve" /\ AtEnd(c)
  /\ \E i \in DOMAIN attempts[c] : attempts[c][i].type = "failed"
  /\ error' = [error EXCEPT ![c] = Error("AllProvidersFailed", attempts[c])]
  /\ Goto(c, "notify")
  /\ UNCHANGED <<limiterVars, storeVars, lastRoute, request, scores, ranked, pos,
                 rsv, reply, attempts, told>>

Exhausted(c) ==
  /\ pc[c] = "reserve" /\ AtEnd(c)
  /\ error' = [error EXCEPT ![c] =
       IF attempts[c] = <<>>
       THEN Error("NoEligibleProviders", <<>>)
       ELSE Error("AllProvidersFailed", attempts[c])]
  /\ Goto(c, "notify")
  /\ UNCHANGED <<limiterVars, storeVars, lastRoute, request, scores, ranked, pos,
                 rsv, reply, attempts, told>>

NotifyFailure(c) ==
  /\ pc[c] = "notify"
  /\ told' = [told EXCEPT ![c] = Append(@, "on_failure")]
  /\ Goto(c, "raised")
  /\ UNCHANGED <<limiterVars, storeVars, lastRoute, request, scores, ranked, pos,
                 rsv, reply, attempts, error>>

\* Under the try, from the adapter's call on, a KeyboardInterrupt goes through
\* the finally clause.
UnderTry(c) == rsv[c] # NoObj /\ pc[c] \notin {"build", "unwind"}

\* KeyboardInterrupt, anywhere, the finally clause included; a hook that was due
\* may have run by then, or be what is interrupted.
Interrupt(c) ==
  /\ c \in Interruptible
  /\ ~Ended(c)
  /\ error' = [error EXCEPT ![c] = Error("Interrupt", <<>>)]
  /\ Goto(c, IF UnderTry(c) THEN "unwind" ELSE "interrupted")
  /\ \/ UNCHANGED told
     \/ pc[c] = "notify" /\ told' = [told EXCEPT ![c] = Append(@, "on_failure")]
     \/ pc[c] = "report" /\ told' = [told EXCEPT ![c] = Append(@, "on_success")]
  /\ UNCHANGED <<limiterVars, storeVars, lastRoute, request, scores, ranked, pos,
                 rsv, reply, attempts>>

\* The finally clause releases what was not finalized, and a slot that was
\* returned without `finalized` being set yet a second time.
Unwind(c) ==
  /\ pc[c] = "unwind"
  /\ Limiter!Drop(rsv[c])
  /\ Goto(c, "interrupted")
  /\ UNCHANGED <<storeVars, lastRoute, request, scores, ranked, pos, rsv, reply,
                 attempts, error, told>>

\* The caller drops the exception, and with its traceback the reservation.
DropTraceback(c) ==
  /\ Ended(c) /\ rsv[c] # NoObj
  /\ Limiter!Collect(rsv[c])
  /\ rsv' = [rsv EXCEPT ![c] = NoObj]
  /\ UNCHANGED <<storeVars, lastRoute, pc, request, scores, ranked, pos, reply,
                 attempts, error, told>>

\* The same caller calls complete again.
CallAgain(c) ==
  /\ c \in Repeated
  /\ Ended(c) /\ rsv[c] = NoObj
  /\ Goto(c, "idle")
  /\ request' \in {[request EXCEPT ![c] = r] : r \in Requests}
  /\ ranked' = [ranked EXCEPT ![c] = <<>>]
  /\ pos' = [pos EXCEPT ![c] = 1]
  /\ reply' = [reply EXCEPT ![c] = NoReply]
  /\ attempts' = [attempts EXCEPT ![c] = <<>>]
  /\ error' = [error EXCEPT ![c] = NoError]
  /\ told' = [told EXCEPT ![c] = <<>>]
  /\ UNCHANGED <<limiterVars, storeVars, lastRoute, scores, rsv>>

\* Time passes: a timed lock runs out, or a remembered target does.
TimePasses ==
  /\ \/ \E x \in Targets : Stores!LockRunsOut(x)
     \/ \E k \in Keys : known[k] # {} /\ Stores!Forget(k)
  /\ UNCHANGED <<limiterVars, lastRoute, callVars>>

Step(c) ==
  \/ Filter(c) \/ Score(c) \/ PromoteKnown(c)
  \/ Reserve(c) \/ Denied(c) \/ RecordDenied(c) \/ OutOfBudget(c)
  \/ Build(c) \/ AdapterReplies(c) \/ ReturnSlot(c)
  \/ RecordSuccess(c) \/ Remember(c) \/ Return(c)
  \/ RecordFailure(c) \/ LockModel(c) \/ Recall(c) \/ Forget(c)
  \/ Exhausted(c) \/ NotifyFailure(c) \/ Unwind(c)

Next ==
  \/ \E c \in Calls :
       \/ Refuse(c) \/ Prepare(c) \/ Step(c)
       \/ Interrupt(c) \/ DropTraceback(c) \/ CallAgain(c)
  \/ TimePasses

Spec == Init /\ [][Next]_vars

\* Threads are scheduled, and an adapter answers or raises within timeout_s.
FairSpec == Spec /\ \A c \in Calls : WF_vars(Step(c))

-----------------------------------------------------------------------------
(* Properties *)

PCs ==
  {"idle", "filter", "score", "promote", "reserve", "denied", "build", "call",
   "release", "record", "lock", "recall", "forget", "remember", "report",
   "notify", "unwind", "returned", "raised", "interrupted"}

\* The limiter, the stores and what a call keeps have their types, and its place
\* stays in its ranking or just past it; a ranking names each target at most
\* once, so that a call never tries one twice.
TypeOK ==
  /\ Limiter!TypeOK
  /\ Stores!TypeOK
  /\ lastRoute \in Calls \cup {NoObj}
  /\ pc \in [Calls -> PCs]
  /\ request \in [Calls -> Requests]
  /\ \A c \in Calls : DOMAIN scores[c] \subseteq Targets
  /\ ranked \in [Calls -> Seq(Targets)]
  /\ \A c \in Calls : IsInjective(ranked[c])
  /\ \A c \in Calls : pos[c] \in 1 .. Len(ranked[c]) + 1
  /\ rsv \in [Calls -> Addrs \cup {NoObj}]
  /\ reply \in [Calls -> Replies \cup {NoReply}]
  /\ \A c \in Calls : error[c].class \in ClassNames \cup {"None"}
  /\ \A c \in Calls : \A i \in DOMAIN told[c] : told[c][i] \in {"on_success", "on_failure"}

\* The limiter's counters are the calls that hold a slot now plus the slots
\* leaked: no path through _on_success, _on_failure, a rejected text or the
\* finally clause returns a slot twice, keeps one or returns another's.
SlotsMatchCalls ==
  /\ \A p \in Providers :
        inflight[p] = Cardinality({c \in Calls : Holds(c) /\ live[rsv[c]] = p}) + lost[p]
  /\ globalInflight = Cardinality({c \in Calls : Holds(c)}) + lostAll

\* A call that ended by itself holds no slot, and only as many slots leak as
\* threads were interrupted.
OnlyInterruptsLeak ==
  /\ \A c \in Calls : pc[c] \in {"returned", "raised"} => ~Holds(c)
  /\ lostAll <= Cardinality({c \in Interruptible : pc[c] = "interrupted"})

TargetOf(c, attempt) == ranked[c][attempt.pos]

\* A model is locked for ever only after some call was told that it does not
\* exist, and for a time only after a RateLimited, a 429 or an exhausted quota:
\* no timeout, rejected text, refusal by the limiter or other status locks one.
LocksHaveCause ==
  \A x \in Targets :
    LET told_by(P(_)) ==
          \E c \in Calls : \E i \in DOMAIN attempts[c] :
             /\ TargetOf(c, attempts[c][i]) = x
             /\ attempts[c][i].type = "failed" /\ P(attempts[c][i].exc)
    IN  /\ lock[x] = "terminal" => told_by(LAMBDA e : e.body = "model")
        /\ lock[x] = "timed" => told_by(LAMBDA e :
             e.body = "quota" \/ e.status = 429 \/ e.class = "RateLimited")

\* What is remembered under a key answered a call with that key.
RememberedSucceeded ==
  \A k \in Keys : \A x \in known[k] :
    \E c \in Calls : \E i \in DOMAIN attempts[c] :
      MakeKey(request[c]) = k /\ TargetOf(c, attempts[c][i]) = x /\ attempts[c][i].type = "ok"

\* A call does not leave a target it failed at while that target is remembered
\* under its key, whoever remembered it and whatever the error was.
FailureForgets ==
  [][\A c \in Calls :
       pc[c] \in {"record", "lock", "recall", "forget"} /\ pc'[c] \in {"reserve", "notify"} =>
         known'[MakeKey(request[c])] # {Current(c)}]_vars

\* An attempt after which the table of the smart-routing design, "Error
\* classifier", tries the next target.
MayFallBackAfter(attempt, r) ==
  LET e == attempt.exc IN
  \/ attempt.type = "budget"
  \/ attempt.type = "failed" /\
       \/ e.class \in {"ValidationError", "TimeoutException", "ConnectError", "RateLimited"}
       \/ e.body \in {"quota", "model"}
       \/ e.status \in {429, 500, 502, 503, 504, 529}
       \/ e.status \in {401, 403} /\ r.on_auth_failure = "continue"

Verdict(attempt, r) ==
  IF attempt.type = "ok" THEN "ok" ELSE IF MayFallBackAfter(attempt, r) THEN "pass" ELSE "stop"

\* What Failover calls the end of a call.
Outcome(c) ==
  CASE pc[c] = "returned"    -> "result"
    [] pc[c] = "interrupted" -> "interrupted"
    [] pc[c] = "raised" ->
         IF error[c].adapter THEN "stopped"
         ELSE CASE error[c].class = "NoEligibleProviders" -> "ineligible"
                [] error[c].class = "AllProvidersFailed"  -> "exhausted"
                [] error[c].class = "BudgetExceeded"      -> "budget"
                [] OTHER -> "refused"
    [] OTHER -> "none"

\* What Failover calls the attempts of a call.
Trail(c) ==
  [i \in DOMAIN attempts[c] |->
     [at |-> attempts[c][i].pos, verdict |-> Verdict(attempts[c][i], request[c])]]

Failover == INSTANCE Failover WITH
  MaySkip <- FALSE,
  plan    <- ranked,
  trail   <- [c \in Calls |-> Trail(c)],
  outcome <- [c \in Calls |-> Outcome(c)]

\* A call is a failover along its ranking that leaves no target out: none is
\* tried out of order, or after a success or a failure that must stop the call,
\* it ends as its attempts say, and only with the last of the targets does it
\* say that all failed.  The next call of the same caller starts afresh.
FailsOver == Failover!Spec

\* A call ends with what its attempts say, and the fitting hook ran once: its
\* own NoEligibleProviders says that nothing was ranked, its own
\* AllProvidersFailed that every ranked target failed, and an adapter's
\* exception that the last attempt failed with it and must not be passed.
OutcomeFitsAttempts ==
  \A c \in Calls :
    LET n == Len(attempts[c])
        class == error[c].class
        own   == ~error[c].adapter
    IN  /\ pc[c] = "returned" =>
             n > 0 /\ attempts[c][n].type = "ok" /\ told[c] = <<"on_success">>
        /\ pc[c] = "raised" =>
             /\ told[c] = IF request[c].valid THEN <<"on_failure">> ELSE <<>>
             /\ own /\ class = "NoEligibleProviders" =>
                  ranked[c] = <<>> /\ n = 0 /\ lastRoute # NoObj
             /\ own /\ class = "AllProvidersFailed" =>
                  /\ n > 0 /\ n = Len(ranked[c]) /\ error[c].attached = attempts[c]
                  /\ \A i \in 1 .. n : MayFallBackAfter(attempts[c][i], request[c])
             /\ own /\ request[c].valid =>
                  class \in {"NoEligibleProviders", "AllProvidersFailed", "BudgetExceeded"}
             /\ ~own =>
                  /\ n > 0 /\ attempts[c][n].exc.class = class
                  /\ ~MayFallBackAfter(attempts[c][n], request[c])
                  /\ IsInstance(Raised(class), "MultiproviderError") =>
                       error[c].attached = attempts[c]

\* Every call that was made ends.
CallsEnd == \A c \in Calls : pc[c] # "idle" ~> Ended(c)

-----------------------------------------------------------------------------
(* What the plan and the design say that concurrent calls do not keep *)

\* The smart-routing plan: forget the key if this pair was the remembered one.
\* So a call forgets nothing but the target it failed at.
ForgetsItsOwn ==
  [][\A c \in Calls :
       pc[c] = "forget" /\ pc'[c] \in {"reserve", "notify"} =>
         known[MakeKey(request[c])] \subseteq {Current(c)}]_vars

\* The smart-routing design: a model that is unavailable is locked terminally.
\* So it stays locked once a call that was told so has gone on.
TerminalStays ==
  \A c \in Calls : \A i \in DOMAIN attempts[c] :
    attempts[c][i].exc.body = "model" /\ (i < pos[c] \/ pc[c] \in {"recall", "forget"}) =>
         lock[TargetOf(c, attempts[c][i])] = "terminal"

=============================================================================
