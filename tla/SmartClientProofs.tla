------------------------- MODULE SmartClientProofs -------------------------
(***************************************************************************)
(* For every catalog, set of calls, limits and answers: concurrent smart   *)
(* calls keep the limiter's slots exact and lose none but to               *)
(* interruptions; the error or result and the hooks fit the attempts; each *)
(* call is the failover along its ranking that Failover promises; a target *)
(* that failed is not left remembered; and locks and remembered targets    *)
(* have their cause in some attempt.                                       *)
(*                                                                         *)
(* The invariant IInv is about slots and rankings, OutcomeInv, further     *)
(* down, about outcomes.                                                   *)
(***************************************************************************)
EXTENDS SmartClient, RankingProofs

WindowAttempts == [ok : BOOLEAN, latency : Latencies \cup {0}]

\* Types of the variables the argument is about.  Error, attempts and hooks are
\* tables over the calls; no type of their entries is needed.
Shape ==
  /\ pc \in [Calls -> PCs]
  /\ request \in [Calls -> Requests]
  /\ ranked \in [Calls -> Seq(Targets)]
  /\ pos \in [Calls -> Nat \ {0}]
  /\ rsv \in [Calls -> Addrs \cup {NoObj}]
  /\ reply \in [Calls -> Replies \cup {NoReply}]
  /\ scores = [c \in Calls |-> scores[c]]
  /\ attempts = [c \in Calls |-> attempts[c]]
  /\ error = [c \in Calls |-> error[c]]
  /\ told = [c \in Calls |-> told[c]]
  /\ lastRoute \in Calls \cup {NoObj}
  /\ held \subseteq Addrs
  /\ live \in [Addrs -> Providers \cup {NoObj}]

StoresShape ==
  /\ lock \in [Targets -> {"open", "timed", "terminal"}]
  /\ known \in [Keys -> SUBSET Targets]
  /\ \A k \in Keys : Cardinality(known[k]) <= 1
  /\ window \in [Targets -> Seq(WindowAttempts)]
  /\ \A x \in Targets : Len(window[x]) <= Window

\* A call that has a target to deal with is at a place of its ranking.
OnRanking(c) ==
  /\ AreScores(scores[c])
  /\ IsInjective(ranked[c])
  /\ pos[c] <= Len(ranked[c]) + 1
  /\ pc[c] \in {"idle", "filter", "score", "promote"} => pos[c] = 1
  /\ pc[c] \in {"denied", "build", "call", "release", "record", "lock", "recall",
                "forget", "remember", "report"} =>
       pos[c] <= Len(ranked[c])

\* A call's reservation object is alive and its own.
Own ==
  /\ \A c \in Calls : rsv[c] # NoObj => live[rsv[c]] # NoObj
  /\ \A c, d \in Calls : c # d /\ rsv[c] = rsv[d] => rsv[c] = NoObj

\* Where a call has a reservation, where it has none, and where the one it has
\* was returned already; and who may be on the way out of an interruption.
Stage(c) ==
  /\ pc[c] \in {"build", "call", "release", "record", "lock", "recall", "forget",
                "remember", "report", "unwind"} => rsv[c] # NoObj
  /\ pc[c] \in {"idle", "filter", "score", "promote", "reserve", "denied"} =>
       rsv[c] = NoObj
  /\ pc[c] \in {"record", "lock", "recall", "forget", "remember", "report",
                "notify", "returned", "raised"} => rsv[c] \notin held
  /\ pc[c] \in {"unwind", "interrupted"} => c \in Interruptible

IInv ==
  /\ Shape
  /\ StoresShape
  /\ Own
  /\ \A c \in Calls : OnRanking(c) /\ Stage(c)

-----------------------------------------------------------------------------
(* What a step of one call is to the limiter *)

Act(c) ==
  Refuse(c) \/ Prepare(c) \/ Step(c) \/ Interrupt(c) \/ DropTraceback(c) \/ CallAgain(c)

\* release and finalize.
Drops(c) ==
  /\ Limiter!Drop(rsv[c]) /\ rsv' = rsv
  /\ \/ pc[c] = "release" /\ pc'[c] = "record"
     \/ pc[c] = "unwind" /\ pc'[c] = "interrupted"

\* The reservation object dies.
Collects(c) ==
  /\ Limiter!Collect(rsv[c]) /\ rsv' = [rsv EXCEPT ![c] = NoObj]
  /\ \/ pc[c] \in {"recall", "forget"} /\ pc'[c] = "reserve"
     \/ pc[c] = "report" /\ pc'[c] = "returned"
     \/ Ended(c) /\ rsv[c] # NoObj /\ pc'[c] = pc[c]

\* Neither: the limiter and the reservation stay.
Moves(c) ==
  \/ pc[c] = "idle" /\ pc'[c] \in {"filter", "raised"}
  \/ pc[c] = "filter" /\ pc'[c] = "score"
  \/ pc[c] = "score" /\ pc'[c] = "promote"
  \/ pc[c] = "promote" /\ pc'[c] \in {"reserve", "notify"}
  \/ pc[c] = "reserve" /\ pc'[c] \in {"denied", "notify"}
  \/ pc[c] = "denied" /\ pc'[c] = "reserve"
  \/ pc[c] = "build" /\ pc'[c] = "call"
  \/ pc[c] = "call" /\ pc'[c] = "release"
  \/ pc[c] = "record" /\ pc'[c] \in {"remember", "lock", "recall"}
  \/ pc[c] = "lock" /\ pc'[c] = "recall"
  \/ pc[c] = "recall" /\ pc'[c] \in {"forget", "notify"}
  \/ pc[c] = "forget" /\ pc'[c] = "notify"
  \/ pc[c] = "remember" /\ pc'[c] = "report"
  \/ pc[c] = "notify" /\ pc'[c] = "raised"
  \/ /\ c \in Interruptible /\ ~Ended(c)
     /\ pc'[c] = IF UnderTry(c) THEN "unwind" ELSE "interrupted"
  \/ c \in Repeated /\ Ended(c) /\ rsv[c] = NoObj /\ pc'[c] = "idle"

Rests(c) == UNCHANGED <<limiterVars, rsv>> /\ Moves(c)

LEMMA LimiterKinds ==
  ASSUME Shape, NEW c \in Calls, Act(c)
  PROVE  Reserve(c) \/ Drops(c) \/ Collects(c) \/ Rests(c)
<1>1. pc \in [Calls -> PCs]
  BY DEF Shape
<1>2. CASE Refuse(c) \/ Prepare(c) \/ Filter(c) \/ Score(c) \/ PromoteKnown(c)
  BY <1>1, <1>2 DEF Refuse, Prepare, Filter, Score, PromoteKnown, Goto, Rests, Moves
<1>3. CASE Denied(c) \/ RecordDenied(c) \/ OutOfBudget(c) \/ Build(c) \/ AdapterReplies(c)
  BY <1>1, <1>3 DEF Denied, RecordDenied, OutOfBudget, Build, AdapterReplies, Goto,
     Rests, Moves
<1>4. CASE RecordSuccess(c) \/ Remember(c) \/ RecordFailure(c) \/ LockModel(c)
  BY <1>1, <1>4 DEF RecordSuccess, Remember, RecordFailure, LockModel, Goto, Rests, Moves
<1>5. CASE Exhausted(c) \/ NotifyFailure(c)
  BY <1>1, <1>5 DEF Exhausted, NotifyFailure, Goto, Rests, Moves
<1>6. CASE Interrupt(c)
  BY <1>1, <1>6 DEF Interrupt, Goto, Rests, Moves
<1>7. CASE CallAgain(c)
  BY <1>1, <1>7 DEF CallAgain, Goto, Rests, Moves
<1>8. CASE Recall(c) \/ Forget(c)
  <2>1. pc[c] \in {"recall", "forget"}
    BY <1>8 DEF Recall, Forget
  <2>2. CASE NextTarget(c)
    BY <1>1, <2>1, <2>2 DEF NextTarget, Goto, Collects
  <2>3. CASE Stop(c)
    BY <1>1, <2>1, <2>3 DEF Stop, Goto, Rests, Moves
  <2>4. CASE ~NextTarget(c) /\ ~Stop(c)
    BY <1>1, <1>8, <2>4 DEF Recall, Forget, Goto, Rests, Moves
  <2>. QED  BY <2>2, <2>3, <2>4
<1>9. CASE ReturnSlot(c) \/ Unwind(c)
  BY <1>1, <1>9 DEF ReturnSlot, Unwind, Goto, Drops
<1>10. CASE Return(c)
  BY <1>1, <1>10 DEF Return, Goto, Collects
<1>11. CASE DropTraceback(c)
  BY <1>11 DEF DropTraceback, Collects
<1>. QED
  BY <1>2, <1>3, <1>4, <1>5, <1>6, <1>7, <1>8, <1>9, <1>10, <1>11 DEF Act, Step

-----------------------------------------------------------------------------
(* A step of one call leaves the others where they were *)

Tables ==
  /\ scores = [c \in Calls |-> scores[c]]
  /\ attempts = [c \in Calls |-> attempts[c]]
  /\ error = [c \in Calls |-> error[c]]
  /\ told = [c \in Calls |-> told[c]]

LEMMA OneEntryChanges ==
  ASSUME Shape, NEW c \in Calls, Act(c)
  PROVE  /\ \E x : pc' = [pc EXCEPT ![c] = x]
         /\ \E x : request' = [request EXCEPT ![c] = x]
         /\ \E x : scores' = [scores EXCEPT ![c] = x]
         /\ \E x : ranked' = [ranked EXCEPT ![c] = x]
         /\ \E x : pos' = [pos EXCEPT ![c] = x]
         /\ \E x : rsv' = [rsv EXCEPT ![c] = x]
         /\ \E x : reply' = [reply EXCEPT ![c] = x]
         /\ \E x : attempts' = [attempts EXCEPT ![c] = x]
         /\ \E x : error' = [error EXCEPT ![c] = x]
         /\ \E x : told' = [told EXCEPT ![c] = x]
<1>. USE DEF Act, Step, Refuse, Prepare, Filter, Score, PromoteKnown, Reserve, Denied,
       OutOfBudget, RecordDenied, Build, AdapterReplies, ReturnSlot, RecordSuccess, Remember,
       Return, RecordFailure, LockModel, Recall, Forget, NextTarget, Stop, Exhausted,
       NotifyFailure, Interrupt, Unwind, DropTraceback, CallAgain
<1>1. \E x : pc' = [pc EXCEPT ![c] = x]
  <2>1. pc = [pc EXCEPT ![c] = pc[c]]
    BY DEF Shape
  <2>. QED  BY <2>1 DEF Goto
<1>2. \E x : request' = [request EXCEPT ![c] = x]
  <2>1. request = [request EXCEPT ![c] = request[c]]
    BY DEF Shape
  <2>. QED  BY <2>1
<1>3. \E x : scores' = [scores EXCEPT ![c] = x]
  <2>1. scores = [scores EXCEPT ![c] = scores[c]]
    BY DEF Shape
  <2>. QED  BY <2>1
<1>4. \E x : ranked' = [ranked EXCEPT ![c] = x]
  <2>1. ranked = [ranked EXCEPT ![c] = ranked[c]]
    BY DEF Shape
  <2>. QED  BY <2>1
<1>5. \E x : pos' = [pos EXCEPT ![c] = x]
  <2>1. pos = [pos EXCEPT ![c] = pos[c]]
    BY DEF Shape
  <2>. QED  BY <2>1
<1>6. \E x : rsv' = [rsv EXCEPT ![c] = x]
  <2>1. rsv = [rsv EXCEPT ![c] = rsv[c]]
    BY DEF Shape
  <2>. QED  BY <2>1
<1>7. \E x : reply' = [reply EXCEPT ![c] = x]
  <2>1. reply = [reply EXCEPT ![c] = reply[c]]
    BY DEF Shape
  <2>. QED  BY <2>1
<1>8. \E x : attempts' = [attempts EXCEPT ![c] = x]
  <2>1. attempts = [attempts EXCEPT ![c] = attempts[c]]
    BY DEF Shape
  <2>. QED  BY <2>1 DEF Recorded
<1>9. \E x : error' = [error EXCEPT ![c] = x]
  <2>1. error = [error EXCEPT ![c] = error[c]]
    BY DEF Shape
  <2>. QED  BY <2>1
<1>10. \E x : told' = [told EXCEPT ![c] = x]
  <2>1. told = [told EXCEPT ![c] = told[c]]
    BY DEF Shape
  <2>. QED  BY <2>1
<1>. QED  BY <1>1, <1>2, <1>3, <1>4, <1>5, <1>6, <1>7, <1>8, <1>9, <1>10

LEMMA OthersStay ==
  ASSUME Shape, NEW c \in Calls, Act(c)
  PROVE  \A d \in Calls : d # c =>
           /\ pc'[d] = pc[d] /\ request'[d] = request[d]
           /\ scores'[d] = scores[d] /\ ranked'[d] = ranked[d] /\ pos'[d] = pos[d]
           /\ rsv'[d] = rsv[d] /\ reply'[d] = reply[d]
           /\ attempts'[d] = attempts[d] /\ error'[d] = error[d] /\ told'[d] = told[d]
BY OneEntryChanges DEF Shape

-----------------------------------------------------------------------------
(* The invariant is kept: places and rankings *)

LEMMA CurrentIsTarget ==
  ASSUME Shape, NEW c \in Calls, pos[c] <= Len(ranked[c])
  PROVE  Current(c) \in Targets /\ Current(c)[1] \in Providers
<1>1. ranked[c] \in Seq(Targets) /\ pos[c] \in 1 .. Len(ranked[c])
  BY DEF Shape
<1>. QED  BY <1>1 DEF Current, Providers

\* What enters the metrics keeps them windows of at most the given size.
LEMMA LatestFits ==
  ASSUME NEW S, NEW items \in Seq(S)
  PROVE  Stores!Latest(items) \in Seq(S) /\ Len(Stores!Latest(items)) <= Window
<1>. DEFINE n == Len(items)
            first == IF n > Window THEN n - Window + 1 ELSE 1
<1>1. n \in Nat /\ Window \in Nat /\ first \in Nat \ {0}
  BY StoresAssumption
<1>2. Stores!Latest(items) = SubSeq(items, first, n)
  BY DEF Stores!Latest
<1>3. \A i \in first .. n : items[i] \in S
  BY <1>1
<1>. HIDE DEF first
<1>4. Stores!Latest(items) = [i \in 1 .. (n - first + 1) |-> items[i + first - 1]]
  BY <1>1, <1>2
<1>5. \A i \in 1 .. (n - first + 1) : i + first - 1 \in first .. n
  BY <1>1
<1>6. Stores!Latest(items) \in [1 .. (n - first + 1) -> S]
  BY <1>3, <1>4, <1>5
<1>. USE DEF first
<1>7. CASE first <= n
  <2>1. n - first + 1 \in Nat /\ n - first + 1 <= Window
    BY <1>1
  <2>. HIDE DEF first, n
  <2>. QED  BY <1>6, <2>1
<1>8. CASE n < first
  <2>1. n - first + 1 <= 0 /\ n - first + 1 \in Int
    BY <1>1, <1>8
  <2>2. Stores!Latest(items) = <<>>
    <3>. HIDE DEF first, n
    <3>. QED  BY <1>1, <1>4, <2>1
  <2>. QED  BY <1>1, <2>2
<1>. QED  BY <1>1, <1>7, <1>8

LEMMA RecordFits ==
  ASSUME StoresShape, NEW x \in Targets, NEW ok \in BOOLEAN,
         NEW latency \in Latencies \cup {0}, Stores!Record(x, ok, latency)
  PROVE  StoresShape'
<1>. DEFINE item == [ok |-> ok, latency |-> latency]
            longer == Append(window[x], item)
<1>1. /\ lock' = lock /\ known' = known
      /\ window' = [window EXCEPT ![x] = Stores!Latest(longer)]
  BY DEF Stores!Record
<1>2. window[x] \in Seq(WindowAttempts) /\ item \in WindowAttempts
  BY DEF StoresShape, WindowAttempts
<1>3. longer \in Seq(WindowAttempts)
  <2>. HIDE DEF item
  <2>. QED  BY <1>2
<1>4. /\ Stores!Latest(longer) \in Seq(WindowAttempts)
      /\ Len(Stores!Latest(longer)) <= Window
  <2>. HIDE DEF longer
  <2>. QED  BY <1>3, LatestFits
<1>5. /\ window' \in [Targets -> Seq(WindowAttempts)]
      /\ \A y \in Targets : Len(window'[y]) <= Window
  <2>. HIDE DEF longer
  <2>. QED  BY <1>1, <1>4 DEF StoresShape
<1>. QED  BY <1>1, <1>5 DEF StoresShape

LEMMA LockFits ==
  ASSUME StoresShape, NEW x \in Targets, NEW cooldown,
         Stores!Lock(x, cooldown) \/ Stores!LockRunsOut(x)
  PROVE  StoresShape'
<1>1. known' = known /\ window' = window
  BY DEF Stores!Lock, Stores!LockRunsOut
<1>2. PICK l \in {"open", "timed", "terminal"} : lock' = [lock EXCEPT ![x] = l]
  BY DEF Stores!Lock, Stores!LockRunsOut, Stores!LockState
<1>. QED  BY <1>1, <1>2 DEF StoresShape

LEMMA KnownFits ==
  ASSUME StoresShape, NEW k \in Keys,
         Stores!Forget(k) \/ \E x \in Targets : Stores!Remember(k, x)
  PROVE  StoresShape'
<1>1. lock' = lock /\ window' = window
  BY DEF Stores!Forget, Stores!Remember
<1>2. PICK S \in SUBSET Targets :
        known' = [known EXCEPT ![k] = S] /\ (S = {} \/ \E x \in Targets : S = {x})
  BY DEF Stores!Forget, Stores!Remember
<1>3. Cardinality(S) <= 1
  <2>1. CASE S = {}
    BY <2>1, FS_EmptySet
  <2>2. CASE \E x \in Targets : S = {x}
    <3>1. PICK x \in Targets : S = {x}
      BY <2>2
    <3>2. Cardinality({x}) = 1
      BY FS_Singleton
    <3>. QED  BY <3>1, <3>2
  <2>. QED  BY <1>2, <2>1, <2>2
<1>4. known \in [Keys -> SUBSET Targets]
  BY DEF StoresShape
<1>5. /\ known' \in [Keys -> SUBSET Targets]
      /\ \A l \in Keys : Cardinality(known'[l]) <= 1
  BY <1>2, <1>3, <1>4 DEF StoresShape
<1>. QED  BY <1>1, <1>5 DEF StoresShape

\* The key of a call is one that the stores have.
LEMMA KeyIsKey == Shape => \A c \in Calls : MakeKey(request[c]) \in Keys
BY DEF Shape, Keys

LEMMA StoresKeep ==
  ASSUME IInv, NEW c \in Calls, Act(c)
  PROVE  StoresShape'
<1>1. Shape /\ StoresShape /\ OnRanking(c)
  BY DEF IInv
<1>2. CASE RecordDenied(c) \/ RecordSuccess(c) \/ RecordFailure(c)
  <2>1. pc[c] \in {"denied", "record"}
    BY <1>2 DEF RecordDenied, RecordSuccess, RecordFailure
  <2>2. Current(c) \in Targets
    BY <1>1, <2>1, CurrentIsTarget DEF OnRanking
  <2>3. PICK ok \in BOOLEAN, latency \in Latencies \cup {0} :
          Stores!Record(Current(c), ok, latency)
    BY <1>2 DEF RecordDenied, RecordSuccess, RecordFailure, Recorded
  <2>. QED  BY <1>1, <2>2, <2>3, RecordFits
<1>3. CASE LockModel(c)
  <2>1. pc[c] = "lock" /\ Stores!Lock(Current(c), LockSeconds(Exc(c)))
    BY <1>3 DEF LockModel
  <2>2. Current(c) \in Targets
    BY <1>1, <2>1, CurrentIsTarget DEF OnRanking
  <2>. QED  BY <1>1, <2>1, <2>2, LockFits
<1>4. CASE Remember(c)
  <2>1. pc[c] = "remember" /\ Stores!Remember(MakeKey(request[c]), Current(c))
    BY <1>4 DEF Remember
  <2>2. Current(c) \in Targets
    BY <1>1, <2>1, CurrentIsTarget DEF OnRanking
  <2>. QED  BY <1>1, <2>1, <2>2, KnownFits, KeyIsKey
<1>5. CASE Forget(c)
  <2>1. Stores!Forget(MakeKey(request[c]))
    BY <1>5 DEF Forget
  <2>. QED  BY <1>1, <2>1, KnownFits, KeyIsKey
<1>6. CASE ~(RecordDenied(c) \/ RecordSuccess(c) \/ RecordFailure(c) \/ LockModel(c)
               \/ Remember(c) \/ Forget(c))
  <2>1. UNCHANGED storeVars
    BY <1>6 DEF Act, Step, Refuse, Prepare, Filter, Score, PromoteKnown, Reserve, Denied,
       OutOfBudget, Build, AdapterReplies, ReturnSlot, Return, Recall, Exhausted,
       NotifyFailure, Interrupt, Unwind, DropTraceback, CallAgain
  <2>. QED  BY <1>1, <2>1 DEF StoresShape, storeVars
<1>. QED  BY <1>2, <1>3, <1>4, <1>5, <1>6

\* The scores of a call are numbers, given to targets.
LEMMA ScoresKeep ==
  ASSUME IInv, NEW c \in Calls, Act(c)
  PROVE  AreScores(scores'[c])
<1>1. Shape /\ StoresShape /\ AreScores(scores[c])
  BY DEF IInv, OnRanking
<1>2. CASE Filter(c)
  <2>1. scores'[c] = [x \in {Target(e) : e \in Eligible(request[c], lock)} |-> 0]
    BY <1>1, <1>2 DEF Filter, Shape
  <2>2. Eligible(request[c], lock) \subseteq ToSet(Catalog)
    BY PoolFromCatalog DEF Eligible
  <2>. QED  BY <2>1, <2>2 DEF AreScores, Targets
<1>3. CASE Score(c)
  <2>. DEFINE eligible == {e \in BuildPool(request[c]) : Target(e) \in DOMAIN scores[c]}
  <2>1. scores'[c] = Scores(eligible, request[c], window)
    BY <1>1, <1>3 DEF Score, Shape
  <2>2. Answerable(request[c])
    BY <1>1, RequestsAssumption DEF Shape
  <2>3. \A x \in Targets : window[x] \in Seq(Attempts)
    <3>1. WindowAttempts \subseteq Attempts
      <4>1. Latencies \cup {0} \subseteq Nat
        BY StoresAssumption
      <4>. HIDE DEF Attempts
      <4>2. SUFFICES ASSUME NEW w \in WindowAttempts
                     PROVE  w \in Attempts
        OBVIOUS
      <4>3. PICK ok \in BOOLEAN, n \in Latencies \cup {0} : w = [ok |-> ok, latency |-> n]
        BY DEF WindowAttempts
      <4>. QED  BY <4>1, <4>3 DEF Attempts
    <3>2. \A x \in Targets : window[x] \in Seq(WindowAttempts)
      BY <1>1 DEF StoresShape
    <3>. QED  BY <3>1, <3>2
  <2>4. eligible \in SUBSET ToSet(Catalog)
    BY PoolFromCatalog
  <2>. HIDE DEF eligible
  <2>. QED  BY <2>1, <2>2, <2>3, <2>4, ScoresAreScores
<1>4. CASE PromoteKnown(c)
  <2>1. scores'[c] = NoScores
    BY <1>1, <1>4 DEF PromoteKnown, Shape
  <2>. QED  BY <2>1 DEF NoScores, AreScores
<1>5. CASE ~(Filter(c) \/ Score(c) \/ PromoteKnown(c))
  <2>1. scores' = scores
    BY <1>5 DEF Act, Step, Refuse, Prepare, Reserve, Denied,
       OutOfBudget, RecordDenied, Build, AdapterReplies, ReturnSlot, RecordSuccess, Remember,
       Return, RecordFailure, LockModel, Recall, Forget, NextTarget, Stop, Exhausted,
       NotifyFailure, Interrupt, Unwind, DropTraceback, CallAgain
  <2>. QED  BY <1>1, <2>1
<1>. QED  BY <1>2, <1>3, <1>4, <1>5

\* A ranking is made once per call and names each of its targets once.
LEMMA RankedKeep ==
  ASSUME IInv, NEW c \in Calls, Act(c)
  PROVE  /\ ranked'[c] \in Seq(Targets) /\ IsInjective(ranked'[c])
         /\ ranked'[c] = ranked[c] \/ pos'[c] = 1
         /\ ranked'[c] # ranked[c] => pc'[c] \in {"reserve", "notify", "idle"}
<1>1. Shape /\ OnRanking(c) /\ ranked[c] \in Seq(Targets) /\ IsInjective(ranked[c])
  BY DEF IInv, Shape, OnRanking
<1>2. CASE PromoteKnown(c)
  <2>. DEFINE final == Promote(Sorted(scores[c]), scores[c], known[MakeKey(request[c])])
  <2>1. AreScores(scores[c]) /\ DOMAIN scores[c] \subseteq Targets
    BY <1>1 DEF OnRanking, AreScores
  <2>2. final \in Seq(DOMAIN scores[c]) /\ IsInjective(final)
    BY <2>1, RankingNamesEachOnce
  <2>3. final \in Seq(Targets)
    <3>. HIDE DEF final
    <3>. QED  BY <2>1, <2>2
  <2>4. /\ pc[c] = "promote" /\ pos' = pos
        /\ ranked' = [ranked EXCEPT ![c] = final]
        /\ pc'[c] \in {"reserve", "notify"}
    BY <1>1, <1>2 DEF PromoteKnown, Goto, Shape
  <2>. HIDE DEF final
  <2>. QED  BY <1>1, <2>2, <2>3, <2>4 DEF Shape, OnRanking
<1>3. CASE CallAgain(c)
  <2>1. ranked'[c] = <<>> /\ pos'[c] = 1 /\ pc'[c] = "idle"
    BY <1>1, <1>3 DEF CallAgain, Goto, Shape
  <2>. QED  BY <2>1 DEF IsInjective
<1>4. CASE ~(PromoteKnown(c) \/ CallAgain(c))
  <2>1. ranked' = ranked
    BY <1>4 DEF Act, Step, Refuse, Prepare, Filter, Score, Reserve, Denied,
       OutOfBudget, RecordDenied, Build, AdapterReplies, ReturnSlot, RecordSuccess, Remember,
       Return, RecordFailure, LockModel, Recall, Forget, NextTarget, Stop, Exhausted,
       NotifyFailure, Interrupt, Unwind, DropTraceback
  <2>. QED  BY <1>1, <2>1
<1>. QED  BY <1>2, <1>3, <1>4

\* A call advances only past a target it was at.
LEMMA PosKeep ==
  ASSUME IInv, NEW c \in Calls, Act(c)
  PROVE  \/ pos'[c] = pos[c]
         \/ /\ pos[c] <= Len(ranked[c]) /\ pos'[c] = pos[c] + 1
            /\ ranked' = ranked /\ pc'[c] = "reserve"
         \/ pos'[c] = 1 /\ pc'[c] = "idle"
<1>1. Shape /\ OnRanking(c)
  BY DEF IInv
<1>2. CASE RecordDenied(c)
  BY <1>1, <1>2 DEF RecordDenied, Goto, Shape, OnRanking
<1>3. CASE Recall(c) \/ Forget(c)
  <2>1. pc[c] \in {"recall", "forget"} /\ ranked' = ranked
    BY <1>3 DEF Recall, Forget
  <2>2. CASE NextTarget(c)
    BY <1>1, <2>1, <2>2 DEF NextTarget, Goto, Shape, OnRanking
  <2>3. CASE ~NextTarget(c)
    <3>1. pos' = pos
      BY <1>3, <2>3 DEF Recall, Forget, Stop
    <3>. QED  BY <3>1
  <2>. QED  BY <2>2, <2>3
<1>4. CASE CallAgain(c)
  BY <1>1, <1>4 DEF CallAgain, Goto, Shape
<1>5. CASE ~(RecordDenied(c) \/ Recall(c) \/ Forget(c) \/ CallAgain(c))
  <2>1. pos' = pos
    BY <1>5 DEF Act, Step, Refuse, Prepare, Filter, Score, PromoteKnown, Reserve, Denied,
       OutOfBudget, Build, AdapterReplies, ReturnSlot, RecordSuccess, Remember,
       Return, RecordFailure, LockModel, Exhausted,
       NotifyFailure, Interrupt, Unwind, DropTraceback
  <2>. QED  BY <2>1
<1>. QED  BY <1>2, <1>3, <1>4, <1>5

-----------------------------------------------------------------------------
(* The invariant is kept: reservations *)

LEMMA NoObjNotHeld == Shape => NoObj \notin held
BY ObjectsAssumption DEF Shape

\* A call that has a reservation has a live object at an address.
LEMMA OwnObject ==
  ASSUME IInv, NEW c \in Calls, rsv[c] # NoObj
  PROVE  rsv[c] \in Addrs /\ live[rsv[c]] \in Providers
<1>1. rsv[c] \in Addrs /\ live[rsv[c]] # NoObj
  BY DEF IInv, Shape, Own
<1>. QED  BY <1>1 DEF IInv, Shape

\* What try_reserve did: a free address became the call's own.
LEMMA Reserved ==
  ASSUME IInv, NEW c \in Calls, Reserve(c)
  PROVE  \E a \in Addrs, p \in Providers :
           /\ p = Current(c)[1]
           /\ Limiter!TryReserve(p, a)
           /\ live[a] = NoObj /\ live' = [live EXCEPT ![a] = p] /\ held' = held \cup {a}
           /\ rsv' = [rsv EXCEPT ![c] = a] /\ rsv[c] = NoObj
           /\ pc[c] = "reserve" /\ pc' = [pc EXCEPT ![c] = "build"]
           /\ pos[c] <= Len(ranked[c])
           /\ \A d \in Calls : rsv[d] # a
<1>1. PICK a \in Addrs : Limiter!TryReserve(Current(c)[1], a) /\ rsv' = [rsv EXCEPT ![c] = a]
  BY DEF Reserve
<1>2. pc[c] = "reserve" /\ pc' = [pc EXCEPT ![c] = "build"] /\ ~AtEnd(c)
  BY DEF Reserve, Goto
<1>3. pos[c] <= Len(ranked[c])
  <2>1. pos[c] \in Nat /\ Len(ranked[c]) \in Nat
    BY DEF IInv, Shape
  <2>. QED  BY <1>2, <2>1 DEF AtEnd
<1>4. PICK p \in Providers : p = Current(c)[1]
  BY <1>3, CurrentIsTarget DEF IInv
<1>5. /\ live[a] = NoObj /\ live' = [live EXCEPT ![a] = p] /\ held' = held \cup {a}
  BY <1>1, <1>4 DEF Limiter!TryReserve
<1>6. rsv[c] = NoObj
  BY <1>2 DEF IInv, Stage
<1>7. \A d \in Calls : rsv[d] # a
  BY <1>5, ObjectsAssumption DEF IInv, Own
<1>. QED  BY <1>1, <1>2, <1>3, <1>4, <1>5, <1>6, <1>7

\* A reservation that is not held is not held after a step of another call
\* either: a new one has an address of its own.
LEMMA HeldByOthers ==
  ASSUME IInv, NEW c \in Calls, Act(c), NEW d \in Calls, d # c, rsv[d] \notin held
  PROVE  rsv[d] \notin held'
<1>1. CASE Reserve(c)
  BY <1>1, Reserved
<1>2. CASE Drops(c) \/ Collects(c)
  BY <1>2 DEF Drops, Collects, Limiter!Drop, Limiter!Collect
<1>3. CASE Rests(c)
  BY <1>3 DEF Rests, limiterVars
<1>. QED  BY <1>1, <1>2, <1>3, LimiterKinds DEF IInv

LEMMA LimiterKeep ==
  ASSUME IInv, NEW c \in Calls, Act(c)
  PROVE  /\ pc' \in [Calls -> PCs]
         /\ rsv' \in [Calls -> Addrs \cup {NoObj}]
         /\ held' \subseteq Addrs
         /\ live' \in [Addrs -> Providers \cup {NoObj}]
<1>1. /\ pc \in [Calls -> PCs] /\ rsv \in [Calls -> Addrs \cup {NoObj}]
      /\ held \subseteq Addrs /\ live \in [Addrs -> Providers \cup {NoObj}]
  BY DEF IInv, Shape
<1>2. PICK l : pc' = [pc EXCEPT ![c] = l]
  BY OneEntryChanges DEF IInv
<1>3. CASE Reserve(c)
  BY <1>1, <1>3, Reserved DEF PCs
<1>4. CASE Drops(c)
  <2>1. l \in PCs
    BY <1>1, <1>2, <1>4 DEF Drops, PCs
  <2>. QED  BY <1>1, <1>2, <1>4, <2>1 DEF Drops, Limiter!Drop
<1>5. CASE Collects(c)
  <2>1. l \in PCs
    <3>1. pc'[c] \in {"reserve", "returned", pc[c]}
      BY <1>5 DEF Collects
    <3>. QED  BY <1>1, <1>2, <3>1 DEF PCs
  <2>. QED  BY <1>1, <1>2, <1>5, <2>1 DEF Collects, Limiter!Collect
<1>6. CASE Rests(c)
  <2>1. l \in PCs
    <3>1. pc'[c] \in PCs
      BY <1>6 DEF Rests, Moves, PCs
    <3>. QED  BY <1>1, <1>2, <3>1
  <2>. QED  BY <1>1, <1>2, <1>6, <2>1 DEF Rests, limiterVars
<1>. QED  BY <1>3, <1>4, <1>5, <1>6, LimiterKinds DEF IInv

LEMMA OwnKeep ==
  ASSUME IInv, NEW c \in Calls, Act(c)
  PROVE  Own'
<1>1. Shape /\ Own
  BY DEF IInv
<1>2. \A d \in Calls : d # c => rsv'[d] = rsv[d]
  BY <1>1, OthersStay
<1>3. CASE Reserve(c)
  <2>1. PICK a \in Addrs, p \in Providers :
          /\ live' = [live EXCEPT ![a] = p] /\ rsv' = [rsv EXCEPT ![c] = a]
          /\ \A d \in Calls : rsv[d] # a
    BY <1>3, Reserved
  <2>2. rsv'[c] = a /\ live'[a] # NoObj /\ \A b \in Addrs : b # a => live'[b] = live[b]
    BY <1>1, <2>1, ObjectsAssumption DEF Shape
  <2>3. \A d \in Calls : rsv'[d] # NoObj => live'[rsv'[d]] # NoObj
    BY <1>1, <1>2, <2>1, <2>2 DEF Shape, Own
  <2>4. \A d, e \in Calls : d # e /\ rsv'[d] = rsv'[e] => rsv'[d] = NoObj
    BY <1>1, <1>2, <2>1, <2>2 DEF Own
  <2>. QED  BY <2>3, <2>4 DEF Own
<1>4. CASE Collects(c)
  <2>1. live' = [live EXCEPT ![rsv[c]] = NoObj] /\ rsv' = [rsv EXCEPT ![c] = NoObj]
    BY <1>4 DEF Collects, Limiter!Collect
  <2>2. rsv'[c] = NoObj
    BY <1>1, <2>1 DEF Shape
  <2>3. ASSUME NEW d \in Calls, rsv'[d] # NoObj
        PROVE  live'[rsv'[d]] # NoObj
    <3>1. d # c /\ rsv'[d] = rsv[d] /\ rsv[d] \in Addrs /\ rsv[d] # rsv[c]
      BY <1>1, <1>2, <2>2, <2>3 DEF Shape, Own
    <3>. QED  BY <1>1, <2>1, <2>3, <3>1 DEF Shape, Own
  <2>4. \A d, e \in Calls : d # e /\ rsv'[d] = rsv'[e] => rsv'[d] = NoObj
    BY <1>1, <1>2, <2>2 DEF Own
  <2>. QED  BY <2>3, <2>4 DEF Own
<1>5. CASE Drops(c) \/ Rests(c)
  <2>1. live' = live /\ rsv' = rsv
    BY <1>5 DEF Drops, Rests, Limiter!Drop, limiterVars
  <2>. QED  BY <1>1, <2>1 DEF Own
<1>. QED  BY <1>1, <1>3, <1>4, <1>5, LimiterKinds

LEMMA StageKeep ==
  ASSUME IInv, NEW c \in Calls, Act(c), NEW d \in Calls
  PROVE  Stage(d)'
<1>1. Shape /\ Stage(c) /\ Stage(d)
  BY DEF IInv
<1>2. CASE d # c
  <2>1. pc'[d] = pc[d] /\ rsv'[d] = rsv[d]
    BY <1>1, <1>2, OthersStay
  <2>2. rsv[d] \notin held => rsv[d] \notin held'
    BY <1>2, HeldByOthers
  <2>. QED  BY <1>1, <2>1, <2>2 DEF Stage
<1>3. CASE d = c
  <2>1. CASE Reserve(c)
    <3>1. pc'[c] = "build" /\ rsv'[c] # NoObj
      BY <1>1, <2>1, Reserved, ObjectsAssumption DEF Shape
    <3>. QED  BY <1>3, <3>1 DEF Stage
  <2>2. CASE Drops(c)
    <3>1. rsv'[c] = rsv[c] /\ rsv[c] \notin held'
      BY <2>2 DEF Drops, Limiter!Drop
    <3>. QED  BY <1>1, <1>3, <2>2, <3>1 DEF Stage, Drops
  <2>3. CASE Collects(c)
    <3>1. rsv'[c] = NoObj /\ held' = held
      BY <1>1, <2>3 DEF Collects, Limiter!Collect, Shape
    <3>2. NoObj \notin held'
      BY <1>1, <3>1, NoObjNotHeld
    <3>. QED  BY <1>1, <1>3, <2>3, <3>1, <3>2 DEF Stage, Collects, Ended
  <2>4. CASE Rests(c)
    <3>1. rsv'[c] = rsv[c] /\ held' = held /\ NoObj \notin held /\ Moves(c)
      BY <1>1, <2>4, NoObjNotHeld DEF Rests, limiterVars
    <3>2. CASE UnderTry(c) /\ pc'[c] = "unwind" /\ c \in Interruptible
      BY <1>3, <3>1, <3>2 DEF Stage, UnderTry
    <3>3. CASE pc'[c] = "interrupted" /\ c \in Interruptible
      BY <1>3, <3>1, <3>3 DEF Stage
    <3>4. CASE ~(c \in Interruptible /\ pc'[c] \in {"unwind", "interrupted"})
      BY <1>1, <1>3, <3>1, <3>4 DEF Stage, Moves, Ended
    <3>. QED  BY <3>1, <3>2, <3>3, <3>4 DEF Moves
  <2>. QED  BY <1>1, <2>1, <2>2, <2>3, <2>4, LimiterKinds
<1>. QED  BY <1>2, <1>3

-----------------------------------------------------------------------------
(* The invariant holds *)

LEMMA CallsKeep ==
  ASSUME IInv, NEW c \in Calls, Act(c)
  PROVE  /\ request' \in [Calls -> Requests]
         /\ reply' \in [Calls -> Replies \cup {NoReply}]
         /\ lastRoute' \in Calls \cup {NoObj}
<1>1. /\ request \in [Calls -> Requests] /\ reply \in [Calls -> Replies \cup {NoReply}]
      /\ lastRoute \in Calls \cup {NoObj}
  BY DEF IInv, Shape
<1>. USE DEF Act, Step, Refuse, Prepare, Filter, Score, PromoteKnown, Reserve, Denied,
       OutOfBudget, RecordDenied, Build, AdapterReplies, ReturnSlot, RecordSuccess, Remember,
       Return, RecordFailure, LockModel, Recall, Forget, NextTarget, Stop, Exhausted,
       NotifyFailure, Interrupt, Unwind, DropTraceback, CallAgain
<1>2. request' = request \/ \E r \in Requests : request' = [request EXCEPT ![c] = r]
  OBVIOUS
<1>3. reply' = reply \/ \E r \in Replies \cup {NoReply} : reply' = [reply EXCEPT ![c] = r]
  OBVIOUS
<1>4. lastRoute' = lastRoute \/ lastRoute' = c
  OBVIOUS
<1>5. request' \in [Calls -> Requests]
  BY ONLY <1>1, <1>2
<1>6. reply' \in [Calls -> Replies \cup {NoReply}]
  BY ONLY <1>1, <1>3
<1>. QED  BY <1>1, <1>4, <1>5, <1>6

LEMMA ShapeKeeps ==
  ASSUME IInv, NEW c \in Calls, Act(c)
  PROVE  Shape'
<1>1. Shape
  BY DEF IInv
<1>2. ranked' \in [Calls -> Seq(Targets)]
  <2>1. PICK x : ranked' = [ranked EXCEPT ![c] = x]
    BY <1>1, OneEntryChanges
  <2>2. ranked'[c] = x
    BY <1>1, <2>1 DEF Shape
  <2>3. x \in Seq(Targets)
    BY <2>2, RankedKeep
  <2>. QED  BY <1>1, <2>1, <2>3 DEF Shape
<1>3. pos' \in [Calls -> Nat \ {0}]
  <2>1. PICK x : pos' = [pos EXCEPT ![c] = x]
    BY <1>1, OneEntryChanges
  <2>2. pos'[c] = x /\ pos[c] \in Nat \ {0}
    BY <1>1, <2>1 DEF Shape
  <2>3. x \in Nat \ {0}
    BY <2>2, PosKeep
  <2>. QED  BY <1>1, <2>1, <2>3 DEF Shape
<1>4. Tables'
  <2>1. Tables
    BY <1>1 DEF Shape, Tables
  <2>. QED  BY <1>1, <2>1, OneEntryChanges DEF Tables
<1>. QED  BY <1>2, <1>3, <1>4, CallsKeep, LimiterKeep DEF Shape, Tables

\* The labels at which a call has a target to deal with.
AtTarget ==
  {"denied", "build", "call", "release", "record", "lock", "recall", "forget",
   "remember", "report"}

LEMMA OnRankingKeep ==
  ASSUME IInv, NEW c \in Calls, Act(c), NEW d \in Calls
  PROVE  OnRanking(d)'
<1>1. Shape /\ OnRanking(c) /\ OnRanking(d)
  BY DEF IInv
<1>2. CASE d # c
  <2>1. /\ pc'[d] = pc[d] /\ scores'[d] = scores[d]
        /\ ranked'[d] = ranked[d] /\ pos'[d] = pos[d]
    BY <1>1, <1>2, OthersStay
  <2>. QED  BY <1>1, <2>1 DEF OnRanking
<1>3. CASE d = c
  <2>1. AreScores(scores'[c]) /\ IsInjective(ranked'[c])
    BY ScoresKeep, RankedKeep
  <2>2. /\ pos[c] \in Nat \ {0} /\ Len(ranked[c]) \in Nat
        /\ pos'[c] \in Nat \ {0} /\ Len(ranked'[c]) \in Nat
    BY <1>1, ShapeKeeps DEF Shape
  <2>3. pos'[c] <= Len(ranked'[c]) + 1
    <3>1. CASE pos'[c] = 1
      BY <2>2, <3>1
    <3>2. CASE pos'[c] # 1
      <4>1. ranked'[c] = ranked[c]
        BY <3>2, RankedKeep
      <4>2. pos'[c] = pos[c] \/ (pos[c] <= Len(ranked[c]) /\ pos'[c] = pos[c] + 1)
        BY <3>2, PosKeep
      <4>. QED  BY <1>1, <2>2, <4>1, <4>2 DEF OnRanking
    <3>. QED  BY <3>1, <3>2
  <2>4. pc[c] \in PCs /\ pc'[c] \in PCs
    BY <1>1, ShapeKeeps DEF Shape
  <2>5. ASSUME pc'[c] \in {"idle", "filter", "score", "promote"}
        PROVE  pos'[c] = 1
    <3>1. CASE pos'[c] = pos[c] /\ pc'[c] # "idle"
      <4>1. pc[c] \in {"idle", "filter", "score"}
        BY <1>1, <2>4, <2>5, <3>1, LimiterKinds, Reserved
           DEF Drops, Collects, Rests, Moves, Ended, PCs, Shape
      <4>. QED  BY <1>1, <3>1, <4>1 DEF OnRanking
    <3>2. CASE pc'[c] = "idle"
      <4>1. CallAgain(c)
        BY <1>1, <2>4, <3>2 DEF Act, Step, Refuse, Prepare, Filter, Score, PromoteKnown,
           Reserve, Denied, OutOfBudget, RecordDenied, Build, AdapterReplies, ReturnSlot,
           RecordSuccess, Remember, Return, RecordFailure, LockModel, Recall, Forget,
           NextTarget, Stop, Exhausted, NotifyFailure, Interrupt, Unwind, DropTraceback,
           Goto, Shape, Ended
      <4>. QED  BY <1>1, <4>1 DEF CallAgain, Shape
    <3>. QED  BY <2>5, <3>1, <3>2, PosKeep
  <2>6. ASSUME pc'[c] \in AtTarget
        PROVE  pos'[c] <= Len(ranked'[c])
    <3>1. pos'[c] = pos[c] /\ ranked'[c] = ranked[c]
      <4>1. pc'[c] \notin {"reserve", "notify", "idle"}
        BY <2>6 DEF AtTarget
      <4>. QED  BY <4>1, PosKeep, RankedKeep
    <3>2. pos[c] <= Len(ranked[c])
      <4>1. CASE Denied(c) \/ Reserve(c)
        BY <2>2, <4>1 DEF Denied, Reserve, AtEnd
      <4>2. CASE ~Denied(c) /\ ~Reserve(c)
        <5>1. pc[c] \in AtTarget
          BY <1>1, <2>4, <2>6, <4>2 DEF Act, Step, Refuse, Prepare, Filter, Score,
             PromoteKnown, OutOfBudget, RecordDenied, Build, AdapterReplies, ReturnSlot,
             RecordSuccess, Remember, Return, RecordFailure, LockModel, Recall, Forget,
             NextTarget, Stop, Exhausted, NotifyFailure, Interrupt, Unwind, DropTraceback,
             CallAgain, Goto, Shape, AtTarget, Ended
        <5>. QED  BY <1>1, <5>1 DEF OnRanking, AtTarget
      <4>. QED  BY <4>1, <4>2
    <3>. QED  BY <3>1, <3>2
  <2>. QED  BY <1>3, <2>1, <2>3, <2>5, <2>6 DEF OnRanking, AtTarget
<1>. QED  BY <1>2, <1>3

\* The stores keep the targets and the keys of the client's catalog and requests.
LEMMA SameNames == Stores!Targets = Targets /\ Stores!Keys = Keys
BY DEF Stores!Targets, Targets, Stores!Target, Target, Stores!ToSet, ToSet,
   Stores!Keys, Keys, Stores!MakeKey, MakeKey

LEMMA SameCount == \A S : Stores!Cardinality(S) = Cardinality(S)
BY DEF Stores!Cardinality, Cardinality

LEMMA InitHolds == Init => IInv
<1> SUFFICES ASSUME Init PROVE IInv
  OBVIOUS
<1>1. Shape
  <2>1. held \subseteq Addrs /\ live \in [Addrs -> Providers \cup {NoObj}]
    BY DEF Init, Limiter!Init
  <2>2. ranked \in [Calls -> Seq(Targets)]
    BY DEF Init
  <2>3. /\ scores = [c \in Calls |-> scores[c]]
        /\ attempts = [c \in Calls |-> attempts[c]]
        /\ error = [c \in Calls |-> error[c]]
        /\ told = [c \in Calls |-> told[c]]
    BY DEF Init
  <2>4. /\ pc \in [Calls -> PCs] /\ request \in [Calls -> Requests]
        /\ pos \in [Calls -> Nat \ {0}] /\ rsv \in [Calls -> Addrs \cup {NoObj}]
        /\ reply \in [Calls -> Replies \cup {NoReply}] /\ lastRoute \in Calls \cup {NoObj}
    BY DEF Init, PCs
  <2>. QED  BY <2>1, <2>2, <2>3, <2>4 DEF Shape
<1>2. StoresShape
  <2>1. /\ lock = [x \in Targets |-> "open"] /\ known = [k \in Keys |-> {}]
        /\ window = [x \in Targets |-> <<>>]
    BY SameNames DEF Init, Stores!Init
  <2>2. Cardinality({}) = 0 /\ Len(<<>>) = 0 /\ <<>> \in Seq(WindowAttempts)
    BY FS_EmptySet
  <2>. QED  BY <2>1, <2>2, StoresAssumption DEF StoresShape
<1>3. Own
  BY DEF Init, Own
<1>4. ASSUME NEW c \in Calls PROVE OnRanking(c) /\ Stage(c)
  <2>1. /\ pc[c] = "idle" /\ scores[c] = NoScores /\ ranked[c] = <<>>
        /\ pos[c] = 1 /\ rsv[c] = NoObj
    BY DEF Init
  <2>2. AreScores(NoScores) /\ IsInjective(<<>>)
    BY DEF AreScores, NoScores, IsInjective
  <2>. QED  BY <2>1, <2>2 DEF OnRanking, Stage
<1>. QED  BY <1>1, <1>2, <1>3, <1>4 DEF IInv

LEMMA Stutter == IInv /\ UNCHANGED vars => IInv'
BY DEF IInv, Shape, StoresShape, Own, OnRanking, Stage, vars, limiterVars, storeVars, callVars

LEMMA TimeKeeps == IInv /\ TimePasses => IInv'
<1> SUFFICES ASSUME IInv, TimePasses PROVE IInv'
  OBVIOUS
<1>1. UNCHANGED <<limiterVars, lastRoute, callVars>>
  BY DEF TimePasses
<1>2. StoresShape'
  BY LockFits, KnownFits DEF TimePasses, IInv
<1>. QED  BY <1>1, <1>2 DEF IInv, Shape, Own, OnRanking, Stage, limiterVars, callVars

LEMMA NextKeeps == IInv /\ [Next]_vars => IInv'
<1> SUFFICES ASSUME IInv, [Next]_vars PROVE IInv'
  OBVIOUS
<1>1. ASSUME NEW c \in Calls, Act(c) PROVE IInv'
  BY <1>1, ShapeKeeps, StoresKeep, OwnKeep, OnRankingKeep, StageKeep DEF IInv
<1>. QED  BY <1>1, TimeKeeps, Stutter DEF Next, Act

LEMMA Inductive == Spec => []IInv
BY InitHolds, NextKeeps, PTL DEF Spec

-----------------------------------------------------------------------------
(* Lost slots *)

\* A call that returned or raised by itself holds no slot, whatever path it took
\* through _on_success, _on_failure, a rejected text or the end of the ranking.
THEOREM EndedHoldsNone ==
  Spec => [](\A c \in Calls : pc[c] \in {"returned", "raised"} => ~Holds(c))
<1>1. IInv => \A c \in Calls : pc[c] \in {"returned", "raised"} => ~Holds(c)
  BY DEF IInv, Stage, Holds
<1>. QED  BY <1>1, Inductive, PTL

\* The calls that were interrupted and whose reservation object is gone: each
\* of them lost one slot at most.
Leakers == {c \in Interruptible : pc[c] = "interrupted" /\ rsv[c] = NoObj}

LeakInv ==
  /\ lostAll \in Nat
  /\ lostAll <= Cardinality(Leakers)

\* A call that was interrupted and is not made again stays so, and what it lost
\* is not found again.
LEMMA LeakersGrow ==
  ASSUME Interruptible \cap Repeated = {}, IInv, NEW c \in Calls, Act(c)
  PROVE  Leakers \subseteq Leakers'
<1>1. Shape /\ Stage(c)
  BY DEF IInv
<1>2. \A d \in Calls : d # c => pc'[d] = pc[d] /\ rsv'[d] = rsv[d]
  BY <1>1, OthersStay
<1>3. ASSUME c \in Leakers PROVE FALSE
  <2>1. c \in Interruptible /\ pc[c] = "interrupted" /\ rsv[c] = NoObj /\ c \notin Repeated
    BY <1>3 DEF Leakers
  <2>. QED  BY <1>1, <2>1, LimiterKinds, Reserved DEF Drops, Collects, Rests, Moves, Ended
<1>. QED  BY <1>2, <1>3, CallsAssumption DEF Leakers

\* The slots lost so far are covered by more leakers than before.
LEMMA MoreLeakers ==
  ASSUME Leakers \subseteq Leakers', lostAll' = lostAll, LeakInv
  PROVE  LeakInv'
<1>1. IsFiniteSet(Leakers')
  BY ThreadsAssumption, FS_Subset DEF Leakers
<1>2. Leakers \in SUBSET Leakers'
  OBVIOUS
<1>3. IsFiniteSet(Leakers) /\ Cardinality(Leakers) <= Cardinality(Leakers')
  BY <1>1, <1>2, FS_Subset
<1>4. Cardinality(Leakers) \in Nat /\ Cardinality(Leakers') \in Nat
  BY <1>1, <1>3, FS_CardinalityType
<1>. QED  BY <1>3, <1>4 DEF LeakInv

\* Only the traceback of an interrupted call takes a slot with it.
LEMMA LossIsDropped ==
  ASSUME IInv, NEW c \in Calls, Act(c)
  PROVE  \/ lostAll' = lostAll
         \/ /\ lostAll' = lostAll + 1
            /\ c \in Interruptible /\ pc[c] = "interrupted" /\ rsv[c] # NoObj
            /\ pc'[c] = "interrupted" /\ rsv'[c] = NoObj
<1>1. Shape /\ Stage(c)
  BY DEF IInv
<1>2. CASE Collects(c) /\ rsv[c] \in held
  <2>1. Ended(c) /\ rsv[c] # NoObj /\ pc'[c] = pc[c]
    BY <1>1, <1>2 DEF Collects, Stage
  <2>2. pc[c] = "interrupted" /\ c \in Interruptible
    BY <1>1, <1>2, <2>1 DEF Ended, Stage
  <2>3. lostAll' = lostAll + 1 /\ rsv'[c] = NoObj
    BY <1>1, <1>2 DEF Collects, Limiter!Collect, Shape
  <2>. QED  BY <2>1, <2>2, <2>3
<1>3. CASE Collects(c) /\ rsv[c] \notin held
  BY <1>3 DEF Collects, Limiter!Collect
<1>4. CASE Reserve(c) \/ Drops(c) \/ Rests(c)
  BY <1>4 DEF Reserve, Drops, Rests, limiterVars, Limiter!TryReserve, Limiter!Drop
<1>. QED  BY <1>1, <1>2, <1>3, <1>4, LimiterKinds

LEMMA NextLeaks ==
  ASSUME Interruptible \cap Repeated = {}
  PROVE  IInv /\ LeakInv /\ [Next]_vars => LeakInv'
<1> SUFFICES ASSUME IInv, LeakInv, [Next]_vars PROVE LeakInv'
  OBVIOUS
<1>1. ASSUME NEW c \in Calls, Act(c)
      PROVE  LeakInv'
  <2>1. Leakers \subseteq Leakers'
    BY <1>1, LeakersGrow
  <2>2. CASE lostAll' = lostAll
    BY <2>1, <2>2, MoreLeakers
  <2>3. CASE /\ lostAll' = lostAll + 1
             /\ c \in Interruptible /\ pc[c] = "interrupted" /\ rsv[c] # NoObj
             /\ pc'[c] = "interrupted" /\ rsv'[c] = NoObj
    <3>1. Leakers \cup {c} \subseteq Leakers' /\ c \notin Leakers
      BY <2>1, <2>3 DEF Leakers
    <3>2. IsFiniteSet(Leakers) /\ IsFiniteSet(Leakers')
      BY ThreadsAssumption, FS_Subset DEF Leakers
    <3>3. Cardinality(Leakers \cup {c}) = Cardinality(Leakers) + 1
      BY <3>1, <3>2, FS_AddElement
    <3>4. Cardinality(Leakers \cup {c}) <= Cardinality(Leakers')
      BY <3>1, <3>2, FS_Subset
    <3>5. Cardinality(Leakers) \in Nat /\ Cardinality(Leakers') \in Nat
      BY <3>2, FS_CardinalityType
    <3>. QED  BY <2>3, <3>3, <3>4, <3>5 DEF LeakInv
  <2>. QED  BY <1>1, <2>2, <2>3, LossIsDropped
<1>2. CASE TimePasses \/ UNCHANGED vars
  <2>1. UNCHANGED <<pc, rsv, lostAll>>
    BY <1>2 DEF TimePasses, vars, callVars, limiterVars
  <2>. QED  BY <2>1 DEF LeakInv, Leakers
<1>. QED  BY <1>1, <1>2 DEF Next, Act

\* When no thread that can be interrupted calls again, no more slots are lost
\* than threads were interrupted: every other end of a call, and the finally
\* clause, gives its slot back.
THEOREM OnlyInterruptionsLeak ==
  ASSUME Interruptible \cap Repeated = {}
  PROVE  Spec => []OnlyInterruptsLeak
<1>1. Init => LeakInv
  <2> SUFFICES ASSUME Init PROVE LeakInv
    OBVIOUS
  <2>1. lostAll = 0 /\ \A c \in Calls : pc[c] = "idle"
    BY DEF Init, Limiter!Init
  <2>2. Leakers = {}
    BY <2>1, CallsAssumption DEF Leakers
  <2>. QED  BY <2>1, <2>2, FS_EmptySet DEF LeakInv
<1>2. IInv /\ LeakInv /\ [Next]_vars => LeakInv'
  BY NextLeaks
<1>3. IInv /\ LeakInv => OnlyInterruptsLeak
  <2> SUFFICES ASSUME IInv, LeakInv PROVE OnlyInterruptsLeak
    OBVIOUS
  <2>1. \A c \in Calls : pc[c] \in {"returned", "raised"} => ~Holds(c)
    BY DEF IInv, Stage, Holds
  <2> DEFINE Cut == {c \in Interruptible : pc[c] = "interrupted"}
  <2>2. IsFiniteSet(Cut) /\ Leakers \in SUBSET Cut
    BY ThreadsAssumption, FS_Subset DEF Leakers
  <2>3. IsFiniteSet(Leakers) /\ Cardinality(Leakers) <= Cardinality(Cut)
    BY <2>2, FS_Subset
  <2>4. Cardinality(Leakers) \in Nat /\ Cardinality(Cut) \in Nat
    BY <2>2, <2>3, FS_CardinalityType
  <2>5. lostAll <= Cardinality(Cut)
    BY <2>3, <2>4 DEF LeakInv
  <2>. QED  BY <2>1, <2>5 DEF OnlyInterruptsLeak
<1>. QED
  BY <1>1, <1>2, <1>3, Inductive, PTL DEF Spec

-----------------------------------------------------------------------------
(* Held slots *)

\* The calls that hold a slot, and those that hold one of a provider.
Holders == {c \in Calls : Holds(c)}
HoldersOf(p) == {c \in Calls : Holds(c) /\ live[rsv[c]] = p}

\* The counters are the holders and the losses.  Holders are finitely many, as
\* every call takes its slot in a step of its own.
SlotInv ==
  /\ inflight \in [Providers -> Nat] /\ globalInflight \in Nat
  /\ lost \in [Providers -> Nat] /\ lostAll \in Nat
  /\ IsFiniteSet(Holders)
  /\ \A p \in Providers : inflight[p] = Cardinality(HoldersOf(p)) + lost[p]
  /\ globalInflight = Cardinality(Holders) + lostAll

LEMMA HoldersFinite ==
  ASSUME SlotInv
  PROVE  /\ Cardinality(Holders) \in Nat
         /\ \A p : IsFiniteSet(HoldersOf(p)) /\ Cardinality(HoldersOf(p)) \in Nat
<1>1. IsFiniteSet(Holders)
  BY DEF SlotInv
<1>2. \A p : HoldersOf(p) \in SUBSET Holders
  BY DEF HoldersOf, Holders
<1>3. \A p : IsFiniteSet(HoldersOf(p))
  BY <1>1, <1>2, FS_Subset
<1>. QED  BY <1>1, <1>3, FS_CardinalityType

\* A reservation makes its call a holder; nobody else becomes or stays one for
\* a reason of its own.
LEMMA ReserveSlots ==
  ASSUME IInv, SlotInv, NEW c \in Calls, Reserve(c)
  PROVE  SlotInv'
<1>1. PICK a \in Addrs, p \in Providers :
        /\ Limiter!TryReserve(p, a)
        /\ live[a] = NoObj /\ live' = [live EXCEPT ![a] = p] /\ held' = held \cup {a}
        /\ rsv' = [rsv EXCEPT ![c] = a] /\ rsv[c] = NoObj
        /\ \A d \in Calls : rsv[d] # a
  BY Reserved
<1>2. /\ inflight' = [inflight EXCEPT ![p] = @ + 1]
      /\ globalInflight' = globalInflight + 1
      /\ UNCHANGED <<lost, lostAll>>
  BY <1>1 DEF Limiter!TryReserve
<1>3. ~Holds(c) /\ Holds(c)' /\ (live[rsv[c]] = p)'
  BY <1>1, ObjectsAssumption DEF Holds, IInv, Shape
<1>4. ASSUME NEW d \in Calls, d # c
      PROVE  /\ Holds(d)' <=> Holds(d)
             /\ Holds(d) => live'[rsv'[d]] = live[rsv[d]]
  <2>1. rsv'[d] = rsv[d] /\ rsv[d] # a
    BY <1>1, <1>4 DEF IInv, Shape
  <2>2. Holds(d)' <=> Holds(d)
    BY <1>1, <2>1 DEF Holds
  <2>3. Holds(d) => live'[rsv[d]] = live[rsv[d]]
    BY <1>1, <2>1, OwnObject DEF Holds, IInv, Shape
  <2>. QED  BY <2>1, <2>2, <2>3
<1>5. Holders' = Holders \cup {c} /\ c \notin Holders
  BY <1>3, <1>4 DEF Holders
<1>6. HoldersOf(p)' = HoldersOf(p) \cup {c} /\ c \notin HoldersOf(p)
  BY <1>3, <1>4 DEF HoldersOf
<1>7. \A q \in Providers : q # p => HoldersOf(q)' = HoldersOf(q)
  BY <1>3, <1>4 DEF HoldersOf
<1>8. /\ IsFiniteSet(Holders')
      /\ Cardinality(Holders') = Cardinality(Holders) + 1
      /\ Cardinality(HoldersOf(p)') = Cardinality(HoldersOf(p)) + 1
  BY <1>5, <1>6, HoldersFinite, FS_AddElement DEF SlotInv
<1>9. globalInflight' = Cardinality(Holders') + lostAll'
  BY <1>2, <1>8, HoldersFinite DEF SlotInv
<1>10. ASSUME NEW q \in Providers
       PROVE  inflight'[q] = Cardinality(HoldersOf(q)') + lost'[q]
  <2>1. CASE q = p
    BY <2>1, <1>2, <1>8, HoldersFinite DEF SlotInv
  <2>2. CASE q # p
    BY <2>2, <1>2, <1>7 DEF SlotInv
  <2>. QED  BY <2>1, <2>2
<1>11. /\ inflight' \in [Providers -> Nat] /\ globalInflight' \in Nat
       /\ lost' \in [Providers -> Nat] /\ lostAll' \in Nat
  BY <1>2 DEF SlotInv
<1>. QED  BY <1>8, <1>9, <1>10, <1>11 DEF SlotInv

\* One holder fewer.
LEMMA HolderGone ==
  ASSUME IInv, SlotInv, NEW c \in Calls, Holds(c), NEW p, p = live[rsv[c]],
         ~Holds(c)',
         \A d \in Calls : d # c =>
           (Holds(d)' <=> Holds(d)) /\ (Holds(d) => live'[rsv'[d]] = live[rsv[d]])
  PROVE  /\ IsFiniteSet(Holders')
         /\ Cardinality(Holders) = Cardinality(Holders') + 1
         /\ Cardinality(HoldersOf(p)) = Cardinality(HoldersOf(p)') + 1
         /\ Cardinality(Holders') \in Nat /\ Cardinality(HoldersOf(p)') \in Nat
         /\ \A q : q # p => HoldersOf(q)' = HoldersOf(q)
<1>1. Holders' = Holders \ {c} /\ c \in Holders
  BY DEF Holders
<1>2. HoldersOf(p)' = HoldersOf(p) \ {c} /\ c \in HoldersOf(p)
  BY DEF HoldersOf
<1>3. \A q : q # p => HoldersOf(q)' = HoldersOf(q)
  BY DEF HoldersOf
<1>4. IsFiniteSet(Holders) /\ IsFiniteSet(HoldersOf(p))
  BY HoldersFinite DEF SlotInv
<1>5. IsFiniteSet(Holders') /\ IsFiniteSet(HoldersOf(p)')
  BY <1>1, <1>2, <1>4, FS_RemoveElement
<1>6. Holders = Holders' \cup {c} /\ c \notin Holders'
  BY <1>1
<1>7. HoldersOf(p) = HoldersOf(p)' \cup {c} /\ c \notin HoldersOf(p)'
  BY <1>2
<1>8. Cardinality(Holders) = Cardinality(Holders') + 1
  BY <1>5, <1>6, FS_AddElement
<1>9. Cardinality(HoldersOf(p)) = Cardinality(HoldersOf(p)') + 1
  BY <1>5, <1>7, FS_AddElement
<1>10. Cardinality(Holders') \in Nat /\ Cardinality(HoldersOf(p)') \in Nat
  BY <1>5, FS_CardinalityType
<1>. QED  BY <1>3, <1>5, <1>8, <1>9, <1>10

\* finalize or release, by a handler or the finally clause, whether it is the
\* first time or not: the clamp at zero is never reached.
LEMMA DropSlots ==
  ASSUME IInv, SlotInv, NEW c \in Calls, Drops(c)
  PROVE  SlotInv'
<1>1. Limiter!Drop(rsv[c]) /\ rsv' = rsv /\ rsv[c] # NoObj
  BY DEF Drops, IInv, Stage
<1>2. UNCHANGED <<live, lost, lostAll>>
  BY <1>1 DEF Limiter!Drop
<1>3. CASE rsv[c] \notin held
  <2>1. UNCHANGED <<held, inflight, globalInflight>>
    BY <1>1, <1>3 DEF Limiter!Drop
  <2>. QED  BY <1>1, <1>2, <2>1 DEF SlotInv, Holders, HoldersOf, Holds
<1>4. CASE rsv[c] \in held
  <2>1. /\ held' = held \ {rsv[c]}
        /\ inflight' = [inflight EXCEPT ![live[rsv[c]]] = Limiter!Decrement(@)]
        /\ globalInflight' = Limiter!Decrement(globalInflight)
    BY <1>1, <1>4 DEF Limiter!Drop
  <2>2. Holds(c) /\ ~Holds(c)'
    BY <1>1, <1>4, <2>1 DEF Holds
  <2>3. PICK p \in Providers : p = live[rsv[c]]
    BY <1>1, OwnObject
  <2>4. ASSUME NEW d \in Calls, d # c
        PROVE  /\ Holds(d)' <=> Holds(d)
               /\ Holds(d) => live'[rsv'[d]] = live[rsv[d]]
    <3>1. rsv[d] # rsv[c]
      BY <1>1, <2>4 DEF IInv, Own
    <3>. QED  BY <1>1, <1>2, <2>1, <3>1 DEF Holds
  <2>5. /\ IsFiniteSet(Holders')
        /\ Cardinality(Holders) = Cardinality(Holders') + 1
        /\ Cardinality(HoldersOf(p)) = Cardinality(HoldersOf(p)') + 1
        /\ Cardinality(Holders') \in Nat /\ Cardinality(HoldersOf(p)') \in Nat
        /\ \A q : q # p => HoldersOf(q)' = HoldersOf(q)
    BY <2>2, <2>3, <2>4, HolderGone
  <2>6. globalInflight' = Cardinality(Holders') + lostAll' /\ globalInflight' \in Nat
    BY <1>2, <2>1, <2>5 DEF SlotInv, Limiter!Decrement
  <2>7. inflight[p] \in Nat /\ lost[p] \in Nat
    BY DEF SlotInv
  <2>8. inflight'[p] = Cardinality(HoldersOf(p)') + lost'[p]
    BY <1>2, <2>1, <2>3, <2>5, <2>7 DEF SlotInv, Limiter!Decrement
  <2>9. ASSUME NEW q \in Providers, q # p
        PROVE  inflight'[q] = Cardinality(HoldersOf(q)') + lost'[q]
    BY <1>2, <2>1, <2>3, <2>5, <2>9 DEF SlotInv
  <2>10. inflight' \in [Providers -> Nat]
    BY <2>1, <2>3 DEF SlotInv, Limiter!Decrement
  <2>. QED  BY <1>2, <2>5, <2>6, <2>8, <2>9, <2>10 DEF SlotInv
<1>. QED  BY <1>3, <1>4

\* A reservation object dies: a slot that was held goes from holder to loss.
LEMMA CollectSlots ==
  ASSUME IInv, SlotInv, NEW c \in Calls, Collects(c)
  PROVE  SlotInv'
<1>1. Limiter!Collect(rsv[c]) /\ rsv' = [rsv EXCEPT ![c] = NoObj] /\ rsv[c] # NoObj
  BY DEF Collects, IInv, Stage
<1>2. /\ UNCHANGED <<inflight, globalInflight, held>>
      /\ live' = [live EXCEPT ![rsv[c]] = NoObj]
  BY <1>1 DEF Limiter!Collect
<1>3. rsv'[c] = NoObj /\ ~Holds(c)'
  BY <1>1 DEF IInv, Shape, Holds
<1>4. ASSUME NEW d \in Calls, d # c
      PROVE  /\ Holds(d)' <=> Holds(d)
             /\ Holds(d) => live'[rsv'[d]] = live[rsv[d]]
  <2>1. rsv'[d] = rsv[d] /\ rsv[d] # rsv[c]
    BY <1>1, <1>4 DEF IInv, Shape, Own
  <2>2. Holds(d) => live'[rsv[d]] = live[rsv[d]]
    BY <1>2, <2>1, OwnObject DEF Holds, IInv, Shape
  <2>. QED  BY <1>2, <2>1, <2>2 DEF Holds
<1>5. CASE rsv[c] \notin held
  <2>1. UNCHANGED <<lost, lostAll>>
    BY <1>1, <1>5 DEF Limiter!Collect
  <2>2. ~Holds(c)
    BY <1>5 DEF Holds
  <2>3. Holders' = Holders /\ \A p \in Providers : HoldersOf(p)' = HoldersOf(p)
    BY <1>3, <1>4, <2>2 DEF Holders, HoldersOf
  <2>. QED  BY <1>2, <2>1, <2>3 DEF SlotInv
<1>6. CASE rsv[c] \in held
  <2>1. Holds(c)
    BY <1>1, <1>6 DEF Holds
  <2>2. PICK p \in Providers : p = live[rsv[c]]
    BY <1>1, OwnObject
  <2>3. lost' = [lost EXCEPT ![p] = @ + 1] /\ lostAll' = lostAll + 1
    BY <1>1, <1>6, <2>2 DEF Limiter!Collect
  <2>4. /\ IsFiniteSet(Holders')
        /\ Cardinality(Holders) = Cardinality(Holders') + 1
        /\ Cardinality(HoldersOf(p)) = Cardinality(HoldersOf(p)') + 1
        /\ Cardinality(Holders') \in Nat /\ Cardinality(HoldersOf(p)') \in Nat
        /\ \A q : q # p => HoldersOf(q)' = HoldersOf(q)
    BY <1>3, <1>4, <2>1, <2>2, HolderGone
  <2>5. globalInflight' = Cardinality(Holders') + lostAll' /\ lostAll' \in Nat
    BY <1>2, <2>3, <2>4 DEF SlotInv
  <2>6. lost' \in [Providers -> Nat] /\ lost'[p] = lost[p] + 1 /\ lost[p] \in Nat
    BY <2>3 DEF SlotInv
  <2>7. inflight'[p] = Cardinality(HoldersOf(p)') + lost'[p]
    BY <1>2, <2>4, <2>6 DEF SlotInv
  <2>8. ASSUME NEW q \in Providers, q # p
        PROVE  inflight'[q] = Cardinality(HoldersOf(q)') + lost'[q]
    BY <1>2, <2>3, <2>4, <2>8 DEF SlotInv
  <2>. QED  BY <1>2, <2>4, <2>5, <2>6, <2>7, <2>8 DEF SlotInv
<1>. QED  BY <1>5, <1>6

LEMMA NextSlots == IInv /\ SlotInv /\ [Next]_vars => SlotInv'
<1> SUFFICES ASSUME IInv, SlotInv, [Next]_vars PROVE SlotInv'
  OBVIOUS
<1>1. ASSUME NEW c \in Calls, Act(c) PROVE SlotInv'
  <2>1. CASE Rests(c)
    <3>1. UNCHANGED <<limiterVars, rsv>>
      BY <2>1 DEF Rests
    <3>. QED  BY <3>1 DEF limiterVars, SlotInv, Holders, HoldersOf, Holds
  <2>. QED
    BY <1>1, <2>1, LimiterKinds, ReserveSlots, DropSlots, CollectSlots DEF IInv
<1>2. CASE TimePasses \/ UNCHANGED vars
  <2>1. UNCHANGED <<limiterVars, rsv>>
    BY <1>2 DEF TimePasses, vars, callVars
  <2>. QED  BY <2>1 DEF limiterVars, SlotInv, Holders, HoldersOf, Holds
<1>. QED  BY <1>1, <1>2 DEF Next, Act

LEMMA InitSlots == Init => SlotInv
<1> SUFFICES ASSUME Init PROVE SlotInv
  OBVIOUS
<1>1. /\ Limiter!Init
      /\ \A c \in Calls : ~Holds(c)
  BY DEF Init, Holds
<1>2. Holders = {} /\ \A p \in Providers : HoldersOf(p) = {}
  BY <1>1 DEF Holders, HoldersOf
<1>3. IsFiniteSet({}) /\ Cardinality({}) = 0
  BY FS_EmptySet
<1>. QED  BY <1>1, <1>2, <1>3 DEF SlotInv, Limiter!Init

LEMMA SlotsKept == Spec => []SlotInv
BY InitSlots, NextSlots, Inductive, PTL DEF Spec

\* The limiter's counters say at every moment which calls hold a slot, through
\* rankings, rejected texts, locks and interruptions: no path of _on_success,
\* _on_failure or the finally clause returns a slot twice, keeps one or returns
\* another call's.
THEOREM CountersMatchCalls == Spec => []SlotsMatchCalls
<1>1. SlotInv => SlotsMatchCalls
  BY DEF SlotInv, SlotsMatchCalls, Holders, HoldersOf
<1>. QED  BY <1>1, SlotsKept, PTL

\* The classes of the errors and the names of the hooks.
Hooks == {"on_success", "on_failure"}
Labels(c) == error[c].class \in ClassNames \cup {"None"} /\ told[c] \in Seq(Hooks)
LabelsInv == \A c \in Calls : Labels(c)

\* What an attempt failed with is an exception.
LEMMA ExceptionsAre ==
  ASSUME IInv, NEW c \in Calls
  PROVE  Exc(c).class \in ClassNames
<1>1. reply[c] \in Replies \cup {NoReply}
  BY DEF IInv, Shape
<1>2. CASE \E e \in Exceptions : reply[c] = Failure(e)
  <2>1. PICK e \in Exceptions : reply[c] = Failure(e)
    BY <1>2
  <2>2. Exc(c) = e /\ Raisable(e)
    BY <2>1, ExceptionsAssumption DEF Failure, Exc
  <2>. QED  BY <2>2 DEF Raisable
<1>3. CASE reply[c] \in {Answer("json"), Answer("prose"), NoReply}
  <2>1. reply[c].kind # "raised"
    BY <1>3 DEF Answer, NoReply
  <2>. QED  BY <2>1 DEF Exc, Raised, ClassNames, Bases
<1>. QED  BY <1>1, <1>2, <1>3 DEF Replies

LEMMA LabelsKeep ==
  ASSUME IInv, NEW c \in Calls, Labels(c), Act(c)
  PROVE  Labels(c)'
<1>1. Shape /\ Exc(c).class \in ClassNames
  BY ExceptionsAre DEF IInv
<1>2. {"ValidationError", "AttributeError", "NoEligibleProviders", "BudgetExceeded",
       "AllProvidersFailed", "Interrupt", "None"} \subseteq ClassNames \cup {"None"}
  BY DEF ClassNames, Bases
<1>3. error'[c].class \in ClassNames \cup {"None"}
  <2>1. CASE error' = error
    BY <2>1 DEF Labels
  <2>2. CASE \E class \in {"ValidationError", "AttributeError", "NoEligibleProviders",
                           "BudgetExceeded", "AllProvidersFailed", "Interrupt", "None"} : \E x :
               error' = [error EXCEPT ![c] = Error(class, x)]
    <3>1. PICK class \in {"ValidationError", "AttributeError", "NoEligibleProviders",
                         "BudgetExceeded", "AllProvidersFailed", "Interrupt", "None"} :
                 \E x : error' = [error EXCEPT ![c] = Error(class, x)]
      BY <2>2
    <3>2. error'[c].class = class
      BY <1>1, <3>1 DEF Shape, Error
    <3>. QED  BY <1>2, <3>2
  <2>3. CASE Stop(c)
    <3>1. error'[c].class = Exc(c).class
      BY <1>1, <2>3 DEF Shape, Stop, Rethrown
    <3>. QED  BY <1>1, <3>1
  <2>4. error' = error \/ Stop(c)
          \/ \E class \in {"ValidationError", "AttributeError", "NoEligibleProviders",
                           "BudgetExceeded", "AllProvidersFailed", "Interrupt", "None"} : \E x :
               error' = [error EXCEPT ![c] = Error(class, x)]
    <3>1. CASE Refuse(c) \/ OutOfBudget(c) \/ Interrupt(c) \/ CallAgain(c)
      BY <3>1 DEF Refuse, OutOfBudget, Interrupt, CallAgain, InvalidArguments, NoError
    <3>2. CASE Exhausted(c)
      BY <3>2 DEF Exhausted
    <3>3. CASE PromoteKnown(c)
      <4>1. error' = [error EXCEPT ![c] = error[c]]
              \/ error' = [error EXCEPT ![c] = Error("NoEligibleProviders", <<>>)]
        BY <3>3 DEF PromoteKnown
      <4>2. [error EXCEPT ![c] = error[c]] = error
        BY <1>1 DEF Shape
      <4>. QED  BY <4>1, <4>2
    <3>4. CASE ~(Refuse(c) \/ OutOfBudget(c) \/ Interrupt(c) \/ CallAgain(c) \/ Exhausted(c)
                   \/ PromoteKnown(c))
      BY <3>4 DEF Act, Step, Prepare, Filter, Score, Reserve, Denied, RecordDenied, Build,
         AdapterReplies, ReturnSlot, RecordSuccess, Remember, Return, RecordFailure,
         LockModel, Recall, Forget, NextTarget, NotifyFailure, Unwind, DropTraceback
    <3>. QED  BY <3>1, <3>2, <3>3, <3>4
  <2>. QED  BY <2>1, <2>2, <2>3, <2>4
<1>4. told'[c] \in Seq(Hooks)
  <2>1. told' = told \/ told'[c] = <<>>
          \/ \E hook \in Hooks : told'[c] = Append(told[c], hook)
    BY <1>1 DEF Shape, Hooks, Act, Step, Refuse, Prepare, Filter, Score, PromoteKnown, Reserve,
       Denied, OutOfBudget, RecordDenied, Build, AdapterReplies, ReturnSlot, RecordSuccess,
       Remember, Return, RecordFailure, LockModel, Recall, Forget, Exhausted, NotifyFailure,
       Interrupt, Unwind, DropTraceback, CallAgain
  <2>2. told[c] \in Seq(Hooks) /\ <<>> \in Seq(Hooks)
    BY DEF Labels
  <2>3. \A hook \in Hooks : Append(told[c], hook) \in Seq(Hooks)
    BY <2>2, Appended
  <2>. QED  BY <2>1, <2>2, <2>3
<1>. QED  BY <1>3, <1>4 DEF Labels

LEMMA LabelsInductive == Spec => []LabelsInv
<1>1. Init => LabelsInv
  BY DEF Init, LabelsInv, Labels, NoError, Error
<1>2. IInv /\ LabelsInv /\ [Next]_vars => LabelsInv'
  <2> SUFFICES ASSUME IInv, LabelsInv, [Next]_vars, NEW d \in Calls PROVE Labels(d)'
    BY DEF LabelsInv
  <2>1. ASSUME NEW c \in Calls, Act(c) PROVE Labels(d)'
    <3>1. CASE d = c
      BY <2>1, <3>1, LabelsKeep DEF LabelsInv
    <3>2. CASE d # c
      BY <2>1, <3>2, OthersStay DEF LabelsInv, Labels, IInv
    <3>. QED  BY <3>1, <3>2
  <2>2. CASE TimePasses \/ UNCHANGED vars
    BY <2>2 DEF TimePasses, vars, callVars, LabelsInv, Labels
  <2>. QED  BY <2>1, <2>2 DEF Next, Act
<1>. QED  BY <1>1, <1>2, Inductive, PTL DEF Spec

\* Every variable keeps its type, the stores' and the limiter's included, and
\* every ranking a call goes through names each target once, at a place of which
\* the call is: no target is tried twice by one call.
THEOREM TypeCorrect == Spec => []TypeOK
<1>1. IInv /\ SlotInv /\ LabelsInv => TypeOK
  <2> SUFFICES ASSUME IInv, SlotInv, LabelsInv PROVE TypeOK
    OBVIOUS
  <2>1. Limiter!TypeOK
    BY DEF IInv, Shape, SlotInv, Limiter!TypeOK
  <2>2. Stores!TypeOK
    BY SameNames, SameCount DEF IInv, StoresShape, WindowAttempts, Stores!TypeOK
  <2>3. \A c \in Calls : DOMAIN scores[c] \subseteq Targets
    BY DEF IInv, OnRanking, AreScores
  <2>4. ASSUME NEW c \in Calls PROVE pos[c] \in 1 .. Len(ranked[c]) + 1
    <3>1. pos[c] \in Nat \ {0} /\ Len(ranked[c]) \in Nat
      BY DEF IInv, Shape
    <3>. QED  BY <3>1 DEF IInv, OnRanking
  <2>5. ASSUME NEW c \in Calls
        PROVE  /\ error[c].class \in ClassNames \cup {"None"}
               /\ \A i \in DOMAIN told[c] : told[c][i] \in {"on_success", "on_failure"}
    BY DEF LabelsInv, Labels, Hooks
  <2>. QED  BY <2>1, <2>2, <2>3, <2>4, <2>5 DEF TypeOK, IInv, Shape, OnRanking
<1>. QED  BY <1>1, SlotsKept, LabelsInductive, Inductive, PTL

-----------------------------------------------------------------------------
(* What a failed call leaves remembered *)

\* A call leaves a target it failed at only in a step that finds something else
\* remembered under its key, or forgets what is: no branch of _on_failure, and
\* no other call between its look and its forget, gets around that.
THEOREM FailuresForget == Spec => FailureForgets
<1>1. ASSUME IInv, [Next]_vars, NEW c \in Calls,
             pc[c] \in {"record", "lock", "recall", "forget"},
             pc'[c] \in {"reserve", "notify"}
      PROVE  known'[MakeKey(request[c])] # {Current(c)}
  <2>1. Shape /\ StoresShape /\ MakeKey(request[c]) \in Keys
    BY <1>1, KeyIsKey DEF IInv
  <2>2. PICK d \in Calls : Act(d)
    <3>1. ~TimePasses /\ ~UNCHANGED vars
      BY <1>1 DEF TimePasses, vars, callVars
    <3>. QED  BY <1>1, <3>1 DEF Next, Act
  <2>3. d = c
    BY <1>1, <2>1, <2>2, OthersStay
  <2>4. Recall(c) \/ Forget(c)
    BY <1>1, <2>1, <2>2, <2>3 DEF Act, Step, Refuse, Prepare, Filter, Score, PromoteKnown,
       Reserve, Denied, OutOfBudget, RecordDenied, Build, AdapterReplies, ReturnSlot,
       RecordSuccess, Remember, Return, RecordFailure, LockModel, Exhausted,
       NotifyFailure, Interrupt, Unwind, DropTraceback, CallAgain, Goto, Shape, Ended
  <2>5. CASE Recall(c)
    <3>1. known' = known /\ pc'[c] # "forget"
      BY <1>1, <2>5 DEF Recall, storeVars
    <3>2. known[MakeKey(request[c])] # {Current(c)}
      BY <2>1, <2>5, <3>1 DEF Recall, Goto, Shape
    <3>. QED  BY <3>1, <3>2
  <2>6. CASE Forget(c)
    <3>1. known'[MakeKey(request[c])] = {}
      BY <2>1, <2>6 DEF Forget, Stores!Forget, StoresShape
    <3>. QED  BY <3>1
  <2>. QED  BY <2>4, <2>5, <2>6
<1>2. IInv /\ [Next]_vars =>
        [\A c \in Calls :
           pc[c] \in {"record", "lock", "recall", "forget"} /\ pc'[c] \in {"reserve", "notify"}
             => known'[MakeKey(request[c])] # {Current(c)}]_vars
  BY <1>1
<1>. QED  BY <1>2, Inductive, PTL DEF Spec, FailureForgets

-----------------------------------------------------------------------------
(* What an exception comes to *)

\* What the isinstance tests of the handlers come to.
LEMMA Classes ==
  ASSUME NEW e, e.class \in ClassNames
  PROVE  /\ IsInstance(e, "ValidationError") <=> e.class = "ValidationError"
         /\ IsInstance(e, "RateLimited") <=> e.class = "RateLimited"
         /\ IsInstance(e, "ProviderError") <=> e.class \in {"ProviderError", "RateLimited"}
<1>1. \A class \in ClassNames :
        /\ Bases[class] \subseteq {"MultiproviderError", "ProviderError"}
        /\ "ProviderError" \in Bases[class] <=> class = "RateLimited"
  BY DEF ClassNames, Bases
<1>. QED  BY <1>1 DEF IsInstance

\* classify_error falls back exactly where the table of the design has it so.
LEMMA FallsBackByTheTable ==
  ASSUME NEW e, Raisable(e), NEW r, NEW attempt,
         attempt.type = "failed", attempt.exc = e
  PROVE  ShouldFallback(e, r.on_auth_failure) <=> MayFallBackAfter(attempt, r)
<1>1. e.class \in ClassNames
  BY DEF Raisable
<1>2. /\ IsInstance(e, "ValidationError") <=> e.class = "ValidationError"
      /\ IsInstance(e, "RateLimited") <=> e.class = "RateLimited"
      /\ IsInstance(e, "ProviderError") <=> e.class \in {"ProviderError", "RateLimited"}
  BY <1>1, Classes
<1>3. /\ e.body \in {"", "quota", "model"}
      /\ ~IsInstance(e, "ProviderError") => e.status = 0 /\ e.body = ""
  BY DEF Raisable
<1>4. MayFallBackAfter(attempt, r) <=>
        \/ e.class \in {"ValidationError", "TimeoutException", "ConnectError", "RateLimited"}
        \/ e.body \in {"quota", "model"}
        \/ e.status \in {429, 500, 502, 503, 504, 529}
        \/ e.status \in {401, 403} /\ r.on_auth_failure = "continue"
  BY DEF MayFallBackAfter
<1>5. CASE IsInstance(e, "ProviderError")
  <2>1. ShouldFallback(e, r.on_auth_failure) <=>
          \/ e.class \in {"ValidationError", "TimeoutException", "ConnectError"}
          \/ e.body \in {"quota", "model"}
          \/ e.body = "" /\ (e.status = 429 \/ e.class = "RateLimited")
          \/ e.status \in {500, 502, 503, 504, 529}
          \/ e.status \in {401, 403} /\ r.on_auth_failure = "continue"
    BY <1>2, <1>3, <1>5 DEF ShouldFallback, QuotaExhausted, ModelUnavailable,
       Throttled, IsProviderError, Unavailable, Auth
  <2>. QED  BY <1>3, <1>4, <2>1
<1>6. CASE ~IsInstance(e, "ProviderError")
  <2>1. ShouldFallback(e, r.on_auth_failure) <=>
          e.class \in {"ValidationError", "TimeoutException", "ConnectError"}
    BY <1>2, <1>6 DEF ShouldFallback, QuotaExhausted, ModelUnavailable,
       Throttled, IsProviderError
  <2>2. e.status = 0 /\ e.body = ""
    BY <1>3, <1>6
  <2>3. e.body \notin {"quota", "model"}
    BY <2>2
  <2>4. e.status \notin {429, 500, 502, 503, 504, 529, 401, 403}
    <3>1. 0 \notin {429, 500, 502, 503, 504, 529, 401, 403}
      OBVIOUS
    <3>. QED  BY <2>2, <3>1
  <2>5. e.class # "RateLimited"
    BY <1>2, <1>6
  <2>. QED  BY <1>4, <2>1, <2>3, <2>4, <2>5
<1>. QED  BY <1>5, <1>6

\* The exceptions attempts are recorded with.
Recordable == Exceptions \cup {Raised("Interrupt"), Raised("RateLimited"),
                               Raised("ValidationError")}

\* What a failed attempt is recorded with, and whether the call goes on with it.
LEMMA FailureIs ==
  ASSUME NEW c \in Calls, reply[c] \in Replies, ~Accepted(c)
  PROVE  /\ Exc(c) \in Recordable
         /\ Raisable(Exc(c))
         /\ \A attempt : attempt.type = "failed" /\ attempt.exc = Exc(c) =>
              (FallsBack(c) <=> MayFallBackAfter(attempt, request[c]))
<1>1. CASE reply[c] \in {Failure(e) : e \in Exceptions}
  <2>1. PICK e \in Exceptions : reply[c] = Failure(e)
    BY <1>1
  <2>2. reply[c].kind = "raised" /\ Exc(c) = e
    BY <2>1 DEF Failure, Exc
  <2>3. Raisable(e)
    BY ExceptionsAssumption
  <2>4. FallsBack(c) <=> ShouldFallback(e, request[c].on_auth_failure)
    BY <2>2 DEF FallsBack
  <2>. QED  BY <2>2, <2>3, <2>4, FallsBackByTheTable DEF Recordable
<1>2. CASE reply[c] \in {Answer("json"), Answer("prose")}
  <2>1. reply[c].kind \in {"json", "prose"}
    BY <1>2 DEF Answer
  <2>2. reply[c].kind = "prose" /\ Exc(c) = Raised("ValidationError") /\ FallsBack(c)
    BY <2>1 DEF Accepted, Exc, FallsBack
  <2>3. Raised("ValidationError").class = "ValidationError"
    BY DEF Raised
  <2>4. Raisable(Raised("ValidationError"))
    BY DEF Raisable, Raised, IsInstance, ClassNames, Bases
  <2>. QED  BY <2>2, <2>3, <2>4 DEF Recordable, MayFallBackAfter
<1>. QED  BY <1>1, <1>2 DEF Replies

-----------------------------------------------------------------------------
(* What holds of a call and its attempts *)

\* An attempt record says where it was made, how it ended and with what.
AttemptRecords ==
  [pos : Nat \ {0}, type : {"ok", "budget", "failed"}, exc : Recordable]

Passed(attempt, r) == attempt.type # "ok" /\ MayFallBackAfter(attempt, r)

\* Every attempt so far failed and may be followed by another.
AllPassed(c) == \A i \in 1 .. Len(attempts[c]) : Passed(attempts[c][i], request[c])

LastAttempt(c) == attempts[c][Len(attempts[c])]

\* A call on its way along the ranking has an attempt for every target before
\* the one it is at, and passed them all.
Trying(c) ==
  /\ request[c].valid /\ ranked[c] # <<>>
  /\ pos[c] = Len(attempts[c]) + 1
  /\ AllPassed(c)

\* A call that failed at the target it is at, and whether it goes on.
FailedHere(c) ==
  /\ request[c].valid /\ ranked[c] # <<>> /\ attempts[c] # <<>>
  /\ pos[c] = Len(attempts[c])
  /\ \A i \in 1 .. Len(attempts[c]) : i # Len(attempts[c]) =>
       Passed(attempts[c][i], request[c])
  /\ LastAttempt(c).type = "failed" /\ LastAttempt(c).exc = Exc(c)
  /\ Raisable(Exc(c))
  /\ FallsBack(c) <=> MayFallBackAfter(LastAttempt(c), request[c])

Succeeded(c) ==
  /\ request[c].valid /\ ranked[c] # <<>> /\ attempts[c] # <<>>
  /\ pos[c] = Len(attempts[c]) /\ LastAttempt(c).type = "ok"

Stopped(c) ==
  /\ attempts[c] # <<>> /\ error[c].adapter
  /\ LastAttempt(c).type = "failed" /\ LastAttempt(c).exc.class = error[c].class
  /\ ~MayFallBackAfter(LastAttempt(c), request[c])
  /\ IsInstance(Raised(error[c].class), "MultiproviderError") =>
       error[c].attached = attempts[c]

OwnError(c, class) == ~error[c].adapter /\ error[c].class = class

\* What the error of a call says of its ranking and its attempts.
ErrorFits(c) ==
  \/ /\ ~request[c].valid /\ \E class \in InvalidArguments : OwnError(c, class)
     /\ ranked[c] = <<>> /\ attempts[c] = <<>>
  \/ /\ request[c].valid /\ OwnError(c, "NoEligibleProviders")
     /\ ranked[c] = <<>> /\ attempts[c] = <<>> /\ lastRoute # NoObj
  \/ /\ request[c].valid /\ OwnError(c, "AllProvidersFailed")
     /\ ranked[c] # <<>> /\ attempts[c] # <<>> /\ AllPassed(c)
     /\ Len(attempts[c]) = Len(ranked[c]) /\ error[c].attached = attempts[c]
  \/ /\ request[c].valid /\ OwnError(c, "BudgetExceeded")
     /\ ranked[c] # <<>> /\ AllPassed(c)
  \/ request[c].valid /\ ranked[c] # <<>> /\ Stopped(c)

\* What holds of a call wherever it is.
TrailFits(c) ==
  /\ \A i \in 1 .. Len(attempts[c]) : attempts[c][i].pos = i
  /\ pc[c] \in {"idle", "filter", "score", "promote"} =>
       ranked[c] = <<>> /\ attempts[c] = <<>>
  /\ pc[c] \in {"filter", "score", "promote", "notify"} => request[c].valid
  /\ pc[c] \in {"reserve", "denied", "build", "call", "release", "record"} => Trying(c)
  /\ pc[c] \in {"release", "record"} => reply[c] \in Replies
  /\ pc[c] \in {"lock", "recall", "forget"} => FailedHere(c)
  /\ pc[c] = "lock" => LocksModel(Exc(c))
  /\ pc[c] \in {"remember", "report", "returned"} => Succeeded(c)
  /\ pc[c] \in {"notify", "raised"} => ErrorFits(c)

\* What the hooks were told so far.
ToldSoFar(c) ==
  /\ pc[c] = "returned" => told[c] = <<"on_success">>
  /\ pc[c] = "raised" => told[c] = IF request[c].valid THEN <<"on_failure">> ELSE <<>>
  /\ ~Ended(c) /\ pc[c] # "unwind" => told[c] = <<>>

OutcomeInv ==
  /\ attempts \in [Calls -> Seq(AttemptRecords)]
  /\ \A c \in Calls : TrailFits(c) /\ ToldSoFar(c)

\* The attempt a call records is one at its place.
LEMMA RecordedIs ==
  ASSUME IInv, OutcomeInv, NEW c \in Calls,
         RecordDenied(c) \/ RecordSuccess(c) \/ RecordFailure(c)
  PROVE  \E a \in AttemptRecords :
           /\ attempts' = [attempts EXCEPT ![c] = Append(@, a)]
           /\ a.pos = pos[c]
           /\ RecordDenied(c) => a.type = "budget"
           /\ RecordSuccess(c) => a.type = "ok"
           /\ RecordFailure(c) => a.type = "failed" /\ a.exc = Exc(c)
<1>1. pos[c] \in Nat \ {0}
  BY DEF IInv, Shape
<1>2. CASE RecordDenied(c)
  <2> DEFINE a == Attempt(c, "budget", Raised("RateLimited"))
  <2>1. a \in AttemptRecords /\ a.pos = pos[c] /\ a.type = "budget"
    BY <1>1 DEF Attempt, AttemptRecords, Recordable
  <2>2. attempts' = [attempts EXCEPT ![c] = Append(@, a)]
    BY <1>2 DEF RecordDenied, Recorded
  <2>3. ~RecordSuccess(c) /\ ~RecordFailure(c)
    BY <1>2 DEF RecordDenied, RecordSuccess, RecordFailure
  <2>. QED  BY <2>1, <2>2, <2>3
<1>3. CASE RecordSuccess(c)
  <2> DEFINE a == Attempt(c, "ok", Raised("Interrupt"))
  <2>1. a \in AttemptRecords /\ a.pos = pos[c] /\ a.type = "ok"
    BY <1>1 DEF Attempt, AttemptRecords, Recordable
  <2>2. attempts' = [attempts EXCEPT ![c] = Append(@, a)]
    BY <1>3 DEF RecordSuccess, Recorded
  <2>3. ~RecordDenied(c) /\ ~RecordFailure(c)
    BY <1>3 DEF RecordDenied, RecordSuccess, RecordFailure
  <2>. QED  BY <2>1, <2>2, <2>3
<1>4. CASE RecordFailure(c)
  <2> DEFINE a == Attempt(c, "failed", Exc(c))
  <2>1. Exc(c) \in Recordable
    BY <1>4, FailureIs DEF RecordFailure, OutcomeInv, TrailFits
  <2>2. a \in AttemptRecords /\ a.pos = pos[c] /\ a.type = "failed" /\ a.exc = Exc(c)
    BY <1>1, <2>1 DEF Attempt, AttemptRecords
  <2>3. attempts' = [attempts EXCEPT ![c] = Append(@, a)]
    BY <1>4 DEF RecordFailure, Recorded
  <2>4. ~RecordDenied(c) /\ ~RecordSuccess(c)
    BY <1>4 DEF RecordDenied, RecordSuccess, RecordFailure
  <2>. QED  BY <2>2, <2>3, <2>4
<1>. QED  BY <1>2, <1>3, <1>4

\* The attempt that is appended goes last, and the earlier ones stay.
LEMMA Appends ==
  ASSUME IInv, OutcomeInv, NEW c \in Calls, NEW a \in AttemptRecords,
         attempts' = [attempts EXCEPT ![c] = Append(@, a)], request' = request
  PROVE  /\ attempts'[c] # <<>> /\ LastAttempt(c)' = a
         /\ Len(attempts[c]) \in Nat /\ Len(attempts'[c]) = Len(attempts[c]) + 1
         /\ attempts'[c][Len(attempts[c]) + 1] = a
         /\ \A i \in 1 .. Len(attempts[c]) : attempts'[c][i] = attempts[c][i]
         /\ AllPassed(c) =>
              \A i \in 1 .. Len(attempts'[c]) : i # Len(attempts'[c]) =>
                Passed(attempts'[c][i], request[c])
         /\ AllPassed(c) /\ Passed(a, request[c]) => AllPassed(c)'
         /\ a.pos = Len(attempts[c]) + 1 =>
              \A i \in 1 .. Len(attempts'[c]) : attempts'[c][i].pos = i
<1>1. attempts[c] \in Seq(AttemptRecords) /\ attempts'[c] = Append(attempts[c], a)
  BY DEF OutcomeInv
<1>2. /\ attempts'[c] # <<>>
      /\ Len(attempts[c]) \in Nat /\ Len(attempts'[c]) = Len(attempts[c]) + 1
      /\ attempts'[c][Len(attempts[c]) + 1] = a
      /\ \A i \in 1 .. Len(attempts[c]) : attempts'[c][i] = attempts[c][i]
  BY <1>1, Appended
<1>3. \A i \in 1 .. Len(attempts'[c]) :
        i # Len(attempts'[c]) => i \in 1 .. Len(attempts[c])
  BY <1>2
<1>4. AllPassed(c) =>
        \A i \in 1 .. Len(attempts'[c]) : i # Len(attempts'[c]) =>
          Passed(attempts'[c][i], request[c])
  BY <1>2, <1>3 DEF AllPassed
<1>5. AllPassed(c) /\ Passed(a, request[c]) => AllPassed(c)'
  BY <1>2, <1>4 DEF AllPassed
<1>6. a.pos = Len(attempts[c]) + 1 =>
        \A i \in 1 .. Len(attempts'[c]) : attempts'[c][i].pos = i
  <2>1. \A i \in 1 .. Len(attempts[c]) : attempts[c][i].pos = i
    BY DEF OutcomeInv, TrailFits
  <2>. QED  BY <1>2, <1>3, <2>1
<1>. QED  BY <1>2, <1>4, <1>5, <1>6 DEF LastAttempt

-----------------------------------------------------------------------------
(* It is kept by every step of the call *)

\* Until the ranking is known.
LEMMA EarlyKeeps ==
  ASSUME IInv, OutcomeInv, NEW c \in Calls,
         Refuse(c) \/ Prepare(c) \/ Filter(c) \/ Score(c) \/ PromoteKnown(c)
  PROVE  TrailFits(c)'
<1>1. UNCHANGED <<request, pos, attempts>> /\ pc[c] \in {"idle", "filter", "score", "promote"}
  BY DEF Refuse, Prepare, Filter, Score, PromoteKnown
<1>2. ranked[c] = <<>> /\ attempts[c] = <<>> /\ pos[c] = 1 /\ Len(attempts[c]) = 0
  BY <1>1 DEF OutcomeInv, TrailFits, IInv, OnRanking
<1>3. CASE Refuse(c)
  <2>1. /\ pc'[c] = "raised" /\ ranked' = ranked /\ ~request[c].valid
        /\ \E class \in InvalidArguments : OwnError(c, class)'
    BY <1>3 DEF Refuse, Goto, Error, OwnError, IInv, Shape
  <2>2. ErrorFits(c)'
    BY <1>1, <1>2, <2>1 DEF ErrorFits
  <2>. QED  BY <1>1, <1>2, <2>1, <2>2 DEF TrailFits
<1>4. CASE Prepare(c) \/ Filter(c) \/ Score(c)
  <2>1. ranked' = ranked /\ pc'[c] \in {"filter", "score", "promote"} /\ request[c].valid
    BY <1>4 DEF Prepare, Filter, Score, Goto, IInv, Shape, OutcomeInv, TrailFits
  <2>. QED  BY <1>1, <1>2, <2>1 DEF TrailFits
<1>5. CASE PromoteKnown(c)
  <2>. DEFINE final == Promote(Sorted(scores[c]), scores[c], known[MakeKey(request[c])])
  <2>1. /\ ranked'[c] = final /\ request[c].valid /\ lastRoute' = c
        /\ final = <<>> => pc'[c] = "notify" /\ OwnError(c, "NoEligibleProviders")'
        /\ final # <<>> => pc'[c] = "reserve"
    BY <1>5 DEF PromoteKnown, Goto, Error, OwnError, IInv, Shape, OutcomeInv, TrailFits
  <2>. HIDE DEF final
  <2>2. lastRoute' # NoObj
    BY <2>1, ObjectsAssumption
  <2>3. CASE final = <<>>
    <3>1. ErrorFits(c)'
      BY <1>1, <1>2, <2>1, <2>2, <2>3 DEF ErrorFits
    <3>. QED  BY <1>1, <1>2, <2>1, <2>3, <3>1 DEF TrailFits
  <2>4. CASE final # <<>>
    <3>1. Trying(c)'
      BY <1>1, <1>2, <2>1, <2>4 DEF Trying, AllPassed
    <3>. QED  BY <1>1, <1>2, <2>1, <2>4, <3>1 DEF TrailFits
  <2>. QED  BY <2>3, <2>4
<1>. QED  BY <1>3, <1>4, <1>5

\* On its way to an adapter and back, where nothing is appended.
LEMMA WalkKeeps ==
  ASSUME IInv, OutcomeInv, NEW c \in Calls,
         Reserve(c) \/ Denied(c) \/ Build(c) \/ AdapterReplies(c) \/ ReturnSlot(c)
  PROVE  TrailFits(c)'
<1>1. /\ UNCHANGED <<request, ranked, pos, attempts>>
      /\ pc[c] \in {"reserve", "build", "call", "release"} /\ TrailFits(c)
  BY DEF Reserve, Denied, Build, AdapterReplies, ReturnSlot, OutcomeInv
<1>2. Trying(c)'
  BY <1>1 DEF TrailFits, Trying, AllPassed
<1>3. /\ pc'[c] \in {"denied", "build", "call", "release", "record"}
      /\ pc'[c] \in {"release", "record"} => reply'[c] \in Replies
  BY <1>1 DEF Reserve, Denied, Build, AdapterReplies, ReturnSlot, Goto, IInv, Shape, TrailFits
<1>. QED  BY <1>1, <1>2, <1>3 DEF TrailFits

\* Where an attempt is appended.
LEMMA RecordKeeps ==
  ASSUME IInv, OutcomeInv, NEW c \in Calls,
         RecordDenied(c) \/ RecordSuccess(c) \/ RecordFailure(c)
  PROVE  TrailFits(c)'
<1>1. /\ UNCHANGED <<request, ranked, reply>> /\ pc[c] \in {"denied", "record"}
      /\ TrailFits(c) /\ Trying(c)
  BY DEF RecordDenied, RecordSuccess, RecordFailure, Recorded, OutcomeInv, TrailFits
<1>2. PICK a \in AttemptRecords :
        /\ attempts' = [attempts EXCEPT ![c] = Append(@, a)]
        /\ a.pos = pos[c]
        /\ RecordDenied(c) => a.type = "budget"
        /\ RecordSuccess(c) => a.type = "ok"
        /\ RecordFailure(c) => a.type = "failed" /\ a.exc = Exc(c)
  BY RecordedIs
<1>3. /\ attempts'[c] # <<>> /\ LastAttempt(c)' = a
      /\ Len(attempts[c]) \in Nat /\ Len(attempts'[c]) = Len(attempts[c]) + 1
      /\ \A i \in 1 .. Len(attempts'[c]) : i # Len(attempts'[c]) =>
           Passed(attempts'[c][i], request[c])
      /\ Passed(a, request[c]) => AllPassed(c)'
      /\ \A i \in 1 .. Len(attempts'[c]) : attempts'[c][i].pos = i
      /\ pos[c] = Len(attempts'[c])
  <2>1. pos[c] = Len(attempts[c]) + 1 /\ AllPassed(c) /\ request' = request
    BY <1>1 DEF Trying
  <2>2. attempts' = [attempts EXCEPT ![c] = Append(@, a)] /\ a.pos = pos[c]
    BY <1>2
  <2>3. /\ attempts'[c] # <<>> /\ LastAttempt(c)' = a
        /\ Len(attempts[c]) \in Nat /\ Len(attempts'[c]) = Len(attempts[c]) + 1
        /\ AllPassed(c) =>
             \A i \in 1 .. Len(attempts'[c]) : i # Len(attempts'[c]) =>
               Passed(attempts'[c][i], request[c])
        /\ AllPassed(c) /\ Passed(a, request[c]) => AllPassed(c)'
        /\ a.pos = Len(attempts[c]) + 1 =>
             \A i \in 1 .. Len(attempts'[c]) : attempts'[c][i].pos = i
    BY ONLY <2>1, <2>2, IInv, OutcomeInv, Appends
  <2>. QED  BY <2>1, <2>2, <2>3
<1>4. CASE RecordDenied(c)
  <2>1. pos'[c] = pos[c] + 1 /\ pc'[c] = "reserve"
    BY <1>4 DEF RecordDenied, Goto, IInv, Shape
  <2>2. Passed(a, request[c])
    BY <1>2, <1>4 DEF Passed, MayFallBackAfter
  <2>3. Trying(c)'
    BY <1>1, <1>3, <2>1, <2>2 DEF Trying
  <2>. QED  BY <1>3, <2>1, <2>3 DEF TrailFits
<1>5. CASE RecordSuccess(c)
  <2>1. pos' = pos /\ pc'[c] = "remember"
    BY <1>5 DEF RecordSuccess, Goto, IInv, Shape
  <2>2. Succeeded(c)'
    BY <1>1, <1>2, <1>3, <1>5, <2>1 DEF Succeeded, Trying
  <2>. QED  BY <1>3, <2>1, <2>2 DEF TrailFits
<1>6. CASE RecordFailure(c)
  <2>1. /\ pos' = pos /\ pc[c] = "record" /\ ~Accepted(c)
        /\ pc'[c] \in {"lock", "recall"}
        /\ pc'[c] = "lock" => LocksModel(Exc(c))
    BY <1>6 DEF RecordFailure, Goto, IInv, Shape
  <2>2. reply[c] \in Replies
    BY <1>1, <2>1 DEF TrailFits
  <2>3. Raisable(Exc(c)) /\ (FallsBack(c) <=> MayFallBackAfter(a, request[c]))
    BY <1>2, <1>6, <2>1, <2>2, FailureIs
  <2>4. Exc(c)' = Exc(c) /\ FallsBack(c)' = FallsBack(c)
    BY <1>1 DEF Exc, FallsBack
  <2>5. FailedHere(c)'
    BY <1>1, <1>2, <1>3, <1>6, <2>1, <2>3, <2>4 DEF FailedHere, Trying
  <2>. QED  BY <1>3, <2>1, <2>4, <2>5 DEF TrailFits
<1>. QED  BY <1>4, <1>5, <1>6

\* A failure that may be passed joins the others; one that may not is the error.
LEMMA LeavesTarget ==
  ASSUME IInv, OutcomeInv, NEW c \in Calls, pc[c] \in {"recall", "forget"},
         NextTarget(c) \/ Stop(c), UNCHANGED <<request, ranked, attempts>>
  PROVE  TrailFits(c)'
<1>1. TrailFits(c) /\ FailedHere(c) /\ attempts[c] \in Seq(AttemptRecords)
  BY DEF OutcomeInv, TrailFits
<1>2. LastAttempt(c)' = LastAttempt(c) /\ LastAttempt(c).type = "failed"
  BY <1>1 DEF LastAttempt, FailedHere
<1>3. CASE NextTarget(c)
  <2>1. pos'[c] = pos[c] + 1 /\ pc'[c] = "reserve" /\ FallsBack(c)
    BY <1>3 DEF NextTarget, Goto, IInv, Shape
  <2>2. Passed(LastAttempt(c), request[c])
    BY <1>1, <1>2, <2>1 DEF FailedHere, Passed
  <2>3. AllPassed(c)'
    BY <1>1, <2>2 DEF AllPassed, FailedHere, LastAttempt
  <2>4. Trying(c)'
    BY <1>1, <2>1, <2>3 DEF Trying, FailedHere
  <2>. QED  BY <1>1, <2>1, <2>4 DEF TrailFits
<1>4. CASE Stop(c)
  <2>1. /\ pc'[c] = "notify" /\ ~FallsBack(c)
        /\ error'[c] = Rethrown(Exc(c), IF IsInstance(Exc(c), "MultiproviderError")
                                        THEN attempts[c] ELSE <<>>)
    BY <1>4 DEF Stop, Goto, IInv, Shape
  <2>2. /\ error'[c].adapter /\ error'[c].class = Exc(c).class
        /\ IsInstance(Raised(error'[c].class), "MultiproviderError") =>
             error'[c].attached = attempts[c]
    BY <2>1 DEF Rethrown, Raised, IsInstance
  <2>3. Stopped(c)'
    BY <1>1, <1>2, <2>1, <2>2 DEF Stopped, FailedHere
  <2>4. ErrorFits(c)'
    BY <1>1, <2>3 DEF ErrorFits, FailedHere
  <2>5. request'[c].valid
    BY <1>1 DEF FailedHere
  <2>. QED  BY <1>1, <2>1, <2>4, <2>5 DEF TrailFits
<1>. QED  BY <1>3, <1>4

\* After the attempt.
LEMMA AfterKeeps ==
  ASSUME IInv, OutcomeInv, NEW c \in Calls,
         LockModel(c) \/ Recall(c) \/ Forget(c) \/ Remember(c) \/ Return(c)
  PROVE  TrailFits(c)'
<1>1. UNCHANGED <<request, ranked, attempts>> /\ TrailFits(c)
  BY DEF LockModel, Recall, Forget, Remember, Return, OutcomeInv
<1>2. CASE (Recall(c) \/ Forget(c)) /\ (NextTarget(c) \/ Stop(c))
  BY <1>1, <1>2, LeavesTarget DEF Recall, Forget
<1>3. CASE \/ LockModel(c)
           \/ Recall(c) /\ ~(NextTarget(c) \/ Stop(c))
  <2>1. /\ UNCHANGED <<pos, reply>> /\ pc[c] \in {"lock", "recall"}
        /\ pc'[c] \in {"recall", "forget"}
    BY <1>3 DEF LockModel, Recall, Goto, IInv, Shape
  <2>2. FailedHere(c)'
    BY <1>1, <2>1 DEF TrailFits, FailedHere, LastAttempt, Exc, FallsBack
  <2>. QED  BY <1>1, <2>1, <2>2 DEF TrailFits
<1>4. CASE Remember(c) \/ Return(c)
  <2>1. /\ UNCHANGED pos /\ pc[c] \in {"remember", "report"}
        /\ pc'[c] \in {"report", "returned"}
    BY <1>4 DEF Remember, Return, Goto, IInv, Shape
  <2>2. Succeeded(c)'
    BY <1>1, <2>1 DEF TrailFits, Succeeded, LastAttempt
  <2>. QED  BY <1>1, <2>1, <2>2 DEF TrailFits
<1>. QED  BY <1>2, <1>3, <1>4 DEF Forget

\* The end of the ranking and of the budget, and the last steps.
LEMMA EndKeeps ==
  ASSUME IInv, OutcomeInv, NEW c \in Calls,
         \/ OutOfBudget(c) \/ Exhausted(c) \/ NotifyFailure(c)
         \/ Interrupt(c) \/ Unwind(c) \/ DropTraceback(c)
  PROVE  TrailFits(c)'
<1>1. UNCHANGED <<request, ranked, attempts, pos, reply, lastRoute>> /\ TrailFits(c)
  BY DEF OutOfBudget, Exhausted, NotifyFailure, Interrupt, Unwind, DropTraceback, OutcomeInv
<1>2. /\ AllPassed(c)' <=> AllPassed(c)
      /\ LastAttempt(c)' = LastAttempt(c)
  BY <1>1 DEF AllPassed, LastAttempt
<1>3. CASE OutOfBudget(c) \/ Exhausted(c)
  <2>1. pc'[c] = "notify" /\ pc[c] = "reserve" /\ Trying(c)
    BY <1>1, <1>3 DEF OutOfBudget, Exhausted, Goto, IInv, Shape, TrailFits
  <2>2. ErrorFits(c)'
    <3>1. CASE OutOfBudget(c)
      <4>1. OwnError(c, "BudgetExceeded")'
        BY <3>1 DEF OutOfBudget, Error, OwnError, IInv, Shape
      <4>. QED  BY <1>1, <1>2, <2>1, <4>1 DEF ErrorFits, Trying
    <3>2. CASE Exhausted(c)
      <4>1. Len(attempts[c]) \in Nat /\ Len(ranked[c]) \in Nat /\ ranked[c] # <<>>
        BY <2>1 DEF OutcomeInv, IInv, Shape, Trying
      <4>2. Len(attempts[c]) = Len(ranked[c])
        BY <2>1, <3>2, <4>1 DEF Exhausted, AtEnd, Trying, IInv, OnRanking
      <4>3. attempts[c] # <<>>
        <5>1. Len(ranked[c]) # 0
          BY <4>1 DEF IInv, Shape
        <5>. QED  BY <4>2, <5>1
      <4>4. OwnError(c, "AllProvidersFailed")' /\ error'[c].attached = attempts[c]
        BY <3>2, <4>3 DEF Exhausted, Error, OwnError, IInv, Shape
      <4>. QED  BY <1>1, <1>2, <2>1, <4>2, <4>3, <4>4 DEF ErrorFits, Trying
    <3>. QED  BY <1>3, <3>1, <3>2
  <2>3. request'[c].valid
    BY <1>1, <2>1 DEF Trying
  <2>. QED  BY <1>1, <2>1, <2>2, <2>3 DEF TrailFits
<1>4. CASE NotifyFailure(c) \/ Unwind(c) \/ DropTraceback(c)
  <2>1. error' = error
    BY <1>4 DEF NotifyFailure, Unwind, DropTraceback
  <2>2. (ErrorFits(c) => ErrorFits(c)') /\ (Succeeded(c) => Succeeded(c)')
    BY <1>1, <1>2, <2>1 DEF ErrorFits, OwnError, Succeeded, Stopped
  <2>3. \/ pc[c] = "notify" /\ pc'[c] = "raised"
        \/ pc[c] = "unwind" /\ pc'[c] = "interrupted"
        \/ pc'[c] = pc[c] /\ Ended(c)
    BY <1>4 DEF NotifyFailure, Unwind, DropTraceback, Goto, IInv, Shape
  <2>. QED  BY <1>1, <2>2, <2>3 DEF TrailFits, Ended
<1>5. CASE Interrupt(c)
  <2>1. pc'[c] \in {"unwind", "interrupted"}
    BY <1>5 DEF Interrupt, Goto, IInv, Shape
  <2>. QED  BY <1>1, <2>1 DEF TrailFits
<1>. QED  BY <1>3, <1>4, <1>5

LEMMA AgainKeeps ==
  ASSUME IInv, OutcomeInv, NEW c \in Calls, CallAgain(c)
  PROVE  TrailFits(c)'
<1>1. pc'[c] = "idle" /\ ranked'[c] = <<>> /\ attempts'[c] = <<>>
  BY DEF CallAgain, Goto, IInv, Shape
<1>. QED  BY <1>1 DEF TrailFits

\* The hooks: on_success just before a result, on_failure just before an error.
LEMMA ToldKeeps ==
  ASSUME IInv, OutcomeInv, NEW c \in Calls, Act(c)
  PROVE  ToldSoFar(c)'
<1>1. /\ pc \in [Calls -> PCs] /\ told = [d \in Calls |-> told[d]] /\ ToldSoFar(c)
  BY DEF IInv, Shape, OutcomeInv
<1>2. CASE NotifyFailure(c)
  <2>1. /\ pc[c] = "notify" /\ pc'[c] = "raised" /\ request' = request
        /\ told'[c] = Append(told[c], "on_failure")
    BY <1>1, <1>2 DEF NotifyFailure, Goto
  <2>2. told[c] = <<>> /\ request[c].valid
    BY <1>1, <2>1 DEF ToldSoFar, Ended, OutcomeInv, TrailFits
  <2>3. told'[c] = <<"on_failure">>
    BY <2>1, <2>2
  <2>. QED  BY <2>1, <2>2, <2>3 DEF ToldSoFar, Ended
<1>3. CASE Return(c)
  <2>1. /\ pc[c] = "report" /\ pc'[c] = "returned"
        /\ told'[c] = Append(told[c], "on_success")
    BY <1>1, <1>3 DEF Return, Goto
  <2>2. told[c] = <<>>
    BY <1>1, <2>1 DEF ToldSoFar, Ended
  <2>3. told'[c] = <<"on_success">>
    BY <2>1, <2>2
  <2>. QED  BY <2>1, <2>3 DEF ToldSoFar, Ended
<1>4. CASE CallAgain(c)
  <2>1. pc'[c] = "idle" /\ told'[c] = <<>>
    BY <1>1, <1>4 DEF CallAgain, Goto
  <2>. QED  BY <2>1 DEF ToldSoFar
<1>5. CASE Refuse(c)
  <2>1. /\ pc[c] = "idle" /\ pc'[c] = "raised" /\ told' = told /\ request' = request
        /\ ~request[c].valid
    BY <1>1, <1>5 DEF Refuse, Goto
  <2>. QED  BY <1>1, <2>1 DEF ToldSoFar, Ended
<1>6. CASE Unwind(c) \/ Interrupt(c)
  <2>1. pc'[c] \in {"unwind", "interrupted"}
    BY <1>1, <1>6 DEF Unwind, Interrupt, Goto
  <2>. QED  BY <2>1 DEF ToldSoFar, Ended
<1>7. CASE DropTraceback(c)
  <2>1. UNCHANGED <<pc, told, request>>
    BY <1>7 DEF DropTraceback
  <2>. QED  BY <1>1, <2>1 DEF ToldSoFar, Ended
<1>8. CASE ~(NotifyFailure(c) \/ Return(c) \/ CallAgain(c) \/ Refuse(c) \/ Unwind(c)
               \/ Interrupt(c) \/ DropTraceback(c))
  <2>1. /\ told' = told
        /\ ~Ended(c) /\ pc[c] # "unwind"
        /\ pc'[c] \notin {"returned", "raised", "unwind"}
    BY <1>1, <1>8 DEF Act, Step, Prepare, Filter, Score, PromoteKnown, Reserve, Denied,
       OutOfBudget, RecordDenied, Build, AdapterReplies, ReturnSlot, RecordSuccess, Remember,
       RecordFailure, LockModel, Recall, Forget, NextTarget, Stop, Exhausted, Goto, Ended
  <2>. QED  BY <1>1, <2>1 DEF ToldSoFar
<1>. QED  BY <1>2, <1>3, <1>4, <1>5, <1>6, <1>7, <1>8

\* Only the records of an attempt and a new call touch the attempts.
LEMMA AttemptsAre ==
  ASSUME IInv, OutcomeInv, NEW c \in Calls, Act(c)
  PROVE  \/ attempts' = attempts
         \/ attempts' = [attempts EXCEPT ![c] = <<>>] /\ CallAgain(c)
         \/ /\ RecordDenied(c) \/ RecordSuccess(c) \/ RecordFailure(c)
            /\ \E a \in AttemptRecords : attempts' = [attempts EXCEPT ![c] = Append(@, a)]
<1>1. CASE RecordDenied(c) \/ RecordSuccess(c) \/ RecordFailure(c)
  BY <1>1, RecordedIs
<1>2. CASE CallAgain(c)
  BY <1>2 DEF CallAgain
<1>3. CASE ~(RecordDenied(c) \/ RecordSuccess(c) \/ RecordFailure(c) \/ CallAgain(c))
  BY <1>3 DEF Act, Step, Refuse, Prepare, Filter, Score, PromoteKnown, Reserve, Denied,
     OutOfBudget, Build, AdapterReplies, ReturnSlot, Remember, Return, LockModel, Recall,
     Forget, Exhausted, NotifyFailure, Interrupt, Unwind, DropTraceback
<1>. QED  BY <1>1, <1>2, <1>3

LEMMA AttemptsType ==
  ASSUME IInv, OutcomeInv, NEW c \in Calls, Act(c)
  PROVE  attempts' \in [Calls -> Seq(AttemptRecords)]
<1>1. attempts \in [Calls -> Seq(AttemptRecords)]
  BY DEF OutcomeInv
<1>2. \A a \in AttemptRecords : Append(attempts[c], a) \in Seq(AttemptRecords)
  BY <1>1, Appended
<1>3. <<>> \in Seq(AttemptRecords)
  OBVIOUS
<1>. QED  BY <1>1, <1>2, <1>3, AttemptsAre

\* Once a ranking was shown, one is.
LEMMA RouteStays ==
  ASSUME NEW c \in Calls, Act(c)
  PROVE  lastRoute # NoObj => lastRoute' # NoObj
<1>1. lastRoute' \in {lastRoute, c}
  BY DEF Act, Step, Refuse, Prepare, Filter, Score, PromoteKnown, Reserve, Denied,
     OutOfBudget, RecordDenied, Build, AdapterReplies, ReturnSlot, RecordSuccess, Remember,
     Return, RecordFailure, LockModel, Recall, Forget, Exhausted, NotifyFailure, Interrupt,
     Unwind, DropTraceback, CallAgain
<1>. QED  BY <1>1, ObjectsAssumption

LEMMA NextFits == IInv /\ OutcomeInv /\ [Next]_vars => OutcomeInv'
<1> SUFFICES ASSUME IInv, OutcomeInv, [Next]_vars PROVE OutcomeInv'
  OBVIOUS
<1>1. ASSUME NEW c \in Calls, Act(c)
      PROVE  OutcomeInv'
  <2>1. TrailFits(c)'
    BY <1>1, EarlyKeeps, WalkKeeps, RecordKeeps, AfterKeeps, EndKeeps, AgainKeeps DEF Act, Step
  <2>2. ASSUME NEW d \in Calls, d # c PROVE TrailFits(d)' /\ ToldSoFar(d)'
    <3>1. /\ pc'[d] = pc[d] /\ request'[d] = request[d] /\ ranked'[d] = ranked[d]
          /\ pos'[d] = pos[d] /\ reply'[d] = reply[d] /\ attempts'[d] = attempts[d]
          /\ error'[d] = error[d] /\ told'[d] = told[d]
      BY <1>1, <2>2, OthersStay DEF IInv
    <3>2. /\ AllPassed(d)' <=> AllPassed(d)
          /\ LastAttempt(d)' = LastAttempt(d)
          /\ Exc(d)' = Exc(d) /\ (FallsBack(d)' <=> FallsBack(d))
      BY <3>1 DEF AllPassed, LastAttempt, Exc, FallsBack
    <3>3. /\ Trying(d)' <=> Trying(d)
          /\ Succeeded(d)' <=> Succeeded(d)
          /\ FailedHere(d)' <=> FailedHere(d)
      BY <3>1, <3>2 DEF Trying, Succeeded, FailedHere
    <3>4. ErrorFits(d) => ErrorFits(d)'
      <4>1. lastRoute # NoObj => lastRoute' # NoObj
        BY <1>1, RouteStays
      <4>. QED  BY <3>1, <3>2, <4>1 DEF ErrorFits, OwnError, Stopped
    <3>5. TrailFits(d)'
      BY <2>2, <3>1, <3>2, <3>3, <3>4 DEF OutcomeInv, TrailFits
    <3>6. ToldSoFar(d)'
      BY <2>2, <3>1 DEF OutcomeInv, ToldSoFar, Ended
    <3>. QED  BY <3>5, <3>6
  <2>. QED  BY <1>1, <2>1, <2>2, AttemptsType, ToldKeeps DEF OutcomeInv
<1>2. CASE TimePasses \/ UNCHANGED vars
  <2>1. UNCHANGED <<pc, request, ranked, pos, reply, attempts, error, told, lastRoute>>
    BY <1>2 DEF TimePasses, vars, callVars
  <2>2. ASSUME NEW d \in Calls PROVE TrailFits(d)' /\ ToldSoFar(d)'
    BY <2>1 DEF OutcomeInv, TrailFits, ToldSoFar, Ended, Trying, Succeeded, FailedHere,
       ErrorFits, OwnError, Stopped, AllPassed, LastAttempt, Exc, FallsBack
  <2>. QED  BY <2>1, <2>2 DEF OutcomeInv
<1>. QED  BY <1>1, <1>2 DEF Next, Act

LEMMA InitFits == Init => OutcomeInv
<1> SUFFICES ASSUME Init PROVE OutcomeInv
  OBVIOUS
<1>1. <<>> \in Seq(AttemptRecords)
  OBVIOUS
<1>. QED  BY <1>1 DEF Init, OutcomeInv, TrailFits, ToldSoFar

LEMMA OutcomeInductive == Spec => [](IInv /\ OutcomeInv)
BY InitFits, InitHolds, NextFits, NextKeeps, PTL DEF Spec

\* A call ends with what its attempts say and the one fitting hook, for every
\* catalog and every answer: a result after an attempt that succeeded,
\* AllProvidersFailed only with every ranked target tried and passed, an
\* adapter's error only where the table of the design forbids to go on.
THEOREM OutcomesFit == Spec => []OutcomeFitsAttempts
<1>1. ASSUME IInv, OutcomeInv PROVE OutcomeFitsAttempts
  <2> SUFFICES ASSUME NEW c \in Calls
      PROVE  LET n == Len(attempts[c])
                 class == error[c].class
                 own   == ~error[c].adapter
             IN  /\ pc[c] = "returned" =>
                      n > 0 /\ attempts[c][n].type = "ok" /\ told[c] = <<"on_success">>
                 /\ pc[c] = "raised" =>
                      /\ told[c] = IF request[c].valid THEN <<"on_failure">> ELSE <<>>
                      /\ own /\ class = "NoEligibleProviders" =>
                           ranked[c] = <<>> /\ n = 0 /\ lastRoute # NoObj
                      /\ own /\ class = "AllProvidersFailed" =>
                           /\ n > 0 /\ n = Len(ranked[c]) /\ error[c].attached = attempts[c]
                           /\ \A i \in 1 .. n : MayFallBackAfter(attempts[c][i], request[c])
                      /\ own /\ request[c].valid =>
                           class \in {"NoEligibleProviders", "AllProvidersFailed", "BudgetExceeded"}
                      /\ ~own =>
                           /\ n > 0 /\ attempts[c][n].exc.class = class
                           /\ ~MayFallBackAfter(attempts[c][n], request[c])
                           /\ IsInstance(Raised(class), "MultiproviderError") =>
                                error[c].attached = attempts[c]
    BY DEF OutcomeFitsAttempts
  <2>1. attempts[c] \in Seq(AttemptRecords) /\ TrailFits(c) /\ ToldSoFar(c)
    BY <1>1 DEF OutcomeInv
  <2>2. attempts[c] # <<>> => Len(attempts[c]) > 0
    BY <2>1
  <2>3. CASE pc[c] = "returned"
    BY <2>1, <2>2, <2>3 DEF TrailFits, ToldSoFar, Succeeded, LastAttempt
  <2>4. CASE pc[c] = "raised"
    <3>1. ErrorFits(c) /\ told[c] = IF request[c].valid THEN <<"on_failure">> ELSE <<>>
      BY <2>1, <2>4 DEF TrailFits, ToldSoFar
    <3>2. CASE /\ ~request[c].valid /\ \E class \in InvalidArguments : OwnError(c, class)
               /\ ranked[c] = <<>> /\ attempts[c] = <<>>
      BY <2>4, <3>1, <3>2 DEF OwnError, InvalidArguments
    <3>3. CASE /\ request[c].valid /\ OwnError(c, "NoEligibleProviders")
               /\ ranked[c] = <<>> /\ attempts[c] = <<>> /\ lastRoute # NoObj
      BY <2>4, <3>1, <3>3 DEF OwnError
    <3>4. CASE /\ request[c].valid /\ OwnError(c, "AllProvidersFailed")
               /\ ranked[c] # <<>> /\ attempts[c] # <<>> /\ AllPassed(c)
               /\ Len(attempts[c]) = Len(ranked[c]) /\ error[c].attached = attempts[c]
      <4>1. \A i \in 1 .. Len(attempts[c]) : MayFallBackAfter(attempts[c][i], request[c])
        BY <3>4 DEF AllPassed, Passed
      <4>. QED  BY <2>2, <2>4, <3>1, <3>4, <4>1 DEF OwnError
    <3>5. CASE /\ request[c].valid /\ OwnError(c, "BudgetExceeded")
               /\ ranked[c] # <<>> /\ AllPassed(c)
      BY <2>4, <3>1, <3>5 DEF OwnError
    <3>6. CASE request[c].valid /\ ranked[c] # <<>> /\ Stopped(c)
      BY <2>2, <2>4, <3>1, <3>6 DEF Stopped, LastAttempt
    <3>. QED  BY <3>1, <3>2, <3>3, <3>4, <3>5, <3>6 DEF ErrorFits
  <2>5. CASE pc[c] \notin {"returned", "raised"}
    BY <2>5
  <2>. QED  BY <2>3, <2>4, <2>5
<1>. QED  BY <1>1, OutcomeInductive, PTL

-----------------------------------------------------------------------------
(* Each call is the failover along its ranking *)

\* The trail of a call is the sequence of the places and verdicts.
LEMMA TrailIs ==
  ASSUME OutcomeInv, NEW c \in Calls
  PROVE  /\ Trail(c) \in Seq([at : Nat, verdict : Failover!Verdicts])
         /\ Len(Trail(c)) = Len(attempts[c]) /\ Len(attempts[c]) \in Nat
         /\ Trail(c) = <<>> <=> attempts[c] = <<>>
         /\ \A i \in 1 .. Len(attempts[c]) :
              Trail(c)[i] = [at |-> attempts[c][i].pos,
                             verdict |-> Verdict(attempts[c][i], request[c])]
<1>1. attempts[c] \in Seq(AttemptRecords)
  BY DEF OutcomeInv
<1>2. Len(attempts[c]) \in Nat /\ DOMAIN attempts[c] = 1 .. Len(attempts[c])
  BY <1>1
<1>3. \A i \in 1 .. Len(attempts[c]) : attempts[c][i].pos \in Nat
  <2>1. \A i \in 1 .. Len(attempts[c]) : attempts[c][i] \in AttemptRecords
    BY <1>1
  <2>. QED  BY <2>1 DEF AttemptRecords
<1>4. \A a, r : Verdict(a, r) \in Failover!Verdicts
  BY DEF Verdict, Failover!Verdicts
<1>5. Trail(c) = [i \in 1 .. Len(attempts[c]) |->
                    [at |-> attempts[c][i].pos,
                     verdict |-> Verdict(attempts[c][i], request[c])]]
  BY <1>2 DEF Trail
<1>6. \A i \in 1 .. Len(attempts[c]) :
        /\ Trail(c)[i] = [at |-> attempts[c][i].pos,
                          verdict |-> Verdict(attempts[c][i], request[c])]
        /\ Trail(c)[i] \in [at : Nat, verdict : Failover!Verdicts]
  BY <1>3, <1>4, <1>5
<1>7. Trail(c) \in [1 .. Len(attempts[c]) -> [at : Nat, verdict : Failover!Verdicts]]
  BY <1>5, <1>6
<1>8. Trail(c) \in Seq([at : Nat, verdict : Failover!Verdicts])
  BY <1>2, <1>7, FunctionIsSequence
<1>9. Len(Trail(c)) = Len(attempts[c])
  BY <1>2, <1>7, FunctionIsSequence
<1>10. Trail(c) = <<>> <=> attempts[c] = <<>>
  BY <1>1, <1>8, <1>9
<1>. QED  BY <1>2, <1>6, <1>8, <1>9, <1>10

\* What Failover reads of a trail, said of the attempts.
LEMMA TrailSays ==
  ASSUME OutcomeInv, NEW c \in Calls
  PROVE  /\ attempts[c] = <<>> => Failover!Reached(c) = 0
         /\ attempts[c] # <<>> => Failover!Reached(c) = LastAttempt(c).pos
         /\ \A v : Failover!LastSays(c, v) <=>
                     attempts[c] # <<>> /\ Verdict(LastAttempt(c), request[c]) = v
         /\ Failover!MayTry(c) <=>
              attempts[c] = <<>> \/ Verdict(LastAttempt(c), request[c]) = "pass"
<1>1. attempts[c] \in Seq(AttemptRecords)
  BY DEF OutcomeInv
<1>2. attempts[c] # <<>> =>
        /\ Trail(c) # <<>>
        /\ Trail(c)[Len(Trail(c))].at = LastAttempt(c).pos
        /\ Trail(c)[Len(Trail(c))].verdict = Verdict(LastAttempt(c), request[c])
  <2> SUFFICES ASSUME attempts[c] # <<>>
      PROVE  /\ Trail(c) # <<>>
             /\ Trail(c)[Len(Trail(c))].at = LastAttempt(c).pos
             /\ Trail(c)[Len(Trail(c))].verdict = Verdict(LastAttempt(c), request[c])
    OBVIOUS
  <2>1. Len(attempts[c]) \in 1 .. Len(attempts[c])
    BY <1>1
  <2>2. Trail(c) # <<>> /\ Len(Trail(c)) = Len(attempts[c])
    BY TrailIs
  <2>3. Trail(c)[Len(attempts[c])] =
          [at |-> LastAttempt(c).pos, verdict |-> Verdict(LastAttempt(c), request[c])]
    BY <2>1, TrailIs DEF LastAttempt
  <2>. QED  BY <2>2, <2>3
<1>3. [d \in Calls |-> Trail(d)][c] = Trail(c)
  OBVIOUS
<1>4. attempts[c] = <<>> => Trail(c) = <<>>
  BY TrailIs
<1>5. /\ attempts[c] = <<>> => Failover!Reached(c) = 0
      /\ attempts[c] # <<>> => Failover!Reached(c) = LastAttempt(c).pos
  BY <1>2, <1>3, <1>4 DEF Failover!Reached
<1>6. \A v : Failover!LastSays(c, v) <=>
               attempts[c] # <<>> /\ Verdict(LastAttempt(c), request[c]) = v
  BY <1>2, <1>3, <1>4 DEF Failover!LastSays
<1>7. Failover!MayTry(c) <=>
        attempts[c] = <<>> \/ Verdict(LastAttempt(c), request[c]) = "pass"
  BY <1>2, <1>3, <1>4, <1>6 DEF Failover!MayTry
<1>. QED  BY <1>5, <1>6, <1>7

\* A call that is on its way may try on.
LEMMA UnderwayMayTry ==
  ASSUME IInv, OutcomeInv, NEW c \in Calls, AllPassed(c)
  PROVE  /\ Failover!MayTry(c)
         /\ attempts[c] # <<>> => Failover!LastSays(c, "pass")
<1>1. attempts[c] # <<>> => Verdict(LastAttempt(c), request[c]) = "pass"
  <2>1. attempts[c] \in Seq(AttemptRecords)
    BY DEF OutcomeInv
  <2>2. attempts[c] # <<>> => Len(attempts[c]) \in 1 .. Len(attempts[c])
    BY <2>1
  <2>. QED  BY <2>2 DEF AllPassed, Passed, LastAttempt, Verdict
<1>. QED  BY <1>1, TrailSays

\* What Failover calls the error of a call.
ErrorOutcome(c) ==
  IF error[c].adapter THEN "stopped"
  ELSE IF error[c].class = "NoEligibleProviders" THEN "ineligible"
  ELSE IF error[c].class = "AllProvidersFailed" THEN "exhausted"
  ELSE IF error[c].class = "BudgetExceeded" THEN "budget" ELSE "refused"

\* A call has an outcome exactly when it has ended.
LEMMA OutcomeIs ==
  ASSUME NEW c \in Calls
  PROVE  /\ ~Ended(c) => Outcome(c) = "none"
         /\ Ended(c) => Outcome(c) # "none"
         /\ pc[c] = "returned" => Outcome(c) = "result"
         /\ pc[c] = "interrupted" => Outcome(c) = "interrupted"
         /\ pc[c] = "raised" => Outcome(c) = ErrorOutcome(c)
BY DEF Outcome, ErrorOutcome, Ended

\* Calls other than the one that moves keep ranking, trail and outcome.
LEMMA OthersAbstract ==
  ASSUME IInv, OutcomeInv, NEW c \in Calls, Act(c)
  PROVE  \A d \in Calls : d # c =>
           ranked'[d] = ranked[d] /\ Trail(d)' = Trail(d) /\ Outcome(d)' = Outcome(d)
BY OthersStay DEF IInv, Trail, Outcome

\* Steps that show nothing of themselves: ranking, trail and outcome stay.
LEMMA SilentStep ==
  ASSUME IInv, OutcomeInv, NEW c \in Calls, Act(c),
         UNCHANGED <<ranked, attempts, request>>, Outcome(c)' = Outcome(c)
  PROVE  UNCHANGED Failover!vars
<1>1. Trail(c)' = Trail(c)
  BY DEF Trail
<1>2. \A d \in Calls : Trail(d)' = Trail(d) /\ Outcome(d)' = Outcome(d)
  BY <1>1, OthersAbstract
<1>. QED  BY <1>2 DEF Failover!vars
\* A recorded attempt is a try at the next place of the ranking.
LEMMA TryStep ==
  ASSUME IInv, OutcomeInv, NEW c \in Calls,
         RecordDenied(c) \/ RecordSuccess(c) \/ RecordFailure(c)
  PROVE  Failover!Try(c)
<1>1. /\ UNCHANGED <<request, ranked>> /\ pc[c] \in {"denied", "record"} /\ Act(c)
      /\ Trying(c) /\ AllPassed(c) /\ pos[c] = Len(attempts[c]) + 1
  BY DEF RecordDenied, RecordSuccess, RecordFailure, Recorded, Act, Step, OutcomeInv,
     TrailFits, Trying
<1>2. Outcome(c) = "none" /\ Outcome(c)' = "none"
  <2>1. pc'[c] \in {"reserve", "remember", "lock", "recall"}
    BY DEF RecordDenied, RecordSuccess, RecordFailure, Goto, IInv, Shape
  <2>. QED  BY <1>1, <2>1, OutcomeIs DEF Ended, Outcome
<1>3. PICK a \in AttemptRecords :
        attempts' = [attempts EXCEPT ![c] = Append(@, a)] /\ a.pos = pos[c]
  BY RecordedIs
<1>4. request' = request /\ OutcomeInv'
  <2>1. [Next]_vars
    BY <1>1 DEF Next, Act
  <2>. QED  BY <1>1, <2>1, NextFits
<1>5. pos[c] \in 1 .. Len(ranked[c])
  <2>1. pos[c] \in Nat \ {0} /\ ranked[c] \in Seq(Targets) /\ pos[c] <= Len(ranked[c])
    BY <1>1 DEF IInv, Shape, OnRanking
  <2>. QED  BY <2>1
<1>6. Failover!MayTry(c)
  BY <1>1, UnderwayMayTry
<1>7. Failover!Reached(c) + 1 = pos[c]
  <2>1. CASE attempts[c] = <<>>
    BY <1>1, <2>1, TrailSays
  <2>2. CASE attempts[c] # <<>>
    <3>1. Len(attempts[c]) \in 1 .. Len(attempts[c])
      <4>1. attempts[c] \in Seq(AttemptRecords)
        BY DEF OutcomeInv
      <4>. QED  BY <2>2, <4>1
    <3>2. LastAttempt(c).pos = Len(attempts[c])
      BY <3>1 DEF OutcomeInv, TrailFits, LastAttempt
    <3>. QED  BY <1>1, <2>2, <3>2, TrailSays
  <2>. QED  BY <2>1, <2>2
<1>8. pos[c] \in Failover!Reached(c) + 1 .. Len(ranked[c])
  BY <1>5, <1>7
<1> DEFINE entry == [at |-> pos[c], verdict |-> Verdict(a, request[c])]
<1>9. entry.verdict \in Failover!Verdicts
  BY DEF Verdict, Failover!Verdicts
<1>10. Trail(c)' = Append(Trail(c), entry)
  <2> DEFINE n == Len(attempts[c])
  <2>1. /\ n \in Nat /\ Len(attempts'[c]) = n + 1
        /\ attempts'[c][n + 1] = a
        /\ \A i \in 1 .. n : attempts'[c][i] = attempts[c][i]
    BY <1>3, <1>4, Appends
  <2>2. /\ Trail(c) \in Seq([at : Nat, verdict : Failover!Verdicts]) /\ Len(Trail(c)) = n
        /\ \A i \in 1 .. n :
             Trail(c)[i] = [at |-> attempts[c][i].pos,
                            verdict |-> Verdict(attempts[c][i], request[c])]
    BY TrailIs
  <2>3. DOMAIN attempts'[c] = 1 .. n + 1
    <3>1. attempts'[c] \in Seq(AttemptRecords)
      BY <1>4 DEF OutcomeInv
    <3>. QED  BY <2>1, <3>1
  <2>4. Trail(c)' = [i \in 1 .. n + 1 |->
                       [at |-> attempts'[c][i].pos,
                        verdict |-> Verdict(attempts'[c][i], request[c])]]
    BY <1>4, <2>3 DEF Trail
  <2>5. entry \in [at : Nat, verdict : Failover!Verdicts]
    BY <1>5, <1>9
  <2> HIDE DEF n, entry
  <2>6. Append(Trail(c), entry) =
          [i \in 1 .. n + 1 |-> IF i = n + 1 THEN entry ELSE Trail(c)[i]]
    <3> DEFINE Entries == [at : Nat, verdict : Failover!Verdicts]
    <3>1. Trail(c) \in Seq(Entries) /\ entry \in Entries
      BY <2>2, <2>5
    <3> HIDE DEF Entries
    <3>2. Append(Trail(c), entry) =
            [i \in 1 .. Len(Trail(c)) + 1 |->
               IF i = Len(Trail(c)) + 1 THEN entry ELSE Trail(c)[i]]
      BY <3>1, AppendIs
    <3>. QED  BY <2>2, <3>2
  <2>7. ASSUME NEW i \in 1 .. n + 1
        PROVE  [at |-> attempts'[c][i].pos, verdict |-> Verdict(attempts'[c][i], request[c])]
                 = IF i = n + 1 THEN entry ELSE Trail(c)[i]
    <3>1. CASE i = n + 1
      BY <1>3, <2>1, <3>1 DEF entry
    <3>2. CASE i # n + 1
      <4>1. i \in 1 .. n
        BY <2>1, <3>2
      <4>. QED  BY <2>1, <2>2, <3>2, <4>1
    <3>. QED  BY <3>1, <3>2
  <2>. QED  BY <2>4, <2>6, <2>7
<1>11. \A d \in Calls : d # c => Trail(d)' = Trail(d) /\ Outcome(d)' = Outcome(d)
  BY <1>1, OthersAbstract
<1>12. [d \in Calls |-> Trail(d)]' =
         [[d \in Calls |-> Trail(d)] EXCEPT ![c] = Append(@, entry)]
  BY <1>10, <1>11
<1>13. [d \in Calls |-> Outcome(d)]' = [d \in Calls |-> Outcome(d)]
  BY <1>2, <1>11
<1>. QED
  BY <1>1, <1>2, <1>6, <1>7, <1>8, <1>9, <1>12, <1>13 DEF Failover!Try

\* A step that ends a call does so with an outcome that fits its trail.
LEMMA EndStep ==
  ASSUME IInv, OutcomeInv, NEW c \in Calls, Act(c),
         UNCHANGED <<ranked, attempts, request>>, ~Ended(c),
         NEW o \in {"result", "stopped", "exhausted", "ineligible", "refused",
                    "budget", "interrupted"},
         Outcome(c)' = o, Failover!Fits(c, o)
  PROVE  Failover!End(c)
<1>1. Trail(c)' = Trail(c)
  BY DEF Trail
<1>2. \A d \in Calls : Trail(d)' = Trail(d) /\ (d # c => Outcome(d)' = Outcome(d))
  BY <1>1, OthersAbstract
<1>3. Outcome(c) = "none"
  BY OutcomeIs
<1>4. [d \in Calls |-> Outcome(d)]' = [[d \in Calls |-> Outcome(d)] EXCEPT ![c] = o]
  BY <1>2
<1>5. [d \in Calls |-> Trail(d)]' = [d \in Calls |-> Trail(d)]
  BY <1>2
<1>. QED  BY <1>3, <1>4, <1>5 DEF Failover!End

\* An error that fits its attempts is an outcome that fits the trail.
LEMMA ErrorIsOutcome ==
  ASSUME IInv, OutcomeInv, NEW c \in Calls, ErrorFits(c)
  PROVE  Failover!Fits(c, ErrorOutcome(c))
<1>1. CASE Stopped(c)
  <2>1. ErrorOutcome(c) = "stopped"
    BY <1>1 DEF Stopped, ErrorOutcome
  <2>2. attempts[c] # <<>> /\ Verdict(LastAttempt(c), request[c]) = "stop"
    BY <1>1 DEF Stopped, Verdict
  <2>3. Failover!LastSays(c, "stop")
    BY <2>2, TrailSays
  <2>. QED  BY <2>1, <2>3 DEF Failover!Fits
<1>2. CASE OwnError(c, "NoEligibleProviders") /\ ~Stopped(c)
  <2>1. attempts[c] = <<>> /\ ranked[c] = <<>> /\ ErrorOutcome(c) = "ineligible"
    BY <1>2 DEF ErrorFits, OwnError, ErrorOutcome, InvalidArguments
  <2>2. [d \in Calls |-> Trail(d)][c] = <<>>
    BY <2>1, TrailIs
  <2>. QED  BY <2>1, <2>2 DEF Failover!Fits
<1>3. CASE OwnError(c, "AllProvidersFailed") /\ ~Stopped(c)
  <2>1. /\ attempts[c] # <<>> /\ AllPassed(c) /\ Len(attempts[c]) = Len(ranked[c])
        /\ ErrorOutcome(c) = "exhausted"
    BY <1>3 DEF ErrorFits, OwnError, ErrorOutcome, InvalidArguments
  <2>2. LastAttempt(c).pos = Len(ranked[c])
    <3>1. Len(attempts[c]) \in 1 .. Len(attempts[c])
      <4>1. attempts[c] \in Seq(AttemptRecords)
        BY DEF OutcomeInv
      <4>. QED  BY <2>1, <4>1
    <3>. QED  BY <2>1, <3>1 DEF OutcomeInv, TrailFits, LastAttempt
  <2>3. Failover!Reached(c) = Len(ranked[c])
    BY <2>1, <2>2, TrailSays
  <2>. QED  BY <2>1, <2>3, UnderwayMayTry DEF Failover!Fits
<1>4. CASE OwnError(c, "BudgetExceeded") /\ ~Stopped(c)
  <2>1. ranked[c] # <<>> /\ AllPassed(c) /\ ErrorOutcome(c) = "budget"
    BY <1>4 DEF ErrorFits, OwnError, ErrorOutcome, InvalidArguments
  <2>. QED  BY <2>1, UnderwayMayTry DEF Failover!Fits
<1>5. CASE (\E class \in InvalidArguments : OwnError(c, class)) /\ ~Stopped(c)
  <2>1. ranked[c] = <<>> /\ ErrorOutcome(c) = "refused"
    BY <1>5 DEF ErrorFits, OwnError, ErrorOutcome, InvalidArguments
  <2>. QED  BY <2>1 DEF Failover!Fits
<1>. QED  BY <1>1, <1>2, <1>3, <1>4, <1>5 DEF ErrorFits
\* The ranking becomes known and the call keeps to it.
LEMMA PromoteAbstract ==
  ASSUME IInv, OutcomeInv, NEW c \in Calls, PromoteKnown(c)
  PROVE  Failover!Begin(c)
<1>1. /\ pc[c] = "promote" /\ ranked[c] = <<>> /\ UNCHANGED <<attempts, request>>
      /\ Outcome(c) = "none" /\ Act(c)
  BY OutcomeIs DEF PromoteKnown, OutcomeInv, TrailFits, Ended, Act, Step
<1>2. pc'[c] \in {"reserve", "notify"} /\ ranked' = [ranked EXCEPT ![c] = ranked'[c]]
  BY DEF PromoteKnown, Goto, IInv, Shape
<1>3. Outcome(c)' = "none"
  BY <1>2 DEF Outcome
<1>4. Trail(c)' = Trail(c)
  BY <1>1 DEF Trail
<1>5. \A d \in Calls : Trail(d)' = Trail(d) /\ Outcome(d)' = Outcome(d)
  BY <1>1, <1>3, <1>4, OthersAbstract
<1>. QED  BY <1>1, <1>2, <1>5 DEF Failover!Begin

LEMMA EndAbstract ==
  ASSUME IInv, OutcomeInv, NEW c \in Calls,
         Refuse(c) \/ NotifyFailure(c) \/ Return(c) \/ Unwind(c) \/ Interrupt(c)
  PROVE  [Failover!Next]_(Failover!vars)
<1>1. /\ UNCHANGED <<ranked, attempts, request>> /\ ~Ended(c) /\ Outcome(c) = "none"
      /\ Act(c)
  BY OutcomeIs DEF Refuse, NotifyFailure, Return, Unwind, Interrupt, Ended, Act, Step
<1>2. CASE ~Ended(c)'
  <2>1. Outcome(c)' = "none"
    BY <1>2 DEF Ended, Outcome
  <2>. QED  BY <1>1, <2>1, SilentStep
<1>3. CASE pc'[c] = "returned"
  <2>1. pc[c] = "report"
    BY <1>3 DEF Refuse, NotifyFailure, Return, Unwind, Interrupt, Goto, IInv, Shape
  <2>2. attempts[c] # <<>> /\ Verdict(LastAttempt(c), request[c]) = "ok"
    BY <2>1 DEF OutcomeInv, TrailFits, Succeeded, Verdict
  <2>3. Failover!Fits(c, "result")
    BY <2>2, TrailSays DEF Failover!Fits
  <2>4. Outcome(c)' = "result"
    BY <1>3 DEF Outcome
  <2>. QED  BY <1>1, <2>3, <2>4, EndStep DEF Failover!Next
<1>4. CASE pc'[c] = "interrupted"
  <2>1. Outcome(c)' = "interrupted" /\ Failover!Fits(c, "interrupted")
    BY <1>4 DEF Outcome, Failover!Fits
  <2>. QED  BY <1>1, <2>1, EndStep DEF Failover!Next
<1>5. CASE Refuse(c)
  <2>1. /\ pc'[c] = "raised" /\ ranked[c] = <<>>
        /\ \E class \in InvalidArguments : error'[c] = Error(class, <<>>)
    BY <1>5 DEF Refuse, Goto, IInv, Shape, OutcomeInv, TrailFits
  <2>2. Outcome(c)' = "refused"
    BY <1>1, <2>1 DEF Outcome, Error, InvalidArguments
  <2>3. Failover!Fits(c, "refused")
    BY <2>1 DEF Failover!Fits
  <2>. QED  BY <1>1, <2>2, <2>3, EndStep DEF Failover!Next
<1>6. CASE pc'[c] = "raised" /\ ~Refuse(c)
  <2>1. error' = error /\ ErrorFits(c)
    BY <1>6 DEF NotifyFailure, Return, Unwind, Interrupt, Goto, IInv, Shape, OutcomeInv,
       TrailFits
  <2>2. Failover!Fits(c, ErrorOutcome(c))
    BY <2>1, ErrorIsOutcome
  <2>3. Outcome(c)' = ErrorOutcome(c)
    BY <1>1, <1>6, <2>1 DEF Outcome, ErrorOutcome
  <2>4. ErrorOutcome(c) \in {"result", "stopped", "exhausted", "ineligible", "refused",
                             "budget", "interrupted"}
    BY DEF ErrorOutcome
  <2>. QED  BY <1>1, <2>2, <2>3, <2>4, EndStep DEF Failover!Next
<1>. QED  BY <1>2, <1>3, <1>4, <1>5, <1>6 DEF Ended

\* The next call of the same caller starts afresh.
LEMMA AgainAbstract ==
  ASSUME IInv, OutcomeInv, NEW c \in Calls, CallAgain(c)
  PROVE  Failover!Again(c)
<1>1. Act(c) /\ Ended(c) /\ c \in Repeated
  BY DEF CallAgain, Act
<1>2. Outcome(c) # "none"
  BY <1>1, OutcomeIs
<1>3. pc'[c] = "idle" /\ ranked' = [ranked EXCEPT ![c] = <<>>] /\ attempts'[c] = <<>>
  BY DEF CallAgain, Goto, IInv, Shape
<1>4. Outcome(c)' = "none" /\ Trail(c)' = <<>>
  BY <1>3 DEF Outcome, Trail
<1>5. \A d \in Calls : d # c => Trail(d)' = Trail(d) /\ Outcome(d)' = Outcome(d)
  BY <1>1, OthersAbstract
<1>6. /\ [d \in Calls |-> Trail(d)]' = [[d \in Calls |-> Trail(d)] EXCEPT ![c] = <<>>]
      /\ [d \in Calls |-> Outcome(d)]' = [[d \in Calls |-> Outcome(d)] EXCEPT ![c] = "none"]
  BY <1>4, <1>5
<1>. QED  BY <1>1, <1>2, <1>3, <1>6 DEF Failover!Again

LEMMA StepAbstract ==
  IInv /\ OutcomeInv /\ [Next]_vars => [Failover!Next]_(Failover!vars)
<1> SUFFICES ASSUME IInv, OutcomeInv, [Next]_vars
    PROVE  [Failover!Next]_(Failover!vars)
  OBVIOUS
<1>1. ASSUME NEW c \in Calls, PromoteKnown(c) PROVE [Failover!Next]_(Failover!vars)
  BY <1>1, PromoteAbstract DEF Failover!Next
<1>2. ASSUME NEW c \in Calls, RecordDenied(c) \/ RecordSuccess(c) \/ RecordFailure(c)
      PROVE  [Failover!Next]_(Failover!vars)
  BY <1>2, TryStep DEF Failover!Next
<1>3. ASSUME NEW c \in Calls,
             Refuse(c) \/ NotifyFailure(c) \/ Return(c) \/ Unwind(c) \/ Interrupt(c)
      PROVE  [Failover!Next]_(Failover!vars)
  BY <1>3, EndAbstract
<1>4. ASSUME NEW c \in Calls, CallAgain(c) PROVE [Failover!Next]_(Failover!vars)
  BY <1>4, AgainAbstract DEF Failover!Next
<1>5. ASSUME NEW c \in Calls, Act(c),
             ~(\/ PromoteKnown(c) \/ RecordDenied(c) \/ RecordSuccess(c) \/ RecordFailure(c)
               \/ Refuse(c) \/ NotifyFailure(c) \/ Return(c) \/ Unwind(c) \/ Interrupt(c)
               \/ CallAgain(c))
      PROVE  [Failover!Next]_(Failover!vars)
  <2>1. UNCHANGED <<ranked, attempts, request>>
    BY <1>5 DEF Act, Step, Prepare, Filter, Score, Reserve, Denied, OutOfBudget, Build,
       AdapterReplies, ReturnSlot, Remember, LockModel, Recall, Forget, Exhausted,
       DropTraceback
  <2>2. \/ ~Ended(c) /\ ~Ended(c)'
        \/ UNCHANGED <<pc, error>>
    BY <1>5 DEF Act, Step, Prepare, Filter, Score, Reserve, Denied, OutOfBudget, Build,
       AdapterReplies, ReturnSlot, Remember, LockModel, Recall, Forget, NextTarget, Stop,
       Exhausted, DropTraceback, Goto, Ended, IInv, Shape
  <2>3. Outcome(c)' = Outcome(c)
    BY <2>1, <2>2 DEF Outcome, Ended
  <2>. QED  BY <1>5, <2>1, <2>3, SilentStep
<1>6. CASE TimePasses \/ UNCHANGED vars
  <2>1. UNCHANGED <<pc, request, ranked, attempts, error>>
    BY <1>6 DEF TimePasses, vars, callVars
  <2>. QED  BY <2>1 DEF Failover!vars, Trail, Outcome
<1>. QED  BY <1>1, <1>2, <1>3, <1>4, <1>5, <1>6 DEF Next, Act

\* A call of SmartClient is a failover along its ranking that leaves no target
\* out, however calls interleave, lock models and forget targets for each
\* other or are interrupted: none is tried out of order, or after a success or
\* a failure that must stop the call, and the call ends as its attempts say.
THEOREM ImplementsFailover == Spec => FailsOver
<1>1. Init => Failover!Init
  <2> SUFFICES ASSUME Init PROVE Failover!Init
    OBVIOUS
  <2>1. /\ ranked = [c \in Calls |-> <<>>]
        /\ \A c \in Calls : Trail(c) = <<>> /\ Outcome(c) = "none"
    BY DEF Init, Trail, Outcome
  <2>. QED  BY <2>1 DEF Failover!Init
<1>2. IInv /\ OutcomeInv /\ [Next]_vars => [Failover!Next]_(Failover!vars)
  BY StepAbstract
<1>. QED
  BY <1>1, <1>2, OutcomeInductive, PTL DEF Spec, FailsOver, Failover!Spec

-----------------------------------------------------------------------------
(* What the stores hold has its cause in an attempt *)

\* A call was told that the model of a target does not exist.
ToldUnavailable(x) ==
  \E c \in Calls : \E i \in DOMAIN attempts[c] :
     /\ TargetOf(c, attempts[c][i]) = x
     /\ attempts[c][i].type = "failed" /\ attempts[c][i].exc.body = "model"

Limits(e) == e.body = "quota" \/ e.status = 429 \/ e.class = "RateLimited"

\* A call was told to try a target later.
ToldLimited(x) ==
  \E c \in Calls : \E i \in DOMAIN attempts[c] :
     /\ TargetOf(c, attempts[c][i]) = x
     /\ attempts[c][i].type = "failed"
     /\ Limits(attempts[c][i].exc)

LockCauses ==
  \A x \in Targets :
    /\ lock[x] = "terminal" => ToldUnavailable(x)
    /\ lock[x] = "timed" => ToldLimited(x)

\* What a call tried and was told stays with it, where nobody calls again.
LEMMA HistoryStays ==
  ASSUME IInv, OutcomeInv, [Next]_vars, Repeated = {},
         NEW c \in Calls, NEW i \in DOMAIN attempts[c]
  PROVE  /\ i \in DOMAIN attempts'[c] /\ attempts'[c][i] = attempts[c][i]
         /\ TargetOf(c, attempts[c][i])' = TargetOf(c, attempts[c][i])
         /\ MakeKey(request[c])' = MakeKey(request[c])
<1>1. attempts[c] \in Seq(AttemptRecords)
  BY DEF OutcomeInv
<1>2. DOMAIN attempts[c] = 1 .. Len(attempts[c]) /\ attempts[c] # <<>>
  BY <1>1
<1>3. CASE TimePasses \/ UNCHANGED vars
  <2>1. UNCHANGED <<attempts, ranked, request>>
    BY <1>3 DEF TimePasses, vars, callVars
  <2>. QED  BY <2>1 DEF TargetOf
<1>4. ASSUME NEW d \in Calls, Act(d)
      PROVE  /\ i \in DOMAIN attempts'[c] /\ attempts'[c][i] = attempts[c][i]
             /\ ranked'[c] = ranked[c] /\ request'[c] = request[c]
  <2>1. CASE d # c
    BY <1>4, <2>1, OthersStay DEF IInv
  <2>2. CASE d = c
    <3>1. ~CallAgain(c)
      BY DEF CallAgain
    <3>2. request' = request
      BY <1>4, <2>2, <3>1 DEF Act, Step, Refuse, Prepare, Filter, Score, PromoteKnown, Reserve,
         Denied, OutOfBudget, RecordDenied, Build, AdapterReplies, ReturnSlot, RecordSuccess,
         Remember, Return, RecordFailure, LockModel, Recall, Forget, Exhausted, NotifyFailure,
         Interrupt, Unwind, DropTraceback
    <3>3. ranked' = ranked
      <4>1. ~PromoteKnown(c)
        BY <1>2 DEF PromoteKnown, OutcomeInv, TrailFits
      <4>. QED
        BY <1>4, <2>2, <3>1, <4>1 DEF Act, Step, Refuse, Prepare, Filter, Score, Reserve,
           Denied, OutOfBudget, RecordDenied, Build, AdapterReplies, ReturnSlot, RecordSuccess,
           Remember, Return, RecordFailure, LockModel, Recall, Forget, Exhausted,
           NotifyFailure, Interrupt, Unwind, DropTraceback
    <3>4. i \in DOMAIN attempts'[c] /\ attempts'[c][i] = attempts[c][i]
      <4>1. CASE attempts' = attempts
        BY <4>1
      <4>2. CASE \E a \in AttemptRecords : attempts' = [attempts EXCEPT ![c] = Append(@, a)]
        <5>1. PICK a \in AttemptRecords : attempts' = [attempts EXCEPT ![c] = Append(@, a)]
          BY <4>2
        <5>2. /\ Len(attempts[c]) \in Nat /\ Len(attempts'[c]) = Len(attempts[c]) + 1
              /\ \A j \in 1 .. Len(attempts[c]) : attempts'[c][j] = attempts[c][j]
          BY <3>2, <5>1, Appends
        <5>3. attempts'[c] \in Seq(AttemptRecords)
          BY <1>4, <2>2, AttemptsType
        <5>. QED  BY <1>2, <5>2, <5>3
      <4>. QED  BY <1>4, <2>2, <3>1, <4>1, <4>2, AttemptsAre
    <3>. QED  BY <3>2, <3>3, <3>4
  <2>. QED  BY <2>1, <2>2
<1>5. ASSUME NEW d \in Calls, Act(d)
      PROVE  /\ i \in DOMAIN attempts'[c] /\ attempts'[c][i] = attempts[c][i]
             /\ TargetOf(c, attempts[c][i])' = TargetOf(c, attempts[c][i])
             /\ MakeKey(request[c])' = MakeKey(request[c])
  <2>1. /\ i \in DOMAIN attempts'[c] /\ attempts'[c][i] = attempts[c][i]
        /\ ranked'[c] = ranked[c] /\ request'[c] = request[c]
    BY <1>4, <1>5
  <2>. QED  BY <2>1 DEF TargetOf, MakeKey
<1>. QED  BY <1>3, <1>5 DEF Next, Act

LEMMA TellingStays ==
  ASSUME IInv, OutcomeInv, [Next]_vars, Repeated = {}, NEW x
  PROVE  /\ ToldUnavailable(x) => ToldUnavailable(x)'
         /\ ToldLimited(x) => ToldLimited(x)'
<1>1. ASSUME ToldUnavailable(x) PROVE ToldUnavailable(x)'
  <2>1. PICK c \in Calls : \E i \in DOMAIN attempts[c] :
          /\ TargetOf(c, attempts[c][i]) = x
          /\ attempts[c][i].type = "failed" /\ attempts[c][i].exc.body = "model"
    BY <1>1 DEF ToldUnavailable
  <2>2. PICK i \in DOMAIN attempts[c] :
          /\ TargetOf(c, attempts[c][i]) = x
          /\ attempts[c][i].type = "failed" /\ attempts[c][i].exc.body = "model"
    BY <2>1
  <2>3. /\ i \in DOMAIN attempts'[c] /\ attempts'[c][i] = attempts[c][i]
        /\ TargetOf(c, attempts[c][i])' = TargetOf(c, attempts[c][i])
    BY HistoryStays
  <2>. QED  BY <2>2, <2>3 DEF ToldUnavailable
<1>2. ASSUME ToldLimited(x) PROVE ToldLimited(x)'
  <2>1. PICK c \in Calls : \E i \in DOMAIN attempts[c] :
          /\ TargetOf(c, attempts[c][i]) = x /\ attempts[c][i].type = "failed"
          /\ Limits(attempts[c][i].exc)
    BY <1>2 DEF ToldLimited
  <2>2. PICK i \in DOMAIN attempts[c] :
          /\ TargetOf(c, attempts[c][i]) = x /\ attempts[c][i].type = "failed"
          /\ Limits(attempts[c][i].exc)
    BY <2>1
  <2>3. /\ i \in DOMAIN attempts'[c] /\ attempts'[c][i] = attempts[c][i]
        /\ TargetOf(c, attempts[c][i])' = TargetOf(c, attempts[c][i])
    BY HistoryStays
  <2>. QED  BY <2>2, <2>3 DEF ToldLimited
<1>. QED  BY <1>1, <1>2

\* Where the call that locks or remembers has the attempt to show for it.
LEMMA LastIsHere ==
  ASSUME IInv, OutcomeInv, NEW c \in Calls, attempts[c] # <<>>, pos[c] = Len(attempts[c])
  PROVE  /\ Len(attempts[c]) \in DOMAIN attempts[c]
         /\ TargetOf(c, attempts[c][Len(attempts[c])]) = Current(c)
<1>1. attempts[c] \in Seq(AttemptRecords)
  BY DEF OutcomeInv
<1>2. Len(attempts[c]) \in 1 .. Len(attempts[c]) /\ DOMAIN attempts[c] = 1 .. Len(attempts[c])
  BY <1>1
<1>3. attempts[c][Len(attempts[c])].pos = pos[c]
  BY <1>2 DEF OutcomeInv, TrailFits
<1>. QED  BY <1>2, <1>3 DEF TargetOf, Current
\* What a lock says of the exception it was set for.
LEMMA LockSays ==
  ASSUME NEW e, Raisable(e), LocksModel(e)
  PROVE  /\ Stores!LockState(LockSeconds(e)) = "terminal" => e.body = "model"
         /\ Stores!LockState(LockSeconds(e)) = "timed" => Limits(e)
<1>. USE DEF Limits
<1>1. CASE QuotaExhausted(e)
  <2>1. LockSeconds(e) = {60} /\ e.body = "quota"
    BY <1>1 DEF LockSeconds, DefaultLock, QuotaExhausted
  <2>2. {60} # {}
    OBVIOUS
  <2>3. Stores!LockState({60}) # "terminal"
    BY <2>2 DEF Stores!LockState
  <2>. QED  BY <2>1, <2>3
<1>2. CASE ~QuotaExhausted(e) /\ ModelUnavailable(e)
  <2>1. LockSeconds(e) = {} /\ e.body = "model"
    BY <1>2 DEF LockSeconds, ModelUnavailable
  <2>2. Stores!LockState({}) = "terminal"
    BY DEF Stores!LockState
  <2>. QED  BY <2>1, <2>2
<1>3. CASE ~QuotaExhausted(e) /\ ~ModelUnavailable(e)
  <2>1. Throttled(e)
    BY <1>3 DEF LocksModel
  <2>2. e.status = 429 \/ e.class = "RateLimited"
    <3>1. e.class \in ClassNames
      BY DEF Raisable
    <3>2. IsInstance(e, "RateLimited") <=> e.class = "RateLimited"
      BY <3>1, Classes
    <3>. QED  BY <2>1, <3>1, <3>2 DEF Throttled
  <2>3. LockSeconds(e) # {}
    <3>1. {DefaultLock} # {}
      OBVIOUS
    <3>. QED  BY <1>3, <3>1 DEF LockSeconds
  <2>4. Stores!LockState(LockSeconds(e)) # "terminal"
    BY <2>3 DEF Stores!LockState
  <2>. QED  BY <2>2, <2>4
<1>. QED  BY <1>1, <1>2, <1>3

LEMMA LockingKeeps ==
  ASSUME IInv, OutcomeInv, LockCauses, [Next]_vars, Repeated = {}
  PROVE  LockCauses'
<1>. USE DEF LockCauses
<1>1. ASSUME NEW x \in Targets, lock'[x] = lock[x] \/ lock'[x] = "open"
      PROVE  /\ lock'[x] = "terminal" => ToldUnavailable(x)'
             /\ lock'[x] = "timed" => ToldLimited(x)'
  BY <1>1, TellingStays
<1>2. ASSUME NEW c \in Calls, LockModel(c), NEW x \in Targets
      PROVE  /\ lock'[x] = "terminal" => ToldUnavailable(x)'
             /\ lock'[x] = "timed" => ToldLimited(x)'
  <2>1. pc[c] = "lock" /\ FailedHere(c) /\ LocksModel(Exc(c))
    BY <1>2 DEF LockModel, OutcomeInv, TrailFits
  <2>2. lock' = [lock EXCEPT ![Current(c)] = Stores!LockState(LockSeconds(Exc(c)))]
    BY <1>2 DEF LockModel, Stores!Lock
  <2>3. CASE x # Current(c)
    <3>1. lock'[x] = lock[x]
      BY <2>2, <2>3 DEF IInv, StoresShape
    <3>. QED  BY <1>1, <1>2, <3>1
  <2>4. CASE x = Current(c)
    <3>1. lock'[x] = Stores!LockState(LockSeconds(Exc(c)))
      BY <1>2, <2>2, <2>4 DEF IInv, StoresShape
    <3>2. /\ lock'[x] = "terminal" => Exc(c).body = "model"
          /\ lock'[x] = "timed" => Limits(Exc(c))
      BY <2>1, <3>1, LockSays DEF FailedHere
    <3>3. /\ Len(attempts[c]) \in DOMAIN attempts[c]
          /\ TargetOf(c, attempts[c][Len(attempts[c])]) = x
          /\ attempts[c][Len(attempts[c])].type = "failed"
          /\ attempts[c][Len(attempts[c])].exc = Exc(c)
      BY <2>1, <2>4, LastIsHere DEF FailedHere, LastAttempt
    <3>4. /\ lock'[x] = "terminal" => ToldUnavailable(x)
          /\ lock'[x] = "timed" => ToldLimited(x)
      BY <3>2, <3>3 DEF ToldUnavailable, ToldLimited
    <3>. QED  BY <3>4, TellingStays
  <2>. QED  BY <2>3, <2>4
<1>3. ASSUME NEW c \in Calls, Act(c), ~LockModel(c)
      PROVE  lock' = lock
  BY <1>3 DEF Act, Step, Refuse, Prepare, Filter, Score, PromoteKnown, Reserve, Denied,
     OutOfBudget, RecordDenied, Build, AdapterReplies, ReturnSlot, RecordSuccess, Remember,
     Return, RecordFailure, Recorded, Recall, Forget, Exhausted, NotifyFailure, Interrupt,
     Unwind, DropTraceback, CallAgain, storeVars, Stores!Record, Stores!Remember, Stores!Forget
<1>4. ASSUME TimePasses, NEW x \in Targets
      PROVE  lock'[x] = lock[x] \/ lock'[x] = "open"
  BY <1>4 DEF TimePasses, Stores!LockRunsOut, Stores!Forget, IInv, StoresShape
<1>5. CASE UNCHANGED vars
  BY <1>1, <1>5 DEF vars, storeVars
<1>6. CASE TimePasses
  BY <1>1, <1>4, <1>6
<1>7. ASSUME NEW c \in Calls, Act(c)
      PROVE  LockCauses'
  <2>1. CASE LockModel(c)
    BY <1>2, <2>1
  <2>2. CASE ~LockModel(c)
    <3>1. lock' = lock
      BY <1>3, <1>7, <2>2
    <3>. QED  BY <1>1, <3>1
  <2>. QED  BY <2>1, <2>2
<1>. QED  BY <1>5, <1>6, <1>7 DEF Next, Act

\* A model is locked for ever only after a call was told that it does not exist
\* and for a time only after a RateLimited, a 429 or an exhausted quota, whatever
\* the calls
\* and the order in which they set, overwrite and outlive locks.  The attempts
\* are the history the property reads, so no caller may call again and begin
\* them anew; that costs no generality, for there may be any number of calls.
THEOREM LocksFollowAttempts ==
  ASSUME Repeated = {}
  PROVE  Spec => []LocksHaveCause
<1>1. Init => LockCauses
  <2> SUFFICES ASSUME Init PROVE LockCauses
    OBVIOUS
  <2>1. \A x \in Targets : lock[x] = "open"
    BY SameNames DEF Init, Stores!Init
  <2>. QED  BY <2>1 DEF LockCauses
<1>2. LockCauses => LocksHaveCause
  BY DEF LockCauses, ToldUnavailable, ToldLimited, Limits, LocksHaveCause
<1>3. IInv /\ OutcomeInv /\ LockCauses /\ [Next]_vars => LockCauses'
  BY LockingKeeps
<1>. QED  BY <1>1, <1>2, <1>3, OutcomeInductive, PTL DEF Spec
\* The call that remembers a target has its success to show.
LEMMA RememberingKeeps ==
  ASSUME IInv, OutcomeInv, RememberedSucceeded, [Next]_vars, Repeated = {}
  PROVE  RememberedSucceeded'
<1>. DEFINE Answered(k, x) ==
       \E c \in Calls : \E i \in DOMAIN attempts[c] :
         MakeKey(request[c]) = k /\ TargetOf(c, attempts[c][i]) = x /\ attempts[c][i].type = "ok"
<1>1. ASSUME NEW k, NEW x, Answered(k, x)
      PROVE  Answered(k, x)'
  <2>1. PICK c \in Calls : \E i \in DOMAIN attempts[c] :
          MakeKey(request[c]) = k /\ TargetOf(c, attempts[c][i]) = x /\ attempts[c][i].type = "ok"
    BY <1>1
  <2>2. PICK i \in DOMAIN attempts[c] :
          MakeKey(request[c]) = k /\ TargetOf(c, attempts[c][i]) = x /\ attempts[c][i].type = "ok"
    BY <2>1
  <2>3. /\ i \in DOMAIN attempts'[c] /\ attempts'[c][i] = attempts[c][i]
        /\ TargetOf(c, attempts[c][i])' = TargetOf(c, attempts[c][i])
        /\ MakeKey(request[c])' = MakeKey(request[c])
    BY HistoryStays
  <2>. QED  BY <2>2, <2>3
<1>2. ASSUME NEW k \in Keys, NEW x \in known[k]
      PROVE  Answered(k, x)
  BY DEF RememberedSucceeded
<1>3. SUFFICES ASSUME NEW k \in Keys, NEW x \in known'[k]
               PROVE  Answered(k, x)'
  BY DEF RememberedSucceeded
<1>4. CASE \E c \in Calls : Remember(c)
  <2>1. PICK c \in Calls : Remember(c)
    BY <1>4
  <2>2. pc[c] = "remember" /\ Succeeded(c)
    BY <2>1 DEF Remember, OutcomeInv, TrailFits
  <2>3. known' = [known EXCEPT ![MakeKey(request[c])] = {Current(c)}]
    BY <2>1 DEF Remember, Stores!Remember
  <2>4. CASE k = MakeKey(request[c]) /\ x = Current(c)
    <3>1. /\ Len(attempts[c]) \in DOMAIN attempts[c]
          /\ TargetOf(c, attempts[c][Len(attempts[c])]) = x
          /\ attempts[c][Len(attempts[c])].type = "ok"
      BY <2>2, <2>4, LastIsHere DEF Succeeded, LastAttempt
    <3>2. Answered(k, x)
      BY <2>4, <3>1
    <3>. HIDE DEF Answered
    <3>. QED  BY <1>1, <3>2
  <2>5. CASE ~(k = MakeKey(request[c]) /\ x = Current(c))
    <3>1. x \in known[k]
      BY <1>3, <2>3, <2>5 DEF IInv, StoresShape
    <3>2. Answered(k, x)
      BY <1>2, <3>1
    <3>. HIDE DEF Answered
    <3>. QED  BY <1>1, <3>2
  <2>. QED  BY <2>4, <2>5
<1>5. CASE ~\E c \in Calls : Remember(c)
  <2>1. known'[k] = known[k] \/ known'[k] = {}
    <3>1. CASE TimePasses
      BY <3>1 DEF TimePasses, Stores!LockRunsOut, Stores!Forget, IInv, StoresShape
    <3>2. CASE UNCHANGED vars
      BY <3>2 DEF vars, storeVars
    <3>3. ASSUME NEW c \in Calls, Act(c)
          PROVE  known'[k] = known[k] \/ known'[k] = {}
      <4>1. known' = known \/ Forget(c)
        BY <1>5, <3>3 DEF Act, Step, Refuse, Prepare, Filter, Score, PromoteKnown, Reserve,
           Denied, OutOfBudget, RecordDenied, Build, AdapterReplies, ReturnSlot,
           RecordSuccess, Return, RecordFailure, Recorded, LockModel, Recall, Exhausted,
           NotifyFailure, Interrupt, Unwind, DropTraceback, CallAgain, storeVars,
           Stores!Record, Stores!Lock
      <4>. QED  BY <4>1 DEF Forget, Stores!Forget, IInv, StoresShape
    <3>. QED  BY <3>1, <3>2, <3>3 DEF Next, Act
  <2>2. x \in known[k]
    BY <1>3, <2>1
  <2>3. Answered(k, x)
    BY <1>2, <2>2
  <2>. HIDE DEF Answered
  <2>. QED  BY <1>1, <2>3
<1>. QED  BY <1>4, <1>5

\* What is remembered under a key answered a call with that key, however calls
\* remember, recall and forget in each other's way; as above, the attempts are
\* the history.
THEOREM RememberedAnswered ==
  ASSUME Repeated = {}
  PROVE  Spec => []RememberedSucceeded
<1>1. Init => RememberedSucceeded
  <2> SUFFICES ASSUME Init PROVE RememberedSucceeded
    OBVIOUS
  <2>1. \A k \in Keys : known[k] = {}
    BY SameNames DEF Init, Stores!Init
  <2>. QED  BY <2>1 DEF RememberedSucceeded
<1>2. IInv /\ OutcomeInv /\ RememberedSucceeded /\ [Next]_vars => RememberedSucceeded'
  BY RememberingKeeps
<1>. QED  BY <1>1, <1>2, OutcomeInductive, PTL DEF Spec

=============================================================================
