---------------------------- MODULE RoutingStores ----------------------------
(***************************************************************************)
(* What smart clients learn and share: ModelLockoutTracker, LkgpStore and  *)
(* RollingHealthMetrics, each guarded by a lock of its own, so that each   *)
(* operation is one action; and the ranking computed from them.            *)
(*                                                                         *)
(* Deadlines are kept as what a reader can see of them: a lock is open,    *)
(* timed (and may run out at any later moment) or terminal (math.inf).  A  *)
(* remembered target may be dropped at any moment, by forget or because    *)
(* ttl_s have passed when it is next looked up.                            *)
(***************************************************************************)
EXTENDS Ranking

CONSTANTS
  Window,          \* window_size: 50 in the code
  Latencies,       \* latencies an attempt may have, in ms
  Cooldowns,       \* cooldown_s of a lock: {n}, or {} for None
  Requests         \* the requests the ranking is looked at for

ASSUME WindowAssumption == Window \in Nat /\ Latencies \subseteq Nat
ASSUME RequestsAssumption == \A r \in Requests : Answerable(r)

Keys == {MakeKey(r) : r \in Requests}

VARIABLES
  lock,            \* _until of ModelLockoutTracker
  known,           \* _items of LkgpStore: {} or {x} for each key
  window           \* _windows of RollingHealthMetrics

vars == <<lock, known, window>>

Init ==
  /\ lock = [x \in Targets |-> "open"]
  /\ known = [k \in Keys |-> {}]
  /\ window = [x \in Targets |-> <<>>]

\* A lock of no seconds is over when it is set.
LockState(cooldown) ==
  IF cooldown = {} THEN "terminal"
  ELSE IF \E n \in cooldown : n > 0 THEN "timed" ELSE "open"

\* lock(): whatever lock there was is overwritten.
Lock(x, cooldown) ==
  /\ lock' = [lock EXCEPT ![x] = LockState(cooldown)]
  /\ UNCHANGED <<known, window>>

LockRunsOut(x) ==
  /\ lock[x] = "timed"
  /\ lock' = [lock EXCEPT ![x] = "open"]
  /\ UNCHANGED <<known, window>>

Remember(k, x) ==
  /\ known' = [known EXCEPT ![k] = {x}]
  /\ UNCHANGED <<lock, window>>

Forget(k) ==
  /\ known' = [known EXCEPT ![k] = {}]
  /\ UNCHANGED <<lock, window>>

\* deque(maxlen): the oldest attempts are dropped; window_size may be 0.
Latest(attempts) ==
  SubSeq(attempts, IF Len(attempts) > Window THEN Len(attempts) - Window + 1 ELSE 1,
         Len(attempts))

\* Mutant of Record: the window is not bounded.
Record_Unbounded(x, ok, latency) ==
  /\ window' = [window EXCEPT ![x] = Append(@, [ok |-> ok, latency |-> latency])]
  /\ UNCHANGED <<lock, known>>

Record(x, ok, latency) ==
  /\ window' = [window EXCEPT ![x] = Latest(Append(@, [ok |-> ok, latency |-> latency]))]
  /\ UNCHANGED <<lock, known>>

Next ==
  \/ \E x \in Targets :
       \/ \E cooldown \in Cooldowns : Lock(x, cooldown)
       \/ LockRunsOut(x)
       \/ \E k \in Keys : Remember(k, x)
       \/ \E ok \in BOOLEAN, latency \in Latencies : Record(x, ok, latency)
  \/ \E k \in Keys : Forget(k)

Spec == Init /\ [][Next]_vars

-----------------------------------------------------------------------------
(* rank_candidates over the stores as they are now *)

ScoresNow(r) == Scores(Eligible(r, lock), r, window)
RankedNow(r) == Promote(Sorted(ScoresNow(r)), ScoresNow(r), known[MakeKey(r)])

-----------------------------------------------------------------------------

\* Every store has its type, and no window is longer than its size.
TypeOK ==
  /\ lock \in [Targets -> {"open", "timed", "terminal"}]
  /\ known \in [Keys -> SUBSET Targets]
  /\ \A k \in Keys : Cardinality(known[k]) <= 1
  /\ \A x \in Targets :
       /\ window[x] \in Seq([ok : BOOLEAN, latency : Latencies])
       /\ Len(window[x]) <= Window

\* A target is ranked once exactly if some entry of it, be it the first or a
\* later one, passes every filter of the request and the target is not locked;
\* what is remembered adds nothing, and no filtering step loses a target.
RanksTheEligible ==
  \A r \in Requests :
    LET ranked == RankedNow(r)
        fits(x) == /\ lock[x] = "open" /\ x[1] \notin r.cooling
                   /\ \A n \in r.quota[x] : n >= MinQuota
                   /\ \E e \in ToSet(Catalog) :
                        Target(e) = x /\ Admitted(e, r) /\ e.adapter \in KnownAdapters
    IN  /\ ToSet(ranked) = {x \in Targets : fits(x)}
        /\ Len(ranked) = Cardinality(ToSet(ranked))

\* The remembered target is first if, and ahead of a better one only if, it is
\* ranked and at most a tenth below the best score; all the others follow by
\* score and then by name, and without a promotion so does the first.
PromotesOnlyWithinBand ==
  \A r \in Requests :
    LET ranked == RankedNow(r)
        scores == ScoresNow(r)
        best(x) == \A y \in DOMAIN scores : scores[y] <= scores[x]
        close(x) == \E y \in DOMAIN scores : best(y) /\ 10 * scores[x] >= 9 * scores[y]
        later(i) == i > 1 /\ ~Before(scores, ranked[i - 1], ranked[i])
    IN  ranked # <<>> =>
          /\ \A x \in known[MakeKey(r)] \cap DOMAIN scores : close(x) => ranked[1] = x
          /\ \A i \in DOMAIN ranked : later(i) => i = 2 /\ known[MakeKey(r)] = {ranked[1]}
          /\ best(ranked[1]) \/ (known[MakeKey(r)] = {ranked[1]} /\ close(ranked[1]))

\* Dropping the constant factors changes no order: targets are in the order of
\* the whole weighted sum, in which every factor counts.
DroppingKeepsOrder ==
  \A r \in Requests :
    LET entries == Eligible(r, lock)
        scores  == Scores(entries, r, window)
        whole(x) == WeightedSum(Factors(CHOOSE e \in entries : Target(e) = x, r, window),
                                FactorNames)
    IN  \A x, y \in DOMAIN scores : (scores[x] > scores[y]) <=> (whole(x) > whole(y))

=============================================================================
