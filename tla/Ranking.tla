------------------------------- MODULE Ranking -------------------------------
(***************************************************************************)
(* From a catalog to the ranked targets of a call: the pool, the prefilter *)
(* and the scores of routing/pool.py, prefilter.py, scoring.py, rank.py    *)
(* and the promotion of routing/lkgp.py.                                   *)
(*                                                                         *)
(* A target is a pair <<provider, model>>.  A catalog entry is a record    *)
(*   provider, model, adapter, keyed, cost_tier, freshness_ok,             *)
(*   tier_affinity (a function from tiers), enabled_by_default             *)
(* where keyed says that has_key(entry) holds.  A request has              *)
(*   free_only, fresh (freshness_required), tier and task ({t} or {}), and *)
(* what the injected readers answer during the call: cooling, a set of     *)
(* providers, and quota[x], {n} or {}.                                     *)
(* Fractions of one are kept in units of 1/Scale.                          *)
(***************************************************************************)
EXTENDS Integers, Sequences, FiniteSets, SequencesExt

CONSTANTS
  Catalog,         \* the entries, a sequence
  Enabled,         \* _enabled_providers
  Lexical,         \* Lexical[x]: place of x in the order of (provider, model)
  Scale,           \* 1.0
  MinQuota         \* min_quota_pct: 0.05 in the code

Target(entry) == <<entry.provider, entry.model>>
Targets == {Target(entry) : entry \in ToSet(Catalog)}

KnownAdapters == {"gemini", "anthropic", "openai_compat"}

ASSUME ScaleAssumption == Scale \in Nat \ {0} /\ MinQuota \in 0 .. Scale

\* What load_catalog accepts.
ASSUME CatalogAssumption ==
  /\ Catalog \in Seq(ToSet(Catalog))
  /\ \A entry \in ToSet(Catalog) :
       /\ entry.adapter \in KnownAdapters
       /\ \A t \in DOMAIN entry.tier_affinity : entry.tier_affinity[t] \in 0 .. Scale

\* No two targets have the same place in the order of names.
ASSUME LexicalAssumption ==
  \A x, y \in Targets : Lexical[x] \in Int /\ (Lexical[x] = Lexical[y] => x = y)

\* A reader of quotas answers a number or None.
Answerable(r) == \A x \in Targets : r.quota[x] \subseteq Int

-----------------------------------------------------------------------------
(* build_candidate_pool *)

Admitted(entry, r) ==
  /\ entry.keyed
  /\ ~(r.free_only /\ entry.cost_tier = "paid")
  /\ r.fresh => entry.freshness_ok
  /\ entry.provider \in Enabled

\* Mutant of BuildPool: a target is seen before its entry is looked at.
BuildPool_SeenFirst(r) ==
  {Catalog[i] : i \in {i \in DOMAIN Catalog :
     /\ Admitted(Catalog[i], r)
     /\ \A j \in 1 .. i - 1 : Target(Catalog[j]) # Target(Catalog[i])}}

\* The first admitted entry of each target.  The pool's order is of no
\* consequence, since rank_candidates sorts by a total order.
BuildPool(r) ==
  {Catalog[i] : i \in {i \in DOMAIN Catalog :
     /\ Admitted(Catalog[i], r)
     /\ \A j \in 1 .. i - 1 :
          ~(Admitted(Catalog[j], r) /\ Target(Catalog[j]) = Target(Catalog[i]))}}

-----------------------------------------------------------------------------
(* prefilter_candidates *)

Passes(entry, r, lock) ==
  /\ lock[Target(entry)] = "open"
  /\ entry.provider \notin r.cooling
  /\ \A n \in r.quota[Target(entry)] : n >= MinQuota
  /\ entry.adapter \in KnownAdapters

Eligible(r, lock) == {entry \in BuildPool(r) : Passes(entry, r, lock)}

-----------------------------------------------------------------------------
(* RollingHealthMetrics.error_rate and p95_latency_ms, and the factors *)

ErrorRate(attempts) ==
  (Scale * Cardinality({i \in DOMAIN attempts : ~attempts[i].ok})) \div Len(attempts)

\* The 95th percentile by nearest rank; 0.95 n rounded up is (95 n + 99) / 100.
\* What sorting puts at a place has fewer below it, and as many up to it.
P95Latency(attempts) ==
  LET place == (95 * Len(attempts) + 99) \div 100
  IN  CHOOSE l \in {attempts[i].latency : i \in DOMAIN attempts} :
        /\ Cardinality({i \in DOMAIN attempts : attempts[i].latency < l}) < place
        /\ place <= Cardinality({i \in DOMAIN attempts : attempts[i].latency <= l})

Clamp01(n) == IF n < 0 THEN 0 ELSE IF n > Scale THEN Scale ELSE n

FactorNames == {"quota", "health", "latency_inv", "tier_fit", "cost_inv"}
Weight == [quota |-> 30, health |-> 25, latency_inv |-> 20, tier_fit |-> 15, cost_inv |-> 10]

\* What is not known counts as one.
TierFit(entry, tier) ==
  IF tier = {} THEN Scale
  ELSE LET t == CHOOSE t \in tier : TRUE
       IN  IF t \in DOMAIN entry.tier_affinity THEN entry.tier_affinity[t] ELSE 0

Factors(entry, r, window) ==
  LET x == Target(entry)
      unseen == window[x] = <<>>
  IN  [quota       |-> IF r.quota[x] = {} THEN Scale
                       ELSE Clamp01(CHOOSE n \in r.quota[x] : TRUE),
       health      |-> IF unseen THEN Scale ELSE Clamp01(Scale - ErrorRate(window[x])),
       latency_inv |-> IF unseen THEN Scale
                       ELSE (1000 * Scale) \div (1000 + P95Latency(window[x])),
       tier_fit    |-> TierFit(entry, r.tier),
       cost_inv    |-> IF entry.cost_tier = "free" THEN Scale ELSE 0]

-----------------------------------------------------------------------------
(* rank_candidates *)

\* Factors that are the same for all targets are dropped.
ConstantFactors(rows) ==
  {f \in FactorNames : \A a, b \in rows : a[f] = b[f]}

WeightedSum(factors, names) ==
  LET term(f) == IF f \in names THEN Weight[f] * factors[f] ELSE 0
  IN  term("quota") + term("health") + term("latency_inv") + term("tier_fit")
        + term("cost_inv")

\* Mutant of Scores: the latency is dropped even where it differs.
Scores_NoLatency(entries, r, window) ==
  LET active == FactorNames \ (ConstantFactors({Factors(e, r, window) : e \in entries})
                                 \cup {"latency_inv"})
  IN  [x \in {Target(e) : e \in entries} |->
         WeightedSum(Factors(CHOOSE e \in entries : Target(e) = x, r, window), active)]

\* The code divides each score by the sum of the active weights, which is the
\* same for all targets of a ranking: without it, scores compare the same.
Scores(entries, r, window) ==
  LET active == FactorNames \ ConstantFactors({Factors(e, r, window) : e \in entries})
  IN  [x \in {Target(e) : e \in entries} |->
         WeightedSum(Factors(CHOOSE e \in entries : Target(e) = x, r, window), active)]

Before(scores, x, y) ==
  \/ scores[x] > scores[y]
  \/ scores[x] = scores[y] /\ Lexical[x] < Lexical[y]

\* Each target stands behind those that come before it.
Ahead(scores, x) == {y \in DOMAIN scores : Before(scores, y, x)}

Sorted(scores) ==
  [i \in 1 .. Cardinality(DOMAIN scores) |->
     CHOOSE x \in DOMAIN scores : Cardinality(Ahead(scores, x)) = i - 1]

\* make_key: a tier and a task_kind share what is remembered.
MakeKey(r) == <<r.tier, r.task>>

\* A band of 0.10 below the best score.
WithinBand(score, best) == 10 * score >= 9 * best

MoveToFront(ranked, k) ==
  [i \in DOMAIN ranked |->
     IF i = 1 THEN ranked[k] ELSE IF i <= k THEN ranked[i - 1] ELSE ranked[i]]

\* Mutants of Promote: the band is not looked at, and the promoted target keeps
\* its own place besides.
Promote_AnyScore(ranked, scores, remembered) ==
  LET places == {i \in DOMAIN ranked : ranked[i] \in remembered}
  IN  IF places = {} THEN ranked ELSE MoveToFront(ranked, CHOOSE k \in places : TRUE)

Promote_Twice(ranked, scores, remembered) ==
  LET places == {i \in DOMAIN ranked :
                   ranked[i] \in remembered /\ WithinBand(scores[ranked[i]], scores[ranked[1]])}
  IN  IF places = {} THEN ranked ELSE <<ranked[CHOOSE k \in places : TRUE]>> \o ranked

\* LkgpStore.promote: the remembered target goes first when it is ranked and
\* within the band, and the others keep their order.
Promote(ranked, scores, remembered) ==
  LET places == {i \in DOMAIN ranked :
                   ranked[i] \in remembered /\ WithinBand(scores[ranked[i]], scores[ranked[1]])}
  IN  IF places = {} THEN ranked ELSE MoveToFront(ranked, CHOOSE k \in places : TRUE)

=============================================================================
