---------------------------- MODULE Configuration ----------------------------
(***************************************************************************)
(* config.py: which documents are configurations, and the LibraryConfig    *)
(* (see Routing) each of them gives.                                       *)
(*                                                                         *)
(* A document is a value of Documents.  Every refusal is a ConfigError and *)
(* none leaves a trace, so that their order does not matter.               *)
(***************************************************************************)
EXTENDS Integers, Routing, Documents

CONSTANT NoBudget

ProviderFields ==
  {"enabled", "freshness_ok", "models", "default_model", "base_url",
   "api_key_env", "rate_limits"}
TopLevelFields == {"providers", "provider_order", "tier_routing", "global_budget"}

\* rate_limits, when the key is there: null is not a mapping, True is not an
\* integer, zero and negative numbers are.
ValidRateLimits(v) ==
  /\ v.kind = "map"
  /\ DOMAIN v.val \subseteq {"max_inflight"}
  /\ Field(v, "max_inflight").kind = "number"

ValidModels(v) == v.kind = "map" /\ \A t \in DOMAIN v.val : v.val[t].kind = "string"

ValidProvider(v) ==
  /\ v.kind = "map"
  /\ DOMAIN v.val \subseteq ProviderFields
  /\ ValidModels(Field(v, "models"))
  /\ "rate_limits" \in DOMAIN v.val => ValidRateLimits(v.val["rate_limits"])
  /\ \A f \in {"enabled", "freshness_ok"} : Field(v, f).kind = "boolean"
  /\ \A f \in {"default_model", "base_url", "api_key_env"} : Field(v, f).kind = "string"

\* Models and base_url are only passed on, and left out.
ParseProvider(v) ==
  [enabled      |-> v.val["enabled"].val,
   freshness_ok |-> v.val["freshness_ok"].val,
   api_key_env  |-> v.val["api_key_env"].val,
   rate_limits  |-> IF "rate_limits" \in DOMAIN v.val
                    THEN {v.val["rate_limits"].val["max_inflight"].val}
                    ELSE {}]

\* Mutant of ValidNames: the names of a route are not looked up.
ValidNames_Unchecked(v, known) ==
  v.kind = "list" /\ \A i \in DOMAIN v.val : v.val[i].kind = "string"

\* provider_order, and each route of tier_routing.
ValidNames(v, known) ==
  /\ v.kind = "list"
  /\ \A i \in DOMAIN v.val : v.val[i].kind = "string" /\ v.val[i].val \in known

ParseNames(v) == [i \in DOMAIN v.val |-> v.val[i].val]

ValidTierRouting(v, known) ==
  \/ v.kind = "null"
  \/ v.kind = "map" /\ \A t \in DOMAIN v.val : ValidNames(v.val[t], known)

ParseTierRouting(v) ==
  IF v.kind = "null" THEN <<>> ELSE [t \in DOMAIN v.val |-> ParseNames(v.val[t])]

\* What config_from_dict takes without a ConfigError.
Accepts(d) ==
  /\ DOMAIN d.val \subseteq TopLevelFields
  /\ Field(d, "providers").kind = "map"
  /\ LET providers == Field(d, "providers").val IN
     /\ \A n \in DOMAIN providers : ValidProvider(providers[n])
     /\ ValidNames(Field(d, "provider_order"), DOMAIN providers)
     /\ ValidTierRouting(Field(d, "tier_routing"), DOMAIN providers)
  /\ Field(d, "global_budget").kind \in {"number", "null"}

ConfigFromDict(d) ==
  LET providers == Field(d, "providers").val
      budget    == Field(d, "global_budget")
  IN  [providers      |-> [n \in DOMAIN providers |-> ParseProvider(providers[n])],
       provider_order |-> ParseNames(Field(d, "provider_order")),
       tier_routing   |-> ParseTierRouting(Field(d, "tier_routing")),
       global_budget  |-> IF budget.kind = "null" THEN NoBudget ELSE budget.val]

=============================================================================
