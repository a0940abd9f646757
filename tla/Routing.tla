------------------------------- MODULE Routing -------------------------------
(***************************************************************************)
(* Which providers a call goes to, and in which order: routing/chain.py    *)
(* over a LibraryConfig.                                                   *)
(*                                                                         *)
(* A configuration is a record                                             *)
(*   providers:      a function from the configured names to records       *)
(*                   enabled, freshness_ok, rate_limits ({n} or {})        *)
(*   provider_order: a sequence of configured names                        *)
(*   tier_routing:   a function from tiers to sequences of names           *)
(*   global_budget:  an integer or no budget                               *)
(* A request is a record with, among others,                               *)
(*   provider_chain: {chain} when the caller names the providers, else {}  *)
(*   tier:           {tier} or {}                                          *)
(*   fresh:          freshness_required                                    *)
(***************************************************************************)
EXTENDS Subsequences

\* The lists of names that chains may come from.
NameLists(config, requests) ==
  {config.provider_order}
    \cup {config.tier_routing[t] : t \in DOMAIN config.tier_routing}
    \cup UNION {r.provider_chain : r \in requests}

Eligible(config, name, fresh) ==
  /\ name \in DOMAIN config.providers
  /\ config.providers[name].enabled
  /\ fresh => config.providers[name].freshness_ok

FilterNames(config, names, fresh) ==
  Only(names, {n \in ToSet(names) : Eligible(config, n, fresh)})

\* resolve_chain refuses a provider_chain with a name that is not configured.
UnknownProvider(config, request) ==
  \E chain \in request.provider_chain :
     ~(ToSet(chain) \subseteq DOMAIN config.providers)

\* The preferred providers of the tier that are eligible, then the others in
\* provider_order.
TierChain(base, preferred) ==
  LET lead == Only(preferred, ToSet(base))
  IN  lead \o Only(base, ToSet(base) \ ToSet(lead))

ResolveChain(config, request) ==
  IF request.provider_chain # {}
  THEN FilterNames(config, CHOOSE chain \in request.provider_chain : TRUE, request.fresh)
  ELSE LET base   == FilterNames(config, config.provider_order, request.fresh)
           routed == request.tier \cap DOMAIN config.tier_routing
       IN  IF routed = {}
           THEN base
           ELSE TierChain(base, config.tier_routing[CHOOSE t \in routed : TRUE])

=============================================================================
