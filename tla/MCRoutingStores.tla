--------------------------- MODULE MCRoutingStores ---------------------------
(***************************************************************************)
(* RoutingStores for TLC: three targets at two providers, given as the     *)
(* document that load_catalog makes the catalog of, and as that catalog,   *)
(* which TLC reads faster.  The first entry of one target has no key and   *)
(* its second entry has one; another has a second entry that costs.        *)
(***************************************************************************)
EXTENDS RoutingStores, ProviderCatalog

CONSTANTS gemini, groq,              \* providers
          flash, small,              \* models
          standard, high             \* tiers

Affinity(f) == Map([t \in DOMAIN f |-> Fraction(f[t])])

Entry ==
  [provider |-> String(gemini), model |-> String(flash), display_name |-> String("name"),
   adapter |-> String("gemini"), auth |-> String("api_key"), api_key_env |-> String("KEY"),
   base_url |-> String("url"), cost_tier |-> String("free"), capabilities |-> Map(<<>>),
   freshness_ok |-> Boolean(TRUE), tier_affinity |-> Map([t \in {standard} |-> Number(1)]),
   monthly_tokens |-> Number(0), enabled_by_default |-> Boolean(TRUE)]

Local == [Entry EXCEPT !.provider = String(groq), !.model = String(small),
                       !.adapter = String("openai_compat"), !.auth = String("none"),
                       !.api_key_env = Null]

Document(entries) == Map([catalog_id |-> String("id"), entries |-> List(entries)])

Usable ==
  Document(
  <<Map([Entry EXCEPT !.api_key_env = String("UNSET")]),
    Map([Entry EXCEPT !.cost_tier = String("paid")]),
    Map([Entry EXCEPT !.model = String(small), !.freshness_ok = Boolean(FALSE),
                      !.tier_affinity = Affinity([t \in {standard, high} |-> 30])]),
    Map([Local EXCEPT !.tier_affinity = Affinity([t \in {standard} |-> 45])]),
    Map([Local EXCEPT !.cost_tier = String("paid")])>>)

Refused ==
  <<Document(<<Map([Entry EXCEPT !.tier_affinity = Affinity([t \in {standard} |-> 61])])>>),
    Document(<<Map([Entry EXCEPT !.tier_affinity = Map([t \in {standard} |-> Boolean(TRUE)])])>>),
    Document(<<Map([Entry EXCEPT !.api_key_env = Null])>>),
    Document(<<Map([Entry EXCEPT !.api_key_env = String("")])>>),
    Document(<<Map([Entry EXCEPT !.monthly_tokens = Number(-1)])>>),
    Document(<<Map([Entry EXCEPT !.adapter = String("groq")])>>),
    Document(<<List(<<>>)>>)>>

Row(p, m, adapter, cost, fresh, affinity, keyed) ==
  [provider |-> p, model |-> m, adapter |-> adapter, cost_tier |-> cost,
   freshness_ok |-> fresh, tier_affinity |-> affinity, keyed |-> keyed,
   enabled_by_default |-> TRUE]

MCCatalog ==
  <<Row(gemini, flash, "gemini", "free", TRUE, standard :> 60, FALSE),
    Row(gemini, flash, "gemini", "paid", TRUE, standard :> 60, TRUE),
    Row(gemini, small, "gemini", "free", FALSE, standard :> 30 @@ high :> 30, TRUE),
    Row(groq, small, "openai_compat", "free", TRUE, standard :> 45, TRUE),
    Row(groq, small, "openai_compat", "paid", TRUE, standard :> 60, TRUE)>>
MCEnabled == {gemini, groq}

\* What Ranking reads of an entry.
Read(entry) ==
  [f \in {"provider", "model", "adapter", "cost_tier", "freshness_ok", "tier_affinity",
          "keyed", "enabled_by_default"} |-> entry[f]]

\* The catalog is the one that load_catalog makes of Usable, with one key set.
ASSUME LoadsTheCatalog ==
  /\ ValidCatalog(Usable)
  /\ LET entries == WithKeys(Entries(Usable), {"KEY"})
     IN  MCCatalog = [i \in DOMAIN entries |-> Read(entries[i])]
  /\ MCEnabled = DefaultEnabledProviders(Entries(Usable))

ASSUME RefusesTheOthers == \A i \in DOMAIN Refused : ~ValidCatalog(Refused[i])

MCLexical(x) ==
  CASE x = <<gemini, flash>> -> 1
    [] x = <<gemini, small>> -> 2
    [] OTHER                 -> 3

MCOrder == [x \in {<<e.provider, e.model>> : e \in ToSet(MCCatalog)} |-> MCLexical(x)]

Request ==
  [free_only |-> FALSE, fresh |-> FALSE, tier |-> {}, task |-> {}, cooling |-> {},
   quota |-> [x \in DOMAIN MCOrder |-> {}]]

Left(n) ==
  [x \in DOMAIN MCOrder |-> IF x = <<gemini, small>> THEN {n} ELSE {60}]

MCRequests ==
  {Request,
   [Request EXCEPT !.tier = {high}, !.quota = Left(45)],
   [Request EXCEPT !.free_only = TRUE, !.quota = Left(3)],
   [Request EXCEPT !.quota = Left(2)],
   [Request EXCEPT !.fresh = TRUE, !.cooling = {groq}]}

MCCooldowns == {{0}, {1}}

=============================================================================
