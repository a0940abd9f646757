--------------------------- MODULE ProviderCatalog ---------------------------
(***************************************************************************)
(* catalog/: which documents are catalogs, the entries that each of them   *)
(* gives, and which of these have a key.  What load_catalog reads is a     *)
(* value of Documents; fractions of one are in units of 1/One, and names   *)
(* are strings, "" the empty one.  A refusal is a ConfigError, but a       *)
(* TypeError where a list or a mapping is looked up in a set of names.     *)
(***************************************************************************)
EXTENDS Integers, Documents, SequencesExt

CONSTANT One

EntryFields ==
  {"provider", "model", "display_name", "adapter", "auth", "api_key_env", "base_url",
   "cost_tier", "capabilities", "freshness_ok", "tier_affinity", "monthly_tokens",
   "pool_key", "http_referer", "enabled_by_default"}
TopFields == {"catalog_id", "entries"}
AdapterNames == {"gemini", "anthropic", "openai_compat"}

OneOf(v, names) == v.kind = "string" /\ v.val \in names
NonEmpty(v) == v.kind = "string" /\ v.val # ""
OrNull(v, kind) == v.kind \in {kind, "null"}

ValidKeyEnv(auth, v) ==
  IF auth = "none" THEN OrNull(v, "string") ELSE NonEmpty(v)

InUnits(v) == IF v.kind = "number" THEN v.val * One ELSE v.val

ValidAffinity(v) ==
  v.kind = "map" /\ \A t \in DOMAIN v.val :
    v.val[t].kind \in {"number", "fraction"} /\ InUnits(v.val[t]) \in 0 .. One

ValidEntry(v) ==
  /\ v.kind = "map" /\ DOMAIN v.val \subseteq EntryFields
  /\ OneOf(Field(v, "adapter"), AdapterNames)
  /\ OneOf(Field(v, "auth"), {"api_key", "none"})
  /\ OneOf(Field(v, "cost_tier"), {"free", "paid"})
  /\ ValidKeyEnv(Field(v, "auth").val, Field(v, "api_key_env"))
  /\ ValidAffinity(Field(v, "tier_affinity"))
  /\ OrNull(Field(v, "monthly_tokens"), "number")
  /\ Field(v, "monthly_tokens").kind = "number" => Field(v, "monthly_tokens").val >= 0
  /\ OrNull(Field(v, "capabilities"), "map")
  /\ \A f \in {"pool_key", "http_referer"} : OrNull(Field(v, f), "string")
  /\ \A f \in {"provider", "model", "display_name", "base_url"} : NonEmpty(Field(v, f))
  /\ \A f \in {"freshness_ok", "enabled_by_default"} : Field(v, f).kind = "boolean"

\* What the ranking and the clients read of an entry.
ParseEntry(v) ==
  LET affinity == Field(v, "tier_affinity").val IN
  [f \in {"provider", "model", "adapter", "auth", "cost_tier", "freshness_ok",
          "enabled_by_default"} |-> v.val[f].val]
    @@ [api_key_env   |-> IF Field(v, "api_key_env").kind = "null"
                          THEN "" ELSE v.val["api_key_env"].val,
        tier_affinity |-> [t \in DOMAIN affinity |-> InUnits(affinity[t])]]

\* What load_catalog takes without a ConfigError.
ValidCatalog(d) ==
  /\ d.kind = "map" /\ DOMAIN d.val \subseteq TopFields
  /\ NonEmpty(Field(d, "catalog_id"))
  /\ Field(d, "entries").kind = "list"
  /\ \A i \in DOMAIN d.val["entries"].val : ValidEntry(d.val["entries"].val[i])

Entries(d) == [i \in DOMAIN d.val["entries"].val |-> ParseEntry(d.val["entries"].val[i])]

\* EnvCredentialResolver over the variables of environ, the ones not empty.
HasKey(entry, environ) ==
  entry.auth = "none" \/ (entry.api_key_env # "" /\ entry.api_key_env \in environ)

\* A catalog as Ranking takes it.
WithKeys(entries, environ) ==
  [i \in DOMAIN entries |-> entries[i] @@ [keyed |-> HasKey(entries[i], environ)]]

DefaultEnabledProviders(entries) ==
  {e.provider : e \in {e \in ToSet(entries) : e.enabled_by_default}}

=============================================================================
