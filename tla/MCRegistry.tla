----------------------------- MODULE MCRegistry -----------------------------
(***************************************************************************)
(* Registry for TLC: a configuration with two built-ins, one of them local *)
(* and without a key, and a provider that an application registers; the    *)
(* same without a tier; and documents that config.py refuses.              *)
(***************************************************************************)
EXTENDS Registry, TLC

CONSTANTS t1, t2, client, mine, other, fast, OpenaiKey

Provider(enabled, key) ==
  [enabled |-> Boolean(enabled), freshness_ok |-> Boolean(TRUE),
   models |-> Map("standard" :> String("model")), default_model |-> String("model"),
   base_url |-> String("url"), api_key_env |-> String(key)]

Providers ==
  "openai" :> Map(Provider(TRUE, OpenaiKey)) @@
  "gemini" :> Map(Provider(TRUE, NoKey)) @@
  "ollama" :> Map([enabled |-> Boolean(TRUE)] @@ Provider(TRUE, NoKey)
                   @@ [rate_limits |-> Map("max_inflight" :> Number(1))]) @@
  "groq"   :> Map(Provider(FALSE, NoKey))

Names3 == List(<<String("openai"), String("groq"), String("ollama")>>)

Document ==
  [providers |-> Map(Providers), provider_order |-> Names3,
   tier_routing |-> Map(fast :> List(<<String("ollama")>>)),
   global_budget |-> Number(2)]

Plain == [Document EXCEPT !.tier_routing = Null, !.global_budget = Null,
                          !.provider_order = List(<<String("ollama")>>)]

WithLimits(v) ==
  [Document EXCEPT !.providers = Map("openai" :> Map(Provider(TRUE, OpenaiKey) @@ [rate_limits |-> v])
                                     @@ Providers)]

MCDocuments ==
  [tiered       |-> Map(Document),
   plain        |-> Map(Plain),
   unknownOrder |-> Map([Document EXCEPT !.provider_order = List(<<String("openai"), String("mistral")>>)]),
   unknownTier  |-> Map([Document EXCEPT !.tier_routing = Map(fast :> List(<<String("mistral")>>))]),
   noOrder      |-> Map([Document EXCEPT !.provider_order = Null]),
   orderNumber  |-> Map([Document EXCEPT !.provider_order = List(<<Number(1)>>)]),
   unknownKey   |-> Map(Document @@ [timeout |-> Number(1)]),
   nullLimits   |-> Map(WithLimits(Null)),
   tokenLimits  |-> Map(WithLimits(Map([max_inflight |-> Number(1), max_tokens |-> Number(9)]))),
   boolLimits   |-> Map(WithLimits(Map("max_inflight" :> Boolean(TRUE)))),
   boolBudget   |-> Map([Document EXCEPT !.global_budget = Boolean(TRUE)])]

MCClientOf == [t \in Threads |-> client]

Default == [provider_chain |-> {}, tier |-> {}, fresh |-> FALSE]
MCRequests ==
  {Default, [Default EXCEPT !.tier = {fast}], [Default EXCEPT !.provider_chain = {<<"groq", "ollama">>}]}

Registration(name, factory, replace) ==
  [name |-> name, wellNamed |-> TRUE, factory |-> factory, replace |-> replace]

MCRegistrations ==
  {Registration("ollama", mine, FALSE),
   Registration("openai", other, FALSE),
   Registration("openai", other, TRUE),
   [Registration("ollama", other, FALSE) EXCEPT !.wellNamed = FALSE]}

=============================================================================
