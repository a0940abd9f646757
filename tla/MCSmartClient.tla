---------------------------- MODULE MCSmartClient ----------------------------
(***************************************************************************)
(* SmartClient for TLC: two targets, of which each is promoted within the  *)
(* band of the other until the metrics tell them apart, and requests with  *)
(* and without a tier, of which one ranks nothing.                         *)
(***************************************************************************)
EXTENDS SmartClient, TLC

CONSTANTS gemini, groq, flash, small, standard,     \* names
          Asked                                     \* names of the requests made

Entry ==
  [provider |-> gemini, model |-> flash, adapter |-> "gemini", keyed |-> TRUE,
   cost_tier |-> "free", freshness_ok |-> TRUE,
   tier_affinity |-> [t \in {standard} |-> 60], enabled_by_default |-> TRUE]

TwoTargets ==
  <<Entry,
    [Entry EXCEPT !.provider = groq, !.model = small,
                  !.tier_affinity = [t \in {standard} |-> 55]]>>

MCEnabled == {e.provider : e \in ToSet(Catalog)}

MCLexical ==
  [x \in {<<e.provider, e.model>> : e \in ToSet(Catalog)} |->
     IF x = <<gemini, flash>> THEN 1 ELSE 2]

Default ==
  [valid |-> TRUE, json |-> FALSE, on_auth_failure |-> "stop",
   free_only |-> FALSE, fresh |-> FALSE, tier |-> {standard}, task |-> {},
   cooling |-> {},
   quota |-> [x \in DOMAIN MCLexical |-> {}]]

Request ==
  [plain   |-> Default,
   json    |-> [Default EXCEPT !.json = TRUE, !.on_auth_failure = "continue"],
   even    |-> [Default EXCEPT !.tier = {}, !.fresh = TRUE],
   none    |-> [Default EXCEPT !.cooling = {gemini, groq}],
   invalid |-> [Default EXCEPT !.valid = FALSE]]

MCRequests == {Request[r] : r \in Asked}

WithBody(e, body) == [e EXCEPT !.body = body]

AllExceptions ==
  {TooManyRequests({}), TooManyRequests({0}), HttpError(401), HttpError(400),
   HttpError(503), HttpError(404), WithBody(HttpError(400), "quota"),
   WithBody(HttpError(404), "model"), Raised("TimeoutException"), Raised("ReadError"),
   [TooManyRequests({}) EXCEPT !.status = 401], Raised("AllProvidersFailed")}

FewExceptions ==
  {TooManyRequests({}), HttpError(503), HttpError(400), WithBody(HttpError(404), "model")}

Limits == [p \in {gemini, groq} |-> 1]

Symmetry == Permutations(Addrs)

=============================================================================
