---------------------------- MODULE MCChainClient ----------------------------
(***************************************************************************)
(* ChainClient for TLC: two providers with one slot each, one without any  *)
(* (max_inflight 0), one that is disabled, a tier that reverses the order, *)
(* and requests that take every path of the preparation, one of them       *)
(* naming a provider twice.                                                *)
(***************************************************************************)
EXTENDS ChainClient, TLC

CONSTANTS p, q, shut, off, unknown,    \* provider names
          fast,                  \* a tier
          Budget,                \* the global budget
          Asked                  \* names of the requests that are made

Provider(enabled, fresh, limit) ==
  [enabled |-> enabled, freshness_ok |-> fresh, rate_limits |-> limit]

MCConfig ==
  [providers |-> p   :> Provider(TRUE, FALSE, {1}) @@
                 q   :> Provider(TRUE, TRUE, {1}) @@
                 shut :> Provider(TRUE, FALSE, {0}) @@
                 off :> Provider(FALSE, TRUE, {}),
   provider_order |-> <<p, off, q>>,
   tier_routing |-> fast :> <<q, off>>,
   global_budget |-> Budget]

Default ==
  [valid |-> TRUE, provider_chain |-> {}, tier |-> {}, fresh |-> FALSE,
   json |-> FALSE, on_auth_failure |-> "stop"]

Request ==
  [order   |-> Default,
   tiered  |-> [Default EXCEPT !.tier = {fast}, !.json = TRUE],
   again   |-> [Default EXCEPT !.provider_chain = {<<p, p>>}, !.on_auth_failure = "continue"],
   shut    |-> [Default EXCEPT !.provider_chain = {<<shut, p, q>>}],
   fresh   |-> [Default EXCEPT !.fresh = TRUE],
   invalid |-> [Default EXCEPT !.valid = FALSE],
   unknown |-> [Default EXCEPT !.provider_chain = {<<unknown>>}],
   none    |-> [Default EXCEPT !.provider_chain = {<<off>>}]]

MCRequests == {Request[r] : r \in Asked}

MCExceptions ==
  {TooManyRequests({0}), TooManyRequests({2}), HttpError(401), HttpError(400),
   HttpError(503), Raised("TimeoutException"), Raised("ValidationError"),
   [TooManyRequests({}) EXCEPT !.status = 401],
   Raised("BudgetExceeded"), Raised("AllProvidersFailed")}

FewExceptions == {TooManyRequests({0}), TooManyRequests({2}), HttpError(400)}
TwoExceptions == {TooManyRequests({}), HttpError(400)}

\* Every kind of request meets one for fresh content, in a task.
InitBesideFresh == Init /\ \A c \in Cancellable : request[c] = Request["fresh"]
ConcurrentSpec == InitBesideFresh /\ [][Next]_vars

Symmetry == Permutations(Addrs)

=============================================================================
