----------------------------- MODULE ErrorPolicy -----------------------------
(***************************************************************************)
(* What the library does with an exception, decided from its class, its    *)
(* HTTP status and its Retry-After header: errors.py, the predicates of    *)
(* routing/chain.py and the cooldown length of client.py.                  *)
(*                                                                         *)
(* An exception is a record                                                *)
(*   class:      its class                                                 *)
(*   status:     status_code, 0 for None                                   *)
(*   retryAfter: {n} when the header parses as the number n, {} when it is *)
(*               absent or does not parse                                  *)
(*   body:       what the response's body names, "quota", "model" or "",   *)
(*               which only the smart client reads (see ErrorClassifier)   *)
(***************************************************************************)
EXTENDS Integers

\* The classes every exception class below it is an instance of.
Bases ==
  [ValidationError     |-> {"MultiproviderError"},
   ConfigError         |-> {"MultiproviderError"},
   BudgetExceeded      |-> {"MultiproviderError"},
   NoEligibleProviders |-> {"MultiproviderError"},
   AllProvidersFailed  |-> {"MultiproviderError"},
   ProviderError       |-> {"MultiproviderError"},
   RateLimited         |-> {"MultiproviderError", "ProviderError"},
   TimeoutException    |-> {},
   ConnectError        |-> {},
   ReadError           |-> {},
   JSONDecodeError     |-> {},
   AttributeError      |-> {},
   Interrupt           |-> {}]

ClassNames == DOMAIN Bases

Raised(class) == [class |-> class, status |-> 0, retryAfter |-> {}, body |-> ""]
HttpError(status) == [Raised("ProviderError") EXCEPT !.status = status]
TooManyRequests(header) ==
  [Raised("RateLimited") EXCEPT !.status = 429, !.retryAfter = header]

IsInstance(e, class) == e.class = class \/ class \in Bases[e.class]

\* What an adapter may raise, one that the application injects or registers
\* among them: any Exception.  Only a ProviderError has a status and a body.
Raisable(e) ==
  /\ e.class \in ClassNames \ {"Interrupt"}
  /\ e.status \in Nat
  /\ e.body \in {"", "quota", "model"}
  /\ ~IsInstance(e, "ProviderError") => e.status = 0 /\ e.body = ""
  /\ e.retryAfter \subseteq Int
  /\ \A m, n \in e.retryAfter : m = n

RetryableStatusCodes == {429, 500, 502, 503, 504, 529}

IsAuthFailure(e) == IsInstance(e, "ProviderError") /\ e.status \in {401, 403}

\* Whether the next provider of the chain may be tried after e.
IsRetryable(e) ==
  /\ ~\E c \in {"ValidationError", "ConfigError", "BudgetExceeded"} : IsInstance(e, c)
  /\ \/ IsInstance(e, "RateLimited")
     \/ e.class \in {"TimeoutException", "ConnectError"}
     \/ IsInstance(e, "ProviderError") /\ e.status \in RetryableStatusCodes

DefaultCooldown == 1

\* Mutant of RetryAfterSeconds: the header is not read.
RetryAfterSeconds_Default(e) == DefaultCooldown

\* _retry_after_seconds: a header that is missing, not a number or not
\* positive gives the default.
RetryAfterSeconds(e) ==
  IF \E n \in e.retryAfter : n > 0
  THEN CHOOSE n \in e.retryAfter : n > 0
  ELSE DefaultCooldown

=============================================================================
