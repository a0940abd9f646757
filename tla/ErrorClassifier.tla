--------------------------- MODULE ErrorClassifier ---------------------------
(***************************************************************************)
(* classify_error (resilience/error_classifier.py): what the smart client  *)
(* does with an exception.  It answers two questions, whether the next     *)
(* ranked target is tried and whether the model is locked, and for how     *)
(* many seconds.  It is not the predicate of the chain clients: a text     *)
(* without JSON falls back here, and the body is read before the status.   *)
(***************************************************************************)
EXTENDS ErrorPolicy

\* Seconds a model is locked when no Retry-After says otherwise.
DefaultLock == 60

Unavailable == {502, 503, 504, 529}
Auth == {401, 403}

IsProviderError(e) == IsInstance(e, "ProviderError")
QuotaExhausted(e) == IsProviderError(e) /\ e.body = "quota"
ModelUnavailable(e) == IsProviderError(e) /\ e.body = "model"
Throttled(e) ==
  /\ IsProviderError(e) /\ e.body = ""
  /\ e.status = 429 \/ IsInstance(e, "RateLimited")

\* should_fallback
ShouldFallback(e, on_auth_failure) ==
  \/ IsInstance(e, "ValidationError")
  \/ e.class \in {"TimeoutException", "ConnectError"}
  \/ QuotaExhausted(e) \/ ModelUnavailable(e) \/ Throttled(e)
  \/ IsProviderError(e) /\ e.status \in Unavailable \cup {500}
  \/ IsProviderError(e) /\ e.status \in Auth /\ on_auth_failure = "continue"

\* Mutant of LocksModel: a model that is only unavailable for now is locked.
LocksModel_Unavailable(e) ==
  \/ QuotaExhausted(e) \/ ModelUnavailable(e) \/ Throttled(e)
  \/ IsProviderError(e) /\ e.status \in Unavailable

\* lock_model
LocksModel(e) == QuotaExhausted(e) \/ ModelUnavailable(e) \/ Throttled(e)

\* cooldown_s of an exception that locks the model: {} stands for None, a
\* lock without end.  isdigit() takes a Retry-After of 0 and no sign.
LockSeconds(e) ==
  IF QuotaExhausted(e) THEN {DefaultLock}
  ELSE IF ModelUnavailable(e) THEN {}
  ELSE IF \E n \in e.retryAfter : n >= 0 THEN e.retryAfter
  ELSE {DefaultLock}

=============================================================================
