---------------------------- MODULE HttpResponses -----------------------------
(***************************************************************************)
(* What a client sees of an outcome: the status codes of                   *)
(* internal/http/response/response.go and of the handlers that choose one  *)
(* themselves.  The bodies are left out.                                   *)
(***************************************************************************)
EXTENDS Naturals

ExpiryForgotten(refusal) ==                                         \* mutant
    CASE refusal = "rate_limited" -> 429
      [] refusal \in {"unauthenticated", "invalid_credentials", "session_not_found"} -> 401
      [] refusal = "user_suspended" -> 403
      [] OTHER -> 500

\* The switch of response.Error, with the problems that the handlers and the
\* middleware report without it (unreadable bodies, no token).  Anything else, an
\* error of the database first of all, is an internal server error.
StatusOf(refusal) ==
    CASE refusal \in {"invalid_request", "invalid_email", "password_too_weak",
                      "token_expired", "invalid_otp"} -> 400
      [] refusal \in {"unauthenticated", "invalid_credentials",
                      "session_not_found", "session_expired"} -> 401
      [] refusal = "user_suspended" -> 403
      [] refusal = "token_not_found" -> 404
      [] refusal \in {"user_already_exists", "token_consumed"} -> 409
      [] refusal \in {"max_attempts", "rate_limited"} -> 429
      [] OTHER -> 500

\* Sign-out discards the verdict of the service.
Status(op, verdict) ==
    IF op = "SignOut" THEN 200
    ELSE IF verdict # "ok" THEN StatusOf(verdict)
    ELSE IF op = "SignUp" THEN 201 ELSE 200
=============================================================================
