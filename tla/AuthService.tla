----------------------------- MODULE AuthService ------------------------------
(***************************************************************************)
(* The whole server: every endpoint of internal/http/router.go over one    *)
(* database, with the properties that relate the components.               *)
(***************************************************************************)
EXTENDS PasswordSessions, Passwordless, EmailVerification, HttpResponses

Step(r) == PasswordSessionsStep(r) \/ PasswordlessStep(r) \/ EmailVerificationStep(r)

Next == Environment \/ \E r \in Request : Step(r)

Spec == Init /\ [][Next]_vars

\* An assumption about PostgreSQL and the network: every statement returns, with
\* an error if need be.  The code sets no deadline for one, so nothing else
\* guarantees it.  A goroutine waits for nothing but its statements and a pool
\* connection, held for one statement at a time.  Clients need not send anything,
\* and neither the clock nor a crash is owed.
Handle(r) == pc[r] # "new" /\ Step(r)

FairSpec == Spec /\ \A r \in Request : WF_vars(Handle(r))

-----------------------------------------------------------------------------
(* Accounts and tokens. *)

\* No two accounts have the same address, whichever of sign-up and just-in-time
\* creation made them and however they raced between look-up and INSERT.
UniqueEmail ==
    \A u, v \in Request :
        users[u] # None /\ users[v] # None /\ users[u].email = users[v].email => u = v

\* A verification token is consumed by at most one request, even when several
\* read it as unconsumed before the first MarkConsumed.
SingleUse ==
    \A q, r \in Request :
        audit[q].consumed # None /\ audit[q].consumed = audit[r].consumed => q = r

\* A token that was consumed or expired when a request came in is not consumed
\* by that request, and one without an attempt left not by way of its code.
DeadTokenRefused ==
    \A r \in Request : audit[r].consumed # None =>
        /\ audit[r].consumed \notin audit[r].spent
        /\ input[r].op \in {"VerifyOTP", "VerifyEmailOTP"} =>
              audit[r].consumed \notin audit[r].exhausted

\* An account is marked verified only after a mail to its address was redeemed:
\* the link of a verification mail, a magic link or a code, never by sign-up.
VerifiedOnlyByMailbox ==
    \A u \in Request : users[u] # None /\ users[u].verified =>
        \E t \in mailed : tokens[t].consumed /\ tokens[t].email = users[u].email

\* How often the code of token t was compared with something a client sent.
Tries(t) == Cardinality({r \in Request : audit[r].tried = t})

\* The attempt limit is read before it is counted, so that requests in flight
\* together may each pass it: a code gets no more tries than the limit and the
\* concurrency account for.
OvershootBounded ==
    \A t \in Request : Tries(t) <= MaxAttempts + MaxInFlight - 1

\* No attempt is lost to a concurrent one: the counter shows every comparison.
AttemptsCounted ==
    \A t \in Request : tokens[t] # None => tokens[t].attempts = Tries(t)

\* README.md:26, "Max 5 attempts per OTP code before permanent invalidation".
AttemptLimit == \A t \in Request : Tries(t) <= MaxAttempts

\* domain/errors.go:27 and v02 doc line 60: after the last attempt the token
\* itself is burnt, so that no request received later redeems it in any way.
ExhaustedTokenBurnt ==
    \A r \in Request : audit[r].consumed # None => audit[r].consumed \notin audit[r].exhausted

\* Two links or codes for one address that both can still be redeemed were sent
\* a cooldown apart (one request at a time).
CooldownBetweenLiveTokens ==
    \A t, u \in Request :
        /\ t # u /\ tokens[t] # None /\ tokens[u] # None
        /\ ~tokens[t].consumed /\ ~tokens[u].consumed
        /\ tokens[t].email = tokens[u].email
        /\ tokens[t].type = tokens[u].type
        => \/ tokens[t].created - tokens[u].created >= Cooldown
           \/ tokens[u].created - tokens[t].created >= Cooldown

-----------------------------------------------------------------------------
(* Sessions. *)

\* A session belongs to the account its request proved a right to: the one it
\* registered, the one whose address it signed in with, or the one whose mailbox
\* got the token of the right kind that the request itself consumed.
SessionHasProvenOwner ==
    \A s \in Request : sessions[s] # None =>
        LET u == sessions[s].user
            t == audit[s].consumed
        IN /\ users[u] # None
           /\ input[s].op = "SignUp" => u = s
           /\ input[s].op = "SignIn" => users[u].email = input[s].email
           /\ input[s].op \in LogInOps =>
                 /\ t \in mailed /\ t = input[s].cred
                 /\ users[u].email = tokens[t].email
                 /\ users[u].verified \/ DBFaults
                 /\ tokens[t].type = IF input[s].op = "VerifyOTP" THEN "email_otp"
                                                                 ELSE "magic_link"
                 /\ input[s].op = "VerifyOTP" => tokens[t].email = input[s].email

\* A request that comes in after its session was revoked or has expired is let
\* through to no account.
DeadSessionRefused ==
    \A r \in Request : audit[r].who # None => input[r].cred \notin audit[r].dead

\* An account suspended or deleted before a request came in gets no new session
\* from it and is not let in by it, though its status is read only once.
InactiveUserRefused ==
    \A r \in Request :
        /\ audit[r].who \notin audit[r].inactive
        /\ sessions[r] # None => sessions[r].user \notin audit[r].inactive

\* Once the service is content with a sign-out, the session is revoked, be it by
\* this request, by one that raced it, or long ago.
SignOutRevokes ==
    \A r \in Request :
        /\ input[r].op = "SignOut" /\ reply[r] \in {"ok", "session_not_found"}
        /\ input[r].cred \in audit[r].sessions
        => sessions[input[r].cred].revoked

\* Once sign-out-all reports success, every session the account had when the
\* request came in is revoked, even if statements fail.
SignOutAllRevokesKnown ==
    \A r \in Request : input[r].op = "SignOutAll" /\ reply[r] = "ok" =>
        \A s \in audit[r].sessions : sessions[s].user = audit[r].who => sessions[s].revoked

\* user_handler.go:93, "password changed successfully; all other active sessions
\* have been revoked": once a change reports success, every session but the
\* caller's that the account had when the new hash was stored is revoked, those
\* included that were opened while the change was under way.
\* (What becomes of the caller's own session the documents dispute: see the README.)
ChangePasswordRevokesOthers ==
    \A r \in Request : input[r].op = "ChangePassword" /\ reply[r] = "ok" =>
        \A s \in audit[r].sessions \ {input[r].cred} :
            sessions[s].user = audit[r].who => sessions[s].revoked

\* README.md:99, "Changing password revokes all active sessions across all
\* devices": afterwards no session is live that was not opened with the new one.
OldPasswordOpensNothing ==
    \A r, s \in Request :
        /\ input[r].op = "ChangePassword" /\ reply[r] = "ok"
        /\ sessions[s] # None /\ sessions[s].user = audit[r].who
        /\ input[s].op = "SignIn" /\ input[s].password # input[r].newPassword
        /\ users[audit[r].who].password = input[r].newPassword
        => sessions[s].revoked

\* Every session of an account was counted as a sign-in.
SignInCountCoversSessions ==
    \A u \in Request : users[u] # None =>
        users[u].signIns >= Cardinality({s \in ExistingSessions : sessions[s].user = u})

\* A stored password is replaced only by a request that an account holder's
\* session authenticated and that named the password being replaced.
CurrentPasswordRequired ==
    [][\A u \in Request :
        users[u] # None /\ users[u].password # users'[u].password =>
            \E r \in Request : /\ input[r].op = "ChangePassword"
                               /\ audit[r].who = u
                               /\ pc[r] = "UpdatePassword" /\ pc'[r] # pc[r]
                               /\ input[r].password = users[u].password]_vars

-----------------------------------------------------------------------------
(* Answers. *)

\* As long as the database works, a client is told of an internal server error
\* only when it signs in to a deleted account, an error response.Error has no
\* case for: every other race ends in an answer of its own.
ServerErrorOnlyForDeleted ==
    \A r \in Request :
        reply[r] # "none" /\ Status(input[r].op, reply[r]) = 500 /\ ~DBFaults =>
            /\ input[r].op = "SignIn"
            /\ \E u \in UsersByEmail(input[r].email) : users[u].status = "deleted"

-----------------------------------------------------------------------------
(* Progress. *)

\* The mail a successful sign-up leaves in the background goes out, unless its
\* token cannot be stored or the process dies first.
WelcomeMailSent ==
    \A r \in Request : reply[r] = "ok" /\ input[r].op = "SignUp" ~>
        r \in mailed \/ job[r] \in {"failed", "lost"}

-----------------------------------------------------------------------------
(* The verification tokens are one-time tokens. *)

TokenState(t) ==
    IF tokens[t] = None THEN "absent" ELSE IF tokens[t].consumed THEN "spent" ELSE "live"

OneTime == INSTANCE OneTimeToken WITH
    Token <- Request, Holder <- Request,
    state <- [t \in Request |-> TokenState(t)],
    redeemers <- [t \in Request |-> {r \in Request : audit[r].consumed = t}]

\* Issuing, counting, consuming and looking up tokens, with any interleaving and
\* any lost acknowledgement, never does more than OneTimeToken allows.
TokensAreOneTime == OneTime!Spec
=============================================================================
