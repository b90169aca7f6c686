--------------------------- MODULE HistoryInvariant ---------------------------
(***************************************************************************)
(* Why what a request was let do agrees with what held when it came in.    *)
(* Rows only move one way (sessions and tokens die, attempts grow, accounts*)
(* stay suspended), so what the history noted on arrival holds for good,   *)
(* and each statement that reads a row hands its verdict to the next one.  *)
(***************************************************************************)
EXTENDS AuthInvariant

\* The endpoint of request r is one of ops and its goroutine is at one of calls.
Amid(r, ops, calls) == input[r].op \in ops /\ pc[r] \in calls

\* The endpoints that send a token, and the type of the token each sends.
SendOps == {"SendMagicLink", "SendOTP"}
SentType(op) == IF op = "SendMagicLink" THEN "magic_link" ELSE "email_otp"

\* The endpoints that redeem a token by its code.
CodeOps == {"VerifyOTP", "VerifyEmailOTP"}

\* Calls between the answer that a token was consumed and the end of the log-in.
LoggingIn == {"FindUser", "CreateUser", "SetEmailVerified",
              "IncrementSignInCount", "CreateSession"}

\* What was revoked, expired, consumed, exhausted or suspended when request r
\* came in still is, and none of it is a row that r itself inserts.
SnapshotInv(r) ==
    /\ \A s \in audit[r].sessions : sessions[s] # None
    /\ \A s \in audit[r].dead :
          sessions[s] # None /\ (sessions[s].revoked \/ now >= sessions[s].expires)
    /\ \A t \in audit[r].spent :
          tokens[t] # None /\ (tokens[t].consumed \/ now > tokens[t].expires)
    /\ \A t \in audit[r].exhausted : tokens[t] # None /\ tokens[t].attempts >= MaxAttempts
    /\ \A u \in audit[r].inactive : users[u] # None /\ users[u].status # "active"
    /\ r \notin audit[r].inactive

\* RequireAuth goes on only with a session that was alive on arrival.
SessionGuard(r) ==
    pc[r] \in {"GetUser", "UpdateLastActive"} \/ audit[r].who # None =>
        input[r].cred \notin audit[r].dead

\* An account that was not active on arrival is let in nowhere.
AccountGuard(r) ==
    /\ \/ pc[r] \in {"UpdateLastActive", "CreateSession"}
       \/ Amid(r, {"SignIn"}, {"IncrementSignInCount"})
       \/ /\ Amid(r, LogInOps, {"SetEmailVerified", "IncrementSignInCount"})
          /\ local[r].status = "active"
       => local[r].user \notin audit[r].inactive
    /\ audit[r].who \notin audit[r].inactive
    /\ sessions[r] # None => sessions[r].user \notin audit[r].inactive

\* Token t was live on arrival, with an attempt left if it is redeemed by code.
LiveOnArrival(r, t) ==
    /\ t \notin audit[r].spent
    /\ input[r].op \in CodeOps => t \notin audit[r].exhausted

TokenGuard(r) ==
    /\ pc[r] \in {"IncrementAttempts", "MarkConsumed"} => LiveOnArrival(r, local[r].token)
    /\ audit[r].consumed # None => LiveOnArrival(r, audit[r].consumed)

\* The type of the tokens that endpoint op redeems.
Redeemed(op) == CASE op = "VerifyMagicLink" -> "magic_link"
                  [] op = "VerifyOTP" -> "email_otp"
                  [] OTHER -> "email_verification"

\* Token t is of the type request r redeems, and of the address named with a code.
Suits(r, t) ==
    /\ tokens[t].type = Redeemed(input[r].op)
    /\ input[r].op \in CodeOps => tokens[t].email = input[r].email

\* The token a request redeems is the one whose secret it presents, and that
\* secret was mailed: by the request's own name it could present only a row that
\* it would have to insert itself.
MailboxGuard(r) ==
    /\ input[r].op \in LogInOps \cup VerifyEmailOps => input[r].cred \in mailed \cup {r, None}
    /\ pc[r] = "IncrementAttempts" => Suits(r, local[r].token)
    /\ pc[r] = "MarkConsumed" =>
          local[r].token = input[r].cred /\ local[r].token \in mailed /\ Suits(r, local[r].token)
    /\ audit[r].consumed # None =>
          /\ audit[r].consumed = input[r].cred
          /\ audit[r].consumed \in mailed
          /\ Suits(r, audit[r].consumed)

\* The account a goroutine is about to open a session for, or to mark verified,
\* is the one it has a right to.
OwnerGuard(r) ==
    /\ Amid(r, LogInOps, LoggingIn) =>
          audit[r].consumed # None /\ audit[r].consumed = local[r].token
    /\ Amid(r, LogInOps, {"SetEmailVerified", "IncrementSignInCount", "CreateSession"}) =>
          users[local[r].user].email = tokens[local[r].token].email
    /\ Amid(r, LogInOps, {"IncrementSignInCount", "CreateSession"}) =>
          users[local[r].user].verified \/ DBFaults
    /\ Amid(r, VerifyEmailOps, {"SetEmailVerified"}) =>
          /\ audit[r].consumed # None
          /\ users[local[r].user].email = tokens[audit[r].consumed].email
    /\ Amid(r, {"SignIn"}, {"IncrementSignInCount", "CreateSession"}) =>
          users[local[r].user].email = input[r].email
    /\ Amid(r, {"SignUp"}, {"CreateSession"}) \/ job[r] = "queued" =>
          users[r].email = input[r].email

\* A row is stored before it is mailed.  Its code, where its type has one, is the
\* one its request drew, and the mail of a sign-up goes to the account's address.
MailedGuard(r) == r \in mailed \/ pc[r] = "Mail" \/ job[r] = "stored" => tokens[r] # None

TokenRowInv ==
    \A t \in Request : tokens[t] # None =>
        /\ tokens[t].code = IF tokens[t].type = "magic_link" THEN None ELSE t
        /\ tokens[t].type = "email_verification" =>
              tokens[t].user = t /\ users[t].email = tokens[t].email

\* A goroutine behind RequireAuth works on the account that was let in, and has
\* not been answered yet.
AnswerGuard(r) ==
    /\ pc[r] \in Call \cup {"new"} => reply[r] = "none"
    /\ Amid(r, AuthenticatedOps, {"RevokeAll", "GetById", "UpdatePassword"}) =>
          audit[r].who = local[r].user

\* The two verdicts that response.Error has no case for: a statement failed, or a
\* sign-in met a deleted account.
MetDeleted(r) ==
    /\ input[r].op = "SignIn"
    /\ \E u \in UsersByEmail(input[r].email) : users[u].status = "deleted"

ErrorGuard(r) ==
    /\ reply[r] = "internal" => DBFaults
    /\ reply[r] = "user_deleted" => MetDeleted(r)

\* What the history invariant says of one request.
HistoryOf(r) ==
    /\ SnapshotInv(r) /\ SessionGuard(r) /\ AccountGuard(r) /\ TokenGuard(r)
    /\ MailboxGuard(r) /\ OwnerGuard(r) /\ MailedGuard(r)
    /\ AnswerGuard(r) /\ ErrorGuard(r)

\* The invariant of the history: together with IInv it is preserved by every step.
HistoryInv ==
    /\ \A r \in Request : HistoryOf(r)
    /\ TokenRowInv
    /\ SessionHasProvenOwner /\ VerifiedOnlyByMailbox
    /\ SignOutRevokes /\ SignOutAllRevokesKnown
    /\ ~DBFaults => ChangePasswordRevokesOthers
=============================================================================
