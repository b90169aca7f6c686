----------------------------- MODULE Passwordless -----------------------------
(***************************************************************************)
(* Passwordless log-in: magic links and six-digit codes, sent and verified,*)
(* with just-in-time accounts (internal/auth/service.go, lines 443-716, and*)
(* the handlers of auth_handler.go).                                       *)
(***************************************************************************)
EXTENDS VerificationTokens

-----------------------------------------------------------------------------
(* POST /v1/auth/magic-link/send and /v1/auth/otp/send *)

\* An address that is not one gets the same answer as any other.
ReceiveSend(r, op) ==
    /\ Arrives(r, op)
    /\ \E raw \in RawEmail :
           LET email == Normalize[raw] IN
           /\ Receive(r, [NoInput EXCEPT !.op = op, !.email = email])
           /\ \/ email = Malformed /\ Answer(r, "ok")
              \/ email # Malformed /\ Proceed(r, "GetLatest", Blank)

CooldownOfLinksOnly(r, op, type) ==                                 \* mutant
    /\ At(r, {op}, "GetLatest")
    /\ LET recent == {t \in LatestActive(input[r].email, "magic_link") :
                        now - tokens[t].created < Cooldown}
       IN \/ recent # {} /\ Answer(r, "rate_limited")
          \/ recent = {} /\ Proceed(r, "LinkUser", [Blank EXCEPT !.at = now])
    /\ NoTable

\* The cooldown compares with the latest token that nobody consumed; a query
\* that fails counts as "no such token".  The token's dates are taken here.
CheckCooldown(r, op, type) ==
    /\ At(r, {op}, "GetLatest")
    /\ LET recent == {t \in LatestActive(input[r].email, type) :
                        now - tokens[t].created < Cooldown}
       IN \/ recent # {} /\ Answer(r, "rate_limited")
          \/ /\ recent = {} \/ DBFaults
             /\ Proceed(r, "LinkUser", [Blank EXCEPT !.at = now])
    /\ NoTable

\* The token names the account of the address, if there is one and the query
\* does not fail.
LinkUser(r, op) ==
    /\ At(r, {op}, "LinkUser")
    /\ \/ \E u \in UsersByEmail(input[r].email) :
            Proceed(r, "CreateToken", [local[r] EXCEPT !.user = u])
       \/ /\ UsersByEmail(input[r].email) = {} \/ DBFaults
          /\ Proceed(r, "CreateToken", local[r])
    /\ NoTable

StoreToken(r, op, type, code, ttl) ==
    /\ At(r, {op}, "CreateToken")
    /\ LET stored == InsertToken(r, NewToken(local[r].user, input[r].email, type, code,
                                             local[r].at, ttl)) IN
       \/ tokens' = stored /\ Proceed(r, "Mail", local[r])
       \/ tokens' \in {tokens, stored} /\ Unacknowledged(r)
    /\ OnlyTokens

MailToken(r, op) ==
    /\ At(r, {op}, "Mail")
    /\ mailed' = mailed \cup {r}
    /\ Answer(r, "ok")
    /\ UNCHANGED <<users, sessions, tokens, now, input, job, audit>>

SendMagicLink(r) ==
    \/ ReceiveSend(r, "SendMagicLink")
    \/ ReceiveUnreadable(r, "SendMagicLink")
    \/ CheckCooldown(r, "SendMagicLink", "magic_link")
    \/ LinkUser(r, "SendMagicLink")
    \/ StoreToken(r, "SendMagicLink", "magic_link", None, MagicLinkTTL)
    \/ MailToken(r, "SendMagicLink")

SendOTP(r) ==
    \/ ReceiveSend(r, "SendOTP")
    \/ ReceiveUnreadable(r, "SendOTP")
    \/ CheckCooldown(r, "SendOTP", "email_otp")
    \/ LinkUser(r, "SendOTP")
    \/ StoreToken(r, "SendOTP", "email_otp", r, OTPTTL)
    \/ MailToken(r, "SendOTP")

-----------------------------------------------------------------------------
(* The log-in that follows a consumed token, by either of the two ways.    *)

LogInOps == {"VerifyMagicLink", "VerifyOTP"}

FindUser(r) ==
    /\ At(r, LogInOps, "FindUser")
    /\ LET email == tokens[local[r].token].email IN
       \/ /\ UsersByEmail(email) = {}
          /\ Proceed(r, "CreateUser", [local[r] EXCEPT !.user = r, !.at = now])
       \/ \E u \in UsersByEmail(email) :
            Proceed(r, "SetEmailVerified",
                    [local[r] EXCEPT !.user = u, !.status = users[u].status, !.at = now])
       \/ QueryFails(r)
    /\ NoTable

\* No row was found, but one may have been made since: then the log-in fails
\* with the token already spent.
JITCreateUser(r) ==
    /\ At(r, LogInOps, "CreateUser")
    /\ LET email == tokens[local[r].token].email
           stored == InsertUser(r, NewUser(email, TRUE, NoPassword, NoProfile))
       IN \/ /\ ~EmailTaken(email)
             /\ users' = stored
             /\ Proceed(r, "CreateSession", local[r])
          \/ /\ EmailTaken(email)
             /\ users' = users
             /\ Answer(r, "user_already_exists")
          \/ users' \in {users, stored} /\ Unacknowledged(r)
    /\ OnlyUsers

LogInSetEmailVerified(r) ==
    /\ At(r, LogInOps, "SetEmailVerified")
    /\ users' \in Discarding(users, SetEmailVerified(local[r].user))
    /\ Proceed(r, "IncrementSignInCount", local[r])
    /\ OnlyUsers

LogInWhateverStatus(r) ==                                           \* mutant
    /\ At(r, LogInOps, "IncrementSignInCount")
    /\ users' \in Discarding(users, IncrementSignInCount(local[r].user))
    /\ Proceed(r, "CreateSession", local[r])
    /\ OnlyUsers

\* The status judged is the one FindUser read, two statements earlier.
LogInIncrement(r) ==
    /\ At(r, LogInOps, "IncrementSignInCount")
    /\ users' \in Discarding(users, IncrementSignInCount(local[r].user))
    /\ \/ local[r].status = "active" /\ Proceed(r, "CreateSession", local[r])
       \/ local[r].status # "active" /\ Answer(r, "user_suspended")
    /\ OnlyUsers

LogInCreateSession(r) == CreateSession(r, LogInOps) /\ OnlySessions

LogIn(r) ==
    \/ FindUser(r) \/ JITCreateUser(r) \/ LogInSetEmailVerified(r)
    \/ LogInIncrement(r) \/ LogInCreateSession(r)

-----------------------------------------------------------------------------
(* GET and POST /v1/auth/magic-link/verify, POST /v1/auth/otp/verify *)

ReceiveVerifyMagicLink(r) ==
    /\ Arrives(r, "VerifyMagicLink")
    /\ \E link \in KnownLinks(r) :
           /\ Receive(r, [NoInput EXCEPT !.op = "VerifyMagicLink", !.cred = link])
           /\ Proceed(r, "GetToken", Blank)

VerifyMagicLink(r) ==
    \/ ReceiveVerifyMagicLink(r)
    \/ ReceiveUnreadable(r, "VerifyMagicLink")
    \/ LookUpLink(r, "VerifyMagicLink", "magic_link", "token_not_found")
    \/ Consume(r, "VerifyMagicLink", "FindUser", local[r])

ReceiveVerifyOTP(r) ==
    /\ Arrives(r, "VerifyOTP")
    /\ \E raw \in RawEmail, code \in KnownCodes(r) :
           /\ Receive(r, [NoInput EXCEPT !.op = "VerifyOTP", !.email = Normalize[raw],
                                         !.cred = code])
           /\ Proceed(r, "GetLatest", Blank)

VerifyOTP(r) ==
    \/ ReceiveVerifyOTP(r)
    \/ ReceiveUnreadable(r, "VerifyOTP")
    \/ LookUpCode(r, "VerifyOTP", "email_otp", "token_not_found")
    \/ CompareCode(r, "VerifyOTP")
    \/ Consume(r, "VerifyOTP", "FindUser", local[r])

PasswordlessStep(r) ==
    \/ SendMagicLink(r) \/ SendOTP(r)
    \/ VerifyMagicLink(r) \/ VerifyOTP(r) \/ LogIn(r)
=============================================================================
