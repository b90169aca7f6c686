-------------------------- MODULE EmailVerification --------------------------
(***************************************************************************)
(* Proving an address: the mail a sign-up leaves to a background goroutine,*)
(* and its redemption by link or by code (internal/auth/service.go, lines  *)
(* 132-134 and 335-440, and VerifyEmail of auth_handler.go).               *)
(***************************************************************************)
EXTENDS VerificationTokens

-----------------------------------------------------------------------------
(* The background goroutine of sign-up r.  Its error goes nowhere.  The     *)
(* token's dates are taken with the INSERT: an address has one such token,  *)
(* so that nothing ever orders two of them.                                 *)

WelcomeStoreToken(r) ==
    /\ job[r] = "queued"
    /\ LET stored == InsertToken(r, NewToken(r, input[r].email, "email_verification", r,
                                             now, WelcomeTTL)) IN
       \/ tokens' = stored /\ job' = [job EXCEPT ![r] = "stored"]
       \/ /\ DBFaults
          /\ tokens' \in {tokens, stored}
          /\ job' = [job EXCEPT ![r] = "failed"]
    /\ UNCHANGED <<users, sessions, now, pc, input, local, reply, mailed, audit>>

WelcomeMail(r) ==
    /\ job[r] = "stored"
    /\ mailed' = mailed \cup {r}
    /\ job' = [job EXCEPT ![r] = "mailed"]
    /\ UNCHANGED <<users, sessions, tokens, now, pc, input, local, reply, audit>>

SendEmailVerification(r) == WelcomeStoreToken(r) \/ WelcomeMail(r)

-----------------------------------------------------------------------------
(* GET and POST /v1/auth/verify-email *)

VerifyEmailOps == {"VerifyEmailToken", "VerifyEmailOTP"}

ReceiveVerifyEmailToken(r) ==
    /\ Arrives(r, "VerifyEmailToken")
    /\ \E link \in KnownLinks(r) :
           /\ Receive(r, [NoInput EXCEPT !.op = "VerifyEmailToken", !.cred = link])
           /\ Proceed(r, "GetToken", Blank)

ReceiveVerifyEmailOTP(r) ==
    /\ Arrives(r, "VerifyEmailOTP")
    /\ \E raw \in RawEmail, code \in KnownCodes(r) :
           /\ Receive(r, [NoInput EXCEPT !.op = "VerifyEmailOTP", !.email = Normalize[raw],
                                         !.cred = code])
           /\ Proceed(r, "GetLatest", Blank)

\* A token of this type always names its account (SendEmailVerification), so the
\* branch of the code for a token without one is never taken.
ConsumeEmailToken(r, op) ==
    Consume(r, op, "SetEmailVerified",
            [local[r] EXCEPT !.user = tokens[local[r].token].user])

MarkEmailVerified(r) ==
    /\ At(r, VerifyEmailOps, "SetEmailVerified")
    /\ LET stored == SetEmailVerified(local[r].user) IN
       \/ users' = stored /\ Proceed(r, "GetById", local[r])
       \/ users' \in {users, stored} /\ Unacknowledged(r)
    /\ OnlyUsers

VerifyEmailGetById(r) ==
    /\ At(r, VerifyEmailOps, "GetById")
    /\ Answer(r, "ok") \/ QueryFails(r)
    /\ NoTable

VerifyEmailToken(r) ==
    \/ ReceiveVerifyEmailToken(r) \/ ReceiveUnreadable(r, "VerifyEmailToken")
    \/ LookUpLink(r, "VerifyEmailToken", "email_verification", "internal")
    \/ ConsumeEmailToken(r, "VerifyEmailToken")

VerifyEmailOTP(r) ==
    \/ ReceiveVerifyEmailOTP(r) \/ ReceiveUnreadable(r, "VerifyEmailOTP")
    \/ LookUpCode(r, "VerifyEmailOTP", "email_verification", "internal")
    \/ CompareCode(r, "VerifyEmailOTP")
    \/ ConsumeEmailToken(r, "VerifyEmailOTP")

EmailVerificationStep(r) ==
    \/ SendEmailVerification(r)
    \/ VerifyEmailToken(r) \/ VerifyEmailOTP(r)
    \/ MarkEmailVerified(r) \/ VerifyEmailGetById(r)
=============================================================================
