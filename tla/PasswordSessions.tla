--------------------------- MODULE PasswordSessions ---------------------------
(***************************************************************************)
(* Accounts with a password, and sessions: sign-up, sign-in, the RequireAuth*)
(* middleware with the endpoints behind it, and sign-out                    *)
(* (internal/auth/service.go, lines 66-310, with their HTTP handlers).      *)
(***************************************************************************)
EXTENDS AuthRuntime

-----------------------------------------------------------------------------
(* POST /v1/auth/sign-up *)

ReceiveSignUp(r) ==
    /\ Arrives(r, "SignUp")
    /\ \E raw \in RawEmail, p \in Password, f \in Profile :
           LET email == Normalize[raw] IN
           /\ Receive(r, [NoInput EXCEPT !.op = "SignUp", !.email = email,
                                         !.password = p, !.profile = f])
           /\ \/ email = Malformed /\ Answer(r, "invalid_email")
              \/ email # Malformed /\ p \notin Strong /\ Answer(r, "password_too_weak")
              \/ /\ email # Malformed /\ p \in Strong
                 /\ Proceed(r, "CreateUser", [Blank EXCEPT !.user = r, !.at = now])

SignUpCreateUser(r) ==
    /\ At(r, {"SignUp"}, "CreateUser")
    /\ LET stored == InsertUser(r, NewUser(input[r].email, FALSE,
                                           input[r].password, input[r].profile)) IN
       \/ /\ ~EmailTaken(input[r].email)
          /\ users' = stored
          /\ Proceed(r, "CreateSession", local[r])
       \/ /\ EmailTaken(input[r].email)
          /\ users' = users
          /\ Answer(r, "user_already_exists")
       \/ users' \in {users, stored} /\ Unacknowledged(r)
    /\ OnlyUsers

SignUpSendsNothing(r) ==                                            \* mutant
    /\ CreateSession(r, {"SignUp"})
    /\ UNCHANGED <<users, tokens, now, input, job, mailed, audit>>

\* The verification mail is left to a goroutine nobody waits for.
SignUpCreateSession(r) ==
    /\ CreateSession(r, {"SignUp"})
    /\ job' = IF reply'[r] = "ok" THEN [job EXCEPT ![r] = "queued"] ELSE job
    /\ UNCHANGED <<users, tokens, now, input, mailed, audit>>

SignUp(r) ==
    \/ ReceiveSignUp(r) \/ ReceiveUnreadable(r, "SignUp")
    \/ SignUpCreateUser(r) \/ SignUpCreateSession(r)

-----------------------------------------------------------------------------
(* POST /v1/auth/sign-in *)

ReceiveSignIn(r) ==
    /\ Arrives(r, "SignIn")
    /\ \E raw \in RawEmail, p \in Password :
           LET email == Normalize[raw] IN
           /\ Receive(r, [NoInput EXCEPT !.op = "SignIn", !.email = email, !.password = p])
           /\ \/ email = Malformed /\ Answer(r, "invalid_credentials")
              \/ email # Malformed /\ Proceed(r, "GetByEmail", Blank)

\* Account status and password are judged on the row as it is read here.
SignInGetByEmail(r) ==
    /\ At(r, {"SignIn"}, "GetByEmail")
    /\ \/ UsersByEmail(input[r].email) = {} /\ Answer(r, "invalid_credentials")
       \/ \E u \in UsersByEmail(input[r].email) :
            \/ users[u].status = "suspended" /\ Answer(r, "user_suspended")
            \/ users[u].status = "deleted" /\ Answer(r, "user_deleted")
            \/ IsActive(u) /\ users[u].password # input[r].password
                           /\ Answer(r, "invalid_credentials")
            \/ IsActive(u) /\ users[u].password = input[r].password
                           /\ Proceed(r, "IncrementSignInCount", [Blank EXCEPT !.user = u])
       \/ QueryFails(r)
    /\ NoTable

SignInForgetsUser(r) ==                                             \* mutant
    /\ At(r, {"SignIn"}, "IncrementSignInCount")
    /\ users' \in Discarding(users, IncrementSignInCount(local[r].user))
    /\ Proceed(r, "CreateSession", [Blank EXCEPT !.at = now])
    /\ OnlyUsers

SignInUncounted(r) ==                                               \* mutant
    /\ At(r, {"SignIn"}, "IncrementSignInCount")
    /\ Proceed(r, "CreateSession", [local[r] EXCEPT !.at = now])
    /\ NoTable

SignInIncrement(r) ==
    /\ At(r, {"SignIn"}, "IncrementSignInCount")
    /\ users' \in Discarding(users, IncrementSignInCount(local[r].user))
    /\ Proceed(r, "CreateSession", [local[r] EXCEPT !.at = now])
    /\ OnlyUsers

SignInCreateSession(r) == CreateSession(r, {"SignIn"}) /\ OnlySessions

SignIn(r) ==
    \/ ReceiveSignIn(r) \/ ReceiveUnreadable(r, "SignIn")
    \/ SignInGetByEmail(r) \/ SignInIncrement(r) \/ SignInCreateSession(r)

-----------------------------------------------------------------------------
(* RequireAuth, in front of /v1/users/me, change-password and sign-out-all *)

\* The requests a client with these credentials can make of an endpoint: the
\* body, which RequireAuth runs ahead of, carries the fields of that endpoint.
AuthenticatedRequest(op, creds) ==
    [op : {op}, email : {None}, cred : creds,
     password    : IF op = "ChangePassword" THEN Password ELSE {None},
     newPassword : IF op = "ChangePassword" THEN Password ELSE {None},
     profile     : IF op = "UpdateMe" THEN Profile ELSE {None}]

ReceiveAuthenticated(r, op) ==
    /\ Arrives(r, op)
    /\ \E request \in AuthenticatedRequest(op, KnownSessionTokens(r) \cup {None}) :
           /\ Receive(r, request)
           /\ \/ request.cred = None /\ Answer(r, "unauthenticated")
              \/ request.cred # None /\ Proceed(r, "GetSession", Blank)

AuthGetSession(r) ==
    /\ At(r, AuthenticatedOps, "GetSession")
    /\ \/ LiveSessions(input[r].cred) = {} /\ Answer(r, "session_not_found")
       \/ \E s \in LiveSessions(input[r].cred) :
            \/ ~SessionIsValid(s) /\ Answer(r, "session_expired")
            \/ /\ SessionIsValid(s)
               /\ Proceed(r, "GetUser", [Blank EXCEPT !.user = sessions[s].user])
       \/ QueryFails(r)
    /\ NoTable

AuthGetUser(r) ==
    /\ At(r, AuthenticatedOps, "GetUser")
    /\ \/ IsActive(local[r].user) /\ Proceed(r, "UpdateLastActive", local[r])
       \/ ~IsActive(local[r].user) /\ Answer(r, "user_suspended")
       \/ QueryFails(r)
    /\ NoTable

\* Whether or not the timestamp was written, the handler behind the middleware
\* runs: GetMe answers at once, the others go on to the database.
AuthUpdateLastActive(r) ==
    /\ At(r, AuthenticatedOps, "UpdateLastActive")
    /\ sessions' \in Discarding(sessions, UpdateLastActive(input[r].cred))
    /\ audit' = [audit EXCEPT ![r].who = local[r].user]
    /\ \/ input[r].op = "GetMe" /\ Answer(r, "ok")
       \/ input[r].op = "SignOutAll" /\ Proceed(r, "RevokeAll", local[r])
       \/ input[r].op \in {"UpdateMe", "ChangePassword"} /\ Proceed(r, "GetById", local[r])
       \/ input[r].op \in {"UpdateMe", "ChangePassword"} /\ Answer(r, "invalid_request")
    /\ UNCHANGED <<users, tokens, now, input, job, mailed>>

Authenticate(r) == AuthGetSession(r) \/ AuthGetUser(r) \/ AuthUpdateLastActive(r)

-----------------------------------------------------------------------------
(* The handlers behind RequireAuth *)

UpdateMeGetById(r) ==
    /\ At(r, {"UpdateMe"}, "GetById")
    /\ Proceed(r, "Update", local[r]) \/ QueryFails(r)
    /\ NoTable

UpdateMeUpdate(r) ==
    /\ At(r, {"UpdateMe"}, "Update")
    /\ LET stored == UpdateProfile(local[r].user, input[r].profile) IN
       \/ users' = stored /\ Answer(r, "ok")
       \/ users' \in {users, stored} /\ Unacknowledged(r)
    /\ OnlyUsers

ChangePasswordUnchecked(r) ==                                       \* mutant
    /\ At(r, {"ChangePassword"}, "GetById")
    /\ Proceed(r, "UpdatePassword", local[r])
    /\ NoTable

\* The current password is compared with the hash as it is read here, and the
\* new one judged, before the hash is overwritten by a later statement.
ChangePasswordGetById(r) ==
    /\ At(r, {"ChangePassword"}, "GetById")
    /\ LET match == users[local[r].user].password = input[r].password IN
       \/ ~match /\ Answer(r, "invalid_credentials")
       \/ match /\ input[r].newPassword \notin Strong /\ Answer(r, "password_too_weak")
       \/ match /\ input[r].newPassword \in Strong /\ Proceed(r, "UpdatePassword", local[r])
       \/ QueryFails(r)
    /\ NoTable

\* The history notes which sessions exist as the password changes.
ChangePasswordUpdate(r) ==
    /\ At(r, {"ChangePassword"}, "UpdatePassword")
    /\ LET stored == UpdatePassword(local[r].user, input[r].newPassword) IN
       \/ users' = stored /\ Proceed(r, "RevokeAll", local[r])
       \/ users' \in {users, stored} /\ Unacknowledged(r)
    /\ audit' = [audit EXCEPT ![r].sessions = ExistingSessions]
    /\ UNCHANGED <<sessions, tokens, now, input, job, mailed>>

\* An error of the revocation is discarded: the client is told all went well.
ChangePasswordRevokeAll(r) ==
    /\ At(r, {"ChangePassword"}, "RevokeAll")
    /\ sessions' \in Discarding(sessions, RevokeAllByUserID(local[r].user))
    /\ Answer(r, "ok")
    /\ OnlySessions

SignOutAllDiscardsError(r) ==                                       \* mutant
    /\ At(r, {"SignOutAll"}, "RevokeAll")
    /\ sessions' \in Discarding(sessions, RevokeAllByUserID(local[r].user))
    /\ Answer(r, "ok")
    /\ OnlySessions

SignOutAllRevokeAll(r) ==
    /\ At(r, {"SignOutAll"}, "RevokeAll")
    /\ LET stored == RevokeAllByUserID(local[r].user) IN
       \/ sessions' = stored /\ Answer(r, "ok")
       \/ sessions' \in {sessions, stored} /\ Unacknowledged(r)
    /\ OnlySessions

UpdateMe(r) == ReceiveAuthenticated(r, "UpdateMe") \/ UpdateMeGetById(r) \/ UpdateMeUpdate(r)

RevokesBeforeUpdate(r) ==                                           \* mutant
    \/ ReceiveAuthenticated(r, "ChangePassword")
    \/ /\ At(r, {"ChangePassword"}, "GetById")
       /\ users[local[r].user].password = input[r].password
       /\ Proceed(r, "RevokeAll", local[r])
       /\ NoTable
    \/ /\ At(r, {"ChangePassword"}, "RevokeAll")
       /\ sessions' = RevokeAllByUserID(local[r].user)
       /\ Proceed(r, "UpdatePassword", local[r])
       /\ OnlySessions
    \/ /\ At(r, {"ChangePassword"}, "UpdatePassword")
       /\ users' = UpdatePassword(local[r].user, input[r].newPassword)
       /\ Answer(r, "ok")
       /\ audit' = [audit EXCEPT ![r].sessions = ExistingSessions]
       /\ UNCHANGED <<sessions, tokens, now, input, job, mailed>>

ChangePassword(r) ==
    \/ ReceiveAuthenticated(r, "ChangePassword")
    \/ ChangePasswordGetById(r) \/ ChangePasswordUpdate(r) \/ ChangePasswordRevokeAll(r)

SignOutAll(r) == ReceiveAuthenticated(r, "SignOutAll") \/ SignOutAllRevokeAll(r)

GetMe(r) == ReceiveAuthenticated(r, "GetMe")

-----------------------------------------------------------------------------
(* POST /v1/auth/sign-out: no middleware.  The reply kept here is the       *)
(* service's verdict; the handler discards it and answers 200 in any case.  *)

ReceiveSignOut(r) ==
    /\ Arrives(r, "SignOut")
    /\ \E hash \in KnownSessionTokens(r) \cup {None} :
           /\ Receive(r, [NoInput EXCEPT !.op = "SignOut", !.cred = hash])
           /\ \/ hash = None /\ Answer(r, "ok")
              \/ hash # None /\ Proceed(r, "GetSession", Blank)

SignOutTakesErrorForAbsence(r) ==                                   \* mutant
    /\ At(r, {"SignOut"}, "GetSession")
    /\ \/ (LiveSessions(input[r].cred) = {} \/ DBFaults) /\ Answer(r, "ok")
       \/ LiveSessions(input[r].cred) # {} /\ Proceed(r, "Revoke", local[r])
    /\ NoTable

SignOutGetSession(r) ==
    /\ At(r, {"SignOut"}, "GetSession")
    /\ \/ LiveSessions(input[r].cred) = {} /\ Answer(r, "ok")
       \/ LiveSessions(input[r].cred) # {} /\ Proceed(r, "Revoke", local[r])
       \/ QueryFails(r)
    /\ NoTable

SignOutRevoke(r) ==
    /\ At(r, {"SignOut"}, "Revoke")
    /\ LET stored == RevokeSession(input[r].cred) IN
       \/ ~sessions[input[r].cred].revoked /\ sessions' = stored /\ Answer(r, "ok")
       \/ /\ sessions[input[r].cred].revoked
          /\ sessions' = sessions
          /\ Answer(r, "session_not_found")
       \/ sessions' \in {sessions, stored} /\ Unacknowledged(r)
    /\ OnlySessions

SignOut(r) == ReceiveSignOut(r) \/ SignOutGetSession(r) \/ SignOutRevoke(r)

PasswordSessionsStep(r) ==
    \/ SignUp(r) \/ SignIn(r) \/ SignOut(r) \/ Authenticate(r)
    \/ GetMe(r) \/ UpdateMe(r) \/ ChangePassword(r) \/ SignOutAll(r)
=============================================================================
