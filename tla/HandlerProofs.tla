---------------------------- MODULE HandlerProofs ----------------------------
(***************************************************************************)
(* The handlers, one lemma per action: none does more than Kept allows.    *)
(***************************************************************************)
EXTENDS GoroutineProofs

\* The lists of calls and endpoints are spelt out throughout.
USE DEF At, Call, AccountCalls, SessionCalls, TokenCalls, PendingCalls, LogInOps, VerifyEmailOps

\* A sign-up goes on only with a valid address and a strong password.
LEMMA ReceiveSignUpKeeps ==
    ASSUME IInv, NEW r \in Request, ReceiveSignUp(r)
    PROVE  Kept(r)
<1> PICK raw \in RawEmail, p \in Password, f \in Profile :
        ReceiveSignUp(r)!2!(raw, p, f)
  BY DEF ReceiveSignUp
<1> DEFINE email == Normalize[raw]
           request == [NoInput EXCEPT !.op = "SignUp", !.email = email,
                                      !.password = p, !.profile = f]
           frame == [Blank EXCEPT !.user = r, !.at = now]
<1>1. request \in Input /\ email \in Address \cup {Malformed}
  BY NormalizeAssumption DEF NoInput, Input, AllOps
<1>2. frame \in Frame
  BY DEF IInv, TypeOK, StoreTypeOK, Blank, Frame, UserStatus
<1>3. email # Malformed => Fit(r, request, "CreateUser", frame)
  BY <1>1 DEF Fit, NoInput, Blank
<1>. QED
  BY <1>1, <1>2, <1>3, Received DEF ReceiveSignUp, Arrives, Refusal

\* The account row sign-up stores is new, and has an address nobody had.
LEMMA SignUpCreateUserKeeps ==
    ASSUME IInv, NEW r \in Request, SignUpCreateUser(r)
    PROVE  Kept(r)
<1> DEFINE row == NewUser(input[r].email, FALSE, input[r].password, input[r].profile)
<1>1. pc[r] = "CreateUser" /\ pc[r] \in Call /\ input[r].op = "SignUp"
  BY DEF SignUpCreateUser
<1>2. row \in UserRow
  BY <1>1 DEF IInv, InputInv, NewUser, UserRow, UserStatus
<1>3. users[r] = None /\ sessions[r] = None /\ tokens[r] = None /\ local[r].user = r
  BY <1>1 DEF IInv, FreshInv, FrameInv
<1>4. UsersGrow(r)
  BY <1>2, <1>3, RowAdded, UsersStay DEF IInv, TypeOK, SignUpCreateUser
<1>5. Elsewhere(r)
  BY <1>4, UsersWritten DEF SignUpCreateUser
<1>6. ASSUME NEW outcome \in Refusal \cup {"ok"}, Answer(r, outcome) PROVE Kept(r)
  BY <1>1, <1>5, <1>6, Answered
<1>7. ASSUME ~EmailTaken(input[r].email), users' = InsertUser(r, row),
             Proceed(r, "CreateSession", local[r])
      PROVE  Kept(r)
  <2>1. users'[r] # None
    BY <1>2, <1>7, RowAssumption DEF IInv, TypeOK, StoreTypeOK, InsertUser, NewUser
  <2>2. Ready(r, "CreateSession", local[r])
    BY <1>1, <1>3, <2>1 DEF IInv, InputInv, SignUpCreateUser, OnlyUsers, Ready
  <2>. QED BY <1>1, <1>5, <1>7, <2>2, FramesTyped, Proceeded
<1>. QED
  BY <1>6, <1>7 DEF SignUpCreateUser, Unacknowledged, Refusal

\* The one that ends a sign-up leaves a mail to send, for an account that exists.
LEMMA SignUpCreateSessionKeeps ==
    ASSUME IInv, NEW r \in Request, SignUpCreateSession(r)
    PROVE  Kept(r)
<1>1. pc[r] = "CreateSession" /\ input[r].op = "SignUp"
  BY DEF SignUpCreateSession, CreateSession
<1>2. TablesGrow(r) /\ Noted(r)
  BY CreateSessionGrows, UsersStay, TokensStay, NothingNoted
  DEF IInv, TypeOK, SignUpCreateSession, TablesGrow
<1>3. PICK outcome \in {"ok", "internal"} : Answer(r, outcome)
  BY DEF SignUpCreateSession, CreateSession, Unacknowledged
<1>4. RuntimeTypeOK /\ Blank \in Frame
  BY FramesTyped DEF IInv, TypeOK
<1>5. RuntimeTypeOK'
  BY <1>3, <1>4 DEF RuntimeTypeOK, SignUpCreateSession, Answer, JobState, Refusal
<1>6. Others(r)
  BY <1>3, <1>4 DEF RuntimeTypeOK, SignUpCreateSession, Answer, Others
<1>7. input[r].email \in Address /\ users[r] # None /\ tokens[r] = None
  BY <1>1 DEF IInv, InputInv, FrameInv, FreshInv
<1>8. Own(r)'
  BY <1>1, <1>3, <1>4, <1>7
  DEF RuntimeTypeOK, SignUpCreateSession, Answer, Own, InputInv, FrameInv, FreshInv
<1>. QED
  BY <1>2, <1>5, <1>6, <1>8 DEF Kept, Noted, SignUpCreateSession

\* Receiving a sign-in is harmless.
LEMMA ReceiveSignInKeeps ==
    ASSUME IInv, NEW r \in Request, ReceiveSignIn(r)
    PROVE  Kept(r)
<1> PICK raw \in RawEmail, p \in Password : ReceiveSignIn(r)!2!(raw, p)
  BY DEF ReceiveSignIn
<1> DEFINE request == [NoInput EXCEPT !.op = "SignIn", !.email = Normalize[raw], !.password = p]
<1>1. request \in Input
  BY NormalizeAssumption DEF NoInput, Input, AllOps
<1>2. Fit(r, request, "GetByEmail", Blank)
  BY DEF Fit, NoInput
<1>. QED
  BY <1>1, <1>2, FramesTyped, Received DEF ReceiveSignIn, Arrives, Refusal

\* Sign-in goes on with an account that the query found.
LEMMA SignInGetByEmailKeeps ==
    ASSUME IInv, NEW r \in Request, SignInGetByEmail(r)
    PROVE  Kept(r)
<1>1. pc[r] \in Call /\ Elsewhere(r)
  BY QueryIssued DEF SignInGetByEmail
<1>2. ASSUME NEW outcome \in Refusal \cup {"ok"}, Answer(r, outcome) PROVE Kept(r)
  BY <1>1, <1>2, Answered
<1>3. ASSUME NEW u \in UsersByEmail(input[r].email),
             Proceed(r, "IncrementSignInCount", [Blank EXCEPT !.user = u])
      PROVE  Kept(r)
  <2>1. Ready(r, "IncrementSignInCount", [Blank EXCEPT !.user = u])
    BY DEF IInv, FreshInv, SignInGetByEmail, UsersByEmail, Blank, Ready, NoTable, OnlyUsers
  <2>. QED BY <1>1, <1>3, <2>1, FramesTyped, Proceeded DEF UsersByEmail
<1>. QED
  BY <1>2, <1>3 DEF SignInGetByEmail, QueryFails, Refusal

\* Counting a sign-in leaves the account in place, or fails unnoticed.
LEMMA SignInIncrementKeeps ==
    ASSUME IInv, NEW r \in Request, SignInIncrement(r)
    PROVE  Kept(r)
<1>1. pc[r] = "IncrementSignInCount" /\ pc[r] \in Call /\ input[r].op = "SignIn"
  BY DEF SignInIncrement
<1>2. local[r].user \in Request /\ users[local[r].user] # None
  BY <1>1 DEF IInv, FrameInv
<1>3. UsersGrow(r)
  BY <1>2, UserWritten, UsersStay DEF IInv, TypeOK, SignInIncrement, Discarding
<1>4. Elsewhere(r)
  BY <1>3, UsersWritten DEF SignInIncrement
<1>5. Ready(r, "CreateSession", [local[r] EXCEPT !.at = now])
  BY <1>1, <1>2, <1>3, FramesTyped
  DEF IInv, FreshInv, SignInIncrement, OnlyUsers, UsersGrow, Frame, Ready
<1>. QED
  BY <1>1, <1>4, <1>5, FramesTyped, Proceeded DEF SignInIncrement

-----------------------------------------------------------------------------
\* Receiving a request to an endpoint behind RequireAuth is harmless.
LEMMA ReceiveAuthenticatedKeeps ==
    ASSUME IInv, NEW r \in Request, NEW op \in AuthenticatedOps, ReceiveAuthenticated(r, op)
    PROVE  Kept(r)
<1> PICK request \in AuthenticatedRequest(op, KnownSessionTokens(r) \cup {None}) :
        ReceiveAuthenticated(r, op)!2!(request)
  BY DEF ReceiveAuthenticated
<1>1. request \in Input
  BY DEF KnownSessionTokens, AuthenticatedRequest, Input, AllOps
<1>2. Fit(r, request, "GetSession", Blank)
  BY DEF AuthenticatedRequest, Fit, AuthenticatedOps
<1>. QED
  BY <1>1, <1>2, FramesTyped, Received DEF ReceiveAuthenticated, Arrives, Refusal

\* RequireAuth goes on with the account of a session that exists.
LEMMA AuthGetSessionKeeps ==
    ASSUME IInv, NEW r \in Request, AuthGetSession(r)
    PROVE  Kept(r)
<1>1. pc[r] \in Call /\ Elsewhere(r)
  BY QueryIssued DEF AuthGetSession
<1>2. ASSUME NEW outcome \in Refusal \cup {"ok"}, Answer(r, outcome) PROVE Kept(r)
  BY <1>1, <1>2, Answered
<1>3. ASSUME NEW s \in LiveSessions(input[r].cred),
             Proceed(r, "GetUser", [Blank EXCEPT !.user = sessions[s].user])
      PROVE  Kept(r)
  <2>1. s = input[r].cred /\ s \in Request /\ sessions[s] # None
    BY DEF LiveSessions
  <2>2. sessions[s].user \in Request /\ users[sessions[s].user] # None
    BY <2>1 DEF IInv, TypeOK, StoreTypeOK, SessionRow, RowInv
  <2>3. Ready(r, "GetUser", [Blank EXCEPT !.user = sessions[s].user])
    BY <2>1, <2>2 DEF IInv, FreshInv, AuthGetSession, Blank, Ready, NoTable, OnlyUsers
  <2>. QED BY <1>1, <1>3, <2>2, <2>3, FramesTyped, Proceeded
<1>. QED
  BY <1>2, <1>3 DEF AuthGetSession, QueryFails, Refusal

\* It goes on with that account if it is active.
LEMMA AuthGetUserKeeps ==
    ASSUME IInv, NEW r \in Request, AuthGetUser(r)
    PROVE  Kept(r)
<1>1. pc[r] \in Call /\ Elsewhere(r)
  BY QueryIssued DEF AuthGetUser
<1>2. ASSUME NEW outcome \in Refusal \cup {"ok"}, Answer(r, outcome) PROVE Kept(r)
  BY <1>1, <1>2, Answered
<1>3. ASSUME Proceed(r, "UpdateLastActive", local[r]) PROVE Kept(r)
  <2>1. Ready(r, "UpdateLastActive", local[r])
    BY DEF IInv, FreshInv, FrameInv, AuthGetUser, Ready, NoTable, OnlyUsers
  <2>. QED BY <1>1, <1>3, <2>1, FramesTyped, Proceeded
<1>. QED
  BY <1>2, <1>3 DEF AuthGetUser, QueryFails, Refusal

\* Touching the session keeps it, and lets the handler rely on the account.
LEMMA AuthUpdateLastActiveKeeps ==
    ASSUME IInv, NEW r \in Request, AuthUpdateLastActive(r)
    PROVE  Kept(r)
<1>1. pc[r] = "UpdateLastActive" /\ pc[r] \in Call /\ input[r].op \in AuthenticatedOps
  BY DEF AuthUpdateLastActive
<1>2. /\ local[r].user \in Request /\ users[local[r].user] # None
      /\ input[r].cred \in Request /\ sessions[input[r].cred] # None
  BY <1>1 DEF IInv, FrameInv
<1>3. TablesGrow(r)
  BY <1>2, UsersStay, TokensStay, SessionWritten, SessionsStay
  DEF IInv, TypeOK, AuthUpdateLastActive, Discarding, TablesGrow
<1>4. Noted(r)
  <2>1. audit \in [Request -> Audit]
    BY DEF IInv, TypeOK, RuntimeTypeOK
  <2>2. [audit[r] EXCEPT !.who = local[r].user] \in Audit
    BY <1>2, <2>1 DEF Audit
  <2>3. [audit[r] EXCEPT !.who = local[r].user].consumed = audit[r].consumed
    BY <2>1 DEF Audit
  <2>. QED BY <2>1, <2>2, <2>3 DEF AuthUpdateLastActive, Noted, Redeems
<1>5. Elsewhere(r)
  BY <1>3, <1>4 DEF IInv, TypeOK, RuntimeTypeOK, AuthUpdateLastActive, Elsewhere
<1>6. ASSUME NEW outcome \in Refusal \cup {"ok"}, Answer(r, outcome) PROVE Kept(r)
  BY <1>1, <1>5, <1>6, Answered
<1>7. ASSUME NEW call \in {"RevokeAll", "GetById"}, Proceed(r, call, local[r]) PROVE Kept(r)
  <2>1. Ready(r, call, local[r])
    BY <1>1, <1>2, <1>3
    DEF IInv, FreshInv, AuthUpdateLastActive, AuthenticatedOps, TablesGrow, UsersGrow,
        SessionsGrow, TokensGrow, Discarding, UpdateLastActive, Ready
  <2>. QED BY <1>1, <1>5, <1>7, <2>1, FramesTyped, Proceeded
<1>. QED
  BY <1>6, <1>7 DEF AuthUpdateLastActive, Refusal

\* Reading the profile is harmless.
LEMMA UpdateMeGetByIdKeeps ==
    ASSUME IInv, NEW r \in Request, UpdateMeGetById(r)
    PROVE  Kept(r)
<1>1. pc[r] \in Call /\ Elsewhere(r)
  BY QueryIssued DEF UpdateMeGetById
<1>2. Ready(r, "Update", local[r])
  BY DEF IInv, FreshInv, FrameInv, UpdateMeGetById, Ready, NoTable, OnlyUsers
<1>. QED
  BY <1>1, <1>2, FramesTyped, Answered, Proceeded DEF UpdateMeGetById, QueryFails, Refusal

\* Writing the profile keeps the account's address.
LEMMA UpdateMeUpdateKeeps ==
    ASSUME IInv, NEW r \in Request, UpdateMeUpdate(r)
    PROVE  Kept(r)
<1>1. pc[r] = "Update" /\ pc[r] \in Call /\ input[r].op = "UpdateMe"
  BY DEF UpdateMeUpdate
<1>2. local[r].user \in Request /\ users[local[r].user] # None /\ input[r].profile \in Profile
  BY <1>1 DEF IInv, FrameInv, InputInv
<1>3. UsersGrow(r)
  BY <1>2, UserWritten, UsersStay DEF IInv, TypeOK, UpdateMeUpdate
<1>4. Elsewhere(r)
  BY <1>3, UsersWritten DEF UpdateMeUpdate
<1>. QED
  BY <1>1, <1>4, Answered DEF UpdateMeUpdate, Unacknowledged, Refusal

\* Judging the current and the new password is harmless.
LEMMA ChangePasswordGetByIdKeeps ==
    ASSUME IInv, NEW r \in Request, ChangePasswordGetById(r)
    PROVE  Kept(r)
<1>1. pc[r] \in Call /\ Elsewhere(r)
  BY QueryIssued DEF ChangePasswordGetById
<1>2. Ready(r, "UpdatePassword", local[r])
  BY DEF IInv, FreshInv, FrameInv, ChangePasswordGetById, Ready, NoTable, OnlyUsers
<1>. QED
  BY <1>1, <1>2, FramesTyped, Answered, Proceeded
  DEF ChangePasswordGetById, QueryFails, Refusal

\* Writing the new hash keeps the account's address.
LEMMA ChangePasswordUpdateKeeps ==
    ASSUME IInv, NEW r \in Request, ChangePasswordUpdate(r)
    PROVE  Kept(r)
<1>1. pc[r] = "UpdatePassword" /\ pc[r] \in Call /\ input[r].op = "ChangePassword"
  BY DEF ChangePasswordUpdate
<1>2. local[r].user \in Request /\ users[local[r].user] # None /\ input[r].newPassword \in Password
  BY <1>1 DEF IInv, FrameInv, InputInv
<1>3. UsersGrow(r)
  BY <1>2, UserWritten, UsersStay DEF IInv, TypeOK, ChangePasswordUpdate
<1>4. TablesGrow(r)
  BY <1>3, SessionsStay, TokensStay DEF IInv, TypeOK, ChangePasswordUpdate, TablesGrow
<1>5. Noted(r)
  <2>1. audit \in [Request -> Audit] /\ ExistingSessions \in SUBSET Request
    BY DEF IInv, TypeOK, RuntimeTypeOK, ExistingSessions
  <2>2. [audit[r] EXCEPT !.sessions = ExistingSessions] \in Audit
    BY <2>1 DEF Audit
  <2>3. [audit[r] EXCEPT !.sessions = ExistingSessions].consumed = audit[r].consumed
    BY <2>1 DEF Audit
  <2>. QED BY <2>1, <2>2, <2>3 DEF ChangePasswordUpdate, Noted, Redeems
<1>6. Elsewhere(r)
  BY <1>4, <1>5 DEF IInv, TypeOK, RuntimeTypeOK, ChangePasswordUpdate, Elsewhere
<1>7. Ready(r, "RevokeAll", local[r])
  BY <1>1, <1>2, <1>3 DEF IInv, FreshInv, ChangePasswordUpdate, UpdatePassword, UsersGrow, Ready
<1>. QED
  BY <1>1, <1>6, <1>7, FramesTyped, Answered, Proceeded
  DEF ChangePasswordUpdate, Unacknowledged, Refusal

\* Revoking all sessions of an account is harmless, whether or not it fails.
LEMMA RevokeAllKeeps ==
    ASSUME IInv, NEW r \in Request, ChangePasswordRevokeAll(r) \/ SignOutAllRevokeAll(r)
    PROVE  Kept(r)
<1>1. pc[r] \in Call
  BY DEF ChangePasswordRevokeAll, SignOutAllRevokeAll
<1>2. SessionsGrow(r)
  BY SessionsRevoked, SessionsStay
  DEF IInv, TypeOK, ChangePasswordRevokeAll, SignOutAllRevokeAll, Discarding
<1>3. Elsewhere(r)
  BY <1>2, SessionsWritten DEF ChangePasswordRevokeAll, SignOutAllRevokeAll
<1>. QED
  BY <1>1, <1>3, Answered
  DEF ChangePasswordRevokeAll, SignOutAllRevokeAll, Unacknowledged, Refusal

-----------------------------------------------------------------------------
\* Receiving a sign-out is harmless.
LEMMA ReceiveSignOutKeeps ==
    ASSUME IInv, NEW r \in Request, ReceiveSignOut(r)
    PROVE  Kept(r)
<1> PICK hash \in KnownSessionTokens(r) \cup {None} : ReceiveSignOut(r)!2!(hash)
  BY DEF ReceiveSignOut
<1> DEFINE request == [NoInput EXCEPT !.op = "SignOut", !.cred = hash]
<1>1. request \in Input
  BY DEF KnownSessionTokens, NoInput, Input, AllOps
<1>2. Fit(r, request, "GetSession", Blank)
  BY DEF Fit, NoInput
<1>. QED
  BY <1>1, <1>2, FramesTyped, Received DEF ReceiveSignOut, Arrives, Refusal

\* Sign-out goes on with a session that the query found.
LEMMA SignOutGetSessionKeeps ==
    ASSUME IInv, NEW r \in Request, SignOutGetSession(r)
    PROVE  Kept(r)
<1>1. pc[r] \in Call /\ Elsewhere(r)
  BY QueryIssued DEF SignOutGetSession
<1>2. LiveSessions(input[r].cred) # {} => Ready(r, "Revoke", local[r])
  BY DEF IInv, FreshInv, LiveSessions, SignOutGetSession, Ready, NoTable, OnlyUsers
<1>. QED
  BY <1>1, <1>2, FramesTyped, Answered, Proceeded DEF SignOutGetSession, QueryFails, Refusal

\* Revoking it keeps its account.
LEMMA SignOutRevokeKeeps ==
    ASSUME IInv, NEW r \in Request, SignOutRevoke(r)
    PROVE  Kept(r)
<1>1. pc[r] = "Revoke" /\ pc[r] \in Call
  BY DEF SignOutRevoke
<1>2. input[r].cred \in Request /\ sessions[input[r].cred] # None
  BY <1>1 DEF IInv, FrameInv
<1>3. SessionsGrow(r)
  BY <1>2, SessionWritten, SessionsStay DEF IInv, TypeOK, SignOutRevoke
<1>4. Elsewhere(r)
  BY <1>3, SessionsWritten DEF SignOutRevoke
<1>. QED
  BY <1>1, <1>4, Answered DEF SignOutRevoke, Unacknowledged, Refusal

-----------------------------------------------------------------------------
\* All steps of module PasswordSessions.
LEMMA PasswordSessionsStepKeeps ==
    ASSUME IInv, NEW r \in Request, PasswordSessionsStep(r)
    PROVE  Kept(r)
<1>1. CASE SignUp(r)
  BY <1>1, ReceiveSignUpKeeps, ReceiveUnreadableKeeps, SignUpCreateUserKeeps,
     SignUpCreateSessionKeeps DEF SignUp, AllOps
<1>2. CASE SignIn(r)
  BY <1>2, ReceiveSignInKeeps, ReceiveUnreadableKeeps, SignInGetByEmailKeeps,
     SignInIncrementKeeps, CreateSessionKeeps DEF SignIn, SignInCreateSession, AllOps
<1>3. CASE SignOut(r)
  BY <1>3, ReceiveSignOutKeeps, SignOutGetSessionKeeps, SignOutRevokeKeeps DEF SignOut
<1>4. CASE Authenticate(r)
  BY <1>4, AuthGetSessionKeeps, AuthGetUserKeeps, AuthUpdateLastActiveKeeps DEF Authenticate
<1>5. CASE GetMe(r)
  BY <1>5, ReceiveAuthenticatedKeeps DEF GetMe, AuthenticatedOps
<1>6. CASE UpdateMe(r)
  BY <1>6, ReceiveAuthenticatedKeeps, UpdateMeGetByIdKeeps, UpdateMeUpdateKeeps
  DEF UpdateMe, AuthenticatedOps
<1>7. CASE ChangePassword(r)
  BY <1>7, ReceiveAuthenticatedKeeps, ChangePasswordGetByIdKeeps, ChangePasswordUpdateKeeps,
     RevokeAllKeeps DEF ChangePassword, AuthenticatedOps
<1>8. CASE SignOutAll(r)
  BY <1>8, ReceiveAuthenticatedKeeps, RevokeAllKeeps DEF SignOutAll, AuthenticatedOps
<1>. QED
  BY <1>1, <1>2, <1>3, <1>4, <1>5, <1>6, <1>7, <1>8 DEF PasswordSessionsStep

------------------------------------------------------------------------------
(* Tokens: VerificationTokens, Passwordless and EmailVerification. *)

\* Looking up a link goes on with a token of the type asked for.
LEMMA LookUpLinkKeeps ==
    ASSUME IInv, NEW r \in Request, NEW op, NEW type, NEW onFault \in Refusal,
           op \in VerifyEmailOps => type = "email_verification",
           LookUpLink(r, op, type, onFault)
    PROVE  Kept(r)
<1>1. pc[r] \in Call /\ Elsewhere(r)
  BY QueryIssued DEF LookUpLink
<1>2. ASSUME NEW outcome \in Refusal \cup {"ok"}, Answer(r, outcome) PROVE Kept(r)
  BY <1>1, <1>2, Answered
<1>3. ASSUME NEW t \in TokensByHash(input[r].cred), tokens[t].type = type,
             Proceed(r, "MarkConsumed", [Blank EXCEPT !.token = t])
      PROVE  Kept(r)
  <2>1. t \in Request /\ tokens[t] # None
    BY DEF TokensByHash
  <2>2. Ready(r, "MarkConsumed", [Blank EXCEPT !.token = t])
    BY <1>3, <2>1 DEF IInv, FreshInv, LookUpLink, Blank, Ready, NoTable, OnlyUsers
  <2>. QED BY <1>1, <1>3, <2>1, <2>2, FramesTyped, Proceeded
<1>. QED
  BY <1>2, <1>3 DEF LookUpLink, Refusal

\* Looking up a code goes on with a token of the type asked for.
LEMMA LookUpCodeKeeps ==
    ASSUME IInv, NEW r \in Request, NEW op, NEW type, NEW onFault \in Refusal,
           op \in VerifyEmailOps => type = "email_verification",
           LookUpCode(r, op, type, onFault)
    PROVE  Kept(r)
<1>1. pc[r] \in Call /\ Elsewhere(r)
  BY QueryIssued DEF LookUpCode
<1>2. ASSUME NEW outcome \in Refusal \cup {"ok"}, Answer(r, outcome) PROVE Kept(r)
  BY <1>1, <1>2, Answered
<1>3. ASSUME NEW t \in LatestActive(input[r].email, type),
             Proceed(r, "IncrementAttempts",
                     [Blank EXCEPT !.token = t, !.attempts = tokens[t].attempts])
      PROVE  Kept(r)
  <2> DEFINE frame == [Blank EXCEPT !.token = t, !.attempts = tokens[t].attempts]
  <2>1. t \in Request /\ tokens[t] # None /\ tokens[t].type = type
    BY DEF LatestActive, ActiveTokens
  <2>2. tokens[t].attempts \in Nat
    BY <2>1 DEF IInv, TypeOK, StoreTypeOK, TokenRow
  <2>3. frame \in Frame /\ frame.token = t
    BY <2>1, <2>2 DEF Blank, Frame, UserStatus
  <2>4. Ready(r, "IncrementAttempts", frame)
    BY <2>1, <2>3 DEF IInv, FreshInv, LookUpCode, Ready, NoTable, OnlyUsers
  <2>. QED BY <1>1, <1>3, <2>3, <2>4, Proceeded
<1>. QED
  BY <1>2, <1>3 DEF LookUpCode, Refusal

\* Counting an attempt revives no token, whoever else counts or consumes it.
LEMMA CompareCodeKeeps ==
    ASSUME IInv, NEW r \in Request, NEW op, CompareCode(r, op)
    PROVE  Kept(r)
<1>1. pc[r] = "IncrementAttempts" /\ pc[r] \in Call
  BY DEF CompareCode
<1>2. local[r].token \in Request /\ tokens[local[r].token] # None
  BY <1>1 DEF IInv, FrameInv
<1>3. TablesGrow(r)
  BY <1>2, UsersStay, SessionsStay, TokenWritten, TokensStay
  DEF IInv, TypeOK, CompareCode, Discarding, TablesGrow
<1>4. Noted(r)
  <2>1. audit \in [Request -> Audit]
    BY DEF IInv, TypeOK, RuntimeTypeOK
  <2>2. [audit[r] EXCEPT !.tried = local[r].token] \in Audit
    BY <1>2, <2>1 DEF Audit
  <2>3. [audit[r] EXCEPT !.tried = local[r].token].consumed = audit[r].consumed
    BY <2>1 DEF Audit
  <2>. QED BY <2>1, <2>2, <2>3 DEF CompareCode, Noted, Redeems
<1>5. Elsewhere(r)
  BY <1>3, <1>4 DEF IInv, TypeOK, RuntimeTypeOK, CompareCode, Elsewhere
<1>6. Ready(r, "MarkConsumed", local[r])
  BY <1>1, <1>2, <1>3 DEF IInv, FreshInv, FrameInv, CompareCode, TablesGrow, TokensGrow,
                          IncrementAttempts, Discarding, Ready
<1>. QED
  BY <1>1, <1>5, <1>6, FramesTyped, Answered, Proceeded DEF CompareCode, Refusal

\* Consuming a token is harmless: the row count names one consumer, and a
\* verification mail's token names an account that exists.
LEMMA ConsumeKeeps ==
    ASSUME IInv, NEW r \in Request, NEW op, NEW next, NEW frame,
           \/ next = "FindUser" /\ frame = local[r] /\ op \in LogInOps
           \/ /\ next = "SetEmailVerified" /\ op \in VerifyEmailOps
              /\ frame = [local[r] EXCEPT !.user = tokens[local[r].token].user],
           Consume(r, op, next, frame)
    PROVE  Kept(r)
<1> DEFINE t == local[r].token
<1>1. pc[r] = "MarkConsumed" /\ pc[r] \in Call /\ input[r].op = op
  BY DEF Consume
<1>2. t \in Request /\ tokens[t] # None /\ audit[r].consumed = None
  BY <1>1 DEF IInv, FrameInv, FreshInv
<1>3. TablesGrow(r)
  BY <1>2, UsersStay, SessionsStay, TokenWritten, TokensStay
  DEF IInv, TypeOK, Consume, TablesGrow
<1>4. Noted(r)
  <2>1. audit \in [Request -> Audit] /\ tokens[t] \in TokenRow
    BY <1>2 DEF IInv, TypeOK, StoreTypeOK, RuntimeTypeOK
  <2>2. CASE audit' = audit
    BY <2>2, NothingNoted DEF IInv, TypeOK
  <2>3. CASE /\ Consumable(t) /\ tokens' = MarkConsumed(t)
             /\ audit' = [audit EXCEPT ![r].consumed = t]
    <3>1. [audit[r] EXCEPT !.consumed = t] \in Audit
      BY <1>2, <2>1 DEF Audit
    <3>2. [audit[r] EXCEPT !.consumed = t].consumed = t
      BY <2>1 DEF Audit
    <3>3. tokens' = [tokens EXCEPT ![t] = [tokens[t] EXCEPT !.consumed = TRUE]]
      BY <2>3 DEF MarkConsumed
    <3>4. tokens'[t].consumed /\ tokens'[t] # None
      <4> DEFINE row == [tokens[t] EXCEPT !.consumed = TRUE]
      <4>1. row.consumed = TRUE
        BY <2>1 DEF TokenRow
      <4>2. tokens' = [tokens EXCEPT ![t] = row] /\ tokens \in [Request -> TokenRow \cup {None}]
        BY <3>3 DEF IInv, TypeOK, StoreTypeOK
      <4> HIDE DEF row
      <4>3. tokens'[t] = row
        BY <1>2, <4>2
      <4>. QED BY <1>2, <1>3, <4>1, <4>3 DEF TablesGrow, TokensGrow
    <3>. QED BY <1>2, <2>1, <2>3, <3>1, <3>2, <3>4 DEF Noted, Redeems
  <2>. QED BY <2>2, <2>3 DEF Consume
<1>5. Elsewhere(r)
  BY <1>3, <1>4 DEF IInv, TypeOK, RuntimeTypeOK, Consume, Elsewhere
<1>6. next \in Call /\ frame \in Frame /\ Ready(r, next, frame)
  <2>1. users[r] = None /\ sessions[r] = None /\ tokens[r] = None
    BY <1>1 DEF IInv, FreshInv
  <2>2. users'[r] = None /\ sessions'[r] = None /\ tokens'[r] = None
    BY <1>2, <2>1 DEF IInv, TypeOK, StoreTypeOK, Consume, MarkConsumed
  <2>3. CASE next = "FindUser" /\ frame = local[r]
    BY <1>1, <1>2, <2>2, <2>3, FramesTyped DEF Ready
  <2>4. CASE /\ next = "SetEmailVerified" /\ op \in VerifyEmailOps
             /\ frame = [local[r] EXCEPT !.user = tokens[t].user]
    <3>1. tokens[t].user \in Request /\ users[tokens[t].user] # None
      BY <1>1, <1>2, <2>4 DEF IInv, FrameInv, RowInv
    <3>2. frame \in Frame
      BY <2>4, <3>1, FramesTyped
    <3>3. frame.user = tokens[t].user
      BY <2>4, FramesTyped DEF Frame
    <3>. QED BY <1>1, <2>2, <2>4, <3>1, <3>2, <3>3 DEF Consume, Ready
  <2>. QED BY <2>3, <2>4
<1>. QED
  BY <1>1, <1>5, <1>6, Answered, Proceeded DEF Consume, Unacknowledged, Refusal

-----------------------------------------------------------------------------
\* A send request goes on only with a valid address.
LEMMA ReceiveSendKeeps ==
    ASSUME IInv, NEW r \in Request, NEW op \in {"SendMagicLink", "SendOTP"}, ReceiveSend(r, op)
    PROVE  Kept(r)
<1> PICK raw \in RawEmail : ReceiveSend(r, op)!2!(raw)
  BY DEF ReceiveSend
<1> DEFINE request == [NoInput EXCEPT !.op = op, !.email = Normalize[raw]]
<1>1. request \in Input /\ request.op = op /\ request.email = Normalize[raw]
  BY NormalizeAssumption DEF NoInput, Input, AllOps
<1>2. Normalize[raw] # Malformed => Fit(r, request, "GetLatest", Blank)
  BY <1>1, NormalizeAssumption DEF Fit
<1>. QED
  BY <1>1, <1>2, FramesTyped, Received DEF ReceiveSend, Arrives, Refusal

\* Checking the cooldown is harmless.
LEMMA CheckCooldownKeeps ==
    ASSUME IInv, NEW r \in Request, NEW op \in {"SendMagicLink", "SendOTP"}, NEW type,
           CheckCooldown(r, op, type)
    PROVE  Kept(r)
<1>1. pc[r] \in Call /\ Elsewhere(r)
  BY QueryIssued DEF CheckCooldown
<1>2. Ready(r, "LinkUser", [Blank EXCEPT !.at = now])
  BY DEF IInv, FreshInv, CheckCooldown, Ready, NoTable, OnlyUsers
<1>. QED
  BY <1>1, <1>2, FramesTyped, Answered, Proceeded DEF CheckCooldown, Refusal

\* Looking for the account of the address is harmless, found or not.
LEMMA LinkUserKeeps ==
    ASSUME IInv, NEW r \in Request, NEW op \in {"SendMagicLink", "SendOTP"}, LinkUser(r, op)
    PROVE  Kept(r)
<1>1. pc[r] \in Call /\ Elsewhere(r)
  BY QueryIssued DEF LinkUser
<1>2. \A frame \in Frame : Ready(r, "CreateToken", frame)
  BY DEF IInv, FreshInv, LinkUser, Ready, NoTable, OnlyUsers
<1>3. \A u \in UsersByEmail(input[r].email) : [local[r] EXCEPT !.user = u] \in Frame
  BY FramesTyped DEF UsersByEmail
<1>. QED
  BY <1>1, <1>2, <1>3, FramesTyped, Proceeded DEF LinkUser

\* The token a send request stores is new and unconsumed.
LEMMA StoreTokenKeeps ==
    ASSUME IInv, NEW r \in Request, NEW op \in {"SendMagicLink", "SendOTP"},
           NEW type \in {"magic_link", "email_otp"}, NEW code \in Request \cup {None},
           NEW ttl \in Nat, StoreToken(r, op, type, code, ttl)
    PROVE  Kept(r)
<1> DEFINE row == NewToken(local[r].user, input[r].email, type, code, local[r].at, ttl)
<1>1. pc[r] = "CreateToken" /\ pc[r] \in Call /\ input[r].op = op
  BY DEF StoreToken
<1>2. input[r].email \in Address /\ users[r] = None /\ sessions[r] = None /\ tokens[r] = None
  BY <1>1 DEF IInv, InputInv, FreshInv
<1>3. local[r].user \in Request \cup {None} /\ local[r].at \in Nat
  BY FramesTyped DEF Frame
<1>4. row \in TokenRow /\ row.type # "email_verification" /\ ~row.consumed
  BY <1>2, <1>3 DEF NewToken, TokenRow, TokenType
<1>5. TokensGrow(r)
  BY <1>2, <1>4, TokenAdded, TokensStay DEF IInv, TypeOK, StoreToken
<1>6. Elsewhere(r)
  BY <1>5, TokensWritten DEF StoreToken
<1>7. Ready(r, "Mail", local[r])
  BY <1>2 DEF StoreToken, OnlyTokens, Ready
<1>. QED
  BY <1>1, <1>6, <1>7, FramesTyped, Answered, Proceeded DEF StoreToken, Unacknowledged, Refusal

\* Mailing it is harmless.
LEMMA MailTokenKeeps ==
    ASSUME IInv, NEW r \in Request, NEW op, MailToken(r, op)
    PROVE  Kept(r)
<1>1. pc[r] \in Call
  BY DEF MailToken
<1>2. TablesGrow(r) /\ Noted(r)
  BY UsersStay, SessionsStay, TokensStay, NothingNoted DEF IInv, TypeOK, MailToken, TablesGrow
<1>3. Elsewhere(r)
  BY <1>2 DEF IInv, TypeOK, RuntimeTypeOK, MailToken, Elsewhere
<1>. QED
  BY <1>1, <1>3, Answered DEF MailToken

-----------------------------------------------------------------------------
\* Receiving a link or a code is harmless.
LEMMA ReceiveVerifyKeeps ==
    ASSUME IInv, NEW r \in Request,
           \/ ReceiveVerifyMagicLink(r) \/ ReceiveVerifyOTP(r)
           \/ ReceiveVerifyEmailToken(r) \/ ReceiveVerifyEmailOTP(r)
    PROVE  Kept(r)
<1>1. KnownLinks(r) \subseteq Request /\ KnownCodes(r) \subseteq Request
  BY DEF IInv, TypeOK, RuntimeTypeOK, KnownLinks, KnownCodes
<1>2. ASSUME NEW op \in {"VerifyMagicLink", "VerifyEmailToken"}, NEW link \in KnownLinks(r),
             pc[r] = "new", Receive(r, [NoInput EXCEPT !.op = op, !.cred = link]),
             Proceed(r, "GetToken", Blank)
      PROVE  Kept(r)
  <2> DEFINE request == [NoInput EXCEPT !.op = op, !.cred = link]
  <2>1. request \in Input /\ request.op = op
    BY <1>1 DEF NoInput, Input, AllOps
  <2>2. Fit(r, request, "GetToken", Blank)
    BY <2>1 DEF Fit
  <2>. QED BY <1>2, <2>1, <2>2, FramesTyped, Received
<1>3. ASSUME NEW op \in {"VerifyOTP", "VerifyEmailOTP"}, NEW raw \in RawEmail,
             NEW code \in KnownCodes(r), pc[r] = "new",
             Receive(r, [NoInput EXCEPT !.op = op, !.email = Normalize[raw], !.cred = code]),
             Proceed(r, "GetLatest", Blank)
      PROVE  Kept(r)
  <2> DEFINE request == [NoInput EXCEPT !.op = op, !.email = Normalize[raw], !.cred = code]
  <2>1. request \in Input /\ request.op = op
    BY <1>1, NormalizeAssumption DEF NoInput, Input, AllOps
  <2>2. Fit(r, request, "GetLatest", Blank)
    BY <2>1 DEF Fit
  <2>. QED BY <1>3, <2>1, <2>2, FramesTyped, Received
<1>. QED
  BY <1>2, <1>3 DEF ReceiveVerifyMagicLink, ReceiveVerifyOTP, ReceiveVerifyEmailToken,
                    ReceiveVerifyEmailOTP, Arrives

\* The log-in goes on with an account found by address, or with a new row.
LEMMA FindUserKeeps ==
    ASSUME IInv, NEW r \in Request, FindUser(r)
    PROVE  Kept(r)
<1> DEFINE email == tokens[local[r].token].email
<1>1. pc[r] = "FindUser" /\ pc[r] \in Call /\ Elsewhere(r)
  BY QueryIssued DEF FindUser
<1>2. ASSUME NEW outcome \in Refusal \cup {"ok"}, Answer(r, outcome) PROVE Kept(r)
  BY <1>1, <1>2, Answered
<1>3. /\ local[r].token \in Request /\ tokens[local[r].token] # None
      /\ users'[r] = None /\ sessions'[r] = None /\ tokens'[r] = None
  BY <1>1 DEF IInv, FrameInv, FreshInv, FindUser, NoTable, OnlyUsers
<1>4. ASSUME Proceed(r, "CreateUser", [local[r] EXCEPT !.user = r, !.at = now]) PROVE Kept(r)
  <2> DEFINE frame == [local[r] EXCEPT !.user = r, !.at = now]
  <2>1. frame \in Frame /\ frame.user = r /\ frame.token = local[r].token
    BY FramesTyped DEF Frame
  <2>2. Ready(r, "CreateUser", frame)
    BY <1>3, <2>1 DEF FindUser, Ready
  <2>. QED BY <1>1, <1>4, <2>1, <2>2, Proceeded
<1>5. ASSUME NEW u \in UsersByEmail(email),
             Proceed(r, "SetEmailVerified",
                     [local[r] EXCEPT !.user = u, !.status = users[u].status, !.at = now])
      PROVE  Kept(r)
  <2> DEFINE frame == [local[r] EXCEPT !.user = u, !.status = users[u].status, !.at = now]
  <2>1. u \in Request /\ users[u] # None
    BY DEF UsersByEmail
  <2>2. users[u].status \in UserStatus /\ now \in Nat
    BY <2>1 DEF IInv, TypeOK, StoreTypeOK, UserRow
  <2>3. frame \in Frame /\ frame.user = u
    BY <2>1, <2>2, FramesTyped DEF Frame
  <2>4. Ready(r, "SetEmailVerified", frame)
    BY <1>3, <2>1, <2>3 DEF FindUser, NoTable, Ready
  <2>. QED BY <1>1, <1>5, <2>3, <2>4, Proceeded
<1>. QED
  BY <1>2, <1>4, <1>5 DEF FindUser, QueryFails, Refusal

\* The just-in-time account is new, and has an address nobody had.
LEMMA JITCreateUserKeeps ==
    ASSUME IInv, NEW r \in Request, JITCreateUser(r)
    PROVE  Kept(r)
<1> DEFINE email == tokens[local[r].token].email
           row == NewUser(email, TRUE, NoPassword, NoProfile)
<1>1. pc[r] = "CreateUser" /\ pc[r] \in Call /\ input[r].op \in LogInOps
  BY DEF JITCreateUser
<1>2. local[r].token \in Request /\ tokens[local[r].token] # None /\ local[r].user = r
  BY <1>1 DEF IInv, FrameInv
<1>3. users[r] = None /\ sessions[r] = None /\ tokens[r] = None
  BY <1>1 DEF IInv, FreshInv
<1>4. email \in Address
  BY <1>2 DEF IInv, TypeOK, StoreTypeOK, TokenRow
<1>5. row \in UserRow
  BY <1>4 DEF NewUser, UserRow, UserStatus
<1>6. UsersGrow(r)
  BY <1>3, <1>5, RowAdded, UsersStay DEF IInv, TypeOK, JITCreateUser
<1>7. Elsewhere(r)
  BY <1>6, UsersWritten DEF JITCreateUser
<1>8. ASSUME NEW outcome \in Refusal \cup {"ok"}, Answer(r, outcome) PROVE Kept(r)
  BY <1>1, <1>7, <1>8, Answered
<1>9. ASSUME ~EmailTaken(email), users' = InsertUser(r, row),
             Proceed(r, "CreateSession", local[r])
      PROVE  Kept(r)
  <2>1. users'[r] # None
    BY <1>5, <1>9, RowAssumption DEF IInv, TypeOK, StoreTypeOK, InsertUser, NewUser
  <2>2. Ready(r, "CreateSession", local[r])
    BY <1>1, <1>2, <1>3, <2>1 DEF JITCreateUser, OnlyUsers, Ready
  <2>. QED BY <1>1, <1>7, <1>9, <2>2, FramesTyped, Proceeded
<1>. QED
  BY <1>8, <1>9 DEF JITCreateUser, Unacknowledged, Refusal

\* Marking the address verified keeps the account.
LEMMA LogInSetEmailVerifiedKeeps ==
    ASSUME IInv, NEW r \in Request, LogInSetEmailVerified(r)
    PROVE  Kept(r)
<1>1. pc[r] = "SetEmailVerified" /\ pc[r] \in Call
  BY DEF LogInSetEmailVerified
<1>2. local[r].user \in Request /\ users[local[r].user] # None
  BY <1>1 DEF IInv, FrameInv
<1>3. UsersGrow(r)
  BY <1>2, UserWritten, UsersStay DEF IInv, TypeOK, LogInSetEmailVerified, Discarding
<1>4. Elsewhere(r)
  BY <1>3, UsersWritten DEF LogInSetEmailVerified
<1>5. Ready(r, "IncrementSignInCount", local[r])
  <2>1. users[r] = None /\ sessions[r] = None /\ tokens[r] = None
    BY <1>1 DEF IInv, FreshInv
  <2>2. users'[r] = None
    BY <1>2, <2>1 DEF IInv, TypeOK, StoreTypeOK, LogInSetEmailVerified, SetEmailVerified, Discarding
  <2>. QED BY <1>1, <1>2, <1>3, <2>1, <2>2 DEF LogInSetEmailVerified, OnlyUsers, UsersGrow, Ready
<1>. QED
  BY <1>1, <1>4, <1>5, FramesTyped, Proceeded DEF LogInSetEmailVerified

\* Counting the sign-in keeps the account, whatever its status.
LEMMA LogInIncrementKeeps ==
    ASSUME IInv, NEW r \in Request, LogInIncrement(r)
    PROVE  Kept(r)
<1>1. pc[r] = "IncrementSignInCount" /\ pc[r] \in Call /\ input[r].op \in LogInOps
  BY DEF LogInIncrement
<1>2. local[r].user \in Request /\ users[local[r].user] # None
  BY <1>1 DEF IInv, FrameInv
<1>3. UsersGrow(r)
  BY <1>2, UserWritten, UsersStay DEF IInv, TypeOK, LogInIncrement, Discarding
<1>4. Elsewhere(r)
  BY <1>3, UsersWritten DEF LogInIncrement
<1>5. Ready(r, "CreateSession", local[r])
  BY <1>1, <1>2, <1>3 DEF IInv, FreshInv, LogInIncrement, OnlyUsers, UsersGrow, Ready
<1>. QED
  BY <1>1, <1>4, <1>5, FramesTyped, Answered, Proceeded DEF LogInIncrement, Refusal

-----------------------------------------------------------------------------
\* The token of the background mail is new, and names the account that signed up.
LEMMA WelcomeStoreTokenKeeps ==
    ASSUME IInv, NEW r \in Request, WelcomeStoreToken(r)
    PROVE  Kept(r)
<1> DEFINE row == NewToken(r, input[r].email, "email_verification", r, now, WelcomeTTL)
<1>1. /\ pc[r] = "done" /\ input[r].email \in Address
      /\ users[r] # None /\ tokens[r] = None
  BY DEF IInv, FreshInv, WelcomeStoreToken
<1>2. row \in TokenRow /\ row.user = r /\ ~row.consumed
  BY <1>1, DurationAssumption DEF IInv, TypeOK, StoreTypeOK, NewToken, TokenRow, TokenType
<1>3. TablesGrow(r) /\ Noted(r)
  BY <1>1, <1>2, TokenAdded, TokensStay, UsersStay, SessionsStay, NothingNoted
  DEF IInv, TypeOK, WelcomeStoreToken, TablesGrow
<1>4. RuntimeTypeOK' /\ Others(r)
  BY DEF IInv, TypeOK, RuntimeTypeOK, WelcomeStoreToken, JobState, Others
<1>5. job'[r] \in {"stored", "failed"}
  BY DEF IInv, TypeOK, RuntimeTypeOK, WelcomeStoreToken
<1>6. Own(r)'
  BY <1>1, <1>5 DEF IInv, WelcomeStoreToken, Own, InputInv, FrameInv, FreshInv
<1>. QED
  BY <1>3, <1>4, <1>6 DEF WelcomeStoreToken, Kept, Noted

\* Sending the background mail is harmless.
LEMMA WelcomeMailKeeps ==
    ASSUME IInv, NEW r \in Request, WelcomeMail(r)
    PROVE  Kept(r)
<1>1. pc[r] = "done"
  BY DEF IInv, FreshInv, WelcomeMail
<1>2. TablesGrow(r) /\ Noted(r)
  BY TokensStay, UsersStay, SessionsStay, NothingNoted DEF IInv, TypeOK, WelcomeMail, TablesGrow
<1>3. RuntimeTypeOK' /\ Others(r)
  BY DEF IInv, TypeOK, RuntimeTypeOK, WelcomeMail, JobState, Others
<1>4. job'[r] = "mailed"
  BY DEF IInv, TypeOK, RuntimeTypeOK, WelcomeMail
<1>5. Own(r)'
  BY <1>1, <1>4 DEF IInv, WelcomeMail, Own, InputInv, FrameInv, FreshInv
<1>. QED
  BY <1>2, <1>3, <1>5 DEF WelcomeMail, Kept, Noted

\* Marking the address verified by a verification mail keeps the account.
LEMMA MarkEmailVerifiedKeeps ==
    ASSUME IInv, NEW r \in Request, MarkEmailVerified(r)
    PROVE  Kept(r)
<1>1. pc[r] = "SetEmailVerified" /\ pc[r] \in Call /\ input[r].op \in VerifyEmailOps
  BY DEF MarkEmailVerified
<1>2. /\ local[r].user \in Request /\ users[local[r].user] # None
      /\ users[r] = None /\ sessions[r] = None /\ tokens[r] = None
  BY <1>1 DEF IInv, FrameInv, FreshInv
<1>3. UsersGrow(r)
  BY <1>2, UserWritten, UsersStay DEF IInv, TypeOK, MarkEmailVerified
<1>4. Elsewhere(r)
  BY <1>3, UsersWritten DEF MarkEmailVerified
<1>5. users'[r] = None
  BY <1>2 DEF IInv, TypeOK, StoreTypeOK, MarkEmailVerified, SetEmailVerified
<1>6. Ready(r, "GetById", local[r])
  BY <1>1, <1>2, <1>3, <1>5 DEF MarkEmailVerified, OnlyUsers, UsersGrow, Ready
<1>. QED
  BY <1>1, <1>4, <1>6, FramesTyped, Answered, Proceeded
  DEF MarkEmailVerified, Unacknowledged, Refusal

\* Reading the account back is harmless.
LEMMA VerifyEmailGetByIdKeeps ==
    ASSUME IInv, NEW r \in Request, VerifyEmailGetById(r)
    PROVE  Kept(r)
<1>1. pc[r] \in Call /\ Elsewhere(r)
  BY QueryIssued DEF VerifyEmailGetById
<1>. QED
  BY <1>1, Answered DEF VerifyEmailGetById, QueryFails, Refusal

-----------------------------------------------------------------------------
\* All steps of module Passwordless.
LEMMA PasswordlessStepKeeps ==
    ASSUME IInv, NEW r \in Request, PasswordlessStep(r)
    PROVE  Kept(r)
<1>1. CASE SendMagicLink(r)
  BY <1>1, ReceiveSendKeeps, ReceiveUnreadableKeeps, CheckCooldownKeeps, LinkUserKeeps,
     StoreTokenKeeps, MailTokenKeeps, DurationAssumption DEF SendMagicLink, AllOps
<1>2. CASE SendOTP(r)
  BY <1>2, ReceiveSendKeeps, ReceiveUnreadableKeeps, CheckCooldownKeeps, LinkUserKeeps,
     StoreTokenKeeps, MailTokenKeeps, DurationAssumption DEF SendOTP, AllOps
<1>3. CASE VerifyMagicLink(r)
  BY <1>3, ReceiveVerifyKeeps, ReceiveUnreadableKeeps, LookUpLinkKeeps, ConsumeKeeps
  DEF VerifyMagicLink, AllOps, Refusal
<1>4. CASE VerifyOTP(r)
  BY <1>4, ReceiveVerifyKeeps, ReceiveUnreadableKeeps, LookUpCodeKeeps, CompareCodeKeeps,
     ConsumeKeeps DEF VerifyOTP, AllOps, Refusal
<1>5. CASE LogIn(r)
  BY <1>5, FindUserKeeps, JITCreateUserKeeps, LogInSetEmailVerifiedKeeps, LogInIncrementKeeps,
     CreateSessionKeeps DEF LogIn, LogInCreateSession
<1>. QED
  BY <1>1, <1>2, <1>3, <1>4, <1>5 DEF PasswordlessStep

\* All steps of module EmailVerification.
LEMMA EmailVerificationStepKeeps ==
    ASSUME IInv, NEW r \in Request, EmailVerificationStep(r)
    PROVE  Kept(r)
<1>1. CASE SendEmailVerification(r)
  BY <1>1, WelcomeStoreTokenKeeps, WelcomeMailKeeps DEF SendEmailVerification
<1>2. CASE VerifyEmailToken(r)
  BY <1>2, ReceiveVerifyKeeps, ReceiveUnreadableKeeps, LookUpLinkKeeps, ConsumeKeeps
  DEF VerifyEmailToken, ConsumeEmailToken, AllOps, Refusal
<1>3. CASE VerifyEmailOTP(r)
  BY <1>3, ReceiveVerifyKeeps, ReceiveUnreadableKeeps, LookUpCodeKeeps, CompareCodeKeeps,
     ConsumeKeeps DEF VerifyEmailOTP, ConsumeEmailToken, AllOps, Refusal
<1>4. CASE MarkEmailVerified(r) \/ VerifyEmailGetById(r)
  BY <1>4, MarkEmailVerifiedKeeps, VerifyEmailGetByIdKeeps
<1>. QED
  BY <1>1, <1>2, <1>3, <1>4 DEF EmailVerificationStep
==============================================================================
