---------------------------- MODULE HistoryProofs -----------------------------
(***************************************************************************)
(* What a request was let do agrees with what held when it came in: the    *)
(* invariant of the history, and the properties it contains.               *)
(***************************************************************************)
EXTENDS HistoryInvariant, AuthServiceProofs

\* The lists of calls and endpoints are spelt out throughout.
USE DEF At, Call, AccountCalls, SessionCalls, TokenCalls, PendingCalls, LogInOps, VerifyEmailOps

-----------------------------------------------------------------------------
(* The course of a request: which action leads to which call. *)

\* A step writes this table, or sends a mail, and nothing else.
Writes(table) ==
    /\ table = "users" \/ users' = users
    /\ table = "sessions" \/ sessions' = sessions
    /\ table = "tokens" \/ tokens' = tokens
    /\ table = "mailed" \/ mailed' = mailed

\* Request r arrives, presenting a secret that was mailed if it redeems one.
Arrival(r) ==
    /\ pc[r] = "new" /\ audit'[r] = Observed /\ Cardinality(InFlight) < MaxInFlight
    /\ pc'[r] \in {"done", "CreateUser", "GetByEmail", "GetSession", "GetLatest", "GetToken"}
    /\ pc'[r] = "CreateUser" => input'[r].op = "SignUp"
    /\ pc'[r] # "done" => reply' = reply
    /\ input'[r].op \in LogInOps \cup VerifyEmailOps => input'[r].cred \in mailed \cup {r, None}
    /\ reply'[r] \in {"ok", "session_not_found"} =>
          \/ reply' = reply
          \/ input'[r].cred = None /\ input'[r].op \notin AuthenticatedOps
    /\ reply'[r] \in {"internal", "user_deleted"} => reply' = reply
    /\ Writes("nothing") /\ now' = now /\ job' = job

\* A step of r, at one of these endpoints, answers or goes on with one of these calls.
GoesOn(r, ops, table, calls) ==
    /\ input[r].op \in ops /\ pc[r] \in Call /\ pc'[r] \in calls \cup {"done"}
    /\ reply' = reply \/ (pc'[r] = "done" /\ ErrorGuard(r)')
    /\ input' = input /\ Writes(table)

\* The same, noting nothing in the history and leaving no mail to send.
Quietly(r, ops, table, calls) ==
    GoesOn(r, ops, table, calls) /\ audit' = audit /\ job' = job

\* A body that cannot be read.
LEMMA UnreadableCourse ==
    ASSUME IInv, NEW r \in Request, NEW op \in AllOps, ReceiveUnreadable(r, op)
    PROVE  Arrival(r)
BY DEF IInv, TypeOK, RuntimeTypeOK, ReceiveUnreadable, Arrives, Receive, Answer, NoInput,
       Arrival, Writes

\* Sign-up.
LEMMA SignUpCourse ==
    ASSUME IInv, NEW r \in Request, SignUp(r)
    PROVE  \/ Arrival(r)
           \/ SignUpCreateUser(r) /\ Quietly(r, {"SignUp"}, "users", {"CreateSession"})
           \/ /\ SignUpCreateSession(r) /\ GoesOn(r, {"SignUp"}, "sessions", {})
              /\ audit' = audit /\ (job' = job \/ (reply'[r] = "ok" /\ job'[r] = "queued"))
<1>1. RuntimeTypeOK
  BY DEF IInv, TypeOK
<1>2. CASE ReceiveSignUp(r)
  BY <1>1, <1>2 DEF ReceiveSignUp, Arrives, Receive, NoInput, Answer, Proceed, RuntimeTypeOK,
                    Arrival, Writes
<1>3. CASE SignUpCreateUser(r)
  BY <1>1, <1>3 DEF SignUpCreateUser, OnlyUsers, Unacknowledged, Answer, Proceed, RuntimeTypeOK,
                    Quietly, GoesOn, Writes, ErrorGuard
<1>4. CASE SignUpCreateSession(r)
  BY <1>1, <1>4 DEF SignUpCreateSession, CreateSession, Unacknowledged, Answer, RuntimeTypeOK,
                    GoesOn, Writes, ErrorGuard
<1>. QED
  BY <1>2, <1>3, <1>4, UnreadableCourse DEF SignUp, AllOps

\* Sign-in.
LEMMA SignInCourse ==
    ASSUME IInv, NEW r \in Request, SignIn(r)
    PROVE  \/ Arrival(r)
           \/ SignInGetByEmail(r) /\ Quietly(r, {"SignIn"}, "nothing", {"IncrementSignInCount"})
           \/ SignInIncrement(r) /\ Quietly(r, {"SignIn"}, "users", {"CreateSession"})
           \/ SignInCreateSession(r) /\ Quietly(r, {"SignIn"}, "sessions", {})
<1>1. RuntimeTypeOK
  BY DEF IInv, TypeOK
<1>2. CASE ReceiveSignIn(r)
  BY <1>1, <1>2 DEF ReceiveSignIn, Arrives, Receive, NoInput, Answer, Proceed, RuntimeTypeOK,
                    Arrival, Writes
<1>3. CASE SignInGetByEmail(r)
  BY <1>1, <1>3 DEF SignInGetByEmail, NoTable, OnlyUsers, QueryFails, Answer, Proceed, RuntimeTypeOK,
                    Quietly, GoesOn, Writes, ErrorGuard, MetDeleted, UsersByEmail
<1>4. CASE SignInIncrement(r)
  BY <1>1, <1>4 DEF SignInIncrement, OnlyUsers, Proceed, RuntimeTypeOK, Quietly, GoesOn, Writes
<1>5. CASE SignInCreateSession(r)
  BY <1>1, <1>5 DEF SignInCreateSession, CreateSession, OnlySessions, Unacknowledged, Answer,
                    RuntimeTypeOK, Quietly, GoesOn, Writes, ErrorGuard
<1>. QED
  BY <1>2, <1>3, <1>4, <1>5, UnreadableCourse DEF SignIn, AllOps

\* Sign-out.
LEMMA SignOutCourse ==
    ASSUME IInv, NEW r \in Request, SignOut(r)
    PROVE  \/ Arrival(r)
           \/ SignOutGetSession(r) /\ Quietly(r, {"SignOut"}, "nothing", {"Revoke"})
           \/ SignOutRevoke(r) /\ Quietly(r, {"SignOut"}, "sessions", {})
<1>1. RuntimeTypeOK
  BY DEF IInv, TypeOK
<1>2. CASE ReceiveSignOut(r)
  BY <1>1, <1>2 DEF ReceiveSignOut, Arrives, Receive, NoInput, Answer, Proceed, RuntimeTypeOK,
                    AuthenticatedOps, Arrival, Writes
<1>3. CASE SignOutGetSession(r)
  BY <1>1, <1>3 DEF SignOutGetSession, NoTable, OnlyUsers, QueryFails, Answer, Proceed, RuntimeTypeOK,
                    Quietly, GoesOn, Writes, ErrorGuard
<1>4. CASE SignOutRevoke(r)
  BY <1>1, <1>4 DEF SignOutRevoke, OnlySessions, Unacknowledged, Answer, RuntimeTypeOK, Quietly,
                    GoesOn, Writes, ErrorGuard
<1>. QED
  BY <1>2, <1>3, <1>4 DEF SignOut

\* The arrival of a request behind RequireAuth.
LEMMA AuthenticatedArrival ==
    ASSUME IInv, NEW r \in Request, NEW op \in AuthenticatedOps, ReceiveAuthenticated(r, op)
    PROVE  Arrival(r)
BY DEF IInv, TypeOK, RuntimeTypeOK, ReceiveAuthenticated, AuthenticatedRequest, AuthenticatedOps,
       Arrives, Receive, Answer, Proceed, Arrival, Writes

\* RequireAuth.
LEMMA AuthenticateCourse ==
    ASSUME IInv, NEW r \in Request, Authenticate(r)
    PROVE  \/ AuthGetSession(r) /\ Quietly(r, AuthenticatedOps, "nothing", {"GetUser"})
           \/ AuthGetUser(r) /\ Quietly(r, AuthenticatedOps, "nothing", {"UpdateLastActive"})
           \/ /\ AuthUpdateLastActive(r) /\ GoesOn(r, AuthenticatedOps, "sessions", {"RevokeAll", "GetById"})
              /\ audit' = [audit EXCEPT ![r].who = local[r].user] /\ job' = job
<1>1. RuntimeTypeOK
  BY DEF IInv, TypeOK
<1>2. CASE AuthGetSession(r)
  BY <1>1, <1>2 DEF AuthGetSession, NoTable, OnlyUsers, QueryFails, Answer, Proceed, RuntimeTypeOK,
                    Quietly, GoesOn, Writes, ErrorGuard
<1>3. CASE AuthGetUser(r)
  BY <1>1, <1>3 DEF AuthGetUser, NoTable, OnlyUsers, QueryFails, Answer, Proceed, RuntimeTypeOK,
                    Quietly, GoesOn, Writes, ErrorGuard
<1>4. CASE AuthUpdateLastActive(r)
  BY <1>1, <1>4 DEF AuthUpdateLastActive, Answer, Proceed, RuntimeTypeOK, GoesOn, Writes, ErrorGuard
<1>. QED
  BY <1>2, <1>3, <1>4 DEF Authenticate

\* The endpoints behind it.
LEMMA EndpointCourse ==
    ASSUME IInv, NEW r \in Request,
           GetMe(r) \/ UpdateMe(r) \/ ChangePassword(r) \/ SignOutAll(r)
    PROVE  \/ Arrival(r)
           \/ UpdateMeGetById(r) /\ Quietly(r, {"UpdateMe"}, "nothing", {"Update"})
           \/ UpdateMeUpdate(r) /\ Quietly(r, {"UpdateMe"}, "users", {})
           \/ ChangePasswordGetById(r) /\ Quietly(r, {"ChangePassword"}, "nothing", {"UpdatePassword"})
           \/ /\ ChangePasswordUpdate(r) /\ GoesOn(r, {"ChangePassword"}, "users", {"RevokeAll"})
              /\ audit' = [audit EXCEPT ![r].sessions = ExistingSessions] /\ job' = job
           \/ ChangePasswordRevokeAll(r) /\ Quietly(r, {"ChangePassword"}, "sessions", {})
           \/ SignOutAllRevokeAll(r) /\ Quietly(r, {"SignOutAll"}, "sessions", {})
<1>1. RuntimeTypeOK
  BY DEF IInv, TypeOK
<1>2. CASE UpdateMeGetById(r)
  BY <1>1, <1>2 DEF UpdateMeGetById, NoTable, OnlyUsers, QueryFails, Answer, Proceed, RuntimeTypeOK,
                    Quietly, GoesOn, Writes, ErrorGuard
<1>3. CASE UpdateMeUpdate(r)
  BY <1>1, <1>3 DEF UpdateMeUpdate, OnlyUsers, Unacknowledged, Answer, RuntimeTypeOK, Quietly,
                    GoesOn, Writes, ErrorGuard
<1>4. CASE ChangePasswordGetById(r)
  BY <1>1, <1>4 DEF ChangePasswordGetById, NoTable, OnlyUsers, QueryFails, Answer, Proceed,
                    RuntimeTypeOK, Quietly, GoesOn, Writes, ErrorGuard
<1>5. CASE ChangePasswordUpdate(r)
  BY <1>1, <1>5 DEF ChangePasswordUpdate, Unacknowledged, Answer, Proceed, RuntimeTypeOK, GoesOn,
                    Writes, ErrorGuard
<1>6. CASE ChangePasswordRevokeAll(r)
  BY <1>1, <1>6 DEF ChangePasswordRevokeAll, OnlySessions, Answer, RuntimeTypeOK, Quietly, GoesOn,
                    Writes, ErrorGuard
<1>7. CASE SignOutAllRevokeAll(r)
  BY <1>1, <1>7 DEF SignOutAllRevokeAll, OnlySessions, Unacknowledged, Answer, RuntimeTypeOK,
                    Quietly, GoesOn, Writes, ErrorGuard
<1>. QED
  BY <1>2, <1>3, <1>4, <1>5, <1>6, <1>7, AuthenticatedArrival
  DEF GetMe, UpdateMe, ChangePassword, SignOutAll, AuthenticatedOps

\* The actions by which such a request waits for the cooldown, names the account of
\* its address, and stores the token it is about to mail.
ChecksCooldown(r) == CheckCooldown(r, input[r].op, SentType(input[r].op))

LinksUser(r) == LinkUser(r, input[r].op)

StoresToken(r) ==
    \E ttl \in Nat : StoreToken(r, input[r].op, SentType(input[r].op),
                              IF input[r].op = "SendMagicLink" THEN None ELSE r, ttl)

\* The endpoints that send a link or a code.
LEMMA SendCourse ==
    ASSUME IInv, NEW r \in Request, SendMagicLink(r) \/ SendOTP(r)
    PROVE  \/ Arrival(r)
           \/ ChecksCooldown(r) /\ Quietly(r, SendOps, "nothing", {"LinkUser"})
           \/ LinksUser(r) /\ Quietly(r, SendOps, "nothing", {"CreateToken"})
           \/ StoresToken(r) /\ Quietly(r, SendOps, "tokens", {"Mail"})
           \/ /\ pc[r] = "Mail" /\ mailed' = mailed \cup {r}
              /\ Quietly(r, SendOps, "mailed", {})
<1>1. RuntimeTypeOK
  BY DEF IInv, TypeOK
<1>2. ASSUME NEW op \in SendOps, ReceiveSend(r, op) PROVE Arrival(r)
  BY <1>1, <1>2 DEF ReceiveSend, Arrives, Receive, NoInput, Answer, Proceed, RuntimeTypeOK,
                    AuthenticatedOps, SendOps, Arrival, Writes
<1>3. ASSUME NEW op, NEW type, CheckCooldown(r, op, type)
      PROVE  Quietly(r, {op}, "nothing", {"LinkUser"})
  BY <1>1, <1>3 DEF CheckCooldown, NoTable, OnlyUsers, Answer, Proceed, RuntimeTypeOK, Quietly,
                    GoesOn, Writes, ErrorGuard
<1>4. ASSUME NEW op, LinkUser(r, op)
      PROVE  Quietly(r, {op}, "nothing", {"CreateToken"})
  BY <1>1, <1>4 DEF LinkUser, NoTable, OnlyUsers, Proceed, RuntimeTypeOK, Quietly, GoesOn, Writes
<1>5. ASSUME NEW op, NEW type, NEW code, NEW ttl, StoreToken(r, op, type, code, ttl)
      PROVE  Quietly(r, {op}, "tokens", {"Mail"})
  BY <1>1, <1>5 DEF StoreToken, OnlyTokens, Unacknowledged, Answer, Proceed, RuntimeTypeOK,
                    Quietly, GoesOn, Writes, ErrorGuard
<1>6. ASSUME NEW op, MailToken(r, op)
      PROVE  /\ pc[r] = "Mail" /\ mailed' = mailed \cup {r}
             /\ Quietly(r, {op}, "mailed", {})
  BY <1>1, <1>6 DEF MailToken, Answer, RuntimeTypeOK, Quietly, GoesOn, Writes, ErrorGuard
<1>7. CASE SendMagicLink(r)
  <2>1. /\ CheckCooldown(r, "SendMagicLink", "magic_link") => ChecksCooldown(r)
        /\ LinkUser(r, "SendMagicLink") => LinksUser(r)
        /\ StoreToken(r, "SendMagicLink", "magic_link", None, MagicLinkTTL) => StoresToken(r)
    BY DurationAssumption
    DEF CheckCooldown, LinkUser, StoreToken, ChecksCooldown, LinksUser, StoresToken, SentType
  <2>. QED BY <1>2, <1>3, <1>4, <1>5, <1>6, <1>7, <2>1, UnreadableCourse
           DEF SendMagicLink, AllOps, SendOps, Quietly, GoesOn
<1>8. CASE SendOTP(r)
  <2>1. /\ CheckCooldown(r, "SendOTP", "email_otp") => ChecksCooldown(r)
        /\ LinkUser(r, "SendOTP") => LinksUser(r)
        /\ StoreToken(r, "SendOTP", "email_otp", r, OTPTTL) => StoresToken(r)
    BY DurationAssumption
    DEF CheckCooldown, LinkUser, StoreToken, ChecksCooldown, LinksUser, StoresToken, SentType
  <2>. QED BY <1>2, <1>3, <1>4, <1>5, <1>6, <1>8, <2>1, UnreadableCourse
           DEF SendOTP, AllOps, SendOps, Quietly, GoesOn
<1>. QED
  BY <1>7, <1>8

\* The arrival of a request that redeems a link or a code.
LEMMA VerifyArrival ==
    ASSUME IInv, NEW r \in Request,
           \/ ReceiveVerifyMagicLink(r) \/ ReceiveVerifyOTP(r)
           \/ ReceiveVerifyEmailToken(r) \/ ReceiveVerifyEmailOTP(r)
    PROVE  Arrival(r)
<1>1. RuntimeTypeOK
  BY DEF IInv, TypeOK
<1>2. ASSUME NEW op, NEW link \in KnownLinks(r), pc[r] = "new", Cardinality(InFlight) < MaxInFlight,
             Receive(r, [NoInput EXCEPT !.op = op, !.cred = link]), Proceed(r, "GetToken", Blank)
      PROVE  Arrival(r)
  BY <1>1, <1>2 DEF Receive, Proceed, NoInput, KnownLinks, RuntimeTypeOK, Arrival, Writes
<1>3. ASSUME NEW op, NEW email, NEW code \in KnownCodes(r), pc[r] = "new",
             Cardinality(InFlight) < MaxInFlight,
             Receive(r, [NoInput EXCEPT !.op = op, !.email = email, !.cred = code]),
             Proceed(r, "GetLatest", Blank)
      PROVE  Arrival(r)
  BY <1>1, <1>3 DEF Receive, Proceed, NoInput, KnownCodes, RuntimeTypeOK, Arrival, Writes
<1>. QED
  BY <1>2, <1>3 DEF ReceiveVerifyMagicLink, ReceiveVerifyOTP, ReceiveVerifyEmailToken,
                    ReceiveVerifyEmailOTP, Arrives

\* The endpoints that redeem a token by its link.
LinkOps == {"VerifyMagicLink", "VerifyEmailToken"}

\* The actions by which a request finds, tries and consumes the token it redeems.
FindsLink(r) ==
    \E onFault \in Refusal \ {"user_deleted"} :
        LookUpLink(r, input[r].op, Redeemed(input[r].op), onFault)

FindsCode(r) ==
    \E onFault \in Refusal \ {"user_deleted"} :
        LookUpCode(r, input[r].op, Redeemed(input[r].op), onFault)

ComparesCode(r) == CompareCode(r, input[r].op)

LogsIn(r) == Consume(r, input[r].op, "FindUser", local[r])

ProvesEmail(r) == ConsumeEmailToken(r, input[r].op)

\* The endpoints that redeem one, up to the token's consumption.
LEMMA VerifyCourse ==
    ASSUME IInv, NEW r \in Request,
           VerifyMagicLink(r) \/ VerifyOTP(r) \/ VerifyEmailToken(r) \/ VerifyEmailOTP(r)
    PROVE  \/ Arrival(r)
           \/ FindsLink(r) /\ Quietly(r, LinkOps, "nothing", {"MarkConsumed"})
           \/ FindsCode(r) /\ Quietly(r, CodeOps, "nothing", {"IncrementAttempts"})
           \/ /\ ComparesCode(r) /\ GoesOn(r, CodeOps, "tokens", {"MarkConsumed"})
              /\ audit' = [audit EXCEPT ![r].tried = local[r].token] /\ job' = job
           \/ /\ LogsIn(r) /\ GoesOn(r, LogInOps, "tokens", {"FindUser"}) /\ job' = job
              /\ audit' = audit \/ audit' = [audit EXCEPT ![r].consumed = local[r].token]
           \/ /\ ProvesEmail(r) /\ GoesOn(r, VerifyEmailOps, "tokens", {"SetEmailVerified"}) /\ job' = job
              /\ audit' = audit \/ audit' = [audit EXCEPT ![r].consumed = local[r].token]
<1>1. RuntimeTypeOK
  BY DEF IInv, TypeOK
<1>2. ASSUME NEW op, NEW type, NEW onFault \in Refusal \ {"user_deleted"},
             LookUpLink(r, op, type, onFault)
      PROVE  Quietly(r, {op}, "nothing", {"MarkConsumed"})
  BY <1>1, <1>2 DEF LookUpLink, NoTable, OnlyUsers, Answer, Proceed, RuntimeTypeOK, Quietly,
                    GoesOn, Writes, ErrorGuard
<1>3. ASSUME NEW op, NEW type, NEW onFault \in Refusal \ {"user_deleted"},
             LookUpCode(r, op, type, onFault)
      PROVE  Quietly(r, {op}, "nothing", {"IncrementAttempts"})
  BY <1>1, <1>3 DEF LookUpCode, NoTable, OnlyUsers, Answer, Proceed, RuntimeTypeOK, Quietly,
                    GoesOn, Writes, ErrorGuard
<1>4. ASSUME NEW op, CompareCode(r, op)
      PROVE  /\ GoesOn(r, {op}, "tokens", {"MarkConsumed"}) /\ job' = job
             /\ audit' = [audit EXCEPT ![r].tried = local[r].token]
  BY <1>1, <1>4 DEF CompareCode, Answer, Proceed, RuntimeTypeOK, GoesOn, Writes, ErrorGuard
<1>5. ASSUME NEW op, NEW next, NEW frame, Consume(r, op, next, frame)
      PROVE  /\ GoesOn(r, {op}, "tokens", {next}) /\ job' = job
             /\ audit' = audit \/ audit' = [audit EXCEPT ![r].consumed = local[r].token]
  BY <1>1, <1>5 DEF Consume, Unacknowledged, Answer, Proceed, RuntimeTypeOK, GoesOn, Writes,
                    ErrorGuard
<1>6. {"token_not_found", "internal"} \subseteq Refusal \ {"user_deleted"}
  BY DEF Refusal
<1>7. CASE VerifyMagicLink(r)
  BY <1>2, <1>5, <1>6, <1>7, VerifyArrival, UnreadableCourse
  DEF VerifyMagicLink, AllOps, LinkOps, Quietly, GoesOn, Redeemed, FindsLink, LogsIn
<1>8. CASE VerifyOTP(r)
  <2>1. CASE ReceiveVerifyOTP(r) \/ ReceiveUnreadable(r, "VerifyOTP")
    BY <2>1, VerifyArrival, UnreadableCourse DEF AllOps
  <2>2. CASE LookUpCode(r, "VerifyOTP", "email_otp", "token_not_found")
    BY <1>3, <1>6, <2>2 DEF CodeOps, Quietly, GoesOn, Redeemed, FindsCode
  <2>3. CASE CompareCode(r, "VerifyOTP")
    BY <1>4, <2>3 DEF CodeOps, GoesOn, ComparesCode
  <2>4. CASE Consume(r, "VerifyOTP", "FindUser", local[r])
    BY <1>5, <2>4 DEF GoesOn, LogsIn
  <2>. QED BY <1>8, <2>1, <2>2, <2>3, <2>4 DEF VerifyOTP
<1>9. CASE VerifyEmailToken(r)
  BY <1>2, <1>5, <1>6, <1>9, VerifyArrival, UnreadableCourse
  DEF VerifyEmailToken, ConsumeEmailToken, AllOps, LinkOps, Quietly, GoesOn, Redeemed, FindsLink,
      ProvesEmail
<1>10. CASE VerifyEmailOTP(r)
  BY <1>3, <1>4, <1>5, <1>6, <1>10, VerifyArrival, UnreadableCourse
  DEF VerifyEmailOTP, ConsumeEmailToken, AllOps, CodeOps, Quietly, GoesOn, Redeemed, FindsCode,
      ComparesCode, ProvesEmail
<1>. QED
  BY <1>7, <1>8, <1>9, <1>10

\* The log-in that follows.
LEMMA LogInCourse ==
    ASSUME IInv, NEW r \in Request, LogIn(r)
    PROVE  \/ FindUser(r) /\ Quietly(r, LogInOps, "nothing", {"CreateUser", "SetEmailVerified"})
           \/ JITCreateUser(r) /\ Quietly(r, LogInOps, "users", {"CreateSession"})
           \/ LogInSetEmailVerified(r) /\ Quietly(r, LogInOps, "users", {"IncrementSignInCount"})
           \/ LogInIncrement(r) /\ Quietly(r, LogInOps, "users", {"CreateSession"})
           \/ LogInCreateSession(r) /\ Quietly(r, LogInOps, "sessions", {})
<1>1. RuntimeTypeOK
  BY DEF IInv, TypeOK
<1>2. CASE FindUser(r)
  BY <1>1, <1>2 DEF FindUser, NoTable, OnlyUsers, QueryFails, Answer, Proceed, RuntimeTypeOK,
                    Quietly, GoesOn, Writes, ErrorGuard
<1>3. CASE JITCreateUser(r)
  BY <1>1, <1>3 DEF JITCreateUser, OnlyUsers, Unacknowledged, Answer, Proceed, RuntimeTypeOK,
                    Quietly, GoesOn, Writes, ErrorGuard
<1>4. CASE LogInSetEmailVerified(r)
  BY <1>1, <1>4 DEF LogInSetEmailVerified, OnlyUsers, Proceed, RuntimeTypeOK, Quietly, GoesOn, Writes
<1>5. CASE LogInIncrement(r)
  BY <1>1, <1>5 DEF LogInIncrement, OnlyUsers, Answer, Proceed, RuntimeTypeOK, Quietly, GoesOn,
                    Writes, ErrorGuard
<1>6. CASE LogInCreateSession(r)
  BY <1>1, <1>6 DEF LogInCreateSession, CreateSession, OnlySessions, Unacknowledged, Answer,
                    RuntimeTypeOK, Quietly, GoesOn, Writes, ErrorGuard
<1>. QED
  BY <1>2, <1>3, <1>4, <1>5, <1>6 DEF LogIn

\* The end of an e-mail verification.
LEMMA EmailCourse ==
    ASSUME IInv, NEW r \in Request, MarkEmailVerified(r) \/ VerifyEmailGetById(r)
    PROVE  \/ MarkEmailVerified(r) /\ Quietly(r, VerifyEmailOps, "users", {"GetById"})
           \/ VerifyEmailGetById(r) /\ Quietly(r, VerifyEmailOps, "nothing", {})
<1>1. RuntimeTypeOK
  BY DEF IInv, TypeOK
<1>2. CASE MarkEmailVerified(r)
  BY <1>1, <1>2 DEF MarkEmailVerified, OnlyUsers, Unacknowledged, Answer, Proceed, RuntimeTypeOK,
                    Quietly, GoesOn, Writes, ErrorGuard
<1>3. CASE VerifyEmailGetById(r)
  BY <1>1, <1>3 DEF VerifyEmailGetById, NoTable, OnlyUsers, QueryFails, Answer, RuntimeTypeOK,
                    Quietly, GoesOn, Writes, ErrorGuard
<1>. QED
  BY <1>2, <1>3

\* The background mail of a sign-up runs after the answer and touches nothing of it.
LEMMA WelcomeCourse ==
    ASSUME IInv, NEW r \in Request, SendEmailVerification(r)
    PROVE  /\ pc[r] = "done" /\ UNCHANGED <<users, sessions, now, pc, input, local, reply, audit>>
           /\ \/ WelcomeStoreToken(r) /\ mailed' = mailed /\ job'[r] \in {"stored", "failed"}
              \/ /\ WelcomeMail(r) /\ tokens' = tokens /\ job[r] = "stored"
                 /\ mailed' = mailed \cup {r} /\ job'[r] = "mailed"
<1>1. RuntimeTypeOK /\ FreshInv(r)
  BY DEF IInv, TypeOK
<1>. QED
  BY <1>1 DEF SendEmailVerification, WelcomeStoreToken, WelcomeMail, RuntimeTypeOK, FreshInv

-----------------------------------------------------------------------------
(* The same read backwards: which action a change is due to. *)

\* Which action leads to a call.
Leads(r) ==
    /\ pc'[r] \notin {"new", "GetLatest"}
    /\ pc'[r] = "LinkUser" => ChecksCooldown(r) /\ input[r].op \in SendOps
    /\ pc'[r] = "CreateToken" => LinksUser(r) /\ input[r].op \in SendOps
    /\ pc'[r] = "GetUser" => AuthGetSession(r)
    /\ pc'[r] = "UpdateLastActive" => AuthGetUser(r)
    /\ pc'[r] = "RevokeAll" => AuthUpdateLastActive(r) \/ ChangePasswordUpdate(r)
    /\ pc'[r] = "GetById" => AuthUpdateLastActive(r) \/ MarkEmailVerified(r)
    /\ pc'[r] = "UpdatePassword" => ChangePasswordGetById(r)
    /\ pc'[r] = "Mail" => StoresToken(r) /\ input[r].op \in SendOps
    /\ pc'[r] = "IncrementAttempts" => FindsCode(r) /\ input[r].op \in CodeOps
    /\ pc'[r] = "MarkConsumed" =>
          (FindsLink(r) /\ input[r].op \in LinkOps) \/ (ComparesCode(r) /\ input[r].op \in CodeOps)
    /\ pc'[r] = "FindUser" => LogsIn(r) /\ input[r].op \in LogInOps
    /\ pc'[r] = "CreateUser" => FindUser(r)
    /\ pc'[r] = "SetEmailVerified" =>
          FindUser(r) \/ (ProvesEmail(r) /\ input[r].op \in VerifyEmailOps)
    /\ pc'[r] = "IncrementSignInCount" => SignInGetByEmail(r) \/ LogInSetEmailVerified(r)
    /\ pc'[r] = "CreateSession" =>
          SignUpCreateUser(r) \/ SignInIncrement(r) \/ JITCreateUser(r) \/ LogInIncrement(r)

\* Which action writes in the history, and what.
Notes(r) ==
    /\ audit'[r].dead = audit[r].dead /\ audit'[r].spent = audit[r].spent
    /\ audit'[r].exhausted = audit[r].exhausted /\ audit'[r].inactive = audit[r].inactive
    /\ \/ audit'[r].sessions = audit[r].sessions
       \/ ChangePasswordUpdate(r) /\ audit'[r].sessions = ExistingSessions
    /\ \/ audit'[r].who = audit[r].who
       \/ AuthUpdateLastActive(r) /\ audit'[r].who = local[r].user
    /\ \/ audit'[r].consumed = audit[r].consumed
       \/ (LogsIn(r) \/ ProvesEmail(r)) /\ audit'[r].consumed = local[r].token
    /\ \/ audit'[r].tried = audit[r].tried
       \/ ComparesCode(r) /\ audit'[r].tried = local[r].token

\* Which actions write a table, or send a mail.
Changes(r) ==
    /\ \/ users' = users
       \/ SignUpCreateUser(r) \/ SignInIncrement(r) \/ UpdateMeUpdate(r) \/ ChangePasswordUpdate(r)
       \/ JITCreateUser(r) \/ LogInSetEmailVerified(r) \/ LogInIncrement(r) \/ MarkEmailVerified(r)
    /\ \/ sessions' = sessions
       \/ SignUpCreateSession(r) \/ SignInCreateSession(r) \/ LogInCreateSession(r)
       \/ AuthUpdateLastActive(r) \/ SignOutRevoke(r)
       \/ ChangePasswordRevokeAll(r) \/ SignOutAllRevokeAll(r)
    /\ \/ tokens' = tokens
       \/ (StoresToken(r) /\ input[r].op \in SendOps) \/ ComparesCode(r) \/ LogsIn(r) \/ ProvesEmail(r) \/ WelcomeStoreToken(r)
    /\ \/ mailed' = mailed
       \/ (pc[r] = "Mail" \/ job[r] = "stored") /\ mailed' = mailed \cup {r}
    /\ job'[r] = "queued" => job[r] = "queued" \/ (SignUpCreateSession(r) /\ reply'[r] = "ok")
    /\ job'[r] = "stored" => job[r] = "stored" \/ WelcomeStoreToken(r)

\* Which actions may answer, at the endpoints whose answer promises something.
Answers(r) ==
    /\ reply' = reply \/ (pc'[r] = "done" /\ ErrorGuard(r)')
    /\ input[r].op = "SignOut" => reply' = reply \/ SignOutGetSession(r) \/ SignOutRevoke(r)
    /\ input[r].op = "SignOutAll" =>
          \/ reply' = reply \/ AuthGetSession(r) \/ AuthGetUser(r) \/ AuthUpdateLastActive(r)
          \/ SignOutAllRevokeAll(r)
    /\ input[r].op = "ChangePassword" =>
          \/ reply' = reply \/ AuthGetSession(r) \/ AuthGetUser(r) \/ AuthUpdateLastActive(r)
          \/ ChangePasswordGetById(r) \/ ChangePasswordUpdate(r) \/ ChangePasswordRevokeAll(r)

\* A step of r after its arrival.  Once answered, only its background mail runs.
Continues(r) ==
    /\ pc[r] \in Call \cup {"done"} /\ input' = input
    /\ pc[r] = "done" => UNCHANGED <<users, sessions, pc, local, reply, audit>>
    /\ Leads(r) /\ Notes(r) /\ Changes(r) /\ Answers(r)

\* Every step of a request is its arrival or continues it.
LEMMA StepLeads ==
    ASSUME IInv, NEW r \in Request, Step(r)
    PROVE  Arrival(r) \/ Continues(r)
<1>1. audit \in [Request -> Audit] /\ audit[r] \in Audit
  BY DEF IInv, TypeOK, RuntimeTypeOK
<1>2. audit' = audit => Notes(r)
  BY DEF Notes
<1>3. /\ audit' = [audit EXCEPT ![r].who = local[r].user] /\ AuthUpdateLastActive(r) => Notes(r)
      /\ audit' = [audit EXCEPT ![r].sessions = ExistingSessions] /\ ChangePasswordUpdate(r) =>
            Notes(r)
      /\ audit' = [audit EXCEPT ![r].tried = local[r].token] /\ ComparesCode(r) => Notes(r)
      /\ audit' = [audit EXCEPT ![r].consumed = local[r].token]
            /\ (LogsIn(r) \/ ProvesEmail(r)) => Notes(r)
  BY <1>1 DEF Notes, Audit
<1>4. CASE SignUp(r)
  BY <1>2, <1>4, SignUpCourse DEF Quietly, GoesOn, Writes, Continues, Leads, Changes, Answers
<1>5. CASE SignIn(r)
  BY <1>2, <1>5, SignInCourse DEF Quietly, GoesOn, Writes, Continues, Leads, Changes, Answers
<1>6. CASE SignOut(r)
  BY <1>2, <1>6, SignOutCourse DEF Quietly, GoesOn, Writes, Continues, Leads, Changes, Answers
<1>7. CASE Authenticate(r)
  BY <1>2, <1>3, <1>7, AuthenticateCourse
  DEF AuthenticatedOps, Quietly, GoesOn, Writes, Continues, Leads, Changes, Answers
<1>8. CASE GetMe(r) \/ UpdateMe(r) \/ ChangePassword(r) \/ SignOutAll(r)
  BY <1>2, <1>3, <1>8, EndpointCourse
  DEF Quietly, GoesOn, Writes, Continues, Leads, Changes, Answers
<1>9. CASE SendMagicLink(r) \/ SendOTP(r)
  BY <1>2, <1>9, SendCourse DEF SendOps, Quietly, GoesOn, Writes, Continues, Leads, Changes, Answers
<1>10. CASE VerifyMagicLink(r) \/ VerifyOTP(r) \/ VerifyEmailToken(r) \/ VerifyEmailOTP(r)
  BY <1>2, <1>3, <1>10, VerifyCourse
  DEF LinkOps, CodeOps, Quietly, GoesOn, Writes, Continues, Leads, Changes, Answers
<1>11. CASE LogIn(r)
  BY <1>2, <1>11, LogInCourse DEF Quietly, GoesOn, Writes, Continues, Leads, Changes, Answers
<1>12. CASE MarkEmailVerified(r) \/ VerifyEmailGetById(r)
  BY <1>2, <1>12, EmailCourse DEF Quietly, GoesOn, Writes, Continues, Leads, Changes, Answers
<1>13. CASE SendEmailVerification(r)
  BY <1>2, <1>13, WelcomeCourse DEF Continues, Leads, Changes, Answers
<1>. QED
  BY <1>4, <1>5, <1>6, <1>7, <1>8, <1>9, <1>10, <1>11, <1>12, <1>13
  DEF Step, PasswordSessionsStep, PasswordlessStep, EmailVerificationStep

-----------------------------------------------------------------------------
(* What the others do meanwhile. *)

\* The tables grow and time passes.
Onward ==
    /\ \E r \in Request : TablesGrow(r)
    /\ now \in Nat /\ now' \in Nat /\ now' >= now /\ mailed \subseteq mailed'

\* A step that is not one of request q inserts no row of its name, sends no mail of
\* its, and leaves its goroutine alone unless the process dies.
Undisturbed(q) ==
    /\ Onward
    /\ users'[q] # None => users[q] # None
    /\ sessions'[q] # None => sessions[q] # None
    /\ tokens'[q] # None => tokens[q] # None
    /\ q \in mailed' => q \in mailed
    /\ input'[q] = input[q] /\ reply'[q] = reply[q] /\ audit'[q] = audit[q]
    /\ job'[q] = job[q] \/ job'[q] = "lost"
    /\ (pc'[q] = pc[q] /\ local'[q] = local[q]) \/ pc'[q] = "lost"

\* A step that writes no table lets the tables grow.
LEMMA TablesStay ==
    ASSUME IInv, NEW r \in Request, UNCHANGED <<users, sessions, tokens>>
    PROVE  TablesGrow(r)
BY UsersStay, SessionsStay, TokensStay DEF IInv, TypeOK, TablesGrow

\* Every step of the system leaves request q alone or is one of its own.
LEMMA OwnStepOrNot ==
    ASSUME IInv, [Next]_vars, NEW q \in Request
    PROVE  Undisturbed(q) \/ (Step(q) /\ Kept(q))
<1>1. now \in Nat
  BY DEF IInv, TypeOK, StoreTypeOK
<1>2. CASE Tick
  BY <1>1, <1>2, TablesStay DEF Tick, runtime, Undisturbed, Onward
<1>3. CASE Crash
  BY <1>1, <1>3, TablesStay DEF Crash, Undisturbed, Onward
<1>4. ASSUME NEW u \in Request, Suspend(u) PROVE Undisturbed(q)
  <2>1. UNCHANGED <<sessions, tokens, now, pc, input, local, reply, job, mailed, audit>>
    BY <1>4 DEF Suspend, runtime
  <2>. QED BY <1>1, <1>4, <2>1, SuspendGrows DEF Undisturbed, Onward
<1>5. ASSUME NEW r \in Request, r # q, Step(r) PROVE Undisturbed(q)
  <2>1. Kept(r)
    BY <1>5, StepKeeps
  <2>2. q \in mailed' => q \in mailed
    BY <1>5, StepLeads DEF Arrival, Writes, Continues, Changes
  <2>. QED BY <1>1, <1>5, <2>1, <2>2
           DEF Kept, Others, TablesGrow, UsersGrow, SessionsGrow, TokensGrow, Undisturbed, Onward
<1>6. CASE UNCHANGED vars
  BY <1>1, <1>6, TablesStay DEF vars, Undisturbed, Onward
<1>. QED
  BY <1>2, <1>3, <1>4, <1>5, <1>6, StepKeeps DEF Next, Environment

-----------------------------------------------------------------------------
(* What every step, of q or not, preserves of what the invariant says of q. *)

\* What may happen to request q in one step.
Course(q) == Undisturbed(q) \/ (Kept(q) /\ (Arrival(q) \/ Continues(q)))

\* Whatever happens to a request, the tables grow.
LEMMA CourseIsOnward ==
    ASSUME IInv, NEW q \in Request, Course(q)
    PROVE  Onward /\ now \in Nat /\ StoreTypeOK /\ RuntimeTypeOK
BY DEF IInv, TypeOK, StoreTypeOK, Course, Undisturbed, Kept, Onward

\* What was over when a request came in stays over.
LEMMA SnapshotKept ==
    ASSUME IInv, HistoryInv, NEW q \in Request, Course(q)
    PROVE  SnapshotInv(q)'
<1>1. Onward /\ StoreTypeOK /\ RuntimeTypeOK /\ SnapshotInv(q) /\ FreshInv(q)
  BY CourseIsOnward DEF IInv, HistoryInv, HistoryOf
<1>2. CASE Arrival(q)
  <2>1. users[q] = None
    BY <1>1, <1>2 DEF Arrival, FreshInv
  <2>. QED BY <1>2, <2>1 DEF Arrival, Writes, Observed, NoAudit, ExistingSessions, SnapshotInv
<1>3. CASE Undisturbed(q) \/ Continues(q)
  <2>1. /\ audit'[q].dead = audit[q].dead /\ audit'[q].spent = audit[q].spent
        /\ audit'[q].exhausted = audit[q].exhausted /\ audit'[q].inactive = audit[q].inactive
        /\ audit'[q].sessions \in {audit[q].sessions, ExistingSessions}
    BY <1>3 DEF Undisturbed, Continues, Notes
  <2>2. /\ audit[q].dead \subseteq Request /\ audit[q].spent \subseteq Request
        /\ audit[q].exhausted \subseteq Request /\ audit[q].inactive \subseteq Request
        /\ audit[q].sessions \subseteq Request
    BY <1>1 DEF RuntimeTypeOK, Audit
  <2>3. \A u \in audit[q].inactive : users'[u] # None /\ users'[u].status # "active"
    BY <1>1, <2>2 DEF SnapshotInv, Onward, TablesGrow, UsersGrow
  <2>4. \A s \in audit[q].sessions \cup ExistingSessions : sessions'[s] # None
    BY <1>1, <2>2 DEF SnapshotInv, ExistingSessions, Onward, TablesGrow, SessionsGrow
  <2>5. \A s \in audit[q].dead :
            sessions'[s] # None /\ (sessions'[s].revoked \/ now' >= sessions'[s].expires)
    <3> SUFFICES ASSUME NEW s \in audit[q].dead
                 PROVE  sessions'[s] # None /\ (sessions'[s].revoked \/ now' >= sessions'[s].expires)
      OBVIOUS
    <3>1. sessions[s] # None /\ (sessions[s].revoked \/ now >= sessions[s].expires)
      BY <1>1 DEF SnapshotInv
    <3>2. /\ sessions'[s] # None /\ sessions'[s].expires = sessions[s].expires
          /\ sessions[s].revoked => sessions'[s].revoked
      BY <1>1, <2>2, <3>1 DEF Onward, TablesGrow, SessionsGrow
    <3>3. sessions[s].expires \in Nat
      BY <1>1, <2>2, <3>1 DEF StoreTypeOK, SessionRow
    <3>4. now >= sessions[s].expires => now' >= sessions'[s].expires
      BY <1>1, <3>2, <3>3 DEF Onward
    <3>. QED BY <3>1, <3>2, <3>4
  <2>6. \A t \in audit[q].spent :
            tokens'[t] # None /\ (tokens'[t].consumed \/ now' > tokens'[t].expires)
    <3> SUFFICES ASSUME NEW t \in audit[q].spent
                 PROVE  tokens'[t] # None /\ (tokens'[t].consumed \/ now' > tokens'[t].expires)
      OBVIOUS
    <3>1. tokens[t] # None /\ (tokens[t].consumed \/ now > tokens[t].expires)
      BY <1>1 DEF SnapshotInv
    <3>2. /\ tokens'[t] # None /\ tokens'[t].expires = tokens[t].expires
          /\ tokens[t].consumed => tokens'[t].consumed
      BY <1>1, <2>2, <3>1 DEF Onward, TablesGrow, TokensGrow
    <3>3. tokens[t].expires \in Nat
      BY <1>1, <2>2, <3>1 DEF StoreTypeOK, TokenRow
    <3>4. now > tokens[t].expires => now' > tokens'[t].expires
      BY <1>1, <3>2, <3>3 DEF Onward
    <3>. QED BY <3>1, <3>2, <3>4
  <2>7. \A t \in audit[q].exhausted : tokens'[t] # None /\ tokens'[t].attempts >= MaxAttempts
    <3> SUFFICES ASSUME NEW t \in audit[q].exhausted
                 PROVE  tokens'[t] # None /\ tokens'[t].attempts >= MaxAttempts
      OBVIOUS
    <3>1. tokens[t] # None /\ tokens[t].attempts >= MaxAttempts
      BY <1>1 DEF SnapshotInv
    <3>2. tokens'[t] # None /\ tokens'[t].attempts >= tokens[t].attempts
      BY <1>1, <2>2, <3>1 DEF Onward, TablesGrow, TokensGrow
    <3>3. tokens[t].attempts \in Nat /\ tokens'[t].attempts \in Nat
      BY <1>1, <2>2, <3>1, <3>2 DEF StoreTypeOK, TokenRow, Onward, TablesGrow, TokensGrow
    <3>. QED BY <3>1, <3>2, <3>3, MaxAttemptsAssumption
  <2>. QED BY <1>1, <2>1, <2>3, <2>4, <2>5, <2>6, <2>7 DEF SnapshotInv
<1>. QED
  BY <1>2, <1>3 DEF Course

\* RequireAuth goes on with a session that was alive on arrival: the row it read
\* was neither revoked nor expired, and what is dead stays so.
LEMMA SessionGuardKept ==
    ASSUME IInv, HistoryInv, NEW q \in Request, Course(q)
    PROVE  SessionGuard(q)'
<1>1. RuntimeTypeOK /\ StoreTypeOK /\ SnapshotInv(q) /\ SessionGuard(q)
  BY CourseIsOnward DEF HistoryInv, HistoryOf
<1>2. CASE Arrival(q)
  BY <1>2 DEF Arrival, Observed, NoAudit, SessionGuard
<1>3. CASE Undisturbed(q)
  BY <1>1, <1>3 DEF Undisturbed, SessionGuard
<1>4. CASE Continues(q)
  <2>1. audit'[q].dead = audit[q].dead /\ input'[q] = input[q]
    BY <1>4 DEF Continues, Notes
  <2>2. pc'[q] = "GetUser" => input[q].cred \notin audit[q].dead
    <3> SUFFICES ASSUME pc'[q] = "GetUser", input[q].cred \in audit[q].dead PROVE FALSE
      OBVIOUS
    <3>1. AuthGetSession(q)
      BY <1>4 DEF Continues, Leads
    <3>2. PICK s \in LiveSessions(input[q].cred) : SessionIsValid(s)
      BY <1>1, <3>1 DEF AuthGetSession, QueryFails, Answer, RuntimeTypeOK
    <3>3. s = input[q].cred /\ s \in Request /\ ~sessions[s].revoked /\ now < sessions[s].expires
      BY <3>2 DEF LiveSessions, SessionIsValid
    <3>4. sessions[s] # None /\ now >= sessions[s].expires
      BY <1>1, <3>3 DEF SnapshotInv
    <3>5. sessions[s].expires \in Nat /\ now \in Nat
      BY <1>1, <3>3, <3>4 DEF StoreTypeOK, SessionRow
    <3>. QED BY <3>3, <3>4, <3>5
  <2>3. pc'[q] = "UpdateLastActive" => input[q].cred \notin audit[q].dead
    BY <1>1, <1>4 DEF Continues, Leads, AuthGetUser, SessionGuard
  <2>4. audit'[q].who # None => input[q].cred \notin audit[q].dead
    BY <1>1, <1>4 DEF Continues, Notes, AuthUpdateLastActive, SessionGuard
  <2>. QED BY <2>1, <2>2, <2>3, <2>4 DEF SessionGuard
<1>. QED
  BY <1>2, <1>3, <1>4 DEF Course

\* A session is opened by the INSERT that ends a log-in, for the account at hand.
LEMMA SessionOpened ==
    ASSUME IInv, NEW r \in Request, Continues(r), sessions[r] = None, sessions'[r] # None
    PROVE  /\ pc[r] = "CreateSession" /\ input[r].op \in {"SignUp", "SignIn"} \cup LogInOps
           /\ sessions'[r].user = local[r].user
<1>1. StoreTypeOK /\ RuntimeTypeOK /\ FrameInv(r)
  BY DEF IInv, TypeOK
<1>2. CASE SignUpCreateSession(r) \/ SignInCreateSession(r) \/ LogInCreateSession(r)
  <2>1. /\ pc[r] = "CreateSession" /\ input[r].op \in {"SignUp", "SignIn"} \cup LogInOps
        /\ sessions' = InsertSession(r, local[r].user, local[r].at)
    BY <1>2 DEF SignUpCreateSession, SignInCreateSession, LogInCreateSession, CreateSession
  <2>. QED BY <1>1, <2>1 DEF StoreTypeOK, InsertSession
<1>3. CASE AuthUpdateLastActive(r) \/ SignOutRevoke(r)
  <2>1. input[r].cred \in Request /\ sessions[input[r].cred] # None
    BY <1>1, <1>3 DEF AuthUpdateLastActive, SignOutRevoke, FrameInv
  <2>2. sessions' = sessions \/ sessions' = RevokeSession(input[r].cred)
        \/ sessions' = UpdateLastActive(input[r].cred)
    BY <1>3 DEF AuthUpdateLastActive, SignOutRevoke, Discarding
  <2>. QED BY <1>1, <2>1, <2>2 DEF StoreTypeOK, RevokeSession, UpdateLastActive
<1>4. CASE ChangePasswordRevokeAll(r) \/ SignOutAllRevokeAll(r)
  BY <1>1, <1>4 DEF ChangePasswordRevokeAll, SignOutAllRevokeAll, Discarding, RevokeAllByUserID
<1>. QED
  BY <1>2, <1>3, <1>4 DEF Continues, Changes

\* An account that was not active on arrival is let in nowhere: its status was
\* read after that, or the account is new.
LEMMA AccountGuardKept ==
    ASSUME IInv, HistoryInv, NEW q \in Request, Course(q)
    PROVE  AccountGuard(q)'
<1>1. /\ RuntimeTypeOK /\ StoreTypeOK /\ SnapshotInv(q) /\ AccountGuard(q)
      /\ FrameInv(q) /\ FreshInv(q) /\ Onward
  BY CourseIsOnward DEF IInv, HistoryInv, HistoryOf
<1>2. audit[q].inactive \subseteq Request
  BY <1>1 DEF RuntimeTypeOK, Audit
<1>3. CASE Arrival(q)
  <2>1. sessions'[q] = None /\ audit'[q].who = None /\ audit'[q].inactive \subseteq Request
    BY <1>1, <1>3 DEF Arrival, Writes, Observed, NoAudit, FreshInv
  <2>. QED BY <1>3, <2>1, NoneAssumption DEF Arrival, Amid, AccountGuard
<1>4. CASE Undisturbed(q)
  <2>1. sessions'[q] # None => sessions[q] # None /\ sessions'[q].user = sessions[q].user
    BY <1>1, <1>4 DEF Undisturbed, Onward, TablesGrow, SessionsGrow
  <2>. QED BY <1>1, <1>4, <2>1 DEF Undisturbed, Amid, AccountGuard
<1>5. CASE Continues(q)
  <2>1. audit'[q].inactive = audit[q].inactive /\ input'[q] = input[q]
    BY <1>5 DEF Continues, Notes
  <2>2. pc'[q] = "UpdateLastActive" => local'[q].user \notin audit[q].inactive
    <3> SUFFICES ASSUME pc'[q] = "UpdateLastActive"
                 PROVE  local'[q].user \notin audit[q].inactive
      OBVIOUS
    <3>1. AuthGetUser(q)
      BY <1>5 DEF Continues, Leads
    <3>2. users[local[q].user].status = "active" /\ local'[q] = local[q]
      BY <1>1, <3>1 DEF AuthGetUser, QueryFails, Answer, Proceed, IsActive, RuntimeTypeOK
    <3>. QED BY <1>1, <3>2 DEF SnapshotInv
  <2>3. pc'[q] = "CreateSession" => local'[q].user \notin audit[q].inactive
    <3>1. ASSUME SignUpCreateUser(q) \/ JITCreateUser(q), pc'[q] = "CreateSession"
          PROVE  local'[q].user = q
      BY <1>1, <3>1 DEF SignUpCreateUser, JITCreateUser, Unacknowledged, Answer, Proceed,
                        RuntimeTypeOK, FrameInv
    <3>2. ASSUME SignInIncrement(q) PROVE local'[q].user \notin audit[q].inactive
      <4>1. local'[q].user = local[q].user
        BY <1>1, <3>2 DEF SignInIncrement, Proceed, RuntimeTypeOK, Frame
      <4>. QED BY <1>1, <3>2, <4>1 DEF SignInIncrement, Amid, AccountGuard
    <3>3. ASSUME LogInIncrement(q), pc'[q] = "CreateSession"
          PROVE  local'[q].user \notin audit[q].inactive
      <4>1. local[q].status = "active" /\ local'[q] = local[q]
        BY <1>1, <3>3 DEF LogInIncrement, Answer, Proceed, RuntimeTypeOK
      <4>. QED BY <1>1, <3>3, <4>1 DEF LogInIncrement, Amid, AccountGuard
    <3>. QED BY <1>1, <1>5, <3>1, <3>2, <3>3 DEF Continues, Leads, SnapshotInv
  <2>4. pc'[q] = "IncrementSignInCount" /\ input[q].op = "SignIn" =>
            local'[q].user \notin audit[q].inactive
    <3> SUFFICES ASSUME pc'[q] = "IncrementSignInCount", input[q].op = "SignIn"
                 PROVE  local'[q].user \notin audit[q].inactive
      OBVIOUS
    <3>1. SignInGetByEmail(q)
      BY <1>5 DEF Continues, Leads, LogInSetEmailVerified
    <3>2. PICK u \in UsersByEmail(input[q].email) :
              IsActive(u) /\ Proceed(q, "IncrementSignInCount", [Blank EXCEPT !.user = u])
      BY <1>1, <3>1 DEF SignInGetByEmail, QueryFails, Answer, RuntimeTypeOK
    <3>3. local'[q].user = u
      BY <1>1, <3>2 DEF Proceed, RuntimeTypeOK, Blank
    <3>. QED BY <1>1, <3>2, <3>3 DEF IsActive, SnapshotInv
  <2>5. pc'[q] \in {"SetEmailVerified", "IncrementSignInCount"} /\ input[q].op \in LogInOps
            /\ local'[q].status = "active" => local'[q].user \notin audit[q].inactive
    <3> SUFFICES ASSUME pc'[q] \in {"SetEmailVerified", "IncrementSignInCount"},
                        input[q].op \in LogInOps, local'[q].status = "active"
                 PROVE  local'[q].user \notin audit[q].inactive
      OBVIOUS
    <3>1. CASE FindUser(q)
      <4>1. PICK u \in UsersByEmail(tokens[local[q].token].email) :
                local' = [local EXCEPT ![q] = [local[q] EXCEPT !.user = u,
                                                   !.status = users[u].status, !.at = now]]
        BY <1>1, <3>1 DEF FindUser, QueryFails, Answer, Proceed, RuntimeTypeOK
      <4>2. local'[q].user = u /\ local'[q].status = users[u].status
        BY <1>1, <4>1 DEF RuntimeTypeOK, Frame
      <4>. QED BY <1>1, <4>2 DEF SnapshotInv
    <3>2. CASE LogInSetEmailVerified(q)
      BY <1>1, <3>2 DEF LogInSetEmailVerified, Proceed, RuntimeTypeOK, Amid, AccountGuard
    <3>. QED BY <1>5, <3>1, <3>2 DEF Continues, Leads, SignInGetByEmail
  <2>6. audit'[q].who \notin audit[q].inactive
    BY <1>1, <1>5 DEF Continues, Notes, AuthUpdateLastActive, AccountGuard
  <2>7. sessions'[q] # None => sessions'[q].user \notin audit[q].inactive
    <3>1. CASE sessions[q] = None
      BY <1>1, <1>5, <3>1, SessionOpened DEF AccountGuard
    <3>2. CASE sessions[q] # None
      BY <1>1, <3>2 DEF AccountGuard, Onward, TablesGrow, SessionsGrow
    <3>. QED BY <3>1, <3>2
  <2>. QED BY <2>1, <2>2, <2>3, <2>4, <2>5, <2>6, <2>7 DEF Amid, AccountGuard
<1>. QED
  BY <1>3, <1>4, <1>5 DEF Course

\* A link that may be consumed is the one presented, and was found fit for it.
LEMMA LinkFound ==
    ASSUME IInv, NEW r \in Request, FindsLink(r), pc'[r] = "MarkConsumed"
    PROVE  LET t == local'[r].token IN
           /\ t = input[r].cred /\ t \in Request /\ tokens[t] # None /\ pc[r] = "GetToken"
           /\ tokens[t].type = Redeemed(input[r].op)
           /\ ~tokens[t].consumed /\ ~TokenIsExpired(t) /\ tokens' = tokens
<1>1. RuntimeTypeOK
  BY DEF IInv, TypeOK
<1>2. PICK onFault \in Refusal : LookUpLink(r, input[r].op, Redeemed(input[r].op), onFault)
  BY DEF FindsLink
<1>3. PICK t \in TokensByHash(input[r].cred) :
          /\ tokens[t].type = Redeemed(input[r].op) /\ ~tokens[t].consumed /\ ~TokenIsExpired(t)
          /\ Proceed(r, "MarkConsumed", [Blank EXCEPT !.token = t])
  BY <1>1, <1>2 DEF LookUpLink, Answer, RuntimeTypeOK
<1>4. local'[r].token = t
  BY <1>1, <1>3 DEF Proceed, RuntimeTypeOK, Blank
<1>. QED
  BY <1>2, <1>3, <1>4 DEF LookUpLink, NoTable, OnlyUsers, TokensByHash

\* So was the row whose code may be tried.
LEMMA CodeFound ==
    ASSUME IInv, NEW r \in Request, FindsCode(r), pc'[r] = "IncrementAttempts"
    PROVE  LET t == local'[r].token IN
           /\ t \in Request /\ tokens[t] # None
           /\ tokens[t].type = Redeemed(input[r].op) /\ tokens[t].email = input[r].email
           /\ ~tokens[t].consumed /\ ~TokenIsExpired(t) /\ ~MaxAttemptsExceeded(t)
           /\ tokens' = tokens
<1>1. RuntimeTypeOK
  BY DEF IInv, TypeOK
<1>2. PICK onFault \in Refusal : LookUpCode(r, input[r].op, Redeemed(input[r].op), onFault)
  BY DEF FindsCode
<1>3. PICK t \in LatestActive(input[r].email, Redeemed(input[r].op)) :
          /\ ~TokenIsExpired(t) /\ ~MaxAttemptsExceeded(t)
          /\ Proceed(r, "IncrementAttempts",
                     [Blank EXCEPT !.token = t, !.attempts = tokens[t].attempts])
  BY <1>1, <1>2 DEF LookUpCode, Answer, RuntimeTypeOK
<1>4. local'[r].token = t
  BY <1>1, <1>3 DEF Proceed, RuntimeTypeOK, Blank
<1>. QED
  BY <1>2, <1>3, <1>4 DEF LookUpCode, NoTable, OnlyUsers, LatestActive, ActiveTokens

\* A code that may be consumed equals what was presented.
LEMMA CodeMatched ==
    ASSUME IInv, NEW r \in Request, ComparesCode(r), pc'[r] = "MarkConsumed"
    PROVE  /\ pc[r] = "IncrementAttempts" /\ local'[r] = local[r]
           /\ tokens[local[r].token].code = input[r].cred
<1>1. RuntimeTypeOK
  BY DEF IInv, TypeOK
<1>. QED
  BY <1>1 DEF ComparesCode, CompareCode, Answer, Proceed, RuntimeTypeOK

\* A request consumes the token it holds.
LEMMA ConsumptionNoted ==
    ASSUME IInv, NEW r \in Request, Continues(r), audit'[r].consumed # audit[r].consumed
    PROVE  pc[r] = "MarkConsumed" /\ audit'[r].consumed = local[r].token
BY DEF Continues, Notes, LogsIn, ProvesEmail, ConsumeEmailToken, Consume

\* A token redeemed was live on arrival: the row read was, and what is spent or
\* exhausted stays so.
LEMMA TokenGuardKept ==
    ASSUME IInv, HistoryInv, NEW q \in Request, Course(q)
    PROVE  TokenGuard(q)'
<1>1. RuntimeTypeOK /\ SnapshotInv(q) /\ TokenGuard(q)
  BY CourseIsOnward DEF IInv, HistoryInv, HistoryOf
<1>2. CASE Arrival(q)
  BY <1>2 DEF Arrival, Observed, NoAudit, TokenGuard
<1>3. CASE Undisturbed(q)
  BY <1>1, <1>3 DEF Undisturbed, LiveOnArrival, TokenGuard
<1>4. CASE Continues(q)
  <2>1. /\ audit'[q].spent = audit[q].spent /\ audit'[q].exhausted = audit[q].exhausted
        /\ input' = input
    BY <1>4 DEF Continues, Notes
  <2>2. \A t \in Request : LiveOnArrival(q, t)' <=> LiveOnArrival(q, t)
    BY <2>1 DEF LiveOnArrival
  <2>3. pc'[q] = "IncrementAttempts" => LiveOnArrival(q, local'[q].token)
    BY <1>1, <1>4, CodeFound
    DEF Continues, Leads, SnapshotInv, LiveOnArrival, TokenIsExpired, MaxAttemptsExceeded
  <2>4. pc'[q] = "MarkConsumed" => LiveOnArrival(q, local'[q].token)
    <3>1. ASSUME FindsLink(q), input[q].op \in LinkOps, pc'[q] = "MarkConsumed"
          PROVE  LiveOnArrival(q, local'[q].token)
      BY <1>1, <3>1, LinkFound DEF LinkOps, CodeOps, SnapshotInv, LiveOnArrival, TokenIsExpired
    <3>2. ASSUME ComparesCode(q), pc'[q] = "MarkConsumed"
          PROVE  LiveOnArrival(q, local'[q].token)
      BY <1>1, <3>2, CodeMatched DEF TokenGuard
    <3>. QED BY <1>4, <3>1, <3>2 DEF Continues, Leads
  <2>5. audit'[q].consumed # None => LiveOnArrival(q, audit'[q].consumed)
    BY <1>1, <1>4, ConsumptionNoted DEF TokenGuard
  <2>. QED BY <2>1, <2>3, <2>4, <2>5 DEF TokenGuard, LiveOnArrival
<1>. QED
  BY <1>2, <1>3, <1>4 DEF Course

\* Row `row` is what request r stores for the mail it is about to send: its code is
\* its own and was not tried yet, the mail of a sign-up names the new account and
\* its address, any other is what its endpoint sends to the address it was given.
OwnToken(r, row) ==
    /\ row \in TokenRow /\ row.attempts = 0
    /\ row.code = IF row.type = "magic_link" THEN None ELSE r
    /\ \/ row.type = "email_verification"
          /\ job[r] = "queued" /\ row.user = r /\ row.email = input[r].email /\ row.created = now
       \/ row.type = SentType(input[r].op)
          /\ pc[r] = "CreateToken" /\ row.email = input[r].email /\ row.created = local[r].at

\* The two INSERTs of a token store such a row.
LEMMA TokenStored ==
    ASSUME IInv, NEW r \in Request, (StoresToken(r) /\ input[r].op \in SendOps) \/ WelcomeStoreToken(r)
    PROVE  /\ \E row : OwnToken(r, row) /\ tokens' \in {tokens, [tokens EXCEPT ![r] = row]}
           /\ StoresToken(r) /\ pc'[r] = "Mail" => tokens'[r] # None
           /\ WelcomeStoreToken(r) /\ job'[r] = "stored" => tokens'[r] # None
<1>1. /\ StoreTypeOK /\ RuntimeTypeOK /\ InputInv(r) /\ FreshInv(r)
      /\ local[r].user \in Request \cup {None} /\ local[r].at \in Nat /\ now \in Nat
  BY FramesTyped DEF IInv, TypeOK, StoreTypeOK, Frame
<1>2. CASE StoresToken(r) /\ input[r].op \in SendOps
  <2>1. PICK ttl \in Nat : StoreToken(r, input[r].op, SentType(input[r].op),
                                     IF input[r].op = "SendMagicLink" THEN None ELSE r, ttl)
    BY <1>2 DEF StoresToken
  <2> DEFINE row == NewToken(local[r].user, input[r].email, SentType(input[r].op),
                             IF input[r].op = "SendMagicLink" THEN None ELSE r, local[r].at, ttl)
  <2>2. input[r].email \in Address /\ pc[r] = "CreateToken"
    BY <1>1, <1>2, <2>1 DEF StoreToken, SendOps, InputInv
  <2>3. OwnToken(r, row)
    BY <1>1, <2>2 DEF NewToken, TokenRow, TokenType, OwnToken, SentType
  <2>4. /\ tokens' \in {tokens, [tokens EXCEPT ![r] = row]}
        /\ pc'[r] = "Mail" => tokens' = [tokens EXCEPT ![r] = row]
    BY <1>1, <2>1 DEF StoreToken, InsertToken, Unacknowledged, Answer, RuntimeTypeOK
  <2>5. ~WelcomeStoreToken(r)
    BY <1>1, <2>1 DEF StoreToken, WelcomeStoreToken, FreshInv
  <2> HIDE DEF row
  <2>. QED BY <1>1, <2>3, <2>4, <2>5, RowAssumption DEF StoreTypeOK, OwnToken
<1>3. CASE WelcomeStoreToken(r)
  <2> DEFINE row == NewToken(r, input[r].email, "email_verification", r, now, WelcomeTTL)
  <2>1. input[r].email \in Address /\ job[r] = "queued" /\ pc[r] = "done"
    BY <1>1, <1>3 DEF WelcomeStoreToken, FreshInv
  <2>2. OwnToken(r, row)
    BY <1>1, <2>1, DurationAssumption DEF NewToken, TokenRow, TokenType, OwnToken
  <2>3. /\ tokens' \in {tokens, [tokens EXCEPT ![r] = row]}
        /\ job'[r] = "stored" => tokens' = [tokens EXCEPT ![r] = row]
        /\ pc'[r] = "done"
    BY <1>1, <1>3, <2>1 DEF WelcomeStoreToken, InsertToken, RuntimeTypeOK
  <2> HIDE DEF row
  <2>. QED BY <1>1, <2>2, <2>3, RowAssumption DEF StoreTypeOK, OwnToken
<1>. QED
  BY <1>2, <1>3

\* Every row is stored before it is mailed.
LEMMA MailedGuardKept ==
    ASSUME IInv, HistoryInv, NEW q \in Request, Course(q)
    PROVE  MailedGuard(q)'
<1>1. RuntimeTypeOK /\ StoreTypeOK /\ MailedGuard(q) /\ Onward
  BY CourseIsOnward DEF IInv, HistoryInv, HistoryOf
<1>2. tokens[q] # None => tokens'[q] # None
  BY <1>1 DEF Onward, TablesGrow, TokensGrow
<1>3. CASE Arrival(q)
  BY <1>1, <1>2, <1>3 DEF Arrival, Writes, MailedGuard
<1>4. CASE Undisturbed(q)
  BY <1>1, <1>2, <1>4 DEF Undisturbed, MailedGuard
<1>5. CASE Continues(q)
  <2>1. /\ StoresToken(q) /\ input[q].op \in SendOps /\ pc'[q] = "Mail" => tokens'[q] # None
        /\ WelcomeStoreToken(q) /\ job'[q] = "stored" => tokens'[q] # None
    BY TokenStored
  <2>. QED BY <1>1, <1>2, <1>5, <2>1 DEF Continues, Leads, Changes, MailedGuard
<1>. QED
  BY <1>3, <1>4, <1>5 DEF Course

\* No other step of a request inserts a token.
LEMMA TokenIssued ==
    ASSUME IInv, NEW r \in Request, Continues(r), tokens[r] = None, tokens'[r] # None
    PROVE  (StoresToken(r) /\ input[r].op \in SendOps) \/ WelcomeStoreToken(r)
<1>1. StoreTypeOK /\ FrameInv(r)
  BY DEF IInv, TypeOK
<1>2. ASSUME ComparesCode(r) \/ LogsIn(r) \/ ProvesEmail(r) PROVE FALSE
  <2>1. local[r].token \in Request /\ tokens[local[r].token] # None
    BY <1>1, <1>2
    DEF ComparesCode, CompareCode, LogsIn, ProvesEmail, ConsumeEmailToken, Consume, FrameInv
  <2>2. \/ tokens' = tokens
        \/ tokens' = IncrementAttempts(local[r].token) \/ tokens' = MarkConsumed(local[r].token)
    BY <1>2 DEF ComparesCode, CompareCode, LogsIn, ProvesEmail, ConsumeEmailToken, Consume, Discarding
  <2>. QED BY <1>1, <2>1, <2>2 DEF StoreTypeOK, IncrementAttempts, MarkConsumed
<1>. QED
  BY <1>2 DEF Continues, Changes

\* What a token's row says of its code and of its account holds for good.
LEMMA TokenRowKept ==
    ASSUME IInv, HistoryInv, NEW t \in Request, Course(t), tokens'[t] # None
    PROVE  /\ tokens'[t].code = IF tokens'[t].type = "magic_link" THEN None ELSE t
           /\ tokens'[t].type = "email_verification" =>
                  tokens'[t].user = t /\ users'[t].email = tokens'[t].email
<1>1. Onward /\ StoreTypeOK /\ OwnerGuard(t) /\ FreshInv(t)
  BY CourseIsOnward DEF IInv, HistoryInv, HistoryOf
<1>2. CASE tokens[t] # None
  <2>1. /\ tokens'[t].type = tokens[t].type /\ tokens'[t].code = tokens[t].code
        /\ tokens'[t].user = tokens[t].user /\ tokens'[t].email = tokens[t].email
    BY <1>1, <1>2 DEF Onward, TablesGrow, TokensGrow
  <2>2. /\ tokens[t].code = IF tokens[t].type = "magic_link" THEN None ELSE t
        /\ tokens[t].type = "email_verification" =>
               tokens[t].user = t /\ users[t].email = tokens[t].email /\ users[t] # None
    BY <1>2 DEF HistoryInv, TokenRowInv, IInv, RowInv
  <2>. QED BY <1>1, <2>1, <2>2 DEF Onward, TablesGrow, UsersGrow
<1>3. CASE tokens[t] = None
  <2>1. Continues(t)
    BY <1>3 DEF Course, Undisturbed, Arrival, Writes
  <2>2. PICK row : OwnToken(t, row) /\ tokens' \in {tokens, [tokens EXCEPT ![t] = row]}
    BY <1>3, <2>1, TokenIssued, TokenStored
  <2>3. tokens'[t] = row
    BY <1>1, <1>3, <2>2 DEF StoreTypeOK
  <2>4. job[t] = "queued" => users[t] # None /\ users'[t].email = input[t].email
    BY <1>1 DEF FreshInv, OwnerGuard, Onward, TablesGrow, UsersGrow
  <2>. QED BY <2>2, <2>3, <2>4 DEF OwnToken, SentType
<1>. QED
  BY <1>2, <1>3

\* Suits, after the step.
StillSuits(r, t) ==
    /\ tokens'[t].type = Redeemed(input'[r].op)
    /\ input'[r].op \in CodeOps => tokens'[t].email = input'[r].email

\* A token keeps what made it suit a request.
LEMMA SuitsKept ==
    ASSUME IInv, Onward, NEW q \in Request, NEW t \in Request, input'[q] = input[q],
           tokens[t] # None, Suits(q, t)
    PROVE  StillSuits(q, t)
BY DEF Onward, TablesGrow, TokensGrow, Suits, StillSuits

\* A request redeems the token whose secret it presents, and that was mailed.
LEMMA MailboxGuardKept ==
    ASSUME IInv, HistoryInv, NEW q \in Request, Course(q)
    PROVE  MailboxGuard(q)'
<1>1. /\ RuntimeTypeOK /\ StoreTypeOK /\ Onward /\ MailboxGuard(q)
      /\ FrameInv(q) /\ FreshInv(q) /\ ConsumedInv
  BY CourseIsOnward DEF IInv, HistoryInv, HistoryOf
<1>2. audit[q].consumed # None =>
          audit[q].consumed \in Request /\ tokens[audit[q].consumed] # None
  BY <1>1 DEF RuntimeTypeOK, Audit, ConsumedInv
<1>3. CASE Arrival(q)
  BY <1>1, <1>3 DEF Arrival, Writes, Observed, NoAudit, MailboxGuard
<1>4. CASE Undisturbed(q)
  <2>1. pc'[q] \in {"IncrementAttempts", "MarkConsumed"} =>
            /\ local'[q].token = local[q].token /\ pc'[q] = pc[q]
            /\ local[q].token \in Request /\ tokens[local[q].token] # None
    BY <1>1, <1>4 DEF Undisturbed, FrameInv
  <2>. QED BY <1>1, <1>2, <1>4, <2>1, SuitsKept DEF Undisturbed, Onward, Suits, StillSuits, MailboxGuard
<1>5. CASE Continues(q)
  <2>1. input'[q] = input[q] /\ mailed \subseteq mailed'
    BY <1>1, <1>5 DEF Continues, Onward
  <2>2. pc'[q] = "IncrementAttempts" => StillSuits(q, local'[q].token)
    <3> SUFFICES ASSUME pc'[q] = "IncrementAttempts" PROVE StillSuits(q, local'[q].token)
      OBVIOUS
    <3>1. /\ tokens' = tokens /\ tokens[local'[q].token].type = Redeemed(input[q].op)
          /\ tokens[local'[q].token].email = input[q].email
      BY <1>5, CodeFound DEF Continues, Leads
    <3>. QED BY <2>1, <3>1 DEF StillSuits
  <2>3. pc'[q] = "MarkConsumed" =>
            /\ local'[q].token = input[q].cred /\ local'[q].token \in mailed
            /\ StillSuits(q, local'[q].token)
    <3>1. ASSUME FindsLink(q), input[q].op \in LinkOps, pc'[q] = "MarkConsumed"
          PROVE  /\ local'[q].token = input[q].cred /\ local'[q].token \in mailed
                 /\ StillSuits(q, local'[q].token)
      <4>1. /\ local'[q].token = input[q].cred /\ input[q].cred \in Request
            /\ tokens[input[q].cred] # None /\ pc[q] = "GetToken"
            /\ tokens'[input[q].cred].type = Redeemed(input[q].op)
        BY <3>1, LinkFound
      <4>2. tokens[q] = None
        BY <1>1, <4>1 DEF FreshInv
      <4>3. input[q].cred \in mailed
        BY <1>1, <3>1, <4>1, <4>2, NoneAssumption DEF LinkOps, MailboxGuard
      <4>. QED BY <2>1, <3>1, <4>1, <4>3 DEF LinkOps, CodeOps, StillSuits
    <3>2. ASSUME ComparesCode(q), input[q].op \in CodeOps, pc'[q] = "MarkConsumed"
          PROVE  /\ local'[q].token = input[q].cred /\ local'[q].token \in mailed
                 /\ StillSuits(q, local'[q].token)
      <4>1. /\ pc[q] = "IncrementAttempts" /\ local'[q] = local[q]
            /\ tokens[local[q].token].code = input[q].cred
        BY <3>2, CodeMatched
      <4>2. /\ local[q].token \in Request /\ tokens[local[q].token] # None
            /\ Suits(q, local[q].token) /\ tokens[q] = None
        BY <1>1, <4>1 DEF FrameInv, FreshInv, MailboxGuard
      <4>3. tokens[local[q].token].code = local[q].token
        BY <3>2, <4>2 DEF HistoryInv, TokenRowInv, CodeOps, Suits, Redeemed
      <4>4. input[q].cred \in mailed
        BY <1>1, <3>2, <4>1, <4>2, <4>3, NoneAssumption DEF CodeOps, MailboxGuard
      <4>. QED BY <1>1, <2>1, <4>1, <4>2, <4>3, <4>4, SuitsKept
    <3>. QED BY <1>5, <3>1, <3>2 DEF Continues, Leads
  <2>4. audit'[q].consumed # None =>
            /\ audit'[q].consumed = input[q].cred /\ audit'[q].consumed \in mailed
            /\ StillSuits(q, audit'[q].consumed)
    <3>1. CASE audit'[q].consumed = audit[q].consumed
      BY <1>1, <1>2, <2>1, <3>1, SuitsKept DEF MailboxGuard
    <3>2. CASE audit'[q].consumed # audit[q].consumed
      <4>1. pc[q] = "MarkConsumed" /\ audit'[q].consumed = local[q].token
        BY <1>5, <3>2, ConsumptionNoted
      <4>2. local[q].token \in Request /\ tokens[local[q].token] # None
        BY <1>1, <4>1 DEF FrameInv
      <4>. QED BY <1>1, <2>1, <4>1, <4>2, SuitsKept DEF MailboxGuard
    <3>. QED BY <3>1, <3>2
  <2>. QED BY <1>1, <2>1, <2>2, <2>3, <2>4 DEF MailboxGuard, Suits, StillSuits
<1>. QED
  BY <1>3, <1>4, <1>5 DEF Course

\* An account keeps its address.
LEMMA AddressKept ==
    ASSUME IInv, Onward, NEW u \in Request, users[u] # None
    PROVE  users'[u].email = users[u].email /\ (users[u].verified => users'[u].verified)
BY DEF Onward, TablesGrow, UsersGrow

\* So does a token.
LEMMA TokenAddressKept ==
    ASSUME IInv, Onward, NEW t \in Request, tokens[t] # None
    PROVE  tokens'[t].email = tokens[t].email
BY DEF Onward, TablesGrow, TokensGrow

\* A log-in begins with the token consumed, and goes on with it.
LEMMA LogInHoldsToken ==
    ASSUME IInv, HistoryInv, NEW q \in Request, Continues(q), Amid(q, LogInOps, LoggingIn)'
    PROVE  /\ audit'[q].consumed # None /\ audit'[q].consumed = local'[q].token
           /\ local'[q].token = local[q].token
           /\ local[q].token \in Request /\ tokens[local[q].token] # None
<1>1. /\ RuntimeTypeOK /\ FrameInv(q) /\ OwnerGuard(q) /\ ConsumedInv
      /\ input'[q] = input[q] /\ input[q].op \in LogInOps /\ pc'[q] \in LoggingIn
  BY DEF IInv, TypeOK, HistoryInv, HistoryOf, Continues, Amid
<1>2. CASE pc'[q] = "FindUser"
  <2>1. LogsIn(q)
    BY <1>2 DEF Continues, Leads
  <2>2. /\ pc[q] = "MarkConsumed" /\ local'[q] = local[q]
        /\ audit'[q].consumed = local[q].token
    BY <1>1, <1>2, <2>1 DEF LogsIn, Consume, Unacknowledged, Answer, Proceed, RuntimeTypeOK, Audit
  <2>. QED BY <1>1, <2>2, NoneAssumption DEF FrameInv
<1>3. CASE pc'[q] # "FindUser"
  <2>1. /\ \/ FindUser(q) \/ LogInSetEmailVerified(q)
           \/ JITCreateUser(q) /\ pc'[q] = "CreateSession"
           \/ LogInIncrement(q) /\ pc'[q] = "CreateSession"
        /\ pc'[q] # "done"
    BY <1>1, <1>3 DEF LoggingIn, Continues, Leads, SignUpCreateUser, SignInIncrement,
                      SignInGetByEmail, ProvesEmail
  <2>2. pc[q] \in LoggingIn /\ pc[q] # "MarkConsumed"
    BY <2>1 DEF FindUser, LogInSetEmailVerified, JITCreateUser, LogInIncrement, LoggingIn
  <2>3. local'[q].token = local[q].token
    <3>1. CASE FindUser(q)
      <4>1. /\ [local[q] EXCEPT !.user = q, !.at = now].token = local[q].token
            /\ \A u \in Request :
                 [local[q] EXCEPT !.user = u, !.status = users[u].status, !.at = now].token
                     = local[q].token
        BY <1>1 DEF RuntimeTypeOK, Frame
      <4>2. \/ local' = [local EXCEPT ![q] = [local[q] EXCEPT !.user = q, !.at = now]]
            \/ \E u \in Request : local' = [local EXCEPT ![q] =
                   [local[q] EXCEPT !.user = u, !.status = users[u].status, !.at = now]]
        <5>1. pc'[q] # "done" /\ pc \in [Request -> {"new", "done", "lost"} \cup Call]
          BY <1>1, <2>1 DEF RuntimeTypeOK
        <5>2. ~QueryFails(q)
          BY <5>1 DEF QueryFails, Answer
        <5>. QED BY <3>1, <5>2 DEF FindUser, UsersByEmail, Proceed
      <4>3. local \in [Request -> Frame]
        BY <1>1 DEF RuntimeTypeOK
      <4>. QED BY <4>1, <4>2, <4>3
    <3>2. CASE ~FindUser(q)
      BY <1>1, <2>1, <3>2 DEF LogInSetEmailVerified, JITCreateUser, LogInIncrement, Unacknowledged,
                              Answer, Proceed, RuntimeTypeOK
    <3>. QED BY <3>1, <3>2
  <2>4. audit'[q].consumed = audit[q].consumed
    BY <2>2, ConsumptionNoted
  <2>. QED BY <1>1, <2>2, <2>3, <2>4 DEF OwnerGuard, Amid, ConsumedInv, RuntimeTypeOK, Audit
<1>. QED
  BY <1>2, <1>3

\* The account a log-in works on has the address its token was mailed to.
LEMMA LogInHoldsAccount ==
    ASSUME IInv, HistoryInv, NEW q \in Request, Kept(q), Continues(q),
           Amid(q, LogInOps, {"SetEmailVerified", "IncrementSignInCount", "CreateSession"})'
    PROVE  /\ users'[local'[q].user].email = tokens'[local'[q].token].email
           /\ pc'[q] # "SetEmailVerified" => users'[local'[q].user].verified \/ DBFaults
<1>1. /\ RuntimeTypeOK /\ StoreTypeOK /\ FrameInv(q) /\ OwnerGuard(q) /\ Onward
      /\ input'[q] = input[q] /\ input[q].op \in LogInOps
      /\ pc'[q] \in {"SetEmailVerified", "IncrementSignInCount", "CreateSession"}
  BY CourseIsOnward DEF IInv, HistoryInv, HistoryOf, Continues, Amid, Course
<1>2. /\ local'[q].token = local[q].token
      /\ tokens'[local[q].token].email = tokens[local[q].token].email
  BY LogInHoldsToken, <1>1, TokenAddressKept DEF Amid, LoggingIn
<1>3. CASE FindUser(q)
  <2>1. PICK u \in UsersByEmail(tokens[local[q].token].email) :
            Proceed(q, "SetEmailVerified",
                    [local[q] EXCEPT !.user = u, !.status = users[u].status, !.at = now])
    BY <1>1, <1>3 DEF FindUser, QueryFails, Answer, Proceed, RuntimeTypeOK
  <2>2. local'[q].user = u /\ pc'[q] = "SetEmailVerified" /\ users' = users
    BY <1>1, <1>3, <2>1 DEF Proceed, RuntimeTypeOK, Frame, FindUser, NoTable
  <2>. QED BY <1>2, <2>2 DEF UsersByEmail
<1>4. CASE LogInSetEmailVerified(q)
  <2>1. /\ local'[q] = local[q] /\ pc[q] = "SetEmailVerified"
        /\ local[q].user \in Request /\ users[local[q].user] # None
    BY <1>1, <1>4 DEF LogInSetEmailVerified, Proceed, RuntimeTypeOK, FrameInv
  <2>2. users[local[q].user].email = tokens[local[q].token].email
    BY <1>1, <2>1 DEF OwnerGuard, Amid
  <2>3. users'[local[q].user].verified \/ DBFaults
    <3>1. users[local[q].user] \in UserRow
      BY <1>1, <2>1 DEF StoreTypeOK
    <3>2. users' = SetEmailVerified(local[q].user) \/ DBFaults
      BY <1>4 DEF LogInSetEmailVerified, Discarding
    <3>3. users' = SetEmailVerified(local[q].user) =>
              users'[local[q].user] = [users[local[q].user] EXCEPT !.verified = TRUE]
      BY <1>1, <2>1 DEF StoreTypeOK, SetEmailVerified
    <3>4. [users[local[q].user] EXCEPT !.verified = TRUE].verified
      BY <3>1 DEF UserRow
    <3>. QED BY <3>2, <3>3, <3>4
  <2>. QED BY <1>1, <1>2, <2>1, <2>2, <2>3, AddressKept
<1>5. CASE LogInIncrement(q) /\ pc'[q] = "CreateSession"
  <2>1. /\ local'[q] = local[q] /\ pc[q] = "IncrementSignInCount"
        /\ local[q].user \in Request /\ users[local[q].user] # None
    BY <1>1, <1>5 DEF LogInIncrement, Answer, Proceed, RuntimeTypeOK, FrameInv
  <2>2. /\ users[local[q].user].email = tokens[local[q].token].email
        /\ users[local[q].user].verified \/ DBFaults
    BY <1>1, <2>1 DEF OwnerGuard, Amid
  <2>. QED BY <1>1, <1>2, <2>1, <2>2, AddressKept
<1>6. CASE JITCreateUser(q) /\ pc'[q] = "CreateSession"
  <2> DEFINE row == NewUser(tokens[local[q].token].email, TRUE, NoPassword, NoProfile)
  <2>1. /\ ~EmailTaken(tokens[local[q].token].email) /\ users' = InsertUser(q, row)
        /\ local'[q].user = q
    BY <1>1, <1>6 DEF JITCreateUser, Unacknowledged, Answer, Proceed, RuntimeTypeOK, FrameInv
  <2>2. users'[q] = row /\ row.email = tokens[local[q].token].email /\ row.verified
    BY <1>1, <2>1 DEF StoreTypeOK, InsertUser, NewUser
  <2>. QED BY <1>2, <2>1, <2>2
<1>. QED
  BY <1>1, <1>3, <1>4, <1>5, <1>6
  DEF Continues, Leads, SignUpCreateUser, SignInIncrement, SignInGetByEmail, ProvesEmail

\* A mail of a sign-up proves the address of the account it names.
LEMMA ProofNamesAccount ==
    ASSUME IInv, HistoryInv, NEW q \in Request, Continues(q),
           Amid(q, VerifyEmailOps, {"SetEmailVerified"})'
    PROVE  /\ audit'[q].consumed # None
           /\ users'[local'[q].user].email = tokens'[audit'[q].consumed].email
<1> DEFINE t == local[q].token
<1>1. /\ RuntimeTypeOK /\ StoreTypeOK /\ FrameInv(q)
      /\ input'[q] = input[q] /\ input[q].op \in VerifyEmailOps /\ pc'[q] = "SetEmailVerified"
  BY DEF IInv, TypeOK, Continues, Amid
<1>2. ProvesEmail(q)
  BY <1>1 DEF Continues, Leads, FindUser
<1>3. /\ pc[q] = "MarkConsumed" /\ tokens' = MarkConsumed(t) /\ users' = users
      /\ audit' = [audit EXCEPT ![q].consumed = t]
      /\ local' = [local EXCEPT ![q] = [local[q] EXCEPT !.user = tokens[t].user]]
  BY <1>1, <1>2
  DEF ProvesEmail, ConsumeEmailToken, Consume, Unacknowledged, Answer, Proceed, RuntimeTypeOK
<1>4. t \in Request /\ tokens[t] # None /\ tokens[t].type = "email_verification"
  BY <1>1, <1>3 DEF FrameInv
<1>5. audit'[q].consumed = t /\ local'[q].user = tokens[t].user
  BY <1>1, <1>3 DEF RuntimeTypeOK, Audit, Frame
<1>6. tokens'[t].email = tokens[t].email
  BY <1>1, <1>3, <1>4 DEF StoreTypeOK, TokenRow, MarkConsumed
<1>7. users[tokens[t].user].email = tokens[t].email
  BY <1>4 DEF HistoryInv, TokenRowInv
<1>. QED
  BY <1>3, <1>4, <1>5, <1>6, <1>7, NoneAssumption

\* A sign-in holds the account of the address it named, a sign-up the one it made.
LEMMA SignInHoldsAccount ==
    ASSUME IInv, HistoryInv, NEW q \in Request, Kept(q), Continues(q)
    PROVE  /\ Amid(q, {"SignIn"}, {"IncrementSignInCount", "CreateSession"})' =>
                  users'[local'[q].user].email = input'[q].email
           /\ Amid(q, {"SignUp"}, {"CreateSession"})' => users'[q].email = input'[q].email
           /\ job'[q] = "queued" => users'[q].email = input'[q].email
<1>1. /\ RuntimeTypeOK /\ StoreTypeOK /\ FrameInv(q) /\ FreshInv(q) /\ OwnerGuard(q) /\ Onward
      /\ input'[q] = input[q]
  BY CourseIsOnward DEF IInv, HistoryInv, HistoryOf, Continues, Course
<1>2. ASSUME SignInGetByEmail(q), pc'[q] = "IncrementSignInCount"
      PROVE  users'[local'[q].user].email = input[q].email
  <2>1. PICK u \in UsersByEmail(input[q].email) :
            Proceed(q, "IncrementSignInCount", [Blank EXCEPT !.user = u])
    BY <1>1, <1>2 DEF SignInGetByEmail, QueryFails, Answer, RuntimeTypeOK
  <2>2. local'[q].user = u /\ users' = users
    BY <1>1, <1>2, <2>1 DEF SignInGetByEmail, NoTable, Proceed, RuntimeTypeOK, Blank
  <2>. QED BY <2>1, <2>2 DEF UsersByEmail
<1>3. ASSUME SignInIncrement(q) PROVE users'[local'[q].user].email = input[q].email
  <2>1. /\ local'[q].user = local[q].user /\ pc[q] = "IncrementSignInCount" /\ input[q].op = "SignIn"
        /\ local[q].user \in Request /\ users[local[q].user] # None
    BY <1>1, <1>3 DEF SignInIncrement, Proceed, RuntimeTypeOK, Frame, FrameInv
  <2>. QED BY <1>1, <2>1, AddressKept DEF OwnerGuard, Amid
<1>4. ASSUME SignUpCreateUser(q), pc'[q] = "CreateSession" PROVE users'[q].email = input[q].email
  <2> DEFINE row == NewUser(input[q].email, FALSE, input[q].password, input[q].profile)
  <2>1. ~EmailTaken(input[q].email) /\ users' = InsertUser(q, row)
    BY <1>1, <1>4 DEF SignUpCreateUser, Unacknowledged, Answer, RuntimeTypeOK
  <2>. QED BY <1>1, <2>1 DEF StoreTypeOK, InsertUser, NewUser
<1>5. job'[q] = "queued" => users'[q].email = input[q].email
  <2>1. ASSUME job[q] = "queued" PROVE users'[q].email = input[q].email
    BY <1>1, <2>1, AddressKept DEF FreshInv, OwnerGuard
  <2>2. ASSUME SignUpCreateSession(q) PROVE users'[q].email = input[q].email
    <3>1. /\ pc[q] = "CreateSession" /\ input[q].op = "SignUp" /\ users' = users
          /\ local[q].user = q
      BY <1>1, <2>2 DEF SignUpCreateSession, CreateSession, FrameInv
    <3>. QED BY <1>1, <3>1 DEF OwnerGuard, Amid
  <2>. QED BY <2>1, <2>2 DEF Continues, Changes
<1>. QED
  BY <1>1, <1>2, <1>3, <1>4, <1>5
  DEF Continues, Leads, Amid, LogInSetEmailVerified, JITCreateUser, LogInIncrement, SignUpCreateUser,
      SignInIncrement

\* The account a request opens a session for, or marks verified, is the one it has
\* a right to.
LEMMA OwnerGuardKept ==
    ASSUME IInv, HistoryInv, NEW q \in Request, Course(q)
    PROVE  OwnerGuard(q)'
<1>1. /\ RuntimeTypeOK /\ Onward /\ OwnerGuard(q) /\ FrameInv(q) /\ FreshInv(q) /\ ConsumedInv
  BY CourseIsOnward DEF IInv, HistoryInv, HistoryOf
<1>2. CASE Arrival(q)
  BY <1>1, <1>2 DEF Arrival, FreshInv, Amid, LoggingIn, OwnerGuard
<1>3. CASE Undisturbed(q)
  <2>1. audit[q].consumed # None =>
            audit[q].consumed \in Request /\ tokens[audit[q].consumed] # None
    BY <1>1 DEF RuntimeTypeOK, Audit, ConsumedInv
  <2>2. \A t \in Request : tokens[t] # None => tokens'[t].email = tokens[t].email
    BY <1>1, TokenAddressKept
  <2>3. \A u \in Request : users[u] # None =>
            users'[u].email = users[u].email /\ (users[u].verified => users'[u].verified)
    BY <1>1, AddressKept
  <2>4. pc[q] \in AccountCalls => local[q].user \in Request /\ users[local[q].user] # None
    BY <1>1 DEF FrameInv
  <2>5. pc'[q] # "lost" => pc'[q] = pc[q] /\ local'[q] = local[q]
    BY <1>3 DEF Undisturbed
  <2>6. /\ input'[q] = input[q] /\ audit'[q] = audit[q]
        /\ job'[q] = "queued" => job[q] = "queued"
    BY <1>3 DEF Undisturbed
  <2>7. /\ Amid(q, LogInOps, LoggingIn)' =>
               audit'[q].consumed # None /\ audit'[q].consumed = local'[q].token
        /\ Amid(q, LogInOps, {"SetEmailVerified", "IncrementSignInCount", "CreateSession"})' =>
               users'[local'[q].user].email = tokens'[local'[q].token].email
        /\ Amid(q, LogInOps, {"IncrementSignInCount", "CreateSession"})' =>
               users'[local'[q].user].verified \/ DBFaults
    BY <1>1, <2>1, <2>2, <2>3, <2>4, <2>5, <2>6 DEF OwnerGuard, Amid, LoggingIn
  <2>8. Amid(q, VerifyEmailOps, {"SetEmailVerified"})' =>
            /\ audit'[q].consumed # None
            /\ users'[local'[q].user].email = tokens'[audit'[q].consumed].email
    BY <1>1, <2>1, <2>2, <2>3, <2>4, <2>5, <2>6 DEF OwnerGuard, Amid
  <2>9. /\ Amid(q, {"SignIn"}, {"IncrementSignInCount", "CreateSession"})' =>
               users'[local'[q].user].email = input'[q].email
        /\ Amid(q, {"SignUp"}, {"CreateSession"})' \/ job'[q] = "queued" =>
               users'[q].email = input'[q].email
    BY <1>1, <2>3, <2>4, <2>5, <2>6 DEF OwnerGuard, Amid, FrameInv, FreshInv
  <2>. QED BY <2>7, <2>8, <2>9 DEF OwnerGuard
<1>4. CASE Kept(q) /\ Continues(q)
  <2>1. Amid(q, LogInOps, {"SetEmailVerified", "IncrementSignInCount", "CreateSession"})' =>
            Amid(q, LogInOps, LoggingIn)'
    BY DEF Amid, LoggingIn
  <2>2. Amid(q, LogInOps, {"IncrementSignInCount", "CreateSession"})' =>
            /\ Amid(q, LogInOps, {"SetEmailVerified", "IncrementSignInCount", "CreateSession"})'
            /\ pc'[q] # "SetEmailVerified"
    BY DEF Amid
  <2>. QED BY <1>4, <2>1, <2>2, LogInHoldsToken, LogInHoldsAccount, ProofNamesAccount,
              SignInHoldsAccount DEF OwnerGuard
<1>. QED
  BY <1>2, <1>3, <1>4 DEF Course

\* A goroutine behind RequireAuth keeps working on the account that was let in, and
\* a request is answered as its goroutine ends.
LEMMA AnswerGuardKept ==
    ASSUME IInv, HistoryInv, NEW q \in Request, Course(q)
    PROVE  AnswerGuard(q)'
<1>1. RuntimeTypeOK /\ AnswerGuard(q)
  BY CourseIsOnward DEF HistoryInv, HistoryOf
<1>2. CASE Arrival(q)
  BY <1>1, <1>2 DEF Arrival, Amid, AnswerGuard
<1>3. CASE Undisturbed(q)
  BY <1>1, <1>3 DEF Undisturbed, Amid, AnswerGuard
<1>4. CASE Continues(q)
  <2>1. pc'[q] \in Call \cup {"new"} => reply'[q] = "none"
    BY <1>1, <1>4 DEF Continues, Answers, AnswerGuard
  <2>2. ASSUME AuthUpdateLastActive(q), pc'[q] # "done" PROVE audit'[q].who = local'[q].user
    <3>1. local'[q] = local[q] /\ audit'[q].who = local[q].user
      BY <1>1, <2>2 DEF AuthUpdateLastActive, Answer, Proceed, RuntimeTypeOK, Audit
    <3>. QED BY <3>1
  <2>3. ASSUME ChangePasswordGetById(q) \/ ChangePasswordUpdate(q), pc'[q] # "done"
        PROVE  audit'[q].who = local'[q].user
    <3>1. /\ local'[q] = local[q] /\ Amid(q, AuthenticatedOps, {"GetById", "UpdatePassword"})
          /\ audit'[q].who = audit[q].who
      BY <1>1, <2>3 DEF ChangePasswordGetById, ChangePasswordUpdate, NoTable, OnlyUsers, QueryFails,
                        Unacknowledged, Answer, Proceed, RuntimeTypeOK, Audit, Amid, AuthenticatedOps
    <3>. QED BY <1>1, <3>1 DEF Amid, AnswerGuard
  <2>. QED BY <1>4, <2>1, <2>2, <2>3
           DEF Continues, Leads, MarkEmailVerified, AuthenticatedOps, Amid, AnswerGuard
<1>. QED
  BY <1>2, <1>3, <1>4 DEF Course

\* A failed statement is answered with an error only where statements may fail, and
\* an account that a sign-in met deleted stays so.
LEMMA ErrorGuardKept ==
    ASSUME IInv, HistoryInv, NEW q \in Request, Course(q)
    PROVE  ErrorGuard(q)'
<1>1. Onward /\ AnswerGuard(q) /\ ErrorGuard(q)
  BY CourseIsOnward DEF HistoryInv, HistoryOf
<1>2. CASE Arrival(q)
  BY <1>1, <1>2 DEF Arrival, AnswerGuard, ErrorGuard
<1>3. ASSUME input'[q] = input[q], reply'[q] = reply[q] PROVE ErrorGuard(q)'
  <2>1. ASSUME NEW u \in UsersByEmail(input[q].email), users[u].status = "deleted"
        PROVE  u \in UsersByEmail(input[q].email)' /\ users'[u].status = "deleted"
    BY <1>1, <1>3, <2>1 DEF UsersByEmail, Onward, TablesGrow, UsersGrow
  <2>. QED BY <1>1, <1>3, <2>1 DEF ErrorGuard, MetDeleted
<1>. QED
  BY <1>2, <1>3 DEF Course, Undisturbed, Continues, Answers

-----------------------------------------------------------------------------
(* What the invariant says of the tables and of the answers. *)

\* A request that has ended keeps its endpoint and its history.
LEMMA EndedStays ==
    ASSUME IInv, NEW q \in Request, Course(q), pc[q] \in {"done", "lost"}
    PROVE  input'[q] = input[q] /\ reply'[q] = reply[q] /\ audit'[q] = audit[q]
BY DEF Course, Undisturbed, Arrival, Continues

\* A session keeps the owner its request proved a right to, and a new one has such
\* an owner: its account was looked up by the address that was proven.
LEMMA OwnersKept ==
    ASSUME IInv, HistoryInv, \A q \in Request : Course(q)
    PROVE  SessionHasProvenOwner'
<1> SUFFICES ASSUME NEW s \in Request, sessions'[s] # None
             PROVE  LET u == sessions'[s].user
                        t == audit'[s].consumed
                    IN /\ users'[u] # None
                       /\ input'[s].op = "SignUp" => u = s
                       /\ input'[s].op = "SignIn" => users'[u].email = input'[s].email
                       /\ input'[s].op \in LogInOps =>
                             /\ t \in mailed' /\ t = input'[s].cred
                             /\ users'[u].email = tokens'[t].email
                             /\ users'[u].verified \/ DBFaults
                             /\ tokens'[t].type = IF input'[s].op = "VerifyOTP"
                                                  THEN "email_otp" ELSE "magic_link"
                             /\ input'[s].op = "VerifyOTP" => tokens'[t].email = input'[s].email
  BY DEF SessionHasProvenOwner
<1>1. /\ RuntimeTypeOK /\ StoreTypeOK /\ Onward /\ Course(s)
      /\ FrameInv(s) /\ FreshInv(s) /\ ConsumedInv /\ OwnerGuard(s) /\ MailboxGuard(s)
  BY CourseIsOnward DEF IInv, HistoryInv, HistoryOf
<1>2. \A u \in Request : users[u] # None =>
          /\ users'[u] # None /\ users'[u].email = users[u].email
          /\ users[u].verified => users'[u].verified
  BY <1>1 DEF Onward, TablesGrow, UsersGrow
<1>3. \A t \in Request : tokens[t] # None =>
          tokens'[t].email = tokens[t].email /\ tokens'[t].type = tokens[t].type
  BY <1>1 DEF Onward, TablesGrow, TokensGrow
<1>4. audit[s].consumed # None =>
          audit[s].consumed \in Request /\ tokens[audit[s].consumed] # None
  BY <1>1 DEF RuntimeTypeOK, Audit, ConsumedInv
<1>5. CASE sessions[s] # None
  <2>1. pc[s] \in {"done", "lost"} /\ sessions[s] \in SessionRow
    BY <1>1, <1>5 DEF FreshInv, StoreTypeOK
  <2>2. input'[s] = input[s] /\ audit'[s] = audit[s] /\ mailed \subseteq mailed'
    BY <1>1, <2>1, EndedStays DEF Onward
  <2>3. sessions'[s].user = sessions[s].user /\ sessions[s].user \in Request
    BY <1>1, <1>5, <2>1 DEF Onward, TablesGrow, SessionsGrow, SessionRow
  <2>4. mailed \subseteq Request
    BY <1>1 DEF RuntimeTypeOK
  <2>. QED BY <1>2, <1>3, <1>4, <1>5, <2>2, <2>3, <2>4, NoneAssumption
           DEF HistoryInv, SessionHasProvenOwner
<1>6. CASE sessions[s] = None
  <2>1. Continues(s)
    BY <1>1, <1>6 DEF Course, Undisturbed, Arrival, Writes
  <2>2. /\ pc[s] = "CreateSession" /\ input[s].op \in {"SignUp", "SignIn"} \cup LogInOps
        /\ sessions'[s].user = local[s].user /\ input'[s] = input[s]
    BY <1>6, <2>1, SessionOpened DEF Continues
  <2>3. audit'[s].consumed = audit[s].consumed
    BY <2>1, <2>2, ConsumptionNoted
  <2>4. local[s].user \in Request /\ users[local[s].user] # None
    BY <1>1, <2>2 DEF FrameInv
  <2>5. input[s].op = "SignUp" => local[s].user = s
    BY <1>1, <2>2 DEF FrameInv
  <2>6. input[s].op = "SignIn" => users[local[s].user].email = input[s].email
    BY <1>1, <2>2 DEF OwnerGuard, Amid
  <2>7. input[s].op \in LogInOps =>
            /\ audit[s].consumed # None
            /\ users[local[s].user].email = tokens[audit[s].consumed].email
            /\ users[local[s].user].verified \/ DBFaults
    BY <1>1, <2>2 DEF OwnerGuard, Amid, LoggingIn
  <2>8. audit[s].consumed # None =>
            /\ audit[s].consumed = input[s].cred /\ audit[s].consumed \in mailed'
            /\ Suits(s, audit[s].consumed)
    BY <1>1 DEF MailboxGuard, Onward
  <2>. QED BY <1>2, <1>3, <1>4, <2>2, <2>3, <2>4, <2>5, <2>6, <2>7, <2>8
           DEF Suits, Redeemed, CodeOps
<1>. QED
  BY <1>5, <1>6

\* Which statements mark an account verified, and which account it is.
Verifies(r, u) ==
    \/ (LogInSetEmailVerified(r) \/ MarkEmailVerified(r)) /\ u = local[r].user
    \/ JITCreateUser(r) /\ u = r /\ users'[u].email = tokens[local[r].token].email

\* No other does.
LEMMA VerifiedBy ==
    ASSUME IInv, [Next]_vars, NEW u \in Request, users'[u] # None, users'[u].verified,
           users[u] = None \/ ~users[u].verified
    PROVE  \E r \in Request : Verifies(r, u)
<1>1. StoreTypeOK /\ users' # users
  BY DEF IInv, TypeOK
<1>2. users[u] # None => users[u] \in UserRow /\ ~users[u].verified
  BY <1>1 DEF StoreTypeOK
<1>3. ASSUME NEW v \in Request, users[v] # None,
             \/ \E status : users' = [users EXCEPT ![v].status = status]
             \/ \E p : users' = UpdateProfile(v, p)
             \/ \E p : users' = UpdatePassword(v, p)
             \/ users' = IncrementSignInCount(v)
      PROVE  FALSE
  <2>1. PICK next : /\ users' = [users EXCEPT ![v] = next]
                    /\ users[v] \in UserRow => next.verified = users[v].verified
    <3>1. users[v] \in UserRow => \A x : /\ [users[v] EXCEPT !.status = x].verified = users[v].verified
                 /\ [users[v] EXCEPT !.profile = x].verified = users[v].verified
                 /\ [users[v] EXCEPT !.password = x].verified = users[v].verified
                 /\ [users[v] EXCEPT !.signIns = x].verified = users[v].verified
      BY DEF UserRow
    <3>2. CASE \E status : users' = [users EXCEPT ![v].status = status]
      BY <3>1, <3>2
    <3>3. CASE \E p : users' = UpdateProfile(v, p)
      BY <3>1, <3>3 DEF UpdateProfile
    <3>4. CASE \E p : users' = UpdatePassword(v, p)
      BY <3>1, <3>4 DEF UpdatePassword
    <3>5. CASE users' = IncrementSignInCount(v)
      BY <3>1, <3>5 DEF IncrementSignInCount
    <3>. QED BY <1>3, <3>2, <3>3, <3>4, <3>5
  <2>. QED BY <1>1, <1>2, <1>3, <2>1 DEF StoreTypeOK
<1>4. ASSUME NEW r \in Request, Step(r) PROVE Verifies(r, u)
  <2>1. FrameInv(r)
    BY DEF IInv
  <2>2. ~SignUpCreateUser(r)
    <3> SUFFICES ASSUME SignUpCreateUser(r) PROVE FALSE
      OBVIOUS
    <3>1. users' = InsertUser(r, NewUser(input[r].email, FALSE, input[r].password, input[r].profile))
      BY <1>1 DEF SignUpCreateUser
    <3>. QED BY <1>1, <1>2, <3>1 DEF StoreTypeOK, InsertUser, NewUser
  <2>3. ~(SignInIncrement(r) \/ LogInIncrement(r))
    BY <1>1, <1>3, <2>1 DEF SignInIncrement, LogInIncrement, Discarding, FrameInv
  <2>4. ~(UpdateMeUpdate(r) \/ ChangePasswordUpdate(r))
    BY <1>1, <1>3, <2>1 DEF UpdateMeUpdate, ChangePasswordUpdate, FrameInv
  <2>5. ASSUME JITCreateUser(r) PROVE u = r /\ users'[u].email = tokens[local[r].token].email
    <3>1. users' = InsertUser(r, NewUser(tokens[local[r].token].email, TRUE, NoPassword, NoProfile))
      BY <1>1, <2>5 DEF JITCreateUser
    <3>. QED BY <1>1, <1>2, <3>1 DEF StoreTypeOK, InsertUser, NewUser
  <2>6. ASSUME LogInSetEmailVerified(r) \/ MarkEmailVerified(r) PROVE u = local[r].user
    <3>1. users' = SetEmailVerified(local[r].user)
      BY <1>1, <2>6 DEF LogInSetEmailVerified, MarkEmailVerified, Discarding
    <3>. QED BY <1>1, <1>2, <3>1 DEF StoreTypeOK, SetEmailVerified
  <2>. QED BY <1>1, <1>4, <2>2, <2>3, <2>4, <2>5, <2>6, StepLeads
           DEF Arrival, Writes, Continues, Changes, Verifies
<1>. QED
  BY <1>1, <1>3, <1>4 DEF Next, Environment, Tick, Crash, Suspend, vars

\* An account marked verified stays so for a mail that was redeemed, and is so
\* marked by the request that redeemed it.
LEMMA VerifiedKept ==
    ASSUME IInv, HistoryInv, [Next]_vars, Onward
    PROVE  VerifiedOnlyByMailbox'
<1> SUFFICES ASSUME NEW u \in Request, users'[u] # None, users'[u].verified
             PROVE  \E t \in mailed' : tokens'[t].consumed /\ tokens'[t].email = users'[u].email
  BY DEF VerifiedOnlyByMailbox
<1>1. RuntimeTypeOK /\ ConsumedInv /\ mailed \subseteq mailed'
  BY DEF IInv, TypeOK, Onward
<1>2. \A t \in Request : tokens[t] # None =>
          /\ tokens'[t].email = tokens[t].email
          /\ tokens[t].consumed => tokens'[t].consumed
  BY DEF Onward, TablesGrow, TokensGrow
<1>3. \A v \in Request : users[v] # None => users'[v].email = users[v].email
  BY AddressKept
<1>4. CASE users[u] # None /\ users[u].verified
  <2>1. PICK t \in mailed : tokens[t].consumed /\ tokens[t].email = users[u].email
    BY <1>4 DEF HistoryInv, VerifiedOnlyByMailbox
  <2>2. t \in Request /\ tokens[t] # None
    BY <1>1 DEF RuntimeTypeOK, HistoryInv, HistoryOf, MailedGuard
  <2>. QED BY <1>1, <1>2, <1>3, <1>4, <2>1, <2>2
<1>5. CASE users[u] = None \/ ~users[u].verified
  <2>1. PICK r \in Request : Verifies(r, u)
    BY <1>5, VerifiedBy
  <2> DEFINE t == audit[r].consumed
  <2>2. FrameInv(r) /\ MailboxGuard(r) /\ OwnerGuard(r)
    BY DEF IInv, HistoryInv, HistoryOf
  <2>3. t # None /\ users'[u].email = tokens[t].email
    <3>1. CASE LogInSetEmailVerified(r) /\ u = local[r].user
      BY <1>3, <2>2, <3>1 DEF LogInSetEmailVerified, FrameInv, OwnerGuard, Amid, LoggingIn
    <3>2. CASE MarkEmailVerified(r) /\ u = local[r].user
      BY <1>3, <2>2, <3>2 DEF MarkEmailVerified, FrameInv, OwnerGuard, Amid
    <3>3. CASE JITCreateUser(r) /\ users'[u].email = tokens[local[r].token].email
      BY <2>2, <3>3 DEF JITCreateUser, OwnerGuard, Amid, LoggingIn
    <3>. QED BY <2>1, <3>1, <3>2, <3>3 DEF Verifies
  <2>4. t \in mailed /\ t \in Request /\ tokens[t] # None /\ tokens[t].consumed
    BY <1>1, <2>2, <2>3 DEF MailboxGuard, RuntimeTypeOK, Audit, ConsumedInv
  <2>. QED BY <1>1, <1>2, <2>3, <2>4
<1>. QED
  BY <1>4, <1>5

\* What a sign-out-all revokes of what request r noted: the sessions of the account
\* let in.
RevokesKnown(r) ==
    \A s \in audit[r].sessions : sessions[s].user = audit[r].who => sessions[s].revoked

\* What a password change revokes of them: those that are not the caller's own.
RevokesOthers(r) ==
    \A s \in audit[r].sessions \ {input[r].cred} :
        sessions[s].user = audit[r].who => sessions[s].revoked

\* Sessions once revoked stay so, and stay with their account.
LEMMA RevokedStay ==
    ASSUME IInv, HistoryInv, Onward, NEW q \in Request, audit'[q] = audit[q],
           NEW s \in audit[q].sessions,
           sessions[s].user = audit[q].who => sessions[s].revoked
    PROVE  sessions'[s].user = audit'[q].who => sessions'[s].revoked
<1>1. s \in Request /\ sessions[s] # None
  BY DEF IInv, TypeOK, RuntimeTypeOK, Audit, HistoryInv, HistoryOf, SnapshotInv
<1>. QED
  BY <1>1 DEF Onward, TablesGrow, SessionsGrow

\* RevokeAllByUserID revokes them all.
LEMMA AllRevoked ==
    ASSUME IInv, HistoryInv, NEW q \in Request, audit'[q] = audit[q],
           sessions' = RevokeAllByUserID(audit[q].who)
    PROVE  RevokesKnown(q)'
<1> SUFFICES ASSUME NEW s \in audit[q].sessions, sessions'[s].user = audit[q].who
             PROVE  sessions'[s].revoked
  BY DEF RevokesKnown
<1>1. s \in Request /\ sessions[s] # None /\ sessions[s] \in SessionRow
  BY DEF IInv, TypeOK, StoreTypeOK, RuntimeTypeOK, Audit, HistoryInv, HistoryOf, SnapshotInv
<1>2. [sessions[s] EXCEPT !.revoked = TRUE].user = sessions[s].user
  BY <1>1 DEF SessionRow
<1>3. [sessions[s] EXCEPT !.revoked = TRUE].revoked
  BY <1>1 DEF SessionRow
<1>4. sessions'[s] \in {sessions[s], [sessions[s] EXCEPT !.revoked = TRUE]}
  BY <1>1 DEF RevokeAllByUserID
<1>5. sessions[s].user = audit[q].who
  BY <1>2, <1>4
<1>6. sessions'[s] = [sessions[s] EXCEPT !.revoked = TRUE]
  BY <1>1, <1>5 DEF RevokeAllByUserID
<1>. QED
  BY <1>3, <1>6

\* Sign-out-all answers with success after RevokeAllByUserID did.
LEMMA SignOutAllKept ==
    ASSUME IInv, HistoryInv, NEW q \in Request, Course(q),
           input'[q].op = "SignOutAll", reply'[q] = "ok"
    PROVE  RevokesKnown(q)'
<1>1. RuntimeTypeOK /\ Onward /\ AnswerGuard(q)
  BY CourseIsOnward DEF HistoryInv, HistoryOf
<1>2. ASSUME input'[q] = input[q], reply'[q] = reply[q], audit'[q] = audit[q]
      PROVE  RevokesKnown(q)'
  <2>1. RevokesKnown(q)
    BY <1>2 DEF HistoryInv, SignOutAllRevokesKnown, RevokesKnown
  <2>. QED BY <1>1, <1>2, <2>1, RevokedStay DEF RevokesKnown
<1>3. CASE Arrival(q)
  BY <1>1, <1>3 DEF Arrival, AuthenticatedOps, AnswerGuard
<1>4. CASE Continues(q)
  <2>1. CASE reply' = reply
    BY <1>1, <1>2, <1>4, <2>1 DEF AnswerGuard, Continues
  <2>2. CASE AuthGetSession(q) \/ AuthGetUser(q) \/ AuthUpdateLastActive(q)
    <3>1. reply' = reply
      BY <1>1, <1>4, <2>2 DEF Continues, AuthGetSession, AuthGetUser, AuthUpdateLastActive,
                              QueryFails, Answer, Proceed, RuntimeTypeOK
    <3>. QED BY <2>1, <3>1
  <2>3. CASE SignOutAllRevokeAll(q)
    <3>1. sessions' = RevokeAllByUserID(local[q].user) /\ audit' = audit
      BY <1>1, <2>3 DEF SignOutAllRevokeAll, OnlySessions, Unacknowledged, Answer, RuntimeTypeOK
    <3>2. audit[q].who = local[q].user
      BY <1>1, <2>3 DEF SignOutAllRevokeAll, AuthenticatedOps, Amid, AnswerGuard
    <3>. QED BY <3>1, <3>2, AllRevoked
  <2>. QED BY <1>4, <2>1, <2>2, <2>3 DEF Continues, Answers
<1>. QED
  BY <1>2, <1>3, <1>4 DEF Course, Undisturbed

\* So does a password change, where no statement fails: the caller's session may
\* be set aside, as it is revoked with the others.
LEMMA ChangePasswordKept ==
    ASSUME IInv, HistoryInv, ~DBFaults, NEW q \in Request, Course(q),
           input'[q].op = "ChangePassword", reply'[q] = "ok"
    PROVE  RevokesOthers(q)'
<1>1. RuntimeTypeOK /\ Onward /\ AnswerGuard(q)
  BY CourseIsOnward DEF HistoryInv, HistoryOf
<1>2. ASSUME input'[q] = input[q], reply'[q] = reply[q], audit'[q] = audit[q]
      PROVE  RevokesOthers(q)'
  <2>1. RevokesOthers(q)
    BY <1>2 DEF HistoryInv, ChangePasswordRevokesOthers, RevokesOthers
  <2>. QED BY <1>1, <1>2, <2>1, RevokedStay DEF RevokesOthers
<1>3. CASE Arrival(q)
  BY <1>1, <1>3 DEF Arrival, AuthenticatedOps, AnswerGuard
<1>4. CASE Continues(q)
  <2>1. CASE reply' = reply
    BY <1>1, <1>2, <1>4, <2>1 DEF AnswerGuard, Continues
  <2>2. CASE \/ AuthGetSession(q) \/ AuthGetUser(q) \/ AuthUpdateLastActive(q)
             \/ ChangePasswordGetById(q) \/ ChangePasswordUpdate(q)
    <3>1. reply' = reply
      BY <1>1, <1>4, <2>2 DEF Continues, AuthGetSession, AuthGetUser, AuthUpdateLastActive,
                              ChangePasswordGetById, ChangePasswordUpdate, Unacknowledged,
                              QueryFails, Answer, Proceed, RuntimeTypeOK
    <3>. QED BY <2>1, <3>1
  <2>3. CASE ChangePasswordRevokeAll(q)
    <3>1. sessions' = RevokeAllByUserID(local[q].user) /\ audit' = audit
      BY <2>3 DEF ChangePasswordRevokeAll, OnlySessions, Discarding
    <3>2. audit[q].who = local[q].user
      BY <1>1, <2>3 DEF ChangePasswordRevokeAll, AuthenticatedOps, Amid, AnswerGuard
    <3>3. RevokesKnown(q)'
      BY <3>1, <3>2, AllRevoked
    <3>. QED BY <3>3 DEF RevokesKnown, RevokesOthers
  <2>. QED BY <1>4, <2>1, <2>2, <2>3 DEF Continues, Answers
<1>. QED
  BY <1>2, <1>3, <1>4 DEF Course, Undisturbed

\* A sign-out the service is content with has revoked its session, or has read it
\* revoked.
LEMMA SignOutKept ==
    ASSUME IInv, HistoryInv, NEW q \in Request, Course(q),
           input'[q].op = "SignOut", reply'[q] \in {"ok", "session_not_found"},
           input'[q].cred \in audit'[q].sessions
    PROVE  sessions'[input'[q].cred].revoked
<1> DEFINE s == input[q].cred
<1>1. RuntimeTypeOK /\ StoreTypeOK /\ Onward /\ AnswerGuard(q) /\ SnapshotInv(q)
  BY CourseIsOnward DEF HistoryInv, HistoryOf
<1>2. s \in audit[q].sessions => s \in Request /\ sessions[s] # None
  BY <1>1 DEF RuntimeTypeOK, Audit, SnapshotInv
<1>3. ASSUME input'[q] = input[q], s \in audit[q].sessions, sessions[s].revoked
      PROVE  sessions'[input'[q].cred].revoked
  BY <1>1, <1>2, <1>3 DEF Onward, TablesGrow, SessionsGrow
<1>4. ASSUME input'[q] = input[q], reply'[q] = reply[q], audit'[q] = audit[q]
      PROVE  sessions'[input'[q].cred].revoked
  BY <1>3, <1>4 DEF HistoryInv, SignOutRevokes
<1>5. CASE Arrival(q)
  <2>1. audit'[q].sessions \subseteq Request
    BY <1>5 DEF Arrival, Observed, NoAudit, ExistingSessions
  <2>. QED BY <1>1, <1>5, <2>1, NoneAssumption DEF Arrival, AnswerGuard
<1>6. CASE Continues(q)
  <2>1. input'[q] = input[q] /\ input[q].op = "SignOut" /\ s \in audit[q].sessions
    BY <1>6 DEF Continues, Notes, ChangePasswordUpdate
  <2>2. CASE reply' = reply
    BY <1>6, <2>1, <2>2, <1>3 DEF HistoryInv, SignOutRevokes
  <2>3. CASE SignOutGetSession(q)
    <3>1. reply' = reply \/ LiveSessions(s) = {}
      BY <1>1, <2>3 DEF SignOutGetSession, QueryFails, Answer, Proceed, RuntimeTypeOK
    <3>2. CASE LiveSessions(s) = {}
      <4>1. sessions[s].revoked
        BY <1>2, <2>1, <3>2 DEF LiveSessions
      <4>. QED BY <1>3, <2>1, <4>1
    <3>. QED BY <2>2, <3>1, <3>2
  <2>4. CASE SignOutRevoke(q)
    <3>1. CASE sessions[s].revoked
      BY <1>3, <2>1, <3>1
    <3>2. CASE ~sessions[s].revoked
      <4>1. sessions' = RevokeSession(s)
        BY <1>1, <2>4, <3>2 DEF SignOutRevoke, Unacknowledged, Answer, RuntimeTypeOK
      <4>2. sessions'[s] = [sessions[s] EXCEPT !.revoked = TRUE] /\ sessions[s] \in SessionRow
        BY <1>1, <1>2, <2>1, <4>1 DEF StoreTypeOK, RevokeSession
      <4>3. [sessions[s] EXCEPT !.revoked = TRUE].revoked
        BY <4>2 DEF SessionRow
      <4>. QED BY <2>1, <4>2, <4>3
    <3>. QED BY <3>1, <3>2
  <2>. QED BY <1>6, <2>1, <2>2, <2>3, <2>4 DEF Continues, Answers
<1>. QED
  BY <1>4, <1>5, <1>6 DEF Course, Undisturbed

-----------------------------------------------------------------------------
\* The empty database has no history.
LEMMA InitHistory ==
    ASSUME Init
    PROVE  HistoryInv
<1>1. ASSUME NEW r \in Request PROVE HistoryOf(r)
  BY NoneAssumption
  DEF Init, StoreInit, NoAudit, NoInput, AuthenticatedOps, CodeOps, HistoryOf, SnapshotInv,
      SessionGuard, AccountGuard, TokenGuard, MailboxGuard, OwnerGuard, MailedGuard, AnswerGuard,
      ErrorGuard, Amid
<1>2. TokenRowInv /\ SessionHasProvenOwner /\ VerifiedOnlyByMailbox
  BY DEF Init, StoreInit, TokenRowInv, SessionHasProvenOwner, VerifiedOnlyByMailbox
<1>3. SignOutRevokes /\ SignOutAllRevokesKnown /\ ChangePasswordRevokesOthers
  BY DEF Init, NoInput, SignOutRevokes, SignOutAllRevokesKnown, ChangePasswordRevokesOthers
<1>. QED
  BY <1>1, <1>2, <1>3 DEF HistoryInv

\* Every step preserves what the history shows.
LEMMA NextKeepsHistory ==
    ASSUME IInv, HistoryInv, [Next]_vars
    PROVE  HistoryInv'
<1>1. ASSUME NEW q \in Request PROVE Course(q)
  BY OwnStepOrNot, StepLeads DEF Course
<1>2. ASSUME NEW q \in Request PROVE HistoryOf(q)'
  BY <1>1, SnapshotKept, SessionGuardKept, AccountGuardKept, TokenGuardKept, MailboxGuardKept,
     OwnerGuardKept, MailedGuardKept, AnswerGuardKept, ErrorGuardKept DEF HistoryOf
<1>3. CASE Request = {}
  BY <1>3 DEF HistoryInv, TokenRowInv, SessionHasProvenOwner, VerifiedOnlyByMailbox,
              SignOutRevokes, SignOutAllRevokesKnown, ChangePasswordRevokesOthers
<1>4. CASE Request # {}
  <2>1. Onward
    BY <1>1, <1>4, CourseIsOnward
  <2>2. TokenRowInv'
    BY <1>1, TokenRowKept DEF TokenRowInv
  <2>3. SessionHasProvenOwner' /\ VerifiedOnlyByMailbox'
    BY <1>1, <2>1, OwnersKept, VerifiedKept
  <2>4. SignOutRevokes' /\ SignOutAllRevokesKnown'
    BY <1>1, SignOutKept, SignOutAllKept DEF SignOutRevokes, SignOutAllRevokesKnown, RevokesKnown
  <2>5. ~DBFaults => ChangePasswordRevokesOthers'
    BY <1>1, ChangePasswordKept DEF ChangePasswordRevokesOthers, RevokesOthers
  <2>. QED BY <1>2, <2>2, <2>3, <2>4, <2>5 DEF HistoryInv
<1>. QED
  BY <1>3, <1>4

-----------------------------------------------------------------------------
\* In every reachable state the history agrees with what the requests were let do.
THEOREM HistoryHolds == Spec => []HistoryInv
BY InitHistory, NextKeepsHistory, InvariantHolds, PTL DEF Spec

\* A session that was revoked or had expired when a request came in lets that
\* request through to no account, however slowly it is handled.
THEOREM DeadSessionsRefused == Spec => []DeadSessionRefused
<1>1. HistoryInv => DeadSessionRefused
  BY DEF HistoryInv, HistoryOf, SessionGuard, DeadSessionRefused
<1>. QED
  BY <1>1, HistoryHolds, PTL

\* An account suspended or deleted before a request came in is not let in by it and
\* gets no session from it, though its status is read once and used two statements
\* later.
THEOREM InactiveUsersRefused == Spec => []InactiveUserRefused
<1>1. HistoryInv => InactiveUserRefused
  BY DEF HistoryInv, HistoryOf, AccountGuard, InactiveUserRefused
<1>. QED
  BY <1>1, HistoryHolds, PTL

\* A token consumed, expired or out of attempts when a request came in is not
\* redeemed by it.
THEOREM DeadTokensRefused == Spec => []DeadTokenRefused
<1>1. HistoryInv => DeadTokenRefused
  BY DEF HistoryInv, HistoryOf, TokenGuard, LiveOnArrival, CodeOps, DeadTokenRefused
<1>. QED
  BY <1>1, HistoryHolds, PTL

\* Every session belongs to the account its request proved a right to: by sign-up,
\* by the address of a sign-in, or by the mailbox of the token it consumed.
THEOREM SessionsHaveProvenOwners == Spec => []SessionHasProvenOwner
<1>1. HistoryInv => SessionHasProvenOwner
  BY DEF HistoryInv
<1>. QED
  BY <1>1, HistoryHolds, PTL

\* An account is marked verified only for a mail to its address that was redeemed.
THEOREM OnlyMailboxesVerify == Spec => []VerifiedOnlyByMailbox
<1>1. HistoryInv => VerifiedOnlyByMailbox
  BY DEF HistoryInv
<1>. QED
  BY <1>1, HistoryHolds, PTL

\* A sign-out the service is content with leaves its session revoked for good.
THEOREM SignOutsRevoke == Spec => []SignOutRevokes
<1>1. HistoryInv => SignOutRevokes
  BY DEF HistoryInv
<1>. QED
  BY <1>1, HistoryHolds, PTL

\* A sign-out of all sessions that reports success has revoked every session the
\* account had when it came in, even if statements fail.
THEOREM SignOutAllsRevoke == Spec => []SignOutAllRevokesKnown
<1>1. HistoryInv => SignOutAllRevokesKnown
  BY DEF HistoryInv
<1>. QED
  BY <1>1, HistoryHolds, PTL

\* A password change that reports success has revoked every session but the
\* caller's that the account had when the new hash was stored, if no statement
\* fails: its code discards the error of the revocation.
THEOREM PasswordChangesRevoke == Spec => [](~DBFaults => ChangePasswordRevokesOthers)
<1>1. HistoryInv => (~DBFaults => ChangePasswordRevokesOthers)
  BY DEF HistoryInv
<1>. QED
  BY <1>1, HistoryHolds, PTL

\* As long as the database works, a client is told of an internal server error only
\* when it signs in to a deleted account.
THEOREM ServerErrorsOnlyForDeleted == Spec => []ServerErrorOnlyForDeleted
<1>1. IInv /\ HistoryInv => ServerErrorOnlyForDeleted
  BY DEF IInv, TypeOK, RuntimeTypeOK, Refusal, HistoryInv, HistoryOf, ErrorGuard, MetDeleted,
         ServerErrorOnlyForDeleted, Status, StatusOf
<1>. QED
  BY <1>1, InvariantHolds, HistoryHolds, PTL
=============================================================================
