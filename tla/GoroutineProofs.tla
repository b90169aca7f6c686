-------------------------- MODULE GoroutineProofs ---------------------------
(***************************************************************************)
(* What the statements of the three repositories do to the tables: each    *)
(* adds one row at most and keeps what the handlers rely on.  And what all *)
(* handlers have in common: a step that answers, goes on with a call whose *)
(* needs are at hand, or receives a request that carries what its first    *)
(* call needs, preserves the inductive invariant.                          *)
(***************************************************************************)
EXTENDS AuthInvariant, TLAPS

(* The tables. *)

\* What a step may do to table users: accounts keep their address, once verified
\* or not active they stay so, their sign-ins are never uncounted, and at most row
\* r is added, with an address that was free.
UsersGrow(r) ==
    /\ users' \in [Request -> UserRow \cup {None}]
    /\ \A u \in Request : users[u] # None =>
            /\ users'[u] # None
            /\ users'[u].email = users[u].email
            /\ users[u].verified => users'[u].verified
            /\ users[u].status # "active" => users'[u].status = users[u].status
            /\ users'[u].signIns >= users[u].signIns
    /\ \A u \in Request \ {r} : users'[u] # None => users[u] # None
    /\ users[r] = None /\ users'[r] # None => UsersByEmail(users'[r].email) = {}

\* To table sessions: sessions keep their account and end and stay revoked, and at
\* most row r is added, for an account that exists.
SessionsGrow(r) ==
    /\ sessions' \in [Request -> SessionRow \cup {None}]
    /\ \A s \in Request : sessions[s] # None =>
            /\ sessions'[s] # None
            /\ sessions'[s].user = sessions[s].user
            /\ sessions'[s].expires = sessions[s].expires
            /\ sessions[s].revoked => sessions'[s].revoked
    /\ \A s \in Request \ {r} : sessions'[s] # None => sessions[s] # None
    /\ sessions[r] = None /\ sessions'[r] # None => users[sessions'[r].user] # None

\* To table verification_tokens: rows keep all they were issued with and stay
\* consumed, no attempt is forgotten, at most row r is added, unconsumed, and one
\* row changes at most.
TokensGrow(r) ==
    /\ tokens' \in [Request -> TokenRow \cup {None}]
    /\ \A t \in Request : tokens[t] # None =>
            /\ tokens'[t] # None
            /\ tokens'[t].type = tokens[t].type
            /\ tokens'[t].user = tokens[t].user
            /\ tokens'[t].email = tokens[t].email
            /\ tokens'[t].code = tokens[t].code
            /\ tokens'[t].created = tokens[t].created
            /\ tokens'[t].expires = tokens[t].expires
            /\ tokens'[t].attempts >= tokens[t].attempts
            /\ tokens[t].consumed => tokens'[t].consumed
    /\ \A t \in Request \ {r} : tokens'[t] # None => tokens[t] # None
    /\ tokens[r] = None /\ tokens'[r] # None /\ tokens'[r].type = "email_verification" =>
            tokens'[r].user \in Request /\ users[tokens'[r].user] # None
    /\ tokens[r] = None /\ tokens'[r] # None => ~tokens'[r].consumed
    /\ \E t \in Request : \A u \in Request \ {t} : tokens'[u] = tokens[u]

TablesGrow(r) == UsersGrow(r) /\ SessionsGrow(r) /\ TokensGrow(r)

-----------------------------------------------------------------------------
\* A step that leaves the table alone is harmless to it.
LEMMA UsersStay ==
    ASSUME StoreTypeOK, NEW r \in Request, users' = users
    PROVE  UsersGrow(r)
BY DEF StoreTypeOK, UserRow, UsersGrow

\* The same of sessions.
LEMMA SessionsStay ==
    ASSUME StoreTypeOK, NEW r \in Request, sessions' = sessions
    PROVE  SessionsGrow(r)
BY DEF StoreTypeOK, SessionsGrow

\* The same of tokens.
LEMMA TokensStay ==
    ASSUME StoreTypeOK, NEW r \in Request, tokens' = tokens
    PROVE  TokensGrow(r)
BY DEF StoreTypeOK, TokenRow, TokensGrow

\* Create of the user repository adds row r, or nothing where the address is taken.
LEMMA RowAdded ==
    ASSUME StoreTypeOK, NEW r \in Request, NEW row \in UserRow, users[r] = None,
           users' = InsertUser(r, row)
    PROVE  UsersGrow(r)
BY RowAssumption DEF StoreTypeOK, UserRow, UsersGrow, InsertUser, EmailTaken, UsersByEmail

\* Row `next` is what an UPDATE may leave of account row `row`.
AccountKept(row, next) ==
    /\ next \in UserRow
    /\ next.email = row.email
    /\ row.verified => next.verified
    /\ row.status # "active" => next.status = row.status
    /\ next.signIns >= row.signIns

\* An UPDATE that leaves such a row keeps the table in order.
LEMMA UserReplaced ==
    ASSUME StoreTypeOK, NEW r \in Request, NEW u \in Request, users[u] # None,
           NEW row, AccountKept(users[u], row),
           users' = [users EXCEPT ![u] = row]
    PROVE  UsersGrow(r)
BY RowAssumption DEF StoreTypeOK, UserRow, UsersGrow, AccountKept

\* Each of the four UPDATEs of the user repository is such an UPDATE.
LEMMA UserWritten ==
    ASSUME StoreTypeOK, NEW r \in Request, NEW u \in Request, users[u] # None,
           \/ \E p \in Profile : users' = UpdateProfile(u, p)
           \/ \E p \in Password : users' = UpdatePassword(u, p)
           \/ users' = IncrementSignInCount(u)
           \/ users' = SetEmailVerified(u)
    PROVE  UsersGrow(r)
<1>1. users[u] \in UserRow
  BY DEF StoreTypeOK
<1>2. ASSUME NEW p \in Profile, users' = UpdateProfile(u, p)
      PROVE  UsersGrow(r)
  <2>1. AccountKept(users[u], [users[u] EXCEPT !.profile = p])
    BY <1>1 DEF UserRow, AccountKept
  <2>. QED BY <1>2, <2>1, UserReplaced DEF UpdateProfile
<1>3. ASSUME NEW p \in Password, users' = UpdatePassword(u, p)
      PROVE  UsersGrow(r)
  <2>1. AccountKept(users[u], [users[u] EXCEPT !.password = p])
    BY <1>1 DEF UserRow, AccountKept
  <2>. QED BY <1>3, <2>1, UserReplaced DEF UpdatePassword
<1>4. CASE users' = IncrementSignInCount(u)
  <2>1. AccountKept(users[u], [users[u] EXCEPT !.signIns = @ + 1])
    BY <1>1 DEF UserRow, AccountKept
  <2>. QED BY <1>4, <2>1, UserReplaced DEF IncrementSignInCount
<1>5. CASE users' = SetEmailVerified(u)
  <2> DEFINE next == [users[u] EXCEPT !.verified = TRUE]
  <2>1. next.verified
    BY <1>1 DEF UserRow
  <2>2. /\ next \in UserRow /\ next.email = users[u].email
        /\ next.status = users[u].status /\ next.signIns = users[u].signIns
    BY <1>1 DEF UserRow
  <2>3. users[u].signIns \in Nat
    BY <1>1 DEF UserRow
  <2> HIDE DEF next
  <2>4. AccountKept(users[u], next)
    BY <2>1, <2>2, <2>3 DEF AccountKept
  <2>. QED BY <1>5, <2>4, UserReplaced DEF SetEmailVerified, next
<1>. QED
  BY <1>2, <1>3, <1>4, <1>5

\* Create of the session repository adds row r.
LEMMA SessionAdded ==
    ASSUME StoreTypeOK, NEW r \in Request, NEW u \in Request, NEW at \in Nat,
           sessions[r] = None, users[u] # None, sessions' = InsertSession(r, u, at)
    PROVE  SessionsGrow(r)
BY RowAssumption, DurationAssumption DEF StoreTypeOK, SessionsGrow, InsertSession, SessionRow

\* An UPDATE that keeps the session's account and end and does not revive it keeps
\* the table in order.
LEMMA SessionReplaced ==
    ASSUME StoreTypeOK, NEW r \in Request, NEW s \in Request, sessions[s] # None,
           NEW row \in SessionRow, row.user = sessions[s].user,
           row.expires = sessions[s].expires, sessions[s].revoked => row.revoked,
           sessions' = [sessions EXCEPT ![s] = row]
    PROVE  SessionsGrow(r)
BY RowAssumption DEF StoreTypeOK, SessionsGrow

\* Revoke and UpdateLastActive are such UPDATEs.
LEMMA SessionWritten ==
    ASSUME StoreTypeOK, NEW r \in Request, NEW s \in Request, sessions[s] # None,
           \/ sessions' = RevokeSession(s)
           \/ sessions' = UpdateLastActive(s)
    PROVE  SessionsGrow(r)
<1>1. sessions[s] \in SessionRow /\ now \in Nat
  BY DEF StoreTypeOK
<1>2. CASE sessions' = RevokeSession(s)
  <2>1. [sessions[s] EXCEPT !.revoked = TRUE] \in SessionRow
    BY <1>1 DEF SessionRow
  <2>2. LET row == [sessions[s] EXCEPT !.revoked = TRUE]
        IN  /\ row.user = sessions[s].user /\ row.expires = sessions[s].expires
            /\ sessions[s].revoked => row.revoked
    BY <1>1 DEF SessionRow
  <2>. QED BY <1>2, <2>1, <2>2, SessionReplaced DEF RevokeSession
<1>3. CASE sessions' = UpdateLastActive(s)
  <2>1. [sessions[s] EXCEPT !.active = now] \in SessionRow
    BY <1>1 DEF SessionRow
  <2>2. LET row == [sessions[s] EXCEPT !.active = now]
        IN  /\ row.user = sessions[s].user /\ row.expires = sessions[s].expires
            /\ sessions[s].revoked => row.revoked
    BY <1>1 DEF SessionRow
  <2>. QED BY <1>3, <2>1, <2>2, SessionReplaced, SessionsStay DEF UpdateLastActive
<1>. QED
  BY <1>2, <1>3

\* RevokeAllByUserID changes no session's account, whomever it is asked about.
LEMMA SessionsRevoked ==
    ASSUME StoreTypeOK, NEW r \in Request, NEW u, sessions' = RevokeAllByUserID(u)
    PROVE  SessionsGrow(r)
<1>1. \A s \in Request : sessions[s] # None => [sessions[s] EXCEPT !.revoked = TRUE] \in SessionRow
  BY DEF StoreTypeOK, SessionRow
<1>. QED
  BY <1>1, RowAssumption DEF StoreTypeOK, SessionsGrow, RevokeAllByUserID, SessionRow

\* Create of the token repository adds row r.
LEMMA TokenAdded ==
    ASSUME StoreTypeOK, NEW r \in Request, tokens[r] = None,
           NEW row \in TokenRow,
           row.type = "email_verification" => row.user \in Request /\ users[row.user] # None,
           ~row.consumed, tokens' = InsertToken(r, row)
    PROVE  TokensGrow(r)
BY RowAssumption DEF StoreTypeOK, TokenRow, TokensGrow, InsertToken

\* Row `next` is what an UPDATE may leave of token row `row`.
TokenKept(row, next) ==
    /\ next \in TokenRow
    /\ next.type = row.type /\ next.user = row.user
    /\ next.email = row.email /\ next.code = row.code
    /\ next.created = row.created /\ next.expires = row.expires
    /\ next.attempts >= row.attempts
    /\ row.consumed => next.consumed

\* An UPDATE that leaves such a row keeps the table in order.
LEMMA TokenReplaced ==
    ASSUME StoreTypeOK, NEW r \in Request, NEW t \in Request, tokens[t] # None,
           NEW row, TokenKept(tokens[t], row),
           tokens' = [tokens EXCEPT ![t] = row]
    PROVE  TokensGrow(r)
BY RowAssumption DEF StoreTypeOK, TokenRow, TokensGrow, TokenKept

\* IncrementAttempts and MarkConsumed are such UPDATEs.
LEMMA TokenWritten ==
    ASSUME StoreTypeOK, NEW r \in Request, NEW t \in Request, tokens[t] # None,
           \/ tokens' = IncrementAttempts(t)
           \/ tokens' = MarkConsumed(t)
    PROVE  TokensGrow(r)
<1>1. tokens[t] \in TokenRow
  BY DEF StoreTypeOK
<1>2. CASE tokens' = IncrementAttempts(t)
  <2>1. TokenKept(tokens[t], [tokens[t] EXCEPT !.attempts = @ + 1])
    BY <1>1 DEF TokenRow, TokenKept
  <2>. QED BY <1>2, <2>1, TokenReplaced DEF IncrementAttempts
<1>3. CASE tokens' = MarkConsumed(t)
  <2> DEFINE next == [tokens[t] EXCEPT !.consumed = TRUE]
  <2>1. next.consumed
    BY <1>1 DEF TokenRow
  <2>2. /\ next \in TokenRow /\ next.type = tokens[t].type /\ next.user = tokens[t].user
        /\ next.email = tokens[t].email /\ next.code = tokens[t].code
        /\ next.created = tokens[t].created /\ next.expires = tokens[t].expires
        /\ next.attempts = tokens[t].attempts
    BY <1>1 DEF TokenRow
  <2>3. tokens[t].attempts \in Nat
    BY <1>1 DEF TokenRow
  <2> HIDE DEF next
  <2>4. TokenKept(tokens[t], next)
    BY <2>1, <2>2, <2>3 DEF TokenKept
  <2>. QED BY <1>3, <2>4, TokenReplaced, TokensStay DEF MarkConsumed, next
<1>. QED
  BY <1>2, <1>3

-----------------------------------------------------------------------------
(* The goroutines. *)

\* What the invariant says of one request.
Own(r) == InputInv(r) /\ FrameInv(r) /\ FreshInv(r)

\* A step of goroutine r touches no variable of another.
Others(r) == \A q \in Request \ {r} :
    /\ pc'[q] = pc[q] /\ input'[q] = input[q] /\ local'[q] = local[q]
    /\ reply'[q] = reply[q] /\ job'[q] = job[q] /\ audit'[q] = audit[q]

\* A step of r leaves alone which token r consumed, or consumes the first one.
Redeems(r) ==
    \/ audit'[r].consumed = audit[r].consumed
    \/ /\ audit[r].consumed = None /\ audit'[r].consumed \in Request
       /\ Consumable(audit'[r].consumed)
       /\ tokens'[audit'[r].consumed] # None
       /\ tokens'[audit'[r].consumed].consumed

\* What every step of every handler does, and all that the invariant needs of it.
Kept(r) ==
    /\ TablesGrow(r) /\ now' = now /\ mailed \subseteq mailed' /\ RuntimeTypeOK'
    /\ Others(r) /\ Own(r)' /\ Redeems(r)

\* What a step writes in the history.
Noted(r) ==
    /\ audit' \in [Request -> Audit]
    /\ \A q \in Request \ {r} : audit'[q] = audit[q]
    /\ Redeems(r)

\* What a step of goroutine r does besides moving the goroutine itself.
Elsewhere(r) ==
    /\ TablesGrow(r) /\ Noted(r)
    /\ UNCHANGED <<now, input, job>>
    /\ mailed \subseteq mailed' /\ mailed' \in SUBSET Request

\* What a goroutine must have at hand to go on with a call on the given frame.
Ready(r, call, frame) ==
    /\ call \in AccountCalls => frame.user \in Request /\ users'[frame.user] # None
    /\ call \in SessionCalls => input[r].cred \in Request /\ sessions[input[r].cred] # None
    /\ call \in TokenCalls \cup {"CreateUser"} =>
          frame.token \in Request /\ tokens[frame.token] # None
    /\ call = "CreateUser" => At(r, LogInOps, "FindUser") /\ frame.user = r
    /\ call \in {"IncrementAttempts", "MarkConsumed"} /\ input[r].op \in VerifyEmailOps =>
          tokens[frame.token].type = "email_verification"
    /\ call = "CreateSession" /\ input[r].op = "SignUp" =>
          input[r].email \in Address /\ frame.user = r
    /\ users'[r] # None => call = "CreateSession"
    /\ sessions'[r] = None
    /\ tokens'[r] # None => call = "Mail"
    /\ audit'[r].consumed # None => call \notin PendingCalls

\* What a request may carry so that the calls it leads to can rely on it.
Fit(r, request, call, frame) ==
    /\ call \in {"CreateUser", "GetByEmail", "GetSession", "GetLatest", "GetToken"}
    /\ call = "CreateUser" =>
          /\ request.op = "SignUp" /\ frame.user = r
          /\ request.email \in Address
          /\ request.password \in Password
          /\ request.profile \in Profile
    /\ request.op \in {"SendMagicLink", "SendOTP"} => request.email \in Address
    /\ request.op = "UpdateMe" => request.profile \in Profile
    /\ request.op = "ChangePassword" => request.newPassword \in Password

-----------------------------------------------------------------------------
\* A step that writes nothing there is harmless to the history.
LEMMA NothingNoted ==
    ASSUME RuntimeTypeOK, NEW r \in Request, audit' = audit
    PROVE  Noted(r)
BY DEF RuntimeTypeOK, Noted, Redeems

\* An answer, whatever else the step does, leaves nothing to rely on: once the
\* remaining effects of the step are harmless, so is the step.
LEMMA Answered ==
    ASSUME IInv, NEW r \in Request, pc[r] \in Call,
           Elsewhere(r),
           NEW outcome \in Refusal \cup {"ok"}, Answer(r, outcome)
    PROVE  Kept(r)
<1>1. TypeOK /\ RuntimeTypeOK /\ Own(r)
  BY DEF IInv, TypeOK, Own
<1>2. Blank \in Frame
  BY DEF Blank, Frame, UserStatus
<1>3. pc[r] \notin {"new", "done", "lost"}
  BY DEF Call
<1>4. pc'[r] = "done" /\ job'[r] = job[r] /\ input'[r] = input[r]
  BY <1>1 DEF Answer, RuntimeTypeOK, Elsewhere
<1>5. RuntimeTypeOK'
  BY <1>1, <1>2 DEF RuntimeTypeOK, Answer, Elsewhere, Noted
<1>6. Others(r)
  BY <1>1 DEF Others, RuntimeTypeOK, Answer, Elsewhere, Noted
<1>7. job[r] = "none"
  BY <1>1, <1>3 DEF Own, FreshInv
<1>8. Own(r)'
  BY <1>4, <1>7 DEF Own, InputInv, FrameInv, FreshInv, At, Call, AccountCalls,
      SessionCalls, TokenCalls, PendingCalls
<1>. QED
  BY <1>5, <1>6, <1>8 DEF Kept, Elsewhere, Noted

\* A step that goes on with a call is harmless when what the call needs is at hand.
LEMMA Proceeded ==
    ASSUME IInv, NEW r \in Request, pc[r] \in Call,
           Elsewhere(r),
           NEW call \in Call, NEW frame \in Frame, Proceed(r, call, frame),
           Ready(r, call, frame)
    PROVE  Kept(r)
<1>1. RuntimeTypeOK /\ Own(r)
  BY DEF IInv, TypeOK, Own
<1>2. RuntimeTypeOK'
  BY <1>1 DEF RuntimeTypeOK, Proceed, Elsewhere, Noted
<1>3. Others(r)
  BY <1>1 DEF Others, RuntimeTypeOK, Proceed, Elsewhere, Noted
<1>4. /\ pc'[r] = call /\ local'[r] = frame /\ input'[r] = input[r]
      /\ job'[r] = job[r] /\ job[r] = "none"
  BY <1>1 DEF RuntimeTypeOK, Proceed, Own, FreshInv, Call, Elsewhere
<1>5. InputInv(r)'
  BY <1>1, <1>4 DEF Ready, Own, InputInv, At, Call, LogInOps
<1>6. FrameInv(r)'
  BY <1>4 DEF Ready, FrameInv, Elsewhere, TablesGrow, UsersGrow, SessionsGrow, TokensGrow,
              At, AccountCalls, SessionCalls, TokenCalls
<1>7. FreshInv(r)'
  BY <1>4 DEF Ready, FreshInv, Call
<1>. QED
  BY <1>2, <1>3, <1>5, <1>6, <1>7 DEF Kept, Elsewhere, Noted, Own

\* The invariant survives every step that does no more than Kept allows.
LEMMA KeptPreserves ==
    ASSUME IInv, NEW r \in Request, Kept(r)
    PROVE  IInv'
<1>1. TypeOK'
  BY DEF IInv, TypeOK, StoreTypeOK, Kept, TablesGrow, UsersGrow, SessionsGrow, TokensGrow
<1>2. \A q \in Request \ {r} : Own(q)'
  <2> SUFFICES ASSUME NEW q \in Request, q # r PROVE Own(q)'
    OBVIOUS
  <2>1. /\ Own(q) /\ pc'[q] = pc[q] /\ input'[q] = input[q] /\ local'[q] = local[q]
        /\ reply'[q] = reply[q] /\ job'[q] = job[q] /\ audit'[q] = audit[q]
    BY DEF IInv, Own, Kept, Others
  <2>2. InputInv(q)'
    BY <2>1 DEF Own, InputInv, At
  <2>3. FrameInv(q)'
    BY <2>1 DEF Own, FrameInv, At, Kept, TablesGrow, UsersGrow, SessionsGrow, TokensGrow,
                AccountCalls, SessionCalls, TokenCalls
  <2>4. FreshInv(q)'
    BY <2>1 DEF Own, FreshInv, Kept, TablesGrow, UsersGrow, SessionsGrow, TokensGrow
  <2>. QED BY <2>2, <2>3, <2>4 DEF Own
<1>3. RowInv'
  BY <1>1 DEF IInv, TypeOK, StoreTypeOK, SessionRow, RowInv, Kept, TablesGrow,
              UsersGrow, SessionsGrow, TokensGrow
<1>4. ConsumedInv'
  <2> SUFFICES ASSUME NEW q \in Request, audit'[q].consumed # None
               PROVE  /\ tokens'[audit'[q].consumed] # None
                      /\ tokens'[audit'[q].consumed].consumed
    BY DEF ConsumedInv
  <2>1. ASSUME audit'[q].consumed = audit[q].consumed
        PROVE  /\ tokens'[audit'[q].consumed] # None
               /\ tokens'[audit'[q].consumed].consumed
    <3>1. audit[q].consumed \in Request
      BY <2>1 DEF IInv, TypeOK, RuntimeTypeOK, Audit
    <3>. QED BY <2>1, <3>1 DEF IInv, ConsumedInv, Kept, TablesGrow, TokensGrow
  <2>2. CASE q # r
    BY <2>1, <2>2 DEF Kept, Others
  <2>3. CASE q = r
    BY <2>1, <2>3 DEF Kept, Redeems
  <2>. QED BY <2>2, <2>3
<1>5. UniqueEmail'
  BY DEF IInv, UniqueEmail, UsersByEmail, Kept, TablesGrow, UsersGrow
<1>6. SingleUse'
  BY DEF IInv, SingleUse, ConsumedInv, Consumable, Kept, Others, Redeems
<1>. QED
  BY <1>1, <1>2, <1>3, <1>4, <1>5, <1>6 DEF IInv, Kept, Own

-----------------------------------------------------------------------------
\* The lists of calls and endpoints are spelt out throughout.
USE DEF At, Call, AccountCalls, SessionCalls, TokenCalls, PendingCalls, LogInOps, VerifyEmailOps

\* A step that writes no table does nothing besides moving its goroutine.
LEMMA QueryIssued ==
    ASSUME IInv, NEW r \in Request, NoTable
    PROVE  Elsewhere(r)
BY UsersStay, SessionsStay, TokensStay, NothingNoted
DEF IInv, TypeOK, RuntimeTypeOK, NoTable, OnlyUsers, TablesGrow, Elsewhere

\* Nor does a step that writes users in a harmless way.
LEMMA UsersWritten ==
    ASSUME IInv, NEW r \in Request, UsersGrow(r), OnlyUsers
    PROVE  Elsewhere(r)
BY SessionsStay, TokensStay, NothingNoted
DEF IInv, TypeOK, RuntimeTypeOK, OnlyUsers, TablesGrow, Elsewhere

\* The same of a step that writes sessions.
LEMMA SessionsWritten ==
    ASSUME IInv, NEW r \in Request, SessionsGrow(r), OnlySessions
    PROVE  Elsewhere(r)
BY UsersStay, TokensStay, NothingNoted
DEF IInv, TypeOK, RuntimeTypeOK, OnlySessions, TablesGrow, Elsewhere

\* The same of a step that writes tokens.
LEMMA TokensWritten ==
    ASSUME IInv, NEW r \in Request, TokensGrow(r), OnlyTokens
    PROVE  Elsewhere(r)
BY UsersStay, SessionsStay, NothingNoted
DEF IInv, TypeOK, RuntimeTypeOK, OnlyTokens, TablesGrow, Elsewhere

\* The frames that the handlers build have the type of frames.
LEMMA FramesTyped ==
    ASSUME IInv, NEW r \in Request
    PROVE  /\ Blank \in Frame
           /\ [Blank EXCEPT !.at = now] \in Frame
           /\ local[r] \in Frame
           /\ [local[r] EXCEPT !.at = now] \in Frame
           /\ \A u \in Request : /\ [Blank EXCEPT !.user = u] \in Frame
                                 /\ [Blank EXCEPT !.user = u, !.at = now] \in Frame
                                 /\ [Blank EXCEPT !.token = u] \in Frame
                                 /\ [local[r] EXCEPT !.user = u] \in Frame
                                 /\ [local[r] EXCEPT !.user = u, !.at = now] \in Frame
<1>1. now \in Nat /\ local[r] \in Frame
  BY DEF IInv, TypeOK, StoreTypeOK, RuntimeTypeOK
<1>. QED
  BY <1>1 DEF Blank, Frame, UserStatus

\* So has the history a request starts with.
LEMMA ObservedIsAudit == Observed \in Audit
<1>1. NoAudit \in Audit
  BY DEF NoAudit, Audit
<1>. QED
  BY <1>1 DEF Observed, Audit, ExistingSessions

\* Receiving a request is harmless when it carries what its first call needs.
LEMMA Received ==
    ASSUME IInv, NEW r \in Request, pc[r] = "new", NEW request \in Input, Receive(r, request),
           \/ \E outcome \in Refusal \cup {"ok"} : Answer(r, outcome)
           \/ \E call \in Call, frame \in Frame :
                  Fit(r, request, call, frame) /\ Proceed(r, call, frame)
    PROVE  Kept(r)
<1>1. TypeOK /\ StoreTypeOK /\ RuntimeTypeOK /\ Own(r)
  BY DEF IInv, TypeOK, Own
<1>2. TablesGrow(r)
  BY <1>1, UsersStay, SessionsStay, TokensStay DEF Receive, TablesGrow
<1>3. Blank \in Frame
  BY DEF Blank, Frame, UserStatus
<1>4. RuntimeTypeOK'
  BY <1>1, <1>3, ObservedIsAudit DEF RuntimeTypeOK, Receive, Answer, Proceed
<1>5. Others(r)
  BY <1>1 DEF Others, RuntimeTypeOK, Receive, Answer, Proceed
<1>6. input'[r] = request /\ job'[r] = job[r] /\ UNCHANGED <<users, sessions, tokens>>
  BY <1>1 DEF RuntimeTypeOK, Receive
<1>7. /\ job[r] = "none" /\ users[r] = None /\ sessions[r] = None /\ tokens[r] = None
      /\ audit[r].consumed = None
  BY <1>1 DEF Own, FreshInv
<1>9. audit'[r].consumed = None
  BY <1>1 DEF RuntimeTypeOK, Receive, Observed, NoAudit
<1>8. Own(r)'
  <2>1. CASE \E outcome \in Refusal \cup {"ok"} : Answer(r, outcome)
    <3>1. pc'[r] = "done"
      BY <1>1, <2>1 DEF RuntimeTypeOK, Answer
    <3>. QED BY <3>1, <1>6, <1>7, <1>9 DEF Own, InputInv, FrameInv, FreshInv
  <2>2. ASSUME NEW call \in Call, NEW frame \in Frame, Fit(r, request, call, frame),
               Proceed(r, call, frame)
        PROVE  Own(r)'
    <3>1. pc'[r] = call /\ local'[r] = frame
      BY <1>1, <2>2 DEF RuntimeTypeOK, Proceed
    <3>. QED BY <3>1, <2>2, <1>6, <1>7, <1>9 DEF Own, InputInv, FrameInv, FreshInv, Fit
  <2>. QED BY <2>1, <2>2
<1>. QED
  BY <1>2, <1>4, <1>5, <1>7, <1>8, <1>9 DEF Kept, Redeems, Receive

-----------------------------------------------------------------------------
\* Refusing a body that cannot be decoded is harmless.
LEMMA ReceiveUnreadableKeeps ==
    ASSUME IInv, NEW r \in Request, NEW op \in AllOps, ReceiveUnreadable(r, op)
    PROVE  Kept(r)
<1>1. [NoInput EXCEPT !.op = op] \in Input
  BY DEF NoInput, Input
<1>. QED
  BY <1>1, Received DEF ReceiveUnreadable, Arrives, Refusal

\* The account a session is issued for exists, and its row is new.
LEMMA CreateSessionGrows ==
    ASSUME IInv, NEW r \in Request, NEW ops, CreateSession(r, ops)
    PROVE  pc[r] \in Call /\ SessionsGrow(r)
<1>1. pc[r] = "CreateSession" /\ pc[r] \in Call
  BY DEF CreateSession
<1>2. local[r].user \in Request /\ users[local[r].user] # None /\ sessions[r] = None
  BY <1>1 DEF IInv, FrameInv, FreshInv
<1>3. local[r].at \in Nat
  BY FramesTyped DEF Frame
<1>. QED
  BY <1>1, <1>2, <1>3, SessionAdded, SessionsStay DEF IInv, TypeOK, CreateSession

\* A session INSERT that ends a log-in is harmless.
LEMMA CreateSessionKeeps ==
    ASSUME IInv, NEW r \in Request, NEW ops, CreateSession(r, ops), OnlySessions
    PROVE  Kept(r)
<1>1. pc[r] \in Call /\ SessionsGrow(r) /\ Elsewhere(r)
  BY CreateSessionGrows, SessionsWritten
<1>. QED
  BY <1>1, Answered DEF CreateSession, Unacknowledged, Refusal
=============================================================================
