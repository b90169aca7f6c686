----------------------------- MODULE AuthRuntime -----------------------------
(***************************************************************************)
(* What surrounds the handlers: net/http runs one goroutine per request,   *)
(* each with local variables of its own, all over the shared database.     *)
(* pc[r] names the repository or mailer call the goroutine of request r    *)
(* makes next; the Go code between two calls touches nothing shared and    *)
(* is part of the step of the call before it.  The module also has the     *)
(* environment: the clock, a crash of the process, and operators that      *)
(* suspend or delete accounts (no code of the server writes users.status). *)
(***************************************************************************)
EXTENDS AuthStore

CONSTANTS
    Ops,            \* endpoints the clients of an instance call
    MaxInFlight,    \* bound: requests being handled at once
    MaxTime,        \* bound: last instant of the clock
    DBFaults,       \* may a statement fail, or its acknowledgement be lost?
    Crashes,        \* may the process be killed?
    Suspends        \* may accounts be suspended or deleted?

ASSUME RuntimeAssumption ==
    /\ MaxInFlight \in Nat \ {0} /\ MaxTime \in Nat
    /\ {DBFaults, Crashes, Suspends} \subseteq BOOLEAN

VARIABLES
    pc,             \* where the goroutine of each request is
    input,          \* the decoded request: endpoint, body, credential
    local,          \* the goroutine's local variables
    reply,          \* the outcome the client got: "none" until it is answered
    job,            \* the verification mail a sign-up leaves in the background
    mailed,         \* tokens whose mail has gone out
    audit           \* history, which no step reads: what properties speak about

runtime == <<pc, input, local, reply, job, mailed, audit>>
vars == <<users, sessions, tokens, now, pc, input, local, reply, job, mailed, audit>>

AuthenticatedOps == {"GetMe", "UpdateMe", "ChangePassword", "SignOutAll"}
AllOps == AuthenticatedOps \cup
    {"SignUp", "SignIn", "SignOut", "SendMagicLink", "VerifyMagicLink",
     "SendOTP", "VerifyOTP", "VerifyEmailToken", "VerifyEmailOTP"}

Call == {"CreateUser", "CreateSession", "GetByEmail", "IncrementSignInCount",
         "GetSession", "GetUser", "UpdateLastActive", "RevokeAll", "Revoke",
         "GetById", "Update", "UpdatePassword",
         "GetLatest", "LinkUser", "CreateToken", "Mail",
         "GetToken", "IncrementAttempts", "MarkConsumed", "FindUser",
         "SetEmailVerified"}

Refusal == {"invalid_request", "invalid_email", "password_too_weak",
            "user_already_exists", "invalid_credentials",
            "user_suspended", "user_deleted", "unauthenticated",
            "session_not_found", "session_expired", "token_not_found",
            "token_consumed", "token_expired", "max_attempts", "invalid_otp",
            "rate_limited", "internal"}

NoInput == [op |-> "none", email |-> None, password |-> None,
            newPassword |-> None, cred |-> None, profile |-> None]
Input == [op : AllOps \cup {"none"}, email : Address \cup {Malformed, None},
          password : Password \cup {None}, newPassword : Password \cup {None},
          cred : Request \cup {None}, profile : Profile \cup {None}]

\* user: the account the request works on (None: not known); token, attempts:
\* the verification token as it was read; status: the account's status as it
\* was read; at: the last time.Now() the goroutine kept.
Blank == [user |-> None, token |-> None, attempts |-> 0, status |-> "active", at |-> 0]
Frame == [user : Request \cup {None}, token : Request \cup {None}, attempts : Nat,
          status : UserStatus, at : Nat]

\* What held when the request came in: the sessions that existed, those among
\* them that were revoked or expired (dead), the tokens consumed or expired
\* (spent), those without an attempt left (exhausted), the accounts not active.
\* What became of it: the token whose MarkConsumed reported a row to this request
\* (consumed), the token its code was compared with (tried), the account
\* RequireAuth let in (who).
NoAudit == [sessions |-> {}, dead |-> {}, spent |-> {}, exhausted |-> {}, inactive |-> {},
            consumed |-> None, tried |-> None, who |-> None]
Audit == [sessions : SUBSET Request, dead : SUBSET Request, spent : SUBSET Request,
          exhausted : SUBSET Request, inactive : SUBSET Request,
          consumed : Request \cup {None}, tried : Request \cup {None},
          who : Request \cup {None}]

ExistingSessions == {s \in Request : sessions[s] # None}
Observed == [NoAudit EXCEPT
    !.sessions = ExistingSessions,
    !.dead = {s \in ExistingSessions : sessions[s].revoked \/ now >= sessions[s].expires},
    !.spent = {t \in Request : tokens[t] # None /\ (tokens[t].consumed \/ now > tokens[t].expires)},
    !.exhausted = {t \in Request : tokens[t] # None /\ tokens[t].attempts >= MaxAttempts},
    !.inactive = {u \in Request : users[u] # None /\ users[u].status # "active"}]

JobState == {"none", "queued", "stored", "mailed", "failed", "lost"}

RuntimeTypeOK ==
    /\ pc \in [Request -> Call \cup {"new", "done", "lost"}]
    /\ input \in [Request -> Input]
    /\ local \in [Request -> Frame]
    /\ reply \in [Request -> Refusal \cup {"none", "ok"}]
    /\ job \in [Request -> JobState]
    /\ mailed \in SUBSET Request
    /\ audit \in [Request -> Audit]

\* Every variable has the shape of the rows and frames the Go types declare.
TypeOK == StoreTypeOK /\ RuntimeTypeOK

Init ==
    /\ StoreInit
    /\ pc = [r \in Request |-> "new"]
    /\ input = [r \in Request |-> NoInput]
    /\ local = [r \in Request |-> Blank]
    /\ reply = [r \in Request |-> "none"]
    /\ job = [r \in Request |-> "none"]
    /\ mailed = {}
    /\ audit = [r \in Request |-> NoAudit]

-----------------------------------------------------------------------------
(* Goroutines. *)

InFlight == {r \in Request : pc[r] \in Call}

At(r, ops, call) == pc[r] = call /\ input[r].op \in ops

Proceed(r, call, frame) ==
    /\ pc' = [pc EXCEPT ![r] = call]
    /\ local' = [local EXCEPT ![r] = frame]
    /\ reply' = reply

Answer(r, outcome) ==
    /\ pc' = [pc EXCEPT ![r] = "done"]
    /\ local' = [local EXCEPT ![r] = Blank]
    /\ reply' = [reply EXCEPT ![r] = outcome]

\* A statement whose error the caller returns: the database may have executed
\* it or not when the error comes back (a timeout, a cut connection, a request
\* context cancelled because the client went away).
Unacknowledged(r) == DBFaults /\ Answer(r, "internal")

\* A query that fails changes nothing.
QueryFails(r) == DBFaults /\ Answer(r, "internal")

\* What a statement whose error the caller discards leaves behind.
Discarding(table, effect) == IF DBFaults THEN {table, effect} ELSE {effect}

\* What one step of a goroutine leaves alone.
OnlyUsers == UNCHANGED <<sessions, tokens, now, input, job, mailed, audit>>
OnlySessions == UNCHANGED <<users, tokens, now, input, job, mailed, audit>>
OnlyTokens == UNCHANGED <<users, sessions, now, input, job, mailed, audit>>
NoTable == OnlyUsers /\ users' = users

\* A client calls endpoint op.
Arrives(r, op) == pc[r] = "new" /\ op \in Ops /\ Cardinality(InFlight) < MaxInFlight

\* The server has read the request.  The history notes what was committed by then.
Receive(r, request) ==
    /\ input' = [input EXCEPT ![r] = request]
    /\ audit' = [audit EXCEPT ![r] = Observed]
    /\ UNCHANGED <<users, sessions, tokens, now, job, mailed>>

\* A body that is not the JSON object the handler decodes, or lacks a field it
\* insists on (MISSING_TOKEN, MISSING_CREDENTIALS).
ReceiveUnreadable(r, op) ==
    /\ Arrives(r, op)
    /\ Receive(r, [NoInput EXCEPT !.op = op])
    /\ Answer(r, "invalid_request")

\* The secrets a client can hold: tokens of the sessions it was told of, links
\* and codes from its mailbox.  Its own name stands for a secret nobody issued.
KnownSessionTokens(r) == {r} \cup {s \in Request : reply[s] = "ok" /\ sessions[s] # None}
KnownLinks(r) == {r} \cup {t \in mailed : tokens[t].type # "email_otp"}
KnownCodes(r) == {r} \cup {t \in mailed : tokens[t].code # None}

\* The session INSERT that ends SignUp, SignIn and both passwordless log-ins.
CreateSession(r, ops) ==
    /\ At(r, ops, "CreateSession")
    /\ LET stored == InsertSession(r, local[r].user, local[r].at) IN
       \/ /\ sessions' = stored
          /\ Answer(r, "ok")
       \/ /\ sessions' \in {sessions, stored}
          /\ Unacknowledged(r)

-----------------------------------------------------------------------------
(* The environment. *)

Tick ==
    /\ now < MaxTime
    /\ now' = now + 1
    /\ UNCHANGED <<users, sessions, tokens, runtime>>

\* The process dies: clients of the requests in flight get no answer, background
\* mails are forgotten, and only the database survives the restart.
Crash ==
    /\ Crashes
    /\ InFlight # {} \/ \E r \in Request : job[r] \in {"queued", "stored"}
    /\ pc' = [r \in Request |-> IF r \in InFlight THEN "lost" ELSE pc[r]]
    /\ local' = [r \in Request |-> IF r \in InFlight THEN Blank ELSE local[r]]
    /\ job' = [r \in Request |-> IF job[r] \in {"queued", "stored"} THEN "lost" ELSE job[r]]
    /\ UNCHANGED <<users, sessions, tokens, now, input, reply, mailed, audit>>

\* An operator suspends or deletes an account, straight in the database.
Suspend(u) ==
    /\ Suspends
    /\ users[u] # None
    /\ IsActive(u)
    /\ \E status \in UserStatus \ {"active"} :
            users' = [users EXCEPT ![u].status = status]
    /\ UNCHANGED <<sessions, tokens, now, runtime>>

Environment == Tick \/ Crash \/ \E u \in Request : Suspend(u)
=============================================================================
