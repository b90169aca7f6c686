---------------------------- MODULE AuthInvariant -----------------------------
(***************************************************************************)
(* The inductive invariant of AuthService: why a goroutine may rely on the *)
(* rows it read in an earlier statement.  The tables only grow, a row a    *)
(* request is about to insert is not there yet, and what a goroutine holds *)
(* in its frame is still in the tables when it comes back to it.           *)
(***************************************************************************)
EXTENDS AuthService

\* Calls that work on an account the goroutine has already found or made.
AccountCalls == {"CreateSession", "IncrementSignInCount", "GetUser", "UpdateLastActive",
                 "RevokeAll", "GetById", "Update", "UpdatePassword", "SetEmailVerified"}

\* Calls that work on the session the client presented.
SessionCalls == {"GetUser", "UpdateLastActive", "Revoke"}

\* Calls that work on a verification token the goroutine has read.
TokenCalls == {"IncrementAttempts", "MarkConsumed", "FindUser"}

\* Calls a goroutine makes on its way to consuming a token.
PendingCalls == {"GetToken", "GetLatest", "IncrementAttempts", "MarkConsumed"}

\* The validated fields of the request, at the calls that use them.
InputInv(r) ==
    /\ At(r, {"SignUp"}, "CreateUser") =>
          /\ input[r].email \in Address
          /\ input[r].password \in Password
          /\ input[r].profile \in Profile
    /\ At(r, {"SignUp"}, "CreateSession") => input[r].email \in Address
    /\ input[r].op \in {"SendMagicLink", "SendOTP"} /\ pc[r] \in Call =>
          input[r].email \in Address
    /\ input[r].op = "UpdateMe" /\ pc[r] \in Call => input[r].profile \in Profile
    /\ input[r].op = "ChangePassword" /\ pc[r] \in Call => input[r].newPassword \in Password

\* The rows a goroutine holds are in the tables.
FrameInv(r) ==
    /\ pc[r] \in AccountCalls => local[r].user \in Request /\ users[local[r].user] # None
    /\ pc[r] = "CreateUser" \/ At(r, {"SignUp"}, "CreateSession") => local[r].user = r
    /\ pc[r] \in SessionCalls => input[r].cred \in Request /\ sessions[input[r].cred] # None
    /\ pc[r] \in TokenCalls \/ At(r, LogInOps, "CreateUser") =>
          local[r].token \in Request /\ tokens[local[r].token] # None
    /\ pc[r] \in {"IncrementAttempts", "MarkConsumed"} /\ input[r].op \in VerifyEmailOps =>
          tokens[local[r].token].type = "email_verification"

\* A goroutine has not yet inserted what it is still to insert nor consumed what
\* it is still to consume, and the mail of a sign-up is pending only once the
\* sign-up has been answered.
FreshInv(r) ==
    /\ users[r] # None => pc[r] \in {"CreateSession", "done", "lost"}
    /\ sessions[r] # None => pc[r] \in {"done", "lost"}
    /\ tokens[r] # None => pc[r] \in {"Mail", "done", "lost"} /\ job[r] # "queued"
    /\ job[r] # "none" => pc[r] = "done"
    /\ job[r] = "queued" => input[r].email \in Address /\ users[r] # None
    /\ audit[r].consumed # None => pc[r] \notin PendingCalls \cup {"new"}

\* References between tables hold, and a verification mail names its account.
RowInv ==
    /\ \A s \in Request : sessions[s] # None => users[sessions[s].user] # None
    /\ \A t \in Request : tokens[t] # None /\ tokens[t].type = "email_verification" =>
          tokens[t].user \in Request /\ users[tokens[t].user] # None

\* A token some request was told it consumed is spent for good.
ConsumedInv ==
    \A r \in Request : audit[r].consumed # None =>
        /\ tokens[audit[r].consumed] # None
        /\ tokens[audit[r].consumed].consumed

\* The invariant that every step preserves: the types, what goroutines may rely
\* on, and the uniqueness of addresses and of the consumer of a token.
IInv ==
    /\ TypeOK
    /\ \A r \in Request : InputInv(r) /\ FrameInv(r) /\ FreshInv(r)
    /\ RowInv
    /\ ConsumedInv
    /\ UniqueEmail
    /\ SingleUse
=============================================================================
