------------------------------ MODULE AuthStore ------------------------------
(***************************************************************************)
(* The PostgreSQL database behind the auth server: the three tables of     *)
(* internal/database/migrations, the row predicates of internal/domain,    *)
(* and what each SQL statement of internal/database does to a table.  The  *)
(* server opens no transaction: every statement commits on its own, so a   *)
(* statement is one atomic step of whichever request issues it.            *)
(*                                                                         *)
(* Every row a request inserts carries fresh random identifiers (uuid.New, *)
(* 256-bit tokens).  A request inserts at most one row in each table, so   *)
(* the request's own name stands for the identifiers, the token hash and   *)
(* the one-time code it draws: row r of a table is the row request r made. *)
(***************************************************************************)
EXTENDS Integers, FiniteSets

CONSTANTS
    Request,        \* HTTP requests the server receives, each at most once
    Address,        \* well-formed e-mail addresses, as normalizeEmail leaves them
    Malformed,      \* what stands for every text validateEmail rejects
    RawEmail,       \* texts a client types in an e-mail field
    Normalize,      \* normalizeEmail on those texts, then validateEmail's verdict
    Password,       \* passwords; a stored Argon2id hash is named by its password
    Strong,         \* passwords ValidatePasswordStrength accepts
    NoPassword,     \* the empty hash of a passwordless account, which nothing matches
    Profile,        \* values of the three profile columns taken together
    NoProfile,      \* the empty profile of a just-in-time account
    None,           \* NULL, and the absent row
    SessionTTL, MagicLinkTTL, OTPTTL, WelcomeTTL,   \* lifetimes
    Cooldown,       \* the 60 seconds between two send requests
    MaxAttempts     \* the 5 attempts a one-time code gets

TokenType == {"email_verification", "magic_link", "email_otp"}
UserStatus == {"active", "suspended", "deleted"}

ASSUME AddressAssumption == Malformed \notin Address /\ None \notin Address
ASSUME NormalizeAssumption == Normalize \in [RawEmail -> Address \cup {Malformed}]
ASSUME PasswordAssumption == Strong \subseteq Password /\ NoPassword \notin Password
ASSUME NoneAssumption == None \notin Request
ASSUME DurationAssumption ==
    /\ SessionTTL \in Nat /\ MagicLinkTTL \in Nat /\ OTPTTL \in Nat
    /\ WelcomeTTL \in Nat /\ Cooldown \in Nat
ASSUME MaxAttemptsAssumption == MaxAttempts \in Nat \ {0}

VARIABLES
    users,          \* table users: row or None, by id
    sessions,       \* table sessions
    tokens,         \* table verification_tokens
    now             \* the clock that the server and the database share

store == <<users, sessions, tokens>>

UserRow == [email : Address, verified : BOOLEAN, password : Password \cup {NoPassword},
            status : UserStatus, signIns : Nat, profile : Profile \cup {NoProfile}]
SessionRow == [user : Request, expires : Nat, revoked : BOOLEAN, active : Nat]
TokenRow == [user : Request \cup {None}, email : Address, type : TokenType,
             code : Request \cup {None}, attempts : Nat,
             created : Nat, expires : Nat, consumed : BOOLEAN]

\* NULL is not a row.
ASSUME RowAssumption == None \notin UserRow /\ None \notin SessionRow /\ None \notin TokenRow

StoreTypeOK ==
    /\ users \in [Request -> UserRow \cup {None}]
    /\ sessions \in [Request -> SessionRow \cup {None}]
    /\ tokens \in [Request -> TokenRow \cup {None}]
    /\ now \in Nat

StoreInit ==
    /\ users = [r \in Request |-> None]
    /\ sessions = [r \in Request |-> None]
    /\ tokens = [r \in Request |-> None]
    /\ now = 0

-----------------------------------------------------------------------------
(* Row predicates of internal/domain. *)

IsActive(u) == users[u].status = "active"

\* A session is dead from the instant it expires, a token only after it.
SessionOutlivesItsEnd(s) == now <= sessions[s].expires              \* mutant
SessionIsValid(s) == now < sessions[s].expires
TokenIsExpired(t) == now > tokens[t].expires

OneAttemptTooMany(t) == tokens[t].attempts > MaxAttempts            \* mutant
NoAttemptLimit(t) == FALSE                                          \* mutant
MaxAttemptsExceeded(t) == tokens[t].attempts >= MaxAttempts

-----------------------------------------------------------------------------
(* The statements of the three repositories.  A query yields the set of    *)
(* matching ids; a statement that writes yields the table it leaves.       *)

UsersByEmail(e) == {u \in Request : users[u] # None /\ users[u].email = e}

\* users.email is UNIQUE: where an account has the address, the INSERT is refused.
NoUniqueIndex(e) == FALSE                                           \* mutant
EmailTaken(e) == UsersByEmail(e) # {}

InsertUser(id, row) ==
    IF EmailTaken(row.email) THEN users ELSE [users EXCEPT ![id] = row]

NewUser(e, verified, password, profile) ==
    [email |-> e, verified |-> verified, password |-> password, status |-> "active",
     signIns |-> 1, profile |-> profile]

UpdateProfile(u, profile) == [users EXCEPT ![u].profile = profile]

UpdatePassword(u, password) == [users EXCEPT ![u].password = password]

IncrementSignInCount(u) == [users EXCEPT ![u].signIns = @ + 1]

SetEmailVerified(u) == [users EXCEPT ![u].verified = TRUE]

InsertSession(id, u, at) ==
    [sessions EXCEPT ![id] = [user |-> u, expires |-> at + SessionTTL,
                              revoked |-> FALSE, active |-> at]]

\* GetByTokenHash of the session repository sees unrevoked rows only.
LiveSessions(hash) == {s \in {hash} \cap Request : sessions[s] # None /\ ~sessions[s].revoked}

RevokeSession(s) == [sessions EXCEPT ![s].revoked = TRUE]

RevokeAllByUserID(u) ==
    [s \in Request |-> IF sessions[s] # None /\ sessions[s].user = u
                       THEN [sessions[s] EXCEPT !.revoked = TRUE]
                       ELSE sessions[s]]

UpdateLastActive(s) ==
    IF sessions[s].revoked THEN sessions ELSE [sessions EXCEPT ![s].active = now]

InsertToken(id, row) == [tokens EXCEPT ![id] = row]

NewToken(u, e, type, code, at, ttl) ==
    [user |-> u, email |-> e, type |-> type, code |-> code, attempts |-> 0,
     created |-> at, expires |-> at + ttl, consumed |-> FALSE]

TokensByHash(hash) == {t \in {hash} \cap Request : tokens[t] # None}

ActiveTokens(e, type) ==
    {t \in Request : /\ tokens[t] # None
                     /\ tokens[t].email = e
                     /\ tokens[t].type = type
                     /\ ~tokens[t].consumed}

LatestOfAnyone(e, type) ==                                          \* mutant
    {t \in Request : tokens[t] # None /\ tokens[t].type = type /\ ~tokens[t].consumed}

\* ORDER BY created_at DESC LIMIT 1: any of the rows that share the last instant.
LatestActive(e, type) ==
    {t \in ActiveTokens(e, type) :
        \A other \in ActiveTokens(e, type) : tokens[other].created <= tokens[t].created}

IncrementAndRevive(t) ==                                            \* mutant
    [tokens EXCEPT ![t].attempts = @ + 1, ![t].consumed = FALSE]

IncrementAttempts(t) == [tokens EXCEPT ![t].attempts = @ + 1]

\* MarkConsumed touches the row only while consumed_at is NULL; the caller
\* learns from the row count whether it was the one that consumed it.
ConsumableTwice(t) == tokens[t] # None                              \* mutant
Consumable(t) == tokens[t] # None /\ ~tokens[t].consumed
MarkConsumed(t) ==
    IF Consumable(t) THEN [tokens EXCEPT ![t].consumed = TRUE] ELSE tokens
=============================================================================
