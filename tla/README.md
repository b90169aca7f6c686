# TLA+ model of the auth server

A formal model of the authentication server in `src/` (Go, chi, PostgreSQL):
password accounts, server-side sessions, magic links, one-time codes and e-mail
verification, with the process that serves them, its configuration, and the
browser that holds its cookies. The modules follow the code statement by
statement; TLC checks them on small instances, and TLAPS proves the central
safety properties for any number of requests.
Paths below are relative to `src/`; unless said otherwise,
`service.go` is `internal/auth/service.go`.

## 1. The system

The server is one process. `net/http` runs one goroutine per request; a handler
decodes the body, calls a method of `auth.Service`, and the service calls the
repositories, each call being one SQL statement in a transaction of its own.
**No code opens a transaction spanning two statements and no mutex exists**, so
everything that a method checks in one statement may have changed by the next.
Goroutines share nothing but the database and the mailer.

| component | state | operations | talks to | what is hard | what makes it correct |
|---|---|---|---|---|---|
| Domain (`internal/domain`) | row types | `IsActive`, `IsValid`, `IsExpired`, `IsConsumed`, `IsMaxAttemptsExceeded` | used by the service | boundaries of expiry and of the attempt count | a dead row is never taken for a live one |
| Repositories and schema (`internal/database`) | tables `users`, `sessions`, `verification_tokens` | one statement each: INSERT, look-up, UPDATE with a condition | called by the service | concurrency, lost acknowledgements, uniqueness | one account per address, conditions evaluated at the row |
| Password accounts (`service.go` 66-205, 255-310) | rows of `users` | `SignUp`, `SignIn`, `UpdateProfile`, `ChangePassword` | repositories, background mail | check and write are separate statements; a discarded revocation error | a password is replaced only by someone who knows it; old sessions end |
| Sessions (`service.go` 208-252, `middleware/auth.go`) | rows of `sessions` | `AuthenticateSession`, `SignOut`, `SignOutAll` | repositories | revocation against requests in flight, expiry | dead sessions and inactive accounts are refused |
| Verification tokens (`service.go` 369-440, 489-509, 626-655) | rows of `verification_tokens` | look-up, `IncrementAttempts`, `MarkConsumed` | repositories | two redemptions at once, counting, expiry | at most one redemption; attempts counted and limited |
| Passwordless log-in (`service.go` 443-716) | all three tables | `SendMagicLink`, `VerifyMagicLink`, `SendOTP`, `VerifyOTP` | mailer, all repositories | cooldown, just-in-time accounts, token spent and account not made | the session belongs to the owner of the mailbox |
| E-mail verification (`service.go` 132-134, 335-440) | token rows, `users.email_verified` | `SendEmailVerification`, `VerifyEmailToken`, `VerifyEmailOTP` | mailer, background goroutine | the mail may be lost; link and code of one token | verified only through the mailbox |
| Mailer (`internal/mailer`) | none | three `Send...` methods | standard output | - | - |
| Router, middleware, responses (`internal/http`) | none | routing, `RequireAuth`, problem documents | service | an error no case of the switch names | which endpoint needs a session, which error is which answer |
| Cookies and tokens (`v1/auth_handler.go` 187-248, `middleware/auth.go` 67-89) | the browser's cookie jar | set and clear the cookie, pick the token of a request | handlers, browser | answers in any order, cookies of an earlier configuration | the browser is in the session it signed in to last, and in none once it signed out |
| Client address (`v1/auth_handler.go` 427-453) | none | `clientIP` | handlers, INET columns | blanks, brackets, ports, lists of hops | an address the column takes, or none |
| Passwords (`auth/password.go`) | the encoded hash | policy, `HashPassword`, `VerifyPassword` | service | hashes made by earlier releases, multi-byte characters | only the account's password matches |
| Codes and tokens (`auth/otp.go`, `auth/token.go`) | none | random digits, random bytes, SHA-256 | service | leading zeros | every code equally likely |
| Configuration (`internal/config`) | process environment | `.env` file, defaults, parsing | `main` | empty values, duplicates, overflow | the operator gets what was asked for |
| Process and pool (`cmd/server/main.go`, `database/db.go`) | listener, connections | start, serve, drain, force, close, exit | everything | requests and background mails at the end, hanging statements | it ends, and a clean end loses no request |

`PROJECT.json` lists the same parts with their status and, under `hazards`,
each place in the code where order, failure or timing bites.

## 2. The modules

| module | models |
|---|---|
| `AuthStore` | the three tables, the row predicates of `internal/domain`, and what each SQL statement of `internal/database` does to a table |
| `AuthRuntime` | goroutines (`pc`, `input`, `local`, `reply`), the errors statements may return, the clock, crash, suspension by an operator |
| `PasswordSessions` | sign-up, sign-in, `RequireAuth` and the endpoints behind it, sign-out |
| `VerificationTokens` | look-up, comparison and consumption of a token, shared by the four endpoints that redeem one |
| `Passwordless` | sending and verifying magic links and codes, the log-in that follows |
| `EmailVerification` | the background mail of sign-up and its redemption |
| `HttpResponses` | `response.Error` and the status codes chosen by handlers |
| `AuthService` | the composition of the above, the specification, fairness, all properties |
| `OneTimeToken` | abstract specification of what `verification_tokens` promises |
| `AuthInvariant` | the inductive invariant of rows and goroutines |
| `HistoryInvariant` | what a goroutine does against what held when its request came in |
| `CountInvariant` | attempts, sign-ins and requests in flight against the goroutines that make them |
| `MCAuthService` | constants and symmetry for TLC |
| `GoroutineProofs`, `HandlerProofs`, `AuthServiceProofs` | the proofs about `AuthService`: tables and goroutines in general, every action of every handler, then types, uniqueness and refinement |
| `HistoryProofs` | the proofs about sessions, accounts, mailboxes and answers |
| `CountProofs` | the proofs about counters, and about one request at a time |
| `Configuration` | `.env` over the system environment, and what `config.Load` makes of them |
| `SessionCookie` | the cookie's name, domain, setting and clearing, a browser's jar, both `extractToken` functions |
| `ServerLifecycle` | the process: start, signal, draining, forced close, close of the pool, kill, over requests and background mails that hold pool connections |
| `Deployment` | one browser and the processes serving it one after another, each configured by its environment: the composition of the three above |
| `MCDeployment` | environments and bounds for TLC |
| `DeploymentProofs` | the proofs about the life cycle, that `Deployment` implements it, and about `.env` files and the browser's jar |
| `Passwords` | the password policy and the encoded Argon2id hash |
| `ClientInput` | `clientIP` and the digits of a code |
| `Inputs`, `MCInputs` | a machine that types every short text into these functions while passwords and releases change |
| `FoldLemmas` | least and greatest numbers, induction over a set, and that the folds of the community modules exist |
| `InputsProofs` | the proofs about passwords, addresses and codes of any length |

`AuthService` EXTENDS `PasswordSessions`, `Passwordless` and
`EmailVerification`; the last two EXTEND `VerificationTokens`; all EXTEND
`AuthRuntime`, which EXTENDS `AuthStore`. `Deployment` EXTENDS
`ServerLifecycle` and `SessionCookie`, which EXTENDS `Configuration`; `Inputs`
EXTENDS `Passwords` and `ClientInput`.

The two compositions split the server at the service call. `AuthService` has
every statement of every endpoint, and a crash as the only end of the process.
`Deployment` has the process, the handlers and the browser in full, and takes a
service call (sign-up, sign-in, sign-out, sign-out-all of one account) as one
step: what happens between its statements is settled in `AuthService`.

### How state and actions correspond to the code

* **One action is one repository or mailer call with the Go code up to the next
  call.** `pc[r]` names the call the goroutine of request `r` makes next, and an
  action named after a handler and a call is that call with what the handler
  does next: `ChangePasswordUpdate` is `UpdatePassword` at `service.go:302`.
  The code between two calls touches nothing shared.
* `users`, `sessions`, `tokens` are the tables, functions from ids to rows or
  `None`. A request inserts at most one row in each table, so the request's name
  stands for the random ids, the session token, the link and the code it draws.
  Drawing is thus collision-free: a code that nobody issued is the presenting
  request's own name.
* `local[r]` holds what the Go code keeps between statements and reads again:
  the account, the token, the attempts *as they were read*, the status *as it was
  read*, the last `time.Now()`. The stale copies are the point of the model.
* A statement whose error the code returns either succeeds or, where
  `DBFaults`, answers `internal` with or without having been executed
  (`Unacknowledged`): this is also what a cancelled request context, a value a
  column cannot hold (a client address that is no INET, a name too long) or a
  cut connection does. Where the code discards the error (`_ = ...`) the effect
  takes place or not and the goroutine goes on (`Discarding`).
* `reply[r]` is the outcome the service hands to the HTTP layer; for `SignOut`,
  whose error the handler drops, it is the service's verdict.
* `job[r]` is the goroutine that `SignUp` starts for its verification mail.
* `Crash` kills the process: requests in flight get no answer, background mails
  are lost, tables survive.
* `audit` is a history: what was committed when the request came in, and what it
  did. No step of the server reads it.

In `ServerLifecycle` and `Deployment`:

* `process` is the program counter of `main`: `serving` in its `select`,
  `draining` in `server.Shutdown`, `closing` in the deferred `db.Close`.
  `Drained` and `DrainTimeout` are the two ways `Shutdown` returns; after the
  second `server.Close` has cut the connections (`CutOff`), and nobody waits for
  the handlers behind them.
* `stage[r]` follows a request: it waits for its statement (`running`), holds a
  connection (`executing`), writes its answer (`executed`), which the client
  still has to read (`answered`, `applied`). An answer that is written and
  never read stands for one the network loses.
* `job[r]` is the background mail of a sign-up, as far as it holds a connection.
  It is dropped when it asks a closed pool (`BackgroundMail`, `~PoolOpen`).
* `StartIn(e)` is `main` up to its `select`, with `cfg` made by `Load` from the
  environment `e`; `RefuseToStart` is its two early exits.
* `jar` is a sequence because cookies are sent oldest first and `r.Cookie`
  takes the first of a name. `setCookie[r]` is the header of the answer to `r`;
  `last` is a history, the header applied last. Both note by whose configuration
  and whether by a sign-out the header was written.
* The Authorization header of a request is empty or holds a token that an
  earlier answer carried in its body.

In `Inputs`, `text` is typed one symbol at a time, so that every text up to the
bound is reached; `hash` is what the account's row holds, and `release` the
Argon2 version and costs of the binary that verifies it.

### Abstractions

* A row is read and judged in one step with one reading of the clock; the code
  reads the clock a few instructions later. All processes share one clock.
* An Argon2id hash is named by its password, `VerifyPassword` is equality, and
  the empty hash of a passwordless account matches nothing, which `inputs`
  checks of `Passwords` (`OnlyOwnPasswordMatches`). Which passwords
  `ValidatePasswordStrength` accepts is the constant `Strong` there.
* `Normalize` maps what a client types to the address `normalizeEmail` yields,
  or to `Malformed` where `validateEmail` refuses it.
* First name, last name and avatar are one profile value.
* A body the handler cannot decode, or with a required field missing, is
  answered `invalid_request` (`ReceiveUnreadable`).
* The mail of `DevMailer` never fails, and reaches a mailbox whose owner may
  present its link or code anywhere afterwards.
* The token of a background verification mail gets its dates with its INSERT:
  an address has at most one such token, so that nothing orders two of them.
* `users.status` is written by no code of the repository; `Suspend` stands for
  an operator, and goes one way.
* `DeleteExpired` has no caller, so that no row is ever deleted.
* Requests of `Deployment` are numbered in the order of their arrival
  (`Accept`), which loses nothing, as they differ in nothing else.
* A session of `Deployment` is live or expired from its first instant on; that
  it runs out while it is used is `AuthService`'s. All sessions are of one
  account, in one database that every process uses. The jar ignores schemes and
  hosts: one browser reaches all processes under one name over TLS. `GET /v1/users/me`
  and the other endpoints behind `RequireAuth` differ from sign-out-all only in
  that they set no cookie, and are left out.
* A rune has a class and a number of bytes, an IP address is one symbol, Argon2
  is injective in password, salt, costs and version.

## 3. What TLC checks

`CHECK_DEADLOCK FALSE` everywhere: requests, starts and lengths of texts are
finite in an instance and clients need not send any, so that a finished system
stops, rightly.

**`MCAuthService`.** Safety runs use the permutations of `Request` as a symmetry
set (no definition tells requests apart); the liveness run does not. Bounds, all
named constants: `Request` (how many requests arrive), `MaxInFlight` (handled at
once), `MaxTime` (last instant of the clock), lifetimes and `Cooldown` of 0 to 3
instants, `MaxAttempts` of 1 or 2 for the code's 5. The two requests in flight
give every pairwise race; the third or fourth request is the sign-up or send
that sets it up. Where the clock passes a lifetime both sides of the boundary
are reached, and a limit of one attempt is exhausted by the requests available.

**`MCDeployment`.** Three requests are enough for two cookies and the sign-out
between or after them, and for a request under way on each side of a shutdown;
two starts for one change of configuration; one connection (25 in the code) for
a pool at its limit, with requests and mails queueing for it. The five
environments are those that differ in what the cookies and sessions become:
production, development with a cookie domain, a lifetime of zero, one that
overflows, and one that is refused; between them the `.env` file is hidden by a
word of the system, and by an empty text of the system. A duration has one byte and an hour three
units, so that 50 hours wrap round as 2562048 do in 64 bits.

**`MCInputs`.** Passwords of up to 6 runes of 1 or 2 bytes against limits of 4 and 5
bytes (8 and 128 in the code) reach both limits from either side with every mix
of the four classes, a rune of two bytes and one of no class. Headers of up
to 5 symbols contain every arrangement of an address, its port, brackets, blanks
and commas that the code tells apart. Codes have 1 to 4 digits of radix 3
(1 to 10 of radix 10 in the code).

| run | checks | instance |
|---|---|---|
| `everything` | `IInv`, `HistoryInv`, `TypeOK`, `SingleUse`, `TokensAreOneTime`, `VerifiedOnlyByMailbox`, `SignOutAllRevokesKnown`, `SignOutRevokes`, `UniqueEmail`, `SessionHasProvenOwner` | all endpoints, 3 requests, 2 in flight, faults, crashes |
| `sessions` | `HistoryInv`, `DeadSessionRefused`, `InactiveUserRefused`, `ChangePasswordRevokesOthers`, `SignInCountCoversSessions`, `ServerErrorOnlyForDeleted` | sign-up, sign-in, codes, sign-out and password changes (`GetMe` adds only the check they share), 3 requests, clock 0..2, session lifetime 1, accounts suspended or deleted at any instant |
| `passwordless` | `DeadTokenRefused`, `OvershootBounded`, `AttemptsCounted`, `SessionHasProvenOwner`, `CountInv` | links and codes, 4 requests, two addresses, limit 1, clock 0..1, lifetimes 0 |
| `one_at_a_time` | `CooldownBetweenLiveTokens`, `AttemptLimit`, `CountInv`, `CurrentPasswordRequired` | 3 requests, one at a time, clock 0..2, weak passwords and malformed addresses |
| `answers` | `WelcomeMailSent` | 2 requests, all endpoints, faults, crashes, tokens that expire, fairness |
| `deployment` | `TypeOK`, `BrowserInv`, `SignalEndsProcess`, `CleanStopAnswersAll`, `PoolOutlivesRequests`, `LastSignInWins`, `OnlyOldCookiesSurviveSignOut`, `ProductionAsConfigured` | 3 requests, 2 starts in any of 5 environments, one connection, fairness |
| `inputs` | `OnlyOwnPasswordMatches`, `PolicyAsDocumented`, `ProxyAddressStored`, `DirectAddressStored`, `EveryCodeOnce` | passwords of 6 runes, headers of 5 symbols, codes of 4 digits, three releases |

Several properties hold only under a condition, and the run states it:
`AttemptLimit`, `CooldownBetweenLiveTokens` and `CurrentPasswordRequired` hold
one request at a time and fail otherwise, which the violation runs below show
for the first and the last. `SignInCountCoversSessions` and
`ChangePasswordRevokesOthers` hold when statements do not fail, because their
errors are discarded: with `DBFaults` both are false. `ServerErrorOnlyForDeleted` likewise: a failing statement
is an internal error. `WelcomeMailSent` names its two exceptions itself.
`LastSignInWins` excludes a jar with two cookies of one name (`OneDomain`), which
a change of `COOKIE_DOMAIN` leaves behind, and `PolicyAsDocumented` says for which
passwords a limit in bytes is one in characters.

### Where the code and its documents disagree

| run | violated | what happens |
|---|---|---|
| `attempt_limit_race` | `AttemptLimit` | requests in flight together read the same attempt count, so a code gets more than the 5 attempts of `README.md:26`; `OvershootBounded` says how many |
| `exhausted_token` | `ExhaustedTokenBurnt` | a verification token whose code is exhausted is redeemed by its link, against `domain/errors.go:27` |
| `old_password_session` | `OldPasswordOpensNothing` | a sign-in that verified the old hash opens its session after the revocation, against `README.md:99` |
| `stale_current_password` | `CurrentPasswordRequired` | of two concurrent changes the second overwrites a password it never named, against `docs/versions/v01-core-identity-email-password.md:45` |
| `sign_out_after_redeploy` | `SignOutSignsOut` | a plain cookie set by a process without `ENV=production` is read by one with it (`middleware/auth.go:78`, whose comment says "if in dev") and is not cleared by its sign-out: the browser stays signed in, against `docs/versions/v01-core-identity-email-password.md:38-39`. `OnlyOldCookiesSurviveSignOut` shows that nothing else can keep it in |

`sign_out_after_redeploy` runs under `PatientSpec`: a browser that waits for each
answer and loses none, so that no race of requests and no kill is to blame. Its
trace is a sign-in to a development server, a restart in production, a second
sign-in, and a sign-out that clears the second cookie only; `SignedOut` asks that
the header applied last be one of a sign-out, so that a cookie that has expired as
it was set (a negative lifetime) does not count. 
Others the model contains as steps but no run is spent on:

* a consumed token no longer counts for the cooldown (`README.md:31`,
  `service.go:583`);
* a change of password revokes the caller's session too (`service.go:307`), where
  `README.md:277`, the comments at `service.go:273` and `service.go:306` and the
  answer of `v1/user_handler.go:93` speak of the *other* sessions; `README.md:99`
  says "all". `ChangePasswordRevokesOthers` is what all of them agree on, and
  holds whichever is meant;
* that revocation may fail, its error is discarded, and the answer says all the
  same that the other sessions have been revoked: with `DBFaults` TLC finds
  `ChangePasswordRevokesOthers` violated by sign-up, sign-in on a second device
  and a change of password;
* the slower of two sign-outs gets an error inside the service
  (`service.go:241`), and the handler answers 200 and clears the cookie whatever
  the service says (`v1/auth_handler.go:156`), even where a failing statement has
  left the session alive, against
  `docs/versions/v01-core-identity-email-password.md:38`;
* a code used again is answered "not found" rather than "already used"
  (`service.go:633`, `docs/versions/v02-magic-links-otp-email-verification.md:203`);
* a send within the cooldown is answered 429, where the same document, line 61,
  says that sends always return 200;
* a sign-in to a deleted account is answered 500, as `response.Error` has no
  case for `ErrUserDeleted`;
* the password limits are in bytes, where the comment at `password.go:103`, the
  messages and `docs/versions/v01-core-identity-email-password.md:24` say
  characters;
* background mails of answered sign-ups are dropped by a graceful shutdown, and
  "server stopped cleanly" (`main.go:103`) is logged after a forced one;
* an empty variable in the system environment hides the `.env` file's value and
  then counts as unset (`config.go:59`, `config.go:89`);
* the limit of failed log-ins per address
  (`docs/versions/v01-core-identity-email-password.md:58`) is not implemented.

### Fairness

`AuthService`'s `FairSpec` assumes weak fairness of `Handle(r)`, the steps of a request the
server has begun and of the background mail it leaves. The Go scheduler runs
every goroutine that can run, and a statement holds a pool connection only while it
executes, so that goroutines do not wait for one another. That a statement
returns, be it with an error (`DBFaults`), is an assumption about PostgreSQL and the
network, as in `StatementReturns` below: the code sets no deadline for a
statement, and the `WriteTimeout` of `main.go` cancels no handler. With a statement
that hangs for ever, `WelcomeMailSent`, the one property it is used for, does
not hold. Nothing is assumed of clients (`pc[r] # "new"`), of the clock, of a crash
or of an operator.

`Deployment`'s assumes that the main goroutine runs on, the 15-second timer
included (`MainContinues`: `context.WithTimeout` guarantees it), and that while
statements are under way one of them returns (`StatementReturns`: PostgreSQL
answers, or the connection breaks). It assumes nothing of handlers before and
after their statement, of background mails that wait for a connection, of
clients or of operators. The second assumption is needed: `db.Close` waits for
every connection in use, and a background mail has no deadline.

Each property of a passing run has a mutant: a definition of the same module
marked `\* mutant`, a plausible slip in the code, under which TLC finds the
property violated in the same run.

## 4. What is proved

For every value of the constants that satisfies the ASSUMEs: any number of
requests and addresses, any bounds, with or without faults, crashes and
suspensions; any number of starts, connections, cookies and lines of a `.env`
file; passwords, headers and codes of any length.

| theorem | statement |
|---|---|
| **`AuthServiceProofs`** | |
| `InvariantHolds` | `Spec => []IInv` |
| `TypesHold`, `AddressesUnique`, `TokensSingleUse` | `Spec => []TypeOK`, `[]UniqueEmail`, `[]SingleUse` |
| `TokensRefineOneTime` | `Spec => TokensAreOneTime`, the refinement of `OneTimeToken` |
| **`HistoryProofs`** | |
| `HistoryHolds` | `Spec => []HistoryInv` |
| `DeadSessionsRefused`, `InactiveUsersRefused`, `DeadTokensRefused` | `Spec => []DeadSessionRefused`, `[]InactiveUserRefused`, `[]DeadTokenRefused` |
| `SessionsHaveProvenOwners`, `OnlyMailboxesVerify` | `Spec => []SessionHasProvenOwner`, `[]VerifiedOnlyByMailbox` |
| `SignOutsRevoke`, `SignOutAllsRevoke` | `Spec => []SignOutRevokes`, `[]SignOutAllRevokesKnown` |
| `PasswordChangesRevoke` | `Spec => [](~DBFaults => ChangePasswordRevokesOthers)` |
| `ServerErrorsOnlyForDeleted` | `Spec => []ServerErrorOnlyForDeleted` |
| **`CountProofs`** | |
| `CountHolds` | `Spec => []CountInv` |
| `AttemptsAreCounted`, `OvershootIsBounded`, `SignInsCoverSessions` | `Spec => [](~DBFaults => AttemptsCounted)`, and so for `OvershootBounded`, `SignInCountCoversSessions` |
| `SerialAttemptLimit`, `SerialCooldown` | `Spec => [](MaxInFlight = 1 /\ ~DBFaults => AttemptLimit)`, and so for `CooldownBetweenLiveTokens` |
| `SerialPasswordChange` | `Spec /\ [](MaxInFlight = 1) => CurrentPasswordRequired` |
| **`DeploymentProofs`** | |
| `ShutdownInvariant`, `PoolOpenToRequests` | `LifecycleSpec => []ShutdownInv`, `[]PoolOutlivesRequests` |
| `CleanStopLosesNone` | `LifecycleSpec => CleanStopAnswersAll` |
| `DeploymentRunsLifecycle` | `Deployment`'s `Spec => LifecycleSpec` |
| `DeploymentPool`, `DeploymentCleanStop` | the two above, for every deployment |
| `DeploymentTypes`, `BrowserInvariant` | `Spec => []TypeOK`, `[]BrowserInv` |
| `LastSignInAlwaysWins`, `OnlyOldCookiesSurvive` | `Spec => []LastSignInWins`, `[]OnlyOldCookiesSurviveSignOut` |
| `ProductionAlwaysAsConfigured` | `Spec => []ProductionAsConfigured` |
| **`InputsProofs`** | |
| `OnlyOwnPassword`, `PolicyStated` | `Inputs`' `Spec => []OnlyOwnPasswordMatches`, `[]PolicyAsDocumented` |
| `ProxyAddressRead`, `DirectAddressRead` | `Spec => []ProxyAddressStored`, `[]DirectAddressStored` |
| `CodesEquallyLikely` | `Spec => []EveryCodeOnce` |

**Assumptions** (in `AuthStore`, `AuthRuntime`, `ServerLifecycle`,
`Configuration`, `Deployment`, `Passwords`, `ClientInput` and `Inputs`, evaluated
by TLC in each run of their modules): `None` is no request, address or row; `Normalize` yields addresses or
`Malformed`; strong passwords are passwords, the empty hash is none; durations
are natural numbers and `MaxAttempts` positive; the bounds are natural numbers,
and a pool has a connection; environments map variables to texts or `Unset`,
under a `.env` file that is a sequence of assignments; every rune has a byte at
least, an address is no punctuation mark and not of both versions, a code is typed in
digits, and a version of Argon2 is not the word for none. Two more conditions stand
in the theorems themselves, because the property is false without them:
`~DBFaults` where the code discards the error of the statement that counts or
revokes, and `MaxInFlight = 1` for the three properties that a race breaks, as
the violation runs show for two of them.

**Why inductive invariants are needed.** `UniqueEmail` and `SingleUse` do not
follow from themselves: a type-correct step needs to know that the rows a
goroutine remembers are still in the tables, that the row it is about to insert
is not there yet, and that a request told of a consumption does not come back to
consume again. `IInv` (module `AuthInvariant`) adds this in named parts:
`InputInv` (validated fields), `FrameInv` (what is in the frame is in the
tables), `FreshInv` (what is still to be inserted or consumed is not yet),
`RowInv` (references between tables) and `ConsumedInv` (a token reported consumed
is consumed for good).

The properties about what a request was let do compare the end of its goroutine
with its beginning, and all that links the two is the sequence of calls between.
`HistoryInv` (module `HistoryInvariant`) says, for each of those calls, what the
statements before it have established: `SnapshotInv` that what was dead on
arrival is dead still, `SessionGuard`, `AccountGuard` and `TokenGuard` that the
row the goroutine goes on with is none of these, `MailboxGuard` and `OwnerGuard`
whose account and whose mailbox it works for, `ErrorGuard` and `AnswerGuard`
what it may answer. `CountInv` (module `CountInvariant`) sets each counter
against the goroutines that have raised it *or are about to*: a request between
its check of the limit and its `IncrementAttempts` already takes its place in
`LimitInv`, and one between the count of a sign-in and its INSERT in `SignInInv`.
`BrowserInv` (in `Deployment`) relates the jar to the header applied last, and
the configuration of a process to its environment.

**The argument.** Some sixty actions would give as many proofs about all
requests. Instead `GoroutineProofs` defines `Kept(r)`, a bound on what a step of
the goroutine of `r` does: it re-establishes `r`'s own invariants, leaves the
variables of other requests alone, and lets the tables only grow (a row stays,
with its owner, address, type and consumption; what is revoked, consumed or
suspended stays so, attempts and sign-ins do not fall). `KeptPreserves` shows once
that such a step preserves `IInv` for everyone. The same
module shows that each statement lets its table grow, and `HandlerProofs` of each
action, one lemma per action, that it is a `Kept` step. Clock, crash and
suspension have a lemma each. `SingleUse` then rests on `Consumable`: a row reports its
consumption to a request only if it was not consumed, and `ConsumedInv` says that
any token already reported is. `UniqueEmail` rests on the UNIQUE index and on no
statement changing an address. The refinement follows from the same two facts:
`KeptRefines` maps a step to `Issue`, `Burn` (the acknowledgement of a
consumption was lost), `Redeem` or a stutter.

**The history.** Growth does most of the work again: a step of another request, or
of the environment, can spoil nothing that `HistoryInv` says of this one
(`Undisturbed`), since everything it refers to only moves one way. What is left is
the request's own step, from one call to the next, where the guard of the next
call follows from the statement just made: `RequireAuth` goes on because the row
it read was valid, hence not among the dead of the snapshot, and so on through
each endpoint.

**Counting.** A step moves at most one request into or out of a set such as
`TriedBy(t)` or `Trying(t)`, so that its cardinality changes by one at most; the
library's theorems about finite sets give the rest. Sets are finite because only
finitely many requests have come in, which is itself part of the invariant
(`InFlightInv`, `TriedInv`, `SignInInv`): `Request` may be infinite. With
`MaxInFlight = 1`, two requests in flight are one, so that nothing happens
between a check and the statement it was for.

**The life cycle.** `CleanStopAnswersAll` is about a step and rests on what led to
it: `ShutdownInv` says that a shutdown has an outcome only while the process
closes, and that a clean one, like a process that is down, leaves no request
active. It is preserved because a process that closes takes no more requests
(`Accept`), so that the set `Drained` found empty stays empty. `MoveKeepsInv`
shows this once for the steps that move one request. `DeploymentProofs` maps every action of
`Deployment` to the life-cycle step it contains, or to a stutter; cookies,
configuration and session rows are what it adds.

**Files, jars and texts of any length.** What a `.env` file sets is a fold over
its lines, in the model as in the loop of `config.go`, and the length in bytes of
a password is one over its runes. The library's induction theorems cannot be used:
they take the formula as a parameter. `FoldLemmas` puts a set in its place: `UpTo`
is induction for the set of the numbers for which a claim holds, itself proved by
the least number outside (`LeastNatural`, from the well-foundedness of `<`). A
fold of the community modules is a recursive function, of which nothing is known
until it has been shown to exist; `FoldExists` shows it, by `UpTo` on the number
of elements. `EnvFileRead` and `BytesCounted` are its two uses. `FirstCandidateWins`
and `CookieFound` say what the search through a jar finds, and `AppliedFollows`
that a browser which applies a header ends up with `Follows`.

Addresses need no fold. `BlanksTrimmed` says where a trimmed text begins and ends,
`BracketsStripped` that what remains once the brackets are gone is one address
exactly if there was at most one bracket on either side of it, and `AddressRead`
joins the two, which is a matter of shifting positions. The same lemmas serve both
proxy headers.

**Passwords.** `Stored`, the invariant behind `OnlyOwnPassword`, says that the row's
hash was made by some release from the password of the history. That no other
password matches then follows from `IDKey`, a key that differs whenever one of its
inputs does: it stands for Argon2, which is not modelled.

**Codes.** `OneNumber` is positional notation: by `UpTo` on the number of digits,
exactly one of the numbers below a power of the radix has given digits, because a
number has one last digit (`LastDigit`) and what precedes it are the digits of the
quotient (`QuotientTwice`). The powers are a recursive function, `Power`, shown to
exist by the same induction (`Powers`); of `^` the solver knows nothing.

**Model-checked only.**

* Liveness (`WelcomeMailSent`, `SignalEndsProcess`):
  fairness and ENABLED are beyond the prover.
* That a property fails, which the five violation runs show.

## 5. What is not modelled, and why

* Random generation and SHA-256 (`token.go`, the draw in `otp.go`): secrets are
  distinct names. That two six-digit codes may be equal is not modelled, only
  that each is as likely as any other (`EveryCodeOnce`).
* Argon2, base64 and the timing of comparisons. Malformed stored hashes, beyond
  the empty one, are not states of the program: only `HashPassword` writes them.
* `normalizeEmail` and `validateEmail` character by character: they are the
  constant `Normalize`.
* Zones of IPv6 addresses, and proxies that send several headers of one name.
* CORS, request ids, logging, `/health`, the recoverer: they change no state.
* Bodies of answers and texts of mails.
* Idle times, health checks and minimum size of the pool, HTTP read and idle
  timeouts: they change when things happen, not which.
* `DeleteExpired` (`verification_token_repository.go:171`): it has no caller, so
  that a model of it would be of a program that does not exist.
* Versions v03 to v12 of `docs/`: plans without code.

## 6. Plan

Done, in this order: `AuthStore`, `AuthRuntime`, `PasswordSessions`,
`VerificationTokens`, `Passwordless`, `EmailVerification`, `AuthService` with its
runs; `OneTimeToken` and the refinement; `AuthInvariant` and the first theorems;
then `HttpResponses`, `ServerLifecycle`, `Configuration`, `SessionCookie` and
their composition `Deployment`, with the proofs of the life cycle; `Passwords`,
`ClientInput` and `Inputs`.

Then `HistoryInvariant` and `CountInvariant` with their proofs, and those of the
browser, the configuration, the passwords, the addresses and the codes.

Next: a refinement for sessions like the one for tokens, so that what the
middleware lets through is stated once, without the statements it takes.
