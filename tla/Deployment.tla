------------------------------ MODULE Deployment ------------------------------
(***************************************************************************)
(* One browser and the processes that serve it, one after another: each    *)
(* starts with the configuration its surroundings give it, serves, is      *)
(* stopped and replaced, while the browser's requests and the answers to   *)
(* them are under way.  The sessions, all of one account, survive in the   *)
(* database.  What happens between the statements of one service call is   *)
(* the matter of AuthService; here a call takes effect in one step.        *)
(***************************************************************************)
EXTENDS ServerLifecycle, SessionCookie

CONSTANT Environments   \* pairs of system environment and .env file to start in

\* That these texts are texts no prover knows by itself.
ASSUME EnvironmentAssumption ==
    /\ Environments \subseteq [Variable -> STRING \cup {Unset}] \X Seq(Variable \X STRING)
    /\ Unset \notin STRING /\ {"", "production"} \subseteq STRING

VARIABLES
    environment,    \* the pair the process was started in
    cfg,            \* the configuration it made of it
    sessions,       \* session rows, named by the request that opened them
    jar,            \* the browser's cookies
    sent,           \* the request the browser sent
    setCookie,      \* the Set-Cookie header of its answer, and what answered with it
    last            \* history: the Set-Cookie header the browser applied last

vars == <<lifecycle, environment, cfg, sessions, jar, sent, setCookie, last>>

LogInOps == {"SignUp", "SignIn"}
SignOutOps == {"SignOut", "SignOutAll"}
Ops == LogInOps \cup SignOutOps
Blank == [op |-> "none", cookies |-> <<>>, bearer |-> None]
NotLoaded == [cookieSecure |-> FALSE, cookieDomain |-> "", sessionTTL |-> 0]
NoCookie == [name |-> "none", domain |-> "", value |-> None]
NoHeader == [by |-> NotLoaded, signsOut |-> FALSE, cookie |-> NoCookie]
CookieShape == [name : {"__Host-session_token", "session_token", "none"}, domain : STRING,
                value : Request \cup {None}]

\* The process, the session rows and what the browser holds have the shapes the
\* code gives them.
TypeOK ==
    /\ LifecycleTypeOK
    /\ sessions \in [Request -> {"none", "live", "revoked", "expired"}]
    /\ cfg.cookieSecure \in BOOLEAN /\ cfg.cookieDomain \in STRING
    /\ jar \in Seq(CookieShape)
    /\ sent \in [Request -> [op : Ops \cup {"none"}, cookies : Seq(CookieShape),
                             bearer : Request \cup {None}]]
    /\ DOMAIN setCookie = Request
    /\ last.cookie \in CookieShape /\ \A r \in Request : setCookie[r].cookie \in CookieShape

Init ==
    /\ LifecycleInit
    /\ environment = <<>>
    /\ cfg = NotLoaded
    /\ sessions = [r \in Request |-> "none"]
    /\ jar = <<>>
    /\ sent = [r \in Request |-> Blank]
    /\ setCookie = [r \in Request |-> NoHeader]
    /\ last = NoHeader

-----------------------------------------------------------------------------
(* Processes. *)

OnlyLifecycle == UNCHANGED <<environment, cfg, sessions, jar, sent, setCookie, last>>

StartIn(e) ==
    /\ Start
    /\ cfg' \in Load(e[1], e[2])
    /\ environment' = e
    /\ UNCHANGED <<sessions, jar, sent, setCookie, last>>

\* The configuration is refused, or the database does not answer.
RefuseToStart == StartFails /\ OnlyLifecycle

\* Nothing is left of a request that gets no answer but what it did.
ForgetLost ==
    /\ sent' = [r \in Request |-> IF stage'[r] = "lost" THEN Blank ELSE sent[r]]
    /\ setCookie' = [r \in Request |-> IF stage'[r] = "lost" THEN NoHeader ELSE setCookie[r]]
    /\ UNCHANGED <<sessions, jar, last>>

\* A process that ends takes its configuration and its requests with it.
Ends(exit) == exit /\ environment' = <<>> /\ cfg' = NotLoaded /\ ForgetLost

MainContinues == Ends(Exit) \/ ((Drained \/ DrainTimeout) /\ OnlyLifecycle)

Surroundings == Ends(FatalExit \/ Kill) \/ (Signal /\ OnlyLifecycle)

-----------------------------------------------------------------------------
(* Requests. *)

\* The token of a sign-in is in its answer too: a script may have kept it for
\* the Authorization header.
Tokens == {q \in Request : stage[q] = "applied" /\ sent[q].op \in LogInOps}

Send(r, op) ==
    /\ Accept(r)
    /\ \E bearer \in {None} \cup Tokens :
           sent' = [sent EXCEPT ![r] = [op |-> op, cookies |-> jar, bearer |-> bearer]]
    /\ UNCHANGED <<environment, cfg, sessions, jar, setCookie, last>>

Token(r) ==
    IF sent[r].op = "SignOut" THEN extractToken(cfg, sent[r].cookies, sent[r].bearer)
                              ELSE middlewareExtractToken(cfg, sent[r].cookies, sent[r].bearer)

CallsService(r) == sent[r].op \in LogInOps \/ Token(r) # None

BeginCall(r) == BeginStatement(r) /\ CallsService(r) /\ OnlyLifecycle

\* The handler is done: what the service did to the sessions, and the header.
Finishes(r, stored, header) ==
    /\ sessions' = stored
    /\ setCookie' = [setCookie EXCEPT ![r] =
           IF header = NoCookie THEN NoHeader
           ELSE [by |-> cfg, signsOut |-> sent[r].op \in SignOutOps, cookie |-> header]]
    /\ sent' = [sent EXCEPT ![r] = [Blank EXCEPT !.op = IF sent[r].op \in LogInOps
                                                        THEN "SignIn" ELSE "none"]]
    /\ UNCHANGED <<environment, cfg, jar, last>>

\* No token: sign-out clears the cookie all the same, the middleware answers 401.
FinishWithoutToken(r) ==
    /\ SkipStatement(r) /\ ~CallsService(r)
    /\ Finishes(r, sessions, IF sent[r].op = "SignOut" THEN clearSessionCookie(cfg) ELSE NoCookie)

\* SignUp and SignIn.
FinishLogIn(r) ==
    /\ sent[r].op \in LogInOps
    /\ EndStatement(r, sent[r].op = "SignUp")
    /\ Finishes(r, [sessions EXCEPT ![r] = IF cfg.sessionTTL > 0 THEN "live" ELSE "expired"],
                setSessionCookie(cfg, r))

FinishSignOut(r) ==
    /\ sent[r].op = "SignOut"
    /\ EndStatement(r, FALSE)
    /\ Finishes(r, [sessions EXCEPT ![Token(r)] = "revoked"], clearSessionCookie(cfg))

FinishSignOutAll(r) ==
    /\ EndStatement(r, FALSE)
    /\ sent[r].op = "SignOutAll" /\ sessions[Token(r)] = "live"
    /\ Finishes(r, [s \in Request |-> IF sessions[s] = "none" THEN "none" ELSE "revoked"],
                clearSessionCookie(cfg))

\* The middleware refuses the token.
FinishRefused(r) ==
    /\ EndStatement(r, FALSE)
    /\ sent[r].op = "SignOutAll" /\ sessions[Token(r)] # "live"
    /\ Finishes(r, sessions, NoCookie)

\* A statement whose context was cancelled may not have been executed.
FinishCutOff(r) == CutOff(r) /\ EndStatement(r, FALSE) /\ Finishes(r, sessions, NoCookie)

Refuse(r) == StatementRefused(r) /\ UNCHANGED <<environment, cfg>> /\ ForgetLost

Answer(r) == Respond(r) /\ UNCHANGED <<environment, cfg>> /\ ForgetLost

\* Answers reach the browser in any order, if at all.
Receive(r) ==
    /\ Deliver(r)
    /\ IF setCookie[r] = NoHeader
       THEN UNCHANGED <<jar, last>>
       ELSE jar' = Applied(jar, setCookie[r].cookie) /\ last' = setCookie[r]
    /\ setCookie' = [setCookie EXCEPT ![r] = NoHeader]
    /\ UNCHANGED <<environment, cfg, sessions, sent>>

Mail(r) == BackgroundMail(r) /\ OnlyLifecycle

CallReturns(r) ==
    \/ FinishLogIn(r) \/ FinishSignOut(r) \/ FinishSignOutAll(r)
    \/ FinishRefused(r) \/ FinishCutOff(r)

Handle(r) ==
    \/ FinishWithoutToken(r) \/ BeginCall(r) \/ CallReturns(r)
    \/ Refuse(r) \/ Answer(r) \/ Mail(r)

Next ==
    \/ \E e \in Environments : StartIn(e)
    \/ RefuseToStart \/ MainContinues \/ Surroundings
    \/ \E r \in Request : Handle(r) \/ Receive(r) \/ \E op \in Ops : Send(r, op)

Spec == Init /\ [][Next]_vars

\* The main goroutine runs, the timer of 15 seconds goes off (DrainTimeout is
\* possible as long as it drains), and while statements are executed one of them
\* returns.  A handler may hang for ever before or after its statement, and
\* clients owe nothing.
StatementReturns == \E r \in Request : CallReturns(r) \/ (job[r] = "executing" /\ Mail(r))

FairSpec == Spec /\ WF_vars(MainContinues) /\ WF_vars(StatementReturns)

-----------------------------------------------------------------------------
(* The end of a process. *)

\* A signal ends the process, whatever requests hang and whatever mail is under way.
SignalEndsProcess == process = "draining" ~> process = "down"

-----------------------------------------------------------------------------
(* The browser and its sessions. *)

\* The session the next request of the browser would be in, given what it has in
\* its Authorization header.
Acting(bearer) == middlewareExtractToken(cfg, jar, bearer)

\* No cookie of the name this configuration uses was set for another domain.
OneDomain ==
    \A i \in DOMAIN jar : jar[i].name = cookieName(cfg) => jar[i].domain = cookieDomain(cfg)

\* The answer applied last decides which session the browser is in: a sign-in
\* that a process with this configuration answered wins over every older cookie,
\* one that a development server left included, and over any bearer token.  (A
\* change of COOKIE_DOMAIN voids this: it may leave two cookies of one name, and
\* the older one comes first.)
LastSignInWins ==
    process # "down" /\ last.by = cfg /\ last.cookie.value # None /\ OneDomain
    => \A bearer \in Request \cup {None} : Acting(bearer) = last.cookie.value

\* The header applied last is one of a sign-out that a process with this
\* configuration answered, and nothing is under way since.
SignedOut ==
    /\ process # "down" /\ last.by = cfg /\ last.signsOut
    /\ \A r \in Request : stage[r] \in {"unsent", "applied", "lost"}

\* v01 doc, lines 38 and 39: signing out revokes the session and clears the
\* cookie, so that the browser is in no session.
SignOutSignsOut == SignedOut => \A s \in Request : sessions[s] = "live" => Acting(None) # s

\* Only a cookie of another configuration can keep the browser signed in.
OnlyOldCookiesSurviveSignOut ==
    SignedOut => \A i \in DOMAIN jar :
        sessions[jar[i].value] = "live" /\ Acting(None) = jar[i].value
        => <<jar[i].name, jar[i].domain>> # <<cookieName(cfg), cookieDomain(cfg)>>

\* The prefixed cookie is set exactly where the operator asked for production, in
\* the system environment or, where that says nothing, in the .env file.
ProductionAsConfigured ==
    process # "down" =>
        (cfg.cookieSecure <=> AskedFor(environment[1], environment[2], "ENV", "production"))

-----------------------------------------------------------------------------
(* What the properties of the browser and of the configuration rest on. *)

\* A process that is up runs with what its surroundings asked for.
Configured ==
    process # "down" =>
        environment \in Environments /\ cfg \in Load(environment[1], environment[2])

\* A Set-Cookie header bears the name and the domain of the configuration that
\* wrote it, and the one of a sign-out takes the cookie away.
Belongs(header) ==
    \/ header = NoHeader
    \/ /\ header.cookie.name = cookieName(header.by)
       /\ header.cookie.domain = cookieDomain(header.by)
       /\ header.signsOut => header.cookie.value = None

\* A jar that holds one cookie of each name and domain, every one with a value.
Proper(cookies) ==
    /\ \A i \in DOMAIN cookies : cookies[i].value # None
    /\ \A i, j \in DOMAIN cookies : Same(cookies[i], cookies[j]) => i = j

\* A jar holds of the cookies that a header names just the one it sets, or none.
Follows(cookies, set) ==
    /\ \A i \in DOMAIN cookies : Same(cookies[i], set) => cookies[i] = set
    /\ set.value # None => \E i \in DOMAIN cookies : cookies[i] = set

JarFollows ==
    /\ Proper(jar) /\ Follows(jar, last.cookie)
    /\ last = NoHeader => jar = <<>>

\* With TypeOK, every step preserves it.
BrowserInv ==
    /\ Configured /\ JarFollows
    /\ Belongs(last) /\ \A r \in Request : Belongs(setCookie[r])
=============================================================================
