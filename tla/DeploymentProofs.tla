--------------------------- MODULE DeploymentProofs ---------------------------
(***************************************************************************)
(* The graceful shutdown, for any number of requests, starts and pool      *)
(* connections; that Deployment runs the processes of ServerLifecycle:     *)
(* each of its steps is a step of the life cycle or leaves it alone, so    *)
(* that what is proved of the life cycle holds of deployments, whatever    *)
(* their configurations; what a .env file of any length sets; and what a   *)
(* browser's jar of any number of cookies keeps it signed in to.           *)
(***************************************************************************)
EXTENDS Deployment, FoldLemmas, SequenceTheorems, TLAPS

-----------------------------------------------------------------------------
(* The life cycle of the processes. *)

\* The end of a process leaves no request active, however it comes about.
LEMMA DiesKeepsInv ==
    ASSUME ShutdownInv, Dies
    PROVE  ShutdownInv'
  BY DEF ShutdownInv, LifecycleTypeOK, Dies, ActiveRequests, Active

\* A step of one request keeps the invariant where it makes no request active,
\* except in a process that accepts requests.
LEMMA MoveKeepsInv ==
    ASSUME ShutdownInv, NEW r \in Request,
           NEW from \in Active \cup {"unsent", "answered"},
           NEW to \in Active \cup {"answered", "applied", "lost"},
           Moves(r, from, to),
           to \in Active => from \in Active \/ process \in {"serving", "draining"},
           job' \in [Request -> {"none", "queued", "executing"}]
    PROVE  ShutdownInv'
  <1>1. LifecycleTypeOK'
    BY DEF ShutdownInv, LifecycleTypeOK, Moves, Active
  <1>2. ActiveRequests' = {} \/ ActiveRequests # {} \/ process \in {"serving", "draining"}
    BY DEF ShutdownInv, LifecycleTypeOK, Moves, Active, ActiveRequests
  <1>3. QED
    BY <1>1, <1>2 DEF ShutdownInv, Moves

\* A process that closes either was forced to or has no request left.
THEOREM ShutdownInvariant == LifecycleSpec => []ShutdownInv
  <1>1. LifecycleInit => ShutdownInv
    BY LifecycleAssumption
    DEF LifecycleInit, ShutdownInv, LifecycleTypeOK, ActiveRequests, Active
  <1>2. ShutdownInv /\ [LifecycleNext]_lifecycle => ShutdownInv'
    <2> SUFFICES ASSUME ShutdownInv, [LifecycleNext]_lifecycle PROVE ShutdownInv'
      OBVIOUS
    <2>1. CASE Start \/ StartFails
      BY <2>1, LifecycleAssumption
      DEF Start, StartFails, ShutdownInv, LifecycleTypeOK, ActiveRequests, Active
    <2>2. CASE FatalExit \/ Kill \/ Exit
      BY <2>2, DiesKeepsInv DEF FatalExit, Kill, Exit
    <2>3. CASE Signal
      BY <2>3 DEF Signal, ShutdownInv, LifecycleTypeOK, ActiveRequests, Active
    <2>4. CASE Drained \/ DrainTimeout
      BY <2>4 DEF Drained, DrainTimeout, Leave, ShutdownInv, LifecycleTypeOK,
                  ActiveRequests, Active
    <2>5. ASSUME NEW r \in Request, Accept(r) PROVE ShutdownInv'
      BY <2>5, MoveKeepsInv DEF Accept, Active, ShutdownInv, LifecycleTypeOK
    <2>6. ASSUME NEW r \in Request, BeginStatement(r) \/ StatementRefused(r) \/ SkipStatement(r)
          PROVE  ShutdownInv'
      BY <2>6, MoveKeepsInv
      DEF BeginStatement, StatementRefused, SkipStatement, Active, ShutdownInv, LifecycleTypeOK
    <2>7. ASSUME NEW r \in Request, NEW startsJob \in BOOLEAN, EndStatement(r, startsJob)
          PROVE  ShutdownInv'
      BY <2>7, MoveKeepsInv DEF EndStatement, Active, ShutdownInv, LifecycleTypeOK
    <2>8. ASSUME NEW r \in Request, Respond(r) \/ Deliver(r) PROVE ShutdownInv'
      BY <2>8, MoveKeepsInv DEF Respond, Deliver, Active, ShutdownInv, LifecycleTypeOK
    <2>9. ASSUME NEW r \in Request, BackgroundMail(r) PROVE ShutdownInv'
      BY <2>9 DEF BackgroundMail, ShutdownInv, LifecycleTypeOK, ActiveRequests
    <2>10. CASE UNCHANGED lifecycle
      BY <2>10 DEF lifecycle, ShutdownInv, LifecycleTypeOK, ActiveRequests
    <2> QED
      BY <2>1, <2>2, <2>3, <2>4, <2>5, <2>6, <2>7, <2>8, <2>9, <2>10 DEF LifecycleNext
  <1> QED
    BY <1>1, <1>2, PTL DEF LifecycleSpec

\* The connection pool is open to every request that can still be answered.
THEOREM PoolOpenToRequests == LifecycleSpec => []PoolOutlivesRequests
  <1>1. ShutdownInv => PoolOutlivesRequests
    BY DEF ShutdownInv, LifecycleTypeOK, PoolOutlivesRequests, PoolOpen, CutOff, ActiveRequests
  <1> QED
    BY <1>1, ShutdownInvariant, PTL

\* A shutdown that is not forced loses no request.
THEOREM CleanStopLosesNone == LifecycleSpec => CleanStopAnswersAll
  <1> DEFINE Kept == \A r \in Request : stage[r] # "lost" /\ stage'[r] = "lost" => shutdown # "clean"
  <1>1. ShutdownInv /\ [LifecycleNext]_lifecycle => [Kept]_lifecycle
    <2> SUFFICES ASSUME ShutdownInv, LifecycleNext, shutdown = "clean",
                        NEW q \in Request, stage[q] # "lost", stage'[q] = "lost"
                 PROVE  FALSE
      OBVIOUS
    <2> USE DEF ShutdownInv, LifecycleTypeOK, ActiveRequests, Active
    <2>1. stage[q] \notin Active /\ process = "closing"
      OBVIOUS
    <2>2. CASE Start \/ StartFails \/ Signal \/ Drained \/ DrainTimeout
      BY <2>2, <2>1 DEF Start, StartFails, Signal, Drained, DrainTimeout, Leave
    <2>3. CASE FatalExit \/ Kill \/ Exit
      BY <2>3, <2>1 DEF FatalExit, Kill, Exit, Dies
    <2>4. ASSUME NEW r \in Request,
                 \/ Accept(r) \/ BeginStatement(r) \/ StatementRefused(r) \/ SkipStatement(r)
                 \/ \E startsJob \in BOOLEAN : EndStatement(r, startsJob)
                 \/ Respond(r) \/ Deliver(r) \/ BackgroundMail(r)
          PROVE  FALSE
      BY <2>4, <2>1 DEF Accept, BeginStatement, StatementRefused, SkipStatement, EndStatement,
                        Respond, Deliver, BackgroundMail, Moves, CutOff
    <2> QED
      BY <2>2, <2>3, <2>4 DEF LifecycleNext
  <1> QED
    BY <1>1, ShutdownInvariant, PTL DEF LifecycleSpec, CleanStopAnswersAll

-----------------------------------------------------------------------------
(* Deployments run it. *)

\* A call that returns ends a statement of the life cycle.
LEMMA CallReturnsIsEndStatement ==
    ASSUME NEW r \in Request, CallReturns(r)
    PROVE  \E startsJob \in BOOLEAN : EndStatement(r, startsJob)
  BY DEF CallReturns, FinishLogIn, FinishSignOut, FinishSignOutAll, FinishRefused, FinishCutOff

\* So does every step of a handler take a step of it.
LEMMA HandleIsLifecycle ==
    ASSUME NEW r \in Request, Handle(r)
    PROVE  LifecycleNext
  <1>1. CASE CallReturns(r)
    BY <1>1, CallReturnsIsEndStatement DEF LifecycleNext
  <1>2. CASE FinishWithoutToken(r) \/ BeginCall(r) \/ Refuse(r) \/ Answer(r) \/ Mail(r)
    BY <1>2 DEF FinishWithoutToken, BeginCall, Refuse, Answer, Mail, LifecycleNext
  <1> QED
    BY <1>1, <1>2 DEF Handle

\* The server with its browser implements the life cycle of its processes.
THEOREM DeploymentRunsLifecycle == Spec => LifecycleSpec
  <1>1. Init => LifecycleInit
    BY DEF Init
  <1>2. [Next]_vars => [LifecycleNext]_lifecycle
    <2> SUFFICES ASSUME [Next]_vars PROVE [LifecycleNext]_lifecycle
      OBVIOUS
    <2>1. ASSUME NEW e \in Environments, StartIn(e) PROVE LifecycleNext
      BY <2>1 DEF StartIn, LifecycleNext
    <2>2. CASE RefuseToStart \/ MainContinues \/ Surroundings
      BY <2>2 DEF RefuseToStart, MainContinues, Surroundings, Ends, LifecycleNext
    <2>3. ASSUME NEW r \in Request,
                 Handle(r) \/ Receive(r) \/ \E op \in Ops : Send(r, op)
          PROVE  LifecycleNext
      BY <2>3, HandleIsLifecycle DEF Receive, Send, LifecycleNext
    <2>4. CASE UNCHANGED vars
      BY <2>4 DEF vars
    <2> QED
      BY <2>1, <2>2, <2>3, <2>4 DEF Next
  <1> QED
    BY <1>1, <1>2, PTL DEF Spec, LifecycleSpec

\* In every deployment, the pool is open to every request that can be answered.
THEOREM DeploymentPool == Spec => []PoolOutlivesRequests
  BY DeploymentRunsLifecycle, PoolOpenToRequests, PTL

\* In every deployment, a shutdown that is not forced loses no request.
THEOREM DeploymentCleanStop == Spec => CleanStopAnswersAll
  BY DeploymentRunsLifecycle, CleanStopLosesNone, PTL

-----------------------------------------------------------------------------
(* The .env file. *)

\* What a line does to the variables known so far.
Read(known, line) ==
    IF known[line[1]] = Unset THEN [known EXCEPT ![line[1]] = line[2]] ELSE known

\* What is known once some lines of a file have been read is what the last of them
\* made of what was known before.
Reading(file, env, n, iter) ==
    iter = [s \in SUBSET (1..n) |->
               IF s = {} THEN env ELSE Read(iter[s \ {Max(s)}], file[Max(s)])]

\* The whole file can be read, however many lines it has.
LEMMA EnvFileRead ==
    ASSUME NEW env \in [Variable -> STRING \cup {Unset}], NEW file \in Seq(Variable \X STRING)
    PROVE  \E iter : /\ Reading(file, env, Len(file), iter)
                    /\ loadEnvFile(file, env) = iter[1..Len(file)]
  <1> DEFINE len == Len(file)
             B == [Variable -> STRING \cup {Unset}]
             step == [p \in B \X (1..len) |-> Read(p[1], file[p[2]])]
  <1>1. len \in Nat /\ DOMAIN file = 1..len
    OBVIOUS
  <1>2. step \in [B \X (1..len) -> B]
    <2>1. ASSUME NEW known \in B, NEW n \in 1..len PROVE Read(known, file[n]) \in B
      <3>1. file[n][2] \in STRING
        OBVIOUS
      <3> QED BY <3>1 DEF Read
    <2> HIDE DEF B
    <2> QED BY <2>1
  <1>3. PICK iter \in [SUBSET (1..len) -> B] : Folds(iter, env, step, len)
    <2> HIDE DEF step, len
    <2> QED BY <1>1, <1>2, FoldExists
  <1>4. Reading(file, env, len, iter)
    <2>1. ASSUME NEW s \in SUBSET (1..len), s # {}
          PROVE  step[iter[s \ {Max(s)}], Max(s)] = Read(iter[s \ {Max(s)}], file[Max(s)])
      <3>1. Max(s) \in 1..len
        BY <1>1, <2>1, MaxIsGreatest
      <3>2. iter[s \ {Max(s)}] \in B
        BY <1>3
      <3> HIDE DEF B, len
      <3> QED BY <3>1, <3>2
    <2> HIDE DEF step, B, len
    <2> QED BY <1>3, <2>1 DEF Folds, Reading
  <1> DEFINE chosen == CHOOSE it : Reading(file, env, len, it)
  <1>5. Reading(file, env, len, chosen)
    <2> HIDE DEF len
    <2> QED BY <1>4
  <1>6. loadEnvFile(file, env) = chosen[1..len]
    BY <1>1 DEF loadEnvFile, FoldLeft, MapThenFoldSet, Reading, Read
  <1> QED
    BY <1>5, <1>6

\* Each line is read with what the lines before it left.
LEMMA LineByLine ==
    ASSUME NEW file, NEW env, NEW len \in Nat, NEW iter, Reading(file, env, len, iter)
    PROVE  /\ iter[1..0] = env
           /\ \A n \in 1..len : iter[1..n] = Read(iter[1..(n - 1)], file[n])
  <1>1. iter[1..0] = env
    <2>1. 1..0 = {} /\ {} \in SUBSET (1..len)
      OBVIOUS
    <2> QED BY <2>1 DEF Reading
  <1>2. ASSUME NEW n \in 1..len PROVE iter[1..n] = Read(iter[1..(n - 1)], file[n])
    <2>1. n \in Nat \ {0} /\ 1..n \in SUBSET (1..len)
      OBVIOUS
    <2>2. 1..n # {} /\ Max(1..n) = n /\ (1..n) \ {n} = 1..(n - 1)
      BY <2>1, LastOfFirst
    <2>3. iter[1..n] = Read(iter[(1..n) \ {Max(1..n)}], file[Max(1..n)])
      BY <2>1, <2>2 DEF Reading
    <2> QED BY <2>2, <2>3
  <1> QED
    BY <1>1, <1>2

\* Where the system says nothing, the first line of a variable decides, in a file of
\* any length.
LEMMA FirstLineDecides ==
    ASSUME NEW system \in [Variable -> STRING \cup {Unset}], NEW file \in Seq(Variable \X STRING),
           NEW key \in Variable, NEW value \in STRING
    PROVE  /\ loadEnvFile(file, system) \in [Variable -> STRING \cup {Unset}]
           /\ loadEnvFile(file, system)[key] = value <=> AskedFor(system, file, key, value)
  <1> DEFINE len == Len(file)
  <1>1. len \in Nat /\ DOMAIN file = 1..len /\ Unset \notin STRING
    <2>1. len \in Nat /\ DOMAIN file = 1..len
      OBVIOUS
    <2> QED BY <2>1, EnvironmentAssumption
  <1>2. PICK iter : Reading(file, system, len, iter) /\ loadEnvFile(file, system) = iter[1..len]
    BY EnvFileRead
  <1> DEFINE Typed(n) == iter[1..n] \in [Variable -> STRING \cup {Unset}]
             Named(n) == \E j \in 1..n : file[j][1] = key
             First(n) == \E i \in 1..n : file[i] = <<key, value>>
                                         /\ \A j \in 1..(i - 1) : file[j][1] # key
             Told(n) == /\ Typed(n)
                        /\ iter[1..n][key] = value
                              <=> system[key] = value \/ (system[key] = Unset /\ First(n))
                        /\ iter[1..n][key] = Unset <=> system[key] = Unset /\ ~Named(n)
             Settled == {n \in 0..len : Told(n)}
  <1>3. Told(0)
    <2>1. iter[1..0] = system /\ 1..0 = {}
      BY <1>1, <1>2, LineByLine
    <2>2. Typed(0) /\ ~Named(0) /\ ~First(0)
      BY <2>1
    <2> HIDE DEF Typed, Named, First
    <2> QED BY <1>1, <2>1, <2>2
  <1>4. ASSUME NEW n \in 1..len, Told(n - 1) PROVE Told(n)
    <2> DEFINE known == iter[1..(n - 1)]
               line == file[n]
    <2>1. iter[1..n] = Read(known, line) /\ line \in Variable \X STRING
      BY <1>1, <1>2, LineByLine
    <2>2. line[1] \in Variable /\ line[2] \in STRING /\ line = <<line[1], line[2]>>
      BY <2>1
    <2>3. known \in [Variable -> STRING \cup {Unset}]
      BY <1>4
    <2>4. Typed(n)
      BY <2>1, <2>2, <2>3 DEF Read
    <2>5. 1..n = 1..(n - 1) \cup {n}
      OBVIOUS
    <2>6. /\ Named(n) <=> Named(n - 1) \/ line[1] = key
          /\ First(n) <=> First(n - 1) \/ (line = <<key, value>> /\ ~Named(n - 1))
      BY <2>5
    <2>7. iter[1..n][key] = IF line[1] = key /\ known[key] = Unset THEN line[2] ELSE known[key]
      BY <2>1, <2>2, <2>3 DEF Read
    <2>8. line = <<key, value>> <=> line[1] = key /\ line[2] = value
      <3> HIDE DEF line
      <3> QED BY <2>2
    <2>9. First(n - 1) => Named(n - 1)
      OBVIOUS
    <2> HIDE DEF Typed, Named, First, known, line
    <2> QED BY <1>1, <1>4, <2>2, <2>4, <2>6, <2>7, <2>8, <2>9 DEF known
  <1>5. \A n \in 0..len : n \in Settled
    <2> HIDE DEF Told, len
    <2>1. 0 \in Settled
      BY <1>1, <1>3
    <2>2. ASSUME NEW n \in 1..len, n - 1 \in Settled PROVE n \in Settled
      BY <1>1, <1>4, <2>2
    <2> HIDE DEF Settled
    <2> QED BY <1>1, <2>1, <2>2, UpTo
  <1>6. Told(len)
    <2> HIDE DEF Told
    <2> QED BY <1>1, <1>5
  <1>7. /\ iter[1..len] \in [Variable -> STRING \cup {Unset}]
        /\ iter[1..len][key] = value <=> AskedFor(system, file, key, value)
    BY <1>1, <1>6 DEF AskedFor
  <1> QED
    BY <1>2, <1>7

\* So the cookies are prefixed exactly where the operator asked for production, and
\* their domain is a text.
LEMMA LoadedAsAsked ==
    ASSUME NEW e \in Environments, NEW c \in Load(e[1], e[2])
    PROVE  /\ c.cookieSecure \in BOOLEAN /\ c.cookieDomain \in STRING
           /\ c.cookieSecure <=> AskedFor(e[1], e[2], "ENV", "production")
  <1>1. e[1] \in [Variable -> STRING \cup {Unset}] /\ e[2] \in Seq(Variable \X STRING)
        /\ Unset \notin STRING
    BY EnvironmentAssumption
  <1> DEFINE env == loadEnvFile(e[2], e[1])
  <1>2. /\ "ENV" \in Variable /\ "COOKIE_DOMAIN" \in Variable
        /\ "production" \in STRING /\ "" \in STRING
    BY EnvironmentAssumption DEF Variable
  <1>3. ASSUME NEW key \in Variable, NEW value \in STRING
        PROVE  /\ env \in [Variable -> STRING \cup {Unset}]
               /\ env[key] = value <=> AskedFor(e[1], e[2], key, value)
    <2> DEFINE system == e[1]
               file == e[2]
    <2>1. system \in [Variable -> STRING \cup {Unset}] /\ file \in Seq(Variable \X STRING)
      BY <1>1
    <2> HIDE DEF system, file
    <2>2. /\ loadEnvFile(file, system) \in [Variable -> STRING \cup {Unset}]
          /\ loadEnvFile(file, system)[key] = value <=> AskedFor(system, file, key, value)
      BY <2>1, FirstLineDecides
    <2> QED BY <2>2 DEF system, file
  <1>4. /\ env \in [Variable -> STRING \cup {Unset}]
        /\ env["ENV"] = "production" <=> AskedFor(e[1], e[2], "ENV", "production")
    <2> HIDE DEF env
    <2> QED BY <1>2, <1>3
  <1>5. \E ttl : c = [cookieSecure |-> getEnv(env, "ENV", "development") = "production",
                     cookieDomain |-> getEnv(env, "COOKIE_DOMAIN", ""),
                     sessionTTL   |-> ttl]
    <2> DEFINE hours == Atoi[getEnv(env, "SESSION_TTL_HOURS", "720")]
    <2>1. Load(e[1], e[2]) =
              IF hours = NotANumber THEN {}
              ELSE {[cookieSecure |-> getEnv(env, "ENV", "development") = "production",
                     cookieDomain |-> getEnv(env, "COOKIE_DOMAIN", ""),
                     sessionTTL   |-> Wrapped(hours * Hour)]}
      BY DEF Load
    <2> HIDE DEF env, hours
    <2> DEFINE row == [cookieSecure |-> getEnv(env, "ENV", "development") = "production",
                       cookieDomain |-> getEnv(env, "COOKIE_DOMAIN", ""),
                       sessionTTL   |-> Wrapped(hours * Hour)]
    <2>2. c = row
      <3> HIDE DEF row
      <3> QED BY <2>1 DEF row
    <2> QED BY <2>2
  <1> HIDE DEF env
  <1>6. getEnv(env, "ENV", "development") = "production" <=> env["ENV"] = "production"
    BY <1>1, <1>2 DEF getEnv
  <1>7. getEnv(env, "COOKIE_DOMAIN", "") \in STRING
    BY <1>2, <1>4 DEF getEnv
  <1>8. /\ c.cookieSecure = (getEnv(env, "ENV", "development") = "production")
        /\ c.cookieDomain = getEnv(env, "COOKIE_DOMAIN", "")
    <2> DEFINE secure == getEnv(env, "ENV", "development") = "production"
               domain == getEnv(env, "COOKIE_DOMAIN", "")
    <2>1. PICK ttl : c = [cookieSecure |-> secure, cookieDomain |-> domain, sessionTTL |-> ttl]
      BY <1>5
    <2> HIDE DEF secure, domain
    <2>2. c.cookieSecure = secure /\ c.cookieDomain = domain
      BY <2>1
    <2> QED BY <2>2 DEF secure, domain
  <1> QED
    BY <1>4, <1>6, <1>7, <1>8

-----------------------------------------------------------------------------
(* Cookies. *)

\* Request.Cookie finds a cookie of the name asked for, if there is one.
LEMMA CookieFound ==
    ASSUME NEW S, NEW cookies \in Seq(S), NEW name
    PROVE  \/ /\ Cookie(cookies, name) = None
              /\ \A i \in DOMAIN cookies : cookies[i].name # name
           \/ \E i \in DOMAIN cookies : /\ cookies[i].name = name
                                        /\ Cookie(cookies, name) = cookies[i].value
  <1> DEFINE I == {i \in 1..Len(cookies) : cookies[i].name = name}
             first == IF I # {} THEN Min(I) ELSE 0
  <1>1. Len(cookies) \in Nat /\ DOMAIN cookies = 1..Len(cookies) /\ I \subseteq 1..Len(cookies)
    OBVIOUS
  <1>2. (first # 0 => first \in I) /\ (first = 0 => I = {})
    <2> HIDE DEF I
    <2> QED BY <1>1, FirstPosition
  <1>3. Cookie(cookies, name) = IF first = 0 THEN None ELSE cookies[first].value
    BY DEF Cookie, SelectInSeq
  <1> HIDE DEF first
  <1> QED
    BY <1>1, <1>2, <1>3

\* The first candidate wins if it is there.
LEMMA FirstCandidateWins ==
    ASSUME NEW a, NEW b, NEW c, a # None
    PROVE  FirstOf(<<a, b, c>>) = a
  <1> DEFINE I == {i \in 1..Len(<<a, b, c>>) : <<a, b, c>>[i] # None}
             first == IF I # {} THEN Min(I) ELSE 0
  <1>1. 1 \in I /\ I # {} /\ I \subseteq Nat /\ \A i \in I : 1 <= i
    OBVIOUS
  <1>2. Min(I) \in I /\ Min(I) <= 1 /\ Min(I) \in Nat
    <2> HIDE DEF I
    <2> QED BY <1>1, MinIsLeast
  <1>3. first = 1
    <2> HIDE DEF I
    <2> QED BY <1>1, <1>2
  <1>4. FirstOf(<<a, b, c>>) = IF first = 0 THEN None ELSE <<a, b, c>>[first]
    BY DEF FirstOf, SelectInSeq
  <1> QED
    BY <1>3, <1>4

\* Following a header leaves a proper jar that follows it.
LEMMA AppliedFollows ==
    ASSUME NEW S, NEW cookies \in Seq(S), NEW set \in S, Proper(cookies)
    PROVE  /\ Applied(cookies, set) \in Seq(S)
           /\ Proper(Applied(cookies, set)) /\ Follows(Applied(cookies, set), set)
  <1> DEFINE len == Len(cookies)
             after == Applied(cookies, set)
  <1> SUFFICES after \in Seq(S) /\ Proper(after) /\ Follows(after, set)
    OBVIOUS
  <1>1. len \in Nat /\ DOMAIN cookies = 1..len /\ \A i \in 1..len : cookies[i] \in S
    OBVIOUS
  <1>2. CASE set.value # None /\ \E i \in DOMAIN cookies : Same(cookies[i], set)
    <2>1. after = [i \in 1..len |-> IF Same(cookies[i], set) THEN set ELSE cookies[i]]
      BY <1>1, <1>2 DEF Applied
    <2>2. after \in Seq(S) /\ DOMAIN after = 1..len
      <3> HIDE DEF after, len
      <3> QED BY <1>1, <2>1
    <2>3. Same(set, set) /\ \A c, d : Same(c, d) => Same(d, c)
      BY DEF Same
    <2>4. PICK k \in 1..len : Same(cookies[k], set)
      BY <1>1, <1>2
    <2>5. after[k] = set
      BY <2>1, <2>4
    <2>6. \A i \in 1..len : i # k => after[i] = cookies[i] /\ ~Same(cookies[i], set)
      BY <1>1, <2>1, <2>4 DEF Proper, Same
    <2> HIDE DEF after, len
    <2> QED BY <1>1, <1>2, <2>2, <2>3, <2>4, <2>5, <2>6 DEF Proper, Follows
  <1>3. CASE set.value # None /\ ~ \E i \in DOMAIN cookies : Same(cookies[i], set)
    <2>1. after = Append(cookies, set)
      BY <1>3 DEF Applied
    <2>2. /\ after \in Seq(S) /\ DOMAIN after = 1..(len + 1)
          /\ \A i \in 1..len : after[i] = cookies[i]
          /\ after[len + 1] = set
      <3> HIDE DEF after
      <3> QED BY <1>1, <2>1
    <2>3. \A i \in 1..len : ~Same(cookies[i], set) /\ ~Same(set, cookies[i])
      BY <1>1, <1>3 DEF Same
    <2> HIDE DEF after, len
    <2>4. \A i \in 1..(len + 1) : i \in 1..len \/ i = len + 1
      BY <1>1
    <2> QED BY <1>1, <1>3, <2>2, <2>3, <2>4 DEF Proper, Follows
  <1>4. CASE set.value = None /\ ~ \E i \in DOMAIN cookies : Same(cookies[i], set)
    <2>1. after = cookies
      BY <1>1, <1>4 DEF Applied, RemoveFirstMatch
    <2> HIDE DEF after
    <2> QED BY <1>4, <2>1 DEF Follows
  <1>5. CASE set.value = None /\ \E i \in DOMAIN cookies : Same(cookies[i], set)
    <2> DEFINE I == {i \in 1..len : Same(cookies[i], set)}
               k == IF I # {} THEN Min(I) ELSE 0
    <2>1. after = SubSeq(cookies, 1, k - 1) \o SubSeq(cookies, k + 1, len)
      BY <1>1, <1>5 DEF Applied, RemoveFirstMatch, RemoveAt, SelectInSeq
    <2>2. k \in I
      <3>1. I \subseteq 1..len /\ I # {}
        BY <1>1, <1>5
      <3> HIDE DEF I
      <3> QED BY <1>1, <3>1, FirstPosition
    <2>3. k \in 1..len /\ Same(cookies[k], set)
      BY <2>2
    <2> HIDE DEF k, I
    <2>4. /\ after \in Seq(S) /\ DOMAIN after = 1..(len - 1)
          /\ \A i \in 1..(len - 1) : after[i] = IF i < k THEN cookies[i] ELSE cookies[i + 1]
      <3> DEFINE front == SubSeq(cookies, 1, k - 1)
                 back == SubSeq(cookies, k + 1, len)
      <3>1. /\ front \in Seq(S) /\ Len(front) = k - 1
            /\ \A i \in 1..(k - 1) : front[i] = cookies[i]
        BY <1>1, <2>3
      <3>2. /\ back \in Seq(S) /\ Len(back) = len - k
            /\ \A i \in 1..(len - k) : back[i] = cookies[i + k]
        <4>1. k + 1 \in Int /\ len \in Int /\ \A i \in (k + 1)..len : cookies[i] \in S
          BY <1>1, <2>3
        <4>2. /\ back \in Seq(S) /\ Len(back) = IF k + 1 <= len THEN len - (k + 1) + 1 ELSE 0
              /\ \A i \in 1..(len - (k + 1) + 1) : back[i] = cookies[k + 1 + i - 1]
          <5> HIDE DEF len
          <5> QED BY <4>1, SubSeqProperties
        <4> HIDE DEF len, back
        <4> QED BY <1>1, <2>3, <4>2
      <3>3. after = front \o back
        BY <2>1
      <3> HIDE DEF after, len, front, back
      <3>4. /\ after \in Seq(S) /\ Len(after) = k - 1 + (len - k)
            /\ \A i \in 1..(k - 1 + (len - k)) :
                  after[i] = IF i <= k - 1 THEN front[i] ELSE back[i - (k - 1)]
        BY <3>1, <3>2, <3>3, ConcatProperties
      <3>5. after \in Seq(S) /\ Len(after) = len - 1 /\ DOMAIN after = 1..(len - 1)
        BY <1>1, <2>3, <3>4
      <3>6. ASSUME NEW i \in 1..(len - 1)
            PROVE  after[i] = IF i < k THEN cookies[i] ELSE cookies[i + 1]
        <4>1. CASE i < k
          <5>1. after[i] = front[i] /\ i \in 1..(k - 1)
            BY <1>1, <2>3, <3>4, <4>1
          <5> QED BY <3>1, <4>1, <5>1
        <4>2. CASE ~ (i < k)
          <5>1. /\ after[i] = back[i - (k - 1)] /\ i - (k - 1) \in 1..(len - k)
                /\ (i - (k - 1)) + k = i + 1
            BY <1>1, <2>3, <3>4, <4>2
          <5> QED BY <3>2, <4>2, <5>1
        <4> QED BY <4>1, <4>2
      <3> QED BY <3>5, <3>6
    <2> DEFINE from(i) == IF i < k THEN i ELSE i + 1
    <2>5. ASSUME NEW i \in 1..(len - 1)
          PROVE  /\ from(i) \in 1..len /\ from(i) # k /\ after[i] = cookies[from(i)]
                 /\ \A j \in 1..(len - 1) : from(i) = from(j) => i = j
      <3> HIDE DEF after, len
      <3> QED BY <1>1, <2>3, <2>4
    <2>6. \A i \in 1..len : i # k => ~Same(cookies[i], set)
      BY <1>1, <2>3 DEF Proper, Same
    <2> HIDE DEF after, len, from
    <2>7. \A i \in 1..(len - 1) : after[i].value # None /\ ~Same(after[i], set)
      BY <1>1, <2>5, <2>6 DEF Proper
    <2>8. ASSUME NEW i \in 1..(len - 1), NEW j \in 1..(len - 1), Same(after[i], after[j])
          PROVE  i = j
      <3>1. from(i) = from(j)
        BY <1>1, <2>5, <2>8 DEF Proper
      <3> QED BY <2>5, <3>1
    <2> QED BY <1>5, <2>4, <2>7, <2>8 DEF Proper, Follows
  <1> QED
    BY <1>2, <1>3, <1>4, <1>5

-----------------------------------------------------------------------------
(* The browser and the processes it talks to. *)

\* What TypeOK says beyond the life cycle.
TypesOfBrowser ==
    /\ sessions \in [Request -> {"none", "live", "revoked", "expired"}]
    /\ cfg.cookieSecure \in BOOLEAN /\ cfg.cookieDomain \in STRING
    /\ jar \in Seq(CookieShape)
    /\ sent \in [Request -> [op : Ops \cup {"none"}, cookies : Seq(CookieShape),
                             bearer : Request \cup {None}]]
    /\ DOMAIN setCookie = Request
    /\ last.cookie \in CookieShape /\ \A r \in Request : setCookie[r].cookie \in CookieShape

BrowserHolds == TypesOfBrowser /\ BrowserInv

\* A record of this shape is what nobody sent, and what nobody set.
LEMMA BlanksHaveShapes ==
    /\ \A op \in Ops \cup {"none"} : [Blank EXCEPT !.op = op] \in
           [op : Ops \cup {"none"}, cookies : Seq(CookieShape), bearer : Request \cup {None}]
    /\ Blank \in [op : Ops \cup {"none"}, cookies : Seq(CookieShape), bearer : Request \cup {None}]
    /\ NoHeader.cookie \in CookieShape /\ NoHeader.cookie.value = None
    /\ NotLoaded.cookieSecure \in BOOLEAN /\ NotLoaded.cookieDomain \in STRING
  <1>1. << >> \in Seq(CookieShape) /\ "" \in STRING
    <2>1. << >> \in Seq(CookieShape)
      OBVIOUS
    <2> QED BY <2>1, EnvironmentAssumption
  <1> HIDE DEF CookieShape
  <1>2. /\ Blank \in [op : Ops \cup {"none"}, cookies : Seq(CookieShape), bearer : Request \cup {None}]
        /\ \A op \in Ops \cup {"none"} : [Blank EXCEPT !.op = op] \in
               [op : Ops \cup {"none"}, cookies : Seq(CookieShape), bearer : Request \cup {None}]
    BY <1>1 DEF Blank
  <1>3. NoHeader.cookie = NoCookie
    BY DEF NoHeader
  <1>4. NoCookie \in CookieShape /\ NoCookie.value = None
    BY <1>1 DEF NoCookie, CookieShape
  <1>5. NotLoaded.cookieSecure \in BOOLEAN /\ NotLoaded.cookieDomain \in STRING
    BY <1>1 DEF NotLoaded
  <1> QED
    BY <1>2, <1>3, <1>4, <1>5

\* The headers that the handlers write.
LEMMA HeadersBelong ==
    ASSUME TypesOfBrowser, NEW r \in Request,
           NEW header \in {setSessionCookie(cfg, r), clearSessionCookie(cfg)}
    PROVE  /\ header \in CookieShape
           /\ header.name = cookieName(cfg) /\ header.domain = cookieDomain(cfg)
  <1>1. "" \in STRING
    BY EnvironmentAssumption
  <1>2. cookieName(cfg) \in {"__Host-session_token", "session_token", "none"}
    BY DEF cookieName
  <1>3. cookieDomain(cfg) \in STRING
    BY <1>1 DEF cookieDomain, TypesOfBrowser
  <1> QED
    BY <1>2, <1>3 DEF setSessionCookie, clearSessionCookie, CookieShape

\* A step that leaves the browser's side alone and starts no process.
LEMMA AsideKeepsBrowser ==
    ASSUME BrowserHolds, OnlyLifecycle, process' # "down" => process # "down"
    PROVE  BrowserHolds'
  BY DEF BrowserHolds, TypesOfBrowser, BrowserInv, Configured, JarFollows, Belongs,
         cookieName, cookieDomain, OnlyLifecycle

\* Requests that get no answer leave no trace in the browser.
LEMMA LossKeepsBrowser ==
    ASSUME BrowserHolds, ForgetLost,
           \/ process' = "down" /\ cfg' = NotLoaded
           \/ process' = process /\ cfg' = cfg /\ environment' = environment
    PROVE  BrowserHolds'
  <1>1. UNCHANGED <<sessions, jar, last>>
    BY DEF ForgetLost
  <1>2. \A r \in Request : /\ setCookie'[r] \in {NoHeader, setCookie[r]}
                           /\ sent'[r] \in {Blank, sent[r]}
    BY DEF ForgetLost
  <1>3. /\ DOMAIN setCookie' = Request
        /\ sent' = [r \in Request |-> sent'[r]]
    BY DEF ForgetLost
  <1>4. TypesOfBrowser'
    <2>1. cfg'.cookieSecure \in BOOLEAN /\ cfg'.cookieDomain \in STRING
      BY BlanksHaveShapes DEF BrowserHolds, TypesOfBrowser
    <2>2. sent' \in [Request -> [op : Ops \cup {"none"}, cookies : Seq(CookieShape),
                                 bearer : Request \cup {None}]]
      BY <1>2, <1>3, BlanksHaveShapes DEF BrowserHolds, TypesOfBrowser
    <2>3. \A r \in Request : setCookie'[r].cookie \in CookieShape
      BY <1>2, BlanksHaveShapes DEF BrowserHolds, TypesOfBrowser
    <2> QED BY <1>1, <1>3, <2>1, <2>2, <2>3 DEF BrowserHolds, TypesOfBrowser
  <1>5. BrowserInv'
    <2>1. \A r \in Request : Belongs(setCookie'[r])
      BY <1>2 DEF BrowserHolds, BrowserInv, Belongs
    <2>2. Configured'
      BY DEF BrowserHolds, BrowserInv, Configured
    <2> QED BY <1>1, <2>1, <2>2 DEF BrowserHolds, BrowserInv, Belongs, JarFollows
  <1> QED
    BY <1>4, <1>5 DEF BrowserHolds

\* A handler that is done leaves a header of this configuration, or none, and
\* only a log-in leaves one that may set the cookie.
LEMMA FinishKeepsBrowser ==
    ASSUME BrowserHolds, process' = process, NEW r \in Request, NEW stored, NEW header,
           stored \in [Request -> {"none", "live", "revoked", "expired"}],
           \/ header \in {NoCookie, clearSessionCookie(cfg)}
           \/ header = setSessionCookie(cfg, r) /\ sent[r].op \in LogInOps,
           Finishes(r, stored, header)
    PROVE  BrowserHolds'
  <1> DEFINE written == IF header = NoCookie THEN NoHeader
                        ELSE [by |-> cfg, signsOut |-> sent[r].op \in SignOutOps, cookie |-> header]
             left == [Blank EXCEPT !.op = IF sent[r].op \in LogInOps THEN "SignIn" ELSE "none"]
  <1>1. /\ sessions' = stored /\ setCookie' = [setCookie EXCEPT ![r] = written]
        /\ sent' = [sent EXCEPT ![r] = left]
        /\ UNCHANGED <<environment, cfg, jar, last>>
    BY DEF Finishes
  <1>2. written.cookie \in CookieShape /\ Belongs(written)
    <2>1. CASE header = NoCookie
      BY <2>1, BlanksHaveShapes DEF Belongs
    <2>2. CASE header # NoCookie
      <3>1. header \in {setSessionCookie(cfg, r), clearSessionCookie(cfg)}
        BY <2>2
      <3>2. /\ header \in CookieShape
            /\ header.name = cookieName(cfg) /\ header.domain = cookieDomain(cfg)
        BY <3>1, HeadersBelong DEF BrowserHolds
      <3>3. sent[r].op \in SignOutOps => header.value = None
        BY <2>2 DEF clearSessionCookie, LogInOps, SignOutOps
      <3>4. /\ written.by = cfg /\ written.cookie = header
            /\ written.signsOut <=> sent[r].op \in SignOutOps
        BY <2>2
      <3> HIDE DEF written
      <3> QED BY <3>2, <3>3, <3>4 DEF Belongs
    <2> QED BY <2>1, <2>2
  <1>3. left \in [op : Ops \cup {"none"}, cookies : Seq(CookieShape), bearer : Request \cup {None}]
    BY BlanksHaveShapes DEF Ops, LogInOps
  <1> HIDE DEF written, left
  <1>4. TypesOfBrowser'
    BY <1>1, <1>2, <1>3 DEF BrowserHolds, TypesOfBrowser
  <1>5. \A q \in Request : Belongs(setCookie'[q])
    BY <1>1, <1>2 DEF BrowserHolds, TypesOfBrowser, BrowserInv
  <1>6. BrowserInv'
    BY <1>1, <1>5 DEF BrowserHolds, BrowserInv, Configured, JarFollows, Belongs
  <1> QED
    BY <1>4, <1>6 DEF BrowserHolds

\* A process starts with what its surroundings asked for.
LEMMA StartKeepsBrowser ==
    ASSUME BrowserHolds, NEW e \in Environments, StartIn(e)
    PROVE  BrowserHolds'
  <1>1. /\ cfg' \in Load(e[1], e[2]) /\ environment' = e
        /\ UNCHANGED <<sessions, jar, sent, setCookie, last>>
    BY DEF StartIn
  <1>2. cfg'.cookieSecure \in BOOLEAN /\ cfg'.cookieDomain \in STRING
    BY <1>1, LoadedAsAsked
  <1> QED
    BY <1>1, <1>2 DEF BrowserHolds, TypesOfBrowser, BrowserInv, Configured, JarFollows, Belongs

\* A request takes the cookies of the jar along.
LEMMA SendKeepsBrowser ==
    ASSUME BrowserHolds, NEW r \in Request, NEW op \in Ops, Send(r, op)
    PROVE  BrowserHolds'
  <1>1. PICK bearer \in {None} \cup Tokens :
            sent' = [sent EXCEPT ![r] = [op |-> op, cookies |-> jar, bearer |-> bearer]]
    BY DEF Send
  <1>2. UNCHANGED <<process, environment, cfg, sessions, jar, setCookie, last>>
    BY DEF Send, Accept, Moves
  <1>3. bearer \in Request \cup {None}
    BY <1>1 DEF Tokens
  <1>4. TypesOfBrowser'
    BY <1>1, <1>2, <1>3 DEF BrowserHolds, TypesOfBrowser
  <1>5. BrowserInv'
    BY <1>2 DEF BrowserHolds, BrowserInv, Configured, JarFollows, Belongs
  <1> QED
    BY <1>4, <1>5 DEF BrowserHolds

\* The browser follows the header of the answer that reaches it.
LEMMA ReceiveKeepsBrowser ==
    ASSUME BrowserHolds, NEW r \in Request, Receive(r)
    PROVE  BrowserHolds'
  <1>1. /\ setCookie' = [setCookie EXCEPT ![r] = NoHeader]
        /\ UNCHANGED <<process, environment, cfg, sessions, sent>>
    BY DEF Receive, Deliver, Moves
  <1>2. /\ Belongs(setCookie[r]) /\ setCookie[r].cookie \in CookieShape
        /\ jar \in Seq(CookieShape) /\ Proper(jar)
    BY DEF BrowserHolds, TypesOfBrowser, BrowserInv, JarFollows
  <1>3. \A q \in Request : Belongs(setCookie'[q]) /\ setCookie'[q].cookie \in CookieShape
    BY <1>1, BlanksHaveShapes DEF BrowserHolds, TypesOfBrowser, BrowserInv, Belongs
  <1>4. CASE setCookie[r] = NoHeader
    <2>1. UNCHANGED <<jar, last>>
      BY <1>4 DEF Receive
    <2> QED BY <1>1, <1>3, <2>1
            DEF BrowserHolds, TypesOfBrowser, BrowserInv, Configured, JarFollows, Belongs
  <1>5. CASE setCookie[r] # NoHeader
    <2>1. jar' = Applied(jar, setCookie[r].cookie) /\ last' = setCookie[r]
      BY <1>5 DEF Receive
    <2>2. jar' \in Seq(CookieShape) /\ Proper(jar') /\ Follows(jar', last'.cookie)
      <3> HIDE DEF CookieShape
      <3> QED BY <1>2, <2>1, AppliedFollows
    <2>3. TypesOfBrowser'
      BY <1>1, <1>2, <1>3, <2>1, <2>2 DEF BrowserHolds, TypesOfBrowser
    <2>4. BrowserInv'
      <3>1. JarFollows'
        BY <1>5, <2>1, <2>2 DEF JarFollows, Proper, Follows
      <3>2. Configured' /\ Belongs(last')
        BY <1>1, <1>2, <2>1 DEF BrowserHolds, BrowserInv, Configured
      <3> QED BY <1>3, <3>1, <3>2 DEF BrowserInv, Belongs
    <2> QED BY <2>3, <2>4 DEF BrowserHolds
  <1> QED
    BY <1>4, <1>5

\* So does every step of a handler keep to the configuration.
LEMMA HandleKeepsBrowser ==
    ASSUME BrowserHolds, NEW r \in Request, Handle(r)
    PROVE  BrowserHolds'
  <1> DEFINE Rows == [Request -> {"none", "live", "revoked", "expired"}]
  <1>1. sessions \in Rows
    BY DEF BrowserHolds, TypesOfBrowser
  <1>2. CASE FinishWithoutToken(r)
    <2>1. /\ process' = process
          /\ \E header \in {clearSessionCookie(cfg), NoCookie} : Finishes(r, sessions, header)
      BY <1>2 DEF FinishWithoutToken, SkipStatement, Moves
    <2> QED BY <1>1, <2>1, FinishKeepsBrowser
  <1>3. CASE CallReturns(r)
    <2>1. process' = process
      BY <1>3 DEF CallReturns, FinishLogIn, FinishSignOut, FinishSignOutAll, FinishRefused,
                  FinishCutOff, EndStatement, Moves
    <2>2. \E stored \in Rows :
              \/ \E header \in {NoCookie, clearSessionCookie(cfg)} : Finishes(r, stored, header)
              \/ sent[r].op \in LogInOps /\ Finishes(r, stored, setSessionCookie(cfg, r))
      <3>1. CASE FinishLogIn(r)
        <4> DEFINE stored == [sessions EXCEPT ![r] = IF cfg.sessionTTL > 0 THEN "live" ELSE "expired"]
        <4>1. stored \in Rows
          BY <1>1
        <4> QED BY <3>1, <4>1 DEF FinishLogIn
      <3>2. CASE FinishSignOut(r)
        <4> DEFINE stored == [sessions EXCEPT ![Token(r)] = "revoked"]
        <4>1. stored \in Rows
          BY <1>1
        <4> QED BY <3>2, <4>1 DEF FinishSignOut
      <3>3. CASE FinishSignOutAll(r)
        <4> DEFINE stored == [s \in Request |-> IF sessions[s] = "none" THEN "none" ELSE "revoked"]
        <4>1. stored \in Rows
          OBVIOUS
        <4> QED BY <3>3, <4>1 DEF FinishSignOutAll
      <3>4. CASE FinishRefused(r) \/ FinishCutOff(r)
        BY <1>1, <3>4 DEF FinishRefused, FinishCutOff
      <3> QED BY <1>3, <3>1, <3>2, <3>3, <3>4 DEF CallReturns
    <2> QED BY <2>1, <2>2, FinishKeepsBrowser
  <1>4. CASE BeginCall(r) \/ Mail(r)
    BY <1>4, AsideKeepsBrowser DEF BeginCall, Mail, BeginStatement, BackgroundMail, Moves
  <1>5. CASE Refuse(r) \/ Answer(r)
    BY <1>5, LossKeepsBrowser DEF Refuse, Answer, StatementRefused, Respond, Moves
  <1> QED
    BY <1>2, <1>3, <1>4, <1>5 DEF Handle

\* Every step keeps the jar and the processes to their configurations.
LEMMA NextKeepsBrowser ==
    ASSUME BrowserHolds, [Next]_vars
    PROVE  BrowserHolds'
  <1>1. ASSUME NEW e \in Environments, StartIn(e) PROVE BrowserHolds'
    BY <1>1, StartKeepsBrowser
  <1>2. CASE RefuseToStart
    BY <1>2, AsideKeepsBrowser DEF RefuseToStart, StartFails
  <1>3. CASE MainContinues \/ Surroundings
    <2>1. CASE Ends(Exit) \/ Ends(FatalExit \/ Kill)
      BY <2>1, LossKeepsBrowser DEF Ends, Exit, FatalExit, Kill, Dies
    <2>2. CASE (Drained \/ DrainTimeout \/ Signal) /\ OnlyLifecycle
      BY <2>2, AsideKeepsBrowser DEF Drained, DrainTimeout, Signal, Leave
    <2> QED BY <1>3, <2>1, <2>2 DEF MainContinues, Surroundings
  <1>4. ASSUME NEW r \in Request, Handle(r) PROVE BrowserHolds'
    BY <1>4, HandleKeepsBrowser
  <1>5. ASSUME NEW r \in Request, Receive(r) PROVE BrowserHolds'
    BY <1>5, ReceiveKeepsBrowser
  <1>6. ASSUME NEW r \in Request, NEW op \in Ops, Send(r, op) PROVE BrowserHolds'
    BY <1>6, SendKeepsBrowser
  <1>7. CASE UNCHANGED vars
    BY <1>7, AsideKeepsBrowser DEF vars, lifecycle, OnlyLifecycle
  <1> QED
    BY <1>1, <1>2, <1>3, <1>4, <1>5, <1>6, <1>7 DEF Next

\* At the start the jar is empty and nothing runs.
LEMMA InitBrowser ==
    ASSUME Init
    PROVE  BrowserHolds
  <1>1. NoHeader.cookie \in CookieShape /\ NoHeader.cookie.value = None
        /\ cfg.cookieSecure \in BOOLEAN /\ cfg.cookieDomain \in STRING
    BY BlanksHaveShapes DEF Init
  <1>2. TypesOfBrowser
    <2>1. jar \in Seq(CookieShape)
      <3> HIDE DEF CookieShape
      <3> QED BY DEF Init
    <2>2. sent \in [Request -> [op : Ops \cup {"none"}, cookies : Seq(CookieShape),
                                bearer : Request \cup {None}]]
      BY BlanksHaveShapes DEF Init
    <2> QED BY <1>1, <2>1, <2>2 DEF Init, TypesOfBrowser
  <1>3. jar = <<>> /\ DOMAIN jar = {}
    BY DEF Init
  <1>4. BrowserInv
    BY <1>1, <1>3 DEF Init, LifecycleInit, BrowserInv, Configured, JarFollows, Proper, Follows, Belongs
  <1> QED
    BY <1>2, <1>4 DEF BrowserHolds

\* In every reachable state.
LEMMA BrowserAlways == Spec => []BrowserHolds
  BY InitBrowser, NextKeepsBrowser, PTL DEF Spec

\* The processes, the session rows and the browser keep the shapes the code gives them.
THEOREM DeploymentTypes == Spec => []TypeOK
  <1>1. ShutdownInv /\ BrowserHolds => TypeOK
    BY DEF ShutdownInv, BrowserHolds, TypesOfBrowser, TypeOK
  <1> QED
    BY <1>1, BrowserAlways, DeploymentRunsLifecycle, ShutdownInvariant, PTL

\* The jar agrees with the header applied last, and the processes with their
\* surroundings.
THEOREM BrowserInvariant == Spec => []BrowserInv
  <1>1. BrowserHolds => BrowserInv
    BY DEF BrowserHolds
  <1> QED
    BY <1>1, BrowserAlways, PTL

\* A sign-in wins over every older cookie and over any bearer token, whatever the
\* configurations of the processes that set them.
THEOREM LastSignInAlwaysWins == Spec => []LastSignInWins
  <1>1. ASSUME BrowserHolds, last.by = cfg, last.cookie.value # None, OneDomain,
               NEW bearer
        PROVE  Acting(bearer) = last.cookie.value
    <2> DEFINE name == cookieName(cfg)
               ours == Cookie(jar, name)
    <2>1. jar \in Seq(CookieShape) /\ Follows(jar, last.cookie)
      BY <1>1 DEF BrowserHolds, TypesOfBrowser, BrowserInv, JarFollows
    <2>2. last.cookie.name = name /\ last.cookie.domain = cookieDomain(cfg)
      <3>1. last # NoHeader
        BY <1>1, BlanksHaveShapes
      <3> QED BY <1>1, <3>1 DEF BrowserHolds, BrowserInv, Belongs
    <2>3. \A i \in DOMAIN jar : jar[i].name = name => jar[i] = last.cookie
      BY <1>1, <2>1, <2>2 DEF OneDomain, Same, Follows
    <2>4. \E i \in DOMAIN jar : jar[i].name = name
      BY <1>1, <2>1, <2>2 DEF Follows
    <2>5. ours = last.cookie.value
      <3> HIDE DEF CookieShape, name
      <3>1. \/ /\ Cookie(jar, name) = None
               /\ \A i \in DOMAIN jar : jar[i].name # name
            \/ \E i \in DOMAIN jar : jar[i].name = name /\ Cookie(jar, name) = jar[i].value
        BY <2>1, CookieFound
      <3> QED BY <2>3, <2>4, <3>1
    <2>6. Acting(bearer) = FirstOf(<<ours, Cookie(jar, "session_token"), bearer>>)
      BY DEF Acting, middlewareExtractToken, cookieName
    <2> HIDE DEF ours
    <2> QED BY <1>1, <2>5, <2>6, FirstCandidateWins
  <1>2. BrowserHolds => LastSignInWins
    BY <1>1 DEF LastSignInWins
  <1> QED
    BY <1>2, BrowserAlways, PTL

\* Only a cookie that another configuration set survives a sign-out.
THEOREM OnlyOldCookiesSurvive == Spec => []OnlyOldCookiesSurviveSignOut
  <1>1. ASSUME BrowserHolds, last.by = cfg, last.signsOut,
               NEW i \in DOMAIN jar,
               jar[i].name = cookieName(cfg), jar[i].domain = cookieDomain(cfg)
        PROVE  FALSE
    <2>1. last # NoHeader
      BY <1>1 DEF NoHeader
    <2>2. /\ last.cookie.name = cookieName(cfg) /\ last.cookie.domain = cookieDomain(cfg)
          /\ last.cookie.value = None
      BY <1>1, <2>1 DEF BrowserHolds, BrowserInv, Belongs
    <2>3. Same(jar[i], last.cookie)
      BY <1>1, <2>2 DEF Same
    <2>4. jar[i] = last.cookie /\ jar[i].value # None
      BY <1>1, <2>3 DEF BrowserHolds, BrowserInv, JarFollows, Follows, Proper
    <2> QED BY <2>2, <2>4
  <1>2. BrowserHolds => OnlyOldCookiesSurviveSignOut
    BY <1>1 DEF OnlyOldCookiesSurviveSignOut, SignedOut
  <1> QED
    BY <1>2, BrowserAlways, PTL

\* Cookies are prefixed exactly where the operator asked for production, with .env
\* files of any length.
THEOREM ProductionAlwaysAsConfigured == Spec => []ProductionAsConfigured
  <1>1. BrowserHolds => ProductionAsConfigured
    BY LoadedAsAsked DEF BrowserHolds, BrowserInv, Configured, ProductionAsConfigured
  <1> QED
    BY <1>1, BrowserAlways, PTL
=============================================================================
