------------------------------ MODULE CountProofs ------------------------------
(***************************************************************************)
(* The counters of the database agree with what the goroutines did, and    *)
(* what holds where requests are handled one at a time.                    *)
(***************************************************************************)
EXTENDS CountInvariant, HistoryProofs, FoldLemmas, FiniteSetTheorems

\* The lists of calls and endpoints are spelt out throughout.
USE DEF At, Call, AccountCalls, SessionCalls, TokenCalls, PendingCalls, LogInOps, VerifyEmailOps

-----------------------------------------------------------------------------
(* Whose turn it is. *)

\* A step of request r.
Turn(r) == Kept(r) /\ (Arrival(r) \/ Continues(r))

\* A step of nobody: time passes, the process dies, an account is suspended.
Idle ==
    /\ Onward /\ UNCHANGED <<sessions, tokens, input, audit>>
    /\ \A q \in Request : (pc'[q] = pc[q] /\ local'[q] = local[q]) \/ pc'[q] = "lost"
    /\ \A u \in Request :
          /\ users'[u] # None => users[u] # None
          /\ users[u] # None => users'[u].password = users[u].password

\* Every step is the turn of one request or of nobody.
LEMMA TurnOrIdle ==
    ASSUME IInv, [Next]_vars, Request # {}
    PROVE  Idle \/ \E r \in Request : Turn(r)
<1>1. now \in Nat /\ users \in [Request -> UserRow \cup {None}]
  BY DEF IInv, TypeOK, StoreTypeOK
<1>2. CASE Tick
  BY <1>1, <1>2, TablesStay DEF Tick, runtime, Idle, Onward
<1>3. CASE Crash
  BY <1>1, <1>3, TablesStay DEF Crash, Idle, Onward
<1>4. ASSUME NEW u \in Request, Suspend(u) PROVE Idle
  <2>1. UNCHANGED <<sessions, tokens, now, pc, input, local, reply, job, mailed, audit>>
    BY <1>4 DEF Suspend, runtime
  <2>2. \A v \in Request : users[v] # None => users'[v].password = users[v].password
    <3>1. PICK status \in UserStatus : users' = [users EXCEPT ![u].status = status]
      BY <1>4 DEF Suspend
    <3>2. users[u] \in UserRow
      BY <1>1, <1>4 DEF Suspend
    <3>3. [users[u] EXCEPT !.status = status].password = users[u].password
      BY <3>2 DEF UserRow
    <3>. QED BY <1>1, <3>1, <3>3
  <2>. QED BY <1>1, <1>4, <2>1, <2>2, SuspendGrows DEF Idle, Onward
<1>5. CASE UNCHANGED vars
  BY <1>1, <1>5, TablesStay DEF vars, Idle, Onward
<1>6. ASSUME NEW r \in Request, Step(r) PROVE Turn(r)
  BY <1>6, StepKeeps, StepLeads DEF Turn
<1>. QED
  BY <1>2, <1>3, <1>4, <1>5, <1>6 DEF Next, Environment

\* The turn of a request moves the tables onward and leaves the others alone.
LEMMA TurnIsOnward ==
    ASSUME IInv, NEW r \in Request, Turn(r)
    PROVE  /\ Onward /\ TablesGrow(r) /\ Others(r) /\ now' = now
           /\ StoreTypeOK /\ RuntimeTypeOK /\ RuntimeTypeOK'
BY DEF IInv, TypeOK, StoreTypeOK, Turn, Kept, Onward

-----------------------------------------------------------------------------
(* Finite sets. *)

\* A part of a finite set is finite and no larger.
LEMMA PartCounts ==
    ASSUME NEW S, IsFiniteSet(S), NEW T, T \subseteq S
    PROVE  /\ IsFiniteSet(T) /\ Cardinality(T) \in Nat /\ Cardinality(S) \in Nat
           /\ Cardinality(T) <= Cardinality(S)
BY FS_Subset, FS_CardinalityType

\* What lacks an element of it is smaller.
LEMMA PartWithoutCounts ==
    ASSUME NEW S, IsFiniteSet(S), NEW x \in S, NEW T, T \subseteq S \ {x}
    PROVE  /\ IsFiniteSet(T) /\ Cardinality(T) \in Nat /\ Cardinality(S) \in Nat
           /\ Cardinality(T) < Cardinality(S)
<1>1. /\ IsFiniteSet(S \ {x}) /\ Cardinality(S \ {x}) = Cardinality(S) - 1
      /\ Cardinality(S) \in Nat
  BY FS_RemoveElement, FS_CardinalityType
<1>. QED
  BY <1>1, PartCounts

\* What has one element more is larger by one at most, by one if it has it indeed.
LEMMA OneMoreCounts ==
    ASSUME NEW S, IsFiniteSet(S), NEW x, NEW T, T \subseteq S \cup {x}
    PROVE  /\ IsFiniteSet(T) /\ Cardinality(T) \in Nat /\ Cardinality(S) \in Nat
           /\ Cardinality(T) <= Cardinality(S) + 1
           /\ T = S \cup {x} /\ x \notin S => Cardinality(T) = Cardinality(S) + 1
<1>1. /\ IsFiniteSet(S \cup {x}) /\ Cardinality(S) \in Nat
      /\ Cardinality(S \cup {x}) = IF x \in S THEN Cardinality(S) ELSE Cardinality(S) + 1
  BY FS_AddElement, FS_CardinalityType
<1>. QED
  BY <1>1, PartCounts

-----------------------------------------------------------------------------
(* Requests in flight. *)

\* A request takes its place among those in flight when it arrives, if one is free.
LEMMA InFlightKept ==
    ASSUME IInv, InFlightInv, NEW r \in Request, Turn(r)
    PROVE  InFlightInv'
<1>1. Others(r) /\ MaxInFlight \in Nat
  BY TurnIsOnward, RuntimeAssumption
<1>2. CASE Arrival(r)
  <2>1. InFlight' \subseteq InFlight \cup {r}
    BY <1>1 DEF Others, InFlight
  <2>2. /\ IsFiniteSet(InFlight') /\ Cardinality(InFlight') \in Nat /\ Cardinality(InFlight) \in Nat
        /\ Cardinality(InFlight') <= Cardinality(InFlight) + 1
    BY <2>1, OneMoreCounts DEF InFlightInv
  <2>. QED BY <1>1, <1>2, <2>2 DEF Arrival, InFlightInv
<1>3. CASE Continues(r)
  <2>1. InFlight' \subseteq InFlight
    BY <1>1, <1>3 DEF Continues, Others, InFlight
  <2>. QED BY <1>1, <2>1, PartCounts DEF InFlightInv
<1>. QED
  BY <1>2, <1>3 DEF Turn

-----------------------------------------------------------------------------
(* Attempts to redeem a code. *)

\* A turn notes a new attempt when the code is compared, and then one of the token
\* the goroutine holds; until then the request has tried none.
LEMMA AttemptNoted ==
    ASSUME IInv, TriedInv, NEW r \in Request, Turn(r)
    PROVE  \/ audit'[r].tried = audit[r].tried /\ ~ComparesCode(r)
           \/ /\ ComparesCode(r) /\ Continues(r) /\ pc[r] = "IncrementAttempts"
              /\ audit[r].tried = None /\ audit'[r].tried = local[r].token
              /\ local[r].token \in Request /\ tokens[local[r].token] # None
<1>1. RuntimeTypeOK /\ FrameInv(r)
  BY DEF IInv, TypeOK
<1>2. CASE Arrival(r)
  BY <1>2 DEF Arrival, Observed, NoAudit, TriedInv, ComparesCode, CompareCode
<1>3. CASE Continues(r) /\ ComparesCode(r)
  <2>1. pc[r] = "IncrementAttempts" /\ audit' = [audit EXCEPT ![r].tried = local[r].token]
    BY <1>3 DEF ComparesCode, CompareCode
  <2>2. audit'[r].tried = local[r].token
    BY <1>1, <2>1 DEF RuntimeTypeOK, Audit
  <2>. QED BY <1>1, <1>3, <2>1, <2>2 DEF FrameInv, TriedInv
<1>4. CASE Continues(r) /\ ~ComparesCode(r)
  BY <1>4 DEF Continues, Notes
<1>. QED
  BY <1>2, <1>3, <1>4 DEF Turn

\* So the requests that tried a token become more by that one.
LEMMA TriedByGrows ==
    ASSUME IInv, TriedInv, NEW r \in Request, Turn(r), NEW t \in Request
    PROVE  /\ ComparesCode(r) /\ local[r].token = t =>
                 TriedBy(t)' = TriedBy(t) \cup {r} /\ r \notin TriedBy(t)
           /\ ~(ComparesCode(r) /\ local[r].token = t) => TriedBy(t)' = TriedBy(t)
<1>1. \A q \in Request \ {r} : audit'[q] = audit[q]
  BY TurnIsOnward DEF Others
<1>. QED
  BY <1>1, AttemptNoted, NoneAssumption DEF TriedBy

\* Each request tries one token, once.
LEMMA TriedKept ==
    ASSUME IInv, TriedInv, NEW r \in Request, Turn(r)
    PROVE  TriedInv'
<1>1. Onward /\ Others(r) /\ RuntimeTypeOK
  BY TurnIsOnward
<1>2. ASSUME NEW t \in Request PROVE IsFiniteSet(TriedBy(t)')
  <2>1. IsFiniteSet(TriedBy(t)) /\ IsFiniteSet(TriedBy(t) \cup {r})
    BY FS_AddElement DEF TriedInv
  <2>2. TriedBy(t)' = TriedBy(t) \/ TriedBy(t)' = TriedBy(t) \cup {r}
    BY TriedByGrows
  <2>. QED BY <2>1, <2>2
<1>3. ASSUME NEW q \in Request, audit'[q].tried # None
      PROVE  /\ tokens'[audit'[q].tried] # None
             /\ pc'[q] \notin {"new", "GetLatest", "IncrementAttempts"}
  <2>1. CASE audit'[q].tried = audit[q].tried /\ ~(q = r /\ ComparesCode(r))
    <3>1. tokens[audit[q].tried] # None /\ audit[q].tried \in Request
      BY <1>1, <1>3, <2>1 DEF TriedInv, RuntimeTypeOK, Audit
    <3>2. tokens'[audit'[q].tried] # None
      BY <1>1, <2>1, <3>1 DEF Onward, TablesGrow, TokensGrow
    <3>3. pc[q] \notin {"new", "GetLatest", "IncrementAttempts"}
      BY <1>3, <2>1 DEF TriedInv
    <3>4. CASE q # r
      BY <1>1, <3>2, <3>3, <3>4 DEF Others
    <3>5. CASE q = r
      <4>1. Continues(r)
        BY <3>3, <3>5 DEF Turn, Arrival
      <4>2. FindsCode(r) => pc[r] = "GetLatest"
        BY DEF FindsCode, LookUpCode
      <4>. QED BY <3>2, <3>3, <3>5, <4>1, <4>2 DEF Continues, Leads
    <3>. QED BY <3>4, <3>5
  <2>2. CASE q = r /\ ComparesCode(r)
    <3>1. /\ Continues(r) /\ pc[r] = "IncrementAttempts" /\ audit'[r].tried = local[r].token
          /\ local[r].token \in Request /\ tokens[local[r].token] # None
      BY <2>2, AttemptNoted
    <3>2. FindsCode(r) => pc[r] = "GetLatest"
      BY DEF FindsCode, LookUpCode
    <3>. QED BY <1>1, <2>2, <3>1, <3>2 DEF Continues, Leads, Onward, TablesGrow, TokensGrow
  <2>. QED BY <1>1, <2>1, <2>2, AttemptNoted DEF Others
<1>. QED
  BY <1>2, <1>3 DEF TriedInv

\* The counter of a token goes up by the comparison of its code, by one where no
\* statement fails, and by nothing else.
LEMMA AttemptsWritten ==
    ASSUME IInv, NEW r \in Request, Turn(r), NEW t \in Request, tokens[t] # None
    PROVE  /\ tokens'[t] # None /\ tokens[t].attempts \in Nat /\ tokens'[t].attempts \in Nat
           /\ ~(ComparesCode(r) /\ local[r].token = t) =>
                 tokens'[t].attempts = tokens[t].attempts
           /\ ComparesCode(r) /\ local[r].token = t =>
                 /\ tokens'[t].attempts \in {tokens[t].attempts, tokens[t].attempts + 1}
                 /\ ~DBFaults => tokens'[t].attempts = tokens[t].attempts + 1
<1>1. Onward /\ StoreTypeOK /\ FreshInv(r) /\ FrameInv(r)
  BY TurnIsOnward DEF IInv
<1>2. /\ tokens'[t] # None /\ tokens[t] \in TokenRow /\ tokens[t].attempts \in Nat
      /\ tokens'[t].attempts \in Nat
  BY <1>1 DEF StoreTypeOK, Onward, TablesGrow, TokensGrow, TokenRow
<1>3. CASE ComparesCode(r)
  <2>1. /\ tokens' \in {tokens, IncrementAttempts(local[r].token)}
        /\ ~DBFaults => tokens' = IncrementAttempts(local[r].token)
    BY <1>3 DEF ComparesCode, CompareCode, Discarding
  <2>2. [tokens[t] EXCEPT !.attempts = @ + 1].attempts = tokens[t].attempts + 1
    BY <1>2 DEF TokenRow
  <2>. QED BY <1>1, <1>2, <1>3, <2>1, <2>2 DEF StoreTypeOK, IncrementAttempts
<1>4. CASE ~ComparesCode(r)
  <2>1. CASE tokens' = tokens
    BY <1>2, <1>4, <2>1
  <2>2. CASE (StoresToken(r) /\ input[r].op \in SendOps) \/ WelcomeStoreToken(r)
    <3>1. PICK row : OwnToken(r, row) /\ tokens' \in {tokens, [tokens EXCEPT ![r] = row]}
      BY <2>2, TokenStored
    <3>2. t # r
      BY <1>1, <3>1 DEF OwnToken, FreshInv
    <3>. QED BY <1>1, <1>2, <1>4, <3>1, <3>2 DEF StoreTypeOK
  <2>3. CASE LogsIn(r) \/ ProvesEmail(r)
    <3>1. tokens' = tokens \/ tokens' = MarkConsumed(local[r].token)
      BY <2>3 DEF LogsIn, ProvesEmail, ConsumeEmailToken, Consume
    <3>2. [tokens[t] EXCEPT !.consumed = TRUE].attempts = tokens[t].attempts
      BY <1>2 DEF TokenRow
    <3>. QED BY <1>1, <1>2, <1>4, <3>1, <3>2 DEF StoreTypeOK, MarkConsumed
  <2>. QED BY <1>4, <2>1, <2>2, <2>3 DEF Turn, Arrival, Writes, Continues, Changes
<1>. QED
  BY <1>3, <1>4

\* A token just stored has no attempt counted.
LEMMA NoAttemptYet ==
    ASSUME IInv, NEW r \in Request, Turn(r), NEW t \in Request, tokens[t] = None, tokens'[t] # None
    PROVE  t = r /\ Continues(r) /\ tokens'[t].attempts = 0
<1>1. t = r /\ StoreTypeOK
  BY TurnIsOnward DEF TablesGrow, TokensGrow
<1>2. Continues(r)
  BY <1>1 DEF Turn, Arrival, Writes
<1>3. PICK row : OwnToken(r, row) /\ tokens' \in {tokens, [tokens EXCEPT ![r] = row]}
  BY <1>1, <1>2, TokenIssued, TokenStored
<1>. QED
  BY <1>1, <1>2, <1>3 DEF OwnToken, StoreTypeOK

\* Who passes the limit found an attempt left; others only leave.
LEMMA TryingChanges ==
    ASSUME IInv, NEW r \in Request, Turn(r), NEW t \in Request
    PROVE  /\ ComparesCode(r) => Trying(t)' \subseteq Trying(t) \ {r}
           /\ \/ Trying(t)' \subseteq Trying(t)
              \/ FindsCode(r) /\ tokens' = tokens /\ tokens[t] # None /\ ~MaxAttemptsExceeded(t)
<1>1. Others(r)
  BY TurnIsOnward
<1>2. FindsCode(r) => pc[r] = "GetLatest"
  BY DEF FindsCode, LookUpCode
<1>3. ComparesCode(r) => pc[r] = "IncrementAttempts"
  BY DEF ComparesCode, CompareCode
<1>4. pc'[r] = "IncrementAttempts" => FindsCode(r)
  BY DEF Turn, Arrival, Continues, Leads
<1>5. CASE r \notin Trying(t)'
  BY <1>1, <1>5 DEF Others, Trying
<1>6. CASE r \in Trying(t)'
  BY <1>2, <1>3, <1>4, <1>6, CodeFound DEF Trying
<1>. QED
  BY <1>5, <1>6

\* Only a token that is there can be tried.
LEMMA TryingNeedsToken ==
    ASSUME IInv, NEW t \in Request, tokens[t] = None
    PROVE  Trying(t) = {}
BY DEF IInv, FrameInv, Trying

\* The attempts on a token and those about to be made stay within the limit and the
\* concurrency: one more about to be made is one of those in flight, and it found
\* the limit not reached.
LEMMA LimitKept ==
    ASSUME IInv, IInv', InFlightInv, InFlightInv', LimitInv, NEW r \in Request, Turn(r)
    PROVE  LimitInv'
<1> SUFFICES ASSUME NEW t \in Request, tokens'[t] # None
             PROVE  tokens'[t].attempts + Cardinality(Trying(t)')
                        <= MaxAttempts + MaxInFlight - 1
  BY DEF LimitInv
<1>1. Trying(t) \subseteq InFlight /\ Trying(t)' \subseteq InFlight'
  BY DEF Trying, InFlight
<1>2. /\ IsFiniteSet(Trying(t)) /\ Cardinality(Trying(t)) \in Nat
      /\ Cardinality(Trying(t)') \in Nat /\ Cardinality(Trying(t)') <= Cardinality(InFlight')
      /\ Cardinality(InFlight') \in Nat /\ Cardinality(InFlight') <= MaxInFlight
  BY <1>1, PartCounts DEF InFlightInv
<1>3. MaxAttempts \in Nat /\ MaxAttempts >= 1 /\ MaxInFlight \in Nat /\ MaxInFlight >= 1
  BY MaxAttemptsAssumption, RuntimeAssumption
<1>4. CASE tokens[t] = None
  <2>1. Trying(t)' = {}
    BY <1>4, TryingNeedsToken, TryingChanges
  <2>2. tokens'[t].attempts = 0
    BY <1>4, NoAttemptYet
  <2>. QED BY <1>3, <2>1, <2>2, FS_EmptySet
<1>5. CASE tokens[t] # None
  <2>1. /\ tokens[t].attempts \in Nat /\ tokens'[t].attempts \in Nat
        /\ tokens[t].attempts + Cardinality(Trying(t)) <= MaxAttempts + MaxInFlight - 1
    BY <1>5, AttemptsWritten DEF LimitInv
  <2>2. CASE ComparesCode(r) /\ local[r].token = t
    <3>1. r \in Trying(t) /\ tokens'[t].attempts <= tokens[t].attempts + 1
      <4>1. pc[r] = "IncrementAttempts"
        BY <2>2 DEF ComparesCode, CompareCode
      <4>2. tokens'[t].attempts \in {tokens[t].attempts, tokens[t].attempts + 1}
        BY <1>5, <2>2, AttemptsWritten
      <4>. QED BY <2>1, <2>2, <4>1, <4>2 DEF Trying
    <3>2. Cardinality(Trying(t)') < Cardinality(Trying(t))
      BY <1>2, <2>2, <3>1, TryingChanges, PartWithoutCounts
    <3>. QED BY <1>2, <1>3, <2>1, <3>1, <3>2
  <2>3. CASE ~(ComparesCode(r) /\ local[r].token = t) /\ Trying(t)' \subseteq Trying(t)
    <3>1. tokens'[t].attempts = tokens[t].attempts
      BY <1>5, <2>3, AttemptsWritten
    <3>2. Cardinality(Trying(t)') <= Cardinality(Trying(t))
      BY <1>2, <2>3, PartCounts
    <3>. QED BY <1>2, <1>3, <2>1, <3>1, <3>2
  <2>4. CASE tokens' = tokens /\ ~MaxAttemptsExceeded(t)
    <3>1. tokens'[t].attempts <= MaxAttempts - 1
      BY <1>3, <2>1, <2>4 DEF MaxAttemptsExceeded
    <3>. QED BY <1>2, <1>3, <2>1, <3>1
  <2>. QED BY <2>2, <2>3, <2>4, TryingChanges
<1>. QED
  BY <1>4, <1>5

\* Where no statement fails, the counter of a token shows every attempt.
LEMMA AttemptsCountedKept ==
    ASSUME IInv, TriedInv, AttemptsCounted, ~DBFaults, NEW r \in Request, Turn(r)
    PROVE  AttemptsCounted'
<1> SUFFICES ASSUME NEW t \in Request, tokens'[t] # None
             PROVE  tokens'[t].attempts = Cardinality(TriedBy(t)')
  BY DEF AttemptsCounted, Tries, TriedBy
<1>1. CASE tokens[t] = None
  <2>1. TriedBy(t) = {}
    BY <1>1, NoneAssumption DEF TriedInv, TriedBy
  <2>2. ~(ComparesCode(r) /\ local[r].token = t)
    BY <1>1, AttemptNoted
  <2>. QED BY <1>1, <2>1, <2>2, TriedByGrows, NoAttemptYet, FS_EmptySet
<1>2. CASE tokens[t] # None
  <2>1. tokens[t].attempts = Cardinality(TriedBy(t)) /\ IsFiniteSet(TriedBy(t))
    BY <1>2 DEF AttemptsCounted, Tries, TriedBy, TriedInv
  <2>2. CASE ComparesCode(r) /\ local[r].token = t
    <3>1. Cardinality(TriedBy(t)') = Cardinality(TriedBy(t)) + 1
      BY <2>1, <2>2, TriedByGrows, OneMoreCounts
    <3>. QED BY <1>2, <2>1, <2>2, <3>1, AttemptsWritten
  <2>3. CASE ~(ComparesCode(r) /\ local[r].token = t)
    BY <1>2, <2>1, <2>3, TriedByGrows, AttemptsWritten
  <2>. QED BY <2>2, <2>3
<1>. QED
  BY <1>1, <1>2

-----------------------------------------------------------------------------
(* Sign-ins. *)

\* A session comes to be, or is about to, only by the turn of its request.
LEMMA LogInsGrow ==
    ASSUME IInv, NEW r \in Request, Turn(r), NEW u \in Request
    PROVE  /\ LogInsOf(u)' \subseteq LogInsOf(u) \cup {r}
           /\ LogInsOf(u)' \subseteq LogInsOf(u) \/
                 (Continues(r) /\ pc'[r] = "CreateSession" /\ local'[r].user = u)
<1>1. Onward /\ Others(r) /\ TablesGrow(r)
  BY TurnIsOnward
<1>2. \A q \in Request : sessions[q] # None =>
          sessions'[q] # None /\ sessions'[q].user = sessions[q].user
  BY <1>1 DEF TablesGrow, SessionsGrow
<1>3. ASSUME NEW q \in Request \ {r}, q \in LogInsOf(u)' PROVE q \in LogInsOf(u)
  BY <1>1, <1>2, <1>3 DEF TablesGrow, SessionsGrow, Others, LogInsOf
<1>4. CASE sessions'[r] # None /\ sessions'[r].user = u
  <2>1. CASE sessions[r] # None
    BY <1>2, <1>3, <1>4, <2>1 DEF LogInsOf
  <2>2. CASE sessions[r] = None
    <3>1. Continues(r)
      BY <1>4, <2>2 DEF Turn, Arrival, Writes
    <3>. QED BY <1>3, <1>4, <2>2, <3>1, SessionOpened DEF LogInsOf
  <2>. QED BY <2>1, <2>2
<1>5. CASE pc'[r] = "CreateSession" /\ local'[r].user = u
  <2>1. Continues(r)
    BY <1>5 DEF Turn, Arrival
  <2>. QED BY <1>3, <1>5, <2>1 DEF LogInsOf
<1>6. CASE r \notin LogInsOf(u)'
  BY <1>3, <1>6 DEF LogInsOf
<1>. QED
  BY <1>4, <1>5, <1>6 DEF LogInsOf

\* An account that is not there has no sessions.
LEMMA LogInsNeedAccount ==
    ASSUME IInv, NEW u \in Request, users[u] = None
    PROVE  LogInsOf(u) = {}
BY DEF IInv, RowInv, FrameInv, LogInsOf

\* The statement before the INSERT of a session either counts the sign-in, if no
\* statement fails, or has just made the account, with its first sign-in counted.
LEMMA SignInCounted ==
    ASSUME IInv, NEW r \in Request, Turn(r), Continues(r), pc'[r] = "CreateSession",
           NEW u \in Request, local'[r].user = u, ~DBFaults
    PROVE  \/ users[u] = None /\ users'[u].signIns = 1
           \/ /\ users[u] # None /\ users[u].signIns \in Nat
              /\ users'[u].signIns = users[u].signIns + 1
<1>1. StoreTypeOK /\ RuntimeTypeOK /\ FrameInv(r) /\ FreshInv(r)
  BY TurnIsOnward DEF IInv
<1>2. CASE SignUpCreateUser(r)
  <2>1. /\ users' = InsertUser(r, NewUser(input[r].email, FALSE, input[r].password, input[r].profile))
        /\ ~EmailTaken(input[r].email) /\ pc[r] = "CreateUser" /\ local' = [local EXCEPT ![r] = local[r]]
    BY <1>1, <1>2 DEF SignUpCreateUser, Unacknowledged, Answer, Proceed, RuntimeTypeOK
  <2>2. users[r] = None /\ u = r
    BY <1>1, <2>1 DEF FreshInv, FrameInv, RuntimeTypeOK
  <2>. QED BY <1>1, <2>1, <2>2 DEF InsertUser, NewUser, StoreTypeOK
<1>3. CASE JITCreateUser(r)
  <2>1. /\ users' = InsertUser(r, NewUser(tokens[local[r].token].email, TRUE, NoPassword, NoProfile))
        /\ ~EmailTaken(tokens[local[r].token].email)
        /\ pc[r] = "CreateUser" /\ local' = [local EXCEPT ![r] = local[r]]
    BY <1>1, <1>3 DEF JITCreateUser, Unacknowledged, Answer, Proceed, RuntimeTypeOK
  <2>2. users[r] = None /\ u = r
    BY <1>1, <2>1 DEF FreshInv, FrameInv, RuntimeTypeOK
  <2>. QED BY <1>1, <2>1, <2>2 DEF InsertUser, NewUser, StoreTypeOK
<1>4. CASE SignInIncrement(r) \/ LogInIncrement(r)
  <2>1. users' = IncrementSignInCount(local[r].user) /\ pc[r] = "IncrementSignInCount"
    BY <1>4 DEF SignInIncrement, LogInIncrement, Discarding
  <2>2. local'[r].user = local[r].user
    <3>1. [local[r] EXCEPT !.at = now].user = local[r].user
      BY <1>1 DEF RuntimeTypeOK, Frame
    <3>. QED BY <1>1, <1>4, <3>1 DEF SignInIncrement, LogInIncrement, Answer, Proceed, RuntimeTypeOK
  <2>3. users[u] # None /\ u = local[r].user /\ users[u] \in UserRow
    BY <1>1, <2>1, <2>2 DEF FrameInv, StoreTypeOK
  <2>4. /\ [users[u] EXCEPT !.signIns = @ + 1].signIns = users[u].signIns + 1
        /\ users[u].signIns \in Nat
    BY <2>3 DEF UserRow
  <2>. QED BY <1>1, <2>1, <2>3, <2>4 DEF IncrementSignInCount, StoreTypeOK
<1>. QED
  BY <1>2, <1>3, <1>4 DEF Continues, Leads

\* Every session opened or about to be was counted as a sign-in.
LEMMA SignInsKept ==
    ASSUME IInv, SignInInv, NEW r \in Request, Turn(r)
    PROVE  SignInInv'
<1>1. Onward
  BY TurnIsOnward
<1>2. ASSUME NEW u \in Request
      PROVE  /\ IsFiniteSet(LogInsOf(u)') /\ Cardinality(LogInsOf(u)') \in Nat
             /\ IsFiniteSet(LogInsOf(u)) /\ Cardinality(LogInsOf(u)) \in Nat
             /\ Cardinality(LogInsOf(u)') <= Cardinality(LogInsOf(u)) + 1
  BY LogInsGrow, OneMoreCounts DEF SignInInv
<1>3. ASSUME ~DBFaults, NEW u \in Request, users'[u] # None
      PROVE  users'[u].signIns >= Cardinality(LogInsOf(u)')
  <2>1. users'[u].signIns \in Nat
    BY <1>1, <1>3 DEF Onward, TablesGrow, UsersGrow, UserRow
  <2>2. users[u] = None => Cardinality(LogInsOf(u)) = 0
    BY LogInsNeedAccount, FS_EmptySet
  <2>3. users[u] # None =>
            /\ users[u].signIns >= Cardinality(LogInsOf(u)) /\ users[u].signIns \in Nat
            /\ users'[u].signIns >= users[u].signIns
    BY <1>1, <1>3 DEF SignInInv, IInv, TypeOK, StoreTypeOK, UserRow, Onward, TablesGrow, UsersGrow
  <2>4. CASE LogInsOf(u)' \subseteq LogInsOf(u)
    <3>1. Cardinality(LogInsOf(u)') <= Cardinality(LogInsOf(u))
      BY <1>2, <2>4, PartCounts
    <3>. QED BY <1>2, <2>1, <2>2, <2>3, <3>1
  <2>5. CASE Continues(r) /\ pc'[r] = "CreateSession" /\ local'[r].user = u
    BY <1>2, <1>3, <2>2, <2>3, <2>5, SignInCounted
  <2>. QED BY <2>4, <2>5, LogInsGrow
<1>. QED
  BY <1>2, <1>3 DEF SignInInv

-----------------------------------------------------------------------------
(* Dates of tokens. *)

\* Among the tokens an address can still redeem, one is latest.
LEMMA LatestExists ==
    ASSUME IInv, DatesInv, NEW e, NEW type, NEW t \in ActiveTokens(e, type)
    PROVE  \E m \in LatestActive(e, type) : tokens[t].created <= tokens[m].created
<1> DEFINE Ages == {now - tokens[x].created : x \in ActiveTokens(e, type)}
<1>1. \A x \in ActiveTokens(e, type) : now - tokens[x].created \in Nat /\ tokens[x].created \in Nat
  BY DEF IInv, TypeOK, StoreTypeOK, TokenRow, DatesInv, ActiveTokens
<1>2. Ages \subseteq Nat /\ Ages # {} /\ now \in Nat
  BY <1>1 DEF IInv, TypeOK, StoreTypeOK
<1>3. PICK least \in Ages : \A age \in Ages : least <= age
  <2> HIDE DEF Ages
  <2>. QED BY <1>2, LeastNatural
<1>4. PICK m \in ActiveTokens(e, type) : least = now - tokens[m].created
  OBVIOUS
<1>5. ASSUME NEW x \in ActiveTokens(e, type) PROVE tokens[x].created <= tokens[m].created
  <2>1. now - tokens[m].created <= now - tokens[x].created
    BY <1>3, <1>4
  <2>. QED BY <1>1, <1>2, <2>1
<1>. QED
  BY <1>5 DEF LatestActive

\* A request that has passed the cooldown took the date of its token then.
LEMMA DateTaken ==
    ASSUME IInv, NEW r \in Request, Turn(r), Sending(r)'
    PROVE  /\ input' = input /\ tokens' = tokens /\ input[r].op \in SendOps
           /\ \/ ChecksCooldown(r) /\ pc'[r] = "LinkUser" /\ local'[r].at = now
              \/ Sending(r) /\ local'[r].at = local[r].at
<1>1. RuntimeTypeOK /\ Continues(r) /\ input' = input
  BY DEF IInv, TypeOK, Turn, Arrival, Continues, Sending, Amid
<1>2. CASE pc'[r] = "LinkUser"
  <2>1. ChecksCooldown(r) /\ input[r].op \in SendOps
    BY <1>1, <1>2 DEF Continues, Leads
  <2>2. local' = [local EXCEPT ![r] = [Blank EXCEPT !.at = now]] /\ tokens' = tokens
    BY <1>1, <1>2, <2>1 DEF ChecksCooldown, CheckCooldown, NoTable, OnlyUsers, Answer, Proceed,
                            RuntimeTypeOK
  <2>. QED BY <1>1, <1>2, <2>1, <2>2 DEF Blank, RuntimeTypeOK
<1>3. CASE pc'[r] = "CreateToken"
  <2>1. LinksUser(r) /\ input[r].op \in SendOps
    BY <1>1, <1>3 DEF Continues, Leads
  <2>2. \A u : [local[r] EXCEPT !.user = u].at = local[r].at
    BY <1>1 DEF RuntimeTypeOK, Frame
  <2>3. /\ \/ local' = [local EXCEPT ![r] = local[r]]
           \/ \E u \in Request : local' = [local EXCEPT ![r] = [local[r] EXCEPT !.user = u]]
        /\ tokens' = tokens /\ pc[r] = "LinkUser"
    BY <2>1 DEF LinksUser, LinkUser, NoTable, OnlyUsers, Proceed, UsersByEmail
  <2>4. \/ local'[r] = local[r]
        \/ \E u \in Request : local'[r] = [local[r] EXCEPT !.user = u]
    BY <1>1, <2>3 DEF RuntimeTypeOK
  <2>5. local'[r].at = local[r].at
    BY <2>2, <2>4
  <2>. QED BY <1>1, <2>1, <2>3, <2>5 DEF Sending, Amid
<1>. QED
  BY <1>2, <1>3 DEF Sending, Amid

\* A token just stored is dated by then, or is the mail of a sign-up and dated now.
LEMMA TokenDated ==
    ASSUME IInv, NEW r \in Request, Turn(r), NEW t \in Request, tokens[t] = None, tokens'[t] # None
    PROVE  /\ t = r
           /\ \/ tokens'[t].type = "email_verification" /\ tokens'[t].created = now
              \/ /\ Sending(r) /\ pc[r] = "CreateToken"
                 /\ tokens'[t].type = SentType(input[r].op) /\ tokens'[t].email = input[r].email
                 /\ tokens'[t].created = local[r].at
<1>1. t = r /\ StoreTypeOK /\ FreshInv(r)
  BY TurnIsOnward DEF IInv, TablesGrow, TokensGrow
<1>2. Continues(r)
  BY <1>1 DEF Turn, Arrival, Writes
<1>3. (StoresToken(r) /\ input[r].op \in SendOps) \/ WelcomeStoreToken(r)
  BY <1>1, <1>2, TokenIssued
<1>4. PICK row : OwnToken(r, row) /\ tokens' \in {tokens, [tokens EXCEPT ![r] = row]}
  BY <1>3, TokenStored
<1>5. tokens'[t] = row
  BY <1>1, <1>4 DEF StoreTypeOK
<1>6. WelcomeStoreToken(r) => pc[r] = "done"
  BY <1>1 DEF WelcomeStoreToken, FreshInv
<1>. QED
  BY <1>1, <1>3, <1>4, <1>5, <1>6 DEF OwnToken, Sending, Amid

\* No date lies in the future.
LEMMA DatesKept ==
    ASSUME IInv, DatesInv, NEW r \in Request, Turn(r)
    PROVE  DatesInv'
<1>1. Onward /\ Others(r) /\ now' = now /\ now \in Nat /\ StoreTypeOK
  BY TurnIsOnward DEF Onward
<1>2. ASSUME NEW q \in Request, Sending(q)' PROVE local'[q].at <= now
  <2>1. CASE q = r
    BY <1>1, <1>2, <2>1, DateTaken DEF DatesInv
  <2>2. CASE q # r
    BY <1>1, <1>2, <2>2 DEF Others, Sending, Amid, DatesInv
  <2>. QED BY <2>1, <2>2
<1>3. ASSUME NEW t \in Request, tokens'[t] # None PROVE tokens'[t].created <= now
  <2>1. CASE tokens[t] = None
    BY <1>1, <1>3, <2>1, TokenDated DEF DatesInv
  <2>2. CASE tokens[t] # None
    BY <1>1, <2>2 DEF DatesInv, Onward, TablesGrow, TokensGrow
  <2>. QED BY <2>1, <2>2
<1>. QED
  BY <1>1, <1>2, <1>3 DEF DatesInv

-----------------------------------------------------------------------------
(* One request at a time. *)

\* Then whoever takes a turn is alone, or has been answered and leaves everything
\* but its mail and the token in it alone.
LEMMA AloneInFlight ==
    ASSUME IInv, InFlightInv, MaxInFlight = 1, NEW r \in Request, Turn(r),
           NEW q \in Request, pc[q] \in Call, q # r
    PROVE  Continues(r) /\ pc[r] = "done" /\ users' = users
<1>1. q \in InFlight /\ IsFiniteSet(InFlight) /\ Cardinality(InFlight) <= 1
  BY DEF InFlight, InFlightInv
<1>2. /\ Cardinality(InFlight \ {q}) = Cardinality(InFlight) - 1
      /\ Cardinality(InFlight) \in Nat /\ Cardinality(InFlight \ {q}) \in Nat
      /\ IsFiniteSet(InFlight \ {q})
  BY <1>1, FS_RemoveElement, FS_CardinalityType
<1>3. InFlight \ {q} = {}
  BY <1>1, <1>2, FS_EmptySet
<1>4. pc[r] \notin Call
  BY <1>3 DEF InFlight
<1>5. ~Arrival(r)
  BY <1>1, <1>2 DEF Arrival
<1>. QED
  BY <1>4, <1>5 DEF Turn, Continues

\* So the password verified is still the one that is overwritten.
LEMMA PasswordGuardKept ==
    ASSUME IInv, InFlightInv, MaxInFlight = 1, NEW r \in Request, Turn(r),
           NEW q \in Request, PasswordGuard(q)
    PROVE  PasswordGuard(q)'
<1> SUFFICES ASSUME pc'[q] = "UpdatePassword"
             PROVE  users'[local'[q].user].password = input'[q].password
  BY DEF PasswordGuard
<1>1. RuntimeTypeOK /\ Others(r)
  BY TurnIsOnward
<1>2. CASE q # r
  <2>1. pc[q] = "UpdatePassword" /\ local'[q] = local[q] /\ input'[q] = input[q]
    BY <1>1, <1>2 DEF Others
  <2>2. users' = users
    BY <1>2, <2>1, AloneInFlight
  <2>. QED BY <2>1, <2>2 DEF PasswordGuard
<1>3. CASE q = r
  <2>1. Continues(r) /\ ChangePasswordGetById(r)
    BY <1>3 DEF Turn, Arrival, Continues, Leads
  <2>2. /\ users[local[r].user].password = input[r].password
        /\ local' = [local EXCEPT ![r] = local[r]] /\ users' = users /\ input' = input
    BY <1>1, <1>3, <2>1 DEF ChangePasswordGetById, NoTable, OnlyUsers, QueryFails, Answer, Proceed,
                            RuntimeTypeOK
  <2>. QED BY <1>1, <1>3, <2>2 DEF RuntimeTypeOK
<1>. QED
  BY <1>2, <1>3

\* A token that can be redeemed after a step and was there before it could be then.
LEMMA LiveBefore ==
    ASSUME IInv, Onward, NEW t \in Request, tokens[t] # None, ~tokens'[t].consumed
    PROVE  /\ ~tokens[t].consumed /\ tokens'[t].type = tokens[t].type
           /\ tokens'[t].email = tokens[t].email /\ tokens'[t].created = tokens[t].created
BY DEF Onward, TablesGrow, TokensGrow

\* The types that the two send endpoints write are not that of a sign-up's mail.
LEMMA SentTypes == \A op : SentType(op) # "email_verification"
BY DEF SentType

\* No other request stores a token between the check of the cooldown and the INSERT,
\* and the check found every live token a cooldown old.
LEMMA CooldownGuardKept ==
    ASSUME IInv, IInv', InFlightInv, DatesInv, MaxInFlight = 1, ~DBFaults,
           NEW r \in Request, Turn(r), NEW q \in Request, CooldownGuard(q)
    PROVE  CooldownGuard(q)'
<1> SUFFICES ASSUME Sending(q)', NEW t \in Request,
                    tokens'[t] # None, ~tokens'[t].consumed,
                    tokens'[t].type = SentType(input'[q].op), tokens'[t].email = input'[q].email
             PROVE  local'[q].at - tokens'[t].created >= Cooldown
  BY DEF CooldownGuard, LiveOfKind
<1>1. Onward /\ Others(r) /\ RuntimeTypeOK
  BY TurnIsOnward
<1>2. CASE q # r
  <2>1. Sending(q) /\ local'[q] = local[q] /\ input'[q] = input[q] /\ pc[q] \in Call
    BY <1>1, <1>2 DEF Others, Sending, Amid
  <2>2. pc[r] = "done"
    BY <1>2, <2>1, AloneInFlight
  <2>3. tokens[t] # None
    BY <2>2, TokenDated, SentTypes
  <2>4. LiveOfKind(t, input[q].op, input[q].email) /\ tokens'[t].created = tokens[t].created
    BY <1>1, <2>1, <2>3, LiveBefore DEF LiveOfKind
  <2>. QED BY <2>1, <2>4 DEF CooldownGuard
<1>3. CASE q = r /\ Sending(r) /\ local'[r].at = local[r].at
  BY <1>3, DateTaken DEF CooldownGuard, LiveOfKind
<1>4. CASE q = r /\ ChecksCooldown(r) /\ pc'[r] = "LinkUser" /\ local'[r].at = now
  <2> DEFINE op == input[r].op
             type == SentType(op)
  <2>1. /\ tokens' = tokens /\ input' = input
    BY <1>4, DateTaken
  <2>2. t \in ActiveTokens(input[r].email, type)
    BY <1>4, <2>1 DEF ActiveTokens
  <2>3. PICK m \in LatestActive(input[r].email, type) : tokens[t].created <= tokens[m].created
    BY <2>2, LatestExists
  <2>4. ~ (now - tokens[m].created < Cooldown)
    <3>1. {x \in LatestActive(input[r].email, type) : now - tokens[x].created < Cooldown} = {}
      BY <1>1, <1>4 DEF ChecksCooldown, CheckCooldown, Answer, RuntimeTypeOK
    <3>. QED BY <3>1
  <2>5. /\ tokens[t].created \in Nat /\ tokens[m].created \in Nat /\ now \in Nat /\ Cooldown \in Nat
    BY <1>1, <2>2, DurationAssumption
    DEF IInv, TypeOK, StoreTypeOK, TokenRow, ActiveTokens, LatestActive
  <2>. QED BY <1>4, <2>1, <2>3, <2>4, <2>5
<1>. QED
  BY <1>2, <1>3, <1>4, DateTaken

\* Two tokens of one kind and address that can both be redeemed are a cooldown apart;
\* an account has but one mail of a sign-up.
LEMMA CooldownKept ==
    ASSUME IInv, IInv', HistoryInv', \A q \in Request : CooldownGuard(q),
           CooldownBetweenLiveTokens, NEW r \in Request, Turn(r)
    PROVE  CooldownBetweenLiveTokens'
<1> SUFFICES ASSUME NEW t \in Request, NEW u \in Request, t # u,
                    tokens'[t] # None, tokens'[u] # None,
                    ~tokens'[t].consumed, ~tokens'[u].consumed,
                    tokens'[t].email = tokens'[u].email, tokens'[t].type = tokens'[u].type
             PROVE  \/ tokens'[t].created - tokens'[u].created >= Cooldown
                    \/ tokens'[u].created - tokens'[t].created >= Cooldown
  BY DEF CooldownBetweenLiveTokens
<1>1. Onward
  BY TurnIsOnward
<1>2. tokens'[t].type # "email_verification"
  <2> SUFFICES ASSUME tokens'[t].type = "email_verification" PROVE FALSE
    OBVIOUS
  <2>1. ASSUME NEW x \in {t, u}
        PROVE  users'[x] # None /\ users'[x].email = tokens'[t].email
    <3>1. tokens'[x] # None /\ tokens'[x].type = "email_verification" /\ tokens'[x].email = tokens'[t].email
      OBVIOUS
    <3>2. tokens'[x].user = x /\ users'[x].email = tokens'[x].email
      BY <3>1 DEF HistoryInv, TokenRowInv
    <3>3. users'[tokens'[x].user] # None
      BY <3>1 DEF IInv, RowInv
    <3>. QED BY <3>1, <3>2, <3>3
  <2>. QED BY <2>1 DEF IInv, UniqueEmail
<1>3. ASSUME NEW new \in Request, NEW old \in Request, tokens[new] = None, tokens[old] # None,
             tokens'[new] # None, tokens'[new].type # "email_verification", ~tokens'[old].consumed,
             tokens'[new].email = tokens'[old].email, tokens'[new].type = tokens'[old].type
      PROVE  tokens'[new].created - tokens'[old].created >= Cooldown
  <2>1. /\ Sending(r) /\ tokens'[new].created = local[r].at
        /\ tokens'[new].type = SentType(input[r].op) /\ tokens'[new].email = input[r].email
    BY <1>3, TokenDated
  <2>2. LiveOfKind(old, input[r].op, input[r].email) /\ tokens'[old].created = tokens[old].created
    BY <1>1, <1>3, <2>1, LiveBefore DEF LiveOfKind
  <2>. QED BY <2>1, <2>2 DEF CooldownGuard
<1>4. CASE tokens[t] = None
  <2>1. tokens[u] # None
    BY <1>4, TokenDated
  <2>. QED BY <1>2, <1>3, <1>4, <2>1
<1>5. CASE tokens[u] = None
  <2>1. tokens[t] # None
    BY <1>5, TokenDated
  <2>. QED BY <1>2, <1>3, <1>5, <2>1
<1>6. CASE tokens[t] # None /\ tokens[u] # None
  BY <1>1, <1>6, LiveBefore DEF CooldownBetweenLiveTokens
<1>. QED
  BY <1>4, <1>5, <1>6

\* The turn of a request preserves the invariant of the counters.
LEMMA TurnKeepsCounts ==
    ASSUME IInv, IInv', HistoryInv', CountInv, NEW r \in Request, Turn(r)
    PROVE  CountInv'
<1>1. InFlightInv'
  BY InFlightKept DEF CountInv
<1>2. TriedInv' /\ SignInInv' /\ DatesInv'
  BY TriedKept, SignInsKept, DatesKept DEF CountInv
<1>3. LimitInv'
  BY <1>1, LimitKept DEF CountInv
<1>4. ~DBFaults => AttemptsCounted'
  BY AttemptsCountedKept DEF CountInv
<1>5. ASSUME MaxInFlight = 1, NEW q \in Request PROVE PasswordGuard(q)'
  BY <1>5, PasswordGuardKept DEF CountInv, SerialInv
<1>6. ASSUME MaxInFlight = 1, ~DBFaults, NEW q \in Request PROVE CooldownGuard(q)'
  BY <1>6, CooldownGuardKept DEF CountInv, SerialInv
<1>7. MaxInFlight = 1 /\ ~DBFaults => CooldownBetweenLiveTokens'
  BY CooldownKept DEF CountInv, SerialInv
<1>. QED
  BY <1>1, <1>2, <1>3, <1>4, <1>5, <1>6, <1>7 DEF CountInv, SerialInv

\* So does a step of nobody, which counts nothing and starts nothing.
LEMMA IdleKeepsCounts ==
    ASSUME IInv, CountInv, Idle
    PROVE  CountInv'
<1>1. /\ Onward /\ RuntimeTypeOK /\ UNCHANGED <<sessions, tokens, input, audit>>
      /\ \A q \in Request : (pc'[q] = pc[q] /\ local'[q] = local[q]) \/ pc'[q] = "lost"
  BY DEF IInv, TypeOK, Idle
<1>2. InFlightInv'
  <2>1. InFlight' \subseteq InFlight
    BY <1>1 DEF InFlight
  <2>. QED BY <2>1, PartCounts, RuntimeAssumption DEF CountInv, InFlightInv
<1>3. TriedInv'
  <2>1. \A t \in Request : TriedBy(t)' = TriedBy(t)
    BY <1>1 DEF TriedBy
  <2>2. \A t \in Request : IsFiniteSet(TriedBy(t)')
    BY <2>1 DEF CountInv, TriedInv
  <2>. QED BY <1>1, <2>2 DEF CountInv, TriedInv
<1>4. LimitInv'
  <2> SUFFICES ASSUME NEW t \in Request, tokens[t] # None
               PROVE  tokens[t].attempts + Cardinality(Trying(t)')
                          <= MaxAttempts + MaxInFlight - 1
    BY <1>1 DEF LimitInv
  <2>1. Trying(t) \subseteq InFlight /\ Trying(t)' \subseteq Trying(t)
    BY <1>1 DEF Trying, InFlight
  <2>2. IsFiniteSet(Trying(t))
    BY <2>1, PartCounts DEF CountInv, InFlightInv
  <2>3. /\ Cardinality(Trying(t)') \in Nat /\ Cardinality(Trying(t)) \in Nat
        /\ Cardinality(Trying(t)') <= Cardinality(Trying(t))
    BY <2>1, <2>2, PartCounts
  <2>4. tokens[t].attempts \in Nat
    BY DEF IInv, TypeOK, StoreTypeOK, TokenRow
  <2>. QED BY <2>3, <2>4, MaxAttemptsAssumption, RuntimeAssumption DEF CountInv, LimitInv
<1>5. SignInInv'
  <2>1. ASSUME NEW u \in Request
        PROVE  /\ IsFiniteSet(LogInsOf(u)') /\ Cardinality(LogInsOf(u)') \in Nat
               /\ Cardinality(LogInsOf(u)) \in Nat
               /\ Cardinality(LogInsOf(u)') <= Cardinality(LogInsOf(u))
    <3>1. LogInsOf(u)' \subseteq LogInsOf(u)
      BY <1>1 DEF LogInsOf
    <3>. QED BY <3>1, PartCounts DEF CountInv, SignInInv
  <2>2. ASSUME ~DBFaults, NEW u \in Request, users'[u] # None
        PROVE  users'[u].signIns >= Cardinality(LogInsOf(u)')
    <3>1. users[u] # None /\ users[u].signIns \in Nat /\ users'[u].signIns \in Nat
      BY <1>1, <2>2 DEF Idle, IInv, TypeOK, StoreTypeOK, UserRow, Onward, TablesGrow, UsersGrow
    <3>2. users'[u].signIns >= users[u].signIns /\ users[u].signIns >= Cardinality(LogInsOf(u))
      BY <1>1, <2>2, <3>1 DEF Onward, TablesGrow, UsersGrow, CountInv, SignInInv
    <3>. QED BY <2>1, <3>1, <3>2
  <2>. QED BY <2>1, <2>2 DEF SignInInv
<1>6. DatesInv'
  <2>1. \A q \in Request : Sending(q)' => Sending(q) /\ local'[q] = local[q]
    BY <1>1 DEF Sending, Amid
  <2>2. \A q \in Request : local[q].at \in Nat
    BY <1>1 DEF RuntimeTypeOK, Frame
  <2>3. \A t \in Request : tokens[t] # None => tokens[t].created \in Nat
    BY DEF IInv, TypeOK, StoreTypeOK, TokenRow
  <2>. QED BY <1>1, <2>1, <2>2, <2>3 DEF CountInv, DatesInv, Onward
<1>7. \A q \in Request : /\ PasswordGuard(q) => PasswordGuard(q)'
                         /\ CooldownGuard(q) => CooldownGuard(q)'
  <2>1. ASSUME NEW q \in Request, PasswordGuard(q) PROVE PasswordGuard(q)'
    BY <1>1, <2>1 DEF Idle, IInv, FrameInv, PasswordGuard
  <2>2. ASSUME NEW q \in Request, CooldownGuard(q) PROVE CooldownGuard(q)'
    BY <1>1, <2>2 DEF Sending, Amid, LiveOfKind, CooldownGuard
  <2>. QED BY <2>1, <2>2
<1>8. (CooldownBetweenLiveTokens <=> CooldownBetweenLiveTokens') /\ (AttemptsCounted <=> AttemptsCounted')
  BY <1>1 DEF CooldownBetweenLiveTokens, AttemptsCounted, Tries
<1>. QED
  BY <1>2, <1>3, <1>4, <1>5, <1>6, <1>7, <1>8 DEF CountInv, SerialInv

\* At the start nothing is counted and nobody is served.
LEMMA InitCounts ==
    ASSUME Init
    PROVE  CountInv
<1>1. /\ \A r \in Request : pc[r] = "new" /\ audit[r].tried = None
      /\ \A r \in Request : users[r] = None /\ sessions[r] = None /\ tokens[r] = None
  BY DEF Init, StoreInit, NoAudit
<1>2. /\ InFlight = {}
      /\ \A t \in Request : TriedBy(t) = {} /\ LogInsOf(t) = {}
  BY <1>1, NoneAssumption DEF InFlight, TriedBy, LogInsOf
<1>3. InFlightInv
  BY <1>2, FS_EmptySet, RuntimeAssumption DEF InFlightInv
<1>4. TriedInv /\ LimitInv /\ SignInInv /\ AttemptsCounted
  BY <1>1, <1>2, FS_EmptySet DEF TriedInv, LimitInv, SignInInv, AttemptsCounted
<1>5. DatesInv /\ SerialInv
  BY <1>1 DEF DatesInv, SerialInv, Sending, Amid, PasswordGuard, CooldownGuard,
              CooldownBetweenLiveTokens
<1>. QED
  BY <1>3, <1>4, <1>5 DEF CountInv

\* Every step preserves the invariant of the counters.
LEMMA NextKeepsCounts ==
    ASSUME IInv, IInv', HistoryInv', CountInv, [Next]_vars
    PROVE  CountInv'
<1>1. CASE Request = {}
  <2>1. InFlight = {} /\ InFlight' = {}
    BY <1>1 DEF InFlight
  <2>. QED BY <1>1, <2>1 DEF CountInv, InFlightInv, TriedInv, LimitInv, SignInInv, DatesInv, SerialInv,
                             AttemptsCounted, CooldownBetweenLiveTokens
<1>2. CASE Request # {}
  BY <1>2, TurnOrIdle, TurnKeepsCounts, IdleKeepsCounts
<1>. QED
  BY <1>1, <1>2

-----------------------------------------------------------------------------
\* In every reachable state the counters agree with what the goroutines did.
THEOREM CountHolds == Spec => []CountInv
BY InitCounts, NextKeepsCounts, InvariantHolds, HistoryHolds, PTL DEF Spec

\* Where no statement fails, a token's counter shows every comparison of its code:
\* no attempt is lost to a concurrent one.
THEOREM AttemptsAreCounted == Spec => [](~DBFaults => AttemptsCounted)
<1>1. CountInv => (~DBFaults => AttemptsCounted)
  BY DEF CountInv
<1>. QED
  BY <1>1, CountHolds, PTL

\* Where no statement fails, a code gets no more tries than the limit and the
\* concurrency account for, though the limit is read before it is counted.
THEOREM OvershootIsBounded == Spec => [](~DBFaults => OvershootBounded)
<1>1. ASSUME IInv, CountInv, ~DBFaults, NEW t \in Request
      PROVE  Tries(t) <= MaxAttempts + MaxInFlight - 1
  <2>1. Trying(t) \subseteq InFlight
    BY DEF Trying, InFlight
  <2>2. Cardinality(Trying(t)) \in Nat
    BY <1>1, <2>1, PartCounts DEF CountInv, InFlightInv
  <2>3. CASE tokens[t] = None
    <3>1. TriedBy(t) = {}
      BY <1>1, <2>3, NoneAssumption DEF CountInv, TriedInv, TriedBy
    <3>2. Tries(t) = 0
      BY <3>1, FS_EmptySet DEF Tries, TriedBy
    <3>. QED BY <3>2, MaxAttemptsAssumption, RuntimeAssumption
  <2>4. CASE tokens[t] # None
    <3>1. tokens[t].attempts \in Nat
      BY <1>1, <2>4 DEF IInv, TypeOK, StoreTypeOK, TokenRow
    <3>2. tokens[t].attempts = Tries(t)
      BY <1>1, <2>4 DEF CountInv, AttemptsCounted
    <3>3. tokens[t].attempts + Cardinality(Trying(t)) <= MaxAttempts + MaxInFlight - 1
      BY <1>1, <2>4 DEF CountInv, LimitInv
    <3>. QED BY <2>2, <3>1, <3>2, <3>3, MaxAttemptsAssumption, RuntimeAssumption
  <2>. QED BY <2>3, <2>4
<1>2. IInv /\ CountInv => (~DBFaults => OvershootBounded)
  BY <1>1 DEF OvershootBounded
<1>. QED
  BY <1>2, InvariantHolds, CountHolds, PTL

\* So one request at a time keeps the limit that README.md:26 promises.
THEOREM SerialAttemptLimit == Spec => [](MaxInFlight = 1 /\ ~DBFaults => AttemptLimit)
<1>1. (~DBFaults => OvershootBounded) => (MaxInFlight = 1 /\ ~DBFaults => AttemptLimit)
  <2>1. MaxInFlight = 1 => MaxAttempts + MaxInFlight - 1 = MaxAttempts
    BY MaxAttemptsAssumption
  <2>. QED BY <2>1 DEF OvershootBounded, AttemptLimit
<1>. QED
  BY <1>1, OvershootIsBounded, PTL

\* Where no statement fails, every session of an account was counted as a sign-in.
THEOREM SignInsCoverSessions == Spec => [](~DBFaults => SignInCountCoversSessions)
<1>1. ASSUME IInv, CountInv, ~DBFaults, NEW u \in Request, users[u] # None
      PROVE  users[u].signIns >= Cardinality({s \in ExistingSessions : sessions[s].user = u})
  <2>1. {s \in ExistingSessions : sessions[s].user = u} \subseteq LogInsOf(u)
    BY DEF ExistingSessions, LogInsOf
  <2>2. IsFiniteSet(LogInsOf(u)) /\ users[u].signIns >= Cardinality(LogInsOf(u))
    BY <1>1 DEF CountInv, SignInInv
  <2>3. users[u].signIns \in Nat
    BY <1>1 DEF IInv, TypeOK, StoreTypeOK, UserRow
  <2>. QED BY <2>1, <2>2, <2>3, PartCounts
<1>2. IInv /\ CountInv => (~DBFaults => SignInCountCoversSessions)
  BY <1>1 DEF SignInCountCoversSessions
<1>. QED
  BY <1>2, InvariantHolds, CountHolds, PTL

\* One request at a time, with no statement failing, two links or codes for one
\* address that can both be redeemed were sent a cooldown apart.
THEOREM SerialCooldown ==
    Spec => [](MaxInFlight = 1 /\ ~DBFaults => CooldownBetweenLiveTokens)
<1>1. CountInv => (MaxInFlight = 1 /\ ~DBFaults => CooldownBetweenLiveTokens)
  BY DEF CountInv, SerialInv
<1>. QED
  BY <1>1, CountHolds, PTL

-----------------------------------------------------------------------------
(* Who replaces a password. *)

\* Of the statements that write an account that exists, only the one of the password
\* change writes its password.
LEMMA PasswordReplaced ==
    ASSUME IInv, NEW r \in Request, Turn(r), NEW u \in Request,
           users[u] # None, users[u].password # users'[u].password
    PROVE  Continues(r) /\ ChangePasswordUpdate(r) /\ u = local[r].user
<1>1. StoreTypeOK /\ FreshInv(r) /\ users[u] \in UserRow
  BY TurnIsOnward DEF IInv, StoreTypeOK
<1>2. Continues(r)
  BY DEF Turn, Arrival, Writes
<1>3. ~(SignUpCreateUser(r) \/ JITCreateUser(r))
  <2> SUFFICES ASSUME SignUpCreateUser(r) \/ JITCreateUser(r) PROVE FALSE
    OBVIOUS
  <2>1. users[r] = None
    BY <1>1 DEF FreshInv, SignUpCreateUser, JITCreateUser
  <2>2. PICK row : users' \in {users, InsertUser(r, row)}
    BY DEF SignUpCreateUser, JITCreateUser
  <2>. QED BY <1>1, <2>1, <2>2 DEF StoreTypeOK, InsertUser
<1>4. \A v : /\ IncrementSignInCount(v)[u].password = users[u].password
             /\ SetEmailVerified(v)[u].password = users[u].password
             /\ \A f : UpdateProfile(v, f)[u].password = users[u].password
             /\ \A p : v # u => UpdatePassword(v, p)[u].password = users[u].password
  BY <1>1 DEF StoreTypeOK, UserRow, IncrementSignInCount, SetEmailVerified, UpdateProfile, UpdatePassword
<1>5. ~(SignInIncrement(r) \/ LogInIncrement(r) \/ LogInSetEmailVerified(r)
        \/ MarkEmailVerified(r) \/ UpdateMeUpdate(r))
  BY <1>4 DEF SignInIncrement, LogInIncrement, LogInSetEmailVerified, MarkEmailVerified,
              UpdateMeUpdate, Discarding
<1>6. ChangePasswordUpdate(r)
  BY <1>2, <1>3, <1>5 DEF Continues, Changes
<1>. QED
  BY <1>2, <1>4, <1>6 DEF ChangePasswordUpdate

\* One at a time, it does so for the holder of the session, who named that password.
LEMMA PasswordReplacedByHolder ==
    ASSUME IInv, HistoryInv, CountInv, [Next]_vars, MaxInFlight = 1,
           NEW u \in Request, users[u] # None, users[u].password # users'[u].password
    PROVE  \E r \in Request : /\ input[r].op = "ChangePassword" /\ audit[r].who = u
                              /\ pc[r] = "UpdatePassword" /\ pc'[r] # pc[r]
                              /\ input[r].password = users[u].password
<1>1. PICK r \in Request : Turn(r)
  BY TurnOrIdle DEF Idle
<1>2. Continues(r) /\ ChangePasswordUpdate(r) /\ u = local[r].user
  BY <1>1, PasswordReplaced
<1>3. input[r].op = "ChangePassword" /\ pc[r] = "UpdatePassword"
  BY <1>2 DEF ChangePasswordUpdate
<1>4. audit[r].who = u
  BY <1>2, <1>3 DEF HistoryInv, HistoryOf, AnswerGuard, Amid, AuthenticatedOps
<1>5. input[r].password = users[u].password
  BY <1>2, <1>3 DEF CountInv, SerialInv, PasswordGuard
<1>6. pc'[r] # pc[r]
  BY <1>2, <1>3 DEF Continues, Leads, ChangePasswordGetById
<1>. QED
  BY <1>3, <1>4, <1>5, <1>6

\* Where requests are handled one at a time, a password is replaced only by a request
\* that a session of its holder let in and that named it.
THEOREM SerialPasswordChange == Spec /\ [](MaxInFlight = 1) => CurrentPasswordRequired
<1>1. IInv /\ HistoryInv /\ CountInv /\ MaxInFlight = 1 /\ [Next]_vars =>
          [\A u \in Request :
               users[u] # None /\ users[u].password # users'[u].password =>
                   \E r \in Request : /\ input[r].op = "ChangePassword"
                                      /\ audit[r].who = u
                                      /\ pc[r] = "UpdatePassword" /\ pc'[r] # pc[r]
                                      /\ input[r].password = users[u].password]_vars
  BY PasswordReplacedByHolder
<1>. QED
  BY <1>1, InvariantHolds, HistoryHolds, CountHolds, PTL DEF Spec, CurrentPasswordRequired
=============================================================================
