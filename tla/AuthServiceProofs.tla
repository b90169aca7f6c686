------------------------- MODULE AuthServiceProofs --------------------------
(***************************************************************************)
(* The theorems about the whole server: the inductive invariant, the       *)
(* safety properties it contains, and that verification tokens implement   *)
(* OneTimeToken.                                                           *)
(***************************************************************************)
EXTENDS HandlerProofs

\* The lists of calls and endpoints are spelt out throughout.
USE DEF At, Call, AccountCalls, SessionCalls, TokenCalls, PendingCalls, LogInOps, VerifyEmailOps

\* Every step of the server does no more than Kept allows.
LEMMA StepKeeps ==
    ASSUME IInv, NEW r \in Request, Step(r)
    PROVE  Kept(r)
BY PasswordSessionsStepKeeps, PasswordlessStepKeeps, EmailVerificationStepKeeps DEF Step

\* The passing of time preserves the invariant.
LEMMA TickPreserves ==
    ASSUME IInv, Tick
    PROVE  IInv'
BY DEF IInv, TypeOK, StoreTypeOK, RuntimeTypeOK, InputInv, FrameInv, FreshInv, RowInv,
       ConsumedInv, UniqueEmail, SingleUse, Tick, runtime

\* So does a crash: what it forgets nobody relies on.
LEMMA CrashPreserves ==
    ASSUME IInv, Crash
    PROVE  IInv'
<1>1. RuntimeTypeOK /\ Blank \in Frame
  BY FramesTyped DEF IInv, TypeOK, Crash, InFlight
<1>2. TypeOK'
  BY <1>1 DEF IInv, TypeOK, StoreTypeOK, RuntimeTypeOK, JobState, Crash
<1>3. ASSUME NEW r \in Request PROVE InputInv(r)' /\ FrameInv(r)' /\ FreshInv(r)'
  <2>1. \/ pc[r] \in Call /\ pc'[r] = "lost"
        \/ pc[r] \notin Call /\ pc'[r] = pc[r] /\ local'[r] = local[r]
    BY DEF Crash, InFlight
  <2>2. job'[r] = job[r] \/ job'[r] = "lost"
    BY DEF Crash
  <2>3. pc[r] \in Call => job[r] = "none" /\ job'[r] = "none"
    BY DEF IInv, FreshInv, Crash
  <2>4. input' = input /\ UNCHANGED <<users, sessions, tokens>>
    BY DEF Crash
  <2>. QED BY <2>1, <2>2, <2>3, <2>4 DEF IInv, InputInv, FrameInv, FreshInv, Crash
<1>4. RowInv' /\ ConsumedInv' /\ UniqueEmail' /\ SingleUse'
  BY DEF IInv, RowInv, ConsumedInv, UniqueEmail, SingleUse, Crash
<1>. QED
  BY <1>2, <1>3, <1>4 DEF IInv

\* The suspension or deletion of an account lets the tables grow, but adds no row.
LEMMA SuspendGrows ==
    ASSUME IInv, NEW u \in Request, Suspend(u)
    PROVE  /\ \E r \in Request : TablesGrow(r)
           /\ \A q \in Request : users'[q] # None => users[q] # None
<1>1. PICK status \in UserStatus : users' = [users EXCEPT ![u].status = status]
  BY DEF Suspend
<1>2. /\ users[u] # None /\ users[u].status = "active" /\ users[u] \in UserRow
      /\ UNCHANGED <<sessions, tokens>> /\ users \in [Request -> UserRow \cup {None}]
  BY DEF IInv, TypeOK, StoreTypeOK, Suspend, IsActive
<1>3. AccountKept(users[u], [users[u] EXCEPT !.status = status])
  <2> DEFINE next == [users[u] EXCEPT !.status = status]
  <2>1. next \in UserRow /\ next.email = users[u].email /\ next.signIns = users[u].signIns
    BY <1>2 DEF UserRow
  <2>2. next.verified = users[u].verified
    BY <1>2 DEF UserRow
  <2>3. users[u].signIns \in Nat
    BY <1>2 DEF UserRow
  <2> HIDE DEF next
  <2>. QED BY <1>2, <2>1, <2>2, <2>3 DEF AccountKept, next
<1>4. UsersGrow(u)
  BY <1>1, <1>2, <1>3, UserReplaced DEF IInv, TypeOK
<1>5. TablesGrow(u)
  BY <1>2, <1>4, SessionsStay, TokensStay DEF IInv, TypeOK, TablesGrow
<1>. QED
  BY <1>1, <1>2, <1>5

\* So that it preserves the invariant.
LEMMA SuspendPreserves ==
    ASSUME IInv, NEW u \in Request, Suspend(u)
    PROVE  IInv'
<1>1. UNCHANGED <<sessions, tokens, now, runtime>>
  BY DEF Suspend
<1>2. PICK r \in Request : UsersGrow(r)
  BY SuspendGrows DEF TablesGrow
<1>3. \A v \in Request : /\ users[v] # None <=> users'[v] # None
                         /\ users[v] # None => users'[v].email = users[v].email
  BY <1>2, SuspendGrows DEF UsersGrow
<1>4. TypeOK'
  BY <1>1, <1>2 DEF UsersGrow, IInv, TypeOK, StoreTypeOK, RuntimeTypeOK, runtime
<1>5. ASSUME NEW q \in Request PROVE InputInv(q)' /\ FrameInv(q)' /\ FreshInv(q)'
  BY <1>1, <1>3 DEF IInv, InputInv, FrameInv, FreshInv, runtime
<1>6. RowInv'
  BY <1>1, <1>3 DEF IInv, TypeOK, StoreTypeOK, SessionRow, RowInv
<1>7. ConsumedInv' /\ SingleUse'
  BY <1>1 DEF IInv, ConsumedInv, SingleUse, runtime
<1>8. UniqueEmail'
  BY <1>3 DEF IInv, UniqueEmail
<1>. QED
  BY <1>4, <1>5, <1>6, <1>7, <1>8 DEF IInv

\* The invariant holds of the empty database.
LEMMA InitIInv ==
    ASSUME Init
    PROVE  IInv
<1>1. NoInput \in Input /\ NoAudit \in Audit /\ Blank \in Frame
  BY DEF NoInput, Input, NoAudit, Audit, Blank, Frame, UserStatus
<1>2. TypeOK
  BY <1>1 DEF Init, StoreInit, TypeOK, StoreTypeOK, RuntimeTypeOK, JobState
<1>3. ASSUME NEW r \in Request PROVE InputInv(r) /\ FrameInv(r) /\ FreshInv(r)
  BY DEF Init, StoreInit, NoAudit, InputInv, FrameInv, FreshInv
<1>4. RowInv /\ ConsumedInv /\ UniqueEmail /\ SingleUse
  BY DEF Init, StoreInit, NoAudit, RowInv, ConsumedInv, UniqueEmail, SingleUse
<1>. QED
  BY <1>2, <1>3, <1>4 DEF IInv

\* Every step preserves it.
LEMMA NextPreserves ==
    ASSUME IInv, [Next]_vars
    PROVE  IInv'
<1>1. CASE Environment
  BY <1>1, TickPreserves, CrashPreserves, SuspendPreserves DEF Environment
<1>2. ASSUME NEW r \in Request, Step(r) PROVE IInv'
  BY <1>2, StepKeeps, KeptPreserves
<1>3. CASE UNCHANGED vars
  BY <1>3 DEF vars, IInv, TypeOK, StoreTypeOK, RuntimeTypeOK, InputInv, FrameInv, FreshInv,
              RowInv, ConsumedInv, UniqueEmail, SingleUse
<1>. QED
  BY <1>1, <1>2, <1>3 DEF Next

-----------------------------------------------------------------------------
\* Every reachable state satisfies the inductive invariant, for any number of
\* requests, in any interleaving, with crashes and statements that fail.
THEOREM InvariantHolds == Spec => []IInv
BY InitIInv, NextPreserves, PTL DEF Spec

\* Every variable keeps the type its Go or SQL declaration gives it.
THEOREM TypesHold == Spec => []TypeOK
<1>1. IInv => TypeOK
  BY DEF IInv
<1>. QED
  BY <1>1, InvariantHolds, PTL

\* Sign-up and just-in-time creation never make two accounts with one address,
\* however they race between look-up and INSERT.
THEOREM AddressesUnique == Spec => []UniqueEmail
<1>1. IInv => UniqueEmail
  BY DEF IInv
<1>. QED
  BY <1>1, InvariantHolds, PTL

\* However many requests read a token as unconsumed, one at most is told that it
\* consumed it: MarkConsumed's condition on consumed_at decides.
THEOREM TokensSingleUse == Spec => []SingleUse
<1>1. IInv => SingleUse
  BY DEF IInv
<1>. QED
  BY <1>1, InvariantHolds, PTL

-----------------------------------------------------------------------------
\* The initial states are initial states of OneTimeToken.
LEMMA InitRefines ==
    ASSUME Init
    PROVE  OneTime!Init
<1>1. \A t \in Request : TokenState(t) = "absent"
  BY DEF Init, StoreInit, TokenState
<1>2. \A t \in Request : {r \in Request : audit[r].consumed = t} = {}
  BY NoneAssumption DEF Init, NoAudit
<1>. QED
  BY <1>1, <1>2 DEF OneTime!Init

\* A step of a handler issues, burns or redeems one token, or does none of these.
\* When it redeems, nobody was told of that token before.
LEMMA KeptRefines ==
    ASSUME IInv, NEW r \in Request, Kept(r)
    PROVE  [OneTime!Next]_(OneTime!vars)
<1> DEFINE Redeemers(t) == {q \in Request : audit[q].consumed = t}
<1>1. PICK t \in Request : \A u \in Request \ {t} : tokens'[u] = tokens[u]
  BY DEF Kept, TablesGrow, TokensGrow
<1>2. \A u \in Request \ {t} : TokenState(u)' = TokenState(u)
  BY <1>1 DEF TokenState
<1>3. /\ TokenState(t) = "absent" => TokenState(t)' \in {"absent", "live"}
      /\ TokenState(t) = "live" => TokenState(t)' \in {"live", "spent"}
      /\ TokenState(t) = "spent" => TokenState(t)' = "spent"
  BY DEF TokenState, Kept, TablesGrow, TokensGrow
<1>4. TokenState(t) \in {"absent", "live", "spent"}
  BY DEF TokenState
<1>5. \A q \in Request \ {r} : audit'[q].consumed = audit[q].consumed
  BY DEF Kept, Others
<1>6. CASE audit'[r].consumed = audit[r].consumed
  <2>1. UNCHANGED [u \in Request |-> Redeemers(u)]
    BY <1>5, <1>6
  <2>2. CASE TokenState(t)' = TokenState(t)
    <3>1. UNCHANGED [u \in Request |-> TokenState(u)]
      BY <1>2, <2>2
    <3>. QED BY <2>1, <3>1 DEF OneTime!vars
  <2>3. CASE TokenState(t) = "absent" /\ TokenState(t)' = "live"
    <3>1. OneTime!Issue(t)
      BY <1>2, <2>1, <2>3 DEF OneTime!Issue
    <3>. QED BY <3>1 DEF OneTime!Next
  <2>4. CASE TokenState(t) = "live" /\ TokenState(t)' = "spent"
    <3>1. OneTime!Burn(t)
      BY <1>2, <2>1, <2>4 DEF OneTime!Burn
    <3>. QED BY <3>1 DEF OneTime!Next
  <2>. QED BY <1>3, <1>4, <2>2, <2>3, <2>4
<1>7. CASE /\ audit[r].consumed = None /\ audit'[r].consumed \in Request
           /\ Consumable(audit'[r].consumed)
           /\ tokens'[audit'[r].consumed] # None
           /\ tokens'[audit'[r].consumed].consumed
  <2>1. audit'[r].consumed = t
    BY <1>1, <1>7 DEF Consumable
  <2>2. TokenState(t) = "live" /\ TokenState(t)' = "spent"
    BY <1>7, <2>1 DEF Consumable, TokenState
  <2>3. \A q \in Request : audit[q].consumed # t
    BY <1>7, <2>1, NoneAssumption DEF IInv, ConsumedInv, Consumable
  <2>4. Redeemers(t)' = {r}
    BY <1>5, <2>1, <2>3
  <2>5. \A u \in Request \ {t} : Redeemers(u)' = Redeemers(u)
    BY <1>5, <1>7, <2>1, NoneAssumption
  <2>6. OneTime!Redeem(t, r)
    BY <1>2, <2>2, <2>4, <2>5 DEF OneTime!Redeem
  <2>. QED BY <2>6 DEF OneTime!Next
<1>. QED
  BY <1>6, <1>7 DEF Kept, Redeems

\* Every step of the system is a step of OneTimeToken or leaves its state alone.
LEMMA NextRefines ==
    ASSUME IInv, [Next]_vars
    PROVE  [OneTime!Next]_(OneTime!vars)
<1>1. CASE Environment \/ UNCHANGED vars
  <2>1. UNCHANGED <<tokens, audit>>
    BY <1>1 DEF Environment, Tick, Crash, Suspend, runtime, vars
  <2>. QED BY <2>1 DEF OneTime!vars, TokenState
<1>2. ASSUME NEW r \in Request, Step(r) PROVE [OneTime!Next]_(OneTime!vars)
  BY <1>2, StepKeeps, KeptRefines
<1>. QED
  BY <1>1, <1>2 DEF Next

\* The verification tokens of the server are one-time tokens: whatever is sent,
\* looked up, counted, expired, crashed or retried, they do what OneTimeToken says.
THEOREM TokensRefineOneTime == Spec => TokensAreOneTime
BY InitRefines, NextRefines, InvariantHolds, PTL DEF Spec, TokensAreOneTime, OneTime!Spec
=============================================================================
