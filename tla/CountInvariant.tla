---------------------------- MODULE CountInvariant -----------------------------
(***************************************************************************)
(* Why the counters of the database agree with what happened: how often a  *)
(* code was tried, how many sessions an account opened.  Each is kept by a *)
(* goroutine that goes on after the statement that counts, so what counts  *)
(* is set against the goroutines still on their way.  And what holds where *)
(* requests are handled one at a time.                                     *)
(***************************************************************************)
EXTENDS HistoryInvariant

\* The requests whose code was compared with that of token t.
TriedBy(t) == {r \in Request : audit[r].tried = t}

\* The requests that have passed the limit of token t and are about to try it.
Trying(t) == {r \in Request : pc[r] = "IncrementAttempts" /\ local[r].token = t}

\* The requests that opened a session for account u, or are about to.
LogInsOf(u) == {r \in Request :
    \/ sessions[r] # None /\ sessions[r].user = u
    \/ pc[r] = "CreateSession" /\ local[r].user = u}

\* The server handles no more requests at once than the bound says.
InFlightInv == IsFiniteSet(InFlight) /\ Cardinality(InFlight) <= MaxInFlight

\* Only finitely many requests have come in, and each tries one token, once.
TriedInv ==
    /\ \A t \in Request : IsFiniteSet(TriedBy(t))
    /\ \A r \in Request : audit[r].tried # None =>
          tokens[audit[r].tried] # None
          /\ pc[r] \notin {"new", "GetLatest", "IncrementAttempts"}

\* Attempts made and attempts about to be made stay within the limit and the
\* concurrency: whoever passes the limit adds itself to those in flight.
LimitInv ==
    \A t \in Request : tokens[t] # None =>
        tokens[t].attempts + Cardinality(Trying(t)) <= MaxAttempts + MaxInFlight - 1

\* Every session opened or about to be was counted as a sign-in.
SignInInv ==
    /\ \A u \in Request : IsFiniteSet(LogInsOf(u))
    /\ ~DBFaults => \A u \in Request : users[u] # None =>
          users[u].signIns >= Cardinality(LogInsOf(u))

\* Token t can still be redeemed and is one that endpoint op sends to address e.
LiveOfKind(t, op, e) ==
    /\ tokens[t] # None /\ ~tokens[t].consumed
    /\ tokens[t].type = SentType(op) /\ tokens[t].email = e

\* Request r has passed the cooldown and is yet to store its token.
Sending(r) == Amid(r, SendOps, {"LinkUser", "CreateToken"})

\* The date of a token is taken before it is stored, so never later than now.
DatesInv ==
    /\ \A r \in Request : Sending(r) => local[r].at <= now
    /\ \A t \in Request : tokens[t] # None => tokens[t].created <= now

\* Between the check of the cooldown and the INSERT nobody else sends a token: the
\* date taken then is a cooldown after that of every live token.
CooldownGuard(r) ==
    Sending(r) => \A t \in Request : LiveOfKind(t, input[r].op, input[r].email) =>
                     local[r].at - tokens[t].created >= Cooldown

\* The hash about to be overwritten is the one that was verified.
PasswordGuard(r) ==
    pc[r] = "UpdatePassword" => users[local[r].user].password = input[r].password

\* What holds where requests are handled one at a time.
SerialInv ==
    MaxInFlight = 1 =>
        /\ \A r \in Request : PasswordGuard(r)
        /\ ~DBFaults => CooldownBetweenLiveTokens /\ \A r \in Request : CooldownGuard(r)

\* The invariant of the counters: with IInv and HistoryInv, every step preserves it.
CountInv ==
    /\ InFlightInv /\ TriedInv /\ LimitInv /\ SignInInv /\ DatesInv /\ SerialInv
    /\ ~DBFaults => AttemptsCounted
=============================================================================
