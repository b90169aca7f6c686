-------------------------- MODULE VerificationTokens --------------------------
(***************************************************************************)
(* What the four ways of redeeming a verification token have in common:    *)
(* the token is read, judged as it was read, and only then, by a later     *)
(* statement, counted or consumed.                                         *)
(***************************************************************************)
EXTENDS AuthRuntime

LookUpAnyLink(r, op, type, onFault) ==                              \* mutant
    /\ At(r, {op}, "GetToken")
    /\ \E t \in TokensByHash(input[r].cred) :
        /\ ~tokens[t].consumed /\ ~TokenIsExpired(t)
        /\ Proceed(r, "MarkConsumed", [Blank EXCEPT !.token = t])
    /\ NoTable

\* By link: the token of that hash, whatever its type and state.
LookUpLink(r, op, type, onFault) ==
    /\ At(r, {op}, "GetToken")
    /\ LET hash == input[r].cred IN
       \/ TokensByHash(hash) = {} /\ Answer(r, "token_not_found")
       \/ \E t \in TokensByHash(hash) :
            \/ tokens[t].type # type /\ Answer(r, "token_not_found")
            \/ tokens[t].type = type /\ tokens[t].consumed /\ Answer(r, "token_consumed")
            \/ /\ tokens[t].type = type /\ ~tokens[t].consumed
               /\ TokenIsExpired(t)
               /\ Answer(r, "token_expired")
            \/ /\ tokens[t].type = type /\ ~tokens[t].consumed
               /\ ~TokenIsExpired(t)
               /\ Proceed(r, "MarkConsumed", [Blank EXCEPT !.token = t])
       \/ DBFaults /\ Answer(r, onFault)
    /\ NoTable

\* By code: the latest unconsumed token of the address; the attempts it has had
\* are remembered as they were read.
LookUpCode(r, op, type, onFault) ==
    /\ At(r, {op}, "GetLatest")
    /\ LET latest == LatestActive(input[r].email, type) IN
       \/ latest = {} /\ Answer(r, "token_not_found")
       \/ \E t \in latest :
            \/ TokenIsExpired(t) /\ Answer(r, "token_expired")
            \/ ~TokenIsExpired(t) /\ MaxAttemptsExceeded(t) /\ Answer(r, "max_attempts")
            \/ /\ ~TokenIsExpired(t) /\ ~MaxAttemptsExceeded(t)
               /\ Proceed(r, "IncrementAttempts",
                          [Blank EXCEPT !.token = t, !.attempts = tokens[t].attempts])
       \/ DBFaults /\ Answer(r, onFault)
    /\ NoTable

CountFromStaleRow(r, op) ==                                         \* mutant
    /\ At(r, {op}, "IncrementAttempts")
    /\ tokens' = [tokens EXCEPT ![local[r].token].attempts = local[r].attempts + 1]
    /\ audit' = [audit EXCEPT ![r].tried = local[r].token]
    /\ IF tokens[local[r].token].code = input[r].cred
       THEN Proceed(r, "MarkConsumed", local[r]) ELSE Answer(r, "invalid_otp")
    /\ UNCHANGED <<users, sessions, now, input, job, mailed>>

AcceptAnyCode(r, op) ==                                             \* mutant
    /\ At(r, {op}, "IncrementAttempts")
    /\ tokens' \in Discarding(tokens, IncrementAttempts(local[r].token))
    /\ audit' = [audit EXCEPT ![r].tried = local[r].token]
    /\ Proceed(r, "MarkConsumed", local[r])
    /\ UNCHANGED <<users, sessions, now, input, job, mailed>>

\* The attempt is counted in the database (an error is discarded) before the
\* code is compared.
CompareCode(r, op) ==
    /\ At(r, {op}, "IncrementAttempts")
    /\ tokens' \in Discarding(tokens, IncrementAttempts(local[r].token))
    /\ audit' = [audit EXCEPT ![r].tried = local[r].token]
    /\ LET match == tokens[local[r].token].code = input[r].cred
           lastAttempt == local[r].attempts + 1 >= MaxAttempts
       IN \/ match /\ Proceed(r, "MarkConsumed", local[r])
          \/ ~match /\ lastAttempt /\ Answer(r, "max_attempts")
          \/ ~match /\ ~lastAttempt /\ Answer(r, "invalid_otp")
    /\ UNCHANGED <<users, sessions, now, input, job, mailed>>

\* Whoever the row count names as the consumer goes on with the frame given.
Consume(r, op, next, frame) ==
    /\ At(r, {op}, "MarkConsumed")
    /\ LET t == local[r].token IN
       \/ /\ Consumable(t)
          /\ tokens' = MarkConsumed(t)
          /\ audit' = [audit EXCEPT ![r].consumed = t]
          /\ Proceed(r, next, frame)
       \/ /\ ~Consumable(t)
          /\ UNCHANGED <<tokens, audit>>
          /\ Answer(r, "token_consumed")
       \/ /\ tokens' \in {tokens, MarkConsumed(t)}
          /\ audit' = audit
          /\ Unacknowledged(r)
    /\ UNCHANGED <<users, sessions, now, input, job, mailed>>
=============================================================================
