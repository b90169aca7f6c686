--------------------------- MODULE ServerLifecycle ----------------------------
(***************************************************************************)
(* The process: start, service, graceful shutdown and its end              *)
(* (cmd/server/main.go), over the connection pool of internal/database/db.go*)
(* and the goroutines that are running when the end comes: one per request,*)
(* and one per sign-up for its verification mail.  Here a request is one   *)
(* call of the service, with one statement that needs a connection; what it*)
(* does is left to the module that composes this one.                      *)
(***************************************************************************)
EXTENDS Naturals, FiniteSets

CONSTANTS
    MaxRequests,    \* bound: how many requests arrive
    MaxStarts,      \* bound: how often the process is started
    MaxConns        \* connections of the pool (25 in the code)

ASSUME LifecycleAssumption ==
    MaxRequests \in Nat /\ MaxStarts \in Nat /\ MaxConns \in Nat \ {0}

\* Requests, numbered as they arrive.
Request == 1..MaxRequests

VARIABLES
    process,        \* what the main goroutine is doing
    starts,         \* how often the process was started
    shutdown,       \* how its graceful shutdown went
    stage,          \* how far each request has got
    job             \* the verification mail a sign-up leaves in the background

lifecycle == <<process, starts, shutdown, stage, job>>

Active == {"running", "executing", "executed"}
ActiveRequests == {r \in Request : stage[r] \in Active}
Executing == {r \in Request : stage[r] = "executing"}
StoringMail == {r \in Request : job[r] = "executing"}

LifecycleTypeOK ==
    /\ process \in {"down", "serving", "draining", "closing"}
    /\ starts \in 0..MaxStarts
    /\ shutdown \in {"no", "clean", "forced"}
    /\ stage \in [Request -> Active \cup {"unsent", "answered", "applied", "lost"}]
    /\ job \in [Request -> {"none", "queued", "executing"}]

LifecycleInit ==
    /\ process = "down" /\ starts = 0 /\ shutdown = "no"
    /\ stage = [r \in Request |-> "unsent"]
    /\ job = [r \in Request |-> "none"]

-----------------------------------------------------------------------------
(* The main goroutine. *)

\* The database answers the ping, the server listens, signals are caught.
Start ==
    /\ process = "down" /\ starts < MaxStarts
    /\ process' = "serving"
    /\ starts' = starts + 1
    /\ UNCHANGED <<shutdown, stage, job>>

\* os.Exit(1): the configuration is in error or the database does not answer.
StartFails ==
    /\ process = "down" /\ starts < MaxStarts
    /\ starts' = starts + 1
    /\ UNCHANGED <<process, shutdown, stage, job>>

\* Every goroutine ends with the process.
Dies ==
    /\ process' = "down"
    /\ starts' = starts
    /\ shutdown' = "no"
    /\ stage' = [r \in Request |-> IF stage[r] \in Active THEN "lost" ELSE stage[r]]
    /\ job' = [r \in Request |-> "none"]

\* ListenAndServe returns with an error, at the start or later: os.Exit(1) runs no
\* deferred call and waits for nobody.
FatalExit == process = "serving" /\ Dies

\* SIGKILL, or the machine goes down.
Kill == process # "down" /\ Dies

\* SIGINT or SIGTERM: server.Shutdown closes the listener and waits for the active
\* requests.  The channel has room for one signal and is read once: any further
\* signal has no effect.
Signal ==
    /\ process = "serving"
    /\ process' = "draining"
    /\ UNCHANGED <<starts, shutdown, stage, job>>

\* main returns, and its deferred db.Close begins.
Leave(how) ==
    /\ process = "draining"
    /\ process' = "closing"
    /\ shutdown' = how
    /\ UNCHANGED <<starts, stage, job>>

ReturnsAtOnce == Leave("clean")                                     \* mutant

\* Shutdown returns when no request is active any more ...
Drained == ActiveRequests = {} /\ Leave("clean")

WaitsWithoutLimit == ActiveRequests = {} /\ Leave("forced")         \* mutant

\* ... or after 15 seconds: server.Close closes the connections of the active
\* requests, which cancels their contexts, and waits for nobody.
DrainTimeout == Leave("forced")

\* pgxpool.Close returns once no connection is in use; then the process is over.
Exit == process = "closing" /\ Executing \cup StoringMail = {} /\ Dies

-----------------------------------------------------------------------------
(* The goroutines of requests and of background mails. *)

Moves(r, from, to) ==
    /\ stage[r] = from
    /\ stage' = [stage EXCEPT ![r] = to]
    /\ UNCHANGED <<process, starts, shutdown>>

\* Shutdown closes the listener, but a connection taken before may still bring a
\* request, which Shutdown then waits for like any other.
Accept(r) ==
    /\ process \in {"serving", "draining"}
    /\ \A q \in 1..(r - 1) : stage[q] # "unsent"
    /\ Moves(r, "unsent", "running")
    /\ job' = job

ClosedFirst == process = "serving"                                  \* mutant

\* The pool is open from the start of the process to the end of its shutdown.
PoolOpen == process \in {"serving", "draining"}

ConnectionFree == PoolOpen /\ Cardinality(Executing) + Cardinality(StoringMail) < MaxConns

\* A statement waits for a connection of the pool, and keeps it until it returns.
BeginStatement(r) == ConnectionFree /\ Moves(r, "running", "executing") /\ job' = job

\* No connection comes from a pool that is closing: the handler fails.
StatementRefused(r) == process # "down" /\ ~PoolOpen /\ Moves(r, "running", "lost") /\ job' = job

\* A sign-up that has stored its session starts the goroutine of its mail.
EndStatement(r, startsJob) ==
    /\ Moves(r, "executing", "executed")
    /\ job' = IF startsJob THEN [job EXCEPT ![r] = "queued"] ELSE job

\* A request may need no statement at all.
SkipStatement(r) == Moves(r, "running", "executed") /\ job' = job

\* server.Close has closed the connection of this request.
CutOff(r) == stage[r] \in Active /\ process = "closing" /\ shutdown = "forced"

\* An answer that is written and never read stands for one the network or the
\* write timeout loses.
Respond(r) == Moves(r, "executed", IF CutOff(r) THEN "lost" ELSE "answered") /\ job' = job

\* The client reads the answer, be the process still there or not.
Deliver(r) == Moves(r, "answered", "applied") /\ job' = job

\* The background goroutine: its context is its own, and nobody cancels it.
BackgroundMail(r) ==
    /\ \/ job[r] = "queued" /\ ConnectionFree /\ job' = [job EXCEPT ![r] = "executing"]
       \/ job[r] = "queued" /\ ~PoolOpen /\ job' = [job EXCEPT ![r] = "none"]
       \/ job[r] = "executing" /\ job' = [job EXCEPT ![r] = "none"]
    /\ UNCHANGED <<process, starts, shutdown, stage>>

LifecycleNext ==
    \/ Start \/ StartFails \/ FatalExit \/ Kill
    \/ Signal \/ Drained \/ DrainTimeout \/ Exit
    \/ \E r \in Request :
          \/ Accept(r) \/ BeginStatement(r) \/ StatementRefused(r) \/ SkipStatement(r)
          \/ \E startsJob \in BOOLEAN : EndStatement(r, startsJob)
          \/ Respond(r) \/ Deliver(r) \/ BackgroundMail(r)

LifecycleSpec == LifecycleInit /\ [][LifecycleNext]_lifecycle

-----------------------------------------------------------------------------
(* The end of a process. *)

\* main.go:95, "allowing 15 seconds for active requests": a process that need not
\* be forced to stop leaves no request it accepted without an answer.
CleanStopAnswersAll ==
    [][\A r \in Request :
        stage[r] # "lost" /\ stage'[r] = "lost" => shutdown # "clean"]_lifecycle

\* As long as a client can still be answered, its request finds an open pool:
\* the pool closes only under requests that were cut off.
PoolOutlivesRequests == \A r \in ActiveRequests : PoolOpen \/ CutOff(r)

\* What both rest on: a process that is closing either was forced to or has no
\* request left, and a shutdown has an outcome only while the process closes.
ShutdownInv ==
    /\ LifecycleTypeOK
    /\ process = "closing" => shutdown \in {"clean", "forced"}
    /\ process # "closing" => shutdown = "no"
    /\ process = "down" \/ shutdown = "clean" => ActiveRequests = {}
=============================================================================
