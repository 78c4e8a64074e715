----------------------------- MODULE Scheduler -----------------------------
(***************************************************************************)
(* The life of the server process: main connects to the database, starts   *)
(* the HTTP server and with it the job of the scheduler, a signal or a     *)
(* failing server ends serving, and main's deferred calls run last to      *)
(* first: Scheduler.Shutdown, the cancel function of the signal context,   *)
(* and the close of the pool, which waits for every connection to come     *)
(* back.  Requests still running when the server's graceful timeout has    *)
(* passed go on meanwhile.                                                 *)
(*                                                                         *)
(* Echo's StartConfig, pgxpool and PostgreSQL are external; requests and   *)
(* the goroutines of the batch are reduced to the connections of the pool  *)
(* they wait for and hold, and to one row they all want to lock.           *)
(***************************************************************************)
EXTENDS Naturals, FiniteSets

CONSTANTS
    Requests,   \* HTTP requests in flight at the same time
    Workers,    \* goroutines of a batch
    MaxConns,   \* connections of the pool
    maxRetries, \* pings NewDB tries
    None        \* no ticker

VARIABLES
    main,       \* where main is; its deferred calls are "shutdown", "appCancel", "close"
    pings,      \* pings of NewDB that have failed
    ctxDone,    \* the signal context has ended
    shut,       \* what Scheduler.Shutdown returned
    job,        \* where the job's goroutine is
    expired,    \* the batch has used up the job's timeout
    ticker,     \* the ticks waiting in the ticker's channel; None before NewTicker
    request,    \* the requests that are being served
    conn,       \* how each request and goroutine of the batch stands with the pool
    pool        \* "closed": Close has begun and nothing is acquired any more

vars == <<main, pings, ctxDone, shut, job, expired, ticker, request, conn, pool>>

Users == Requests \cup Workers

ASSUME SchedulerAssumption ==
    /\ None \notin Nat
    /\ MaxConns \in Nat \ {0}
    /\ maxRetries \in Nat \ {0}
    /\ Requests \cap Workers = {}

TypeOK ==
    /\ main \in {"connect", "listen", "serve", "drain", "shutdown", "appCancel", "close", "exited"}
    /\ pings \in 0..maxRetries
    /\ ctxDone \in BOOLEAN
    /\ shut \in {"not_called", "ok", "timed_out"}
    /\ job \in {"unstarted", "check", "run", "select", "stopped", "panicked"}
    /\ expired \in BOOLEAN
    /\ ticker \in {None, 0, 1}
    /\ request \in [Requests -> {"none", "running"}]
    /\ conn \in [Users -> {"none", "waiting", "held", "blocked", "locked"}]
    /\ pool \in {"open", "closed"}

Init ==
    /\ main = "connect"
    /\ pings = 0
    /\ ctxDone = FALSE
    /\ shut = "not_called"
    /\ job = "unstarted"
    /\ expired = FALSE
    /\ ticker = None
    /\ request = [r \in Requests |-> "none"]
    /\ conn = [p \in Users |-> "none"]
    /\ pool = "open"

Alive == main # "exited"

jobVars == <<job, expired, ticker>>
poolVars == <<request, conn>>

-----------------------------------------------------------------------------
(* main *)

\* os.Interrupt or SIGTERM while signal.NotifyContext is in place.
Signal ==
    /\ Alive /\ main # "connect"
    /\ ~ctxDone
    /\ ctxDone' = TRUE
    /\ UNCHANGED <<main, pings, shut, jobVars, poolVars, pool>>

\* Before and after that a signal ends the process at once.
Killed ==
    /\ main \in {"connect", "close"}
    /\ main' = "exited"
    /\ UNCHANGED <<pings, ctxDone, shut, jobVars, poolVars, pool>>

\* NewDB reaches the database.
PingAnswered ==
    /\ main = "connect"
    /\ pings < maxRetries
    /\ main' = "listen"
    /\ UNCHANGED <<pings, ctxDone, shut, jobVars, poolVars, pool>>

PingFails ==
    /\ main = "connect"
    /\ pings < maxRetries
    /\ pings' = pings + 1
    /\ UNCHANGED <<main, ctxDone, shut, jobVars, poolVars, pool>>

\* NewDB closes the pool and main exits without its deferred calls.
ConnectFails ==
    /\ main = "connect"
    /\ pings = maxRetries
    /\ pool' = "closed"
    /\ main' = "exited"
    /\ UNCHANGED <<pings, ctxDone, shut, jobVars, poolVars>>

\* Mutant: the pool is closed by the deferred call that runs first.
CloseFirst == "close"

\* The deferred call that runs first when main returns.
FirstDeferred == "shutdown"

\* The address is in use: BeforeServeFunc is never called.
ListenFails ==
    /\ main = "listen"
    /\ main' = FirstDeferred
    /\ UNCHANGED <<pings, ctxDone, shut, jobVars, poolVars, pool>>

\* BeforeServeFunc calls Scheduler.Start, and the server serves.
Start ==
    /\ main = "listen"
    /\ main' = "serve"
    /\ job' = "check"
    /\ UNCHANGED <<pings, ctxDone, shut, expired, ticker, poolVars, pool>>

\* The context has ended, or Serve failed: no further request is accepted.
StopServing ==
    /\ main = "serve"
    /\ main' = "drain"
    /\ UNCHANGED <<pings, ctxDone, shut, jobVars, poolVars, pool>>

\* The requests are done, or GracefulTimeout has passed.
Drained ==
    /\ main = "drain"
    /\ main' = FirstDeferred
    /\ UNCHANGED <<pings, ctxDone, shut, jobVars, poolVars, pool>>

\* The wait group is free.
JobsDone == job \in {"unstarted", "stopped", "panicked"}

\* Mutant: Shutdown is given a context without a timeout.
ShutdownWaits ==
    /\ main = "shutdown"
    /\ JobsDone
    /\ shut' = "ok"
    /\ main' = "appCancel"
    /\ UNCHANGED <<pings, ctxDone, jobVars, poolVars, pool>>

\* Both cases of the select may be ready.
Shutdown ==
    /\ main = "shutdown"
    /\ \/ JobsDone /\ shut' = "ok"
       \/ shut' = "timed_out"
    /\ main' = "appCancel"
    /\ UNCHANGED <<pings, ctxDone, jobVars, poolVars, pool>>

AppCancel ==
    /\ main = "appCancel"
    /\ ctxDone' = TRUE
    /\ main' = "close"
    /\ UNCHANGED <<pings, shut, jobVars, poolVars, pool>>

ClosePool ==
    /\ main = "close"
    /\ pool = "open"
    /\ pool' = "closed"
    /\ UNCHANGED <<main, pings, ctxDone, shut, jobVars, poolVars>>

\* The users of the pool that hold one of its connections.
Holders == {p \in Users : conn[p] \in {"held", "blocked", "locked"}}

\* Close returns and so does main; what still runs ends with the process.
Exit ==
    /\ main = "close"
    /\ pool = "closed"
    /\ Holders = {}
    /\ main' = "exited"
    /\ UNCHANGED <<pings, ctxDone, shut, jobVars, poolVars, pool>>

-----------------------------------------------------------------------------
(* The job's goroutine: runJob and executeJob. *)

\* The first execution is followed by NewTicker, the others return to the loop.
AfterExecute ==
    /\ job' = "select"
    /\ ticker' = IF ticker = None THEN 0 ELSE ticker

\* executeJob checks the context before it calls Func.
Execute ==
    /\ Alive /\ job = "check"
    /\ IF ctxDone
         THEN AfterExecute /\ UNCHANGED expired
         ELSE job' = "run" /\ expired' = FALSE /\ UNCHANGED ticker
    /\ UNCHANGED <<main, pings, ctxDone, shut, poolVars, pool>>

\* jobCtx reaches its timeout.
Expire ==
    /\ Alive /\ job = "run" /\ ~expired
    /\ expired' = TRUE
    /\ UNCHANGED <<main, pings, ctxDone, shut, job, ticker, poolVars, pool>>

\* Mutant: RefreshDueFeeds returns without waiting for its goroutines.
BatchHandedOut == job = "run"

BatchAtRest == job = "run" /\ \A w \in Workers : conn[w] = "none"

\* Mutant: an execution that failed ends the loop.
FailureStops ==
    /\ Alive /\ BatchAtRest
    /\ IF expired THEN job' = "stopped" /\ UNCHANGED ticker ELSE AfterExecute
    /\ UNCHANGED <<main, pings, ctxDone, shut, expired, poolVars, pool>>

\* Func returns after its goroutines; its error, if any, is only logged.
FuncReturns ==
    /\ Alive /\ BatchAtRest
    /\ AfterExecute
    /\ UNCHANGED <<main, pings, ctxDone, shut, expired, poolVars, pool>>

\* The panic is recovered in Start and the job never runs again.
FuncPanics ==
    /\ Alive /\ BatchAtRest
    /\ job' = "panicked"
    /\ UNCHANGED <<main, pings, ctxDone, shut, expired, ticker, poolVars, pool>>

\* Mutant: every tick is kept.
QueueTick ==
    /\ Alive /\ ticker # None
    /\ ticker' = ticker + 1
    /\ UNCHANGED <<main, pings, ctxDone, shut, job, expired, poolVars, pool>>

\* A tick that finds one waiting is dropped.
Tick ==
    /\ Alive /\ ticker = 0 /\ ~JobsDone
    /\ ticker' = 1
    /\ UNCHANGED <<main, pings, ctxDone, shut, job, expired, poolVars, pool>>

\* The select's case of the tick; Go takes any case that is ready.
TakeTick ==
    /\ Alive /\ job = "select" /\ ticker = 1
    /\ ticker' = 0
    /\ job' = "check"
    /\ UNCHANGED <<main, pings, ctxDone, shut, expired, poolVars, pool>>

\* The select's case of the ended context.
StopJob ==
    /\ Alive /\ job = "select" /\ ctxDone
    /\ job' = "stopped"
    /\ UNCHANGED <<main, pings, ctxDone, shut, expired, ticker, poolVars, pool>>

-----------------------------------------------------------------------------
(* Requests and their connections. *)

Accept(r) ==
    /\ main = "serve" /\ request[r] = "none"
    /\ request' = [request EXCEPT ![r] = "running"]
    /\ UNCHANGED <<main, pings, ctxDone, shut, jobVars, conn, pool>>

Respond(r) ==
    /\ Alive /\ request[r] = "running" /\ conn[r] = "none"
    /\ request' = [request EXCEPT ![r] = "none"]
    /\ UNCHANGED <<main, pings, ctxDone, shut, jobVars, conn, pool>>

Running(p) == IF p \in Requests THEN request[p] = "running" ELSE job = "run"

\* A request's context may end at any time: its 15 s, or the client leaves.
MayEnd(p) == p \in Requests \/ ctxDone \/ expired

Use(p, from, to) ==
    /\ Alive /\ conn[p] = from
    /\ conn' = [conn EXCEPT ![p] = to]
    /\ UNCHANGED <<main, pings, ctxDone, shut, jobVars, request, pool>>

\* A statement or a transaction begins: not on a closed pool, not with a context
\* that has ended.
Ask(p) ==
    /\ Running(p) /\ pool = "open"
    /\ p \in Workers => ~ctxDone /\ ~expired
    /\ Use(p, "none", "waiting")

FreeConn == pool = "open" /\ Cardinality(Holders) < MaxConns

Acquire(p) == FreeConn /\ Use(p, "waiting", "held")

\* Acquire returns an error.
Refused(p) == (pool = "closed" \/ MayEnd(p)) /\ Use(p, "waiting", "none")

\* A statement of a transaction wants the row, and waits for it.
WantRow(p) == Use(p, "held", "blocked")

LockRow(p) == (\A q \in Users : conn[q] # "locked") /\ Use(p, "blocked", "locked")

Cancelled(p) == MayEnd(p) /\ Use(p, "blocked", "none")

\* Mutant: a repository ignores the transaction of its context, and the next
\* statement of a transaction that holds the row takes a connection of its own.
ReleaseSecond(p) == Use(p, "held", "none") \/ (FreeConn /\ Use(p, "locked", "none"))

\* The statement has returned, or the transaction has committed or rolled back:
\* its later statements run on the connection it has (TxFromContext).
Release(p) == Use(p, "held", "none") \/ Use(p, "locked", "none")

-----------------------------------------------------------------------------
MainNext ==
    \/ PingAnswered \/ PingFails \/ ConnectFails
    \/ ListenFails \/ Start \/ StopServing \/ Drained
    \/ Shutdown \/ AppCancel \/ ClosePool \/ Exit

JobNext ==
    \/ Execute \/ Expire
    \/ FuncReturns \/ FuncPanics \/ Tick \/ TakeTick \/ StopJob

PoolNext(p) ==
    \/ Ask(p) \/ Acquire(p) \/ Refused(p)
    \/ WantRow(p) \/ LockRow(p) \/ Cancelled(p) \/ Release(p)

Terminated == ~Alive /\ UNCHANGED vars

Next ==
    \/ Signal \/ Killed
    \/ MainNext
    \/ JobNext
    \/ \E r \in Requests : Accept(r) \/ Respond(r)
    \/ \E p \in Users : PoolNext(p)
    \/ Terminated

Spec == Init /\ [][Next]_vars

\* The next step of main's goroutine, of the job's.  Serve goes on while no signal
\* comes.
MainGoes == (main = "serve" => ctxDone) /\ MainNext
JobGoes == Execute \/ FuncReturns \/ FuncPanics \/ TakeTick

\* Timeouts pass, goroutines that can run do, a statement ends, and a select
\* does not for ever prefer one of its ready cases.  The pool hands its connections
\* to those who wait in turn, and so does the database with the row; no context of
\* a request ends a wait.
Fairness ==
    /\ WF_vars(MainGoes)
    /\ WF_vars(JobGoes)
    /\ WF_vars(Expire)
    /\ SF_vars(StopJob)
    /\ \A p \in Users :
        /\ SF_vars(Acquire(p) \/ LockRow(p))
        /\ WF_vars(Release(p) \/ (pool = "closed" /\ Refused(p)))

FairSpec == Spec /\ Fairness

-----------------------------------------------------------------------------
\* The pool outlives the job: unless Shutdown has given up on it, the job's
\* goroutine is gone before anything takes its database away, and it does not
\* come back.
PoolOutlivesJob ==
    main \in {"close", "exited"} /\ shut # "timed_out" => JobsDone

\* Between executions, and once the job has ended, none of its goroutines has a
\* connection, waits for one or has locked a row: when Shutdown finds the wait group
\* free, the pool that is closed next carries no transaction of the job.
JobLeavesNothing == job # "run" => \A w \in Workers : conn[w] = "none"

\* A signal, a server that fails or a database that never answers ends the
\* process, however long a batch or a request goes on: neither Shutdown nor Close
\* waits for ever.
Exits == ctxDone \/ main = "drain" \/ pings = maxRetries ~> ~Alive

\* No failure, timeout or long batch stops the job: a tick is answered by an
\* execution unless the process is stopping or the batch panicked.
TickServed == ticker = 1 ~> ticker # 1 \/ ctxDone \/ ~Alive \/ job = "panicked"

\* Twenty connections are enough for any number of users: who waits for one, or
\* holding one waits for a row, gets it although no timeout ends a wait, since no
\* holder of the row needs a second connection.
WaitsEnd ==
    \A p \in Users :
        conn[p] \in {"waiting", "blocked"} ~> conn[p] \in {"none", "held", "locked"} \/ ~Alive
=============================================================================
