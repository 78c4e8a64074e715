-------------------------- MODULE SchedulerProofs --------------------------
(***************************************************************************)
(* The pool outlives the job, for any number of requests.                  *)
(*                                                                         *)
(* PoolOutlivesJob speaks of the end of main only; that the job is done is *)
(* established earlier, when Shutdown returns, and no step starts it again *)
(* because main never goes back to where it calls Scheduler.Start.         *)
(***************************************************************************)
EXTENDS Scheduler, TLAPS

\* Shutdown has returned once main is past it, and if it returned no error the
\* job's goroutine was gone; a process that ends without it has never started one.
ShutdownHeld ==
    /\ main \in {"appCancel", "close"} => shut # "not_called"
    /\ main \in {"connect", "listen"} => job = "unstarted"
    /\ main = "exited" => shut # "not_called" \/ job = "unstarted"
    /\ shut = "ok" => JobsDone /\ main \in {"appCancel", "close", "exited"}

IInv == TypeOK /\ ShutdownHeld

\* Steps of main keep the invariant.
LEMMA MainIInv == IInv /\ MainNext => IInv'
<1> SUFFICES ASSUME IInv, MainNext PROVE IInv'
  OBVIOUS
<1> USE DEF IInv, TypeOK, ShutdownHeld, jobVars, poolVars, FirstDeferred
<1>1. CASE PingAnswered
  BY <1>1 DEF PingAnswered, JobsDone
<1>2. CASE PingFails
  BY <1>2, SchedulerAssumption DEF PingFails, JobsDone
<1>3. CASE ConnectFails
  BY <1>3 DEF ConnectFails, JobsDone
<1>4. CASE ListenFails
  BY <1>4 DEF ListenFails, JobsDone
<1>5. CASE Start
  BY <1>5 DEF Start, JobsDone
<1>6. CASE StopServing
  BY <1>6 DEF StopServing, JobsDone
<1>7. CASE Drained
  BY <1>7 DEF Drained, JobsDone
<1>8. CASE Shutdown
  BY <1>8 DEF Shutdown, JobsDone
<1>9. CASE AppCancel
  BY <1>9 DEF AppCancel, JobsDone
<1>10. CASE ClosePool
  BY <1>10 DEF ClosePool, JobsDone
<1>11. CASE Exit
  BY <1>11 DEF Exit, JobsDone
<1> QED
  BY <1>1, <1>2, <1>3, <1>4, <1>5, <1>6, <1>7, <1>8, <1>9, <1>10, <1>11 DEF MainNext

\* Steps of the job keep it: none starts a job that is done.
LEMMA JobIInv == IInv /\ JobNext => IInv'
<1> SUFFICES ASSUME IInv, JobNext PROVE IInv'
  OBVIOUS
<1> USE SchedulerAssumption
    DEF IInv, TypeOK, ShutdownHeld, JobsDone, AfterExecute, poolVars
<1>1. CASE Execute
  BY <1>1 DEF Execute
<1>2. CASE Expire
  BY <1>2 DEF Expire
<1>3. CASE FuncReturns
  BY <1>3 DEF FuncReturns, BatchAtRest
<1>4. CASE FuncPanics
  BY <1>4 DEF FuncPanics, BatchAtRest
<1>5. CASE Tick
  BY <1>5 DEF Tick
<1>6. CASE TakeTick
  BY <1>6 DEF TakeTick
<1>7. CASE StopJob
  BY <1>7 DEF StopJob
<1> QED
  BY <1>1, <1>2, <1>3, <1>4, <1>5, <1>6, <1>7 DEF JobNext

\* Steps of a request keep it: they touch neither main nor the job.
LEMMA RequestIInv ==
  ASSUME IInv, NEW r \in Requests, Accept(r) \/ Respond(r)
  PROVE  IInv'
<1>1. PICK to \in {"none", "running"} :
        /\ request' = [request EXCEPT ![r] = to]
        /\ UNCHANGED <<main, pings, ctxDone, shut, jobVars, conn, pool>>
  BY DEF Accept, Respond
<1> QED
  BY <1>1 DEF IInv, TypeOK, ShutdownHeld, JobsDone, jobVars

\* Nor do the steps that move a connection.
LEMMA PoolIInv ==
  ASSUME IInv, NEW p \in Users, PoolNext(p)
  PROVE  IInv'
<1>1. PICK to \in {"none", "waiting", "held", "blocked", "locked"} :
        /\ conn' = [conn EXCEPT ![p] = to]
        /\ UNCHANGED <<main, pings, ctxDone, shut, jobVars, request, pool>>
  BY DEF PoolNext, Ask, Acquire, Refused, WantRow, LockRow, Cancelled, Release, Use
<1> QED
  BY <1>1 DEF IInv, TypeOK, ShutdownHeld, JobsDone, jobVars

\* The invariant is inductive.
LEMMA StepIInv == IInv /\ [Next]_vars => IInv'
<1> SUFFICES ASSUME IInv, [Next]_vars PROVE IInv'
  OBVIOUS
<1>1. CASE Signal
  BY <1>1 DEF Signal, IInv, TypeOK, ShutdownHeld, JobsDone, jobVars, poolVars
<1>2. CASE Killed
  BY <1>2 DEF Killed, IInv, TypeOK, ShutdownHeld, JobsDone, jobVars, poolVars
<1>3. CASE UNCHANGED vars
  BY <1>3 DEF vars, IInv, TypeOK, ShutdownHeld, JobsDone
<1> QED
  BY <1>1, <1>2, <1>3, MainIInv, JobIInv, RequestIInv, PoolIInv DEF Next, Terminated

LEMMA InitIInv == Init => IInv
<1> SUFFICES ASSUME Init PROVE IInv
  OBVIOUS
<1>1. pings \in 0..maxRetries
  BY SchedulerAssumption DEF Init
<1>2. request \in [Requests -> {"none", "running"}]
    BY DEF Init
<1>3. conn \in [Users -> {"none", "waiting", "held", "blocked", "locked"}]
    BY DEF Init
<1> QED
  BY <1>1, <1>2, <1>3 DEF Init, IInv, TypeOK, ShutdownHeld, JobsDone

\* Every variable keeps its type: above all, the ticker's channel never holds more
\* than one tick.
THEOREM TypeSafe == Spec => []TypeOK
<1>1. IInv => TypeOK
  BY DEF IInv
<1> QED
  BY <1>1, InitIInv, StepIInv, PTL DEF Spec

\* Unless Shutdown timed out, the job's goroutine is gone when main closes the
\* pool, and stays gone: no batch ever meets a closed pool.
THEOREM PoolSafe == Spec => []PoolOutlivesJob
<1>1. IInv => PoolOutlivesJob
  BY DEF IInv, TypeOK, ShutdownHeld, PoolOutlivesJob, JobsDone
<1> QED
  BY <1>1, InitIInv, StepIInv, PTL DEF Spec

\* A goroutine of the batch asks for a connection only while the job runs, and the
\* job returns only when all of them have given theirs back.
LEMMA BatchStep ==
  ASSUME IInv, JobLeavesNothing, [Next]_vars
  PROVE  JobLeavesNothing'
<1>1. ASSUME UNCHANGED conn, job' # "run" => job # "run" \/ BatchAtRest
      PROVE  JobLeavesNothing'
  BY <1>1 DEF JobLeavesNothing, BatchAtRest
<1>2. CASE Signal \/ Killed \/ MainNext \/ UNCHANGED vars
  <2>1. UNCHANGED conn /\ (job' = job \/ Start)
    BY <1>2
       DEF Signal, Killed, MainNext, PingAnswered, PingFails, ConnectFails, ListenFails, Start,
           StopServing, Drained, Shutdown, AppCancel, ClosePool, Exit, jobVars, poolVars, vars
  <2>2. CASE job' = job
    BY <1>1, <2>1, <2>2
  <2>3. CASE Start
    BY <1>1, <2>1, <2>3 DEF Start, IInv, ShutdownHeld
  <2> QED
    BY <2>1, <2>2, <2>3
<1>3. CASE JobNext
  <2>1. UNCHANGED conn
    BY <1>3 DEF JobNext, Execute, Expire, FuncReturns, FuncPanics, Tick, TakeTick, StopJob, poolVars
  <2>2. job' # "run" => job # "run" \/ BatchAtRest
    BY <1>3 DEF JobNext, Execute, Expire, FuncReturns, FuncPanics, Tick, TakeTick, StopJob
  <2> QED
    BY <1>1, <2>1, <2>2
<1>4. ASSUME NEW r \in Requests, Accept(r) \/ Respond(r)
      PROVE  JobLeavesNothing'
  BY <1>1, <1>4 DEF Accept, Respond, jobVars
<1>5. ASSUME NEW p \in Users, PoolNext(p)
      PROVE  JobLeavesNothing'
  <2>1. PICK from, to : Use(p, from, to) /\ (from = "none" => Running(p))
    BY <1>5 DEF PoolNext, Ask, Acquire, Refused, WantRow, LockRow, Cancelled, Release
  <2>2. /\ conn[p] = from /\ conn' = [conn EXCEPT ![p] = to] /\ UNCHANGED job
        /\ conn \in [Users -> {"none", "waiting", "held", "blocked", "locked"}]
    BY <2>1 DEF Use, jobVars, IInv, TypeOK
  <2>3. p \in Workers => job = "run"
    BY <2>1, <2>2, SchedulerAssumption DEF JobLeavesNothing, Running
  <2>4. \A w \in Workers : w # p => conn'[w] = conn[w]
    BY <2>2 DEF Users
  <2> QED
    BY <2>2, <2>3, <2>4 DEF JobLeavesNothing
<1> QED
  BY <1>2, <1>3, <1>4, <1>5 DEF Next, Terminated

\* A job that is not running has nothing of the database, for any number of
\* goroutines and requests that compete for its connections.
THEOREM IdleJobHoldsNothing == Spec => []JobLeavesNothing
<1>1. Init => JobLeavesNothing
  BY DEF Init, JobLeavesNothing, Users
<1>2. IInv /\ JobLeavesNothing /\ [Next]_vars => JobLeavesNothing'
  BY BatchStep
<1> QED
  BY <1>1, <1>2, InitIInv, StepIInv, PTL DEF Spec
=============================================================================
