----------------------------- MODULE DueQueue ------------------------------
(***************************************************************************)
(* Which feeds a batch of the refresh job takes: next_fetch_at, the due    *)
(* query with its ORDER BY and LIMIT, and the feeds whose refresh leaves   *)
(* next_fetch_at where it is, over any number of batches.                  *)
(*                                                                         *)
(* What FeedJob says of one batch is reduced here to whether a goroutine   *)
(* records its outcome; FeedJob's flag due becomes a time and an order.    *)
(***************************************************************************)
EXTENDS Naturals, FiniteSets

CONSTANTS
    FeedIds,                    \* feeds
    Workers,                    \* goroutines of the errgroup, refreshDueConcurrency many
    refreshDueLimit,            \* the LIMIT of the query
    refreshNextInterval,        \* the interval the job schedules with, in units of time
    defaultFetchInterval,       \* the one a request schedules with
    Stuck,                      \* feeds whose refresh by the job is never recorded
    None                        \* no row, no feed

ASSUME DueQueueAssumption ==
    /\ refreshDueLimit \in Nat \ {0}
    /\ refreshNextInterval \in Nat \ {0}
    /\ defaultFetchInterval \in Nat \ {0}
    /\ IsFiniteSet(FeedIds)
    /\ Stuck \subseteq FeedIds
    /\ None \notin FeedIds
    /\ None \notin Nat

VARIABLES
    wait,       \* the time until next_fetch_at; 0: it has passed, None: there is no row
    earlier,    \* <<f, g>>: both are due and f's next_fetch_at is before g's
    jobCtx,     \* the context of the running batch, "none" between batches
    batch,      \* due feeds not yet handed to a goroutine
    worker,     \* the feed each goroutine refreshes
    left        \* the time until the next_fetch_at each goroutine will record

vars == <<wait, earlier, jobCtx, batch, worker, left>>

\* Nothing is ever scheduled further away than the longer interval.
Times == 0..refreshNextInterval \cup 0..defaultFetchInterval

\* The feeds of the running batch whose goroutines have not returned.
Taken == (batch \cup {worker[w] : w \in Workers}) \ {None}

TypeOK ==
    /\ wait \in [FeedIds -> Times \cup {None}]
    /\ earlier \in SUBSET (FeedIds \X FeedIds)
    /\ jobCtx \in {"none", "live", "dead"}
    /\ batch \in SUBSET FeedIds
    /\ worker \in [Workers -> FeedIds \cup {None}]
    /\ left \in [Workers -> 0..refreshNextInterval]
    /\ Cardinality(Taken) <= refreshDueLimit

Init ==
    /\ wait = [f \in FeedIds |-> None]
    /\ earlier = {}
    /\ jobCtx = "none"
    /\ batch = {}
    /\ worker = [w \in Workers |-> None]
    /\ left = [w \in Workers |-> 0]

Due == {f \in FeedIds : wait[f] = 0}

jobVars == <<jobCtx, batch, worker, left>>

-----------------------------------------------------------------------------
(* Time and the rows of feed_fetch_status. *)

\* What becomes due together is due in no particular order.  A goroutine does not
\* live as long as the interval it schedules with (the job's timeout).
Elapse ==
    /\ \A w \in Workers : worker[w] # None => left[w] > 1
    /\ LET newlyDue == {f \in FeedIds : wait[f] = 1} IN
         /\ wait' = [f \in FeedIds |-> IF wait[f] \in {None, 0} THEN wait[f] ELSE wait[f] - 1]
         /\ earlier' = earlier \cup Due \X newlyDue
    /\ left' = [w \in Workers |-> IF worker[w] = None THEN left[w] ELSE left[w] - 1]
    /\ UNCHANGED <<jobCtx, batch, worker>>

\* Row f is written with next_fetch_at in time t, or deleted.
Put(f, t) ==
    /\ wait' = [wait EXCEPT ![f] = t]
    /\ earlier' = {e \in earlier : f \notin {e[1], e[2]}}

\* Mutant: a new feed is scheduled for the zero time, before everything else.
ScheduleAtOnce(f) ==
    /\ wait[f] = None
    /\ wait' = [wait EXCEPT ![f] = 0]
    /\ earlier' = earlier \cup {f} \X Due
    /\ UNCHANGED jobVars

\* RegisterFeed commits.
RegisterFeed(f) ==
    /\ wait[f] = None
    /\ Put(f, defaultFetchInterval)
    /\ UNCHANGED jobVars

\* RefreshFeed commits, whatever the job does with the feed meanwhile.
RefreshFeed(f) ==
    /\ wait[f] # None
    /\ Put(f, defaultFetchInterval)
    /\ UNCHANGED jobVars

DeleteFeed(f) ==
    /\ wait[f] # None
    /\ Put(f, None)
    /\ UNCHANGED jobVars

-----------------------------------------------------------------------------
(* RefreshDueFeeds *)

\* Mutant: the query has lost its ORDER BY.
AnyOrder(B) == TRUE

\* No due feed left out of B comes before one in it.
InOrder(B) == \A f \in B, g \in Due \ B : <<g, f>> \notin earlier

\* Mutant: the query has lost its LIMIT.
AnyNumber(B) == B = Due

\* LIMIT refreshDueLimit.
AtLimit(B) ==
    \/ Cardinality(B) = refreshDueLimit
    \/ B = Due /\ Cardinality(B) < refreshDueLimit

GetDueFeeds ==
    /\ jobCtx = "none"
    /\ Due # {}
    /\ \E B \in SUBSET Due :
         /\ AtLimit(B)
         /\ InOrder(B)
         /\ batch' = B
    /\ jobCtx' = "live"
    /\ UNCHANGED <<wait, earlier, worker, left>>

\* now is read when refreshOne begins.
TakeFeed(w, f) ==
    /\ worker[w] = None
    /\ f \in batch
    /\ batch' = batch \ {f}
    /\ worker' = [worker EXCEPT ![w] = f]
    /\ left' = [left EXCEPT ![w] = refreshNextInterval]
    /\ UNCHANGED <<wait, earlier, jobCtx>>

Finish(w) ==
    /\ worker' = [worker EXCEPT ![w] = None]
    /\ left' = [left EXCEPT ![w] = 0]
    /\ UNCHANGED <<jobCtx, batch>>

\* A failed fetch, 304, or the transaction with the new articles is recorded; a
\* feed that has been deleted has no row to record it in.
Record(w) ==
    /\ worker[w] # None
    /\ jobCtx = "live"
    /\ worker[w] \notin Stuck
    /\ IF wait[worker[w]] = None THEN UNCHANGED <<wait, earlier>> ELSE Put(worker[w], left[w])
    /\ Finish(w)

\* A statement is rejected, refreshOne panics, or the context has ended.
NotRecorded(w) ==
    /\ worker[w] # None
    /\ Finish(w)
    /\ UNCHANGED <<wait, earlier>>

\* The job's timeout, or the application is shutting down.
ExpireJob ==
    /\ jobCtx = "live"
    /\ jobCtx' = "dead"
    /\ UNCHANGED <<wait, earlier, batch, worker, left>>

\* Mutant: RefreshDueFeeds returns without g.Wait.
EndBatchEarly ==
    /\ jobCtx # "none"
    /\ batch = {}
    /\ jobCtx' = "none"
    /\ UNCHANGED <<wait, earlier, batch, worker, left>>

\* g.Wait returns.
EndBatch ==
    /\ jobCtx # "none"
    /\ batch = {}
    /\ \A w \in Workers : worker[w] = None
    /\ jobCtx' = "none"
    /\ UNCHANGED <<wait, earlier, batch, worker, left>>

WorkerNext(w) == (\E f \in FeedIds : TakeFeed(w, f)) \/ Record(w) \/ NotRecorded(w)

RowNext(f) == RegisterFeed(f) \/ RefreshFeed(f) \/ DeleteFeed(f)

Next ==
    \/ Elapse
    \/ \E f \in FeedIds : RowNext(f)
    \/ GetDueFeeds \/ ExpireJob \/ EndBatch
    \/ \E w \in Workers : WorkerNext(w)

Spec == Init /\ [][Next]_vars

\* The next tick comes and goroutines run.  The job's context does not end each
\* time before the turn of a feed, nor does each of its refreshes meet an error, if
\* it is a feed whose refresh can be recorded at all.
Fairness ==
    /\ WF_vars(GetDueFeeds)
    /\ WF_vars(EndBatch)
    /\ \A w \in Workers : WF_vars(WorkerNext(w))
    /\ \A f \in FeedIds \ Stuck :
        /\ SF_vars(jobCtx = "live" /\ \E w \in Workers : TakeFeed(w, f))
        /\ SF_vars(\E w \in Workers : worker[w] = f /\ Record(w))

FairSpec == Spec /\ Fairness

-----------------------------------------------------------------------------
\* No feed is in the hands of two goroutines, of one batch or of two: otherwise
\* they would write its status over each other and fetch it twice at a time.
OneGoroutinePerFeed ==
    \A v, w \in Workers : v # w /\ worker[v] # None => worker[v] # worker[w]

\* While a feed is due no feed gets ahead of it, neither one just refreshed nor a
\* new one: the feeds before it only become fewer.
NeverOvertaken ==
    [][\A f \in Due : wait'[f] = 0 =>
          \A g \in FeedIds : <<g, f>> \in earlier' => <<g, f>> \in earlier]_vars

\* Every due feed is refreshed in the end, as long as the feeds that stay at the
\* head of the queue are fewer than a batch takes.
DueRefreshed ==
    Cardinality(Stuck) < refreshDueLimit =>
        \A f \in FeedIds \ Stuck : wait[f] = 0 ~> wait[f] # 0
=============================================================================
