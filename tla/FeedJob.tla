------------------------------ MODULE FeedJob ------------------------------
(***************************************************************************)
(* FeedJobInteractor.RefreshDueFeeds: one batch at a time, its due feeds   *)
(* read once and handed to at most refreshDueConcurrency goroutines, each  *)
(* running refreshOne on the snapshot it was given.                        *)
(***************************************************************************)
EXTENDS Gateway, Naturals, FiniteSets

CONSTANTS
    Workers,            \* goroutines of the errgroup, refreshDueConcurrency many
    refreshDueLimit     \* the LIMIT of GetDueFeeds

ASSUME WorkersRun ==
    /\ Workers \subseteq Procs
    /\ refreshDueLimit \in Nat \ {0}

VARIABLES
    jobCtx,     \* the context of the running batch, "none" between batches
    batch,      \* due feeds not yet handed to a worker
    worker      \* the locals of refreshOne in each goroutine

jobVars == <<jobCtx, batch, worker>>

DueFeed == [feed : FeedIds, url : Urls, cursor : Cursors]

ASSUME NoneIsNoDueFeed == None \notin DueFeed

WorkerRecord == [ pc    : {"idle", "fetch", "failed", "unmodified", "articles", "commit"},
                  due   : DueFeed \cup {None},
                  doc   : Docs \cup {None},
                  owner : FeedIds \cup {None},
                  todo  : SUBSET Exts ]

IdleWorker == [pc |-> "idle", due |-> None, doc |-> None, owner |-> None, todo |-> {}]

JobTypeOK ==
    /\ jobCtx \in {"none", "live", "dead"}
    /\ batch \in SUBSET DueFeed
    /\ worker \in [Workers -> WorkerRecord]

JobInit ==
    /\ jobCtx = "none"
    /\ batch = {}
    /\ worker = [w \in Workers |-> IdleWorker]

WorkerAt(w, pc) == worker[w].pc = pc

\* refreshOne returns; its error, if any, is logged and swallowed.
Finish(w) == worker' = [worker EXCEPT ![w] = IdleWorker]

-----------------------------------------------------------------------------
(* The batch. *)

AtMost(n, S) == IF Cardinality(S) <= n THEN {S} ELSE {T \in SUBSET S : Cardinality(T) = n}

GetDueFeeds ==
    /\ jobCtx = "none"
    /\ DueFeeds # {}
    /\ jobCtx' = "live"
    /\ batch' \in AtMost(refreshDueLimit, DueFeeds)
    /\ UNCHANGED <<tables, tx, worker>>

TakeFeed(w) ==
    /\ WorkerAt(w, "idle")
    /\ \E due \in batch :
         /\ worker' = [worker EXCEPT ![w].pc = "fetch", ![w].due = due]
         /\ batch' = batch \ {due}
    /\ UNCHANGED <<tables, tx, jobCtx>>

\* g.Wait returns.
EndBatch ==
    /\ jobCtx # "none"
    /\ batch = {}
    /\ worker = [w \in Workers |-> IdleWorker]
    /\ jobCtx' = "none"
    /\ UNCHANGED <<tables, tx, batch, worker>>

\* The job's timeout, or the application is shutting down.
ExpireJob ==
    /\ "timeout" \in Faults
    /\ jobCtx = "live"
    /\ jobCtx' = "dead"
    /\ UNCHANGED <<tables, tx, batch, worker>>

-----------------------------------------------------------------------------
(* refreshOne *)

\* A conditional request.  The gateway names the articles' feed with the fresh
\* id n, and refreshOne saves them as they are.
FetchFeedWithCursor(w, n) ==
    /\ WorkerAt(w, "fetch")
    /\ jobCtx = "live"
    /\ LET due == worker[w].due
           d == upstream[due.url]
       IN IF NotModified(due.url, due.cursor)
            THEN worker' = [worker EXCEPT ![w].pc = "unmodified"]
            ELSE worker' = [worker EXCEPT ![w].pc = "articles",
                                          ![w].doc = d,
                                          ![w].owner = n,
                                          ![w].todo = ItemsOf[d]]
    /\ UNCHANGED <<tables, tx, jobCtx, batch>>

\* 304 to a request without validators leaves the empty cursor as it is.
FetchUnsolicited304(w) ==
    /\ WorkerAt(w, "fetch")
    /\ jobCtx = "live"
    /\ "unsolicited304" \in Faults
    /\ worker' = [worker EXCEPT ![w].pc = "unmodified"]
    /\ UNCHANGED <<tables, tx, jobCtx, batch>>

FetchDueFails(w) ==
    /\ WorkerAt(w, "fetch")
    /\ "upstream" \in Faults \/ jobCtx = "dead"
    /\ worker' = [worker EXCEPT ![w].pc = "failed"]
    /\ UNCHANGED <<tables, tx, jobCtx, batch>>

\* After a failed fetch and after 304 the status is written on its own, with
\* the validators the batch was read with.
RecordOutcome(w) ==
    /\ worker[w].pc \in {"failed", "unmodified"}
    /\ jobCtx = "live"
    /\ LET due == worker[w].due IN
         \/ SaveFetchStatusNow(w, due.feed, Fetched(due.cursor))
         \/ ~Live(due.feed) /\ UNCHANGED status
    /\ Finish(w)
    /\ UNCHANGED <<feeds, articles, tx, jobCtx, batch>>

\* Mutant: an article that cannot be saved is skipped.
SkipDueArticle(w) ==
    /\ WorkerAt(w, "articles")
    /\ \E e \in worker[w].todo :
         worker' = [worker EXCEPT ![w].todo = @ \ {e}]
    /\ UNCHANGED <<tables, tx, jobCtx, batch>>

WriteDueArticle(w) ==
    /\ WorkerAt(w, "articles")
    /\ jobCtx = "live"
    /\ \E e \in worker[w].todo :
         /\ SaveArticle(w, worker[w].owner, e)
         /\ worker' = [worker EXCEPT ![w].todo = @ \ {e}]
    /\ UNCHANGED <<tables, jobCtx, batch>>

WriteDueStatus(w) ==
    /\ WorkerAt(w, "articles")
    /\ jobCtx = "live"
    /\ worker[w].todo = {}
    /\ SaveFetchStatus(w, worker[w].due.feed, Fetched(CursorOf(worker[w].doc)))
    /\ worker' = [worker EXCEPT ![w].pc = "commit"]
    /\ UNCHANGED <<tables, jobCtx, batch>>

\* Mutant: a rejected statement is tried again.
RetryRejected(w) ==
    /\ WorkerAt(w, "articles")
    /\ Rollback(w)
    /\ UNCHANGED <<tables, jobCtx, batch, worker>>

\* The next statement of the transaction finds no feed row for its key.
DueRejected(w) ==
    /\ WorkerAt(w, "articles")
    /\ jobCtx = "live"
    /\ LET f == IF worker[w].todo # {} THEN worker[w].owner ELSE worker[w].due.feed
       IN ForeignKeyViolation(w, f)
    /\ Rollback(w)
    /\ Finish(w)
    /\ UNCHANGED <<tables, jobCtx, batch>>

\* Mutant: the goroutine returns without the commit, its transaction left open.
LeakDue(w) ==
    /\ WorkerAt(w, "commit")
    /\ Finish(w)
    /\ UNCHANGED <<tables, tx, jobCtx, batch>>

CommitDue(w) ==
    /\ WorkerAt(w, "commit")
    /\ Commit(w)
    /\ Finish(w)
    /\ UNCHANGED <<jobCtx, batch>>

\* A statement fails, as every one does once the context has ended: the goroutine
\* returns the error and its transaction, if one is open, is undone.
WorkerFails(w) ==
    /\ worker[w].pc \notin {"idle", "fetch"}
    /\ jobCtx = "dead" \/ "timeout" \in Faults
    /\ Rollback(w)
    /\ Finish(w)
    /\ UNCHANGED <<tables, jobCtx, batch>>

WorkerNext(w) ==
    \/ TakeFeed(w) \/ FetchDueFails(w) \/ FetchUnsolicited304(w) \/ RecordOutcome(w)
    \/ WriteDueArticle(w) \/ WriteDueStatus(w) \/ DueRejected(w) \/ CommitDue(w)
    \/ WorkerFails(w)
=============================================================================
