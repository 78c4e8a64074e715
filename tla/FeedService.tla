---------------------------- MODULE FeedService ----------------------------
(***************************************************************************)
(* The feed service: HTTP requests and the refresh job interleave, call by *)
(* call, over one database, while publishers replace their documents and   *)
(* next_fetch_at passes.                                                   *)
(***************************************************************************)
EXTENDS FeedInteractor, FeedJob

ASSUME ProcsSplit ==
    /\ Procs = Requests \cup Workers
    /\ Requests \cap Workers = {}

vars == <<feeds, articles, status, tx, upstream, req, jobCtx, batch, worker>>

TypeOK == StoreTypeOK /\ GatewayTypeOK /\ ReqTypeOK /\ JobTypeOK

Init == StoreInit /\ GatewayInit /\ ReqInit /\ JobInit

\* The ids some row, request or goroutine of the job holds.
Referenced ==
    RequestIds \cup {d.feed : d \in batch}
               \cup {worker[w].owner : w \in Workers}
               \cup {worker[w].due.feed : w \in {v \in Workers : worker[v].due # None}}

Fresh == FeedIds \ Referenced

-----------------------------------------------------------------------------
Serving(p)   == RequestNext(p, Fresh) /\ UNCHANGED <<upstream, jobVars>>
Picking      == GetDueFeeds /\ UNCHANGED <<upstream, req>>
Ending       == EndBatch /\ UNCHANGED <<upstream, req>>
Expiring     == ExpireJob /\ UNCHANGED <<upstream, req>>
Refreshing(w) ==
    /\ WorkerNext(w) \/ \E n \in Fresh : FetchFeedWithCursor(w, n)
    /\ UNCHANGED <<upstream, req>>

Publishing ==
    /\ \E u \in Urls : Publish(u)
    /\ UNCHANGED <<tables, tx, req, jobVars>>

\* The clock passes a feed's next_fetch_at.
Elapsing ==
    /\ \E f \in FeedIds :
         /\ status[f] # None
         /\ ~status[f].due
         /\ status' = [status EXCEPT ![f].due = TRUE]
    /\ UNCHANGED <<feeds, articles, tx, upstream, req, jobVars>>

\* The process dies: the database rolls open transactions back.
Crash ==
    /\ "crash" \in Faults
    /\ tx' = [p \in Procs |-> NoTx]
    /\ req' = [p \in Requests |-> IdleReq]
    /\ jobCtx' = "none"
    /\ batch' = {}
    /\ worker' = [w \in Workers |-> IdleWorker]
    /\ UNCHANGED <<tables, upstream>>

Next ==
    \/ \E p \in Requests : Serving(p)
    \/ \E w \in Workers : Refreshing(w)
    \/ Picking \/ Ending \/ Expiring
    \/ Publishing \/ Elapsing \/ Crash

Spec == Init /\ [][Next]_vars

-----------------------------------------------------------------------------
(* Safety *)

\* A fetch that failed still moves next_fetch_at: once refreshOne has dealt with
\* the failure the feed is not due, unless it is gone.
FailureAdvances ==
    [][\A w \in Workers :
          WorkerAt(w, "failed") /\ WorkerAt(w, "idle")' =>
              LET f == worker[w].due.feed IN feeds'[f] # None => ~status'[f].due]_vars

\* A refresh by the job that got a new document ends with its items in the
\* archive and the next fetch scheduled, unless the feed is gone.
JobPersists ==
    [][\A w \in Workers :
          worker[w].pc \in {"articles", "commit"} /\ WorkerAt(w, "idle")' =>
              LET f == worker[w].due.feed IN
                feeds'[f] # None => /\ {f} \X ItemsOf[worker[w].doc] \subseteq articles'
                            /\ ~status'[f].due]_vars

-----------------------------------------------------------------------------
(* Who waits for whom. *)

\* The next statement of worker w cannot run before the end of q's transaction,
\* unless the end of the job's context cancels the wait.
WorkerWaits(w, q) ==
    /\ jobCtx = "live"
    /\ \/ worker[w].pc \in {"failed", "unmodified"}
       \/ WorkerAt(w, "articles") /\ worker[w].todo = {}
    /\ HoldsStatus(q, worker[w].due.feed)

Waits(p, q) ==
    /\ p # q
    /\ IF p \in Requests THEN RequestWaits(p, q) ELSE WorkerWaits(p, q)

\* The next step of p ends its transaction, and waits for nobody.
Committing(p) == IF p \in Requests THEN At(p, "commit") ELSE WorkerAt(p, "commit")

\* q commits next, or waits at most for one that does.
GoesOn(q) ==
    \/ Committing(q)
    \/ /\ q \in Requests
       /\ req[q].pc \in {"articles", "cascade"}
       /\ \A r \in Procs : Waits(q, r) => Committing(r)

\* Who is waited for is inside a transaction that goes on, or stands at the index
\* of website_url itself; and there it delays only who holds nothing or stands
\* there too.  So no lock is left to nobody, the job and a deletion are in no circle
\* of waits, and what circles there are, SwapsOnly describes.
NoDeadlock ==
    \A p, q \in Procs : Waits(p, q) =>
        \/ GoesOn(q)
        \/ {p, q} \subseteq Requests /\ At(q, "site") /\ (At(p, "site") \/ tx[p] = NoTx)

-----------------------------------------------------------------------------
(* The inductive invariant behind the safety properties. *)

InTx == {"save", "site", "articles", "commit"}

\* The locals a step reads have been set by the steps before it.
LocalsSet(r) ==
    /\ r.pc \in Steps => r.op \in Ops
    /\ r.pc \in {"check", "fetch"} \cup InTx => r.url \in Urls
    /\ r.pc \in {"lookup", "discover"} => r.site \in Sites
    /\ r.pc \in {"check", "lookup", "discover"} => r.op # "refresh"
    /\ r.pc \in {"load", "delete", "cascade"} \cup InTx => r.feed \in FeedIds
    /\ r.pc = "fetch" /\ r.op = "refresh" => r.feed \in FeedIds
    /\ r.pc \in InTx => r.doc \in Docs
    /\ r.pc \in {"save", "site"} => r.todo = ItemsOf[r.doc]

RequestLocals == \A p \in Requests : LocalsSet(req[p])

WorkerLocals ==
    \A w \in Workers :
        /\ ~WorkerAt(w, "idle") => worker[w].due \in DueFeed
        /\ worker[w].pc \in {"articles", "commit"} =>
               worker[w].doc \in Docs /\ worker[w].owner \in FeedIds

FetchedRow(p) == RowOf(req[p].url, req[p].doc)

\* A transaction holds what its process has written so far, for its own feed.
OpenRequest(p) ==
    /\ tx[p].id = req[p].feed
    /\ tx[p].row = FetchedRow(p)
    /\ tx[p].arts \subseteq {req[p].feed} \X Exts
    /\ {req[p].feed} \X (ItemsOf[req[p].doc] \ req[p].todo) \subseteq tx[p].arts
    /\ req[p].op = "refresh" => Live(req[p].feed)

\* The steps that begin with a transaction open.
Holding == {"site", "articles", "commit", "cascade"}

RequestTxOf(p) ==
    /\ req[p].pc \notin Holding => tx[p] = NoTx
    /\ At(p, "site") =>
         /\ tx[p] = [NoTx EXCEPT !.id = req[p].feed, !.row = [url |-> req[p].url, site |-> None]]
         /\ req[p].op = "refresh" => Live(req[p].feed)
    /\ At(p, "articles") =>
         \/ tx[p] = NoTx /\ ~Live(req[p].feed) /\ req[p].op = "refresh"
         \/ OpenRequest(p) /\ tx[p].stat = None
    /\ At(p, "commit") =>
         /\ OpenRequest(p)
         /\ req[p].todo = {}
         /\ tx[p].stat = Fetched(CursorOf(req[p].doc))
    /\ At(p, "cascade") =>
         /\ Live(req[p].feed)
         /\ tx[p] = [NoTx EXCEPT !.id = req[p].feed, !.row = feeds[req[p].feed]]

RequestTx == \A p \in Requests : RequestTxOf(p)

\* The job gets no article past the foreign key: what it commits has none.
WorkerTx ==
    \A w \in Workers :
        /\ ~WorkerAt(w, "commit") => tx[w] = NoTx
        /\ WorkerAt(w, "articles") =>
             worker[w].todo = ItemsOf[worker[w].doc] /\ ~Live(worker[w].owner)
        /\ WorkerAt(w, "commit") =>
             /\ ItemsOf[worker[w].doc] = {}
             /\ Live(worker[w].due.feed)
             /\ tx[w] = [NoTx EXCEPT !.id = worker[w].due.feed,
                                     !.stat = Fetched(CursorOf(worker[w].doc))]

\* The id of a feed being registered is nobody else's; a client may only guess it.
Registering(p) == req[p].pc \in InTx /\ req[p].op # "refresh"

NewIds ==
    \A p \in Requests : Registering(p) =>
        /\ ~Live(req[p].feed)
        /\ \A q \in Requests \ {p} :
             req[q].feed = req[p].feed => req[q].pc \in {"load", "delete"}
        /\ \A d \in batch : d.feed # req[p].feed
        /\ \A w \in Workers :
             /\ worker[w].owner # req[p].feed
             /\ ~WorkerAt(w, "idle") => worker[w].due.feed # req[p].feed

\* Two rows have a key in common; a row that has no website yet clashes on none.
Clash(r, s) == r.url = s.url \/ (r.site = s.site /\ r.site # None)

\* Rows not yet committed clash neither with each other nor with the table.
PendingRows ==
    \A p \in Requests : tx[p].row # None =>
        /\ \A g \in LiveFeeds \ {tx[p].id} : ~Clash(feeds[g], tx[p].row)
        /\ \A q \in Requests \ {p} :
             tx[q].row # None => tx[q].id # tx[p].id /\ ~Clash(tx[q].row, tx[p].row)

\* The validator of a snapshot stays covered by the archive of its feed.
Covered(d) ==
    Live(d.feed) /\ d.cursor # None => {d.feed} \X ItemsOf[d.cursor] \subseteq articles

SnapshotsCovered ==
    /\ \A d \in batch : Covered(d)
    /\ \A w \in Workers : ~WorkerAt(w, "idle") => Covered(worker[w].due)

IInv ==
    /\ TypeOK
    /\ RequestLocals /\ WorkerLocals
    /\ RequestTx /\ WorkerTx
    /\ NewIds /\ PendingRows /\ SnapshotsCovered
    /\ UniqueSubscriptions /\ Scheduled /\ CursorNeverAhead

-----------------------------------------------------------------------------
(* Liveness. *)

\* A request that has arrived goes on, and so does a worker; a statement that
\* waits for a lock is served in turn, and of a circle of waits one is failed.
Fairness ==
    /\ \A p \in Requests : SF_vars(~At(p, "idle") /\ Serving(p))
    /\ \A w \in Workers : SF_vars(Refreshing(w))
    /\ WF_vars(Ending)

FairSpec == Spec /\ Fairness

\* Every request is answered, whatever rows the job and other requests have
\* locked: no transaction is left open and no circle of waits is left standing.
RequestsAnswered == \A p \in Requests : ~At(p, "idle") ~> At(p, "idle")

\* Every batch ends, so that the next tick finds the job idle.
BatchEnds == jobCtx # "none" ~> jobCtx = "none"
=============================================================================
