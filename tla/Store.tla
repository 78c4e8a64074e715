------------------------------- MODULE Store -------------------------------
(***************************************************************************)
(* The three tables of the service and the statements its repositories run *)
(* against them, alone or inside PgTransactionManager.WithTransaction.     *)
(*                                                                         *)
(* A table is a total function: feeds[f] = None means there is no row.     *)
(* An open transaction is the set of writes its process has made and no    *)
(* other process sees yet; every transaction of the code writes the feed   *)
(* row and the fetch status of a single feed, recorded in its id.          *)
(* PostgreSQL (READ COMMITTED, row locks held until the transaction ends,  *)
(* unique and foreign keys) is external: it is modelled from the           *)
(* statements and the schema.  A statement that must wait for a lock is    *)
(* not enabled; a failed statement ends the transaction with a rollback.   *)
(* A statement that may wait while it holds something already is modelled  *)
(* by two operators, one for what it does before it can come to that wait. *)
(***************************************************************************)
CONSTANTS
    FeedIds,    \* feeds.id, generated by uuid.New
    Urls,       \* feeds.feed_url
    Sites,      \* feeds.website_url
    Exts,       \* articles.external_id
    Docs,       \* feed documents a publisher can serve; an ETag names one
    Procs,      \* goroutines that run statements
    None        \* no row, no id, no validator

FeedRow == [url : Urls, site : Sites]
\* A row that has entered the index of feed_url and not yet that of website_url.
HalfRow == [url : Urls, site : {None}]
Cursors == Docs \cup {None}
\* next_fetch_at and etag/last_modified of feed_fetch_status; due means
\* next_fetch_at <= now.
StatusRow == [due : BOOLEAN, cursor : Cursors]

ASSUME NoneIsNew ==
    /\ None \notin FeedIds \cup Urls \cup Sites \cup Exts \cup Docs
    /\ None \notin FeedRow \cup HalfRow
    /\ None \notin StatusRow

VARIABLES feeds, articles, status, tx

tables == <<feeds, articles, status>>

NoTx == [id |-> None, row |-> None, arts |-> {}, stat |-> None]

TxRecord == [ id   : FeedIds \cup {None},
              row  : FeedRow \cup HalfRow \cup {None},
              arts : SUBSET (FeedIds \X Exts),
              stat : StatusRow \cup {None} ]

StoreTypeOK ==
    /\ feeds \in [FeedIds -> FeedRow \cup {None}]
    /\ articles \in SUBSET (FeedIds \X Exts)
    /\ status \in [FeedIds -> StatusRow \cup {None}]
    /\ tx \in [Procs -> TxRecord]

StoreInit ==
    /\ feeds = [f \in FeedIds |-> None]
    /\ articles = {}
    /\ status = [f \in FeedIds |-> None]
    /\ tx = [p \in Procs |-> NoTx]

Live(f) == feeds[f] # None
LiveFeeds == {f \in FeedIds : Live(f)}
ArticlesOf(f) == {a \in articles : a[1] = f}

-----------------------------------------------------------------------------
(* Queries: single statements on committed rows. *)

CheckFeedExistsByURL(u) == \E f \in LiveFeeds : feeds[f].url = u

GetFeedByWebsiteURL(sites) == \E f \in LiveFeeds : feeds[f].site \in sites

\* Mutant: the query forgets to join feeds.
DueStatuses ==
    { [feed |-> f, url |-> None, cursor |-> status[f].cursor] :
        f \in {g \in FeedIds : status[g] # None /\ status[g].due} }

\* The rows of feed_fetch_status JOIN feeds that are due, as the job sees them.
DueFeeds ==
    { [feed |-> f, url |-> feeds[f].url, cursor |-> status[f].cursor] :
        f \in {g \in LiveFeeds : status[g] # None /\ status[g].due} }

-----------------------------------------------------------------------------
(* What decides a statement: keys that clash, rows that are locked. *)

Others(p) == Procs \ {p}

\* The versions of its feed row that q's transaction has written, replaced or deleted.
Versions(q) ==
    IF tx[q].row = None THEN {} ELSE {tx[q].row} \cup {feeds[f] : f \in LiveFeeds \cap {tx[q].id}}

\* A statement that writes row f, or the key u or s, waits for the end of q.
HoldsFeed(q, f) == tx[q].row # None /\ tx[q].id = f
HoldsUrl(q, u) == \E row \in Versions(q) : row.url = u
HoldsSite(q, s) == \E row \in Versions(q) : row.site = s
HoldsStatus(q, f) == tx[q].id = f /\ tx[q].stat # None

FeedBusy(p, f, u) == \E q \in Others(p) : HoldsFeed(q, f) \/ HoldsUrl(q, u)
SiteBusy(p, s) == \E q \in Others(p) : HoldsSite(q, s)
StatusBusy(p, f) == \E q \in Others(p) : HoldsStatus(q, f)

\* Mutant: the schema loses UNIQUE (website_url).
SiteFree(f, s) == FALSE

\* SQLSTATE 23505: a committed row of another feed holds the key.
UrlViolation(f, u) == \E g \in LiveFeeds \ {f} : feeds[g].url = u
SiteViolation(f, s) == \E g \in LiveFeeds \ {f} : feeds[g].site = s

\* The foreign key of p's insert finds the feed row.
FeedVisible(p, f) == Live(f) \/ (tx[p].id = f /\ tx[p].row # None)

-----------------------------------------------------------------------------
(* Statements inside a transaction. *)

\* INSERT INTO feeds, as far as the index of feed_url.
SaveFeed(p, f, u) ==
    /\ ~FeedBusy(p, f, u)
    /\ ~UrlViolation(f, u)
    /\ tx' = [tx EXCEPT ![p].id = f, ![p].row = [url |-> u, site |-> None]]

\* Mutant: the update is written as an upsert.
UpsertFeed(p, f, u) == SaveFeed(p, f, u)

\* UPDATE feeds WHERE id = f, as far as the index of feed_url: it has replaced the
\* row and holds it.  No matching row is not an error.
UpdateFeed(p, f, u) == Live(f) /\ SaveFeed(p, f, u)

\* Either goes on to the index of website_url.
IndexSite(p, s) ==
    /\ ~SiteBusy(p, s)
    /\ ~SiteViolation(tx[p].id, s)
    /\ tx' = [tx EXCEPT ![p].row.site = s]

\* INSERT INTO articles ... ON CONFLICT (feed_id, external_id) DO NOTHING.
SaveArticle(p, f, e) ==
    /\ FeedVisible(p, f)
    /\ tx' = [tx EXCEPT ![p].id = f, ![p].arts = @ \cup {<<f, e>>}]

\* INSERT INTO feed_fetch_status ... ON CONFLICT (feed_id) DO UPDATE.
SaveFetchStatus(p, f, st) ==
    /\ ~StatusBusy(p, f)
    /\ FeedVisible(p, f)
    /\ tx' = [tx EXCEPT ![p].id = f, ![p].stat = st]

\* SQLSTATE 23503: the feed row of the article or status is not there.
ForeignKeyViolation(p, f) == ~FeedVisible(p, f)

Rollback(p) == tx' = [tx EXCEPT ![p] = NoTx]

Commit(p) ==
    LET t == tx[p] IN
    /\ feeds' = IF t.row = None THEN feeds ELSE [feeds EXCEPT ![t.id] = t.row]
    /\ articles' = articles \cup t.arts
    /\ status' = IF t.stat = None THEN status ELSE [status EXCEPT ![t.id] = t.stat]
    /\ Rollback(p)

-----------------------------------------------------------------------------
(* Statements on the pool, each a transaction of its own. *)

SaveFetchStatusNow(p, f, st) ==
    /\ ~StatusBusy(p, f)
    /\ Live(f)
    /\ status' = [status EXCEPT ![f] = st]

\* DELETE FROM feeds locks the row, ...
LockFeed(p, f) ==
    /\ Live(f)
    /\ \A q \in Others(p) : ~HoldsFeed(q, f)
    /\ tx' = [tx EXCEPT ![p].id = f, ![p].row = feeds[f]]

\* ... and its ON DELETE CASCADEs wait for every transaction that has locked the
\* status.  The statement ends with its commit.
DeleteFeed(p, f) ==
    /\ ~StatusBusy(p, f)
    /\ feeds' = [feeds EXCEPT ![f] = None]
    /\ articles' = articles \ ArticlesOf(f)
    /\ status' = [status EXCEPT ![f] = None]
    /\ Rollback(p)
=============================================================================
