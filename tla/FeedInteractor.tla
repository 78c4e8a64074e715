--------------------------- MODULE FeedInteractor ---------------------------
(***************************************************************************)
(* The write operations of FeedInteractor, run by one goroutine per HTTP   *)
(* request: RegisterFeed, DiscoverAndRegisterFeed, RefreshFeed and         *)
(* DeleteFeed.  One action per call of a repository or gateway; between    *)
(* two of them any other request, the job or a publisher may step.         *)
(***************************************************************************)
EXTENDS Gateway

CONSTANT Requests   \* requests in flight at the same time

ASSUME RequestsRun == Requests \subseteq Procs

VARIABLE req        \* the locals of each request's goroutine

Steps == {"check", "lookup", "discover", "load", "fetch",
          "save", "site", "articles", "commit", "delete", "cascade"}
Ops == {"register", "discover", "refresh", "delete"}
Answers == {"created", "ok", "conflict", "not_found", "unavailable", "internal"}

ReqRecord == [ pc     : Steps \cup {"idle", "answered"},
               op     : Ops \cup {None},
               feed   : FeedIds \cup {None},
               url    : Urls \cup {None},
               site   : Sites \cup {None},
               doc    : Docs \cup {None},
               todo   : SUBSET Exts,
               answer : Answers \cup {None} ]

IdleReq == [ pc |-> "idle", op |-> None, feed |-> None, url |-> None,
             site |-> None, doc |-> None, todo |-> {}, answer |-> None ]

ReqTypeOK == req \in [Requests -> ReqRecord]

ReqInit == req = [p \in Requests |-> IdleReq]

At(p, pc) == req[p].pc = pc
Goto(p, pc) == req' = [req EXCEPT ![p].pc = pc]

Answer(p, code) ==
    req' = [req EXCEPT ![p] = [IdleReq EXCEPT !.pc = "answered", !.answer = code]]

\* Mutant: the deferred rollback is a commit.
AbortKeepingWrites(p, code) == Commit(p) /\ Answer(p, code)

\* An error leaves WithTransaction, if one is open, through its rollback.
Abort(p, code) ==
    /\ Rollback(p)
    /\ Answer(p, code)
    /\ UNCHANGED tables

-----------------------------------------------------------------------------
(* Requests arrive. *)

Arrive(p, call) ==
    /\ At(p, "idle")
    /\ req' = [req EXCEPT ![p] = call]
    /\ UNCHANGED <<tables, tx>>

PostFeed(p) ==
    \E u \in Urls :
        Arrive(p, [IdleReq EXCEPT !.pc = "check", !.op = "register", !.url = u])

PostDiscover(p) ==
    \E s \in Sites :
        Arrive(p, [IdleReq EXCEPT !.pc = "lookup", !.op = "discover", !.site = s])

PostRefresh(p) ==
    \E f \in FeedIds :
        Arrive(p, [IdleReq EXCEPT !.pc = "load", !.op = "refresh", !.feed = f])

DeleteFeedByID(p) ==
    \E f \in FeedIds :
        Arrive(p, [IdleReq EXCEPT !.pc = "delete", !.op = "delete", !.feed = f])

Respond(p) ==
    /\ At(p, "answered")
    /\ req' = [req EXCEPT ![p] = IdleReq]
    /\ UNCHANGED <<tables, tx>>

-----------------------------------------------------------------------------
(* Reads before the transaction. *)

CheckURL(p) ==
    /\ At(p, "check")
    /\ IF CheckFeedExistsByURL(req[p].url)
         THEN Answer(p, "conflict")
         ELSE Goto(p, "fetch")
    /\ UNCHANGED <<tables, tx>>

websiteURLVariants(site) == {site, Twin[site]}

LookupWebsite(p) ==
    /\ At(p, "lookup")
    /\ IF GetFeedByWebsiteURL(websiteURLVariants(req[p].site))
         THEN Answer(p, "conflict")
         ELSE Goto(p, "discover")
    /\ UNCHANGED <<tables, tx>>

\* Mutant: the website URL itself is registered, not the candidate.
RegisterWebsite(p) ==
    /\ At(p, "discover")
    /\ req' = [req EXCEPT ![p].pc = "check", ![p].url = req[p].site]
    /\ UNCHANGED <<tables, tx>>

\* The first candidate goes on through RegisterFeed.
DiscoverFeedURLs(p) ==
    /\ At(p, "discover")
    /\ LET candidates == CandidatesOf[req[p].site] IN
         IF candidates = <<>>
           THEN Answer(p, "not_found")
           ELSE req' = [req EXCEPT ![p].pc = "check", ![p].url = Head(candidates)]
    /\ UNCHANGED <<tables, tx>>

\* Mutant: the transaction begins here, with a lock on the fetch status.
LoadAndLock(p) ==
    /\ At(p, "load")
    /\ Live(req[p].feed)
    /\ SaveFetchStatus(p, req[p].feed, status[req[p].feed])
    /\ req' = [req EXCEPT ![p].pc = "fetch", ![p].url = feeds[req[p].feed].url]
    /\ UNCHANGED tables

GetFeedByID(p) ==
    /\ At(p, "load")
    /\ LET f == req[p].feed IN
         IF Live(f)
           THEN req' = [req EXCEPT ![p].pc = "fetch", ![p].url = feeds[f].url]
           ELSE Answer(p, "not_found")
    /\ UNCHANGED <<tables, tx>>

\* An unconditional request.  The gateway names the feed and its articles with
\* the fresh id n; RefreshFeed overwrites both with the id it was called with.
FetchNewFeed(p, n) ==
    /\ At(p, "fetch")
    /\ LET d == upstream[req[p].url] IN
         req' = [req EXCEPT ![p].pc = "save",
                            ![p].doc = d,
                            ![p].todo = ItemsOf[d],
                            ![p].feed = IF req[p].op = "refresh" THEN @ ELSE n]
    /\ UNCHANGED <<tables, tx>>

-----------------------------------------------------------------------------
(* The transaction of RegisterFeed and RefreshFeed. *)

Wanted(p) == SiteOf[req[p].doc]

WriteFeed(p) ==
    /\ At(p, "save")
    /\ IF req[p].op = "refresh"
         THEN UpdateFeed(p, req[p].feed, req[p].url)
         ELSE SaveFeed(p, req[p].feed, req[p].url)
    /\ Goto(p, "site")
    /\ UNCHANGED tables

WriteSite(p) ==
    /\ At(p, "site")
    /\ IndexSite(p, Wanted(p))
    /\ Goto(p, "articles")
    /\ UNCHANGED tables

\* The feed was deleted while RefreshFeed was fetching it: no row to update.
UpdateNothing(p) ==
    /\ At(p, "save")
    /\ req[p].op = "refresh"
    /\ ~Live(req[p].feed)
    /\ Goto(p, "articles")
    /\ UNCHANGED <<tables, tx>>

WriteFeedConflicts(p) ==
    /\ \/ /\ At(p, "save")
          /\ req[p].op = "refresh" => Live(req[p].feed)
          /\ ~FeedBusy(p, req[p].feed, req[p].url)
          /\ UrlViolation(req[p].feed, req[p].url)
       \/ /\ At(p, "site")
          /\ ~SiteBusy(p, Wanted(p))
          /\ SiteViolation(req[p].feed, Wanted(p))
    /\ Abort(p, "conflict")

WriteArticle(p) ==
    /\ At(p, "articles")
    /\ \E e \in req[p].todo :
         /\ SaveArticle(p, req[p].feed, e)
         /\ req' = [req EXCEPT ![p].todo = @ \ {e}]
    /\ UNCHANGED tables

\* Mutant: the status is saved before the articles, and the commit follows it.
WriteStatusFirst(p) ==
    /\ At(p, "articles")
    /\ SaveFetchStatus(p, req[p].feed, Fetched(CursorOf(req[p].doc)))
    /\ Goto(p, "commit")
    /\ UNCHANGED tables

WriteStatus(p) ==
    /\ At(p, "articles")
    /\ req[p].todo = {}
    /\ SaveFetchStatus(p, req[p].feed, Fetched(CursorOf(req[p].doc)))
    /\ Goto(p, "commit")
    /\ UNCHANGED tables

\* RefreshFeed has updated nothing: there is no feed to save articles for.
FeedVanished(p) ==
    /\ At(p, "articles")
    /\ ForeignKeyViolation(p, req[p].feed)
    /\ Abort(p, "internal")

Success(p) == IF req[p].op \in {"register", "discover"} THEN "created" ELSE "ok"

CommitFeed(p) ==
    /\ At(p, "commit")
    /\ Commit(p)
    /\ Answer(p, Success(p))

\* Deleting nothing is not an error.
RemoveNothing(p) ==
    /\ At(p, "delete")
    /\ ~Live(req[p].feed)
    /\ Answer(p, "ok")
    /\ UNCHANGED <<tables, tx>>

LockRow(p) ==
    /\ At(p, "delete")
    /\ LockFeed(p, req[p].feed)
    /\ Goto(p, "cascade")
    /\ UNCHANGED tables

RemoveFeed(p) ==
    /\ At(p, "cascade")
    /\ DeleteFeed(p, req[p].feed)
    /\ Answer(p, "ok")

-----------------------------------------------------------------------------
(* Who waits for whom. *)

\* The next statement of request p cannot run before the end of q's transaction.
RequestWaits(p, q) ==
    /\ p # q
    /\ \/ /\ At(p, "save")
          /\ req[p].op = "refresh" => Live(req[p].feed)
          /\ HoldsFeed(q, req[p].feed) \/ HoldsUrl(q, req[p].url)
       \/ At(p, "site") /\ HoldsSite(q, Wanted(p))
       \/ At(p, "articles") /\ req[p].todo = {} /\ HoldsStatus(q, req[p].feed)
       \/ At(p, "delete") /\ Live(req[p].feed) /\ HoldsFeed(q, req[p].feed)
       \/ At(p, "cascade") /\ HoldsStatus(q, req[p].feed)

\* Each request of S waits for the next one: one circle of waits or several.
Circle(S) ==
    \E next \in [S -> S] :
        /\ \A p \in S : RequestWaits(p, next[p])
        /\ \A q \in S : \E p \in S : next[p] = q

\* SQLSTATE 40P01: the database ends a circle by failing one of its statements.
DeadlockVictim(p) ==
    /\ \E S \in SUBSET Requests : p \in S /\ Circle(S)
    /\ Abort(p, "internal")

-----------------------------------------------------------------------------
(* What goes wrong. *)

FetchFails(p) ==
    /\ req[p].pc \in {"discover", "fetch"}
    /\ Faults \cap {"upstream", "timeout"} # {}
    /\ Abort(p, "unavailable")

\* FetchNewFeed returns a nil feed; its caller dereferences it and the panic
\* ends in the Recover middleware.
FetchPanics(p) ==
    /\ At(p, "fetch")
    /\ "unsolicited304" \in Faults
    /\ Abort(p, "internal")

\* The request's context has ended, or the database is gone.
StatementFails(p) ==
    /\ req[p].pc \in Steps \ {"discover", "fetch"}
    /\ "timeout" \in Faults
    /\ Abort(p, "internal")

\* The database has committed when the context ends before its reply.
ReplyLost(p) ==
    /\ "timeout" \in Faults
    /\ \/ At(p, "commit") /\ Commit(p)
       \/ At(p, "cascade") /\ DeleteFeed(p, req[p].feed)
    /\ Answer(p, "internal")

ArriveNext(p) == PostFeed(p) \/ PostDiscover(p) \/ PostRefresh(p) \/ DeleteFeedByID(p)

ReadNext(p) == CheckURL(p) \/ LookupWebsite(p) \/ DiscoverFeedURLs(p) \/ GetFeedByID(p)

WriteNext(p) ==
    \/ WriteFeed(p) \/ WriteSite(p) \/ UpdateNothing(p) \/ WriteFeedConflicts(p)
    \/ WriteArticle(p) \/ WriteStatus(p) \/ FeedVanished(p) \/ CommitFeed(p)
    \/ RemoveNothing(p) \/ LockRow(p) \/ RemoveFeed(p) \/ DeadlockVictim(p)

FaultNext(p) == FetchFails(p) \/ FetchPanics(p) \/ StatementFails(p) \/ ReplyLost(p)

\* One step of request p; fresh are the ids uuid.New may return.
RequestNext(p, fresh) ==
    \/ ArriveNext(p) \/ ReadNext(p) \/ WriteNext(p) \/ FaultNext(p) \/ Respond(p)
    \/ \E n \in fresh : FetchNewFeed(p, n)

-----------------------------------------------------------------------------
(* The requests on their own, without the job and with no feed ever due. *)

interactorVars == <<tables, tx, upstream, req>>

InteractorTypeOK == StoreTypeOK /\ GatewayTypeOK /\ ReqTypeOK

InteractorInit == StoreInit /\ GatewayInit /\ ReqInit

RequestIds == LiveFeeds \cup {req[p].feed : p \in Requests}

InteractorNext ==
    \/ \E p \in Requests :
         RequestNext(p, FeedIds \ RequestIds) /\ UNCHANGED upstream
    \/ (\E u \in Urls : Publish(u)) /\ UNCHANGED <<tables, tx, req>>

InteractorSpec == InteractorInit /\ [][InteractorNext]_interactorVars

-----------------------------------------------------------------------------
(* What must hold of the requests. *)

\* Requests wait for each other in a circle only where each is a refresh that
\* moves its feed to a website another of them is moving its feed away from.  No
\* registration and no deletion is ever in one, and none begins at the rows, the
\* feed URLs or the fetch statuses.
SwapsOnly ==
    \A S \in SUBSET Requests : Circle(S) =>
        \A p \in S :
            /\ At(p, "site") /\ req[p].op = "refresh"
            /\ \E q \in S \ {p} : feeds[req[q].feed].site = Wanted(p)

\* What a client knows of its request: the operation it called and on what, or the
\* answer.
CalledOn(r) ==
    CASE r.op = "register" -> r.url
      [] r.op = "discover" -> r.site
      [] OTHER -> r.feed

CallOf(r) ==
    IF r.pc = "idle" THEN [what |-> "idle", on |-> None]
    ELSE IF r.pc = "answered" THEN [what |-> r.answer, on |-> None]
    ELSE [what |-> r.op, on |-> CalledOn(r)]

\* Every operation takes effect at one instant between its call and its answer,
\* the answer tells what happened, and the job only ever adds and reschedules.
Abstract == INSTANCE Catalog WITH call <- [p \in Requests |-> CallOf(req[p])]

CatalogSpec == Abstract!Spec
=============================================================================
