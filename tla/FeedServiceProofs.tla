------------------------- MODULE FeedServiceProofs -------------------------
(***************************************************************************)
(* IInv is an inductive invariant of FeedService, for every set of feeds,  *)
(* URLs, documents, requests and workers and every set of faults; the      *)
(* safety properties of the tables follow from it.                         *)
(*                                                                         *)
(* One lemma per action, or per group of actions that touch the same state *)
(* in the same way.  A step of a request that writes no table either       *)
(* leaves it outside a transaction (OutsideTx) or inside (InsideTx); a     *)
(* step of the job that writes no table is a JobReads; what writes tables  *)
(* (CommitStep, DeleteStep, StatusStep) is proved part by part.            *)
(***************************************************************************)
EXTENDS FeedService, TLAPS

\* A process is a request or a worker of the job, not both.
LEMMA ProcsDistinct ==
    /\ \A p \in Requests : p \in Procs /\ p \notin Workers
    /\ \A w \in Workers : w \in Procs /\ w \notin Requests
BY ProcsSplit

\* The empty transaction.
LEMMA NoTxType == NoTx \in TxRecord /\ NoTx.row = None /\ NoTx.stat = None /\ NoTx.id = None /\ NoTx.arts = {}
BY DEF NoTx, TxRecord

\* What must hold of the tables.
TablesOK == UniqueSubscriptions /\ Scheduled /\ CursorNeverAhead

\* A step that writes no table keeps what holds of the tables.
LEMMA TablesKept ==
  ASSUME TablesOK, UNCHANGED tables
  PROVE  TablesOK'
BY DEF TablesOK, UniqueSubscriptions, Scheduled, CursorNeverAhead, tables, LiveFeeds, Live

\* A step that leaves a request and the feed rows alone leaves its transaction alone.
LEMMA TxOfKept ==
  ASSUME NEW q \in Requests, RequestTxOf(q),
         req'[q] = req[q], tx'[q] = tx[q], feeds' = feeds
  PROVE  RequestTxOf(q)'
BY DEF RequestTxOf, OpenRequest, FetchedRow, At, Live

\* A request's step that leaves it outside a transaction.
LEMMA OutsideTx ==
  ASSUME IInv, NEW p \in Requests, NEW r \in ReqRecord,
         req' = [req EXCEPT ![p] = r],
         tx' = [tx EXCEPT ![p] = NoTx],
         UNCHANGED <<tables, upstream, jobVars>>,
         LocalsSet(r),
         r.pc \notin Holding,
         r.pc = "save" /\ r.op # "refresh" => r.feed \in Fresh,
         \/ r.feed = None
         \/ r.pc \in {"load", "delete"}
         \/ Live(r.feed)
         \/ r.feed \in Fresh
         \/ r.feed = req[p].feed /\ req[p].pc \notin {"load", "delete"}
  PROVE  IInv'
<1> USE ProcsDistinct DEF tables, jobVars
<1>1. /\ StoreTypeOK /\ GatewayTypeOK /\ ReqTypeOK /\ JobTypeOK
      /\ RequestLocals /\ WorkerLocals /\ RequestTx /\ WorkerTx
      /\ NewIds /\ PendingRows /\ SnapshotsCovered /\ TablesOK
  BY DEF IInv, TypeOK, TablesOK
<1>2. \A q \in Requests : req'[q] = IF q = p THEN r ELSE req[q]
  BY <1>1 DEF ReqTypeOK
<1>3. \A q \in Procs : tx'[q] = IF q = p THEN NoTx ELSE tx[q]
  BY <1>1 DEF StoreTypeOK
<1>4. TypeOK'
  <2>1. req' \in [Requests -> ReqRecord]
    BY <1>1 DEF ReqTypeOK
  <2>2. tx' \in [Procs -> TxRecord]
    BY <1>1, NoTxType DEF StoreTypeOK
  <2> QED
    BY <1>1, <2>1, <2>2 DEF TypeOK, StoreTypeOK, GatewayTypeOK, ReqTypeOK, JobTypeOK
<1>5. RequestLocals'
  BY <1>1, <1>2 DEF RequestLocals, LocalsSet
<1>6. WorkerLocals'
  BY <1>1 DEF WorkerLocals, WorkerAt
<1>7. RequestTx'
  <2> SUFFICES ASSUME NEW q \in Requests PROVE RequestTxOf(q)'
    BY DEF RequestTx
  <2>1. CASE q = p
    BY <1>2, <1>3, <2>1 DEF RequestTxOf, Holding, At
  <2>2. CASE q # p
    BY <1>1, <1>2, <1>3, <2>2, TxOfKept DEF RequestTx
  <2> QED
    BY <2>1, <2>2
<1>8. WorkerTx'
  <2> SUFFICES ASSUME NEW w \in Workers
               PROVE  /\ tx'[w] = tx[w]
                      /\ worker' = worker /\ feeds' = feeds
    BY <1>1 DEF WorkerTx, WorkerAt, Live
  <2> QED
    BY <1>3
<1>9. NewIds'
  <2>1. ASSUME NEW q \in Requests, q # p, Registering(q)
        PROVE  /\ ~Live(req[q].feed)
               /\ \A o \in Requests \ {q} :
                    req'[o].feed = req[q].feed => req'[o].pc \in {"load", "delete"}
    <3>1. /\ ~Live(req[q].feed)
          /\ req[q].feed \in FeedIds
          /\ req[p].feed = req[q].feed => req[p].pc \in {"load", "delete"}
      BY <1>1, <2>1 DEF NewIds, RequestLocals, LocalsSet, Registering
    <3>2. r.feed = req[q].feed => r.pc \in {"load", "delete"}
      BY <3>1, NoneIsNew DEF Fresh, Referenced, RequestIds
    <3> QED
      BY <1>1, <1>2, <2>1, <3>1, <3>2 DEF NewIds
  <2>2. ASSUME r.pc = "save", r.op # "refresh"
        PROVE  /\ ~Live(r.feed)
               /\ \A o \in Requests \ {p} : req[o].feed # r.feed
               /\ \A d \in batch : d.feed # r.feed
               /\ \A w \in Workers :
                    /\ worker[w].owner # r.feed
                    /\ ~WorkerAt(w, "idle") => worker[w].due.feed # r.feed
    BY <1>1, <2>2, NoneIsNoDueFeed
       DEF Fresh, Referenced, RequestIds, LiveFeeds, WorkerLocals, DueFeed
  <2> QED
    <3> SUFFICES ASSUME NEW q \in Requests, Registering(q)'
                 PROVE  /\ ~Live(req'[q].feed)
                        /\ \A o \in Requests \ {q} :
                             req'[o].feed = req'[q].feed => req'[o].pc \in {"load", "delete"}
                        /\ \A d \in batch : d.feed # req'[q].feed
                        /\ \A w \in Workers :
                             /\ worker[w].owner # req'[q].feed
                             /\ ~WorkerAt(w, "idle") => worker[w].due.feed # req'[q].feed
      BY <1>1 DEF NewIds, Live, WorkerAt
    <3>1. CASE q = p
      <4>1. r.pc = "save" /\ r.op # "refresh" /\ req'[q] = r
        BY <1>2, <3>1 DEF Registering, InTx, Holding
      <4> QED
        BY <1>2, <2>2, <3>1, <4>1
    <3>2. CASE q # p
      BY <1>1, <1>2, <2>1, <3>2 DEF NewIds, Registering
    <3> QED
      BY <3>1, <3>2
<1>10. PendingRows'
  BY <1>1, <1>3, NoTxType DEF PendingRows, LiveFeeds, Live
<1>11. SnapshotsCovered'
  BY <1>1 DEF SnapshotsCovered, Covered, Live, WorkerAt
<1>12. TablesOK'
  BY <1>1, TablesKept
<1> QED
  BY <1>4, <1>5, <1>6, <1>7, <1>8, <1>9, <1>10, <1>11, <1>12 DEF IInv, TablesOK

\* A request's step that leaves it inside a transaction.
LEMMA InsideTx ==
  ASSUME IInv, NEW p \in Requests, NEW r \in ReqRecord, NEW t \in TxRecord,
         req' = [req EXCEPT ![p] = r],
         tx' = [tx EXCEPT ![p] = t],
         UNCHANGED <<tables, upstream, jobVars>>,
         LocalsSet(r),
         req[p].pc \in InTx \/ (r.pc = "cascade" /\ Live(r.feed)),
         r.pc \in Holding,
         r.feed = req[p].feed,
         r.op = req[p].op,
         RequestTxOf(p)',
         \/ t.row = None
         \/ t.row = tx[p].row /\ t.id = tx[p].id
         \/ /\ \A g \in LiveFeeds \ {t.id} : ~Clash(feeds[g], t.row)
            /\ \A q \in Requests \ {p} :
                 tx[q].row # None => tx[q].id # t.id /\ ~Clash(tx[q].row, t.row)
  PROVE  IInv'
<1> USE ProcsDistinct DEF tables, jobVars
<1>1. /\ StoreTypeOK /\ GatewayTypeOK /\ ReqTypeOK /\ JobTypeOK
      /\ RequestLocals /\ WorkerLocals /\ RequestTx /\ WorkerTx
      /\ NewIds /\ PendingRows /\ SnapshotsCovered /\ TablesOK
  BY DEF IInv, TypeOK, TablesOK
<1>2. \A q \in Requests : req'[q] = IF q = p THEN r ELSE req[q]
  BY <1>1 DEF ReqTypeOK
<1>3. \A q \in Procs : tx'[q] = IF q = p THEN t ELSE tx[q]
  BY <1>1 DEF StoreTypeOK
<1>4. TypeOK'
  <2>1. req' \in [Requests -> ReqRecord]
    BY <1>1 DEF ReqTypeOK
  <2>2. tx' \in [Procs -> TxRecord]
    BY <1>1 DEF StoreTypeOK
  <2> QED
    BY <1>1, <2>1, <2>2 DEF TypeOK, StoreTypeOK, GatewayTypeOK, ReqTypeOK, JobTypeOK
<1>5. RequestLocals'
  BY <1>1, <1>2 DEF RequestLocals, LocalsSet
<1>6. WorkerLocals'
  BY <1>1 DEF WorkerLocals, WorkerAt
<1>7. RequestTx'
  <2> SUFFICES ASSUME NEW q \in Requests PROVE RequestTxOf(q)'
    BY DEF RequestTx
  <2>1. CASE q = p
    BY <2>1
  <2>2. CASE q # p
    BY <1>1, <1>2, <1>3, <2>2, TxOfKept DEF RequestTx
  <2> QED
    BY <2>1, <2>2
<1>8. WorkerTx'
  <2> SUFFICES ASSUME NEW w \in Workers
               PROVE  tx'[w] = tx[w] /\ worker' = worker /\ feeds' = feeds
    BY <1>1 DEF WorkerTx, WorkerAt, Live
  <2> QED
    BY <1>3
<1>9. NewIds'
  <2>1. ASSUME NEW q \in Requests, Registering(q)'
        PROVE  /\ Registering(q)
               /\ req'[q].feed = req[q].feed
               /\ q # p => req[p].feed # req[q].feed
    <3>1. req'[q].feed = req[q].feed /\ req'[q].op = req[q].op
      BY <1>2
    <3>2. Registering(q)
      BY <1>2, <2>1, <3>1 DEF Registering, InTx
    <3>3. CASE req[p].pc \in InTx
      BY <1>1, <1>2, <3>1, <3>2, <3>3 DEF NewIds, InTx
    <3>4. CASE Live(r.feed)
      BY <1>1, <1>2, <3>1, <3>2, <3>4 DEF NewIds
    <3> QED
      BY <3>1, <3>2, <3>3, <3>4
  <2> QED
    BY <1>1, <1>2, <2>1 DEF NewIds, Live, WorkerAt, InTx
<1>10. PendingRows'
  <2>1. ASSUME NEW q \in Requests \ {p}, tx[q].row # None, t.row # None
        PROVE  tx[q].id # t.id /\ ~Clash(tx[q].row, t.row) /\ ~Clash(t.row, tx[q].row)
    BY <1>1, <2>1 DEF PendingRows, Clash
  <2>2. t.row # None => \A g \in LiveFeeds \ {t.id} : ~Clash(feeds[g], t.row)
    BY <1>1 DEF PendingRows
  <2> QED
    BY <1>1, <1>3, <2>1, <2>2 DEF PendingRows, LiveFeeds, Live
<1>11. SnapshotsCovered'
  BY <1>1 DEF SnapshotsCovered, Covered, Live, WorkerAt
<1>12. TablesOK'
  BY <1>1, TablesKept
<1> QED
  BY <1>4, <1>5, <1>6, <1>7, <1>8, <1>9, <1>10, <1>11, <1>12 DEF IInv, TablesOK

\* The locals of a request that has been answered.
LEMMA AnsweredRecord ==
  ASSUME NEW code \in Answers
  PROVE  /\ IdleReq \in ReqRecord
         /\ [IdleReq EXCEPT !.pc = "answered", !.answer = code] \in ReqRecord
         /\ [IdleReq EXCEPT !.pc = "answered", !.answer = code].pc = "answered"
         /\ [IdleReq EXCEPT !.pc = "answered", !.answer = code].feed = None
         /\ IdleReq.pc = "idle" /\ IdleReq.feed = None
BY DEF IdleReq, ReqRecord

\* A request outside its transaction holds no locks: leaving tx alone is the same
\* as emptying it.
LEMMA NoTxKept ==
  ASSUME IInv, NEW p \in Requests, req[p].pc \notin Holding, UNCHANGED tx
  PROVE  tx' = [tx EXCEPT ![p] = NoTx]
<1>1. tx \in [Procs -> TxRecord] /\ tx[p] = NoTx
  BY DEF IInv, TypeOK, StoreTypeOK, RequestTx, RequestTxOf
<1> QED
  BY <1>1

\* A request fails: its transaction is rolled back and it answers an error.
LEMMA AbortStep ==
  ASSUME IInv, NEW p \in Requests, NEW code \in Answers, Abort(p, code),
         UNCHANGED <<upstream, jobVars>>
  PROVE  IInv'
<1> DEFINE r == [IdleReq EXCEPT !.pc = "answered", !.answer = code]
<1>1. r \in ReqRecord /\ r.pc = "answered" /\ r.feed = None
  BY AnsweredRecord
<1>2. LocalsSet(r)
  BY <1>1 DEF LocalsSet, Steps, InTx
<1>3. /\ req' = [req EXCEPT ![p] = r]
      /\ tx' = [tx EXCEPT ![p] = NoTx]
      /\ UNCHANGED tables
  BY DEF Abort, Rollback, Answer
<1> HIDE DEF r
<1> QED
  BY <1>1, <1>2, <1>3, OutsideTx DEF Holding

\* A request answers without having begun a transaction.
LEMMA AnswerStep ==
  ASSUME IInv, NEW p \in Requests, NEW code \in Answers, Answer(p, code),
         req[p].pc \notin Holding,
         UNCHANGED <<tables, tx, upstream, jobVars>>
  PROVE  IInv'
BY NoTxKept, AbortStep DEF Abort, Rollback

\* Every failing step of a request is an abort.
LEMMA FaultSteps ==
  ASSUME IInv, NEW p \in Requests, UNCHANGED <<upstream, jobVars>>,
         FetchFails(p) \/ FetchPanics(p) \/ StatementFails(p)
         \/ WriteFeedConflicts(p) \/ FeedVanished(p) \/ DeadlockVictim(p)
  PROVE  IInv'
BY AbortStep DEF FetchFails, FetchPanics, StatementFails, WriteFeedConflicts, FeedVanished,
                 DeadlockVictim, Answers

\* What the invariant says of the locals of one request.
LEMMA LocalsOf ==
  ASSUME IInv, NEW p \in Requests
  PROVE  /\ req \in [Requests -> ReqRecord]
         /\ req[p] \in ReqRecord
         /\ LocalsSet(req[p])
BY DEF IInv, TypeOK, ReqTypeOK, RequestLocals

\* A request arrives with the locals of its operation.
LEMMA ArriveRecord ==
  ASSUME NEW p \in Requests, ArriveNext(p)
  PROVE  /\ req[p].pc = "idle" /\ UNCHANGED <<tables, tx>>
         /\ \E r :
              /\ req' = [req EXCEPT ![p] = r]
              /\ \/ \E u \in Urls :
                      r = [IdleReq EXCEPT !.pc = "check", !.op = "register", !.url = u]
                 \/ \E s \in Sites :
                      r = [IdleReq EXCEPT !.pc = "lookup", !.op = "discover", !.site = s]
                 \/ \E f \in FeedIds :
                      r = [IdleReq EXCEPT !.pc = "load", !.op = "refresh", !.feed = f]
                 \/ \E f \in FeedIds :
                      r = [IdleReq EXCEPT !.pc = "delete", !.op = "delete", !.feed = f]
<1>1. CASE PostFeed(p)
  BY <1>1 DEF PostFeed, Arrive, At
<1>2. CASE PostDiscover(p)
  BY <1>2 DEF PostDiscover, Arrive, At
<1>3. CASE PostRefresh(p)
  BY <1>3 DEF PostRefresh, Arrive, At
<1>4. CASE DeleteFeedByID(p)
  BY <1>4 DEF DeleteFeedByID, Arrive, At
<1> QED
  BY <1>1, <1>2, <1>3, <1>4 DEF ArriveNext

\* A request arrives.
LEMMA ArriveStep ==
  ASSUME IInv, NEW p \in Requests, ArriveNext(p), UNCHANGED <<upstream, jobVars>>
  PROVE  IInv'
<1>1. tx' = [tx EXCEPT ![p] = NoTx] /\ UNCHANGED tables
  BY ArriveRecord, NoTxKept DEF Holding
<1>2. PICK r :
        /\ req' = [req EXCEPT ![p] = r]
        /\ \/ \E u \in Urls :
                r = [IdleReq EXCEPT !.pc = "check", !.op = "register", !.url = u]
           \/ \E s \in Sites :
                r = [IdleReq EXCEPT !.pc = "lookup", !.op = "discover", !.site = s]
           \/ \E f \in FeedIds :
                r = [IdleReq EXCEPT !.pc = "load", !.op = "refresh", !.feed = f]
           \/ \E f \in FeedIds :
                r = [IdleReq EXCEPT !.pc = "delete", !.op = "delete", !.feed = f]
  BY ArriveRecord
<1>3. r \in ReqRecord
  BY <1>2 DEF IdleReq, ReqRecord, Steps, Ops
<1>4. /\ LocalsSet(r)
      /\ r.pc \notin Holding /\ r.pc # "save"
      /\ r.feed = None \/ r.pc \in {"load", "delete"}
  BY <1>2, ZenonT(60) DEF IdleReq, LocalsSet, Ops, InTx, Holding
<1> QED
  BY <1>1, <1>2, <1>3, <1>4, OutsideTx

\* A request reads the tables, or the website it is asked about.
LEMMA ReadSteps ==
  ASSUME IInv, NEW p \in Requests, ReadNext(p), UNCHANGED <<upstream, jobVars>>
  PROVE  IInv'
<1>0. req[p] \in ReqRecord /\ LocalsSet(req[p])
  BY LocalsOf
<1>1. /\ req[p].pc \in {"check", "lookup", "discover", "load"}
      /\ UNCHANGED <<tables, tx>>
  BY DEF ReadNext, CheckURL, LookupWebsite, DiscoverFeedURLs, GetFeedByID, At
<1>2. tx' = [tx EXCEPT ![p] = NoTx]
  BY <1>1, NoTxKept DEF Holding
<1>3. CASE \E code \in Answers : Answer(p, code)
  BY <1>1, <1>3, AnswerStep DEF Holding
<1>4. ASSUME NEW r \in ReqRecord, req' = [req EXCEPT ![p] = r], LocalsSet(r),
             r.pc \in {"fetch", "discover", "check"}, r.feed = req[p].feed,
             r.feed = None \/ Live(r.feed) \/ req[p].pc # "load"
      PROVE  IInv'
  BY <1>1, <1>2, <1>4, OutsideTx DEF Holding
<1>5. ASSUME NEW r, req' = [req EXCEPT ![p] = r],
             \/ r = [req[p] EXCEPT !.pc = "fetch"] /\ At(p, "check")
             \/ r = [req[p] EXCEPT !.pc = "discover"] /\ At(p, "lookup")
             \/ \E u \in Urls : /\ r = [req[p] EXCEPT !.pc = "check", !.url = u]
                                /\ At(p, "discover")
             \/ \E u \in Urls : /\ r = [req[p] EXCEPT !.pc = "fetch", !.url = u]
                                /\ At(p, "load")
                                /\ Live(req[p].feed)
      PROVE  IInv'
  <2>1. PICK pc \in {"fetch", "discover", "check"}, u \in Urls \cup {None} :
          /\ r = [req[p] EXCEPT !.pc = pc, !.url = u]
          /\ pc # "discover" => u \in Urls
          /\ pc = "discover" => At(p, "lookup")
          /\ pc = "check" => At(p, "discover")
          /\ pc = "fetch" /\ ~At(p, "check") => At(p, "load")
          /\ At(p, "load") => Live(req[p].feed)
    <3>1. req[p].url \in Urls \cup {None}
      BY <1>0 DEF ReqRecord
    <3>2. \A pc : [req[p] EXCEPT !.pc = pc] = [req[p] EXCEPT !.pc = pc, !.url = req[p].url]
      BY <1>0 DEF ReqRecord
    <3> QED
      BY <1>0, <1>5, <3>1, <3>2 DEF At, LocalsSet
  <2>2. /\ r \in ReqRecord
        /\ r.pc = pc /\ r.url = u /\ r.op = req[p].op
        /\ r.feed = req[p].feed /\ r.site = req[p].site
    BY <1>0, <2>1 DEF ReqRecord, Steps
  <2>3. LocalsSet(r)
    BY <1>0, <1>1, <2>1, <2>2 DEF LocalsSet, Steps, InTx, At
  <2>4. Live(r.feed) \/ req[p].pc # "load"
    BY <2>2, <1>5 DEF At
  <2> QED
    BY <1>4, <1>5, <2>1, <2>2, <2>3, <2>4
<1>6. CASE CheckURL(p)
  BY <1>3, <1>5, <1>6 DEF CheckURL, Goto, Answers
<1>7. CASE LookupWebsite(p)
  BY <1>3, <1>5, <1>7 DEF LookupWebsite, Goto, Answers
<1>8. CASE DiscoverFeedURLs(p)
  <2>1. req[p].site \in Sites
    BY <1>0, <1>8 DEF LocalsSet, DiscoverFeedURLs, At
  <2>2. CandidatesOf[req[p].site] \in Seq(Urls)
    BY <2>1, GatewayAssumption
  <2>3. CandidatesOf[req[p].site] # <<>> => Head(CandidatesOf[req[p].site]) \in Urls
    BY <2>2
  <2> QED
    BY <1>3, <1>5, <1>8, <2>3, ZenonT(60) DEF DiscoverFeedURLs, Answers
<1>9. CASE GetFeedByID(p)
  <2>1. req[p].feed \in FeedIds
    BY <1>0, <1>9 DEF LocalsSet, GetFeedByID, At
  <2>2. Live(req[p].feed) => feeds[req[p].feed].url \in Urls
    BY <2>1 DEF IInv, TypeOK, StoreTypeOK, Live, FeedRow
  <2> QED
    BY <1>3, <1>5, <1>9, <2>2 DEF GetFeedByID, Answers
<1> QED
  BY <1>6, <1>7, <1>8, <1>9 DEF ReadNext

\* The answer leaves and the goroutine is free.
LEMMA RespondStep ==
  ASSUME IInv, NEW p \in Requests, Respond(p), UNCHANGED <<upstream, jobVars>>
  PROVE  IInv'
<1>1. IdleReq \in ReqRecord /\ IdleReq.pc = "idle" /\ IdleReq.feed = None /\ LocalsSet(IdleReq)
  BY DEF IdleReq, ReqRecord, LocalsSet, Steps, InTx
<1>2. tx' = [tx EXCEPT ![p] = NoTx]
  BY NoTxKept DEF Respond, At, Holding
<1> QED
  BY <1>1, <1>2, OutsideTx DEF Respond, Holding

\* FetchNewFeed returns a document, and the fresh id its feed would get.
LEMMA FetchStep ==
  ASSUME IInv, NEW p \in Requests, NEW n \in Fresh, FetchNewFeed(p, n),
         UNCHANGED <<upstream, jobVars>>
  PROVE  IInv'
<1> DEFINE d == upstream[req[p].url]
           f == IF req[p].op = "refresh" THEN req[p].feed ELSE n
           r == [req[p] EXCEPT !.pc = "save", !.doc = d, !.todo = ItemsOf[d], !.feed = f]
<1>0. req[p] \in ReqRecord /\ LocalsSet(req[p]) /\ req[p].pc = "fetch"
  BY LocalsOf DEF FetchNewFeed, At
<1>1. d \in Docs /\ ItemsOf[d] \in SUBSET Exts
  BY <1>0, GatewayAssumption DEF IInv, TypeOK, GatewayTypeOK, LocalsSet
<1>2. f \in FeedIds
  BY <1>0 DEF LocalsSet, Fresh
<1>3. req' = [req EXCEPT ![p] = r] /\ UNCHANGED <<tables, tx>>
  <2>1. r = [req[p] EXCEPT !.pc = "save", !.doc = d, !.todo = ItemsOf[d],
                           !.feed = IF req[p].op = "refresh" THEN @ ELSE n]
    BY <1>0 DEF ReqRecord
  <2> QED
    BY <2>1 DEF FetchNewFeed
<1> HIDE DEF d, f
<1>4. /\ r \in ReqRecord
      /\ r.pc = "save" /\ r.feed = f /\ r.op = req[p].op
      /\ LocalsSet(r)
  <2>1. r \in ReqRecord
    BY <1>0, <1>1, <1>2 DEF ReqRecord, Steps
  <2>2. /\ r.pc = "save" /\ r.feed = f /\ r.op = req[p].op
        /\ r.url = req[p].url /\ r.doc = d /\ r.todo = ItemsOf[d]
    BY <1>0, <1>1, <1>2 DEF ReqRecord, Steps
  <2> QED
    BY <1>0, <1>1, <1>2, <2>1, <2>2 DEF LocalsSet, Steps, InTx
<1>5. tx' = [tx EXCEPT ![p] = NoTx]
  BY <1>0, <1>3, NoTxKept DEF Holding
<1>6. r.op # "refresh" => r.feed \in Fresh
  BY <1>4 DEF f
<1>7. r.feed \in Fresh \/ r.feed = req[p].feed
  BY <1>4 DEF f
<1> HIDE DEF r
<1> QED
  BY <1>0, <1>3, <1>4, <1>5, <1>6, <1>7, OutsideTx DEF Holding

\* The facts about one request inside its transaction.
LEMMA TxOf ==
  ASSUME IInv, NEW p \in Requests
  PROVE  /\ p \in Procs
         /\ tx \in [Procs -> TxRecord]
         /\ tx[p] \in TxRecord
         /\ RequestTxOf(p)
BY ProcsDistinct DEF IInv, TypeOK, StoreTypeOK, RequestTx

\* The feed row a request is about to write is a row.
LEMMA FetchedRowType ==
  ASSUME IInv, NEW p \in Requests, req[p].pc \in InTx
  PROVE  FetchedRow(p) \in FeedRow /\ FetchedRow(p) # None
<1>1. req[p].url \in Urls /\ req[p].doc \in Docs
  BY LocalsOf DEF LocalsSet
<1> QED
  BY <1>1, GatewayAssumption, NoneIsNew DEF FetchedRow, RowOf, FeedRow

\* A half-written row clashes on the feed URL only.
LEMMA HalfClash ==
  ASSUME NEW row, NEW u, ~(row.url = u)
  PROVE  ~Clash(row, [url |-> u, site |-> None])
BY DEF Clash

\* A request inserts or updates its feed row, as far as the index of feed_url.
LEMMA WriteFeedStep ==
  ASSUME IInv, NEW p \in Requests, WriteFeed(p), UNCHANGED <<upstream, jobVars>>
  PROVE  IInv'
<1> DEFINE r == [req[p] EXCEPT !.pc = "site"]
           f == req[p].feed
           row == [url |-> req[p].url, site |-> None]
           t == [NoTx EXCEPT !.id = f, !.row = row]
<1>0. req[p] \in ReqRecord /\ LocalsSet(req[p]) /\ req[p].pc = "save"
  BY LocalsOf DEF WriteFeed, At
<1>1. row \in HalfRow /\ row # None /\ f \in FeedIds
  BY <1>0, NoneIsNew DEF LocalsSet, InTx, HalfRow
<1>2. req' = [req EXCEPT ![p] = r] /\ UNCHANGED tables
  BY DEF WriteFeed, Goto
<1>3. /\ r \in ReqRecord /\ r.pc = "site" /\ r.feed = f /\ r.op = req[p].op
      /\ r.url = req[p].url /\ r.doc = req[p].doc /\ r.todo = req[p].todo
  BY <1>0 DEF ReqRecord, Steps
<1>4. LocalsSet(r)
  BY <1>0, <1>3 DEF LocalsSet, Steps, InTx
<1>5. tx[p] = NoTx /\ tx \in [Procs -> TxRecord] /\ p \in Procs
  BY <1>0, TxOf DEF RequestTxOf, Holding
<1>6. req'[p] = r
  BY <1>2, <1>3, LocalsOf
<1>7. /\ tx' = [tx EXCEPT ![p].id = f, ![p].row = row]
      /\ ~FeedBusy(p, f, req[p].url) /\ ~UrlViolation(f, req[p].url)
      /\ r.op = "refresh" => Live(f)
  BY <1>3 DEF WriteFeed, UpdateFeed, SaveFeed
<1>8. t \in TxRecord /\ t.id = f /\ t.row = row /\ tx' = [tx EXCEPT ![p] = t]
  BY <1>1, <1>5, <1>7 DEF NoTx, TxRecord
<1>9. \A g \in LiveFeeds \ {f} : ~Clash(feeds[g], row)
  BY <1>7, HalfClash DEF UrlViolation
<1>10. ASSUME NEW q \in Requests \ {p}, tx[q].row # None
       PROVE  tx[q].id # f /\ ~Clash(tx[q].row, row)
  BY <1>7, <1>10, HalfClash, ProcsDistinct DEF FeedBusy, Others, HoldsFeed, HoldsUrl, Versions
<1>11. tx'[p] = t
  BY <1>5, <1>8
<1>12. RequestTxOf(p)'
  <2>1. req'[p].pc = "site" /\ req'[p].feed = f /\ req'[p].url = req[p].url
    BY <1>3, <1>6
  <2>2. req'[p].op = "refresh" => Live(f)'
    BY <1>2, <1>3, <1>6, <1>7 DEF Live, tables
  <2>3. /\ ~At(p, "articles")' /\ ~At(p, "commit")' /\ ~At(p, "cascade")'
        /\ req'[p].pc \in Holding
    BY <2>1 DEF At, Holding
  <2> QED
    BY <2>1, <2>2, <2>3, <1>11 DEF RequestTxOf
<1> HIDE DEF t, row, f, r
<1> QED
  BY <1>0, <1>2, <1>3, <1>4, <1>8, <1>9, <1>10, <1>12, InsideTx DEF InTx, Holding, f

\* The row enters the index of website_url and is complete.
LEMMA WriteSiteStep ==
  ASSUME IInv, NEW p \in Requests, WriteSite(p), UNCHANGED <<upstream, jobVars>>
  PROVE  IInv'
<1> DEFINE r == [req[p] EXCEPT !.pc = "articles"]
           f == req[p].feed
           s == Wanted(p)
           row == FetchedRow(p)
           t == [NoTx EXCEPT !.id = f, !.row = row]
<1>0. req[p] \in ReqRecord /\ LocalsSet(req[p]) /\ req[p].pc = "site"
  BY LocalsOf DEF WriteSite, At
<1>1. row \in FeedRow /\ row # None /\ f \in FeedIds /\ row.site = s /\ row.url = req[p].url
  BY <1>0, FetchedRowType DEF LocalsSet, InTx, FetchedRow, RowOf, Wanted
<1>2. req' = [req EXCEPT ![p] = r] /\ UNCHANGED tables
  BY DEF WriteSite, Goto
<1>3. /\ r \in ReqRecord /\ r.pc = "articles" /\ r.feed = f /\ r.op = req[p].op
      /\ r.url = req[p].url /\ r.doc = req[p].doc /\ r.todo = req[p].todo
  BY <1>0 DEF ReqRecord, Steps
<1>4. LocalsSet(r)
  BY <1>0, <1>3 DEF LocalsSet, Steps, InTx
<1>5. /\ tx \in [Procs -> TxRecord] /\ p \in Procs
      /\ tx[p] = [NoTx EXCEPT !.id = f, !.row = [url |-> req[p].url, site |-> None]]
      /\ req[p].op = "refresh" => Live(f)
  BY <1>0, TxOf DEF RequestTxOf, At
<1>6. req'[p] = r
  BY <1>2, <1>3, LocalsOf
<1>7. FetchedRow(p)' = row
  BY <1>2, <1>3, <1>6 DEF FetchedRow
<1>8. tx[p].id = f /\ tx[p].row # None /\ tx[p].row.url = req[p].url
  BY <1>5, NoneIsNew, <1>0 DEF NoTx, HalfRow, LocalsSet, InTx
<1>9. /\ tx' = [tx EXCEPT ![p].row.site = s]
      /\ ~SiteBusy(p, s) /\ ~SiteViolation(f, s)
  BY <1>8 DEF WriteSite, IndexSite
<1>10. /\ t \in TxRecord /\ t.id = f /\ t.row = row /\ t.arts = {} /\ t.stat = None
       /\ tx' = [tx EXCEPT ![p] = t]
  <2>1. t \in TxRecord /\ t.id = f /\ t.row = row /\ t.arts = {} /\ t.stat = None
    BY <1>1 DEF NoTx, TxRecord
  <2>2. [tx[p] EXCEPT !.row.site = s] = t
    <3>1. [tx[p] EXCEPT !.row.site = s] = [tx[p] EXCEPT !.row = [tx[p].row EXCEPT !.site = s]]
      OBVIOUS
    <3>2. tx[p].row = [url |-> req[p].url, site |-> None]
      BY <1>5 DEF NoTx
    <3>3. [tx[p].row EXCEPT !.site = s] = row
      BY <3>2 DEF FetchedRow, RowOf, Wanted
    <3>4. [tx[p] EXCEPT !.row = row] = t
      BY <1>5 DEF NoTx
    <3> QED
      BY <3>1, <3>3, <3>4
  <2>3. tx' = [tx EXCEPT ![p] = [tx[p] EXCEPT !.row.site = s]]
    BY <1>5, <1>9
  <2> QED
    BY <2>1, <2>2, <2>3
<1>11. /\ \A g \in LiveFeeds \ {f} : ~Clash(feeds[g], tx[p].row)
       /\ \A q \in Requests \ {p} :
            tx[q].row # None => tx[q].id # f /\ ~Clash(tx[q].row, tx[p].row)
  BY <1>8 DEF IInv, PendingRows
<1>12. \A g \in LiveFeeds \ {f} : ~Clash(feeds[g], row)
  BY <1>1, <1>8, <1>9, <1>11 DEF Clash, SiteViolation
<1>13. ASSUME NEW q \in Requests \ {p}, tx[q].row # None
       PROVE  tx[q].id # f /\ ~Clash(tx[q].row, row)
  BY <1>1, <1>8, <1>9, <1>11, <1>13, ProcsDistinct DEF Clash, SiteBusy, Others, HoldsSite, Versions
<1>14. RequestTxOf(p)'
  <2>1. {f} \X (ItemsOf[r.doc] \ r.todo) = {}
    BY <1>0, <1>3 DEF LocalsSet
  <2>2. tx'[p] = t
    BY <1>5, <1>10
  <2> HIDE DEF t, row, f, r
  <2> QED
    BY <1>2, <1>3, <1>5, <1>6, <1>7, <1>10, <2>1, <2>2
       DEF RequestTxOf, OpenRequest, Holding, At, Live, tables
<1> HIDE DEF t, row, f, r
<1> QED
  BY <1>0, <1>2, <1>3, <1>4, <1>10, <1>12, <1>13, <1>14, InsideTx DEF InTx, Holding, f

\* An update that finds no row leaves the transaction without a write.
LEMMA UpdateNothingStep ==
  ASSUME IInv, NEW p \in Requests, UpdateNothing(p), UNCHANGED <<upstream, jobVars>>
  PROVE  IInv'
<1> DEFINE r == [req[p] EXCEPT !.pc = "articles"]
<1>0. req[p] \in ReqRecord /\ LocalsSet(req[p]) /\ req[p].pc = "save"
  BY LocalsOf DEF UpdateNothing, At
<1>1. req' = [req EXCEPT ![p] = r] /\ UNCHANGED <<tables, tx>>
  BY DEF UpdateNothing, Goto
<1>2. /\ r \in ReqRecord /\ r.pc = "articles" /\ r.feed = req[p].feed /\ r.op = req[p].op
      /\ r.url = req[p].url /\ r.doc = req[p].doc /\ r.todo = req[p].todo
  BY <1>0 DEF ReqRecord, Steps
<1>3. LocalsSet(r)
  BY <1>0, <1>2 DEF LocalsSet, Steps, InTx
<1>4. tx[p] = NoTx /\ tx' = [tx EXCEPT ![p] = NoTx]
  BY <1>0, <1>1, TxOf DEF RequestTxOf, Holding
<1>5. req'[p] = r
  BY <1>1, <1>2, LocalsOf
<1>6. RequestTxOf(p)'
  BY <1>1, <1>2, <1>4, <1>5 DEF UpdateNothing, RequestTxOf, Holding, At, Live, tables
<1> HIDE DEF r
<1> QED
  BY <1>0, <1>1, <1>2, <1>3, <1>4, <1>6, InsideTx, NoTxType DEF InTx, Holding

\* A deletion locks its row; the row clashes with nothing it did not clash with.
LEMMA LockRowStep ==
  ASSUME IInv, NEW p \in Requests, LockRow(p), UNCHANGED <<upstream, jobVars>>
  PROVE  IInv'
<1> DEFINE r == [req[p] EXCEPT !.pc = "cascade"]
           f == req[p].feed
           t == [NoTx EXCEPT !.id = f, !.row = feeds[f]]
<1>0. req[p] \in ReqRecord /\ LocalsSet(req[p]) /\ req[p].pc = "delete"
  BY LocalsOf DEF LockRow, At
<1>1. req' = [req EXCEPT ![p] = r] /\ UNCHANGED tables
  BY DEF LockRow, Goto
<1>2. /\ r \in ReqRecord /\ r.pc = "cascade" /\ r.feed = f /\ r.op = req[p].op
  BY <1>0 DEF ReqRecord, Steps
<1>3. LocalsSet(r)
  BY <1>0, <1>2 DEF LocalsSet, Steps, InTx
<1>4. tx[p] = NoTx /\ tx \in [Procs -> TxRecord] /\ p \in Procs
  BY <1>0, TxOf DEF RequestTxOf, Holding
<1>5. /\ tx' = [tx EXCEPT ![p].id = f, ![p].row = feeds[f]]
      /\ Live(f) /\ f \in FeedIds
      /\ \A q \in Procs \ {p} : ~HoldsFeed(q, f)
  BY <1>0 DEF LockRow, LockFeed, Others, LocalsSet
<1>6. feeds[f] \in FeedRow /\ feeds[f] # None
  BY <1>5 DEF IInv, TypeOK, StoreTypeOK, Live
<1>7. t \in TxRecord /\ t.id = f /\ t.row = feeds[f] /\ tx' = [tx EXCEPT ![p] = t]
  BY <1>4, <1>5, <1>6 DEF NoTx, TxRecord
<1>8. req'[p] = r /\ tx'[p] = t
  BY <1>1, <1>2, <1>4, <1>7, LocalsOf
<1>9. \A g \in LiveFeeds \ {f} : ~Clash(feeds[g], feeds[f])
  BY <1>5 DEF IInv, UniqueSubscriptions, LiveFeeds, Clash
<1>10. ASSUME NEW q \in Requests \ {p}, tx[q].row # None
       PROVE  tx[q].id # f /\ ~Clash(tx[q].row, feeds[f])
  <2>1. tx[q].id # f
    BY <1>5, <1>10, ProcsDistinct DEF HoldsFeed
  <2>2. ~Clash(feeds[f], tx[q].row)
    BY <1>5, <1>10, <2>1 DEF IInv, PendingRows, LiveFeeds
  <2> QED
    BY <2>1, <2>2 DEF Clash
<1>11. RequestTxOf(p)'
  BY <1>1, <1>2, <1>5, <1>8 DEF RequestTxOf, Holding, At, Live, tables
<1>12. /\ \A g \in LiveFeeds \ {t.id} : ~Clash(feeds[g], t.row)
       /\ \A q \in Requests \ {p} :
            tx[q].row # None => tx[q].id # t.id /\ ~Clash(tx[q].row, t.row)
  BY <1>7, <1>9, <1>10
<1>13. r.pc \in Holding /\ r.feed = req[p].feed /\ Live(r.feed)
  BY <1>2, <1>5 DEF Holding
<1> HIDE DEF t, f, r
<1> QED
  BY <1>1, <1>2, <1>3, <1>7, <1>11, <1>12, <1>13, InsideTx

\* A request inserts one article: its transaction holds one more item of its document.
LEMMA WriteArticleStep ==
  ASSUME IInv, NEW p \in Requests, WriteArticle(p), UNCHANGED <<upstream, jobVars>>
  PROVE  IInv'
<1> DEFINE f == req[p].feed
<1>0. req[p] \in ReqRecord /\ LocalsSet(req[p]) /\ req[p].pc = "articles"
  BY LocalsOf DEF WriteArticle, At
<1>1. PICK e \in req[p].todo :
        /\ FeedVisible(p, f)
        /\ tx' = [tx EXCEPT ![p].id = f, ![p].arts = @ \cup {<<f, e>>}]
        /\ req' = [req EXCEPT ![p].todo = @ \ {e}]
        /\ UNCHANGED tables
  BY DEF WriteArticle, SaveArticle
<1>2. tx \in [Procs -> TxRecord] /\ tx[p] \in TxRecord /\ p \in Procs
  BY TxOf
<1>3. f \in FeedIds /\ e \in Exts
  BY <1>0 DEF LocalsSet, InTx, ReqRecord
<1>4. OpenRequest(p) /\ tx[p].stat = None
  BY <1>0, <1>1, NoTxType, NoneIsNew, <1>3, TxOf DEF RequestTxOf, FeedVisible, At
<1> DEFINE r == [req[p] EXCEPT !.todo = @ \ {e}]
           t == [tx[p] EXCEPT !.id = f, !.arts = @ \cup {<<f, e>>}]
<1>5. /\ r \in ReqRecord /\ r.pc = "articles" /\ r.feed = f /\ r.op = req[p].op
      /\ r.url = req[p].url /\ r.doc = req[p].doc /\ r.todo = req[p].todo \ {e}
  BY <1>0 DEF ReqRecord
<1>6. /\ t \in TxRecord /\ t.id = f /\ t.row = tx[p].row /\ t.stat = None
      /\ t.arts = tx[p].arts \cup {<<f, e>>}
  <2>1. tx[p].arts \cup {<<f, e>>} \in SUBSET (FeedIds \X Exts)
    BY <1>2, <1>3 DEF TxRecord
  <2> QED
    BY <1>2, <1>3, <1>4, <2>1 DEF TxRecord
<1>7. req' = [req EXCEPT ![p] = r] /\ tx' = [tx EXCEPT ![p] = t]
  BY <1>1, <1>2, LocalsOf
<1> HIDE DEF r, t
<1>8. LocalsSet(r)
  BY <1>0, <1>5 DEF LocalsSet, Steps, InTx
<1>9. req'[p] = r /\ tx'[p] = t
  BY <1>2, <1>7, LocalsOf
<1>10. RequestTxOf(p)'
  <2>1. {f} \X (ItemsOf[r.doc] \ r.todo) \subseteq t.arts
    BY <1>4, <1>5, <1>6 DEF OpenRequest
  <2>2. t.arts \subseteq {f} \X Exts
    BY <1>3, <1>4, <1>6 DEF OpenRequest
  <2>3. FetchedRow(p)' = FetchedRow(p)
    BY <1>5, <1>9 DEF FetchedRow
  <2> QED
    BY <1>1, <1>4, <1>5, <1>6, <1>9, <2>1, <2>2, <2>3
       DEF RequestTxOf, Holding, OpenRequest, At, Live, tables
<1>11. t.id = tx[p].id
  BY <1>4, <1>6 DEF OpenRequest
<1> HIDE DEF f
<1> QED
  BY <1>0, <1>1, <1>5, <1>6, <1>7, <1>8, <1>10, <1>11, InsideTx DEF InTx, Holding, f

\* What buildFetchStatus makes of a document is a fetch status.
LEMMA CursorType == \A d \in Docs : Fetched(CursorOf(d)) \in StatusRow /\ Fetched(CursorOf(d)) # None
<1>1. ASSUME NEW d \in Docs
      PROVE  Fetched(CursorOf(d)) \in StatusRow
  BY DEF CursorOf, Fetched, StatusRow, Cursors
<1> QED
  BY <1>1, NoneIsNew

\* A request with no article left to save writes the fetch status.
LEMMA WriteStatusStep ==
  ASSUME IInv, NEW p \in Requests, WriteStatus(p), UNCHANGED <<upstream, jobVars>>
  PROVE  IInv'
<1> DEFINE f == req[p].feed
           st == Fetched(CursorOf(req[p].doc))
           r == [req[p] EXCEPT !.pc = "commit"]
           t == [tx[p] EXCEPT !.id = f, !.stat = st]
<1>0. req[p] \in ReqRecord /\ LocalsSet(req[p]) /\ req[p].pc = "articles" /\ req[p].todo = {}
  BY LocalsOf DEF WriteStatus, At
<1>1. /\ FeedVisible(p, f)
      /\ tx' = [tx EXCEPT ![p].id = f, ![p].stat = st]
      /\ req' = [req EXCEPT ![p].pc = "commit"]
      /\ UNCHANGED tables
  BY DEF WriteStatus, SaveFetchStatus, Goto
<1>2. tx \in [Procs -> TxRecord] /\ tx[p] \in TxRecord /\ p \in Procs
  BY TxOf
<1>3. f \in FeedIds /\ st \in StatusRow
  BY <1>0, CursorType DEF LocalsSet, InTx
<1>4. OpenRequest(p)
  BY <1>0, <1>1, NoTxType, NoneIsNew, <1>3, TxOf DEF RequestTxOf, FeedVisible, At
<1>5. /\ r \in ReqRecord /\ r.pc = "commit" /\ r.feed = f /\ r.op = req[p].op
      /\ r.url = req[p].url /\ r.doc = req[p].doc /\ r.todo = {}
  BY <1>0 DEF ReqRecord, Steps
<1>6. /\ t \in TxRecord /\ t.id = f /\ t.row = tx[p].row /\ t.stat = st
      /\ t.arts = tx[p].arts
  BY <1>2, <1>3 DEF TxRecord
<1>7. req' = [req EXCEPT ![p] = r] /\ tx' = [tx EXCEPT ![p] = t]
  BY <1>1, <1>2, LocalsOf
<1> HIDE DEF r, t
<1>8. LocalsSet(r)
  BY <1>0, <1>5 DEF LocalsSet, Steps, InTx
<1>9. req'[p] = r /\ tx'[p] = t
  BY <1>2, <1>7, LocalsOf
<1>10. RequestTxOf(p)'
  <2>3. FetchedRow(p)' = FetchedRow(p)
    BY <1>5, <1>9 DEF FetchedRow
  <2> QED
    BY <1>0, <1>1, <1>4, <1>5, <1>6, <1>9, <2>3
       DEF RequestTxOf, Holding, OpenRequest, At, Live, tables
<1>11. t.id = tx[p].id
  BY <1>4, <1>6 DEF OpenRequest
<1> HIDE DEF f, st
<1> QED
  BY <1>0, <1>1, <1>5, <1>6, <1>7, <1>8, <1>10, <1>11, InsideTx DEF InTx, Holding, f

\* A request commits the row, the articles and the status of its feed.
LEMMA CommitStep ==
  ASSUME IInv, NEW p \in Requests, NEW code \in Answers,
         At(p, "commit"), Commit(p), Answer(p, code), UNCHANGED <<upstream, jobVars>>
  PROVE  IInv'
<1> USE ProcsDistinct DEF jobVars
<1> DEFINE f == req[p].feed
           row == FetchedRow(p)
           d == req[p].doc
           st == Fetched(CursorOf(d))
           arts == tx[p].arts
<1>1. /\ StoreTypeOK /\ GatewayTypeOK /\ ReqTypeOK /\ JobTypeOK
      /\ RequestLocals /\ WorkerLocals /\ RequestTx /\ WorkerTx
      /\ NewIds /\ PendingRows /\ SnapshotsCovered /\ TablesOK
  BY DEF IInv, TypeOK, TablesOK
<1>2. /\ f \in FeedIds /\ row \in FeedRow /\ row # None /\ d \in Docs
      /\ st \in StatusRow /\ st # None
  BY LocalsOf, FetchedRowType, CursorType DEF LocalsSet, InTx, At
<1>3. /\ tx[p].id = f /\ tx[p].row = row /\ tx[p].stat = st
      /\ arts \subseteq {f} \X Exts
      /\ {f} \X ItemsOf[d] \subseteq arts
      /\ req[p].op = "refresh" => Live(f)
  <2>1. OpenRequest(p) /\ tx[p].stat = st /\ req[p].todo = {}
    BY TxOf DEF RequestTxOf, At
  <2>2. ItemsOf[d] \ {} = ItemsOf[d]
    OBVIOUS
  <2> QED
    BY <2>1, <2>2 DEF OpenRequest
<1>4. /\ feeds' = [feeds EXCEPT ![f] = row]
      /\ articles' = articles \cup arts
      /\ status' = [status EXCEPT ![f] = st]
      /\ tx' = [tx EXCEPT ![p] = NoTx]
  BY <1>2, <1>3 DEF Commit, Rollback
<1> DEFINE r == [IdleReq EXCEPT !.pc = "answered", !.answer = code]
<1>5. /\ r \in ReqRecord /\ r.pc = "answered" /\ r.feed = None
      /\ req' = [req EXCEPT ![p] = r]
  BY AnsweredRecord DEF Answer
<1> HIDE DEF r
<1>6. \A q \in Requests : req'[q] = IF q = p THEN r ELSE req[q]
  BY <1>1, <1>5 DEF ReqTypeOK
<1>7. \A q \in Procs : tx'[q] = IF q = p THEN NoTx ELSE tx[q]
  BY <1>1, <1>4 DEF StoreTypeOK
<1>8. \A g \in FeedIds : /\ feeds'[g] = IF g = f THEN row ELSE feeds[g]
                         /\ status'[g] = IF g = f THEN st ELSE status[g]
  BY <1>1, <1>4 DEF StoreTypeOK
<1>9. \A g \in FeedIds : (feeds'[g] # None) <=> Live(g) \/ g = f
  BY <1>2, <1>8 DEF Live
\* Nobody else counted on f being absent.
<1>10. ~Live(f) =>
         /\ Registering(p)
         /\ \A q \in Requests \ {p} : req[q].feed = f => req[q].pc \in {"load", "delete"}
         /\ \A s \in batch : s.feed # f
         /\ \A w \in Workers :
              /\ worker[w].owner # f
              /\ ~WorkerAt(w, "idle") => worker[w].due.feed # f
  BY <1>1, <1>3 DEF NewIds, Registering, InTx, At
<1> HIDE DEF row, d, st, arts
<1>11. TypeOK'
  <2>1. req' \in [Requests -> ReqRecord]
    BY <1>1, <1>5 DEF ReqTypeOK
  <2>2. tx' \in [Procs -> TxRecord]
    BY <1>1, <1>4, NoTxType DEF StoreTypeOK
  <2>3. /\ feeds' \in [FeedIds -> FeedRow \cup {None}]
        /\ status' \in [FeedIds -> StatusRow \cup {None}]
    BY <1>1, <1>2, <1>4 DEF StoreTypeOK
  <2>4. articles' \in SUBSET (FeedIds \X Exts)
    BY <1>1, <1>2, <1>3, <1>4 DEF StoreTypeOK
  <2> QED
    BY <1>1, <2>1, <2>2, <2>3, <2>4
       DEF TypeOK, StoreTypeOK, GatewayTypeOK, ReqTypeOK, JobTypeOK
<1>12. RequestLocals'
  BY <1>1, <1>5, <1>6 DEF RequestLocals, LocalsSet, Steps, InTx
<1>13. WorkerLocals'
  BY <1>1 DEF WorkerLocals, WorkerAt
<1>14. RequestTx'
  <2> SUFFICES ASSUME NEW q \in Requests PROVE RequestTxOf(q)'
    BY DEF RequestTx
  <2>1. CASE q = p
    BY <1>5, <1>6, <1>7, <2>1 DEF RequestTxOf, Holding, At
  <2>2. CASE q # p
    <3>1. req'[q] = req[q] /\ tx'[q] = tx[q] /\ RequestTxOf(q) /\ LocalsSet(req[q])
      BY <1>1, <1>6, <1>7, <2>2 DEF RequestTx, RequestLocals
    <3>2. FetchedRow(q)' = FetchedRow(q)
      BY <3>1 DEF FetchedRow
    <3>3. req[q].pc \in Holding => (Live(req[q].feed)' <=> Live(req[q].feed))
      BY <1>9, <1>10, <2>2, <3>1 DEF LocalsSet, InTx, Holding, Live
    <3>4. At(q, "cascade") => feeds'[req[q].feed] = feeds[req[q].feed]
      <4>1. ASSUME At(q, "cascade")
            PROVE  tx[q].id = req[q].feed /\ tx[q].row # None /\ req[q].feed \in FeedIds
        BY <3>1, <4>1 DEF RequestTxOf, At, LocalsSet, NoTx, Live
      <4>2. At(q, "cascade") => req[q].feed # f
        BY <1>1, <1>2, <1>3, <2>2, <4>1 DEF PendingRows
      <4> QED
        BY <1>8, <4>1, <4>2
    <3> QED
      BY <3>1, <3>2, <3>3, <3>4 DEF RequestTxOf, OpenRequest, Holding, At
  <2> QED
    BY <2>1, <2>2
<1>15. WorkerTx'
  <2> SUFFICES ASSUME NEW w \in Workers
               PROVE  /\ tx'[w] = tx[w]
                      /\ worker' = worker
                      /\ WorkerAt(w, "articles") => ~Live(worker[w].owner)'
                      /\ WorkerAt(w, "commit") => Live(worker[w].due.feed)'
    BY <1>1 DEF WorkerTx, WorkerAt
  <2>1. WorkerAt(w, "articles") => worker[w].owner \in FeedIds
    BY <1>1 DEF WorkerLocals, WorkerAt
  <2>2. WorkerAt(w, "commit") => worker[w].due.feed \in FeedIds
    BY <1>1 DEF WorkerLocals, WorkerAt, DueFeed
  <2> QED
    BY <1>1, <1>7, <1>9, <1>10, <2>1, <2>2 DEF WorkerTx, Live
<1>16. NewIds'
  <2>1. ASSUME NEW q \in Requests, Registering(q)'
        PROVE  q # p /\ Registering(q) /\ req[q].feed # f /\ req[q].feed \in FeedIds
    BY <1>1, <1>5, <1>6, <2>1
       DEF NewIds, Registering, InTx, At, RequestLocals, LocalsSet
  <2>2. r.feed \notin FeedIds
    BY <1>5, NoneIsNew
  <2> QED
    BY <1>1, <1>6, <1>9, <2>1, <2>2 DEF NewIds, Live, WorkerAt
<1>17. PendingRows'
  <2> SUFFICES ASSUME NEW q \in Requests \ {p}, tx[q].row # None
               PROVE  /\ \A g \in FeedIds \ {tx[q].id} :
                           feeds'[g] # None => ~Clash(feeds'[g], tx[q].row)
                      /\ \A o \in Requests \ {q} :
                           tx'[o].row # None =>
                             tx[o].id # tx[q].id /\ ~Clash(tx[o].row, tx[q].row)
    BY <1>7, NoTxType DEF PendingRows, LiveFeeds, Live
  <2>1. ~Clash(row, tx[q].row)
    BY <1>1, <1>2, <1>3 DEF PendingRows
  <2> QED
    BY <1>1, <1>7, <1>8, <2>1, NoTxType DEF PendingRows, LiveFeeds, Live
<1>18. SnapshotsCovered'
  <2>1. ASSUME NEW s, s.feed \in FeedIds, Covered(s), ~Live(f) => s.feed # f
        PROVE  Covered(s)'
    BY <1>4, <1>9, <2>1 DEF Covered, Live
  <2>2. /\ \A s \in batch : s.feed \in FeedIds
        /\ \A w \in Workers : ~WorkerAt(w, "idle") => worker[w].due.feed \in FeedIds
    BY <1>1 DEF JobTypeOK, DueFeed, WorkerLocals
  <2> QED
    BY <1>1, <1>10, <2>1, <2>2 DEF SnapshotsCovered, WorkerAt
<1>19. UniqueSubscriptions'
  <2>1. \A g \in LiveFeeds \ {f} : ~Clash(feeds[g], row)
    BY <1>1, <1>2, <1>3 DEF PendingRows
  <2> QED
    BY <1>1, <1>2, <1>8, NoneIsNew, <2>1 DEF TablesOK, UniqueSubscriptions, LiveFeeds, Live, Clash, FeedRow
<1>20. Scheduled'
  <2>1. \A a \in articles' : a \in articles \/ a \in {f} \X Exts
    BY <1>3, <1>4
  <2>2. \A a \in articles' : a \in LiveFeeds' \X Exts
    BY <1>1, <1>2, <1>9, <2>1 DEF TablesOK, Scheduled, LiveFeeds, Live
  <2> QED
    BY <1>1, <1>2, <1>8, <2>2 DEF TablesOK, Scheduled, Live
<1>21. CursorNeverAhead'
  <2> SUFFICES ASSUME NEW g \in FeedIds, status'[g] # None, status'[g].cursor # None
               PROVE  {g} \X ItemsOf[status'[g].cursor] \subseteq articles'
    BY DEF CursorNeverAhead
  <2>1. CASE g = f
    <3>1. status'[g].cursor = d
      BY <1>8, <2>1 DEF st, Fetched, CursorOf
    <3> QED
      BY <1>3, <1>4, <2>1, <3>1
  <2>2. CASE g # f
    BY <1>1, <1>4, <1>8, <2>2 DEF TablesOK, CursorNeverAhead
  <2> QED
    BY <2>1, <2>2
<1> QED
  BY <1>11, <1>12, <1>13, <1>14, <1>15, <1>16, <1>17, <1>18, <1>19, <1>20, <1>21 DEF IInv

\* A feed is deleted: no other open transaction has locked it, and nothing else is
\* touched.
LEMMA DeleteStep ==
  ASSUME IInv, NEW p \in Requests, NEW code \in Answers,
         At(p, "cascade"), DeleteFeed(p, req[p].feed), Answer(p, code),
         UNCHANGED <<upstream, jobVars>>
  PROVE  IInv'
<1> USE ProcsDistinct DEF jobVars
<1> DEFINE f == req[p].feed
           r == [IdleReq EXCEPT !.pc = "answered", !.answer = code]
<1>1. /\ StoreTypeOK /\ GatewayTypeOK /\ ReqTypeOK /\ JobTypeOK
      /\ RequestLocals /\ WorkerLocals /\ RequestTx /\ WorkerTx
      /\ NewIds /\ PendingRows /\ SnapshotsCovered /\ TablesOK
  BY DEF IInv, TypeOK, TablesOK
<1>2. f \in FeedIds /\ tx[p].id = f /\ tx[p].row # None
  <2>1. Live(f) /\ tx[p] = [NoTx EXCEPT !.id = f, !.row = feeds[f]]
    BY TxOf DEF RequestTxOf, At
  <2>2. f \in FeedIds
    BY LocalsOf DEF LocalsSet, At
  <2> QED
    BY <2>1, <2>2 DEF NoTx, Live
<1>3. /\ feeds' = [feeds EXCEPT ![f] = None]
      /\ articles' = articles \ ArticlesOf(f)
      /\ status' = [status EXCEPT ![f] = None]
      /\ tx' = [tx EXCEPT ![p] = NoTx]
      /\ \A q \in Procs \ {p} : tx[q].id = f => tx[q].stat = None
  BY DEF DeleteFeed, StatusBusy, HoldsStatus, Others, Rollback
<1>4. /\ r \in ReqRecord /\ r.pc = "answered" /\ r.feed = None
      /\ req' = [req EXCEPT ![p] = r]
  BY AnsweredRecord DEF Answer
<1> HIDE DEF r
<1>5. \A q \in Requests : req'[q] = IF q = p THEN r ELSE req[q]
  BY <1>1, <1>4 DEF ReqTypeOK
<1>6. \A g \in FeedIds : /\ feeds'[g] = IF g = f THEN None ELSE feeds[g]
                         /\ status'[g] = IF g = f THEN None ELSE status[g]
  BY <1>1, <1>3 DEF StoreTypeOK
<1>7. \A g \in FeedIds : (feeds'[g] # None) <=> Live(g) /\ g # f
  BY <1>6 DEF Live
<1>19. \A q \in Procs : tx'[q] = IF q = p THEN NoTx ELSE tx[q]
  BY <1>1, <1>3 DEF StoreTypeOK
\* Nobody else has written or locked the row.
<1>20. \A q \in Requests \ {p} : tx[q].row # None => tx[q].id # f
  BY <1>1, <1>2 DEF PendingRows
<1>21. \A w \in Workers : WorkerAt(w, "commit") => tx[w].id # f
  <2>1. ASSUME NEW w \in Workers, WorkerAt(w, "commit")
        PROVE  tx[w].stat = Fetched(CursorOf(worker[w].doc)) /\ worker[w].doc \in Docs
    BY <1>1, <2>1, ZenonT(60) DEF WorkerTx, WorkerLocals, WorkerAt, NoTx
  <2> QED
    BY <1>3, <2>1, CursorType
<1> HIDE DEF f
<1>8. TypeOK'
  <2>1. req' \in [Requests -> ReqRecord]
    BY <1>1, <1>4 DEF ReqTypeOK
  <2>2. /\ feeds' \in [FeedIds -> FeedRow \cup {None}]
        /\ status' \in [FeedIds -> StatusRow \cup {None}]
        /\ articles' \in SUBSET (FeedIds \X Exts)
        /\ tx' \in [Procs -> TxRecord]
    BY <1>1, <1>2, <1>3, NoTxType DEF StoreTypeOK
  <2> QED
    BY <1>1, <2>1, <2>2 DEF TypeOK, StoreTypeOK, GatewayTypeOK, ReqTypeOK, JobTypeOK
<1>9. RequestLocals'
  BY <1>1, <1>4, <1>5 DEF RequestLocals, LocalsSet, Steps, InTx
<1>10. WorkerLocals'
  BY <1>1 DEF WorkerLocals, WorkerAt
<1>11. RequestTx'
  <2> SUFFICES ASSUME NEW q \in Requests PROVE RequestTxOf(q)'
    BY DEF RequestTx
  <2>1. CASE q = p
    BY <1>4, <1>5, <1>19, <2>1 DEF RequestTxOf, Holding, At
  <2>2. CASE q # p
    <3>1. req'[q] = req[q] /\ tx'[q] = tx[q] /\ RequestTxOf(q) /\ LocalsSet(req[q])
      BY <1>1, <1>5, <1>19, <2>2 DEF RequestTx, RequestLocals
    <3>2. FetchedRow(q)' = FetchedRow(q)
      BY <3>1 DEF FetchedRow
    <3>3. req[q].pc \in Holding => req[q].feed \in FeedIds
      BY <3>1 DEF LocalsSet, Holding, InTx
    <3>4. OpenRequest(q) /\ req[q].pc \in InTx => req[q].feed # f
      <4>1. req[q].pc \in InTx => FetchedRow(q) # None
        BY FetchedRowType
      <4>2. OpenRequest(q) /\ req[q].pc \in InTx => tx[q].row # None /\ tx[q].id = req[q].feed
        BY <4>1 DEF OpenRequest
      <4> QED
        BY <1>20, <2>2, <3>1, <4>2
    <3>5. req[q].pc \in {"site", "cascade"} => req[q].feed # f
      <4>1. ASSUME At(q, "site") PROVE tx[q].row # None /\ tx[q].id = req[q].feed
        <5>1. [url |-> req[q].url, site |-> None] \in HalfRow
          BY <3>1, <4>1 DEF LocalsSet, At, InTx, HalfRow
        <5>2. [url |-> req[q].url, site |-> None] # None
          BY <5>1, NoneIsNew
        <5> QED
          BY <3>1, <4>1, <5>2 DEF RequestTxOf, NoTx
      <4>2. ASSUME At(q, "cascade") PROVE tx[q].row # None /\ tx[q].id = req[q].feed
        BY <3>1, <4>2 DEF RequestTxOf, NoTx, Live
      <4> QED
        BY <1>20, <2>2, <4>1, <4>2 DEF At
    <3>6. /\ req[q].pc \in {"site", "cascade"} => feeds'[req[q].feed] = feeds[req[q].feed]
          /\ ~Live(req[q].feed) /\ req[q].pc \in Holding => ~Live(req[q].feed)'
          /\ OpenRequest(q) /\ req[q].pc \in InTx \cap Holding => OpenRequest(q)'
      BY <1>6, <1>7, <3>1, <3>2, <3>3, <3>4, <3>5 DEF OpenRequest, Holding, Live
    <3> QED
      BY <3>1, <3>6 DEF RequestTxOf, InTx, Holding, At, Live
  <2> QED
    BY <2>1, <2>2
<1>12. WorkerTx'
  <2> SUFFICES ASSUME NEW w \in Workers
               PROVE  /\ WorkerAt(w, "articles") => ~Live(worker[w].owner)'
                      /\ WorkerAt(w, "commit") => Live(worker[w].due.feed)'
    BY <1>1, <1>19, ZenonT(60) DEF WorkerTx, WorkerAt
  <2>1. WorkerAt(w, "articles") => worker[w].owner \in FeedIds
    BY <1>1 DEF WorkerLocals, WorkerAt
  <2>2. WorkerAt(w, "commit") =>
          worker[w].due.feed \in FeedIds /\ tx[w].id = worker[w].due.feed
    BY <1>1, ZenonT(60) DEF WorkerLocals, WorkerAt, DueFeed, WorkerTx, NoTx
  <2> QED
    BY <1>1, <1>7, <1>21, <2>1, <2>2, ZenonT(60) DEF WorkerTx, Live
<1>13. NewIds'
  <2>1. ASSUME NEW q \in Requests, Registering(q)'
        PROVE  q # p /\ Registering(q) /\ req[q].feed \in FeedIds
    BY <1>1, <1>4, <1>5, <2>1 DEF Registering, InTx, RequestLocals, LocalsSet
  <2>2. r.feed \notin FeedIds
    BY <1>4, NoneIsNew
  <2> QED
    BY <1>1, <1>5, <1>7, <2>1, <2>2 DEF NewIds, Live, WorkerAt
<1>14. PendingRows'
  BY <1>1, <1>6, <1>19, NoTxType DEF PendingRows, LiveFeeds, Live
<1>15. SnapshotsCovered'
  <2>1. ASSUME NEW s, s.feed \in FeedIds, Covered(s)
        PROVE  Covered(s)'
    BY <1>3, <1>7, <2>1 DEF Covered, Live, ArticlesOf
  <2>2. /\ \A s \in batch : s.feed \in FeedIds
        /\ \A w \in Workers : ~WorkerAt(w, "idle") => worker[w].due.feed \in FeedIds
    BY <1>1 DEF JobTypeOK, DueFeed, WorkerLocals
  <2> QED
    BY <1>1, <2>1, <2>2 DEF SnapshotsCovered, WorkerAt
<1>16. UniqueSubscriptions'
  BY <1>1, <1>6 DEF TablesOK, UniqueSubscriptions, LiveFeeds, Live
<1>17. Scheduled'
  <2>1. \A a \in articles' : a \in LiveFeeds' \X Exts
    BY <1>1, <1>3, <1>7 DEF TablesOK, Scheduled, LiveFeeds, Live, ArticlesOf
  <2> QED
    BY <1>1, <1>6, <2>1 DEF TablesOK, Scheduled, Live
<1>18. CursorNeverAhead'
  BY <1>1, <1>3, <1>6 DEF TablesOK, CursorNeverAhead, ArticlesOf
<1> QED
  BY <1>8, <1>9, <1>10, <1>11, <1>12, <1>13, <1>14, <1>15, <1>16, <1>17, <1>18 DEF IInv

\* Every step of a request preserves the invariant.
LEMMA ServingStep ==
  ASSUME IInv, NEW p \in Requests, Serving(p)
  PROVE  IInv'
<1>1. UNCHANGED <<upstream, jobVars>> /\ RequestNext(p, Fresh)
  BY DEF Serving
<1>2. CASE CommitFeed(p)
  BY <1>1, <1>2, CommitStep DEF CommitFeed, Success, Answers
<1>3. CASE RemoveFeed(p)
  BY <1>1, <1>3, DeleteStep DEF RemoveFeed, Answers
<1>4. CASE ReplyLost(p)
  BY <1>1, <1>4, CommitStep, DeleteStep DEF ReplyLost, Answers
<1>5. CASE WriteFeed(p) \/ WriteSite(p) \/ UpdateNothing(p) \/ WriteArticle(p) \/ WriteStatus(p)
  BY <1>1, <1>5, WriteFeedStep, WriteSiteStep, UpdateNothingStep, WriteArticleStep, WriteStatusStep
<1>9. CASE RemoveNothing(p)
  BY <1>1, <1>9, AnswerStep DEF RemoveNothing, At, Holding, Answers
<1>10. CASE LockRow(p)
  BY <1>1, <1>10, LockRowStep
<1>6. CASE \/ FetchFails(p) \/ FetchPanics(p) \/ StatementFails(p)
           \/ WriteFeedConflicts(p) \/ FeedVanished(p) \/ DeadlockVictim(p)
  BY <1>1, <1>6, FaultSteps
<1>7. CASE ArriveNext(p) \/ ReadNext(p) \/ Respond(p)
  BY <1>1, <1>7, ArriveStep, ReadSteps, RespondStep
<1>8. CASE \E n \in Fresh : FetchNewFeed(p, n)
  BY <1>1, <1>8, FetchStep
<1> QED
  BY <1>1, <1>2, <1>3, <1>4, <1>5, <1>6, <1>7, <1>8, <1>9, <1>10
     DEF RequestNext, WriteNext, FaultNext

\* A step of the batch or of worker w that writes nothing and leaves w without
\* a transaction.
LEMMA JobReads ==
  ASSUME IInv,
         UNCHANGED <<tables, upstream, req>>,
         jobCtx' \in {"none", "live", "dead"},
         batch' \subseteq batch \cup DueFeeds,
         worker' \in [Workers -> WorkerRecord],
         tx' \in [Procs -> TxRecord],
         \A p \in Requests : tx'[p] = tx[p],
         \A w \in Workers :
           \/ worker'[w] = worker[w] /\ tx'[w] = tx[w]
           \/ /\ tx'[w] = NoTx
              /\ worker'[w].pc # "commit"
              /\ worker'[w].pc # "idle" =>
                   \/ worker'[w].due \in batch
                   \/ worker'[w].due = worker[w].due /\ ~WorkerAt(w, "idle")
              /\ worker'[w].owner \in {None, worker[w].owner} \cup Fresh
              /\ worker'[w].pc = "articles" =>
                   /\ worker'[w].owner \in Fresh
                   /\ worker'[w].doc \in Docs
                   /\ worker'[w].todo = ItemsOf[worker'[w].doc]
  PROVE  IInv'
<1> USE ProcsDistinct DEF tables
<1>1. /\ StoreTypeOK /\ GatewayTypeOK /\ ReqTypeOK /\ JobTypeOK
      /\ RequestLocals /\ WorkerLocals /\ RequestTx /\ WorkerTx
      /\ NewIds /\ PendingRows /\ SnapshotsCovered /\ TablesOK
  BY DEF IInv, TypeOK, TablesOK
<1>2. \A d \in DueFeeds : d \in DueFeed /\ Live(d.feed) /\ Covered(d)
  <2> SUFFICES ASSUME NEW f \in LiveFeeds, status[f] # None
               PROVE  LET d == [feed |-> f, url |-> feeds[f].url, cursor |-> status[f].cursor]
                      IN  d \in DueFeed /\ Live(d.feed) /\ Covered(d)
    BY DEF DueFeeds
  <2>1. f \in FeedIds /\ Live(f) /\ feeds[f].url \in Urls /\ status[f].cursor \in Cursors
    BY <1>1 DEF StoreTypeOK, LiveFeeds, Live, FeedRow, StatusRow
  <2> QED
    BY <1>1, <2>1 DEF TablesOK, CursorNeverAhead, Covered, DueFeed
<1>3. ASSUME NEW w \in Workers, worker'[w].pc # "idle"
      PROVE  /\ worker'[w].due \in DueFeed
             /\ Covered(worker'[w].due)
             /\ \/ worker'[w].due \in batch
                \/ worker'[w].due = worker[w].due /\ ~WorkerAt(w, "idle")
  <2>1. \/ worker'[w].due \in batch
        \/ worker'[w].due = worker[w].due /\ ~WorkerAt(w, "idle")
    BY <1>3 DEF WorkerAt
  <2> QED
    BY <1>1, <2>1 DEF JobTypeOK, WorkerLocals, SnapshotsCovered
<1>4. TypeOK'
  <2>1. batch' \in SUBSET DueFeed
    BY <1>1, <1>2 DEF JobTypeOK
  <2> QED
    BY <1>1, <2>1 DEF TypeOK, StoreTypeOK, GatewayTypeOK, ReqTypeOK, JobTypeOK
<1>5. RequestLocals'
  BY <1>1 DEF RequestLocals
<1>6. WorkerLocals'
  <2>1. ASSUME NEW w \in Workers, worker'[w].pc \in {"articles", "commit"}
        PROVE  worker'[w].doc \in Docs /\ worker'[w].owner \in FeedIds
    BY <1>1, <2>1 DEF WorkerLocals, Fresh
  <2> QED
    BY <1>3, <2>1 DEF WorkerLocals, WorkerAt
<1>7. RequestTx'
  <2> SUFFICES ASSUME NEW p \in Requests PROVE RequestTxOf(p)'
    BY DEF RequestTx
  <2>1. req'[p] = req[p] /\ tx'[p] = tx[p] /\ RequestTxOf(p) /\ feeds' = feeds
    BY <1>1 DEF RequestTx
  <2> QED
    BY <2>1 DEF RequestTxOf, OpenRequest, FetchedRow, At, Live
<1>8. WorkerTx'
  <2> SUFFICES ASSUME NEW w \in Workers
               PROVE  /\ worker'[w].pc # "commit" => tx'[w] = NoTx
                      /\ worker'[w].pc = "articles" =>
                           /\ worker'[w].todo = ItemsOf[worker'[w].doc]
                           /\ ~Live(worker'[w].owner)
                      /\ worker'[w].pc = "commit" =>
                           worker'[w] = worker[w] /\ tx'[w] = tx[w]
    BY <1>1, ZenonT(60) DEF WorkerTx, WorkerAt, Live
  <2>1. \A f \in Fresh : ~Live(f)
    BY DEF Fresh, Referenced, RequestIds, LiveFeeds
  <2> QED
    BY <1>1, <2>1 DEF WorkerTx, WorkerAt
<1>9. NewIds'
  <2> SUFFICES ASSUME NEW p \in Requests, Registering(p)
               PROVE  /\ \A d \in batch' : d.feed # req[p].feed
                      /\ \A w \in Workers :
                           /\ worker'[w].owner # req[p].feed
                           /\ worker'[w].pc # "idle" => worker'[w].due.feed # req[p].feed
    BY <1>1 DEF NewIds, Registering, Live, WorkerAt
  <2>1. /\ ~Live(req[p].feed)
        /\ req[p].feed \in FeedIds
        /\ \A d \in batch : d.feed # req[p].feed
        /\ \A w \in Workers :
             /\ worker[w].owner # req[p].feed
             /\ ~WorkerAt(w, "idle") => worker[w].due.feed # req[p].feed
    BY <1>1 DEF NewIds, RequestLocals, LocalsSet, Registering
  <2>2. req[p].feed \notin Fresh /\ req[p].feed # None
    BY <2>1, NoneIsNew DEF Fresh, Referenced, RequestIds
  <2>3. \A d \in batch' : d.feed # req[p].feed
    BY <1>2, <2>1
  <2>4. \A w \in Workers : worker'[w].owner # req[p].feed
    BY <2>1, <2>2
  <2>5. \A w \in Workers : worker'[w].pc # "idle" => worker'[w].due.feed # req[p].feed
    BY <1>3, <2>1
  <2> QED
    BY <2>3, <2>4, <2>5
<1>10. PendingRows'
  BY <1>1 DEF PendingRows, LiveFeeds, Live
<1>11. SnapshotsCovered'
  <2>1. \A d : Covered(d)' <=> Covered(d)
    BY DEF Covered, Live
  <2> QED
    BY <1>1, <1>2, <1>3, <2>1 DEF SnapshotsCovered, WorkerAt
<1>12. TablesOK'
  BY <1>1, TablesKept
<1> QED
  BY <1>4, <1>5, <1>6, <1>7, <1>8, <1>9, <1>10, <1>11, <1>12 DEF IInv, TablesOK

\* A batch is read, ends or loses its context.
LEMMA BatchSteps ==
  ASSUME IInv, Picking \/ Ending \/ Expiring
  PROVE  IInv'
<1>1. /\ worker \in [Workers -> WorkerRecord]
      /\ tx \in [Procs -> TxRecord]
  BY DEF IInv, TypeOK, StoreTypeOK, JobTypeOK
<1>2. /\ UNCHANGED <<tables, tx, upstream, req, worker>>
      /\ jobCtx' \in {"none", "live", "dead"}
  BY DEF Picking, Ending, Expiring, GetDueFeeds, EndBatch, ExpireJob
<1>3. batch' \subseteq batch \cup DueFeeds
  BY DEF Picking, Ending, Expiring, GetDueFeeds, EndBatch, ExpireJob, AtMost
<1> QED
  BY <1>1, <1>2, <1>3, JobReads

\* What the invariant says of one worker.
LEMMA WorkerOf ==
  ASSUME IInv, NEW w \in Workers
  PROVE  /\ w \in Procs
         /\ tx \in [Procs -> TxRecord]
         /\ worker \in [Workers -> WorkerRecord]
         /\ worker[w] \in WorkerRecord
         /\ jobCtx \in {"none", "live", "dead"}
         /\ ~WorkerAt(w, "idle") => worker[w].due \in DueFeed /\ Covered(worker[w].due)
         /\ ~WorkerAt(w, "commit") => tx[w] = NoTx
BY ProcsDistinct
   DEF IInv, TypeOK, StoreTypeOK, JobTypeOK, WorkerLocals, WorkerTx, SnapshotsCovered

\* The same for a step that sets the locals of worker w to r.
LEMMA WorkerReads ==
  ASSUME IInv, NEW w \in Workers, NEW r \in WorkerRecord,
         UNCHANGED <<tables, upstream, req, jobCtx>>,
         batch' \subseteq batch,
         worker' = [worker EXCEPT ![w] = r],
         tx' = [tx EXCEPT ![w] = NoTx],
         r.pc # "commit",
         r.pc # "idle" => r.due \in batch \/ (r.due = worker[w].due /\ ~WorkerAt(w, "idle")),
         r.owner \in {None, worker[w].owner} \cup Fresh,
         r.pc = "articles" =>
           r.owner \in Fresh /\ r.doc \in Docs /\ r.todo = ItemsOf[r.doc]
  PROVE  IInv'
<1>1. /\ \A v \in Workers : worker'[v] = IF v = w THEN r ELSE worker[v]
      /\ \A q \in Procs : tx'[q] = IF q = w THEN NoTx ELSE tx[q]
  BY WorkerOf
<1>2. worker' \in [Workers -> WorkerRecord]
  BY WorkerOf
<1>3. tx' \in [Procs -> TxRecord]
  BY WorkerOf, NoTxType
<1>4. \A p \in Requests : tx'[p] = tx[p]
  BY <1>1, ProcsDistinct
<1>5. jobCtx' \in {"none", "live", "dead"}
  BY WorkerOf
<1>6. \A v \in Workers : v # w => worker'[v] = worker[v] /\ tx'[v] = tx[v]
  BY <1>1, ProcsDistinct
<1>7. worker'[w] = r /\ tx'[w] = NoTx
  BY <1>1, ProcsDistinct
<1> QED
  BY <1>2, <1>3, <1>4, <1>5, <1>6, <1>7, JobReads

\* refreshOne returns having written nothing.
LEMMA GiveUpStep ==
  ASSUME IInv, NEW w \in Workers, DueRejected(w) \/ WorkerFails(w),
         UNCHANGED <<upstream, req>>
  PROVE  IInv'
<1>1. /\ IdleWorker \in WorkerRecord /\ IdleWorker.pc = "idle" /\ IdleWorker.owner = None
  BY DEF IdleWorker, WorkerRecord
<1>2. /\ worker' = [worker EXCEPT ![w] = IdleWorker]
      /\ tx' = [tx EXCEPT ![w] = NoTx]
      /\ UNCHANGED <<tables, jobCtx, batch>>
  BY DEF DueRejected, WorkerFails, Rollback, Finish
<1> HIDE DEF IdleWorker
<1> QED
  BY <1>1, <1>2, WorkerReads

\* refreshOne takes a feed and fetches it.
LEMMA RefreshReads ==
  ASSUME IInv, NEW w \in Workers, UNCHANGED <<upstream, req>>,
         \/ TakeFeed(w) \/ FetchDueFails(w) \/ FetchUnsolicited304(w)
         \/ \E n \in Fresh : FetchFeedWithCursor(w, n)
  PROVE  IInv'
<1>0. worker[w] \in WorkerRecord /\ tx \in [Procs -> TxRecord] /\ w \in Procs
  BY WorkerOf
<1>1. /\ UNCHANGED <<tables, tx, jobCtx>>
      /\ batch' \subseteq batch
      /\ worker[w].pc \in {"idle", "fetch"}
  BY DEF TakeFeed, FetchDueFails, FetchUnsolicited304, FetchFeedWithCursor, WorkerAt
<1>2. tx' = [tx EXCEPT ![w] = NoTx]
  <2>1. tx[w] = NoTx
    BY <1>1, WorkerOf DEF WorkerAt
  <2> QED
    BY <1>0, <1>1, <2>1
<1>3. CASE TakeFeed(w)
  <2>1. PICK due \in batch : worker' = [worker EXCEPT ![w].pc = "fetch", ![w].due = due]
    BY <1>3 DEF TakeFeed
  <2> DEFINE r == [worker[w] EXCEPT !.pc = "fetch", !.due = due]
  <2>2. worker' = [worker EXCEPT ![w] = r]
    BY <2>1
  <2>3. due \in DueFeed
    BY DEF IInv, TypeOK, JobTypeOK
  <2>4. r \in WorkerRecord /\ r.pc = "fetch" /\ r.due = due /\ r.owner = worker[w].owner
    BY <1>0, <2>3 DEF WorkerRecord
  <2> HIDE DEF r
  <2> QED
    BY <1>1, <1>2, <2>2, <2>4, WorkerReads
<1>4. ASSUME NEW pc \in {"failed", "unmodified"},
             worker' = [worker EXCEPT ![w].pc = pc], WorkerAt(w, "fetch")
      PROVE  IInv'
  <2> DEFINE r == [worker[w] EXCEPT !.pc = pc]
  <2>1. worker' = [worker EXCEPT ![w] = r]
    BY <1>4
  <2>2. /\ r \in WorkerRecord /\ r.pc = pc
        /\ r.due = worker[w].due /\ r.owner = worker[w].owner
    BY <1>0 DEF WorkerRecord
  <2> HIDE DEF r
  <2> QED
    BY <1>1, <1>2, <1>4, <2>1, <2>2, WorkerReads DEF WorkerAt
<1>5. CASE \E n \in Fresh : FetchFeedWithCursor(w, n)
  <2>1. PICK n \in Fresh : FetchFeedWithCursor(w, n)
    BY <1>5
  <2> DEFINE d == upstream[worker[w].due.url]
             r == [worker[w] EXCEPT !.pc = "articles", !.doc = d, !.owner = n,
                                    !.todo = ItemsOf[d]]
  <2>2. WorkerAt(w, "fetch")
    BY <2>1 DEF FetchFeedWithCursor
  <2>3. d \in Docs /\ ItemsOf[d] \in SUBSET Exts
    BY <2>2, WorkerOf, GatewayAssumption
       DEF IInv, TypeOK, GatewayTypeOK, WorkerAt, DueFeed
  <2>4. \/ worker' = [worker EXCEPT ![w].pc = "unmodified"]
        \/ worker' = [worker EXCEPT ![w] = r]
    BY <2>1 DEF FetchFeedWithCursor
  <2>5. /\ r \in WorkerRecord /\ r.pc = "articles" /\ r.due = worker[w].due
        /\ r.owner = n /\ r.doc = d /\ r.todo = ItemsOf[d]
    BY <1>0, <2>3 DEF WorkerRecord, Fresh
  <2>6. CASE worker' = [worker EXCEPT ![w] = r]
    <3> HIDE DEF r, d
    <3> QED
      BY <1>1, <1>2, <2>2, <2>3, <2>5, <2>6, WorkerReads DEF WorkerAt
  <2> QED
    BY <1>4, <2>2, <2>4, <2>6
<1>6. CASE FetchDueFails(w)
  BY <1>4, <1>6 DEF FetchDueFails
<1>7. CASE FetchUnsolicited304(w)
  BY <1>4, <1>7 DEF FetchUnsolicited304
<1> QED
  BY <1>3, <1>5, <1>6, <1>7

\* A fetch status is written for feed f, by worker w on its way out or by the clock.
LEMMA StatusStep ==
  ASSUME IInv, NEW f \in FeedIds, NEW st \in StatusRow,
         Live(f),
         st.cursor # None => {f} \X ItemsOf[st.cursor] \subseteq articles,
         status' = [status EXCEPT ![f] = st],
         UNCHANGED <<feeds, articles, upstream, req, jobCtx, batch>>,
         worker' \in [Workers -> WorkerRecord],
         tx' \in [Procs -> TxRecord],
         \A p \in Requests : tx'[p] = tx[p],
         \A w \in Workers :
           \/ worker'[w] = worker[w] /\ tx'[w] = tx[w]
           \/ worker'[w] = IdleWorker /\ tx'[w] = NoTx
  PROVE  IInv'
<1> USE ProcsDistinct
<1>1. /\ StoreTypeOK /\ GatewayTypeOK /\ ReqTypeOK /\ JobTypeOK
      /\ RequestLocals /\ WorkerLocals /\ RequestTx /\ WorkerTx
      /\ NewIds /\ PendingRows /\ SnapshotsCovered /\ TablesOK
  BY DEF IInv, TypeOK, TablesOK
<1>2. IdleWorker.pc = "idle" /\ IdleWorker.owner = None
  BY DEF IdleWorker
<1>3. \A g \in FeedIds : status'[g] = IF g = f THEN st ELSE status[g]
  BY <1>1 DEF StoreTypeOK
<1>4. st # None
  BY NoneIsNew
<1>5. \A d : Covered(d)' <=> Covered(d)
  BY DEF Covered, Live
<1>6. TypeOK'
  <2>1. status' \in [FeedIds -> StatusRow \cup {None}]
    BY <1>1 DEF StoreTypeOK
  <2> QED
    BY <1>1, <2>1 DEF TypeOK, StoreTypeOK, GatewayTypeOK, ReqTypeOK, JobTypeOK
<1>7. RequestLocals'
  BY <1>1 DEF RequestLocals
<1>8. WorkerLocals'
  BY <1>1, <1>2 DEF WorkerLocals, WorkerAt
<1>9. RequestTx'
  <2> SUFFICES ASSUME NEW p \in Requests PROVE RequestTxOf(p)'
    BY DEF RequestTx
  <2>1. req'[p] = req[p] /\ tx'[p] = tx[p] /\ RequestTxOf(p) /\ feeds' = feeds
    BY <1>1 DEF RequestTx
  <2> QED
    BY <2>1 DEF RequestTxOf, OpenRequest, FetchedRow, At, Live
<1>10. WorkerTx'
  BY <1>1, <1>2, ZenonT(60) DEF WorkerTx, WorkerAt, Live
<1>11. NewIds'
  <2> SUFFICES ASSUME NEW p \in Requests, Registering(p), NEW w \in Workers
               PROVE  /\ worker'[w].owner # req[p].feed
                      /\ worker'[w].pc # "idle" => worker'[w].due.feed # req[p].feed
    BY <1>1 DEF NewIds, Registering, Live, WorkerAt
  <2>1. /\ req[p].feed \in FeedIds
        /\ worker[w].owner # req[p].feed
        /\ ~WorkerAt(w, "idle") => worker[w].due.feed # req[p].feed
    BY <1>1 DEF NewIds, RequestLocals, LocalsSet, Registering
  <2> QED
    BY <1>2, <2>1, NoneIsNew DEF WorkerAt
<1>12. PendingRows'
  BY <1>1 DEF PendingRows, LiveFeeds, Live
<1>13. SnapshotsCovered'
  BY <1>1, <1>2, <1>5 DEF SnapshotsCovered, WorkerAt
<1>14. UniqueSubscriptions'
  BY <1>1 DEF TablesOK, UniqueSubscriptions, LiveFeeds, Live
<1>15. Scheduled'
  BY <1>1, <1>3, <1>4 DEF TablesOK, Scheduled, LiveFeeds, Live
<1>16. CursorNeverAhead'
  BY <1>1, <1>3 DEF TablesOK, CursorNeverAhead
<1> QED
  BY <1>6, <1>7, <1>8, <1>9, <1>10, <1>11, <1>12, <1>13, <1>14, <1>15, <1>16 DEF IInv

\* next_fetch_at passes.
LEMMA ElapsingStep ==
  ASSUME IInv, Elapsing
  PROVE  IInv'
<1>1. /\ status \in [FeedIds -> StatusRow \cup {None}]
      /\ worker \in [Workers -> WorkerRecord]
      /\ tx \in [Procs -> TxRecord]
      /\ Scheduled /\ CursorNeverAhead
  BY DEF IInv, TypeOK, StoreTypeOK, JobTypeOK
<1>2. PICK f \in FeedIds :
        status[f] # None /\ status' = [status EXCEPT ![f].due = TRUE]
  BY DEF Elapsing
<1> DEFINE st == [status[f] EXCEPT !.due = TRUE]
<1>3. status' = [status EXCEPT ![f] = st]
  BY <1>2
<1>4. st \in StatusRow /\ st.cursor = status[f].cursor
  BY <1>1, <1>2 DEF StatusRow
<1>5. st.cursor # None => {f} \X ItemsOf[st.cursor] \subseteq articles
  BY <1>1, <1>2, <1>4 DEF CursorNeverAhead
<1>6. Live(f)
  BY <1>1, <1>2 DEF Scheduled
<1> HIDE DEF st
<1> QED
  BY <1>1, <1>3, <1>4, <1>5, <1>6, StatusStep DEF Elapsing, jobVars

\* refreshOne writes the status on its own, or finds the feed gone.
LEMMA RecordOutcomeStep ==
  ASSUME IInv, NEW w \in Workers, RecordOutcome(w), UNCHANGED <<upstream, req>>
  PROVE  IInv'
<1> DEFINE due == worker[w].due
           st == Fetched(due.cursor)
<1>1. ~WorkerAt(w, "idle") /\ ~WorkerAt(w, "commit")
  BY DEF RecordOutcome, WorkerAt
<1>2. due \in DueFeed /\ Covered(due) /\ tx[w] = NoTx
  BY <1>1, WorkerOf
<1>3. IdleWorker \in WorkerRecord /\ IdleWorker.pc = "idle" /\ IdleWorker.owner = None
  BY DEF IdleWorker, WorkerRecord
<1>4. /\ worker' = [worker EXCEPT ![w] = IdleWorker]
      /\ UNCHANGED <<feeds, articles, tx, jobCtx, batch>>
  BY DEF RecordOutcome, Finish
<1>5. CASE UNCHANGED status
  <2>1. tx' = [tx EXCEPT ![w] = NoTx]
    BY <1>2, <1>4, WorkerOf
  <2> HIDE DEF IdleWorker
  <2> QED
    BY <1>3, <1>4, <1>5, <2>1, WorkerReads DEF tables
<1>6. CASE Live(due.feed) /\ status' = [status EXCEPT ![due.feed] = st]
  <2>1. due.feed \in FeedIds /\ st \in StatusRow /\ st.cursor = due.cursor
    BY <1>2 DEF DueFeed, Fetched, StatusRow
  <2>2. st.cursor # None => {due.feed} \X ItemsOf[st.cursor] \subseteq articles
    BY <1>2, <1>6, <2>1 DEF Covered
  <2>3. worker' \in [Workers -> WorkerRecord] /\ tx' \in [Procs -> TxRecord]
    BY <1>3, <1>4, WorkerOf
  <2>4. \A v \in Workers :
          \/ worker'[v] = worker[v] /\ tx'[v] = tx[v]
          \/ worker'[v] = IdleWorker /\ tx'[v] = NoTx
    BY <1>2, <1>4, WorkerOf
  <2> HIDE DEF IdleWorker, due, st
  <2> QED
    BY <1>4, <1>6, <2>1, <2>2, <2>3, <2>4, StatusStep
<1> QED
  BY <1>5, <1>6 DEF RecordOutcome, SaveFetchStatusNow

\* The job's transaction commits: it holds a status and no article.
LEMMA CommitDueStep ==
  ASSUME IInv, NEW w \in Workers, CommitDue(w), UNCHANGED <<upstream, req>>
  PROVE  IInv'
<1> DEFINE f == worker[w].due.feed
           d == worker[w].doc
           st == Fetched(CursorOf(d))
<1>1. /\ ItemsOf[d] = {} /\ Live(f) /\ d \in Docs /\ f \in FeedIds
      /\ tx[w] = [NoTx EXCEPT !.id = f, !.stat = st]
  BY DEF IInv, CommitDue, WorkerTx, WorkerLocals, WorkerAt, DueFeed
<1>2. tx[w].id = f /\ tx[w].row = None /\ tx[w].arts = {} /\ tx[w].stat = st
  BY <1>1 DEF NoTx
<1>3. st \in StatusRow /\ st # None /\ st.cursor \in {d, None}
  BY <1>1, CursorType DEF Fetched, CursorOf
<1>4. /\ status' = [status EXCEPT ![f] = st]
      /\ UNCHANGED <<feeds, articles, jobCtx, batch>>
      /\ worker' = [worker EXCEPT ![w] = IdleWorker]
      /\ tx' = [tx EXCEPT ![w] = NoTx]
  BY <1>2, <1>3 DEF CommitDue, Commit, Rollback, Finish
<1>5. worker' \in [Workers -> WorkerRecord] /\ tx' \in [Procs -> TxRecord]
  <2>1. IdleWorker \in WorkerRecord
    BY DEF IdleWorker, WorkerRecord
  <2> QED
    BY <1>4, <2>1, WorkerOf, NoTxType
<1>6. \A v \in Workers :
        \/ worker'[v] = worker[v] /\ tx'[v] = tx[v]
        \/ worker'[v] = IdleWorker /\ tx'[v] = NoTx
  BY <1>4, WorkerOf, ProcsDistinct
<1>7. \A p \in Requests : tx'[p] = tx[p]
  BY <1>4, WorkerOf, ProcsDistinct
<1>8. st.cursor # None => {f} \X ItemsOf[st.cursor] \subseteq articles
  BY <1>1, <1>3
<1> HIDE DEF f, d, st, IdleWorker
<1> QED
  BY <1>1, <1>3, <1>4, <1>5, <1>6, <1>7, <1>8, StatusStep

\* The foreign key rejects every article of the job: WriteDueArticle never runs.
LEMMA NoDueArticle ==
  ASSUME IInv, NEW w \in Workers
  PROVE  ~WriteDueArticle(w)
BY WorkerOf, NoTxType DEF IInv, WorkerTx, WriteDueArticle, SaveArticle, FeedVisible, WorkerAt

\* A new document without items: the job writes its status in a transaction.
LEMMA WriteDueStatusStep ==
  ASSUME IInv, NEW w \in Workers, WriteDueStatus(w), UNCHANGED <<upstream, req>>
  PROVE  IInv'
<1> USE ProcsDistinct
<1> DEFINE f == worker[w].due.feed
           d == worker[w].doc
           st == Fetched(CursorOf(d))
           r == [worker[w] EXCEPT !.pc = "commit"]
           t == [NoTx EXCEPT !.id = f, !.stat = st]
<1>1. /\ StoreTypeOK /\ GatewayTypeOK /\ ReqTypeOK /\ JobTypeOK
      /\ RequestLocals /\ WorkerLocals /\ RequestTx /\ WorkerTx
      /\ NewIds /\ PendingRows /\ SnapshotsCovered /\ TablesOK
  BY DEF IInv, TypeOK, TablesOK
<1>2. /\ WorkerAt(w, "articles") /\ worker[w].todo = {} /\ FeedVisible(w, f)
      /\ tx' = [tx EXCEPT ![w].id = f, ![w].stat = st]
      /\ worker' = [worker EXCEPT ![w] = r]
      /\ UNCHANGED <<feeds, articles, status, jobCtx, batch>>
  BY DEF WriteDueStatus, SaveFetchStatus, tables
<1>3. /\ tx[w] = NoTx /\ ItemsOf[d] = {} /\ d \in Docs
      /\ worker[w].due \in DueFeed /\ f \in FeedIds /\ worker[w].owner \in FeedIds
  BY <1>1, <1>2 DEF WorkerTx, WorkerLocals, WorkerAt, DueFeed
<1>4. Live(f)
  BY <1>2, <1>3, NoTxType DEF FeedVisible
<1>5. st \in StatusRow /\ st # None
  BY <1>3, CursorType
<1>6. /\ t \in TxRecord /\ t.row = None
      /\ tx' = [tx EXCEPT ![w] = t]
  <2>1. t \in TxRecord /\ t.row = None
    BY <1>3, <1>5 DEF NoTx, TxRecord
  <2> QED
    BY <1>2, <1>3, <2>1, WorkerOf
<1>7. /\ r \in WorkerRecord /\ r.pc = "commit" /\ r.due = worker[w].due
      /\ r.doc = d /\ r.owner = worker[w].owner
  BY WorkerOf DEF WorkerRecord
<1> HIDE DEF r
<1>8. \A v \in Workers : worker'[v] = IF v = w THEN r ELSE worker[v]
  BY <1>2, WorkerOf
<1>9. \A q \in Procs : tx'[q] = IF q = w THEN t ELSE tx[q]
  BY <1>6, WorkerOf
<1>10. TypeOK'
  <2>1. worker' \in [Workers -> WorkerRecord]
    BY <1>1, <1>2, <1>7 DEF JobTypeOK
  <2>2. tx' \in [Procs -> TxRecord]
    BY <1>6, WorkerOf
  <2> QED
    BY <1>1, <1>2, <2>1, <2>2
       DEF TypeOK, StoreTypeOK, GatewayTypeOK, ReqTypeOK, JobTypeOK
<1>11. RequestLocals'
  BY <1>1 DEF RequestLocals
<1>12. WorkerLocals'
  BY <1>1, <1>3, <1>7, <1>8 DEF WorkerLocals, WorkerAt
<1>13. RequestTx'
  <2> SUFFICES ASSUME NEW p \in Requests PROVE RequestTxOf(p)'
    BY DEF RequestTx
  <2>1. req'[p] = req[p] /\ tx'[p] = tx[p] /\ RequestTxOf(p) /\ feeds' = feeds
    BY <1>1, <1>2, <1>9 DEF RequestTx
  <2> QED
    BY <2>1 DEF RequestTxOf, OpenRequest, FetchedRow, At, Live
<1>14. WorkerTx'
  <2>1. feeds' = feeds
    BY <1>2
  <2>2. ASSUME NEW v \in Workers, v # w
        PROVE  worker'[v] = worker[v] /\ tx'[v] = tx[v]
    BY <1>8, <1>9, <2>2
  <2>3. worker'[w] = r /\ tx'[w] = t
    BY <1>8, <1>9
  <2>4. t = [NoTx EXCEPT !.id = r.due.feed, !.stat = Fetched(CursorOf(r.doc))]
    BY <1>7
  <2>5. r.pc = "commit" /\ ItemsOf[r.doc] = {} /\ Live(r.due.feed)
    BY <1>3, <1>4, <1>7
  <2> HIDE DEF t
  <2>6. ASSUME NEW v \in Workers
        PROVE  /\ worker'[v].pc # "commit" => tx'[v] = NoTx
               /\ worker'[v].pc = "articles" =>
                    /\ worker'[v].todo = ItemsOf[worker'[v].doc]
                    /\ ~Live(worker'[v].owner)
               /\ worker'[v].pc = "commit" =>
                    /\ ItemsOf[worker'[v].doc] = {}
                    /\ Live(worker'[v].due.feed)
                    /\ tx'[v] = [NoTx EXCEPT !.id = worker'[v].due.feed,
                                       !.stat = Fetched(CursorOf(worker'[v].doc))]
    <3>1. CASE v = w
      BY <2>3, <2>4, <2>5, <3>1
    <3>2. CASE v # w
      BY <1>1, <2>2, <3>2 DEF WorkerTx, WorkerAt
    <3> QED
      BY <3>1, <3>2
  <2> QED
    BY <2>1, <2>6 DEF WorkerTx, WorkerAt, Live
<1>15. NewIds'
  <2>1. \A v \in Workers :
          /\ worker'[v].owner = worker[v].owner
          /\ worker'[v].due = worker[v].due
          /\ worker'[v].pc # "idle" => ~WorkerAt(v, "idle")
    BY <1>2, <1>7, <1>8 DEF WorkerAt
  <2> QED
    BY <1>1, <1>2, <2>1 DEF NewIds, Registering, Live, WorkerAt
<1>16. PendingRows'
  <2>1. \A p \in Requests : tx'[p] = tx[p]
    BY <1>9
  <2>2. feeds' = feeds /\ LiveFeeds' = LiveFeeds
    BY <1>2 DEF LiveFeeds, Live
  <2> QED
    BY <1>1, <2>1, <2>2 DEF PendingRows
<1>17. SnapshotsCovered'
  <2>1. \A s : Covered(s)' <=> Covered(s)
    BY <1>2 DEF Covered, Live
  <2> QED
    BY <1>1, <1>2, <1>7, <1>8, <2>1 DEF SnapshotsCovered, WorkerAt
<1>18. TablesOK'
  BY <1>1, <1>2, TablesKept DEF tables
<1> QED
  BY <1>10, <1>11, <1>12, <1>13, <1>14, <1>15, <1>16, <1>17, <1>18 DEF IInv, TablesOK

\* Every step of a worker preserves the invariant.
LEMMA RefreshingStep ==
  ASSUME IInv, NEW w \in Workers, Refreshing(w)
  PROVE  IInv'
BY RefreshReads, GiveUpStep, RecordOutcomeStep, NoDueArticle, WriteDueStatusStep, CommitDueStep
   DEF Refreshing, WorkerNext

\* A publisher replaces a document: what was fetched and stored stays as it is.
LEMMA PublishingStep ==
  ASSUME IInv, Publishing
  PROVE  IInv'
<1> USE DEF tables, jobVars
<1>1. /\ StoreTypeOK /\ GatewayTypeOK /\ ReqTypeOK /\ JobTypeOK
      /\ RequestLocals /\ WorkerLocals /\ RequestTx /\ WorkerTx
      /\ NewIds /\ PendingRows /\ SnapshotsCovered /\ TablesOK
  BY DEF IInv, TypeOK, TablesOK
<1>2. /\ UNCHANGED <<feeds, articles, status, tx, req, jobCtx, batch, worker>>
      /\ upstream' \in [Urls -> Docs]
  BY <1>1 DEF Publishing, Publish, GatewayTypeOK
<1>3. TypeOK'
  BY <1>1, <1>2 DEF TypeOK, StoreTypeOK, GatewayTypeOK, ReqTypeOK, JobTypeOK
<1>4. RequestLocals' /\ WorkerLocals'
  BY <1>1, <1>2 DEF RequestLocals, WorkerLocals, WorkerAt
<1>5. RequestTx'
  BY <1>1, <1>2, TxOfKept DEF RequestTx
<1>6. WorkerTx'
  BY <1>1, <1>2 DEF WorkerTx, WorkerAt, Live
<1>7. NewIds' /\ PendingRows' /\ SnapshotsCovered'
  BY <1>1, <1>2
     DEF NewIds, Registering, PendingRows, LiveFeeds, SnapshotsCovered, Covered, Live, WorkerAt
<1>8. TablesOK'
  BY <1>1, <1>2, TablesKept
<1> QED
  BY <1>3, <1>4, <1>5, <1>6, <1>7, <1>8 DEF IInv, TablesOK

\* Nothing is in flight.
Resting ==
  /\ tx = [p \in Procs |-> NoTx]
  /\ req = [p \in Requests |-> IdleReq]
  /\ jobCtx = "none" /\ batch = {} /\ worker = [w \in Workers |-> IdleWorker]

\* With nothing in flight the invariant is that of the tables.
LEMMA AtRest == StoreTypeOK /\ GatewayTypeOK /\ TablesOK /\ Resting => IInv
<1> SUFFICES ASSUME StoreTypeOK, GatewayTypeOK, TablesOK, Resting PROVE IInv
  OBVIOUS
<1> USE DEF Resting
<1> USE ProcsDistinct
<1>1. \A p \in Requests : req[p].pc = "idle" /\ tx[p] = NoTx
  BY DEF IdleReq
<1>2. \A w \in Workers : WorkerAt(w, "idle") /\ tx[w] = NoTx
  BY DEF IdleWorker, WorkerAt
<1>3. IdleReq \in ReqRecord /\ IdleWorker \in WorkerRecord
  BY DEF IdleReq, ReqRecord, IdleWorker, WorkerRecord
<1>4. TypeOK
  BY <1>3 DEF TypeOK, ReqTypeOK, JobTypeOK
<1>5. RequestLocals /\ WorkerLocals
  BY <1>1, <1>2 DEF RequestLocals, LocalsSet, Steps, InTx, WorkerLocals, WorkerAt
<1>6. RequestTx /\ WorkerTx
  BY <1>1, <1>2 DEF RequestTx, RequestTxOf, At, WorkerTx, WorkerAt
<1>7. NewIds /\ PendingRows /\ SnapshotsCovered
  BY <1>1, <1>2, NoTxType DEF NewIds, Registering, InTx, PendingRows, SnapshotsCovered
<1> QED
  BY <1>4, <1>5, <1>6, <1>7 DEF IInv, TablesOK

\* The process dies and is started again on the tables it left.
LEMMA CrashStep == IInv /\ Crash => IInv'
<1>1. IInv /\ Crash => StoreTypeOK' /\ GatewayTypeOK' /\ TablesOK'
  <2> SUFFICES ASSUME IInv, Crash PROVE StoreTypeOK' /\ GatewayTypeOK' /\ TablesOK'
    OBVIOUS
  <2>1. StoreTypeOK /\ GatewayTypeOK /\ TablesOK
    BY DEF IInv, TypeOK, TablesOK
  <2>2. UNCHANGED <<tables, upstream>> /\ tx' = [p \in Procs |-> NoTx]
    BY DEF Crash
  <2> QED
    BY <2>1, <2>2, TablesKept, NoTxType DEF StoreTypeOK, GatewayTypeOK, tables
<1>2. Crash => Resting'
  BY DEF Crash, Resting
<1> QED
  BY <1>1, <1>2, AtRest, PTL

\* The service starts on empty tables.
THEOREM InitIInv == Init => IInv
<1> SUFFICES ASSUME Init PROVE IInv
  OBVIOUS
<1>1. StoreTypeOK /\ GatewayTypeOK
  BY NoTxType DEF Init, StoreInit, StoreTypeOK, GatewayInit, GatewayTypeOK
<1>2. TablesOK
  BY DEF Init, StoreInit, TablesOK, UniqueSubscriptions, Scheduled, CursorNeverAhead,
         LiveFeeds, Live
<1> QED
  BY <1>1, <1>2, AtRest DEF Init, StoreInit, ReqInit, JobInit, Resting

\* No step of a request, a worker, the job, a publisher, the clock or a crash
\* leaves the invariant.
THEOREM NextIInv == IInv /\ [Next]_vars => IInv'
<1> SUFFICES ASSUME IInv, [Next]_vars PROVE IInv'
  OBVIOUS
<1>1. ASSUME NEW p \in Requests, Serving(p) PROVE IInv'
  BY <1>1, ServingStep
<1>2. ASSUME NEW w \in Workers, Refreshing(w) PROVE IInv'
  BY <1>2, RefreshingStep
<1>3. CASE Picking \/ Ending \/ Expiring
  BY <1>3, BatchSteps
<1>4. CASE Publishing
  BY <1>4, PublishingStep
<1>5. CASE Elapsing
  BY <1>5, ElapsingStep
<1>6. CASE Crash
  BY <1>6, CrashStep
<1>7. CASE UNCHANGED vars
  <2>1. /\ UNCHANGED <<tables, upstream, req, jobCtx, batch, worker, tx>>
    BY <1>7 DEF vars, tables
  <2>2. /\ worker \in [Workers -> WorkerRecord] /\ tx \in [Procs -> TxRecord]
        /\ jobCtx \in {"none", "live", "dead"}
    BY DEF IInv, TypeOK, StoreTypeOK, JobTypeOK
  <2> QED
    BY <2>1, <2>2, JobReads
<1> QED
  BY <1>1, <1>2, <1>3, <1>4, <1>5, <1>6, <1>7 DEF Next

\* The inductive invariant holds in every state the service reaches.
THEOREM InvariantHolds == Spec => []IInv
BY InitIInv, NextIInv, PTL DEF Spec

\* Every variable keeps its type.
THEOREM TypeSafe == Spec => []TypeOK
<1>1. IInv => TypeOK
  BY DEF IInv
<1> QED
  BY <1>1, InvariantHolds, PTL

\* However many registrations and refreshes race, no two subscriptions ever
\* share a feed URL or a website.
THEOREM SubscriptionsUnique == Spec => []UniqueSubscriptions
<1>1. IInv => UniqueSubscriptions
  BY DEF IInv
<1> QED
  BY <1>1, InvariantHolds, PTL

\* However deletions, refreshes, failures and crashes interleave, a feed always
\* has its fetch status, and no status or article outlives its feed.
THEOREM FeedsScheduled == Spec => []Scheduled
<1>1. IInv => Scheduled
  BY DEF IInv
<1> QED
  BY <1>1, InvariantHolds, PTL

\* No validator is ever stored for a document whose items are not all stored,
\* whatever stale snapshots the job writes back.
THEOREM CursorsCovered == Spec => []CursorNeverAhead
<1>1. IInv => CursorNeverAhead
  BY DEF IInv
<1> QED
  BY <1>1, InvariantHolds, PTL

\* The transaction of a request or worker is open only at these steps, and has
\* written a status only before its commit.
LEMMA OpenAt ==
  ASSUME IInv, NEW q \in Procs, tx[q].row # None \/ tx[q].stat # None
  PROVE  /\ \/ Committing(q)
            \/ q \in Requests /\ req[q].pc \in {"site", "articles", "cascade"}
         /\ tx[q].stat # None => Committing(q)
<1>1. RequestTx /\ WorkerTx
  BY DEF IInv
<1>2. tx[q] # NoTx
  BY NoTxType
<1>3. CASE q \in Requests
  <2>1. RequestTxOf(q)
    BY <1>1, <1>3 DEF RequestTx
  <2>2. req[q].pc \in Holding
    BY <1>2, <2>1 DEF RequestTxOf
  <2>3. req[q].pc \in {"site", "articles", "cascade"} => tx[q].stat = None
    BY <1>2, <2>1 DEF RequestTxOf, At, NoTx
  <2> QED
    BY <1>3, <2>2, <2>3 DEF Committing, Holding, At
<1>4. CASE q \in Workers
  <2>1. \A w \in Workers : ~WorkerAt(w, "commit") => tx[w] = NoTx
    BY <1>1, Zenon DEF WorkerTx
  <2> QED
    BY <1>2, <1>4, <2>1, ProcsDistinct DEF Committing
<1> QED
  BY <1>3, <1>4, ProcsSplit

\* A process that is waited for has locked something; a worker waits for a status only.
LEMMA WaitedFor ==
  ASSUME NEW p, NEW q, Waits(p, q)
  PROVE  /\ tx[q].row # None \/ tx[q].stat # None
         /\ p \notin Requests => tx[q].stat # None
         /\ p \in Requests /\ req[p].pc \in {"articles", "cascade"} => tx[q].stat # None
         /\ p \in Requests => req[p].pc \in {"save", "site", "articles", "delete", "cascade"}
BY DEF Waits, RequestWaits, WorkerWaits, HoldsFeed, HoldsUrl, HoldsSite, HoldsStatus, Versions, At

\* Every transaction that is waited for goes on, and comes to its commit without
\* waiting for more than one that is about to commit, unless it stands at the index
\* of website_url; there it delays no goroutine of the job, and of the requests only
\* those that hold nothing or stand there too.
THEOREM WaitsEndAtCommit == Spec => []NoDeadlock
<1>1. ASSUME IInv PROVE NoDeadlock
  <2> SUFFICES ASSUME NEW p \in Procs, NEW q \in Procs, Waits(p, q), ~GoesOn(q)
               PROVE  {p, q} \subseteq Requests /\ At(q, "site") /\ (At(p, "site") \/ tx[p] = NoTx)
    BY DEF NoDeadlock
  <2>1. /\ q \in Requests /\ req[q].pc \in {"site", "articles", "cascade"}
        /\ tx[q].stat = None
    BY <1>1, OpenAt, WaitedFor DEF GoesOn
  <2>2. ASSUME NEW r \in Procs, Waits(q, r), req[q].pc \in {"articles", "cascade"}
        PROVE  Committing(r)
    BY <1>1, <2>1, <2>2, WaitedFor, OpenAt
  <2>3. At(q, "site")
    BY <2>1, <2>2 DEF GoesOn, At
  <2>4. p \in Requests /\ req[p].pc \in {"save", "site", "delete"}
    BY <2>1, WaitedFor
  <2>5. req[p].pc \in {"save", "delete"} => tx[p] = NoTx
    BY <1>1, <2>4, TxOf DEF RequestTxOf, Holding
  <2> QED
    BY <2>1, <2>3, <2>4, <2>5 DEF At
<1> QED
  BY <1>1, InvariantHolds, PTL

\* A request at the index of website_url that another one there waits for moves its
\* feed away from the website the other one wants: its new row is not in the index yet.
LEMMA LeavesWanted ==
  ASSUME IInv, NEW p \in Requests, NEW q \in Requests,
         At(p, "site"), At(q, "site"), RequestWaits(p, q)
  PROVE  req[q].op = "refresh" /\ feeds[req[q].feed].site = Wanted(p)
<1>1. HoldsSite(q, Wanted(p))
  BY DEF RequestWaits, At
<1>2. /\ tx[q].id = req[q].feed
      /\ tx[q].row = [url |-> req[q].url, site |-> None]
      /\ RequestTxOf(q)
  <2>1. RequestTxOf(q)
    BY TxOf
  <2>2. tx[q] = [NoTx EXCEPT !.id = req[q].feed, !.row = [url |-> req[q].url, site |-> None]]
    BY <2>1 DEF RequestTxOf
  <2> QED
    BY <2>1, <2>2 DEF NoTx
<1>3. Wanted(p) # None
  <2>1. req[p].doc \in Docs
    BY LocalsOf DEF LocalsSet, InTx, At
  <2> QED
    BY <2>1, GatewayAssumption, NoneIsNew DEF Wanted
<1>4. PICK row \in Versions(q) : row.site = Wanted(p)
  BY <1>1 DEF HoldsSite
<1>5. row # tx[q].row
  BY <1>2, <1>3, <1>4
<1>6. Live(req[q].feed) /\ row = feeds[req[q].feed]
  BY <1>2, <1>4, <1>5 DEF Versions, LiveFeeds
<1>7. req[q].op # "refresh" => ~Live(req[q].feed)
  BY DEF IInv, NewIds, Registering, InTx, At
<1> QED
  BY <1>4, <1>6, <1>7

\* Requests wait in a circle only where refreshes swap the websites of their feeds.
THEOREM OnlySwapsDeadlock == Spec => []SwapsOnly
<1>1. ASSUME IInv PROVE SwapsOnly
  <2> SUFFICES ASSUME NEW S \in SUBSET Requests, NEW next \in [S -> S], NEW p \in S,
                      \A o \in S : RequestWaits(o, next[o]),
                      \A o \in S : \E x \in S : next[x] = o
               PROVE  /\ At(p, "site") /\ req[p].op = "refresh"
                      /\ \E q \in S \ {p} : feeds[req[q].feed].site = Wanted(p)
    BY DEF SwapsOnly, Circle
  <2>1. \A o \in S : Waits(o, next[o])
    BY DEF Waits, RequestWaits
  <2>2. ASSUME NEW o \in S
        PROVE  At(o, "site")
    <3>1. PICK x \in S : next[x] = o
      OBVIOUS
    <3>2. Waits(x, o) /\ Waits(o, next[o]) /\ o \in Requests /\ next[o] \in Requests
      BY <2>1, <3>1
    <3>3. Waits(next[o], next[next[o]])
      BY <2>1
    <3>4. \A y \in S : ~Committing(y)
      BY <2>1, WaitedFor DEF Committing, At
    <3>5. tx[next[o]].stat = None
      BY <1>1, <3>2, <3>4, OpenAt, ProcsDistinct
    <3>6. req[o].pc \in {"site", "articles", "cascade"}
      BY <1>1, <3>2, <3>4, WaitedFor, OpenAt, ProcsDistinct
    <3>7. req[o].pc \notin {"articles", "cascade"}
      BY <3>2, <3>5, WaitedFor
    <3> QED
      BY <3>6, <3>7 DEF At
  <2>3. \A o \in S : req[next[o]].op = "refresh" /\ feeds[req[next[o]].feed].site = Wanted(o)
    BY <1>1, <2>2, LeavesWanted
  <2>4. req[p].op = "refresh"
    BY <2>3
  <2>5. next[p] # p
    BY DEF RequestWaits
  <2> QED
    BY <2>2, <2>3, <2>4, <2>5
<1> QED
  BY <1>1, InvariantHolds, PTL
=============================================================================
