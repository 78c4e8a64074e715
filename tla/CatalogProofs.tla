--------------------------- MODULE CatalogProofs ---------------------------
(***************************************************************************)
(* The service implements Catalog: every step of a request, a worker, the  *)
(* job, a publisher, the clock or a crash is a step of Catalog or leaves   *)
(* it alone, for any number of feeds, requests and workers and any faults. *)
(*                                                                         *)
(* An operation takes effect with the commit of its transaction or with    *)
(* its DELETE; an error answer leaves the tables alone, unless the reply   *)
(* to either was lost.                                                     *)
(***************************************************************************)
EXTENDS FeedServiceProofs

AbstractStep == [Abstract!Next]_(Abstract!vars)

\* What Catalog sees of the requests.
CallMap == [q \in Requests |-> CallOf(req[q])]

\* The locals of request p become r: Catalog sees the call they stand for.
LEMMA CallIs ==
  ASSUME IInv, NEW p \in Requests, NEW r, req' = [req EXCEPT ![p] = r]
  PROVE  CallMap' = [CallMap EXCEPT ![p] = CallOf(r)]
<1>1. \A q \in Requests : req'[q] = IF q = p THEN r ELSE req[q]
  BY DEF IInv, TypeOK, ReqTypeOK
<1>2. \A q \in Requests : CallOf(req'[q]) = IF q = p THEN CallOf(r) ELSE CallOf(req[q])
  BY <1>1
<1> QED
  BY <1>2, Zenon DEF CallMap

\* A request answers: Catalog sees the answer.
LEMMA ReplyIs ==
  ASSUME IInv, NEW p \in Requests, NEW r, NEW a, req' = [req EXCEPT ![p] = r],
         CallOf(r) = [what |-> a, on |-> None]
  PROVE  Abstract!Reply(p, a)
<1>1. CallMap' = [CallMap EXCEPT ![p] = [what |-> a, on |-> None]]
  BY CallIs
<1> QED
  BY <1>1 DEF Abstract!Reply, CallMap

\* A step that writes no table and changes no call is invisible.
LEMMA Invisible ==
  ASSUME IInv, NEW p \in Requests, NEW r, req' = [req EXCEPT ![p] = r],
         UNCHANGED tables, CallOf(r) = CallOf(req[p])
  PROVE  AbstractStep
<1>1. \A q \in Requests : req'[q] = IF q = p THEN r ELSE req[q]
  BY DEF IInv, TypeOK, ReqTypeOK
<1>2. \A q \in Requests : CallOf(req'[q]) = CallOf(req[q])
  BY <1>1
<1> QED
  BY <1>2 DEF AbstractStep, Abstract!vars, tables

\* So is a step that changes neither a table nor a request.
LEMMA JobInvisible == UNCHANGED <<tables, req>> => AbstractStep
BY DEF AbstractStep, Abstract!vars, tables

-----------------------------------------------------------------------------
(* What the mapping needs beyond IInv. *)

\* A step belongs to an operation that takes it, and a discovery goes on with the
\* first candidate of its website; an answer is one of Answers.
CallKnown(r) ==
    /\ r.pc \in {"lookup", "discover"} => r.op = "discover"
    /\ r.pc = "check" => r.op \in {"register", "discover"}
    /\ r.pc = "load" => r.op = "refresh"
    /\ r.pc \in {"delete", "cascade"} => r.op = "delete"
    /\ r.pc \in {"fetch"} \cup InTx => r.op \in {"register", "discover", "refresh"}
    /\ r.op = "discover" /\ r.pc \in {"check", "fetch"} \cup InTx =>
         /\ r.site \in Sites
         /\ CandidatesOf[r.site] # <<>>
         /\ r.url = Head(CandidatesOf[r.site])
    /\ r.pc = "answered" => r.answer \in Answers
    /\ r.pc \in {"articles", "commit"} => r.todo \subseteq ItemsOf[r.doc]

\* A transaction holds no article that is not in the document.
OnlyItems(p) ==
    req[p].pc \in {"articles", "commit"} =>
        tx[p].arts \subseteq {req[p].feed} \X ItemsOf[req[p].doc]

\* The feed URL a refresh has read is still the feed's.
UrlRead(r) ==
    r.pc \in {"fetch"} \cup InTx /\ r.op = "refresh" /\ Live(r.feed) =>
        feeds[r.feed].url = r.url

MInv == \A p \in Requests : CallKnown(req[p]) /\ OnlyItems(p) /\ UrlRead(req[p])

\* A step of request p that writes no table.
LEMMA MappingKept ==
  ASSUME IInv, MInv, NEW p \in Requests, NEW r,
         req' = [req EXCEPT ![p] = r], UNCHANGED tables,
         \A q \in Requests \ {p} : tx'[q] = tx[q],
         CallKnown(r), UrlRead(r),
         r.pc \in {"articles", "commit"} =>
             tx'[p].arts \subseteq {r.feed} \X ItemsOf[r.doc]
  PROVE  MInv'
<1>1. \A q \in Requests : req'[q] = IF q = p THEN r ELSE req[q]
  BY DEF IInv, TypeOK, ReqTypeOK
<1>2. ASSUME NEW q \in Requests, q # p
      PROVE  CallKnown(req[q])' /\ OnlyItems(q)' /\ UrlRead(req[q])'
  BY <1>1, <1>2 DEF MInv, CallKnown, OnlyItems, UrlRead, Live, tables
<1>3. CallKnown(req[p])' /\ OnlyItems(p)' /\ UrlRead(req[p])'
  BY <1>1 DEF CallKnown, OnlyItems, UrlRead, Live, tables
<1> QED
  BY <1>2, <1>3 DEF MInv

\* A step of anyone else that leaves the feeds alone.
LEMMA MappingUntouched ==
  ASSUME MInv, UNCHANGED <<feeds, req>>, \A q \in Requests : tx'[q] = tx[q]
  PROVE  MInv'
BY DEF MInv, CallKnown, OnlyItems, UrlRead, Live

-----------------------------------------------------------------------------
(* A request before its effect. *)

LEMMA CallOfAnswer ==
  ASSUME NEW code \in Answers
  PROVE  LET r == [IdleReq EXCEPT !.pc = "answered", !.answer = code]
         IN  /\ CallOf(r) = [what |-> code, on |-> None]
             /\ CallKnown(r) /\ UrlRead(r) /\ r.pc = "answered"
BY DEF IdleReq, CallOf, CalledOn, CallKnown, UrlRead, InTx

\* The request is in the middle of an operation, and Catalog sees which and on what.
LEMMA InOperation ==
  ASSUME IInv, NEW p \in Requests, req[p].pc \in Steps
  PROVE  /\ CallMap[p] = CallOf(req[p])
         /\ CallOf(req[p]).what = req[p].op /\ req[p].op \in Ops
         /\ req[p].op = "register" => CallOf(req[p]).on = req[p].url
         /\ req[p].op = "discover" => CallOf(req[p]).on = req[p].site
         /\ req[p].op \in {"refresh", "delete"} => CallOf(req[p]).on = req[p].feed
         /\ Abstract!Called(p)
<1>1. req[p].op \in Ops /\ req[p].pc \notin {"idle", "answered"}
  BY LocalsOf DEF LocalsSet, Steps
<1>2. /\ CallOf(req[p]).what = req[p].op
      /\ req[p].op = "register" => CallOf(req[p]).on = req[p].url
      /\ req[p].op = "discover" => CallOf(req[p]).on = req[p].site
      /\ req[p].op \in {"refresh", "delete"} => CallOf(req[p]).on = req[p].feed
  BY <1>1 DEF CallOf, CalledOn, Ops
<1> QED
  BY <1>1, <1>2 DEF CallMap, Abstract!Called, Ops

\* An error answer that leaves the tables alone refuses the operation.
LEMMA RefusalMaps ==
  ASSUME IInv, MInv, NEW p \in Requests, NEW code \in Abstract!Refusals,
         req[p].pc \in Steps, Answer(p, code), UNCHANGED tables,
         \A q \in Requests \ {p} : tx'[q] = tx[q],
         code = "conflict" => req[p].op # "delete" /\ \E f \in FeedIds : Live(f),
         code = "not_found" => req[p].op \in {"refresh", "discover"}
  PROVE  AbstractStep /\ MInv'
<1> DEFINE r == [IdleReq EXCEPT !.pc = "answered", !.answer = code]
<1>1. code \in Answers
  BY DEF Abstract!Refusals, Answers
<1>2. CallOf(r) = [what |-> code, on |-> None] /\ CallKnown(r) /\ UrlRead(r) /\ r.pc = "answered"
  BY <1>1, CallOfAnswer
<1>3. req' = [req EXCEPT ![p] = r]
  BY DEF Answer
<1> HIDE DEF r
<1>4. Abstract!Reply(p, code)
  BY <1>2, <1>3, ReplyIs
<1>5. Abstract!Called(p) /\ CallMap[p].what = req[p].op
  BY InOperation
<1>6. Abstract!Refuse(p)
  BY <1>4, <1>5 DEF Abstract!Refuse, Abstract!catalog, Abstract!Exists, Live, tables, CallMap
<1>7. MInv'
  BY <1>2, <1>3, MappingKept
<1> QED
  BY <1>6, <1>7 DEF AbstractStep, Abstract!Next

LEMMA ArriveMaps ==
  ASSUME IInv, MInv, NEW p \in Requests, ArriveNext(p)
  PROVE  AbstractStep /\ MInv'
<1>1. req[p].pc = "idle" /\ UNCHANGED <<tables, tx>>
  BY ArriveRecord
<1>2. PICK r :
        /\ req' = [req EXCEPT ![p] = r]
        /\ \/ \E u \in Urls :
                r = [IdleReq EXCEPT !.pc = "check", !.op = "register", !.url = u]
           \/ \E s \in Sites :
                r = [IdleReq EXCEPT !.pc = "lookup", !.op = "discover", !.site = s]
           \/ \E f \in FeedIds :
                r = [IdleReq EXCEPT !.pc = "load", !.op = "refresh", !.feed = f]
           \/ \E f \in FeedIds :
                r = [IdleReq EXCEPT !.pc = "delete", !.op = "delete", !.feed = f]
  BY ArriveRecord
<1>3. CallKnown(r) /\ UrlRead(r) /\ r.pc \notin {"articles", "commit"}
  BY <1>2, ZenonT(60) DEF IdleReq, CallKnown, UrlRead, InTx
<1>4. CallOf(r) \in Abstract!Calls
  BY <1>2 DEF IdleReq, CallOf, CalledOn, Abstract!Calls
<1>5. Abstract!Call(p)
  <2>1. CallMap' = [CallMap EXCEPT ![p] = CallOf(r)]
    BY <1>2, CallIs
  <2>2. CallMap[p] = Abstract!Idle
    BY <1>1 DEF CallMap, CallOf, Abstract!Idle
  <2> QED
    BY <1>1, <1>4, <2>1, <2>2 DEF Abstract!Call, Abstract!catalog, tables, CallMap
<1>6. MInv'
  BY <1>1, <1>2, <1>3, MappingKept
<1> QED
  BY <1>5, <1>6 DEF AbstractStep, Abstract!Next

LEMMA RespondMaps ==
  ASSUME IInv, MInv, NEW p \in Requests, Respond(p)
  PROVE  AbstractStep /\ MInv'
<1>1. /\ req' = [req EXCEPT ![p] = IdleReq] /\ UNCHANGED <<tables, tx>>
      /\ req[p].pc = "answered" /\ req[p].answer \in Answers
  BY DEF Respond, At, MInv, CallKnown
<1>2. CallOf(IdleReq) = Abstract!Idle /\ CallKnown(IdleReq) /\ UrlRead(IdleReq) /\ IdleReq.pc = "idle"
  BY DEF IdleReq, CallOf, CalledOn, CallKnown, UrlRead, InTx, Abstract!Idle
<1>3. Abstract!Reply(p, "idle")
  BY <1>1, <1>2, ReplyIs DEF Abstract!Idle
<1>4. ~Abstract!Called(p)
  BY <1>1 DEF CallOf, CalledOn, Answers, Abstract!Called
<1>5. Abstract!Return(p)
  BY <1>1, <1>3, <1>4 DEF Abstract!Return, Abstract!catalog, tables
<1>6. MInv'
  BY <1>1, <1>2, MappingKept
<1> QED
  BY <1>5, <1>6 DEF AbstractStep, Abstract!Next

\* A step inside an operation that answers nothing and writes no table.
LEMMA SilentMaps ==
  ASSUME IInv, MInv, NEW p \in Requests, NEW r,
         req[p].pc \in Steps, r.pc \in Steps, r.op = req[p].op, r.site = req[p].site,
         r.op = "register" => r.url = req[p].url,
         r.op \in {"refresh", "delete"} => r.feed = req[p].feed,
         req' = [req EXCEPT ![p] = r], UNCHANGED tables,
         \A q \in Requests \ {p} : tx'[q] = tx[q],
         CallKnown(r), UrlRead(r),
         r.pc \in {"articles", "commit"} =>
             tx'[p].arts \subseteq {r.feed} \X ItemsOf[r.doc]
  PROVE  AbstractStep /\ MInv'
<1>1. req[p].op \in Ops
  BY InOperation
<1>2. CallOf(r) = CallOf(req[p])
  BY <1>1 DEF CallOf, CalledOn, Steps, Ops
<1> QED
  BY <1>2, Invisible, MappingKept

LEMMA ReadMaps ==
  ASSUME IInv, MInv, NEW p \in Requests, ReadNext(p)
  PROVE  AbstractStep /\ MInv'
<1>1. /\ req[p].pc \in Steps /\ UNCHANGED <<tables, tx>>
      /\ req[p] \in ReqRecord /\ LocalsSet(req[p]) /\ CallKnown(req[p]) /\ UrlRead(req[p])
  BY LocalsOf DEF ReadNext, CheckURL, LookupWebsite, DiscoverFeedURLs, GetFeedByID, At, Steps, MInv
<1>2. CASE CheckURL(p) /\ ~Answer(p, "conflict")
  <2> DEFINE r == [req[p] EXCEPT !.pc = "fetch"]
  <2>1. req' = [req EXCEPT ![p] = r] /\ req[p].pc = "check"
    BY <1>2 DEF CheckURL, Goto, At
  <2>2. /\ r.pc = "fetch" /\ r.op = req[p].op
        /\ r.feed = req[p].feed /\ r.url = req[p].url /\ r.site = req[p].site
    BY <1>1 DEF ReqRecord
  <2> HIDE DEF r
  <2>3. CallKnown(r) /\ UrlRead(r)
    BY <1>1, <2>1, <2>2 DEF CallKnown, UrlRead, InTx
  <2>4. r.pc \in Steps /\ r.pc \notin {"articles", "commit"}
    BY <2>2 DEF Steps
  <2> QED
    BY <1>1, <2>1, <2>2, <2>3, <2>4, SilentMaps
<1>3. CASE LookupWebsite(p) /\ ~Answer(p, "conflict")
  <2> DEFINE r == [req[p] EXCEPT !.pc = "discover"]
  <2>1. req' = [req EXCEPT ![p] = r] /\ req[p].pc = "lookup"
    BY <1>3 DEF LookupWebsite, Goto, At
  <2>2. /\ r.pc = "discover" /\ r.op = req[p].op
        /\ r.feed = req[p].feed /\ r.url = req[p].url /\ r.site = req[p].site
    BY <1>1 DEF ReqRecord
  <2> HIDE DEF r
  <2>3. CallKnown(r) /\ UrlRead(r)
    BY <1>1, <2>1, <2>2 DEF CallKnown, UrlRead, InTx
  <2>4. r.pc \in Steps /\ r.pc \notin {"articles", "commit"}
    BY <2>2 DEF Steps
  <2> QED
    BY <1>1, <2>1, <2>2, <2>3, <2>4, SilentMaps
<1>4. CASE DiscoverFeedURLs(p) /\ ~Answer(p, "not_found")
  <2> DEFINE r == [req[p] EXCEPT !.pc = "check", !.url = Head(CandidatesOf[req[p].site])]
  <2>1. req' = [req EXCEPT ![p] = r] /\ req[p].pc = "discover"
    BY <1>4 DEF DiscoverFeedURLs, At
  <2>2. /\ r.pc = "check" /\ r.op = req[p].op
        /\ r.feed = req[p].feed /\ r.url = Head(CandidatesOf[req[p].site])
        /\ r.site = req[p].site /\ r.op = "discover"
        /\ r.site \in Sites /\ CandidatesOf[r.site] # <<>>
    BY <1>1, <1>4, <2>1 DEF ReqRecord, CallKnown, LocalsSet, DiscoverFeedURLs
  <2> HIDE DEF r
  <2>3. CallKnown(r) /\ UrlRead(r)
    BY <1>1, <2>1, <2>2 DEF CallKnown, UrlRead, InTx
  <2>4. r.pc \in Steps /\ r.pc \notin {"articles", "commit"}
    BY <2>2 DEF Steps
  <2> QED
    BY <1>1, <2>1, <2>2, <2>3, <2>4, SilentMaps
<1>5. CASE GetFeedByID(p) /\ ~Answer(p, "not_found")
  <2> DEFINE r == [req[p] EXCEPT !.pc = "fetch", !.url = feeds[req[p].feed].url]
  <2>1. req' = [req EXCEPT ![p] = r] /\ req[p].pc = "load"
    BY <1>5 DEF GetFeedByID, At
  <2>2. /\ r.pc = "fetch" /\ r.op = req[p].op
        /\ r.feed = req[p].feed /\ r.url = feeds[req[p].feed].url
        /\ r.site = req[p].site /\ r.op = "refresh"
    BY <1>1, <2>1 DEF ReqRecord, CallKnown
  <2> HIDE DEF r
  <2>3. CallKnown(r) /\ UrlRead(r)
    BY <1>1, <2>1, <2>2 DEF CallKnown, UrlRead, InTx
  <2>4. r.pc \in Steps /\ r.pc \notin {"articles", "commit"}
    BY <2>2 DEF Steps
  <2> QED
    BY <1>1, <2>1, <2>2, <2>3, <2>4, SilentMaps
<1>6. CASE (CheckURL(p) \/ LookupWebsite(p)) /\ Answer(p, "conflict")
  <2>1. CheckFeedExistsByURL(req[p].url) \/ GetFeedByWebsiteURL(websiteURLVariants(req[p].site))
    <3>1. \A q \in Requests : req'[q] = IF q = p THEN [IdleReq EXCEPT !.pc = "answered", !.answer = "conflict"] ELSE req[q]
      BY <1>6 DEF IInv, TypeOK, ReqTypeOK, Answer
    <3>2. req'[p].pc = "answered"
      BY <3>1 DEF IdleReq
    <3>3. ~Goto(p, "fetch") /\ ~Goto(p, "discover")
      BY <1>1, <3>2 DEF Goto, ReqRecord, IInv, TypeOK, ReqTypeOK
    <3> QED
      BY <1>6, <3>3 DEF CheckURL, LookupWebsite
  <2>2. \E f \in FeedIds : Live(f)
    BY <2>1 DEF CheckFeedExistsByURL, GetFeedByWebsiteURL, LiveFeeds
  <2>3. req[p].op # "delete"
    BY <1>1, <1>6 DEF CheckURL, LookupWebsite, At, CallKnown
  <2> QED
    BY <1>1, <1>6, <2>2, <2>3, RefusalMaps DEF Abstract!Refusals
<1>7. CASE (DiscoverFeedURLs(p) \/ GetFeedByID(p)) /\ Answer(p, "not_found")
  <2>1. req[p].op \in {"refresh", "discover"}
    BY <1>1, <1>7 DEF DiscoverFeedURLs, GetFeedByID, At, CallKnown
  <2> QED
    BY <1>1, <1>7, <2>1, RefusalMaps DEF Abstract!Refusals
<1> QED
  BY <1>2, <1>3, <1>4, <1>5, <1>6, <1>7 DEF ReadNext

-----------------------------------------------------------------------------
(* The transaction of a request. *)

\* A fetch names the document; the feed of a registration is fresh.
LEMMA FetchMaps ==
  ASSUME IInv, MInv, NEW p \in Requests, NEW n \in Fresh, FetchNewFeed(p, n)
  PROVE  AbstractStep /\ MInv'
<1> DEFINE d == upstream[req[p].url]
           f == IF req[p].op = "refresh" THEN req[p].feed ELSE n
           r == [req[p] EXCEPT !.pc = "save", !.doc = d, !.todo = ItemsOf[d], !.feed = f]
<1>1. /\ req[p] \in ReqRecord /\ req[p].pc = "fetch"
      /\ req' = [req EXCEPT ![p] = r] /\ UNCHANGED <<tables, tx>>
      /\ CallKnown(req[p]) /\ UrlRead(req[p])
  BY LocalsOf DEF FetchNewFeed, At, MInv
<1>2. /\ r.pc = "save" /\ r.op = req[p].op /\ r.url = req[p].url /\ r.site = req[p].site
      /\ r.op \in {"refresh", "delete"} => r.feed = req[p].feed
  BY <1>1 DEF ReqRecord, CallKnown
<1> HIDE DEF r
<1>3. CallKnown(r) /\ UrlRead(r)
  BY <1>1, <1>2 DEF CallKnown, UrlRead, InTx
<1>4. req[p].pc \in Steps /\ r.pc \in Steps /\ r.pc \notin {"articles", "commit"}
  BY <1>1, <1>2 DEF Steps
<1> QED
  BY <1>1, <1>2, <1>3, <1>4, SilentMaps

\* A statement inside the transaction.
LEMMA StatementMaps ==
  ASSUME IInv, MInv, NEW p \in Requests,
         WriteFeed(p) \/ WriteSite(p) \/ UpdateNothing(p) \/ WriteArticle(p) \/ WriteStatus(p)
  PROVE  AbstractStep /\ MInv'
<1>0. /\ req[p] \in ReqRecord /\ LocalsSet(req[p]) /\ CallKnown(req[p])
      /\ OnlyItems(p) /\ UrlRead(req[p])
      /\ p \in Procs /\ tx \in [Procs -> TxRecord] /\ tx[p] \in TxRecord /\ RequestTxOf(p)
  BY LocalsOf, TxOf DEF MInv
<1>1. CASE WriteFeed(p) \/ WriteSite(p) \/ UpdateNothing(p)
  <2> DEFINE pc == IF WriteFeed(p) THEN "site" ELSE "articles"
             r == [req[p] EXCEPT !.pc = pc]
  <2>1. req[p].pc \in {"save", "site"} /\ req' = [req EXCEPT ![p] = r] /\ UNCHANGED tables
    BY <1>1 DEF WriteFeed, WriteSite, UpdateNothing, At, Goto
  <2>2. /\ r.pc \in {"site", "articles"} /\ r.op = req[p].op /\ r.url = req[p].url
        /\ r.site = req[p].site /\ r.feed = req[p].feed /\ r.doc = req[p].doc
        /\ r.todo = req[p].todo
    BY <1>0 DEF ReqRecord
  <2> HIDE DEF r
  <2>3. CallKnown(r) /\ UrlRead(r)
    BY <1>0, <2>1, <2>2 DEF CallKnown, UrlRead, InTx, LocalsSet
  <2>4. tx[p].arts = {}
    BY <1>0, <2>1, NoTxType DEF RequestTxOf, At, Holding, NoTx
  <2>5. \E t : tx' = [tx EXCEPT ![p] = t] /\ t.arts = {}
    <3>1. CASE WriteFeed(p)
      <4>1. PICK f, row : tx' = [tx EXCEPT ![p] = [tx[p] EXCEPT !.id = f, !.row = row]]
        <5>1. SaveFeed(p, req[p].feed, req[p].url)
          BY <3>1 DEF WriteFeed, UpdateFeed
        <5>2. tx' = [tx EXCEPT ![p] = [tx[p] EXCEPT !.id = req[p].feed,
                                                    !.row = [url |-> req[p].url, site |-> None]]]
          BY <1>0, <5>1 DEF SaveFeed
        <5> QED
          BY <5>2
      <4>2. [tx[p] EXCEPT !.id = f, !.row = row].arts = {}
        BY <1>0, <2>4 DEF TxRecord
      <4> QED
        BY <4>1, <4>2
    <3>2. CASE WriteSite(p)
      <4>1. tx' = [tx EXCEPT ![p] = [tx[p] EXCEPT !.row.site = Wanted(p)]]
        BY <1>0, <3>2 DEF WriteSite, IndexSite
      <4>2. [tx[p] EXCEPT !.row.site = Wanted(p)].arts = {}
        BY <1>0, <2>4 DEF TxRecord
      <4> QED
        BY <4>1, <4>2
    <3>3. CASE UpdateNothing(p)
      BY <1>0, <2>4, <3>3 DEF UpdateNothing
    <3> QED
      BY <1>1, <3>1, <3>2, <3>3
  <2>6. /\ \A q \in Requests \ {p} : tx'[q] = tx[q]
        /\ tx'[p].arts = {}
    BY <1>0, <2>5, ProcsDistinct
  <2>7. req[p].pc \in Steps /\ r.pc \in Steps
    BY <2>1, <2>2 DEF Steps
  <2> QED
    BY <2>1, <2>2, <2>3, <2>6, <2>7, SilentMaps
<1>2. CASE WriteArticle(p)
  <2> DEFINE f == req[p].feed
  <2>0. req[p].pc = "articles" /\ UNCHANGED tables
    BY <1>2 DEF WriteArticle, At
  <2>1. PICK e \in req[p].todo :
          /\ SaveArticle(p, f, e)
          /\ req' = [req EXCEPT ![p].todo = @ \ {e}]
    BY <1>2 DEF WriteArticle
  <2> DEFINE r == [req[p] EXCEPT !.todo = @ \ {e}]
  <2>2. req' = [req EXCEPT ![p] = r]
    BY <1>0, <2>1 DEF IInv, TypeOK, ReqTypeOK
  <2>3. /\ r.pc = "articles" /\ r.op = req[p].op /\ r.url = req[p].url
        /\ r.feed = f /\ r.doc = req[p].doc /\ r.todo \subseteq req[p].todo
        /\ r.site = req[p].site
    BY <1>0, <2>0 DEF ReqRecord
  <2> HIDE DEF r
  <2>4. CallKnown(r) /\ UrlRead(r)
    BY <1>0, <2>0, <2>3 DEF CallKnown, UrlRead, InTx
  <2>5. /\ \A q \in Requests \ {p} : tx'[q] = tx[q]
        /\ tx'[p].arts = tx[p].arts \cup {<<f, e>>}
    <3>1. tx' = [tx EXCEPT ![p] = [tx[p] EXCEPT !.id = f, !.arts = @ \cup {<<f, e>>}]]
      BY <1>0, <2>1 DEF SaveArticle
    <3> QED
      BY <1>0, <3>1, ProcsDistinct DEF TxRecord
  <2>6. tx'[p].arts \subseteq {r.feed} \X ItemsOf[r.doc]
    BY <1>0, <2>0, <2>1, <2>3, <2>5 DEF OnlyItems, CallKnown
  <2>7. req[p].pc \in Steps /\ r.pc \in Steps
    BY <2>0, <2>3 DEF Steps
  <2> QED
    BY <2>0, <2>2, <2>3, <2>4, <2>5, <2>6, <2>7, SilentMaps
<1>3. CASE WriteStatus(p)
  <2> DEFINE r == [req[p] EXCEPT !.pc = "commit"]
  <2>1. req[p].pc = "articles" /\ req' = [req EXCEPT ![p] = r] /\ UNCHANGED tables
    BY <1>3 DEF WriteStatus, At, Goto
  <2>2. /\ r.pc = "commit" /\ r.op = req[p].op /\ r.url = req[p].url
        /\ r.site = req[p].site
        /\ r.feed = req[p].feed /\ r.doc = req[p].doc /\ r.todo = req[p].todo
    BY <1>0 DEF ReqRecord
  <2> HIDE DEF r
  <2>3. CallKnown(r) /\ UrlRead(r)
    BY <1>0, <2>1, <2>2 DEF CallKnown, UrlRead, InTx
  <2>4. /\ \A q \in Requests \ {p} : tx'[q] = tx[q]
        /\ tx'[p].arts = tx[p].arts
    <3> DEFINE st == Fetched(CursorOf(req[p].doc))
    <3>1. tx' = [tx EXCEPT ![p] = [tx[p] EXCEPT !.id = req[p].feed, !.stat = st]]
      BY <1>0, <1>3 DEF WriteStatus, SaveFetchStatus
    <3> QED
      BY <1>0, <3>1, ProcsDistinct DEF TxRecord
  <2>5. tx'[p].arts \subseteq {r.feed} \X ItemsOf[r.doc]
    BY <1>0, <2>1, <2>2, <2>4 DEF OnlyItems
  <2>6. req[p].pc \in Steps /\ r.pc \in Steps
    BY <2>1, <2>2 DEF Steps
  <2> QED
    BY <2>1, <2>2, <2>3, <2>4, <2>5, <2>6, SilentMaps
<1> QED
  BY <1>1, <1>2, <1>3

\* A deletion that has locked its row has done nothing yet.
LEMMA LockRowMaps ==
  ASSUME IInv, MInv, NEW p \in Requests, LockRow(p)
  PROVE  AbstractStep /\ MInv'
<1> DEFINE r == [req[p] EXCEPT !.pc = "cascade"]
<1>1. /\ req[p] \in ReqRecord /\ CallKnown(req[p]) /\ req[p].pc = "delete"
      /\ req' = [req EXCEPT ![p] = r] /\ UNCHANGED tables
  BY LocalsOf DEF MInv, LockRow, At, Goto
<1>2. /\ r.pc = "cascade" /\ r.op = req[p].op /\ r.op = "delete"
      /\ r.site = req[p].site /\ r.feed = req[p].feed
  BY <1>1 DEF ReqRecord, CallKnown
<1> HIDE DEF r
<1>3. CallKnown(r) /\ UrlRead(r)
  BY <1>2 DEF CallKnown, UrlRead, InTx
<1>4. \A q \in Requests \ {p} : tx'[q] = tx[q]
  <2>1. \E t : tx' = [tx EXCEPT ![p] = t]
    BY TxOf DEF LockRow, LockFeed
  <2> QED
    BY <2>1, TxOf, ProcsDistinct
<1>5. req[p].pc \in Steps /\ r.pc \in Steps
  BY <1>1, <1>2 DEF Steps
<1> QED
  BY <1>1, <1>2, <1>3, <1>4, <1>5, SilentMaps

\* Only a request at a statement can be in a circle of waits.
LEMMA VictimAt ==
  ASSUME NEW p \in Requests, DeadlockVictim(p)
  PROVE  req[p].pc \in Steps
<1>1. PICK S \in SUBSET Requests : p \in S /\ Circle(S)
  BY DEF DeadlockVictim
<1>2. \E q : RequestWaits(p, q)
  BY <1>1 DEF Circle
<1> QED
  BY <1>2 DEF RequestWaits, At, Steps

\* An error ends the operation: its transaction, if any, is rolled back.
LEMMA AbortMaps ==
  ASSUME IInv, MInv, NEW p \in Requests,
         FetchFails(p) \/ FetchPanics(p) \/ StatementFails(p)
         \/ WriteFeedConflicts(p) \/ FeedVanished(p) \/ DeadlockVictim(p)
  PROVE  AbstractStep /\ MInv'
<1>1. PICK code \in {"unavailable", "internal", "conflict"} :
        /\ Abort(p, code)
        /\ req[p].pc \in Steps
        /\ code = "conflict" => WriteFeedConflicts(p)
  <2>1. CASE DeadlockVictim(p)
    BY <2>1, VictimAt DEF DeadlockVictim
  <2>2. CASE WriteFeedConflicts(p)
    BY <2>2 DEF WriteFeedConflicts, At, Steps
  <2> QED
    BY <2>1, <2>2 DEF FetchFails, FetchPanics, StatementFails, FeedVanished, At, Steps
<1>2. Answer(p, code) /\ UNCHANGED tables
  BY <1>1 DEF Abort
<1>3. \A q \in Requests \ {p} : tx'[q] = tx[q]
  BY <1>1, TxOf, ProcsDistinct DEF Abort, Rollback
<1>4. code = "conflict" => req[p].op # "delete" /\ \E f \in FeedIds : Live(f)
  <2>1. WriteFeedConflicts(p) => req[p].pc \in InTx /\ \E f \in FeedIds : Live(f)
    BY DEF WriteFeedConflicts, UrlViolation, SiteViolation, LiveFeeds, At, InTx
  <2> QED
    BY <1>1, <2>1 DEF MInv, CallKnown
<1>5. code \in Abstract!Refusals /\ code # "not_found"
  BY DEF Abstract!Refusals
<1> QED
  BY <1>1, <1>2, <1>3, <1>4, <1>5, RefusalMaps

-----------------------------------------------------------------------------
(* The instant of the effect. *)

\* The commit of a registration or refresh is Subscribe or Resync.
LEMMA CommitIsEffect ==
  ASSUME IInv, MInv, NEW p \in Requests, At(p, "commit"), Commit(p)
  PROVE  Abstract!Effect(CallOf(req[p]))
<1> DEFINE f == req[p].feed
           u == req[p].url
           d == req[p].doc
           row == [url |-> u, site |-> SiteOf[d]]
<1>1. /\ f \in FeedIds /\ u \in Urls /\ d \in Docs
      /\ req[p].op \in {"register", "discover", "refresh"}
  BY LocalsOf DEF LocalsSet, InTx, At, MInv, CallKnown
<1>2. /\ OpenRequest(p) /\ req[p].todo = {}
      /\ tx[p].stat = Fetched(CursorOf(d)) /\ tx[p].row = row
  BY TxOf DEF RequestTxOf, At, OpenRequest, FetchedRow, RowOf
<1>3. tx[p].row # None /\ tx[p].stat # None /\ tx[p].id = f
  BY <1>1, <1>2, FetchedRowType, CursorType DEF At, InTx, OpenRequest
<1>4. tx[p].arts = {f} \X ItemsOf[d]
  BY <1>2 DEF OpenRequest, MInv, OnlyItems, At
<1>5. /\ feeds' = [feeds EXCEPT ![f] = row]
      /\ articles' = articles \cup ({f} \X ItemsOf[d])
      /\ status' = [status EXCEPT ![f] = Fetched(CursorOf(d))]
  BY <1>2, <1>3, <1>4 DEF Commit
<1>6. ~Abstract!Taken(f, row)
  <2>1. ASSUME NEW g \in FeedIds \ {f}, Live(g)
        PROVE  feeds[g].url # u /\ feeds[g].site # SiteOf[d]
    <3>1. ~Clash(feeds[g], row)
      BY <1>2, <1>3, <2>1 DEF IInv, PendingRows, LiveFeeds
    <3>2. feeds[g].site # None
      BY <2>1, NoneIsNew DEF IInv, TypeOK, StoreTypeOK, FeedRow, Live
    <3> QED
      BY <3>1, <3>2 DEF Clash
  <2> QED
    BY <2>1 DEF Abstract!Taken, Abstract!Exists, Live
<1>7. Abstract!Store(f, row, d)
  BY <1>5, <1>6
     DEF Abstract!Store, Abstract!Items, Abstract!Cursor, Fetched, CursorOf
<1>10. /\ CallOf(req[p]).what = req[p].op
       /\ req[p].op = "register" => CallOf(req[p]).on = u
       /\ req[p].op = "discover" =>
            CandidatesOf[CallOf(req[p]).on] # <<>> /\ Head(CandidatesOf[CallOf(req[p]).on]) = u
       /\ req[p].op = "refresh" => CallOf(req[p]).on = f
  BY InOperation DEF Steps, At, MInv, CallKnown, InTx
<1>8. CASE req[p].op \in {"register", "discover"}
  <2>1. ~Abstract!Exists(f)
    BY <1>8 DEF IInv, NewIds, Registering, InTx, At, Live, Abstract!Exists
  <2>2. Abstract!Subscribe(u)
    BY <1>1, <1>7, <2>1 DEF Abstract!Subscribe
  <2> QED
    BY <1>8, <1>10, <2>2 DEF Abstract!Effect
<1>9. CASE req[p].op = "refresh"
  <2>1. Abstract!Exists(f) /\ feeds[f].url = u
    BY <1>2, <1>9 DEF OpenRequest, Abstract!Exists, Live, MInv, UrlRead, InTx, At
  <2>2. Abstract!Resync(f)
    BY <1>1, <1>7, <2>1 DEF Abstract!Resync
  <2> QED
    BY <1>9, <1>10, <2>2 DEF Abstract!Effect
<1> QED
  BY <1>1, <1>8, <1>9

\* A refresh or registration keeps the feed URLs other requests have read.
LEMMA CommitKeepsMapping ==
  ASSUME IInv, MInv, NEW p \in Requests, NEW code \in Answers,
         At(p, "commit"), Commit(p), Answer(p, code)
  PROVE  MInv'
<1> DEFINE r == [IdleReq EXCEPT !.pc = "answered", !.answer = code]
<1>1. /\ \A q \in Requests : req'[q] = IF q = p THEN r ELSE req[q]
      /\ \A q \in Requests \ {p} : tx'[q] = tx[q]
  BY TxOf, ProcsDistinct DEF IInv, TypeOK, ReqTypeOK, Answer, Commit, Rollback
<1>2. CallKnown(r) /\ r.pc = "answered"
  BY CallOfAnswer
<1> HIDE DEF r
<1>3. /\ req[p].feed \in FeedIds /\ tx[p].id = req[p].feed
      /\ tx[p].row = FetchedRow(p) /\ req[p].op # "delete" /\ req[p].pc = "commit"
      /\ req[p].op = "refresh" => Live(req[p].feed)
  BY LocalsOf, TxOf DEF LocalsSet, InTx, At, RequestTxOf, OpenRequest, MInv, CallKnown
<1>4. tx[p].row # None /\ tx[p].row.url = req[p].url
  BY <1>3, FetchedRowType DEF At, InTx, FetchedRow, RowOf
<1>5. feeds \in [FeedIds -> FeedRow \cup {None}] /\ feeds' = [feeds EXCEPT ![req[p].feed] = tx[p].row]
  BY <1>3, <1>4 DEF Commit, IInv, TypeOK, StoreTypeOK
<1>6. ASSUME NEW q \in Requests, q # p PROVE UrlRead(req[q])'
  <2> SUFFICES ASSUME req[q].pc \in {"fetch"} \cup InTx, req[q].op = "refresh",
                      feeds'[req[q].feed] # None
               PROVE  feeds'[req[q].feed].url = req[q].url
    BY <1>1, <1>6 DEF UrlRead, Live
  <2>1. req[q].feed \in FeedIds
    BY LocalsOf DEF LocalsSet, InTx
  <2>2. CASE req[q].feed # req[p].feed
    BY <1>5, <2>1, <2>2 DEF MInv, UrlRead, Live
  <2>3. CASE req[q].feed = req[p].feed
    <3>1. req[p].op = "refresh"
      BY <1>3, <1>6, <2>3 DEF IInv, NewIds, Registering, InTx
    <3>2. feeds[req[p].feed].url = req[p].url /\ feeds[req[q].feed].url = req[q].url
      BY <1>3, <2>3, <3>1 DEF MInv, UrlRead, InTx
    <3> QED
      BY <1>4, <1>5, <2>1, <2>3, <3>2
  <2> QED
    BY <2>2, <2>3
<1>7. ASSUME NEW q \in Requests, q # p PROVE CallKnown(req[q])' /\ OnlyItems(q)'
  BY <1>1, <1>7 DEF MInv, CallKnown, OnlyItems
<1>8. CallKnown(req[p])' /\ OnlyItems(p)' /\ UrlRead(req[p])'
  BY <1>1, <1>2 DEF CallKnown, OnlyItems, UrlRead, InTx
<1> QED
  BY <1>6, <1>7, <1>8 DEF MInv

\* The DELETE is Unsubscribe; a feed that is gone has no URL to go stale.
LEMMA DeleteMaps ==
  ASSUME IInv, MInv, NEW p \in Requests, NEW code \in Answers,
         At(p, "cascade"), DeleteFeed(p, req[p].feed), Answer(p, code)
  PROVE  Abstract!Effect(CallOf(req[p])) /\ MInv'
<1> DEFINE r == [IdleReq EXCEPT !.pc = "answered", !.answer = code]
           f == req[p].feed
<1>1. f \in FeedIds /\ req[p].op = "delete"
  BY LocalsOf DEF LocalsSet, At, MInv, CallKnown
<1>2. Abstract!Unsubscribe(f)
  BY <1>1 DEF Abstract!Unsubscribe, DeleteFeed, ArticlesOf
<1>3. Abstract!Effect(CallOf(req[p]))
  <2>1. CallOf(req[p]).what = "delete" /\ CallOf(req[p]).on = f
    BY <1>1, InOperation DEF At, Steps
  <2> QED
    BY <1>2, <2>1 DEF Abstract!Effect
<1>9. \A q \in Requests \ {p} : tx'[q] = tx[q]
  BY TxOf, ProcsDistinct DEF DeleteFeed, Rollback
<1>4. \A q \in Requests : req'[q] = IF q = p THEN r ELSE req[q]
  BY DEF IInv, TypeOK, ReqTypeOK, Answer
<1>5. CallKnown(r) /\ r.pc = "answered"
  BY CallOfAnswer
<1> HIDE DEF r
<1>6. feeds \in [FeedIds -> FeedRow \cup {None}] /\ feeds' = [feeds EXCEPT ![f] = None]
  BY DEF DeleteFeed, IInv, TypeOK, StoreTypeOK
<1>7. ASSUME NEW q \in Requests, q # p
      PROVE  CallKnown(req[q])' /\ OnlyItems(q)' /\ UrlRead(req[q])'
  <2>1. CallKnown(req[q])' /\ OnlyItems(q)'
    BY <1>4, <1>7, <1>9 DEF MInv, CallKnown, OnlyItems
  <2>2. req[q].pc \in {"fetch"} \cup InTx /\ req[q].op = "refresh" => req[q].feed \in FeedIds
    BY LocalsOf DEF LocalsSet, InTx
  <2>3. UrlRead(req[q])'
    BY <1>4, <1>6, <1>7, <2>2 DEF MInv, UrlRead, Live
  <2> QED
    BY <2>1, <2>3
<1>8. CallKnown(req[p])' /\ OnlyItems(p)' /\ UrlRead(req[p])'
  BY <1>4, <1>5 DEF CallKnown, OnlyItems, UrlRead, InTx
<1> QED
  BY <1>3, <1>7, <1>8 DEF MInv

\* A deletion that finds no row takes effect by leaving everything as it is.
LEMMA RemoveNothingMaps ==
  ASSUME IInv, MInv, NEW p \in Requests, RemoveNothing(p)
  PROVE  Abstract!Effect(CallOf(req[p])) /\ MInv'
<1> DEFINE r == [IdleReq EXCEPT !.pc = "answered", !.answer = "ok"]
           f == req[p].feed
<1>1. f \in FeedIds /\ req[p].op = "delete" /\ req[p].pc = "delete" /\ ~Live(f)
  BY LocalsOf DEF LocalsSet, At, MInv, CallKnown, RemoveNothing
<1>2. StoreTypeOK /\ Scheduled /\ UNCHANGED <<tables, tx>>
  BY DEF IInv, TypeOK, RemoveNothing
<1>3. feeds[f] = None /\ status[f] = None /\ \A a \in articles : a[1] # f
  BY <1>1, <1>2 DEF Scheduled, LiveFeeds, Live
<1>4. Abstract!Unsubscribe(f)
  BY <1>2, <1>3 DEF Abstract!Unsubscribe, StoreTypeOK, tables
<1>5. Abstract!Effect(CallOf(req[p]))
  <2>1. CallOf(req[p]).what = "delete" /\ CallOf(req[p]).on = f
    BY <1>1, InOperation DEF Steps
  <2> QED
    BY <1>4, <2>1 DEF Abstract!Effect
<1>6. req' = [req EXCEPT ![p] = r] /\ CallKnown(r) /\ UrlRead(r) /\ r.pc = "answered"
  BY CallOfAnswer DEF RemoveNothing, Answer, Answers
<1> HIDE DEF r
<1>7. MInv'
  BY <1>2, <1>6, MappingKept
<1> QED
  BY <1>5, <1>7

\* The answer that comes with the effect, or is lost.
LEMMA EffectMaps ==
  ASSUME IInv, MInv, NEW p \in Requests,
         CommitFeed(p) \/ RemoveNothing(p) \/ RemoveFeed(p) \/ ReplyLost(p)
  PROVE  AbstractStep /\ MInv'
<1>1. PICK code \in Answers :
        /\ Answer(p, code)
        /\ \/ At(p, "commit") /\ Commit(p) /\ code \in {Success(p), "internal"}
           \/ At(p, "cascade") /\ DeleteFeed(p, req[p].feed) /\ code \in {"ok", "internal"}
           \/ RemoveNothing(p) /\ code = "ok"
  <2>1. Success(p) \in Answers
    BY DEF Success, Answers
  <2> QED
    BY <2>1 DEF CommitFeed, RemoveFeed, RemoveNothing, ReplyLost, Answers
<1>2. Abstract!Effect(CallOf(req[p])) /\ MInv'
  BY <1>1, CommitIsEffect, CommitKeepsMapping, DeleteMaps, RemoveNothingMaps
<1>3. Abstract!Reply(p, code)
  <2> DEFINE r == [IdleReq EXCEPT !.pc = "answered", !.answer = code]
  <2>1. req' = [req EXCEPT ![p] = r] /\ CallOf(r) = [what |-> code, on |-> None]
    BY <1>1, CallOfAnswer DEF Answer
  <2> HIDE DEF r
  <2> QED
    BY <2>1, ReplyIs
<1>4. req[p].pc \in {"commit", "delete", "cascade"}
  BY <1>1 DEF RemoveNothing, At
<1>5. /\ CallMap[p] = CallOf(req[p]) /\ Abstract!Called(p)
      /\ CallOf(req[p]).what = req[p].op
  BY <1>4, InOperation DEF Steps
<1>6. CASE code = "internal"
  <2>1. Abstract!Lose(p)
    BY <1>2, <1>3, <1>5, <1>6 DEF Abstract!Lose, CallMap
  <2> QED
    BY <1>2, <2>1 DEF AbstractStep, Abstract!Next
<1>7. CASE code # "internal"
  <2>1. code = IF req[p].op \in {"register", "discover"} THEN "created" ELSE "ok"
    BY <1>1, <1>4, <1>7 DEF Success, RemoveNothing, At, MInv, CallKnown
  <2>2. Abstract!Succeed(p)
    BY <1>2, <1>3, <1>5, <2>1 DEF Abstract!Succeed, CallMap
  <2> QED
    BY <1>2, <2>2 DEF AbstractStep, Abstract!Next
<1> QED
  BY <1>6, <1>7

LEMMA ServingMaps ==
  ASSUME IInv, MInv, NEW p \in Requests, Serving(p)
  PROVE  AbstractStep /\ MInv'
BY ArriveMaps, ReadMaps, FetchMaps, StatementMaps, LockRowMaps, AbortMaps, EffectMaps, RespondMaps
   DEF Serving, RequestNext, WriteNext, FaultNext

-----------------------------------------------------------------------------
(* The job, and everyone else. *)

\* A new next_fetch_at, with a validator whose items are in the archive.
LEMMA RescheduleMaps ==
  ASSUME NEW f \in FeedIds, NEW c \in Docs \cup {None}, Live(f),
         c # None => {f} \X ItemsOf[c] \subseteq articles,
         status' = [status EXCEPT ![f] = Fetched(c)],
         UNCHANGED <<feeds, articles, req>>
  PROVE  AbstractStep
<1>1. Abstract!Reschedule
  BY DEF Abstract!Reschedule, Abstract!Exists, Abstract!Items, Live, Fetched
<1> QED
  BY <1>1 DEF AbstractStep, Abstract!Next

LEMMA RecordMaps ==
  ASSUME IInv, NEW w \in Workers, RecordOutcome(w), UNCHANGED req
  PROVE  AbstractStep
<1> DEFINE due == worker[w].due
<1>1. due \in DueFeed /\ Covered(due)
  BY WorkerOf DEF RecordOutcome, WorkerAt
<1>2. CASE UNCHANGED status
  BY <1>2, JobInvisible DEF RecordOutcome, tables
<1>3. CASE SaveFetchStatusNow(w, due.feed, Fetched(due.cursor))
  BY <1>1, <1>3, RescheduleMaps DEF RecordOutcome, SaveFetchStatusNow, DueFeed, Cursors, Covered
<1> QED
  BY <1>2, <1>3 DEF RecordOutcome

LEMMA CommitDueMaps ==
  ASSUME IInv, NEW w \in Workers, CommitDue(w), UNCHANGED req
  PROVE  AbstractStep
<1> DEFINE f == worker[w].due.feed
           d == worker[w].doc
           c == CursorOf(d)
<1>1. /\ ItemsOf[d] = {} /\ Live(f) /\ d \in Docs /\ f \in FeedIds
      /\ tx[w] = [NoTx EXCEPT !.id = f, !.stat = Fetched(c)]
  BY DEF IInv, CommitDue, WorkerTx, WorkerLocals, WorkerAt, DueFeed
<1>2. /\ tx[w].id = f /\ tx[w].row = None /\ tx[w].arts = {}
      /\ tx[w].stat = Fetched(c) /\ Fetched(c) # None
  BY <1>1, CursorType DEF NoTx
<1>3. status' = [status EXCEPT ![f] = Fetched(c)] /\ UNCHANGED <<feeds, articles>>
  BY <1>2 DEF CommitDue, Commit
<1>4. c \in Docs \cup {None} /\ (c # None => ItemsOf[c] = {})
  BY <1>1 DEF CursorOf
<1> HIDE DEF f, c
<1> QED
  BY <1>1, <1>3, <1>4, RescheduleMaps

\* The job writes no feed row and no transaction of a request.
LEMMA RefreshingMaps ==
  ASSUME IInv, MInv, NEW w \in Workers, Refreshing(w)
  PROVE  AbstractStep /\ MInv'
<1> USE DEF tables
<1>1. UNCHANGED req /\ (WorkerNext(w) \/ \E n \in Fresh : FetchFeedWithCursor(w, n))
  BY DEF Refreshing
<1>2. ~WriteDueArticle(w)
  BY NoDueArticle
<1>3. AbstractStep
  <2>1. CASE RecordOutcome(w)
    BY <1>1, <2>1, RecordMaps
  <2>2. CASE CommitDue(w)
    BY <1>1, <2>2, CommitDueMaps
  <2>3. CASE ~RecordOutcome(w) /\ ~CommitDue(w)
    <3>1. UNCHANGED tables
      BY <1>1, <1>2, <2>3
         DEF WorkerNext, TakeFeed, FetchDueFails, FetchUnsolicited304, WriteDueStatus,
             DueRejected, WorkerFails, FetchFeedWithCursor
    <3> QED
      BY <1>1, <3>1, JobInvisible
  <2> QED
    BY <2>1, <2>2, <2>3
<1>4. \A q \in Requests : tx'[q] = tx[q]
  <2>1. \E t : tx' = [tx EXCEPT ![w] = t] \/ tx' = tx
    BY <1>1, <1>2
       DEF WorkerNext, TakeFeed, FetchDueFails, FetchUnsolicited304, RecordOutcome,
           WriteDueStatus, SaveFetchStatus, DueRejected, CommitDue, Commit, WorkerFails,
           Rollback, FetchFeedWithCursor
  <2> QED
    BY <2>1, WorkerOf, ProcsDistinct
<1>5. UNCHANGED feeds
  <2>1. CASE CommitDue(w)
    BY <2>1 DEF CommitDue, Commit, IInv, WorkerTx, WorkerAt, NoTx
  <2>2. CASE ~CommitDue(w)
    BY <1>1, <1>2, <2>2
       DEF WorkerNext, TakeFeed, FetchDueFails, FetchUnsolicited304, RecordOutcome,
           WriteDueStatus, DueRejected, WorkerFails, FetchFeedWithCursor
  <2> QED
    BY <2>1, <2>2
<1> QED
  BY <1>1, <1>3, <1>4, <1>5, MappingUntouched

LEMMA ElapsingMaps ==
  ASSUME MInv, Elapsing
  PROVE  AbstractStep /\ MInv'
<1>1. Abstract!Elapse
  BY DEF Elapsing, Abstract!Elapse
<1> QED
  BY <1>1, MappingUntouched DEF AbstractStep, Abstract!Next, Elapsing

\* The process dies: Catalog forgets the calls, their transactions left nothing.
LEMMA CrashMaps == Crash => AbstractStep /\ MInv'
<1> SUFFICES ASSUME Crash PROVE AbstractStep /\ MInv'
  OBVIOUS
<1>1. \A p \in Requests : req'[p] = IdleReq /\ CallOf(IdleReq) = Abstract!Idle /\ IdleReq.pc = "idle" /\ IdleReq.op = None
  BY DEF Crash, IdleReq, CallOf, CalledOn, Abstract!Idle
<1>2. Abstract!Restart
  BY <1>1 DEF Abstract!Restart, Abstract!catalog, Crash, tables
<1>3. MInv'
  BY <1>1 DEF MInv, CallKnown, OnlyItems, UrlRead, InTx
<1> QED
  BY <1>2, <1>3 DEF AbstractStep, Abstract!Next

-----------------------------------------------------------------------------
(* The theorems. *)

LEMMA InitMaps == Init => Abstract!Init /\ MInv
<1> SUFFICES ASSUME Init PROVE Abstract!Init /\ MInv
  OBVIOUS
<1>1. \A p \in Requests : req[p] = IdleReq /\ CallOf(IdleReq) = Abstract!Idle /\ IdleReq.pc = "idle" /\ IdleReq.op = None
  BY DEF Init, ReqInit, IdleReq, CallOf, CalledOn, Abstract!Idle
<1>2. Abstract!Init
  BY <1>1 DEF Init, StoreInit, Abstract!Init
<1>3. MInv
  BY <1>1 DEF MInv, CallKnown, OnlyItems, UrlRead, InTx
<1> QED
  BY <1>2, <1>3

LEMMA StepMaps == IInv /\ MInv /\ [Next]_vars => AbstractStep /\ MInv'
<1> SUFFICES ASSUME IInv, MInv, [Next]_vars PROVE AbstractStep /\ MInv'
  OBVIOUS
<1>1. ASSUME NEW p \in Requests, Serving(p) PROVE AbstractStep /\ MInv'
  BY <1>1, ServingMaps
<1>2. ASSUME NEW w \in Workers, Refreshing(w) PROVE AbstractStep /\ MInv'
  BY <1>2, RefreshingMaps
<1>3. CASE Picking \/ Ending \/ Expiring \/ Publishing \/ UNCHANGED vars
  <2>1. UNCHANGED <<feeds, articles, status, req, tx>>
    BY <1>3 DEF Picking, GetDueFeeds, Ending, EndBatch, Expiring, ExpireJob, Publishing,
                tables, vars
  <2> QED
    BY <2>1, JobInvisible, MappingUntouched DEF tables
<1>4. CASE Elapsing
  BY <1>4, ElapsingMaps
<1>5. CASE Crash
  BY <1>5, CrashMaps
<1> QED
  BY <1>1, <1>2, <1>3, <1>4, <1>5 DEF Next

\* Requests, the job, publishers, the clock and crashes, interleaved call by
\* call, do to the tables and answer to clients only what Catalog does in
\* atomic steps.
THEOREM ImplementsCatalog == Spec => CatalogSpec
<1>1. Init => Abstract!Init /\ MInv
  BY InitMaps
<1>2. IInv /\ MInv /\ [Next]_vars => [Abstract!Next]_(Abstract!vars) /\ MInv'
  BY StepMaps DEF AbstractStep
<1> QED
  BY <1>1, <1>2, InvariantHolds, PTL DEF Spec, CatalogSpec, Abstract!Spec

-----------------------------------------------------------------------------
(* Catalog on its own keeps what must hold of the tables: who knows that    *)
(* the service implements Catalog needs to know nothing else of it.         *)

TablesType ==
    /\ feeds \in [FeedIds -> FeedRow \cup {None}]
    /\ articles \in SUBSET (FeedIds \X Exts)
    /\ status \in [FeedIds -> StatusRow \cup {None}]

\* A call is of an operation on something it can be called on.
CallsKnown == \A p \in Requests : Abstract!Called(p) => CallMap[p] \in Abstract!Calls

CatalogInv == TablesType /\ TablesOK

\* A feed is stored with a row nobody else has, with its items and its validator.
LEMMA StoreKeeps ==
  ASSUME CatalogInv, NEW f \in FeedIds, NEW row \in FeedRow, NEW d \in Docs,
         Abstract!Store(f, row, d)
  PROVE  CatalogInv'
<1> DEFINE st == [due |-> FALSE, cursor |-> Abstract!Cursor(d)]
<1>1. TablesType /\ UniqueSubscriptions /\ Scheduled /\ CursorNeverAhead
  BY DEF CatalogInv, TablesOK
<1>2. /\ ~Abstract!Taken(f, row)
      /\ feeds' = [feeds EXCEPT ![f] = row]
      /\ articles' = articles \cup ({f} \X ItemsOf[d])
      /\ status' = [status EXCEPT ![f] = st]
  BY DEF Abstract!Store, Abstract!Items
<1>3. row # None /\ ItemsOf[d] \subseteq Exts
  BY NoneIsNew, GatewayAssumption
<1>4. st \in StatusRow /\ st # None /\ st.cursor \in {d, None}
  <2>1. Abstract!Cursor(d) \in {d, None}
    BY DEF Abstract!Cursor
  <2>2. st \in StatusRow
    BY <2>1 DEF StatusRow, Cursors
  <2>3. st # None
    BY <2>2, NoneIsNew
  <2> QED
    BY <2>1, <2>2, <2>3
<1> HIDE DEF st
<1>5. TablesType'
  BY <1>1, <1>2, <1>3, <1>4 DEF TablesType
<1>6. \A g \in FeedIds : /\ feeds'[g] = IF g = f THEN row ELSE feeds[g]
                         /\ status'[g] = IF g = f THEN st ELSE status[g]
  BY <1>1, <1>2 DEF TablesType
<1>7. UniqueSubscriptions'
  <2>1. \A g \in FeedIds \ {f} :
          feeds[g] # None => feeds[g].url # row.url /\ feeds[g].site # row.site
    BY <1>2 DEF Abstract!Taken, Abstract!Exists
  <2> QED
    BY <1>1, <1>6, <2>1 DEF UniqueSubscriptions, LiveFeeds, Live
<1>8. Scheduled'
  BY <1>1, <1>2, <1>3, <1>4, <1>6 DEF Scheduled, LiveFeeds, Live
<1>9. CursorNeverAhead'
  BY <1>1, <1>2, <1>4, <1>6 DEF CursorNeverAhead
<1> QED
  BY <1>5, <1>7, <1>8, <1>9 DEF CatalogInv, TablesOK

\* A feed goes with its status and its articles.
LEMMA UnsubscribeKeeps ==
  ASSUME CatalogInv, NEW f \in FeedIds, Abstract!Unsubscribe(f)
  PROVE  CatalogInv'
<1>1. TablesType /\ UniqueSubscriptions /\ Scheduled /\ CursorNeverAhead
  BY DEF CatalogInv, TablesOK
<1>2. /\ feeds' = [feeds EXCEPT ![f] = None]
      /\ articles' = {a \in articles : a[1] # f}
      /\ status' = [status EXCEPT ![f] = None]
  BY DEF Abstract!Unsubscribe
<1>3. TablesType'
  BY <1>1, <1>2 DEF TablesType
<1>4. \A g \in FeedIds : /\ feeds'[g] = IF g = f THEN None ELSE feeds[g]
                         /\ status'[g] = IF g = f THEN None ELSE status[g]
  BY <1>1, <1>2 DEF TablesType
<1>5. UniqueSubscriptions'
  BY <1>1, <1>4 DEF UniqueSubscriptions, LiveFeeds, Live
<1>6. Scheduled'
  BY <1>1, <1>2, <1>4 DEF Scheduled, LiveFeeds, Live
<1>7. CursorNeverAhead'
  BY <1>1, <1>2, <1>4 DEF CursorNeverAhead
<1> QED
  BY <1>3, <1>5, <1>6, <1>7 DEF CatalogInv, TablesOK

\* The job and the clock touch the status of a feed that exists.
LEMMA BackgroundKeeps ==
  ASSUME CatalogInv, Abstract!Reschedule \/ Abstract!Elapse
  PROVE  CatalogInv'
<1>1. TablesType /\ UniqueSubscriptions /\ Scheduled /\ CursorNeverAhead
  BY DEF CatalogInv, TablesOK
<1>2. \E f \in FeedIds, st \in StatusRow :
        /\ feeds[f] # None
        /\ articles \subseteq articles' /\ articles' \subseteq articles \cup ({f} \X Exts)
        /\ st.cursor # None => {f} \X ItemsOf[st.cursor] \subseteq articles'
        /\ status' = [status EXCEPT ![f] = st]
        /\ UNCHANGED feeds
  <2>1. CASE Abstract!Reschedule
    <3>1. PICK f \in FeedIds, c \in Docs \cup {None} :
            /\ feeds[f] # None
            /\ articles \subseteq articles' /\ articles' \subseteq articles \cup ({f} \X Exts)
            /\ c # None => {f} \X ItemsOf[c] \subseteq articles'
            /\ status' = [status EXCEPT ![f] = [due |-> FALSE, cursor |-> c]]
            /\ UNCHANGED feeds
      BY <2>1 DEF Abstract!Reschedule, Abstract!Exists, Abstract!Items
    <3>2. [due |-> FALSE, cursor |-> c] \in StatusRow
      BY DEF StatusRow, Cursors
    <3> QED
      BY <3>1, <3>2
  <2>2. CASE Abstract!Elapse
    <3>1. PICK f \in FeedIds :
            /\ status[f] # None
            /\ status' = [status EXCEPT ![f].due = TRUE]
            /\ UNCHANGED <<feeds, articles>>
      BY <2>2 DEF Abstract!Elapse
    <3> DEFINE st == [status[f] EXCEPT !.due = TRUE]
    <3>2. status[f] \in StatusRow
      BY <1>1, <3>1 DEF TablesType
    <3>3. st \in StatusRow /\ st.cursor = status[f].cursor
      BY <3>2 DEF StatusRow
    <3>4. status' = [status EXCEPT ![f] = st]
      BY <3>1
    <3>5. feeds[f] # None
      BY <1>1, <3>1 DEF Scheduled, Live
    <3>6. st.cursor # None => {f} \X ItemsOf[st.cursor] \subseteq articles
      BY <1>1, <3>1, <3>3 DEF CursorNeverAhead
    <3> QED
      BY <3>1, <3>3, <3>4, <3>5, <3>6
  <2> QED
    BY <2>1, <2>2
<1>3. PICK f \in FeedIds, st \in StatusRow :
        /\ feeds[f] # None
        /\ articles \subseteq articles' /\ articles' \subseteq articles \cup ({f} \X Exts)
        /\ st.cursor # None => {f} \X ItemsOf[st.cursor] \subseteq articles'
        /\ status' = [status EXCEPT ![f] = st]
        /\ UNCHANGED feeds
  BY <1>2
<1>4. \A g \in FeedIds : status'[g] = IF g = f THEN st ELSE status[g]
  BY <1>1, <1>3 DEF TablesType
<1>5. TablesType'
  BY <1>1, <1>3 DEF TablesType
<1>6. UniqueSubscriptions' /\ Scheduled'
  BY <1>1, <1>3, <1>4, NoneIsNew DEF UniqueSubscriptions, Scheduled, LiveFeeds, Live
<1>7. CursorNeverAhead'
  BY <1>1, <1>3, <1>4 DEF CursorNeverAhead
<1> QED
  BY <1>5, <1>6, <1>7 DEF CatalogInv, TablesOK

\* An effect of an operation is one of the three.
LEMMA EffectKeeps ==
  ASSUME CatalogInv, NEW c \in Abstract!Calls, Abstract!Effect(c)
  PROVE  CatalogInv'
<1>1. ASSUME NEW u \in Urls, Abstract!Subscribe(u) PROVE CatalogInv'
  <2>1. PICK f \in FeedIds, d \in Docs : Abstract!Store(f, [url |-> u, site |-> SiteOf[d]], d)
    BY <1>1 DEF Abstract!Subscribe
  <2>2. [url |-> u, site |-> SiteOf[d]] \in FeedRow
    BY GatewayAssumption DEF FeedRow
  <2> QED
    BY <2>1, <2>2, StoreKeeps
<1>2. ASSUME NEW f \in FeedIds, Abstract!Resync(f) PROVE CatalogInv'
  <2>1. PICK d \in Docs :
          /\ feeds[f] # None
          /\ Abstract!Store(f, [url |-> feeds[f].url, site |-> SiteOf[d]], d)
    BY <1>2 DEF Abstract!Resync, Abstract!Exists
  <2>2. feeds[f] \in FeedRow
    BY <2>1 DEF CatalogInv, TablesType
  <2>3. [url |-> feeds[f].url, site |-> SiteOf[d]] \in FeedRow
    BY <2>2, GatewayAssumption DEF FeedRow
  <2> QED
    BY <2>1, <2>3, StoreKeeps
<1>3. CASE c.what = "register"
  BY <1>1, <1>3 DEF Abstract!Effect, Abstract!Calls
<1>4. CASE c.what = "discover"
  <2>1. CandidatesOf[c.on] \in Seq(Urls) /\ CandidatesOf[c.on] # <<>>
    BY <1>4, GatewayAssumption DEF Abstract!Effect, Abstract!Calls
  <2>2. Head(CandidatesOf[c.on]) \in Urls
    BY <2>1
  <2> QED
    BY <1>1, <1>4, <2>2 DEF Abstract!Effect
<1>5. CASE c.what = "refresh"
  BY <1>2, <1>5 DEF Abstract!Effect, Abstract!Calls
<1>6. CASE c.what = "delete"
  BY <1>6, UnsubscribeKeeps DEF Abstract!Effect, Abstract!Calls
<1> QED
  BY <1>3, <1>4, <1>5, <1>6 DEF Abstract!Calls

\* What is called stays a call until it is answered.
LEMMA CallsKept ==
  ASSUME CallsKnown, AbstractStep
  PROVE  CallsKnown'
<1>1. CASE UNCHANGED CallMap
  BY <1>1 DEF CallsKnown, CallMap, Abstract!Called
<1>2. ASSUME NEW p \in Requests, NEW a, Abstract!Reply(p, a),
             a \notin {"register", "discover", "refresh", "delete"}
      PROVE  CallsKnown'
  <2>1. \A q \in Requests : CallMap'[q] = IF q = p THEN [what |-> a, on |-> None] ELSE CallMap[q]
    BY <1>2 DEF Abstract!Reply, CallMap
  <2> QED
    BY <1>2, <2>1 DEF CallsKnown, CallMap, Abstract!Called
<1>3. ASSUME NEW p \in Requests, Abstract!Call(p)
      PROVE  CallsKnown'
  <2>1. PICK c \in Abstract!Calls : CallMap' = [CallMap EXCEPT ![p] = c]
    BY <1>3 DEF Abstract!Call, CallMap
  <2>2. \A q \in Requests : CallMap'[q] = IF q = p THEN c ELSE CallMap[q]
    BY <2>1 DEF CallMap
  <2> QED
    BY <2>2 DEF CallsKnown, CallMap, Abstract!Called
<1>4. CASE Abstract!Restart
  <2>1. \A q \in Requests : CallMap'[q] = Abstract!Idle
    BY <1>4 DEF Abstract!Restart, CallMap
  <2> QED
    BY <2>1 DEF CallsKnown, CallMap, Abstract!Called, Abstract!Idle
<1>5. ASSUME NEW p \in Requests,
             Abstract!Succeed(p) \/ Abstract!Refuse(p) \/ Abstract!Lose(p) \/ Abstract!Return(p)
      PROVE  CallsKnown'
  BY <1>2, <1>5
     DEF Abstract!Succeed, Abstract!Refuse, Abstract!Refusals, Abstract!Lose, Abstract!Return
<1> QED
  BY <1>1, <1>3, <1>4, <1>5
     DEF AbstractStep, Abstract!Next, Abstract!Reschedule, Abstract!Elapse, Abstract!vars, CallMap

\* Whatever implements Catalog keeps subscriptions unique, every feed scheduled, and
\* every stored validator behind the archive.
THEOREM CatalogKeepsTables ==
  CatalogSpec => [](UniqueSubscriptions /\ Scheduled /\ CursorNeverAhead)
<1>1. Abstract!Init => CatalogInv /\ CallsKnown
  <2>1. Abstract!Init => CatalogInv
    BY DEF Abstract!Init, CatalogInv, TablesType, TablesOK, UniqueSubscriptions, Scheduled,
           CursorNeverAhead, LiveFeeds, Live
  <2>2. Abstract!Init => CallsKnown
    BY DEF Abstract!Init, CallsKnown, Abstract!Called, Abstract!Idle
  <2> QED
    BY <2>1, <2>2
<1>2. CatalogInv /\ CallsKnown /\ AbstractStep => CatalogInv' /\ CallsKnown'
  <2> SUFFICES ASSUME CatalogInv, CallsKnown, AbstractStep PROVE CatalogInv'
    BY CallsKept
  <2>1. CASE UNCHANGED tables
    BY <2>1, TablesKept DEF CatalogInv, TablesType, tables
  <2>2. ASSUME NEW p \in Requests, Abstract!Called(p), Abstract!Effect(CallMap[p])
        PROVE  CatalogInv'
    BY <2>2, EffectKeeps DEF CallsKnown
  <2>3. CASE Abstract!Reschedule \/ Abstract!Elapse
    BY <2>3, BackgroundKeeps
  <2>4. \/ UNCHANGED tables
        \/ \E p \in Requests : Abstract!Called(p) /\ Abstract!Effect(CallMap[p])
        \/ Abstract!Reschedule \/ Abstract!Elapse
    BY DEF AbstractStep, Abstract!Next, Abstract!Call, Abstract!Succeed, Abstract!Refuse,
           Abstract!Lose, Abstract!Return, Abstract!Restart, CallMap,
           Abstract!vars, Abstract!catalog, tables
  <2> QED
    BY <2>1, <2>2, <2>3, <2>4
<1>3. CatalogInv => UniqueSubscriptions /\ Scheduled /\ CursorNeverAhead
  BY DEF CatalogInv, TablesOK
<1> QED
  BY <1>1, <1>2, <1>3, PTL DEF CatalogSpec, Abstract!Spec, AbstractStep

-----------------------------------------------------------------------------
(* Properties of the job's steps. *)

\* A step of one worker leaves the others where they are.
LEMMA OneWorkerMoves ==
  ASSUME IInv, NEW v \in Workers, Refreshing(v), NEW w \in Workers, w # v
  PROVE  worker'[w] = worker[w]
<1>1. worker \in [Workers -> WorkerRecord]
  BY WorkerOf
<1>2. CASE WriteDueArticle(v) \/ WriteDueStatus(v) \/ TakeFeed(v)
  BY <1>1, <1>2 DEF WriteDueArticle, WriteDueStatus, TakeFeed
<1>3. CASE \E n \in Fresh : FetchFeedWithCursor(v, n)
  BY <1>1, <1>3 DEF FetchFeedWithCursor
<1>4. CASE FetchUnsolicited304(v) \/ FetchDueFails(v)
  BY <1>1, <1>4 DEF FetchUnsolicited304, FetchDueFails
<1>5. CASE RecordOutcome(v) \/ DueRejected(v) \/ CommitDue(v) \/ WorkerFails(v)
  <2>1. Finish(v)
    BY <1>5 DEF RecordOutcome, DueRejected, CommitDue, WorkerFails
  <2> QED
    BY <1>1, <2>1 DEF Finish
<1> QED
  BY <1>2, <1>3, <1>4, <1>5 DEF Refreshing, WorkerNext

\* What becomes of a document with items that the job has fetched: nothing.  No
\* table changes, so that the feed stays due, and the goroutine is free for the
\* next feed.
DocumentDiscarded ==
    [][\A w \in Workers :
          WorkerAt(w, "articles") /\ ItemsOf[worker[w].doc] # {} /\ worker'[w] # worker[w] =>
              worker'[w] = IdleWorker /\ UNCHANGED tables]_vars

\* JobPersists fails for every feed, document and schedule, not only in the run
\* that shows it: articles that name the gateway's own feed id are rejected by the
\* foreign key, and with them the rest of refreshOne's transaction.
THEOREM JobDiscardsDocuments == Spec => DocumentDiscarded
<1>1. IInv /\ [Next]_vars =>
        [\A w \in Workers :
           WorkerAt(w, "articles") /\ ItemsOf[worker[w].doc] # {} /\ worker'[w] # worker[w] =>
               worker'[w] = IdleWorker /\ UNCHANGED tables]_vars
  <2> SUFFICES ASSUME IInv, Next, NEW w \in Workers, WorkerAt(w, "articles"),
                      ItemsOf[worker[w].doc] # {}, worker'[w] # worker[w]
               PROVE  worker'[w] = IdleWorker /\ UNCHANGED tables
    OBVIOUS
  <2>1. CASE Crash
    BY <2>1 DEF Crash
  <2>2. ASSUME NEW v \in Workers, Refreshing(v)
        PROVE  worker'[w] = IdleWorker /\ UNCHANGED tables
    <3>1. v = w
      BY <2>2, OneWorkerMoves
    <3>2. worker[w].pc = "articles" /\ worker[w].todo # {}
      <4>1. \A u \in Workers : WorkerAt(u, "articles") => worker[u].todo = ItemsOf[worker[u].doc]
        BY Zenon DEF IInv, WorkerTx
      <4> QED
        BY <4>1 DEF WorkerAt
    <3>3. ~TakeFeed(w) /\ ~FetchDueFails(w) /\ ~FetchUnsolicited304(w) /\ ~RecordOutcome(w)
      BY <3>2 DEF TakeFeed, FetchDueFails, FetchUnsolicited304, RecordOutcome, WorkerAt
    <3>4. ~WriteDueStatus(w) /\ ~CommitDue(w) /\ \A n \in Fresh : ~FetchFeedWithCursor(w, n)
      BY <3>2 DEF WriteDueStatus, CommitDue, FetchFeedWithCursor, WorkerAt
    <3>5. DueRejected(w) \/ WorkerFails(w)
      BY <2>2, <3>1, <3>3, <3>4, NoDueArticle DEF Refreshing, WorkerNext
    <3>6. Finish(w) /\ UNCHANGED tables
      BY <3>5 DEF DueRejected, WorkerFails
    <3> QED
      BY <3>6, WorkerOf DEF Finish
  <2> QED
    BY <2>1, <2>2
       DEF Next, Serving, Picking, GetDueFeeds, Ending, EndBatch, Expiring, ExpireJob,
           Publishing, Elapsing, jobVars
<1> QED
  BY <1>1, InvariantHolds, PTL DEF Spec, DocumentDiscarded

-----------------------------------------------------------------------------
(* The requests on their own: InteractorSpec is the service whose job never *)
(* runs, and has what the service has.                                      *)

IdleJob == JobInit /\ [][FALSE]_jobVars

\* While the job is idle it holds no id.
LEMMA IdleJobHoldsNoId ==
  ASSUME JobInit
  PROVE  Fresh = FeedIds \ RequestIds
<1>1. batch = {} /\ \A w \in Workers : worker[w] = IdleWorker
  BY DEF JobInit
<1>2. IdleWorker.owner = None /\ IdleWorker.due = None
  BY DEF IdleWorker
<1>3. {v \in Workers : worker[v].due # None} = {}
  BY <1>1, <1>2
<1>4. {worker[w].owner : w \in Workers} \subseteq {None}
  BY <1>1, <1>2
<1>5. None \notin FeedIds
  BY NoneIsNew
<1> QED
  BY <1>1, <1>3, <1>4, <1>5 DEF Fresh, Referenced

\* A step of the requests is a step of the service.
LEMMA InteractorStep ==
  ASSUME JobInit, [InteractorNext]_interactorVars, UNCHANGED jobVars
  PROVE  [Next]_vars
<1>1. ASSUME NEW p \in Requests, RequestNext(p, FeedIds \ RequestIds), UNCHANGED upstream
      PROVE  Next
  <2>1. Serving(p)
    BY <1>1, IdleJobHoldsNoId DEF Serving
  <2> QED
    BY <2>1 DEF Next
<1>2. ASSUME NEW u \in Urls, Publish(u), UNCHANGED <<tables, tx, req>>
      PROVE  Next
  BY <1>2 DEF Next, Publishing
<1>3. CASE UNCHANGED interactorVars
  BY <1>3 DEF interactorVars, vars, tables, jobVars
<1> QED
  BY <1>1, <1>2, <1>3 DEF InteractorNext

\* With an idle job beside them the requests behave as the service may.
THEOREM InteractorIsService == InteractorSpec /\ IdleJob => Spec
<1>1. InteractorInit /\ JobInit => Init
  BY DEF InteractorInit, Init
<1>2. JobInit /\ [FALSE]_jobVars => JobInit'
  BY DEF JobInit, jobVars
<1>3. JobInit /\ [FALSE]_jobVars /\ [InteractorNext]_interactorVars => [Next]_vars
  BY InteractorStep
<1> QED
  BY <1>1, <1>2, <1>3, PTL DEF InteractorSpec, IdleJob, Spec

\* The requests keep the types of the tables, of their locals and of the fetched
\* documents: a step that reads a local finds it set.
THEOREM InteractorTypeSafe == InteractorSpec /\ IdleJob => []InteractorTypeOK
<1>1. TypeOK => InteractorTypeOK
  BY DEF TypeOK, InteractorTypeOK
<1> QED
  BY <1>1, InteractorIsService, TypeSafe, PTL

\* And what the service promises of the tables, of its answers and of circles of
\* waits, they promise.
THEOREM InteractorSafe ==
  InteractorSpec /\ IdleJob =>
      /\ [](UniqueSubscriptions /\ Scheduled /\ CursorNeverAhead /\ SwapsOnly)
      /\ CatalogSpec
BY InteractorIsService, SubscriptionsUnique, FeedsScheduled, CursorsCovered, ImplementsCatalog,
   OnlySwapsDeadlock, PTL
=============================================================================
