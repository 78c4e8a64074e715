----------------------------- MODULE WebClient -----------------------------
(***************************************************************************)
(* The add-feed dialog, the feed list and the mutations behind them, from  *)
(* the click to the answer's callbacks, over a network that loses and      *)
(* delays answers, against the service as Catalog promises it: an          *)
(* operation takes effect at one instant, or not at all.                   *)
(*                                                                         *)
(* One tab is the only client.  React renders between two clicks.  The     *)
(* query library is external: a query that is invalidated is fetched anew, *)
(* an earlier fetch is cancelled if the query holds data, a failed fetch   *)
(* is tried once more; callbacks given to mutate run for the hook's latest *)
(* call only, those given to the hook for each.                            *)
(***************************************************************************)
EXTENDS Integers, Sequences, FiniteSets

CONSTANTS
    Urls,           \* feed URLs
    Sites,          \* websites
    Malformed,      \* a text the server's validation refuses
    SiteOf,         \* the channel link of a feed
    CandidatesOf,   \* the feeds a website's page advertises, best first
    Linkless,       \* feeds whose channel or items have no link
    Calls,          \* mutations in flight at the same time
    MaxId,          \* registrations that ever succeed
    StampOf,        \* registered_at of each of them
    FEEDS_LIMIT,    \* the feeds the list asks for
    None

ASSUME ClientAssumption ==
    /\ SiteOf \in [Urls -> Sites \cup {None}]
    /\ CandidatesOf \in [Sites -> Seq(Urls)]
    /\ \A u \in Urls : SiteOf[u] = None => u \in Linkless
    /\ MaxId \in Nat
    /\ StampOf \in [1..MaxId -> Nat]
    /\ FEEDS_LIMIT \in Nat \ {0}
    /\ None \notin Urls \cup Sites \cup {Malformed}

VARIABLES
    subs,       \* the feeds registered at the server
    lastId,     \* ids given so far
    call,       \* the mutations
    dialog,     \* the state of AddFeedDialog
    asked,      \* something has been submitted since the dialog was opened
    list,       \* the query behind the feed list
    news        \* what the client has been told of each id since it has a list

server == <<subs, lastId>>
vars == <<server, call, dialog, asked, list, news>>

Ids == 1..MaxId
Subs == [id : Ids, url : Urls]
Inputs == Urls \cup Sites \cup {Malformed}
DialogOps == {"register", "discover"}

Codes == {"not_found", "invalid_argument", "conflict", "external_unavailable", "internal"}

ASSUME NoneIsNew ==
    /\ None \notin Codes \cup DialogOps \cup {"delete"}
    /\ \A rows \in SUBSET Subs : rows # None

-----------------------------------------------------------------------------
(* What the server says, and what the client makes of it. *)

statusFromCode(code) ==
    CASE code = "not_found" -> 404
      [] code = "invalid_argument" -> 400
      [] code = "conflict" -> 409
      [] code = "external_unavailable" -> 502
      [] OTHER -> 500

\* An error envelope.  Only validation names fields.
Failure(code) == [status |-> statusFromCode(code), code |-> code, feed |-> None]

Created(s) == [status |-> 201, code |-> None, feed |-> s]
NoContent == [status |-> 204, code |-> None, feed |-> None]

\* A broken connection, or the page of a proxy.
NoEnvelope == {[status |-> s, code |-> None, feed |-> None] : s \in {0, 504}}

Replies == {Failure(code) : code \in Codes} \cup {Created(s) : s \in Subs}
              \cup {NoContent} \cup NoEnvelope

\* Mutant: a page with a 5xx status is taken for a publisher that fails.
PageIsUnavailable(r) ==
    IF r.code # None THEN r.code
    ELSE IF r.status >= 500 THEN "external_unavailable" ELSE "invalid_argument"

toApiError(r) ==
    IF r.code # None THEN r.code
    ELSE IF r.status >= 500 THEN "internal" ELSE "invalid_argument"

\* requestJson and requestNoContent: the status, then the schema, which wants
\* URLs where the server may have none.
Accepted(r) ==
    /\ r.status \in 200..299
    /\ r.feed # None => r.feed.url \notin Linkless

\* The errors that say why nothing was registered.
Reasons == {"conflict", "not_found", "external_unavailable"}

\* Mutant: a code that has no text of its own is shown itself.
CodeShown(r) ==
    IF r.status \in 400..599 /\ r.code = "invalid_argument" THEN "field" ELSE toApiError(r)

\* handleError: an error of a field, a text of its own, or the message that came.
\* A request that fails without a status or with a good one has no code.
MessageOf(r) ==
    IF r.status \in 400..599 /\ r.code = "invalid_argument" THEN "field"
    ELSE IF r.status \in 400..599 /\ toApiError(r) \in Reasons THEN toApiError(r)
    ELSE "other"

GeneralErrors == Reasons \cup {"none", "other"}

-----------------------------------------------------------------------------
NoCall == [ st |-> "free", op |-> None, arg |-> None, reply |-> None,
            late |-> FALSE, current |-> FALSE, had |-> {}, did |-> FALSE ]

\* Of the calls of the dialog the client waits for, late: submitted before it was
\* last opened; had: the ids that were registered at the click, or have been since
\* by a call that the client had given up; did: it took effect.
CallRecords ==
    [ st : {"free", "sent", "served", "stray"},
      op : DialogOps \cup {"delete", None},
      arg : Inputs \cup Ids \cup {None},
      reply : Replies \cup {None},
      late : BOOLEAN, current : BOOLEAN,
      had : SUBSET Ids, did : BOOLEAN ]

Closed == [ open |-> FALSE, fieldError |-> FALSE, generalError |-> "none",
            candidates |-> <<>>, subscribedUrl |-> None ]

DialogRecord ==
    [ open : BOOLEAN, fieldError : BOOLEAN, generalError : GeneralErrors,
      candidates : {<<>>} \cup {CandidatesOf[s] : s \in Sites},
      subscribedUrl : Urls \cup {None} ]

TypeOK ==
    /\ subs \in SUBSET Subs
    /\ lastId \in 0..MaxId
    /\ call \in [Calls -> CallRecords]
    /\ dialog \in DialogRecord
    /\ asked \in BOOLEAN
    /\ list \in [ phase : {"idle", "sent", "read", "failed"},
                  data : (SUBSET Subs) \cup {None}, seen : SUBSET Subs ]
    /\ news \in [Ids -> {"none", "added", "removed"}]

\* The list is fetched when the page is shown.
Init ==
    /\ subs = {}
    /\ lastId = 0
    /\ call = [n \in Calls |-> NoCall]
    /\ dialog = Closed
    /\ asked = FALSE
    /\ list = [phase |-> "sent", data |-> None, seen |-> {}]
    /\ news = [i \in Ids |-> "none"]

-----------------------------------------------------------------------------
(* The user. *)

InFlight(op) == \E n \in Calls : call[n].op = op /\ call[n].current

\* Mutant: only the registration disables the buttons.
PendingRegister == InFlight("register")

pending == InFlight("register") \/ InFlight("discover")

\* mutate: the hook forgets its earlier call.
Mutate(op, arg) ==
    \E n \in Calls :
        /\ call[n].st = "free"
        /\ call' = [m \in Calls |->
             IF m = n THEN [NoCall EXCEPT !.st = "sent", !.op = op, !.arg = arg,
                                          !.current = TRUE,
                        !.had = IF op \in DialogOps THEN {s.id : s \in subs} ELSE {}]
             ELSE [call[m] EXCEPT !.current = @ /\ call[m].op # op]]

\* The effect that resets the dialog when it opens, so that what it holds while it
\* is closed does not matter; calls in flight stay so.
Open ==
    /\ ~dialog.open
    /\ dialog' = [Closed EXCEPT !.open = TRUE]
    /\ asked' = FALSE
    /\ call' = [n \in Calls |-> [call[n] EXCEPT
                !.late = call[n].op \in DialogOps /\ call[n].st # "stray"]]
    /\ UNCHANGED <<server, list, news>>

\* Escape, the overlay, the cross, or the button under the candidates.
Close ==
    /\ dialog.open
    /\ dialog' = Closed
    /\ asked' = FALSE
    /\ UNCHANGED <<server, call, list, news>>

\* Which tab is shown decides what the next submit calls, see there.
setMode ==
    /\ dialog.open
    /\ dialog' = [dialog EXCEPT !.fieldError = FALSE, !.generalError = "none"]
    /\ UNCHANGED <<server, call, asked, list, news>>

submitEmpty ==
    /\ dialog.open /\ ~pending
    /\ dialog' = [dialog EXCEPT !.fieldError = TRUE, !.generalError = "none"]
    /\ UNCHANGED <<server, call, asked, list, news>>

\* Mutant: the button is disabled, the Enter key is not.
SubmitByEnter(text) ==
    /\ dialog.open
    /\ dialog' = [dialog EXCEPT !.fieldError = FALSE, !.generalError = "none"]
    /\ asked' = TRUE
    /\ \/ text \notin Sites /\ Mutate("register", text)
       \/ text \notin Urls /\ Mutate("discover", text)
    /\ UNCHANGED <<server, list, news>>

submit(text) ==
    /\ dialog.open /\ ~pending
    /\ dialog' = [dialog EXCEPT !.fieldError = FALSE, !.generalError = "none"]
    /\ asked' = TRUE
    /\ \/ text \notin Sites /\ Mutate("register", text)
       \/ text \notin Urls /\ Mutate("discover", text)
    /\ UNCHANGED <<server, list, news>>

Candidates == {dialog.candidates[i] : i \in DOMAIN dialog.candidates}

subscribeCandidate(u) ==
    /\ dialog.open /\ ~pending
    /\ u # dialog.subscribedUrl
    /\ dialog' = [dialog EXCEPT !.generalError = "none"]
    /\ asked' = TRUE
    /\ Mutate("register", u)
    /\ UNCHANGED <<server, list, news>>

\* Nothing keeps the keyboard in the dialog, the sidebar works while it is open.
removeFeed(id) ==
    /\ Mutate("delete", id)
    /\ UNCHANGED <<server, dialog, asked, list, news>>

Listed == IF list.data = None THEN {} ELSE {s.id : s \in list.data}

UserNext ==
    \/ Open \/ Close \/ setMode \/ submitEmpty
    \/ \E text \in Inputs : submit(text)
    \/ \E u \in Candidates : subscribeCandidate(u)
    \/ \E id \in Listed : removeFeed(id)

-----------------------------------------------------------------------------
(* The service: each request takes effect at one instant. *)

\* Call c has been answered, to nobody when the client has given it up.
Replied(c, r, did) ==
    IF c.st = "stray" THEN NoCall
    ELSE [c EXCEPT !.st = "served", !.reply = r, !.had = {}, !.did = did]

Refuse(n, codes) ==
    /\ \E code \in codes : call' = [call EXCEPT ![n] = Replied(@, Failure(code), FALSE)]
    /\ UNCHANGED server

\* The ids of the rows a new row for u would clash with, and of those that show the
\* website to be subscribed.
Clashing(u) == {s.id : s \in {t \in subs : t.url = u \/ SiteOf[t.url] = SiteOf[u]}}
Subscribed(site) == {s.id : s \in {t \in subs : SiteOf[t.url] = site}}

FirstOf(site) == {CandidatesOf[site][i] : i \in {1} \cap DOMAIN CandidatesOf[site]}

Insert(n, s) ==
    /\ subs' = subs \cup {s}
    /\ lastId' = s.id
    /\ \E r \in {Created(s), Failure("internal")} :
         call' = [m \in Calls |->
            IF m = n THEN Replied(call[n], r, TRUE)
            ELSE IF call[n].st = "stray" /\ call[m].st = "sent" /\ call[m].op \in DialogOps
            THEN [call[m] EXCEPT !.had = @ \cup {s.id}]
            ELSE call[m]]

RegisterFeed(n, u) ==
    \/ Refuse(n, {"internal", "external_unavailable"})
    \/ Clashing(u) # {} /\ Refuse(n, {"conflict"})
    \/ Clashing(u) = {} /\ lastId < MaxId /\ Insert(n, [id |-> lastId + 1, url |-> u])

DiscoverAndRegister(n, site) ==
    IF Subscribed(site) # {} THEN Refuse(n, {"conflict", "internal"})
    ELSE \/ CandidatesOf[site] = <<>> /\ Refuse(n, {"not_found"})
         \/ Refuse(n, {"external_unavailable", "internal"})
         \/ \E u \in FirstOf(site) : RegisterFeed(n, u)

DeleteFeed(n, id) ==
    \/ Refuse(n, {"internal"})
    \/ /\ subs' = {s \in subs : s.id # id}
       /\ \E r \in {NoContent, Failure("internal")} :
            call' = [call EXCEPT ![n] = Replied(@, r, TRUE)]
       /\ UNCHANGED lastId

Serve(n) ==
    /\ call[n].st \in {"sent", "stray"}
    /\ \/ call[n].arg = Malformed /\ Refuse(n, {"invalid_argument"})
       \/ call[n].op = "register" /\ call[n].arg \in Urls /\ RegisterFeed(n, call[n].arg)
       \/ call[n].op = "discover" /\ call[n].arg \in Sites
            /\ DiscoverAndRegister(n, call[n].arg)
       \/ call[n].op = "delete" /\ DeleteFeed(n, call[n].arg)
    /\ UNCHANGED <<dialog, asked, list, news>>

\* A request that never arrives.
Vanish(n) ==
    /\ call[n].st = "stray"
    /\ call' = [call EXCEPT ![n] = NoCall]
    /\ UNCHANGED <<server, dialog, asked, list, news>>

-----------------------------------------------------------------------------
(* The answer reaches the hooks, or fails to. *)

Fetching(q) == q.phase \in {"sent", "read"}

\* Mutant: an invalidation leaves the fetch under way alone.
InvalidateIdle(q) ==
    IF Fetching(q) THEN q
    ELSE [q EXCEPT !.phase = "sent"]

\* invalidateQueries: the first fetch is not cancelled.
Invalidate(q) ==
    IF Fetching(q) /\ q.data = None THEN q
    ELSE [q EXCEPT !.phase = "sent", !.seen = {}]

\* The callbacks of the dialog.  It may have been closed and opened since.
Callback(c, r) ==
    IF ~dialog.open THEN Closed
    ELSE IF Accepted(r)
      THEN IF c.op = "register" THEN Closed
           ELSE [dialog EXCEPT !.candidates = CandidatesOf[c.arg], !.subscribedUrl = r.feed.url]
      ELSE IF MessageOf(r) = "field" THEN [dialog EXCEPT !.fieldError = TRUE]
           ELSE [dialog EXCEPT !.generalError = MessageOf(r)]

\* What an accepted answer tells, kept once there is a list to compare with.
Tell(c, r) ==
    IF list.data = None THEN news
    ELSE IF c.op = "delete" THEN [news EXCEPT ![c.arg] = "removed"]
    ELSE [news EXCEPT ![r.feed.id] = IF @ = "removed" THEN @ ELSE "added"]

\* Call n of the client ends with r; the hook's callback comes first.
SettleWith(n, r) ==
    /\ IF Accepted(r)
         THEN list' = Invalidate(list) /\ news' = Tell(call[n], r)
         ELSE UNCHANGED <<list, news>>
    /\ dialog' = IF call[n].op \in DialogOps /\ call[n].current
                   THEN Callback(call[n], r) ELSE dialog
    /\ asked' = (asked /\ dialog'.open)
    /\ UNCHANGED server

Settle(n) ==
    /\ call[n].st = "served"
    /\ SettleWith(n, call[n].reply)
    /\ call' = [call EXCEPT ![n] = NoCall]

\* The connection breaks or a proxy answers, before or after the server has.
Break(n) ==
    /\ call[n].st \in {"sent", "served"}
    /\ \E r \in NoEnvelope : SettleWith(n, r)
    /\ call' = [call EXCEPT ![n] = IF @.st = "sent"
                                     THEN [@ EXCEPT !.st = "stray", !.current = FALSE,
                                                    !.late = FALSE, !.had = {}]
                                     ELSE NoCall]

-----------------------------------------------------------------------------
(* useFeeds *)

\* registered_at DESC, id DESC.  The time is taken before the transaction, so that
\* the order of the commits, which is that of the ids here, may be another.
Newer(s, t) ==
    \/ StampOf[s.id] > StampOf[t.id]
    \/ StampOf[s.id] = StampOf[t.id] /\ s.id > t.id

FirstPage(rows) ==
    {page \in SUBSET rows :
        /\ \A s \in page, t \in rows \ page : Newer(s, t)
        /\ \/ page = rows /\ Cardinality(rows) <= FEEDS_LIMIT
           \/ page # rows /\ Cardinality(page) = FEEDS_LIMIT}

\* The one page the client asks for.
ListFeeds ==
    /\ list.phase = "sent"
    /\ \E page \in FirstPage(subs) :
         list' = [list EXCEPT !.phase = "read", !.seen = page]
    /\ UNCHANGED <<server, call, dialog, asked, news>>

Readable(rows) == \A s \in rows : SiteOf[s.url] # None

ListArrives ==
    /\ list.phase = "read"
    /\ Readable(list.seen)
    /\ list' = [list EXCEPT !.phase = "idle", !.data = list.seen, !.seen = {}]
    /\ UNCHANGED <<server, call, dialog, asked, news>>

\* The fetch fails, or the schema refuses a row of it.  It is tried again or not.
ListFails ==
    /\ Fetching(list)
    /\ \E phase \in {"sent", "failed"} : list' = [list EXCEPT !.phase = phase, !.seen = {}]
    /\ UNCHANGED <<server, call, dialog, asked, news>>

\* The answer to a refresh, which changes neither ids nor URLs.
refresh ==
    /\ Listed # {}
    /\ list' = Invalidate(list)
    /\ UNCHANGED <<server, call, dialog, asked, news>>

Next ==
    \/ UserNext
    \/ \E n \in Calls : Serve(n) \/ Vanish(n) \/ Settle(n) \/ Break(n)
    \/ ListFeeds \/ ListArrives \/ ListFails \/ refresh

Spec == Init /\ [][Next]_vars

-----------------------------------------------------------------------------
\* "Already registered" is never said of a feed the user's own other click is
\* registering at the same time: the feed it is said of was there at the click,
\* or came from a call whose answer the client never got.
ConflictIsOld ==
    [][\A n \in Calls :
          LET c == call[n]
              met == IF c.op = "register" THEN Clashing(c.arg)
                     ELSE Subscribed(c.arg)
                            \cup UNION {Clashing(u) : u \in FirstOf(c.arg)} IN
            c.op \in DialogOps /\ c.st = "sent" /\ call'[n].st = "served"
                /\ call'[n].reply.code = "conflict" => met \cap c.had # {}]_vars

\* The dialog closes itself only for a registration that took place, and a text
\* that says why nothing was registered is the truth: it is never shown for a call
\* that registered a feed, or may yet.
MessageTrue ==
    [][\A n \in Calls :
          call[n].op \in DialogOps /\ call'[n].st # call[n].st /\ call'[n].st \in {"free", "stray"} =>
              /\ dialog.open /\ ~dialog'.open => call[n].did
              /\ \/ ~dialog.fieldError /\ dialog'.fieldError
                 \/ dialog'.generalError # dialog.generalError
                      /\ dialog'.generalError \in Reasons
                   => call[n].st = "served" /\ ~call[n].did]_vars

\* An answer to what was submitted before the dialog was closed and opened again
\* may reach the new dialog, but never once something has been submitted in it.
OwnAnswers ==
    [][\A n \in Calls :
          call[n].late /\ call'[n].st # call[n].st /\ dialog' # dialog => ~asked]_vars

\* A feed list at rest shows every registration and deletion the client has been
\* told of since it first had a list, whatever fetches they overtook; a registration
\* is missing only from a full page of newer ones.
ListUpToDate ==
    list.phase = "idle" /\ list.data # None =>
        /\ \A s \in subs : news[s.id] = "added" /\ s \notin list.data =>
             /\ Cardinality(list.data) = FEEDS_LIMIT
             /\ \A t \in list.data : Newer(t, s)
        /\ \A s \in list.data : news[s.id] # "removed"
=============================================================================
