------------------------------ MODULE Gateway ------------------------------
(***************************************************************************)
(* RSSGateway and DiscoveryGateway, and the publishers they talk to.       *)
(*                                                                         *)
(* A publisher serves one document per feed URL and may replace it at any  *)
(* time.  A document is abstracted to the external ids of its items, the   *)
(* website its channel link names and whether it is served with a          *)
(* validator (ETag or Last-Modified).  Publishers and websites are         *)
(* external; what the gateways make of their replies is translated.        *)
(***************************************************************************)
EXTENDS Store, Sequences

CONSTANTS
    ItemsOf,        \* the items of a document
    SiteOf,         \* the channel link of a document
    Tagged,         \* the documents served with a validator
    CandidatesOf,   \* the feed links a website's page advertises, best first
    Twin,           \* the trailing-slash twin of a website URL
    Faults          \* what may go wrong, see FaultKinds

\* upstream: a publisher or website cannot be reached, or answers an error.
\* timeout: a request's or the job's context ends before its work is done.
\* crash: the process dies and is started again.
\* unsolicited304: a publisher answers 304 to a request without validators.
FaultKinds == {"upstream", "timeout", "crash", "unsolicited304"}

ASSUME GatewayAssumption ==
    /\ ItemsOf \in [Docs -> SUBSET Exts]
    /\ SiteOf \in [Docs -> Sites]
    /\ Tagged \in SUBSET Docs
    /\ CandidatesOf \in [Sites -> Seq(Urls)]
    /\ Twin \in [Sites -> Sites]
    /\ Faults \in SUBSET FaultKinds

VARIABLE upstream

GatewayTypeOK == upstream \in [Urls -> Docs]

GatewayInit == upstream \in [Urls -> Docs]

\* The FeedCursor built from the response headers.
CursorOf(d) == IF d \in Tagged THEN d ELSE None

\* If-None-Match holds the tag of the document served now: 304.
NotModified(u, cursor) == cursor # None /\ CursorOf(upstream[u]) = cursor

\* The row model.NewFeed builds for document d fetched from u.
RowOf(u, d) == [url |-> u, site |-> SiteOf[d]]

\* Mutant: next_fetch_at is set to the time of the fetch.
FetchedNow(cursor) == [due |-> TRUE, cursor |-> cursor]

\* model.NewFetchStatus and buildFetchStatus: next_fetch_at in the future.
Fetched(cursor) == [due |-> FALSE, cursor |-> cursor]

Publish(u) == \E d \in Docs \ {upstream[u]} : upstream' = [upstream EXCEPT ![u] = d]

-----------------------------------------------------------------------------
(* What must hold of the tables. *)

\* Two subscriptions never share a feed URL or a website, whatever registrations
\* and refreshes run between the existence check and the insert.
UniqueSubscriptions ==
    \A f, g \in LiveFeeds :
        f # g => feeds[f].url # feeds[g].url /\ feeds[f].site # feeds[g].site

\* A feed and its fetch status come and go together, so that no subscription
\* is ever out of the job's sight, and no article outlives its feed.
Scheduled ==
    /\ \A f \in FeedIds : Live(f) <=> status[f] # None
    /\ articles \subseteq LiveFeeds \X Exts

\* A stored validator never runs ahead of the archive: every item of the
\* document it names is stored.  Were it to fail, the publisher would answer 304
\* for articles the reader never got, until it publishes again.
CursorNeverAhead ==
    \A f \in FeedIds :
        status[f] # None /\ status[f].cursor # None =>
            {f} \X ItemsOf[status[f].cursor] \subseteq articles
=============================================================================
