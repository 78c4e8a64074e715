----------------------------- MODULE Pagination -----------------------------
(***************************************************************************)
(* The keyset pagination of GET /feeds, /articles and                      *)
(* /feeds/{id}/articles: a client walks the pages of a list, newest first, *)
(* handing each opaque cursor straight back, while rows are inserted and   *)
(* deleted under it.                                                       *)
(*                                                                         *)
(* A row is its sort key: a timestamp (published_at of an article,         *)
(* registered_at of a feed), which no statement ever changes, and its id.  *)
(***************************************************************************)
EXTENDS Integers, FiniteSets

CONSTANTS
    Times,          \* timestamps of rows
    Ids,            \* ids of rows
    Limits,         \* page sizes a client asks for
    defaultLimit,   \* the page size of a request that names none, or 0
    maxListLimit,   \* the largest page size
    ZeroTime,       \* the timestamp time.Time.IsZero recognises
    LastYear9999,   \* the last timestamp json.Marshal can write
    None            \* no cursor

Keys == [at : Times, id : Ids]

ASSUME PaginationAssumption ==
    /\ Times \subseteq Nat /\ Ids \subseteq Nat
    /\ Limits \subseteq Int
    /\ defaultLimit \in Nat /\ maxListLimit \in Nat
    /\ None \notin Keys

VARIABLES
    rows,       \* the rows of the list
    used,       \* every row there ever was: ids are never used again
    walk,       \* "idle", "open", "ended" (no further page), "rejected" or "failed"
    limit,      \* the page size of the walk
    cursor,     \* the position to resume after
    seen,       \* rows the walk has delivered
    stable      \* rows that have been there for the whole walk

vars == <<rows, used, walk, limit, cursor, seen, stable>>

TypeOK ==
    /\ rows \in SUBSET Keys
    /\ used \in SUBSET Keys
    /\ walk \in {"idle", "open", "ended", "rejected", "failed"}
    /\ limit \in Limits \cup {0, defaultLimit}
    /\ cursor \in Keys \cup {None}
    /\ seen \in SUBSET Keys
    /\ stable \in SUBSET Keys
    /\ walk = "open" => limit \in 1..maxListLimit

Init ==
    /\ rows = {}
    /\ used = {}
    /\ walk = "idle"
    /\ limit = 0
    /\ cursor = None
    /\ seen = {}
    /\ stable = {}

-----------------------------------------------------------------------------
(* The query. *)

\* Mutant: the tie-break on the id is left out.
BeforeByTime(k, c) == k.at < c.at

\* (at, id) < (cursor_at, cursor_id): k comes after c in ORDER BY at DESC, id DESC.
Before(k, c) == k.at < c.at \/ (k.at = c.at /\ k.id < c.id)

\* Mutant: the row at the cursor is delivered again.
FromHere(c) == {k \in rows : c # None => Before(k, c) \/ k = c}

Remaining(c) == {k \in rows : c # None => Before(k, c)}

\* The first n rows of S in that order: LIMIT n.
First(n, S) ==
    CHOOSE T \in SUBSET S :
        /\ Cardinality(T) = IF Cardinality(S) < n THEN Cardinality(S) ELSE n
        /\ \A k \in S \ T, t \in T : Before(k, t)

LastOf(S) == CHOOSE k \in S : \A j \in S \ {k} : Before(k, j)

-----------------------------------------------------------------------------
(* The interactor: over-fetch by one row, trim it, resume after the last    *)
(* row kept.                                                                *)

\* Mutant: the interactor asks for limit rows.
ListExactly(n, c) == First(n, Remaining(c))

ListPage(n, c) == First(n + 1, Remaining(c))

hasMore(items, n) == Cardinality(items) > n

kept(items, n) == IF hasMore(items, n) THEN First(n, items) ELSE items

\* Mutant: the cursor is taken from the row that was trimmed.
CursorOfExtra(items, n) == LastOf(items)

NextCursor(items, n) == LastOf(kept(items, n))

\* json.Marshal refuses a year after 9999, and with it the whole response.  The row
\* a token is made of is one of the page.
Written(page) == \A k \in page : k.at <= LastYear9999

\* decodeCursor refuses the zero time.
Decodes(c) == c.at # ZeroTime

-----------------------------------------------------------------------------
(* Rows come and go. *)

Insert(k) ==
    /\ \A j \in used : j.id # k.id
    /\ rows' = rows \cup {k}
    /\ used' = used \cup {k}
    /\ UNCHANGED <<walk, limit, cursor, seen, stable>>

Delete(k) ==
    /\ k \in rows
    /\ rows' = rows \ {k}
    /\ stable' = stable \ {k}
    /\ UNCHANGED <<used, walk, limit, cursor, seen>>

-----------------------------------------------------------------------------
(* A client walks the list. *)

\* Mutant: only the ceiling is checked.
CeilingOnly(n) == n <= maxListLimit

validateLimit(n) == 0 < n /\ n <= maxListLimit

\* The handlers: a limit of 0 is one that was left out.
pageSize(n) == IF n = 0 THEN defaultLimit ELSE n

\* The first request of a walk: no token.
Open(n) ==
    /\ walk # "open"
    /\ cursor' = None
    /\ seen' = {}
    /\ stable' = rows
    /\ limit' = pageSize(n)
    /\ walk' = IF validateLimit(pageSize(n)) THEN "open" ELSE "rejected"
    /\ UNCHANGED <<rows, used>>

\* The page after the cursor; the client keeps the token of the next one.
NextPage ==
    /\ walk = "open"
    /\ cursor # None => Decodes(cursor)
    /\ LET items == ListPage(limit, cursor)
           page == kept(items, limit)
       IN /\ Written(page)
          /\ seen' = seen \cup page
          /\ IF hasMore(items, limit)
               THEN cursor' = NextCursor(items, limit) /\ walk' = "open"
               ELSE cursor' = cursor /\ walk' = "ended"
    /\ UNCHANGED <<rows, used, limit, stable>>

\* The response cannot be written: an internal error, and the client gives up.
FailPage ==
    /\ walk = "open"
    /\ cursor # None => Decodes(cursor)
    /\ ~Written(kept(ListPage(limit, cursor), limit))
    /\ walk' = "failed"
    /\ UNCHANGED <<rows, used, limit, cursor, seen, stable>>

\* The token is refused as malformed.
RefuseToken ==
    /\ walk = "open"
    /\ cursor # None /\ ~Decodes(cursor)
    /\ walk' = "rejected"
    /\ UNCHANGED <<rows, used, limit, cursor, seen, stable>>

Next ==
    \/ \E k \in Keys : Insert(k) \/ Delete(k)
    \/ \E n \in Limits : Open(n)
    \/ NextPage \/ FailPage
    \/ RefuseToken

Spec == Init /\ [][Next]_vars

\* A client that has opened a list keeps scrolling.
FairSpec == Spec /\ WF_vars(NextPage \/ FailPage \/ RefuseToken)

-----------------------------------------------------------------------------
\* A walk that has ended has delivered every row that was there from its first
\* request to its last, whatever was inserted or deleted meanwhile and however
\* many rows share a timestamp.
Complete == walk = "ended" => stable \subseteq seen

\* A walk goes down the list in one pass: every page lies below all that was
\* delivered before it, so no row is delivered twice.
OnePass ==
    [][NextPage => \A k \in kept(ListPage(limit, cursor), limit), j \in seen :
                       Before(k, j)]_vars

\* A null token means that there is no next page (README.md:162 of the
\* repository): nothing remained below the cursor but what was just delivered.
NullMeansLast ==
    [][walk = "open" /\ walk' = "ended" => Remaining(cursor) \subseteq seen']_vars

\* A walk ends: it does not go round the same rows, and it does not wait for
\* the rows inserted behind it.
WalkEnds == walk = "open" ~> walk # "open"
=============================================================================
