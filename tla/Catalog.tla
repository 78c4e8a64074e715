------------------------------ MODULE Catalog ------------------------------
(***************************************************************************)
(* What the feed service promises: every write operation of the API takes  *)
(* effect at one instant between its call and its answer, and its answer   *)
(* tells which effect that was; in the background the job reschedules      *)
(* feeds and adds articles, and nothing else happens to the tables.        *)
(***************************************************************************)
EXTENDS Sequences

CONSTANTS FeedIds, Urls, Sites, Exts, Docs, None, Requests, ItemsOf, SiteOf, Tagged,
          CandidatesOf

VARIABLES feeds, articles, status,
          call      \* per request: idle, the operation called on what, or its answer

catalog == <<feeds, articles, status>>
vars == <<feeds, articles, status, call>>

Idle == [what |-> "idle", on |-> None]

Init ==
    /\ feeds = [f \in FeedIds |-> None]
    /\ articles = {}
    /\ status = [f \in FeedIds |-> None]
    /\ call = [p \in Requests |-> Idle]

Exists(f) == feeds[f] # None
Items(f, d) == {f} \X ItemsOf[d]
Cursor(d) == IF d \in Tagged THEN d ELSE None
Taken(f, row) ==
    \E g \in FeedIds \ {f} :
        Exists(g) /\ (feeds[g].url = row.url \/ feeds[g].site = row.site)

\* Feed f holds row and everything document d brings.
Store(f, row, d) ==
    /\ ~Taken(f, row)
    /\ feeds' = [feeds EXCEPT ![f] = row]
    /\ articles' = articles \cup Items(f, d)
    /\ status' = [status EXCEPT ![f] = [due |-> FALSE, cursor |-> Cursor(d)]]

Subscribe(u) ==
    \E f \in FeedIds, d \in Docs :
        ~Exists(f) /\ Store(f, [url |-> u, site |-> SiteOf[d]], d)

Resync(f) ==
    \E d \in Docs : Exists(f) /\ Store(f, [url |-> feeds[f].url, site |-> SiteOf[d]], d)

Unsubscribe(f) ==
    /\ feeds' = [feeds EXCEPT ![f] = None]
    /\ articles' = {a \in articles : a[1] # f}
    /\ status' = [status EXCEPT ![f] = None]

\* What an operation does, to what it was called on: a feed URL, a website, a feed.
Effect(c) ==
    CASE c.what = "register" -> Subscribe(c.on)
      [] c.what = "discover" -> CandidatesOf[c.on] # <<>> /\ Subscribe(Head(CandidatesOf[c.on]))
      [] c.what = "refresh" -> Resync(c.on)
      [] c.what = "delete" -> Unsubscribe(c.on)

Calls == [what : {"register"}, on : Urls] \cup [what : {"discover"}, on : Sites]
             \cup [what : {"refresh", "delete"}, on : FeedIds]
Refusals == {"conflict", "not_found", "unavailable", "internal"}

Called(p) == call[p].what \in {"register", "discover", "refresh", "delete"}
Reply(p, a) == call' = [call EXCEPT ![p] = [what |-> a, on |-> None]]

Call(p) ==
    /\ call[p] = Idle
    /\ \E c \in Calls : call' = [call EXCEPT ![p] = c]
    /\ UNCHANGED catalog

\* The effect and the answer that reports it.
Succeed(p) ==
    /\ Called(p)
    /\ Effect(call[p])
    /\ Reply(p, IF call[p].what \in {"register", "discover"} THEN "created" ELSE "ok")

\* An error answer: nothing happened.  A conflict needs something to conflict
\* with, and a deletion has nothing to conflict with or to miss.
Refuse(p) ==
    /\ Called(p)
    /\ \E a \in Refusals :
         /\ a = "conflict" => call[p].what # "delete" /\ \E f \in FeedIds : Exists(f)
         /\ a = "not_found" => call[p].what \in {"refresh", "discover"}
         /\ Reply(p, a)
    /\ UNCHANGED catalog

\* The reply of the database was lost: the effect took place and the answer
\* says internal error.
Lose(p) == Called(p) /\ Effect(call[p]) /\ Reply(p, "internal")

Return(p) == ~Called(p) /\ Reply(p, "idle") /\ UNCHANGED catalog

\* The job: a feed that exists gets its next fetch and a validator whose
\* document is in the archive.
Reschedule ==
    \E f \in FeedIds, c \in Docs \cup {None} :
        /\ Exists(f)
        /\ articles \subseteq articles'
        /\ articles' \subseteq articles \cup ({f} \X Exts)
        /\ c # None => Items(f, c) \subseteq articles'
        /\ status' = [status EXCEPT ![f] = [due |-> FALSE, cursor |-> c]]
        /\ UNCHANGED <<feeds, call>>

\* next_fetch_at passes.
Elapse ==
    \E f \in FeedIds :
        /\ status[f] # None
        /\ status' = [status EXCEPT ![f].due = TRUE]
        /\ UNCHANGED <<feeds, articles, call>>

\* The process dies; its requests are never answered.
Restart == call' = [p \in Requests |-> Idle] /\ UNCHANGED catalog

Next ==
    \/ \E p \in Requests : Call(p) \/ Succeed(p) \/ Refuse(p) \/ Lose(p) \/ Return(p)
    \/ Reschedule
    \/ Elapse
    \/ Restart

Spec == Init /\ [][Next]_vars
=============================================================================
