---------------------------- MODULE ReaderStore ----------------------------
(***************************************************************************)
(* The read and starred marks of the web client: every tab keeps its own   *)
(* copy in React state, loaded once from localStorage when the tab mounts, *)
(* and writes the whole copy back with each mark.  Tabs of one browser     *)
(* share localStorage and do not hear of each other's writes.              *)
(*                                                                         *)
(* An update function of React state, with the save inside it, is one      *)
(* step.  Mounting and the effect that hydrates are two: another tab may   *)
(* write between them, the user cannot act on the tab before both.         *)
(***************************************************************************)
EXTENDS Integers

CONSTANTS
    Tabs,       \* tabs open at the same time
    Articles,
    Storage,    \* how localStorage may behave: "works", "full", "blocked"
    LastTime    \* bound of the clock

ASSUME ReaderAssumption ==
    /\ Storage \subseteq {"works", "full", "blocked"}
    /\ LastTime \in Nat \ {0}
    /\ "latest" \notin Tabs

VARIABLES
    storage,    \* how it does behave: "full" refuses writes, "blocked" reads too
    stored,     \* what localStorage holds; visit is 0 when there is none
    tab,        \* the state of each tab's provider
    now,        \* the clock
    opened,     \* articles the user has marked as read, in any tab and visit
    alone,      \* there have never been two tabs at the same time
    settled,    \* articles read in a tab that saved them as the only one loaded
    visits      \* the time of the last visit before each tab's, 0 when none

vars == <<storage, stored, tab, now, opened, alone, settled, visits>>

Times == 0..LastTime
ClosedTab == [pc |-> "closed", read |-> {}, starred |-> {}, last |-> 0]

TypeOK ==
    /\ storage \in Storage
    /\ stored \in [read : SUBSET Articles, starred : SUBSET Articles, visit : Times]
    /\ tab \in [Tabs -> [ pc      : {"closed", "mounted", "ready", "crashed"},
                          read    : SUBSET Articles,
                          starred : SUBSET Articles,
                          last    : Times ]]
    /\ now \in 1..LastTime
    /\ opened \in SUBSET Articles
    /\ alone \in BOOLEAN
    /\ settled \in SUBSET Articles
    /\ visits \in [Tabs \cup {"latest"} -> Times]
    /\ \A t \in Tabs : tab[t].pc \in {"mounted", "ready"} => tab[t].last > 0

Init ==
    /\ storage \in Storage
    /\ stored = [read |-> {}, starred |-> {}, visit |-> 0]
    /\ tab = [t \in Tabs |-> ClosedTab]
    /\ now = 1
    /\ opened = {}
    /\ alone = TRUE
    /\ settled = {}
    /\ visits = [t \in Tabs \cup {"latest"} |-> 0]

Ready(t) == tab[t].pc = "ready"

-----------------------------------------------------------------------------
(* localStorage *)

\* setItem with its exception swallowed.
saveIds(key, ids) ==
    stored' = IF storage = "works" THEN [stored EXCEPT ![key] = ids] ELSE stored

\* getItem with its exception swallowed.
loadIds(key) == IF storage = "blocked" THEN {} ELSE stored[key]

-----------------------------------------------------------------------------
(* ReaderStoreProvider *)

\* Mutant: the marks are saved by an effect of their own, which runs for the empty
\* set of the first render too.
SaveInitial(t) ==
    /\ tab[t].pc = "closed"
    /\ tab' = [tab EXCEPT ![t] = [ pc |-> "mounted", last |-> now,
                                   read |-> {}, starred |-> {} ]]
    /\ saveIds("read", {})
    /\ alone' = (alone /\ \A u \in Tabs : tab[u].pc = "closed")
    /\ UNCHANGED <<storage, now, opened, settled, visits>>

\* useState: nothing is read, and nothing is newer than now.
Mount(t) ==
    /\ tab[t].pc = "closed"
    /\ tab' = [tab EXCEPT ![t] = [ pc |-> "mounted", last |-> now,
                                   read |-> {}, starred |-> {} ]]
    /\ alone' = (alone /\ \A u \in Tabs : tab[u].pc = "closed")
    /\ UNCHANGED <<storage, stored, now, opened, settled, visits>>

Visited(t) == visits' = [visits EXCEPT ![t] = visits["latest"], !["latest"] = now]

\* Mutant: the visit is stamped before the previous one is read.
StampFirst(t) ==
    /\ tab[t].pc = "mounted"
    /\ tab' = [tab EXCEPT ![t] = [ pc |-> "ready", last |-> now,
                                   read |-> loadIds("read"), starred |-> loadIds("starred")]]
    /\ stored' = [stored EXCEPT !.visit = now]
    /\ Visited(t)
    /\ UNCHANGED <<storage, now, opened, alone, settled>>

\* Mutant: a missing visit is read as the time 0.
ReadZero(t) ==
    /\ tab[t].pc = "mounted"
    /\ tab' = [tab EXCEPT ![t].pc = "ready", ![t].last = stored.visit]
    /\ Visited(t)
    /\ UNCHANGED <<storage, stored, now, opened, alone, settled>>

\* The effect of the first render.  The visit is read with no try around it.
Hydrate(t) ==
    /\ tab[t].pc = "mounted"
    /\ IF storage = "blocked"
         THEN tab' = [tab EXCEPT ![t].pc = "crashed"] /\ UNCHANGED stored
         ELSE /\ tab' = [tab EXCEPT ![t] =
                    [ pc |-> "ready",
                      last |-> IF stored.visit > 0 THEN stored.visit ELSE tab[t].last,
                      read |-> loadIds("read"),
                      starred |-> loadIds("starred")]]
              /\ saveIds("visit", now)
    /\ Visited(t)
    /\ UNCHANGED <<storage, now, opened, alone, settled>>

\* History: what a tab that saves its marks knows as read, unless another tab is
\* loaded that may not know it.
Settle(t, ids) ==
    settled' = IF \A u \in Tabs : Ready(u) => u = t THEN settled \cup ids ELSE settled

\* Mutant: the set before the mark is saved.
SaveBefore(t, a) ==
    /\ Ready(t)
    /\ tab' = [tab EXCEPT ![t].read = @ \cup {a}]
    /\ saveIds("read", tab[t].read)
    /\ opened' = opened \cup {a}
    /\ UNCHANGED <<storage, now, alone, settled, visits>>

\* openArticle: markRead, which saves nothing when the mark is there.
markRead(t, a) ==
    /\ Ready(t)
    /\ IF a \in tab[t].read
         THEN UNCHANGED <<tab, stored, settled>>
         ELSE /\ tab' = [tab EXCEPT ![t].read = @ \cup {a}]
              /\ saveIds("read", tab[t].read \cup {a})
              /\ Settle(t, tab[t].read \cup {a})
    /\ opened' = opened \cup {a}
    /\ UNCHANGED <<storage, now, alone, visits>>

\* What one mark does for several articles; it saves even if nothing is new.
markAllRead(t, ids) ==
    /\ Ready(t)
    /\ tab' = [tab EXCEPT ![t].read = @ \cup ids]
    /\ saveIds("read", tab[t].read \cup ids)
    /\ Settle(t, tab[t].read \cup ids)
    /\ opened' = opened \cup ids
    /\ UNCHANGED <<storage, now, alone, visits>>

\* Mutant: a star that is taken back is not saved.
SaveAdded(t, a) ==
    /\ Ready(t)
    /\ IF a \in tab[t].starred
         THEN tab' = [tab EXCEPT ![t].starred = @ \ {a}] /\ UNCHANGED stored
         ELSE /\ tab' = [tab EXCEPT ![t].starred = @ \cup {a}]
              /\ saveIds("starred", tab[t].starred \cup {a})
    /\ UNCHANGED <<storage, now, opened, alone, settled, visits>>

toggleStar(t, a) ==
    /\ Ready(t)
    /\ LET next == IF a \in tab[t].starred THEN tab[t].starred \ {a}
                                          ELSE tab[t].starred \cup {a}
       IN /\ tab' = [tab EXCEPT ![t].starred = next]
          /\ saveIds("starred", next)
    /\ UNCHANGED <<storage, now, opened, alone, settled, visits>>

CloseTab(t) ==
    /\ tab[t].pc # "closed"
    /\ tab' = [tab EXCEPT ![t] = ClosedTab]
    /\ UNCHANGED <<storage, stored, now, opened, alone, settled, visits>>

Tick ==
    /\ now < LastTime
    /\ now' = now + 1
    /\ UNCHANGED <<storage, stored, tab, opened, alone, settled, visits>>

Next ==
    \/ \E t \in Tabs :
         \/ Mount(t) \/ Hydrate(t) \/ CloseTab(t)
         \/ \E a \in Articles : markRead(t, a) \/ toggleStar(t, a)
         \/ \E ids \in SUBSET Articles : markAllRead(t, ids)
    \/ Tick

Spec == Init /\ [][Next]_vars

-----------------------------------------------------------------------------
\* readIds holds the ids of the articles the user has opened
\* (article-status.ts:9) or marked as read with others, in this visit and in those
\* before it, as long as tabs are used one after the other.
OpenedIsRead ==
    storage = "works" /\ alone => \A t \in Tabs : Ready(t) => opened = tab[t].read

\* The weaker promise for several tabs: a page that is loaded knows every article
\* the user has opened before.
OpenedRemembered ==
    [][\A t \in Tabs : tab[t].pc = "mounted" /\ Ready(t)' => opened \subseteq tab'[t].read]_vars

\* lastVisitedAt is the time of the previous visit (article-status.ts:14), in
\* whichever tab that was, and never that of the visit itself.
PreviousVisit ==
    storage = "works" =>
        \A t \in Tabs : Ready(t) /\ visits[t] # 0 => tab[t].last = visits[t]

\* A star is what the user last made of it: the tab that shows it and the copy
\* that outlives the tab agree, with one tab at a time.
StarsKept ==
    storage = "works" /\ alone =>
        \A t \in Tabs : Ready(t) => stored.starred = tab[t].starred

\* What tabs lose to each other is bounded: all that a tab showed as read when it
\* saved a mark as the only one loaded stays read, in localStorage and in every tab,
\* however many tabs are opened, hydrated, used and closed meanwhile and afterwards.
\* Each writes its whole set (reader-store.tsx:77, 86) over that of the others.
MarksOutlive ==
    storage = "works" =>
        /\ settled \subseteq stored.read
        /\ \A t \in Tabs : Ready(t) => settled \subseteq tab[t].read
=============================================================================
