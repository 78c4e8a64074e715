-------------------------- MODULE ReaderStoreProofs --------------------------
(***************************************************************************)
(* The properties of the reading marks, for any number of tabs and         *)
(* articles: with tabs used one after the other what a tab shows, what is  *)
(* stored and what the user did are the same.                              *)
(***************************************************************************)
EXTENDS ReaderStore, TLAPS

\* Without two tabs at a time all but one are closed.
OneTab ==
    alone => \A t, u \in Tabs : t # u => tab[t].pc = "closed" \/ tab[u].pc = "closed"

\* What is stored while no tab is open.
StoredMarks == storage = "works" /\ alone => stored.read = opened

StoredVisit == storage = "works" => stored.visit = visits["latest"]

IInv ==
    /\ TypeOK
    /\ OneTab /\ StoredMarks /\ StoredVisit
    /\ OpenedIsRead /\ StarsKept /\ PreviousVisit /\ MarksOutlive

USE DEF Times, ClosedTab, Ready

LEMMA InitIInv == Init => IInv
BY ReaderAssumption
   DEF Init, IInv, TypeOK, OneTab, StoredMarks, StoredVisit, OpenedIsRead, StarsKept,
       PreviousVisit, MarksOutlive

\* A step that changes one tab, and of it no more than its record, keeps the types.
LEMMA TabTyped ==
    ASSUME TypeOK, NEW t \in Tabs,
           NEW r \in [ pc      : {"closed", "mounted", "ready", "crashed"},
                       read    : SUBSET Articles,
                       starred : SUBSET Articles,
                       last    : Times ],
           r.pc \in {"mounted", "ready"} => r.last > 0,
           tab' = [tab EXCEPT ![t] = r],
           storage' = storage, now' = now, alone' \in BOOLEAN, settled' \in SUBSET Articles,
           opened' \in SUBSET Articles,
           visits' \in [Tabs \cup {"latest"} -> Times],
           stored' \in [read : SUBSET Articles, starred : SUBSET Articles, visit : Times]
    PROVE  TypeOK'
<1>1. \A u \in Tabs : tab'[u] = IF u = t THEN r ELSE tab[u]
    BY DEF TypeOK
<1>2. \A u \in Tabs : tab'[u].pc \in {"mounted", "ready"} => tab'[u].last > 0
    BY <1>1 DEF TypeOK
<1>3. tab' \in [Tabs -> [ pc      : {"closed", "mounted", "ready", "crashed"},
                         read    : SUBSET Articles,
                         starred : SUBSET Articles,
                         last    : Times ]]
    BY DEF TypeOK
<1> QED BY <1>2, <1>3 DEF TypeOK

LEMMA MountKeeps == ASSUME IInv, NEW t \in Tabs, Mount(t) PROVE IInv'
<1> USE DEF Mount
<1>1. TypeOK'
    <2> DEFINE r == [pc |-> "mounted", read |-> {}, starred |-> {}, last |-> now]
    <2>1. now \in Times /\ now > 0
        BY ReaderAssumption DEF IInv, TypeOK
    <2> QED BY <2>1, TabTyped DEF IInv, TypeOK
<1>2. OneTab'
    BY DEF IInv, OneTab, TypeOK
<1>3. (StoredMarks /\ StoredVisit)'
    BY DEF IInv, StoredMarks, StoredVisit
<1>4. (OpenedIsRead /\ StarsKept /\ PreviousVisit /\ MarksOutlive)'
    BY DEF IInv, TypeOK, OpenedIsRead, StarsKept, PreviousVisit, MarksOutlive
<1> QED BY <1>1, <1>2, <1>3, <1>4 DEF IInv

LEMMA HydrateKeeps == ASSUME IInv, NEW t \in Tabs, Hydrate(t) PROVE IInv'
<1> USE DEF Hydrate, Visited, saveIds, loadIds
<1>1. TypeOK'
    BY ReaderAssumption DEF IInv, TypeOK
<1>2. OneTab'
    BY DEF IInv, OneTab, TypeOK
<1>3. (StoredMarks /\ StoredVisit)'
    BY ReaderAssumption DEF IInv, TypeOK, StoredMarks, StoredVisit
<1>4. (OpenedIsRead /\ StarsKept)'
    BY DEF IInv, TypeOK, OneTab, StoredMarks, OpenedIsRead, StarsKept
<1>5. PreviousVisit'
    BY ReaderAssumption DEF IInv, TypeOK, StoredVisit, PreviousVisit
<1>6. MarksOutlive'
    <2>1. SUFFICES ASSUME storage = "works"
                   PROVE  /\ settled \subseteq stored'.read
                          /\ \A u \in Tabs : tab'[u].pc = "ready" => settled \subseteq tab'[u].read
        BY DEF MarksOutlive
    <2>2. settled \subseteq stored.read
        BY <2>1 DEF IInv, MarksOutlive
    <2>3. stored'.read = stored.read
        BY <2>1 DEF IInv, TypeOK
    <2>4. tab'[t].read = stored.read
        BY <2>1 DEF IInv, TypeOK
    <2>5. \A u \in Tabs \ {t} : tab'[u] = tab[u]
        BY <2>1 DEF IInv, TypeOK
    <2>6. \A u \in Tabs : tab[u].pc = "ready" => settled \subseteq tab[u].read
        BY <2>1 DEF IInv, MarksOutlive
    <2> QED BY <2>2, <2>3, <2>4, <2>5, <2>6
<1> QED BY <1>1, <1>2, <1>3, <1>4, <1>5, <1>6 DEF IInv

LEMMA MarkKeeps ==
    ASSUME IInv, NEW t \in Tabs, NEW a \in Articles, markRead(t, a) PROVE IInv'
<1> USE DEF markRead, saveIds, Settle
<1>1. TypeOK'
    <2>1. CASE a \in tab[t].read
        BY <2>1 DEF IInv, TypeOK
    <2>2. CASE a \notin tab[t].read
        <3> DEFINE ids == tab[t].read \cup {a}
                   r == [tab[t] EXCEPT !.read = ids]
        <3>1. ids \in SUBSET Articles
            BY DEF IInv, TypeOK
        <3>2. tab' = [tab EXCEPT ![t] = r]
            BY <2>2 DEF IInv, TypeOK
        <3>3. stored' \in [read : SUBSET Articles, starred : SUBSET Articles, visit : Times]
            BY <2>2, <3>1 DEF IInv, TypeOK
        <3>4. settled' \in SUBSET Articles
            BY <2>2, <3>1 DEF IInv, TypeOK
        <3> HIDE DEF ids
        <3>5. /\ r \in [ pc      : {"closed", "mounted", "ready", "crashed"},
                        read    : SUBSET Articles,
                        starred : SUBSET Articles,
                        last    : Times ]
              /\ r.pc \in {"mounted", "ready"} => r.last > 0
            BY <3>1 DEF IInv, TypeOK
        <3> HIDE DEF r
        <3> QED BY <3>2, <3>3, <3>4, <3>5, TabTyped DEF IInv, TypeOK
    <2> QED BY <2>1, <2>2
<1>2. OneTab'
    BY DEF IInv, OneTab, TypeOK
<1>3. (StoredMarks /\ StoredVisit)'
    BY DEF IInv, TypeOK, StoredMarks, StoredVisit, OpenedIsRead
<1>4. OpenedIsRead'
    <2>1. SUFFICES ASSUME storage = "works", alone, NEW u \in Tabs, tab'[u].pc = "ready"
                   PROVE  opened' = tab'[u].read
        BY DEF OpenedIsRead
    <2>2. tab[u].pc = "ready" /\ u = t
        BY <2>1 DEF IInv, TypeOK, OneTab
    <2>3. opened = tab[t].read
        BY <2>1 DEF IInv, OpenedIsRead
    <2>4. tab'[t].read = tab[t].read \cup {a}
        BY DEF IInv, TypeOK
    <2> QED BY <2>2, <2>3, <2>4
<1>5. StarsKept'
    BY DEF IInv, TypeOK, StarsKept
<1>6. (PreviousVisit /\ MarksOutlive)'
    BY DEF IInv, TypeOK, PreviousVisit, MarksOutlive
<1> QED BY <1>1, <1>2, <1>3, <1>4, <1>5, <1>6 DEF IInv

LEMMA MarkAllKeeps ==
    ASSUME IInv, NEW t \in Tabs, NEW ids \in SUBSET Articles, markAllRead(t, ids) PROVE IInv'
<1> USE DEF markAllRead, saveIds, Settle
<1>1. TypeOK'
    BY DEF IInv, TypeOK
<1>2. OneTab'
    BY DEF IInv, OneTab, TypeOK
<1>3. (StoredMarks /\ StoredVisit)'
    BY DEF IInv, TypeOK, StoredMarks, StoredVisit, OpenedIsRead
<1>4. OpenedIsRead'
    <2>1. SUFFICES ASSUME storage = "works", alone, NEW u \in Tabs, tab'[u].pc = "ready"
                   PROVE  opened' = tab'[u].read
        BY DEF OpenedIsRead
    <2>2. tab[u].pc = "ready" /\ u = t
        BY <2>1 DEF IInv, TypeOK, OneTab
    <2>3. opened = tab[t].read
        BY <2>1 DEF IInv, OpenedIsRead
    <2>4. tab'[t].read = tab[t].read \cup ids
        BY DEF IInv, TypeOK
    <2> QED BY <2>2, <2>3, <2>4
<1>5. StarsKept'
    BY DEF IInv, TypeOK, StarsKept
<1>6. (PreviousVisit /\ MarksOutlive)'
    BY DEF IInv, TypeOK, PreviousVisit, MarksOutlive
<1> QED BY <1>1, <1>2, <1>3, <1>4, <1>5, <1>6 DEF IInv

LEMMA StarKeeps ==
    ASSUME IInv, NEW t \in Tabs, NEW a \in Articles, toggleStar(t, a) PROVE IInv'
<1> USE DEF toggleStar, saveIds
<1>1. TypeOK'
    <2> DEFINE next == IF a \in tab[t].starred THEN tab[t].starred \ {a}
                                               ELSE tab[t].starred \cup {a}
               r == [tab[t] EXCEPT !.starred = next]
    <2>1. next \in SUBSET Articles
        BY DEF IInv, TypeOK
    <2>2. tab' = [tab EXCEPT ![t] = r]
        BY DEF IInv, TypeOK
    <2>3. stored' \in [read : SUBSET Articles, starred : SUBSET Articles, visit : Times]
        BY <2>1 DEF IInv, TypeOK
    <2> HIDE DEF next
    <2>4. /\ r \in [ pc      : {"closed", "mounted", "ready", "crashed"},
                    read    : SUBSET Articles,
                    starred : SUBSET Articles,
                    last    : Times ]
          /\ r.pc \in {"mounted", "ready"} => r.last > 0
        BY <2>1 DEF IInv, TypeOK
    <2> HIDE DEF r
    <2> QED BY <2>2, <2>3, <2>4, TabTyped DEF IInv, TypeOK
<1>2. OneTab'
    BY DEF IInv, OneTab, TypeOK
<1>3. (StoredMarks /\ StoredVisit)'
    BY DEF IInv, TypeOK, StoredMarks, StoredVisit
<1>4. (OpenedIsRead /\ StarsKept)'
    BY DEF IInv, TypeOK, OneTab, OpenedIsRead, StarsKept
<1>5. (PreviousVisit /\ MarksOutlive)'
    BY DEF IInv, TypeOK, PreviousVisit, MarksOutlive
<1> QED BY <1>1, <1>2, <1>3, <1>4, <1>5 DEF IInv

LEMMA CloseKeeps == ASSUME IInv, NEW t \in Tabs, CloseTab(t) PROVE IInv'
<1> USE DEF CloseTab
<1>1. TypeOK'
    <2>1. ClosedTab.last \in Times
        BY ReaderAssumption
    <2> QED BY <2>1, TabTyped DEF IInv, TypeOK
<1>2. (OneTab /\ StoredMarks /\ StoredVisit)'
    BY DEF IInv, OneTab, TypeOK, StoredMarks, StoredVisit
<1>3. (OpenedIsRead /\ StarsKept /\ PreviousVisit /\ MarksOutlive)'
    BY DEF IInv, TypeOK, OpenedIsRead, StarsKept, PreviousVisit, MarksOutlive
<1> QED BY <1>1, <1>2, <1>3 DEF IInv

LEMMA TickKeeps == ASSUME IInv, Tick PROVE IInv'
BY ReaderAssumption
   DEF Tick, IInv, TypeOK, OneTab, StoredMarks, StoredVisit, OpenedIsRead, StarsKept,
       PreviousVisit, MarksOutlive

LEMMA StutterKeeps == ASSUME IInv, UNCHANGED vars PROVE IInv'
BY DEF vars, IInv, TypeOK, OneTab, StoredMarks, StoredVisit, OpenedIsRead, StarsKept,
       PreviousVisit, MarksOutlive

LEMMA NextIInv == IInv /\ [Next]_vars => IInv'
BY MountKeeps, HydrateKeeps, MarkKeeps, MarkAllKeeps, StarKeeps, CloseKeeps, TickKeeps, StutterKeeps DEF Next

LEMMA InvariantHolds == Spec => []IInv
<1>1. Init => IInv BY InitIInv
<1>2. IInv /\ [Next]_vars => IInv' BY NextIInv
<1> QED BY <1>1, <1>2, PTL DEF Spec

\* Every variable keeps its type, and no tab that is open lacks a last visit.
THEOREM TypeSafe == Spec => []TypeOK
<1>1. IInv => TypeOK BY DEF IInv
<1> QED BY <1>1, InvariantHolds, PTL

\* readIds is what the user has opened in this and all earlier visits, with any
\* number of tabs used one after the other.
THEOREM MarksSurvive == Spec => []OpenedIsRead
<1>1. IInv => OpenedIsRead BY DEF IInv
<1> QED BY <1>1, InvariantHolds, PTL

\* The tab and the storage agree on every star.
THEOREM StarsSurvive == Spec => []StarsKept
<1>1. IInv => StarsKept BY DEF IInv
<1> QED BY <1>1, InvariantHolds, PTL

\* lastVisitedAt is the time of the visit before, in whichever tabs the visits
\* were, several at a time included.
THEOREM VisitsCompared == Spec => []PreviousVisit
<1>1. IInv => PreviousVisit BY DEF IInv
<1> QED BY <1>1, InvariantHolds, PTL

\* What the only loaded tab showed as read when it saved a mark stays read, with any
\* number of tabs open afterwards.
THEOREM MarksOutliveTabs == Spec => []MarksOutlive
<1>1. IInv => MarksOutlive BY DEF IInv
<1> QED BY <1>1, InvariantHolds, PTL
=============================================================================
