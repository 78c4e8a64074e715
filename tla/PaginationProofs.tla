-------------------------- MODULE PaginationProofs --------------------------
(***************************************************************************)
(* A walk over the pages of a list misses nothing and repeats nothing, for *)
(* lists of any length and any page size.                                  *)
(*                                                                         *)
(* Induction over sets is replaced by their finiteness: a nonempty         *)
(* collection of subsets of a finite set has a minimal member.             *)
(***************************************************************************)
EXTENDS Pagination, FiniteSetTheorems, TLAPS

-----------------------------------------------------------------------------
(* The order of the list and LIMIT. *)

LEMMA MinimalSet ==
  ASSUME NEW S, IsFiniteSet(S), NEW C \in SUBSET (SUBSET S), C # {}
  PROVE  \E T \in C : \A U \in C : U \subseteq T => U = T
<1>1. IsWellFoundedOn(StrictSubsetOrdering(S), SUBSET S)
  BY FS_StrictSubsetOrderingWellFounded, FS_FiniteSubsetsOfFinite
<1>2. PICK T \in C : \A U \in C : ~(<<U, T>> \in StrictSubsetOrdering(S))
  BY <1>1, WFMin
<1> QED
  BY <1>2 DEF StrictSubsetOrdering

\* A row is its timestamp and its id, both natural numbers.
LEMMA KeyParts ==
  ASSUME NEW j \in Keys
  PROVE  j.at \in Nat /\ j.id \in Nat /\ j = [at |-> j.at, id |-> j.id]
BY PaginationAssumption DEF Keys

\* Before orders the rows in a line.
LEMMA BeforeOrders ==
  ASSUME NEW j \in Keys, NEW k \in Keys
  PROVE  /\ j = k \/ Before(j, k) \/ Before(k, j)
         /\ ~(Before(j, k) /\ Before(k, j))
         /\ ~Before(k, k)
<1>1. /\ j.at \in Nat /\ j.id \in Nat /\ j = [at |-> j.at, id |-> j.id]
      /\ k.at \in Nat /\ k.id \in Nat /\ k = [at |-> k.at, id |-> k.id]
  BY KeyParts
<1>2. j.at = k.at /\ j.id = k.id => j = k
  BY ONLY <1>1
<1> QED
  BY ONLY <1>1, <1>2 DEF Before

LEMMA BeforeTransitive ==
  ASSUME NEW i \in Keys, NEW j \in Keys, NEW k \in Keys, Before(i, j), Before(j, k)
  PROVE  Before(i, k)
<1>1. /\ i.at \in Nat /\ j.at \in Nat /\ k.at \in Nat
      /\ i.id \in Nat /\ j.id \in Nat /\ k.id \in Nat
  BY KeyParts
<1> QED
  BY <1>1 DEF Before

\* A finite nonempty list has a last row.
LEMMA LastExists ==
  ASSUME NEW S \in SUBSET Keys, IsFiniteSet(S), S # {}
  PROVE  /\ LastOf(S) \in S
         /\ \A j \in S \ {LastOf(S)} : Before(LastOf(S), j)
<1> DEFINE Tails == {D \in SUBSET S : D # {} /\ \A x \in S, y \in D : Before(x, y) => x \in D}
<1>1. S \in Tails /\ Tails \in SUBSET (SUBSET S)
  OBVIOUS
<1>2. PICK D \in Tails : \A U \in Tails : U \subseteq D => U = D
  <2> HIDE DEF Tails
  <2> QED
    BY <1>1, MinimalSet
<1>3. PICK k \in D : TRUE
  OBVIOUS
<1>4. \A j \in S \ {k} : Before(k, j)
  <2> SUFFICES ASSUME NEW j \in S, j # k, ~Before(k, j) PROVE FALSE
    OBVIOUS
  <2>1. Before(j, k) /\ j \in D
    BY <1>3, BeforeOrders
  <2> DEFINE U == {x \in D : Before(x, k)}
  <2>2. U \in Tails
    <3>1. U # {}
      BY <2>1
    <3>2. ASSUME NEW x \in S, NEW y \in U, Before(x, y) PROVE x \in U
      <4>1. x \in D
        BY <3>2
      <4>2. Before(x, k)
        BY <3>2, BeforeTransitive
      <4> QED
        BY <4>1, <4>2
    <3> QED
      BY <3>1, <3>2
  <2>3. k \notin U
    BY BeforeOrders
  <2> QED
    BY <1>2, <1>3, <2>2, <2>3
<1>5. \E x \in S : \A j \in S \ {x} : Before(x, j)
  BY <1>3, <1>4
<1> QED
  BY <1>5 DEF LastOf

\* What First promises: n rows of S, or all of them, and they come first.
IsFirst(T, n, S) ==
  /\ T \in SUBSET S
  /\ Cardinality(T) = IF Cardinality(S) < n THEN Cardinality(S) ELSE n
  /\ \A k \in S \ T, t \in T : Before(k, t)

LEMMA SomeFirst ==
  ASSUME NEW n, NEW S, NEW T, IsFirst(T, n, S)
  PROVE  IsFirst(First(n, S), n, S)
BY DEF First, IsFirst

LEMMA FirstExists ==
  ASSUME NEW n \in Nat, NEW S \in SUBSET Keys, IsFiniteSet(S)
  PROVE  IsFirst(First(n, S), n, S)
<1>0. Cardinality(S) \in Nat
  BY FS_CardinalityType
<1>1. CASE Cardinality(S) < n
  <2>1. IsFirst(S, n, S)
    BY <1>1 DEF IsFirst
  <2> QED
    BY <2>1, SomeFirst
<1>2. CASE ~(Cardinality(S) < n)
  <2> DEFINE Heads == {T \in SUBSET S : /\ Cardinality(T) >= n
                                        /\ \A k \in S \ T, t \in T : Before(k, t)}
  <2>1. S \in Heads /\ Heads \in SUBSET (SUBSET S)
    BY <1>0, <1>2
  <2>2. PICK T \in Heads : \A U \in Heads : U \subseteq T => U = T
    <3> HIDE DEF Heads
    <3> QED
      BY <2>1, MinimalSet
  <2>3. IsFiniteSet(T) /\ Cardinality(T) \in Nat
    BY FS_Subset, FS_CardinalityType
  <2>4. Cardinality(T) = n
    <3>0. Cardinality(T) >= n
      OBVIOUS
    <3> SUFFICES ASSUME Cardinality(T) > n PROVE FALSE
      BY <2>3, <3>0
    <3>1. T # {}
      BY FS_EmptySet
    <3> DEFINE k == LastOf(T)
               U == T \ {k}
    <3>2. k \in T /\ \A j \in T \ {k} : Before(k, j)
      BY <2>3, <3>1, LastExists
    <3>3. Cardinality(U) = Cardinality(T) - 1
      <4> HIDE DEF k
      <4> QED
        BY <2>3, <3>2, FS_RemoveElement
    <3>4. \A j \in S \ U, t \in U : Before(j, t)
      BY <3>2
    <3>5. U \in Heads
      BY <2>3, <3>3, <3>4
    <3> QED
      BY <2>2, <3>2, <3>5
  <2>5. IsFirst(T, n, S)
    BY <1>2, <2>4 DEF IsFirst
  <2> QED
    BY <2>5, SomeFirst
<1> QED
  BY <1>1, <1>2

-----------------------------------------------------------------------------
(* One page. *)

\* A page without a further one is all that remained; otherwise the cursor of
\* the next page lies between the rows delivered and the rows left.
LEMMA PageSplits ==
  ASSUME NEW n \in Nat \ {0}, NEW R \in SUBSET Keys, IsFiniteSet(R),
         NEW items, items = First(n + 1, R)
  PROVE  /\ kept(items, n) \in SUBSET R
         /\ ~hasMore(items, n) => kept(items, n) = R
         /\ hasMore(items, n) =>
              /\ NextCursor(items, n) \in kept(items, n)
              /\ \A j \in kept(items, n) :
                     j = NextCursor(items, n) \/ Before(NextCursor(items, n), j)
              /\ \A k \in R \ kept(items, n) : Before(k, NextCursor(items, n))
<1>1. IsFirst(items, n + 1, R)
  BY FirstExists
<1>2. /\ items \in SUBSET R /\ IsFiniteSet(items)
      /\ Cardinality(items) \in Nat /\ Cardinality(R) \in Nat
  BY <1>1, FS_Subset, FS_CardinalityType DEF IsFirst
<1>3. CASE ~hasMore(items, n)
  <2>1. Cardinality(items) = Cardinality(R)
    BY <1>1, <1>2, <1>3 DEF IsFirst, hasMore
  <2>2. items = R
    BY <1>2, <2>1, FS_Subset
  <2> QED
    BY <1>3, <2>2 DEF kept
<1>4. CASE hasMore(items, n)
  <2> DEFINE page == kept(items, n)
  <2>1. page = First(n, items)
    BY <1>4 DEF kept
  <2>2. IsFirst(page, n, items)
    <3> items \in SUBSET Keys
      BY <1>2
    <3> QED
      BY <1>2, <2>1, FirstExists
  <2>3. Cardinality(page) = n /\ page \in SUBSET items
    BY <1>2, <1>4, <2>2 DEF IsFirst, hasMore
  <2>4. page # {} /\ IsFiniteSet(page) /\ page \in SUBSET Keys
    BY <1>2, <2>3, FS_EmptySet, FS_Subset
  <2>5. /\ NextCursor(items, n) \in page
        /\ \A j \in page : j = NextCursor(items, n) \/ Before(NextCursor(items, n), j)
    <3> HIDE DEF page
    <3>1. LastOf(page) \in page /\ \A j \in page \ {LastOf(page)} : Before(LastOf(page), j)
      BY <2>4, LastExists
    <3> QED
      BY <3>1 DEF NextCursor, page
  <2>6. \A k \in R \ page, t \in page : Before(k, t)
    BY <1>1, <2>2, <2>3 DEF IsFirst
  <2> QED
    BY <1>2, <1>4, <2>3, <2>5, <2>6
<1> QED
  BY <1>3, <1>4

-----------------------------------------------------------------------------
(* The walk. *)

\* Where the cursor of an open walk stands: at the last row delivered, with
\* every stable row that has not been delivered below it.
Position ==
    walk = "open" =>
        /\ cursor = None => seen = {}
        /\ \A j \in seen : j = cursor \/ Before(cursor, j)
        /\ stable \ seen \subseteq Remaining(cursor)

IInv == TypeOK /\ IsFiniteSet(rows) /\ stable \subseteq rows /\ Position

LEMMA InitHolds == Init => IInv /\ Complete
<1> SUFFICES ASSUME Init PROVE IInv /\ Complete
  OBVIOUS
<1>1. TypeOK
  BY DEF Init, TypeOK
<1> QED
  BY <1>1, FS_EmptySet DEF Init, IInv, Position, Complete

\* What NextPage knows of its page: it lies below the cursor and so below all
\* that was delivered.
LEMMA PageOfWalk ==
  ASSUME IInv, walk = "open"
  PROVE  /\ limit \in Nat \ {0}
         /\ Remaining(cursor) \in SUBSET Keys /\ IsFiniteSet(Remaining(cursor))
         /\ \A k \in Remaining(cursor), j \in seen : Before(k, j)
<1>1. limit \in Nat \ {0} /\ rows \in SUBSET Keys /\ seen \in SUBSET Keys
  BY PaginationAssumption DEF IInv, TypeOK
<1>2. Remaining(cursor) \in SUBSET rows
  BY DEF Remaining
<1>3. IsFiniteSet(Remaining(cursor))
  BY <1>2, FS_Subset DEF IInv
<1>4. ASSUME NEW k \in Remaining(cursor), NEW j \in seen PROVE Before(k, j)
  <2>1. cursor \in Keys /\ (j = cursor \/ Before(cursor, j))
    BY DEF IInv, TypeOK, Position
  <2>2. Before(k, cursor)
    BY <2>1, PaginationAssumption DEF Remaining
  <2> QED
    BY <1>1, <1>2, <2>1, <2>2, BeforeTransitive
<1> QED
  BY <1>1, <1>2, <1>3, <1>4

LEMMA InsertHolds ==
  ASSUME IInv, NEW k \in Keys, Insert(k)
  PROVE  IInv'
<1>1. TypeOK'
  BY DEF IInv, TypeOK, Insert
<1>2. IsFiniteSet(rows')
  BY FS_AddElement DEF IInv, Insert
<1>3. stable' \subseteq rows'
  BY DEF IInv, Insert
<1>4. Position'
  BY DEF IInv, Position, Remaining, Insert
<1> QED
  BY <1>1, <1>2, <1>3, <1>4 DEF IInv

LEMMA DeleteHolds ==
  ASSUME IInv, NEW k \in Keys, Delete(k)
  PROVE  IInv'
<1>1. TypeOK'
  BY DEF IInv, TypeOK, Delete
<1>2. IsFiniteSet(rows')
  BY FS_RemoveElement DEF IInv, Delete
<1>3. stable' \subseteq rows'
  BY DEF IInv, Delete
<1>4. Position'
  BY DEF IInv, Position, Remaining, Delete
<1> QED
  BY <1>1, <1>2, <1>3, <1>4 DEF IInv

LEMMA OpenHolds ==
  ASSUME IInv, NEW n \in Limits, Open(n)
  PROVE  IInv'
<1>1. TypeOK'
  BY PaginationAssumption DEF IInv, TypeOK, Open, validateLimit, pageSize
<1>2. Position'
  BY DEF Position, Remaining, Open
<1> QED
  BY <1>1, <1>2 DEF IInv, Open

LEMMA NextPageHolds ==
  ASSUME IInv, NextPage
  PROVE  IInv' /\ Complete'
<1> DEFINE R     == Remaining(cursor)
           items == ListPage(limit, cursor)
           page  == kept(items, limit)
           next  == NextCursor(items, limit)
<1>1. /\ limit \in Nat \ {0} /\ R \in SUBSET Keys /\ IsFiniteSet(R)
      /\ \A k \in R, j \in seen : Before(k, j)
  BY PageOfWalk DEF NextPage
<1>2. /\ page \in SUBSET R
      /\ ~hasMore(items, limit) => page = R
      /\ hasMore(items, limit) =>
           /\ next \in page
           /\ \A j \in page : j = next \/ Before(next, j)
           /\ \A k \in R \ page : Before(k, next)
  <2> HIDE DEF R
  <2> items = First(limit + 1, R)
    BY DEF ListPage, R
  <2> HIDE DEF items
  <2> QED
    BY <1>1, PageSplits
<1>3. /\ walk = "open" /\ seen' = seen \cup page
      /\ IF hasMore(items, limit)
           THEN cursor' = next /\ walk' = "open"
           ELSE cursor' = cursor /\ walk' = "ended"
      /\ UNCHANGED <<rows, used, limit, stable>>
  BY DEF NextPage
<1>4. stable \ seen \subseteq R /\ R \subseteq rows
  BY <1>3 DEF IInv, Position, Remaining
<1> HIDE DEF R, items, page, next
<1>5. TypeOK'
  BY <1>1, <1>2, <1>3 DEF IInv, TypeOK
<1>6. Position'
  <2> SUFFICES ASSUME walk' = "open"
               PROVE  /\ cursor' # None
                      /\ \A j \in seen' : j = cursor' \/ Before(cursor', j)
                      /\ stable' \ seen' \subseteq Remaining(cursor)'
    BY DEF Position
  <2>1. hasMore(items, limit) /\ cursor' = next /\ next \in page
    BY <1>2, <1>3
  <2>2. cursor' # None
    BY <1>1, <1>2, <2>1, PaginationAssumption
  <2>3. \A j \in seen' : j = cursor' \/ Before(cursor', j)
    BY <1>1, <1>2, <1>3, <2>1
  <2>4. stable' \ seen' \subseteq Remaining(cursor)'
    BY <1>2, <1>3, <1>4, <2>1 DEF Remaining
  <2> QED
    BY <2>2, <2>3, <2>4
<1>7. IInv'
  BY <1>3, <1>5, <1>6 DEF IInv
<1>8. ASSUME walk' = "ended" PROVE stable' \subseteq seen'
  BY <1>2, <1>3, <1>4, <1>8
<1> QED
  BY <1>7, <1>8 DEF Complete

LEMMA NextHolds ==
  ASSUME IInv, [Next]_vars
  PROVE  IInv'
<1>1. CASE UNCHANGED vars
  BY <1>1 DEF IInv, TypeOK, Position, Remaining, vars
<1>2. ASSUME NEW k \in Keys, Insert(k) PROVE IInv'
  BY <1>2, InsertHolds
<1>3. ASSUME NEW k \in Keys, Delete(k) PROVE IInv'
  BY <1>3, DeleteHolds
<1>4. ASSUME NEW n \in Limits, Open(n) PROVE IInv'
  BY <1>4, OpenHolds
<1>5. CASE NextPage
  BY <1>5, NextPageHolds
<1>6. CASE FailPage \/ RefuseToken
  BY <1>6 DEF IInv, TypeOK, Position, FailPage, RefuseToken
<1> QED
  BY <1>1, <1>2, <1>3, <1>4, <1>5, <1>6 DEF Next

LEMMA InvariantHolds == Spec => []IInv
<1>1. Init => IInv
  BY InitHolds
<1>2. IInv /\ [Next]_vars => IInv'
  BY NextHolds
<1> QED
  BY <1>1, <1>2, PTL DEF Spec

-----------------------------------------------------------------------------
(* The theorems. *)

\* The variables keep their types; the page size of an open walk has passed
\* validateLimit.
THEOREM TypeSafe == Spec => []TypeOK
<1>1. IInv => TypeOK
  BY DEF IInv
<1> QED
  BY <1>1, InvariantHolds, PTL

\* A walk that ended delivered every row that was there throughout: a page that
\* cannot be written fails, it does not end the walk.
THEOREM WalkComplete == Spec => []Complete
<1>1. Init => Complete
  BY InitHolds
<1>2. IInv /\ Complete /\ [Next]_vars => Complete'
  <2> SUFFICES ASSUME IInv, Complete, [Next]_vars PROVE Complete'
    OBVIOUS
  <2>1. CASE NextPage
    BY <2>1, NextPageHolds
  <2>2. CASE ~NextPage
    BY <2>2 DEF Complete, Next, Insert, Delete, Open, FailPage, RefuseToken, vars
  <2> QED
    BY <2>1, <2>2
<1> QED
  BY <1>1, <1>2, InvariantHolds, PTL DEF Spec

\* No page holds a row that was delivered before, or one above it.
THEOREM WalkOnePass == Spec => OnePass
<1>1. IInv /\ [Next]_vars =>
        [NextPage => \A k \in kept(ListPage(limit, cursor), limit), j \in seen :
                         Before(k, j)]_vars
  <2> SUFFICES ASSUME IInv, NextPage
               PROVE  \A k \in kept(ListPage(limit, cursor), limit), j \in seen :
                          Before(k, j)
    OBVIOUS
  <2>1. /\ limit \in Nat \ {0}
        /\ Remaining(cursor) \in SUBSET Keys /\ IsFiniteSet(Remaining(cursor))
        /\ \A k \in Remaining(cursor), j \in seen : Before(k, j)
    BY PageOfWalk DEF NextPage
  <2>2. kept(ListPage(limit, cursor), limit) \in SUBSET Remaining(cursor)
    BY <2>1, PageSplits DEF ListPage
  <2> QED
    BY <2>1, <2>2
<1> QED
  BY <1>1, InvariantHolds, PTL DEF Spec, OnePass

\* The page with the null token is the last one.
THEOREM NullIsLast == Spec => NullMeansLast
<1>1. IInv /\ [Next]_vars =>
        [walk = "open" /\ walk' = "ended" => Remaining(cursor) \subseteq seen']_vars
  <2> SUFFICES ASSUME IInv, Next, walk = "open", walk' = "ended"
               PROVE  Remaining(cursor) \subseteq seen'
    OBVIOUS
  <2>1. NextPage
    BY DEF Next, Insert, Delete, Open, FailPage, RefuseToken
  <2> DEFINE items == ListPage(limit, cursor)
  <2>2. /\ limit \in Nat \ {0}
        /\ Remaining(cursor) \in SUBSET Keys /\ IsFiniteSet(Remaining(cursor))
    BY PageOfWalk
  <2>3. /\ kept(items, limit) \in SUBSET Remaining(cursor)
        /\ ~hasMore(items, limit) => kept(items, limit) = Remaining(cursor)
        /\ hasMore(items, limit) => NextCursor(items, limit) \in kept(items, limit)
    <3> items = First(limit + 1, Remaining(cursor))
      BY DEF ListPage
    <3> HIDE DEF items
    <3> QED
      BY <2>2, PageSplits
  <2>4. ~hasMore(items, limit) /\ seen' = seen \cup kept(items, limit)
    BY <2>1 DEF NextPage
  <2> QED
    BY <2>3, <2>4
<1> QED
  BY <1>1, InvariantHolds, PTL DEF Spec, NullMeansLast
=============================================================================
