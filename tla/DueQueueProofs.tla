-------------------------- MODULE DueQueueProofs ---------------------------
(***************************************************************************)
(* The queue of due feeds, for any number of feeds and goroutines, any     *)
(* limit and any intervals: no feed is with two goroutines, and no due     *)
(* feed is overtaken.                                                      *)
(*                                                                         *)
(* That the feeds in the hands of goroutines are different follows from    *)
(* where they come from: a batch begins when no goroutine is left of the   *)
(* one before, and a goroutine takes its feed out of the batch.            *)
(***************************************************************************)
EXTENDS DueQueue, FiniteSetTheorems, TLAPS

\* Between batches nothing is left of the last one; a feed still in the batch is
\* with no goroutine.
BatchHeld ==
    /\ jobCtx = "none" => batch = {} /\ \A w \in Workers : worker[w] = None
    /\ \A w \in Workers : worker[w] \notin batch

IInv == TypeOK /\ BatchHeld /\ OneGoroutinePerFeed

\* The limit of the query bounds the batch for as long as nothing comes to it.
LEMMA TakenBounded ==
  ASSUME TypeOK, NEW B \in SUBSET Taken
  PROVE  Cardinality(B) <= refreshDueLimit
<1>1. Taken \in SUBSET FeedIds
  BY DEF Taken, TypeOK
<1>2. IsFiniteSet(Taken)
  BY <1>1, FS_Subset, DueQueueAssumption
<1>3. IsFiniteSet(B) /\ Cardinality(B) <= Cardinality(Taken)
  BY <1>2, FS_Subset
<1>4. Cardinality(B) \in Nat /\ Cardinality(Taken) \in Nat
  BY <1>2, <1>3, FS_CardinalityType
<1> QED
  BY <1>3, <1>4, DueQueueAssumption DEF TypeOK

LEMMA TakenKept ==
  ASSUME TypeOK, UNCHANGED <<batch, worker>>
  PROVE  (Cardinality(Taken) <= refreshDueLimit)'
BY DEF TypeOK, Taken

\* The row of a feed is written or deleted: its time is one of the intervals.
LEMMA PutTyped ==
  ASSUME TypeOK, NEW f \in FeedIds, NEW t \in Times \cup {None}, Put(f, t)
  PROVE  /\ wait' \in [FeedIds -> Times \cup {None}]
         /\ earlier' \in SUBSET (FeedIds \X FeedIds)
         /\ earlier' \subseteq earlier
BY DEF TypeOK, Put

\* Time and requests leave the job alone.
LEMMA RowIInv ==
  ASSUME IInv, NEW f \in FeedIds, RowNext(f)
  PROVE  IInv'
<1>1. PICK t \in Times \cup {None} : Put(f, t)
  <2>1. defaultFetchInterval \in Times
    BY DueQueueAssumption DEF Times
  <2> QED
    BY <2>1 DEF RowNext, RegisterFeed, RefreshFeed, DeleteFeed
<1>2. UNCHANGED jobVars
  BY DEF RowNext, RegisterFeed, RefreshFeed, DeleteFeed
<1>3. (Cardinality(Taken) <= refreshDueLimit)'
  BY <1>2, TakenKept DEF IInv, jobVars
<1> QED
  BY <1>1, <1>2, <1>3, PutTyped DEF IInv, TypeOK, BatchHeld, OneGoroutinePerFeed, jobVars

LEMMA ElapseIInv == IInv /\ Elapse => IInv'
<1> SUFFICES ASSUME IInv, Elapse PROVE IInv'
  OBVIOUS
<1>1. wait' \in [FeedIds -> Times \cup {None}]
  <2>1. ASSUME NEW f \in FeedIds, wait[f] \notin {None, 0} PROVE wait[f] - 1 \in Times
    BY <2>1, DueQueueAssumption DEF IInv, TypeOK, Times
  <2> QED
    BY <2>1 DEF IInv, TypeOK, Elapse
<1>2. earlier' \in SUBSET (FeedIds \X FeedIds)
  BY DEF IInv, TypeOK, Elapse, Due
<1>3. left' \in [Workers -> 0..refreshNextInterval]
  <2>1. ASSUME NEW w \in Workers, worker[w] # None PROVE left[w] - 1 \in 0..refreshNextInterval
    BY <2>1, DueQueueAssumption DEF IInv, TypeOK, Elapse
  <2> QED
    BY <2>1 DEF IInv, TypeOK, Elapse
<1>4. (Cardinality(Taken) <= refreshDueLimit)'
  BY TakenKept DEF IInv, Elapse
<1> QED
  BY <1>1, <1>2, <1>3, <1>4 DEF IInv, TypeOK, BatchHeld, OneGoroutinePerFeed, Elapse

LEMMA BatchIInv == IInv /\ (GetDueFeeds \/ ExpireJob \/ EndBatch) => IInv'
<1> SUFFICES ASSUME IInv, GetDueFeeds \/ ExpireJob \/ EndBatch PROVE IInv'
  OBVIOUS
<1> USE DueQueueAssumption DEF IInv, TypeOK, BatchHeld, OneGoroutinePerFeed
<1>1. CASE GetDueFeeds
  <2>1. batch' \in SUBSET FeedIds /\ Cardinality(batch') <= refreshDueLimit
    <3>1. PICK S \in SUBSET Due :
            /\ Cardinality(S) = refreshDueLimit \/ Cardinality(S) < refreshDueLimit
            /\ batch' = S
      BY <1>1 DEF GetDueFeeds, AtLimit
    <3>2. S \in SUBSET FeedIds /\ IsFiniteSet(S)
      BY FS_Subset DEF Due
    <3>3. Cardinality(S) \in Nat
      BY <3>2, FS_CardinalityType
    <3> QED
      BY <3>1, <3>2, <3>3
  <2>2. Taken' = batch'
    BY <1>1, <2>1 DEF GetDueFeeds, Taken
  <2> QED
    BY <1>1, <2>1, <2>2 DEF GetDueFeeds
<1>2. CASE ExpireJob
  BY <1>2, TakenKept DEF ExpireJob
<1>3. CASE EndBatch
  BY <1>3, TakenKept DEF EndBatch
<1> QED
  BY <1>1, <1>2, <1>3

LEMMA FinishIInv ==
  ASSUME IInv, NEW w \in Workers, Finish(w),
         wait' \in [FeedIds -> Times \cup {None}],
         earlier' \in SUBSET (FeedIds \X FeedIds)
  PROVE  IInv'
<1>1. TypeOK'
  <2>1. Taken' \in SUBSET Taken
    BY DEF IInv, TypeOK, Finish, Taken
  <2>2. (Cardinality(Taken) <= refreshDueLimit)'
    BY <2>1, TakenBounded DEF IInv
  <2> QED
    BY <2>2, DueQueueAssumption DEF IInv, TypeOK, Finish
<1>2. BatchHeld' /\ OneGoroutinePerFeed'
  BY DueQueueAssumption DEF IInv, TypeOK, BatchHeld, OneGoroutinePerFeed, Finish
<1> QED
  BY <1>1, <1>2 DEF IInv

LEMMA WorkerIInv ==
  ASSUME IInv, NEW w \in Workers, WorkerNext(w)
  PROVE  IInv'
<1>1. ASSUME NEW f \in FeedIds, TakeFeed(w, f) PROVE IInv'
  <2>1. jobCtx # "none"
    BY <1>1 DEF IInv, BatchHeld, TakeFeed
  <2>2. TypeOK'
    <3>1. Taken' \in SUBSET Taken
      BY <1>1 DEF IInv, TypeOK, TakeFeed, Taken
    <3>2. (Cardinality(Taken) <= refreshDueLimit)'
      BY <3>1, TakenBounded DEF IInv
    <3> QED
      BY <1>1, <3>2, DueQueueAssumption DEF IInv, TypeOK, TakeFeed
  <2>3. BatchHeld'
    BY <1>1, <2>1 DEF IInv, TypeOK, BatchHeld, TakeFeed
  <2>4. OneGoroutinePerFeed'
    BY <1>1 DEF IInv, TypeOK, BatchHeld, OneGoroutinePerFeed, TakeFeed
  <2> QED
    BY <2>2, <2>3, <2>4 DEF IInv
<1>2. CASE Record(w)
  <2>1. worker[w] \in FeedIds /\ left[w] \in Times
    BY <1>2, DueQueueAssumption DEF Record, IInv, TypeOK, Times
  <2>2. CASE wait[worker[w]] = None
    BY <1>2, <2>2, FinishIInv DEF Record, IInv, TypeOK
  <2>3. CASE wait[worker[w]] # None
    <3>1. Put(worker[w], left[w])
      BY <1>2, <2>3 DEF Record
    <3> QED
      BY <1>2, <2>1, <3>1, PutTyped, FinishIInv DEF Record, IInv
  <2> QED
    BY <2>2, <2>3
<1>3. CASE NotRecorded(w)
  BY <1>3, FinishIInv DEF NotRecorded, IInv, TypeOK
<1> QED
  BY <1>1, <1>2, <1>3 DEF WorkerNext

LEMMA StepIInv == IInv /\ [Next]_vars => IInv'
<1> SUFFICES ASSUME IInv, [Next]_vars PROVE IInv'
  OBVIOUS
<1>1. CASE UNCHANGED vars
  BY <1>1, TakenKept DEF vars, IInv, TypeOK, BatchHeld, OneGoroutinePerFeed
<1> QED
  BY <1>1, RowIInv, ElapseIInv, BatchIInv, WorkerIInv DEF Next

LEMMA InitIInv == Init => IInv
<1> SUFFICES ASSUME Init PROVE IInv
  OBVIOUS
<1>1. Taken = {}
  BY DEF Init, Taken
<1>2. Cardinality(Taken) <= refreshDueLimit
  BY <1>1, FS_EmptySet, DueQueueAssumption
<1> QED
  BY <1>2, DueQueueAssumption DEF Init, IInv, TypeOK, BatchHeld, OneGoroutinePerFeed, Times

\* Every variable keeps its type: no next_fetch_at is ever further away than the
\* longer of the two intervals, and what a batch has still to do, with what its
\* goroutines hold, is never more than the limit of the query.
THEOREM TypeSafe == Spec => []TypeOK
<1>1. IInv => TypeOK
  BY DEF IInv
<1> QED
  BY <1>1, InitIInv, StepIInv, PTL DEF Spec

\* The invariant holds, and with it that the job never has a feed in the hands of
\* two goroutines, whatever feeds come, go and fail.
THEOREM OneGoroutine == Spec => []OneGoroutinePerFeed
<1>1. IInv => OneGoroutinePerFeed
  BY DEF IInv
<1> QED
  BY <1>1, InitIInv, StepIInv, PTL DEF Spec

\* A step puts no feed ahead of one that is due and stays due.
LEMMA StepInTurn ==
  ASSUME TypeOK, [Next]_vars, NEW f \in Due, wait'[f] = 0,
         NEW g \in FeedIds, <<g, f>> \in earlier'
  PROVE  <<g, f>> \in earlier
<1>1. CASE Elapse
  BY <1>1 DEF Elapse, Due, TypeOK
<1>2. CASE \E h \in FeedIds : RowNext(h)
  BY <1>2 DEF RowNext, RegisterFeed, RefreshFeed, DeleteFeed, Put
<1>3. CASE \E w \in Workers : WorkerNext(w)
  BY <1>3 DEF WorkerNext, TakeFeed, Record, NotRecorded, Put
<1>4. CASE GetDueFeeds \/ ExpireJob \/ EndBatch \/ UNCHANGED vars
  BY <1>4 DEF GetDueFeeds, ExpireJob, EndBatch, vars
<1> QED
  BY <1>1, <1>2, <1>3, <1>4 DEF Next

\* The queue is fair: neither new feeds nor those just refreshed get ahead of one
\* that is due.
THEOREM InTurn == Spec => NeverOvertaken
<1>1. TypeOK /\ [Next]_vars =>
        [\A f \in Due : wait'[f] = 0 =>
           \A g \in FeedIds : <<g, f>> \in earlier' => <<g, f>> \in earlier]_vars
  BY StepInTurn
<1>2. IInv => TypeOK
  BY DEF IInv
<1> QED
  BY <1>1, <1>2, InitIInv, StepIInv, PTL DEF Spec, NeverOvertaken
=============================================================================
