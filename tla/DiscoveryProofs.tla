-------------------------- MODULE DiscoveryProofs --------------------------
(***************************************************************************)
(* IInv is an inductive invariant of Discovery, for every set of links,    *)
(* every length of a page and every limit on what is read of it; that the  *)
(* candidates are the advertised feeds in the order of the page, and that  *)
(* "not found" is only said of a head that was read, are two of its parts. *)
(***************************************************************************)
EXTENDS Discovery, FiniteSetTheorems, SequenceTheorems, TLAPS

\* A page is a sequence of tokens, and the scanner is at one of its positions.
LEMMA PageType ==
  ASSUME TypeOK
  PROVE  /\ reply.page \in Seq(Tokens)
         /\ Len(reply.page) \in Nat
         /\ DOMAIN reply.page = 1..Len(reply.page)
         /\ pos \in Nat /\ pos <= Len(reply.page)
         /\ maxDiscoveryHTMLBytes \in Nat
         /\ candidates \in Seq(Links)
<1>1. reply.page \in Seq(Tokens)
  <2>1. reply.page \in UNION {[1..n -> Tokens] : n \in 0..MaxTokens}
    BY DEF TypeOK, Reply, BoundedSeq, SeqOf
  <2>2. PICK n \in 0..MaxTokens : reply.page \in [1..n -> Tokens]
    BY <2>1
  <2>3. n \in Nat
    BY DiscoveryAssumption
  <2> QED
    BY <2>2, <2>3, SeqDef
<1>2. Len(reply.page) \in Nat /\ DOMAIN reply.page = 1..Len(reply.page)
  BY <1>1, LenProperties
<1> QED
  BY <1>1, <1>2, DiscoveryAssumption DEF TypeOK

\* The scanner takes exactly the links that count as advertised.
LEMMA CandidateIsAdvertised ==
  ASSUME NEW link \in Links
  PROVE  feedCandidateFromLink(link) <=> Advertised(link)
BY DiscoveryAssumption
   DEF feedCandidateFromLink, feedMIMEType, Advertised, LinkElement, Schemes

\* The positions of the first n tokens are finite in number.
LEMMA HeadFeedsFinite ==
  ASSUME NEW n \in Nat
  PROVE  HeadFeeds(n) \subseteq 1..n /\ IsFiniteSet(HeadFeeds(n))
<1>1. HeadFeeds(n) \subseteq 1..n
  BY DEF HeadFeeds
<1>2. IsFiniteSet(1..n)
  BY FS_Interval
<1> QED
  BY <1>1, <1>2, FS_Subset

\* A list of positions before n, followed by what the page has at n.
LEMMA ListsAppend ==
  ASSUME NEW seq, seq \in Seq(Links), NEW n \in Nat \ {0}, NEW S \in SUBSET (1..(n - 1)),
         Lists(seq, S)
  PROVE  Lists(Append(seq, reply.page[n]), S \cup {n})
<1> DEFINE T == S \cup {n}
           Upto(i) == {j \in T : j <= i}
<1>1. IsFiniteSet(S) /\ \A i \in S : i \in Int /\ i < n
  <2>1. n - 1 \in Int /\ IsFiniteSet(1..(n - 1))
    BY FS_Interval
  <2>2. IsFiniteSet(S)
    BY <2>1, FS_Subset
  <2> QED
    BY <2>2
<1>2. Cardinality(S) \in Nat /\ IsFiniteSet(T) /\ Cardinality(T) = Cardinality(S) + 1
  BY <1>1, FS_AddElement, FS_CardinalityType
<1>3. Len(seq) = Cardinality(S) /\ Len(seq) \in Nat
  BY <1>2 DEF Lists
<1>4. /\ Len(Append(seq, reply.page[n])) = Len(seq) + 1
      /\ \A k \in 1..Len(seq) : Append(seq, reply.page[n])[k] = seq[k]
      /\ Append(seq, reply.page[n])[Len(seq) + 1] = reply.page[n]
  <2>1. seq \in Seq(Links \cup {reply.page[n]})
    BY SeqMonotonic
  <2> QED
    BY <2>1, AppendProperties
<1>5. Upto(n) = T
  <2>1. \A j \in T : j <= n
    BY <1>1
  <2> QED
    BY <2>1
<1>6. ASSUME NEW i \in S
      PROVE  Append(seq, reply.page[n])[Cardinality(Upto(i))] = reply.page[i]
  <2>1. Upto(i) = {j \in S : j <= i}
    BY <1>1
  <2>2. i \in Upto(i) /\ Upto(i) \subseteq S
    BY <1>1, <2>1
  <2>3. Cardinality(Upto(i)) \in 1..Len(seq)
    <3>1. IsFiniteSet(Upto(i)) /\ Cardinality(Upto(i)) <= Cardinality(S)
      BY <1>1, <2>2, FS_Subset
    <3>2. Cardinality(Upto(i)) \in Nat /\ Cardinality(Upto(i)) # 0
      BY <3>1, <2>2, FS_CardinalityType, FS_EmptySet
    <3> QED
      BY <1>3, <3>1, <3>2
  <2>4. seq[Cardinality(Upto(i))] = reply.page[i]
    BY <2>1 DEF Lists
  <2> QED
    BY <1>4, <2>3, <2>4
<1> QED
  BY <1>2, <1>3, <1>4, <1>5, <1>6 DEF Lists

\* The steps keep the types.
LEMMA TypeStep ==
  ASSUME TypeOK, [Next]_vars
  PROVE  TypeOK'
<1>0. /\ Len(reply.page) \in Nat /\ pos \in Nat /\ pos <= Len(reply.page)
  BY PageType
<1>1. CASE Do
  BY <1>1 DEF TypeOK, Do, Classify, Outcomes
<1>2. CASE CheckHeaders
  <2>1. /\ UNCHANGED <<reply, pos, candidates>>
        /\ \/ Classify("unavailable") \/ Classify("not_found")
           \/ pc' = "scan" /\ UNCHANGED outcome
    BY <1>2 DEF CheckHeaders
  <2> QED
    BY <2>1 DEF TypeOK, Classify, Outcomes
<1>3. CASE ScanToken
  <2> DEFINE token == reply.page[pos + 1]
  <2>1. pos + 1 \in 0..Len(reply.page)
    BY <1>0, <1>3 DEF ScanToken, AtEnd
  <2>2. candidates' \in Seq(Links)
    <3>1. candidates' = candidates \/ (token \in Links /\ candidates' = Append(candidates, token))
      BY <1>3 DEF ScanToken
    <3> QED
      BY <3>1, AppendProperties DEF TypeOK
  <2>3. pos' = pos + 1 /\ pc' \in {"scan", "classify"} /\ UNCHANGED <<reply, outcome>>
    BY <1>3 DEF ScanToken
  <2> QED
    BY <2>1, <2>2, <2>3 DEF TypeOK
<1>4. CASE ScanEnds
  BY <1>4 DEF TypeOK, ScanEnds, Classify, Outcomes
<1>5. CASE ClassifyCandidates
  BY <1>5 DEF TypeOK, ClassifyCandidates, Classify, Outcomes
<1>6. CASE UNCHANGED vars
  BY <1>6 DEF TypeOK, vars
<1> QED
  BY <1>1, <1>2, <1>3, <1>4, <1>5, <1>6 DEF Next

\* Before the scan nothing is said of the page, but that it is no page of HTML.
LEMMA BeforeScan ==
  ASSUME IInv, Do \/ CheckHeaders
  PROVE  IInv'
<1>1. TypeOK' /\ TypeOK /\ Progress
  BY TypeStep DEF IInv, Next
<1>10. reply.status \in {"unparsed", "none", "ok", "error"}
  BY <1>1 DEF TypeOK, Reply
<1>2. /\ UNCHANGED <<reply, pos, candidates>>
      /\ pos = 0 /\ candidates = <<>> /\ outcome = "pending"
      /\ \/ pc' = "headers" /\ outcome' = "pending" /\ reply.status \in {"ok", "error"}
         \/ pc' = "scan" /\ outcome' = "pending" /\ reply.status = "ok" /\ reply.html
         \/ pc' = "done" /\ outcome' = "invalid" /\ reply.status = "unparsed"
         \/ pc' = "done" /\ outcome' = "unavailable" /\ reply.status \in {"none", "error"}
         \/ pc' = "done" /\ outcome' = "not_found" /\ reply.status = "ok" /\ ~reply.html
  BY <1>1, <1>10 DEF Do, CheckHeaders, Classify, Progress
<1>3. HeadFeeds(0)' = {}
  BY DEF HeadFeeds
<1>4. Lists(candidates, HeadFeeds(pos))'
  BY <1>2, <1>3, FS_EmptySet DEF Lists, HeadFeeds
<1>5. Progress'
  BY <1>1, <1>2, PageType DEF Progress, Scanning
<1>6. PageOrder' /\ NotFoundIsSure'
  BY <1>2, <1>4 DEF PageOrder, NotFoundIsSure
<1> QED
  BY <1>1, <1>5, <1>6 DEF IInv

\* One token of the head, or the stop that closes it.
LEMMA ScanTokenStep ==
  ASSUME IInv, ScanToken
  PROVE  IInv'
<1> DEFINE token == reply.page[pos + 1]
<1>1. TypeOK' /\ TypeOK /\ Scanning /\ outcome = "pending" /\ reply.status = "ok" /\ reply.html
  BY TypeStep DEF IInv, Next, Progress, ScanToken
<1>2. /\ DOMAIN reply.page = 1..Len(reply.page)
      /\ Len(reply.page) \in Nat /\ pos \in Nat
      /\ pos < Len(reply.page) /\ pos < maxDiscoveryHTMLBytes
      /\ maxDiscoveryHTMLBytes \in Nat
      /\ candidates \in Seq(Links)
  BY <1>1, PageType DEF ScanToken, AtEnd, Scanning
<1>3. UNCHANGED <<reply, outcome>> /\ pos' = pos + 1
  BY DEF ScanToken
<1>4. Lists(candidates, HeadFeeds(pos)) /\ HeadFeeds(pos) \in SUBSET (1..pos)
  BY <1>2, HeadFeedsFinite DEF IInv, PageOrder, ScanToken
<1>5. \A i \in 1..(pos + 1) : InHead(i) <=> i <= pos \/ token \notin Stops
  BY <1>1, <1>2 DEF InHead, Scanning
<1>6. \A n \in Nat : HeadFeeds(n)' = HeadFeeds(n)
  BY <1>3 DEF HeadFeeds, InHead
<1>7. CASE token \in Stops
  <2>1. pc' = "classify" /\ candidates' = candidates
    BY <1>7 DEF ScanToken
  <2>2. \A i \in Nat : InHead(i) => i <= pos
    BY <1>2, <1>7 DEF InHead
  <2>3. /\ HeadFeeds(Len(reply.page)) = HeadFeeds(pos)
        /\ HeadFeeds(pos + 1) = HeadFeeds(pos)
    BY <1>2, <2>2 DEF HeadFeeds
  <2>4. HeadSeen
    BY <1>2, <1>7 DEF HeadSeen
  <2>5. HeadPassed'
    BY <1>2, <1>3, <1>6, <2>3, <2>4 DEF HeadPassed, HeadSeen
  <2>6. Lists(candidates, HeadFeeds(pos))'
    BY <1>2, <1>3, <1>4, <1>6, <2>1, <2>3 DEF Lists
  <2> QED
    BY <1>1, <1>3, <2>1, <2>5, <2>6 DEF IInv, Progress, PageOrder, NotFoundIsSure
<1>8. CASE token \notin Stops
  <2>1. /\ pc' = "scan"
        /\ candidates' = IF token \in Links /\ Advertised(token)
                           THEN Append(candidates, token) ELSE candidates
    BY <1>8, CandidateIsAdvertised DEF ScanToken
  <2>2. Scanning'
    BY <1>1, <1>2, <1>3, <1>8 DEF Scanning
  <2>3. HeadFeeds(pos + 1) = IF Advertised(token) THEN HeadFeeds(pos) \cup {pos + 1}
                                                  ELSE HeadFeeds(pos)
    BY <1>2, <1>5, <1>8 DEF HeadFeeds
  <2>4. Lists(candidates', HeadFeeds(pos + 1))
    <3>1. CASE Advertised(token)
      <4>1. candidates' = Append(candidates, token)
        BY <2>1, <3>1 DEF Advertised
      <4>2. pos + 1 \in Nat \ {0} /\ HeadFeeds(pos) \in SUBSET (1..((pos + 1) - 1))
        BY <1>2, <1>4
      <4>3. Lists(Append(candidates, token), HeadFeeds(pos) \cup {pos + 1})
        BY <1>2, <1>4, <4>2, ListsAppend
      <4> QED
        BY <2>3, <3>1, <4>1, <4>3
    <3>2. CASE ~Advertised(token)
      BY <1>4, <2>1, <2>3, <3>2
    <3> QED
      BY <3>1, <3>2
  <2>5. Lists(candidates, HeadFeeds(pos))'
    <3>1. HeadFeeds(pos)' = HeadFeeds(pos + 1)
      BY <1>3 DEF HeadFeeds, InHead
    <3> QED
      BY <1>3, <2>4, <3>1 DEF Lists
  <2> QED
    BY <1>1, <1>3, <2>1, <2>2, <2>5 DEF IInv, Progress, PageOrder, NotFoundIsSure
<1> QED
  BY <1>7, <1>8

\* The page ends for the scanner.
LEMMA ScanEndsStep ==
  ASSUME IInv, ScanEnds
  PROVE  IInv'
<1>1. /\ TypeOK' /\ TypeOK /\ Scanning /\ outcome = "pending"
      /\ reply.status = "ok" /\ reply.html /\ Lists(candidates, HeadFeeds(pos))
  BY TypeStep DEF IInv, Next, Progress, PageOrder, ScanEnds
<1>2. /\ DOMAIN reply.page = 1..Len(reply.page)
      /\ Len(reply.page) \in Nat /\ pos \in Nat
      /\ pos <= Len(reply.page) /\ pos <= maxDiscoveryHTMLBytes
      /\ pos = Len(reply.page) \/ pos = maxDiscoveryHTMLBytes
      /\ maxDiscoveryHTMLBytes \in Nat
  BY <1>1, PageType DEF ScanEnds, AtEnd, Scanning
<1>3. UNCHANGED <<reply, pos, candidates>>
  BY DEF ScanEnds
<1>4. CASE reply.broken /\ pos < maxDiscoveryHTMLBytes
  <2>1. pc' = "done" /\ outcome' = "unavailable"
    BY <1>4 DEF ScanEnds, Classify
  <2>2. ~HeadSeen
    BY <1>1, <1>2, <1>4 DEF HeadSeen, Scanning
  <2>3. ~HeadSeen'
    BY <1>3, <2>2 DEF HeadSeen
  <2> QED
    BY <1>1, <1>3, <2>1, <2>3 DEF IInv, Progress, PageOrder, NotFoundIsSure
<1>5. CASE ~(reply.broken /\ pos < maxDiscoveryHTMLBytes)
  <2>1. pc' = "classify" /\ outcome' = outcome
    BY <1>5 DEF ScanEnds
  <2>2. HeadSeen
    BY <1>1, <1>2, <1>5 DEF HeadSeen, TypeOK, Reply
  <2>3. HeadFeeds(Len(reply.page)) = HeadFeeds(pos)
    BY <1>2 DEF HeadFeeds, InHead
  <2>4. HeadPassed' /\ Lists(candidates, HeadFeeds(pos))'
    BY <1>1, <1>3, <2>2, <2>3 DEF HeadPassed, HeadSeen, HeadFeeds, InHead, Lists
  <2> QED
    BY <1>1, <1>3, <2>1, <2>4 DEF IInv, Progress, PageOrder, NotFoundIsSure
<1> QED
  BY <1>4, <1>5

\* The candidates decide what the caller is told.
LEMMA ClassifyStep ==
  ASSUME IInv, ClassifyCandidates
  PROVE  IInv'
<1>1. /\ TypeOK' /\ TypeOK /\ HeadPassed /\ outcome = "pending"
      /\ reply.status = "ok" /\ reply.html /\ Lists(candidates, HeadFeeds(pos))
  BY TypeStep DEF IInv, Next, Progress, PageOrder, ClassifyCandidates
<1>2. /\ UNCHANGED <<reply, pos, candidates>> /\ pc' = "done"
      /\ outcome' = IF candidates = <<>> THEN "not_found" ELSE "found"
  BY DEF ClassifyCandidates, Classify
<1>3. Lists(candidates, HeadFeeds(Len(reply.page)))'
  BY <1>1, <1>2 DEF HeadPassed, HeadFeeds, InHead, Lists
<1>4. HeadSeen'
  BY <1>1, <1>2 DEF HeadPassed, HeadSeen
<1>5. candidates = <<>> => HeadFeeds(Len(reply.page))' = {}
  <2>1. IsFiniteSet(HeadFeeds(Len(reply.page))')
    BY <1>1, <1>2, PageType, HeadFeedsFinite DEF HeadFeeds, InHead
  <2> QED
    BY <1>2, <1>3, <2>1, FS_EmptySet DEF Lists
<1>6. PageOrder' /\ NotFoundIsSure'
  BY <1>1, <1>2, <1>3, <1>4, <1>5 DEF PageOrder, NotFoundIsSure
<1>7. Progress'
  BY <1>2 DEF Progress
<1> QED
  BY <1>1, <1>6, <1>7 DEF IInv

\* Nothing has been asked yet.
THEOREM InitIInv == Init => IInv
<1> SUFFICES ASSUME Init PROVE IInv
  OBVIOUS
<1>1. TypeOK
  <2>1. reply.page \in Seq(Tokens)
    <3>1. PICK n \in 0..MaxTokens : reply.page \in [1..n -> Tokens]
      BY DEF Init, Reply, BoundedSeq, SeqOf
    <3>2. n \in Nat
      BY DiscoveryAssumption
    <3> QED
      BY <3>1, <3>2, SeqDef
  <2>2. 0 \in 0..Len(reply.page)
    BY <2>1, LenProperties
  <2>3. <<>> \in Seq(Links)
    BY EmptySeq
  <2> QED
    BY <2>2, <2>3 DEF Init, TypeOK
<1>2. Progress /\ PageOrder /\ NotFoundIsSure
  BY DEF Init, Progress, PageOrder, NotFoundIsSure
<1> QED
  BY <1>1, <1>2 DEF IInv

\* Every step of the scanner keeps the invariant.
THEOREM NextIInv == IInv /\ [Next]_vars => IInv'
<1> SUFFICES ASSUME IInv, [Next]_vars PROVE IInv'
  OBVIOUS
<1>1. CASE UNCHANGED vars
  <2>1. TypeOK'
    BY <1>1 DEF vars, IInv, TypeOK
  <2>2. Progress'
    BY <1>1 DEF vars, IInv, Progress, Scanning, HeadPassed, HeadSeen, HeadFeeds, InHead, Lists
  <2>3. PageOrder' /\ NotFoundIsSure'
    BY <1>1 DEF vars, IInv, PageOrder, NotFoundIsSure, HeadSeen, HeadFeeds, InHead, Lists
  <2> QED
    BY <2>1, <2>2, <2>3 DEF IInv
<1> QED
  BY <1>1, BeforeScan, ScanTokenStep, ScanEndsStep, ClassifyStep DEF Next

\* The invariant holds in every state of every execution.
THEOREM InvariantHolds == Spec => []IInv
BY InitIInv, NextIInv, PTL DEF Spec

\* The state keeps its types.
THEOREM TypeSafe == Spec => []TypeOK
<1>1. IInv => TypeOK
  BY DEF IInv
<1> QED
  BY <1>1, InvariantHolds, PTL

\* The candidates are the feeds the head of the page advertises, all of them and
\* in the order of the page, for pages, limits and failures of every length.
THEOREM CandidatesInPageOrder == Spec => []PageOrder
<1>1. IInv => PageOrder
  BY DEF IInv
<1> QED
  BY <1>1, InvariantHolds, PTL

\* "Not found" is only said of a page whose head was read in full and has no
\* feed, "unavailable" only of one that could not be read so far.
THEOREM NotFoundSure == Spec => []NotFoundIsSure
<1>1. IInv => NotFoundIsSure
  BY DEF IInv
<1> QED
  BY <1>1, InvariantHolds, PTL
=============================================================================
