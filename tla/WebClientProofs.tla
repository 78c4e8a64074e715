--------------------------- MODULE WebClientProofs ---------------------------
(***************************************************************************)
(* The dialog and the feed list, for any feeds, websites and number of     *)
(* calls in flight.                                                        *)
(*                                                                         *)
(* Three relations carry the properties: an id is given once, so that a    *)
(* removal the client was told of is final; a list that has been read      *)
(* holds what the client was told before, because an answer cancels a      *)
(* fetch under way; and of the dialog's calls only the latest is the       *)
(* client's, every other one has been given up.                            *)
(***************************************************************************)
EXTENDS WebClient, TLAPS

-----------------------------------------------------------------------------
(* The inductive invariant. *)

\* No id is given twice, none above lastId is in use.
IdsGiven ==
    /\ \A s \in subs : s.id <= lastId
    /\ \A s, t \in subs : s.id = t.id => s = t
    /\ \A i \in Ids : news[i] # "none" => i <= lastId
    /\ \A i \in Ids : news[i] = "removed" => \A s \in subs : s.id # i
    /\ list.data # None => \A s \in list.data : s.id <= lastId
    /\ \A s \in list.seen : s.id <= lastId

\* A call carries what it may, and an answer that is accepted tells the truth.
Truthful(c) ==
    /\ c.st = "free" => c.op = None /\ ~c.current /\ ~c.late
    /\ c.st # "free" => c.op # None
    /\ c.op \in DialogOps => c.arg \in Inputs
    /\ c.op = "register" => c.arg \in Urls \cup {Malformed}
    /\ c.op = "discover" => c.arg \in Sites \cup {Malformed}
    /\ c.op = "delete" => c.arg \in Ids /\ c.arg <= lastId
    /\ c.st = "served" =>
         /\ c.reply \in Replies
         /\ c.did => c.reply.code \in {None, "internal"}
         /\ Accepted(c.reply) /\ c.op \in DialogOps =>
              c.did /\ c.reply.feed \in Subs /\ c.reply.feed.id <= lastId
         /\ Accepted(c.reply) /\ c.op = "discover" => c.arg \in Sites
         /\ Accepted(c.reply) /\ c.op = "delete" => \A s \in subs : s.id # c.arg

CallsTruthful == \A n \in Calls : Truthful(call[n])

\* Rows show what the client has been told, as far as they reach.
Shows(rows) ==
    /\ \A s \in subs : news[s.id] = "added" /\ s \notin rows =>
         /\ Cardinality(rows) = FEEDS_LIMIT
         /\ \A t \in rows : Newer(t, s)
    /\ \A s \in rows : news[s.id] # "removed"

ListShows ==
    /\ list.data = None => \A i \in Ids : news[i] = "none"
    /\ list.phase = "idle" => list.data # None
    /\ list.phase = "read" => Shows(list.seen)
    /\ list.phase = "idle" /\ list.data # None => Shows(list.data)

\* The client waits for one call of the dialog at most; while it does, what is
\* registered was there at the click or came from a call it had given up.
OneAtATime ==
    /\ \A n \in Calls : call[n].st = "stray" => ~call[n].current
    /\ \A n \in Calls : call[n].op \in DialogOps /\ call[n].st \in {"sent", "served"} => call[n].current
    /\ \A m, n \in Calls :
         call[m].op \in DialogOps /\ call[n].op \in DialogOps
             /\ call[m].current /\ call[n].current => m = n
    /\ \A n \in Calls : call[n].op \in DialogOps /\ call[n].st = "sent" =>
         \A s \in subs : s.id \in call[n].had

\* What has been submitted since the dialog was opened is the call it waits for.
AskedHere ==
    asked => \A n \in Calls : ~(call[n].late /\ call[n].current /\ call[n].op \in DialogOps)

IInv ==
    /\ TypeOK
    /\ IdsGiven /\ CallsTruthful /\ ListShows
    /\ OneAtATime /\ AskedHere

-----------------------------------------------------------------------------
(* The initial state. *)

LEMMA InitIInv == Init => IInv
<1> SUFFICES ASSUME Init PROVE IInv
  OBVIOUS
<1>1. NoCall \in CallRecords /\ Truthful(NoCall)
  BY NoneIsNew DEF NoCall, CallRecords, Truthful, DialogOps
<1>2. TypeOK
  <2>1. Closed \in DialogRecord
    BY DEF Closed, DialogRecord, GeneralErrors
  <2>2. lastId \in 0..MaxId
    BY ClientAssumption DEF Init
  <2>3. list \in [phase : {"idle", "sent", "read", "failed"},
                  data : (SUBSET Subs) \cup {None}, seen : SUBSET Subs]
    BY DEF Init
  <2>4. call \in [Calls -> CallRecords]
    BY <1>1 DEF Init
  <2>5. news \in [Ids -> {"none", "added", "removed"}]
    BY DEF Init
  <2> QED
    BY <2>1, <2>2, <2>3, <2>4, <2>5 DEF Init, TypeOK
<1>3. NoCall.st = "free" /\ NoCall.op \notin DialogOps /\ ~NoCall.current /\ ~NoCall.late
  BY NoneIsNew DEF NoCall
<1>4. IdsGiven /\ CallsTruthful /\ ListShows
  BY <1>1 DEF Init, IdsGiven, CallsTruthful, ListShows
<1>5. OneAtATime /\ AskedHere
  BY <1>3 DEF Init, OneAtATime, AskedHere
<1> QED
  BY <1>2, <1>4, <1>5 DEF IInv

-----------------------------------------------------------------------------
(* The user. *)

\* What holds of the server, the list and the dialog is not affected by a step that
\* leaves them alone.
LEMMA IdsKept ==
  ASSUME IdsGiven, ListShows, UNCHANGED <<server, list, news>>
  PROVE  IdsGiven' /\ ListShows'
BY DEF IdsGiven, ListShows, Shows, server

LEMMA CallsKept ==
  ASSUME CallsTruthful, OneAtATime, UNCHANGED <<server, call>>
  PROVE  CallsTruthful' /\ OneAtATime'
BY DEF CallsTruthful, Truthful, OneAtATime, server

\* A mutation: of the dialog only when none of its calls is the client's.
LEMMA MutateKeeps ==
  ASSUME IInv, NEW op \in DialogOps \cup {"delete"}, NEW arg \in Inputs \cup Ids,
         Mutate(op, arg), UNCHANGED <<server, list, news>>,
         op \in DialogOps => ~pending /\ arg \in Inputs,
         op = "register" => arg \in Urls \cup {Malformed},
         op = "discover" => arg \in Sites \cup {Malformed},
         op = "delete" => arg \in Ids /\ arg <= lastId
  PROVE  /\ call' \in [Calls -> CallRecords]
         /\ CallsTruthful' /\ OneAtATime'
         /\ op \in DialogOps => AskedHere'
         /\ asked' = asked => AskedHere'
<1> DEFINE had == IF op \in DialogOps THEN {s.id : s \in subs} ELSE {}
           new == [NoCall EXCEPT !.st = "sent", !.op = op, !.arg = arg, !.current = TRUE, !.had = had]
           old(m) == [call[m] EXCEPT !.current = @ /\ call[m].op # op]
<1>1. PICK n \in Calls :
        /\ call[n].st = "free"
        /\ call' = [m \in Calls |-> IF m = n THEN new ELSE old(m)]
  BY DEF Mutate
<1>2. had \in SUBSET Ids
  BY DEF IInv, TypeOK, Subs
<1>3. /\ new \in CallRecords
      /\ new.st = "sent" /\ new.op = op /\ new.arg = arg /\ new.current /\ new.had = had
      /\ ~new.late
  BY <1>2 DEF NoCall, CallRecords
<1>4. \A m \in Calls :
        /\ call[m] \in CallRecords
        /\ old(m) \in CallRecords
        /\ old(m).st = call[m].st /\ old(m).op = call[m].op /\ old(m).arg = call[m].arg
        /\ old(m).reply = call[m].reply /\ old(m).late = call[m].late
        /\ old(m).had = call[m].had /\ old(m).did = call[m].did
        /\ old(m).current <=> call[m].current /\ call[m].op # op
  <2> SUFFICES ASSUME NEW m \in Calls
               PROVE  /\ call[m] \in CallRecords
                      /\ old(m) \in CallRecords
                      /\ old(m).st = call[m].st /\ old(m).op = call[m].op /\ old(m).arg = call[m].arg
                      /\ old(m).reply = call[m].reply /\ old(m).late = call[m].late
                      /\ old(m).had = call[m].had /\ old(m).did = call[m].did
                      /\ old(m).current <=> call[m].current /\ call[m].op # op
    OBVIOUS
  <2>1. call[m] \in CallRecords
    BY DEF IInv, TypeOK
  <2>2. \A b \in BOOLEAN :
           LET r == [call[m] EXCEPT !.current = b] IN
             /\ r \in CallRecords
             /\ r.st = call[m].st /\ r.op = call[m].op /\ r.arg = call[m].arg
             /\ r.reply = call[m].reply /\ r.late = call[m].late
             /\ r.had = call[m].had /\ r.did = call[m].did
             /\ r.current = b
    BY <2>1 DEF CallRecords
  <2> QED
    BY <2>1, <2>2
<1>5. call' \in [Calls -> CallRecords]
  BY <1>1, <1>3, <1>4
<1>6. \A m \in Calls : call'[m] = IF m = n THEN new ELSE old(m)
  BY <1>1
<1>7. subs' = subs /\ lastId' = lastId
  BY DEF server
<1>71. \A s \in subs : op \in DialogOps => s.id \in had
  OBVIOUS
<1> HIDE DEF had, new, old
<1>8. CallsTruthful'
  <2> SUFFICES ASSUME NEW m \in Calls PROVE Truthful(call[m])'
    BY DEF CallsTruthful
  <2>1. CASE m = n
    BY <2>1, <1>3, <1>6, <1>7, NoneIsNew DEF Truthful
  <2>2. CASE m # n
    BY <2>2, <1>4, <1>6, <1>7, NoneIsNew DEF IInv, CallsTruthful, Truthful
  <2> QED
    BY <2>1, <2>2
<1>9. op \in DialogOps => \A m \in Calls : call[m].op \in DialogOps => ~call[m].current
  BY DEF pending, InFlight, DialogOps
<1>10. OneAtATime'
  <2>1. \A m \in Calls : call'[m].op \in DialogOps /\ call'[m].st \in {"sent", "served"}
                             => call'[m].current
    BY <1>3, <1>4, <1>6, <1>9 DEF IInv, OneAtATime, DialogOps
  <2> QED
    BY <2>1, <1>71, <1>3, <1>4, <1>6, <1>7, <1>9 DEF IInv, OneAtATime, DialogOps
<1>11. \A m \in Calls : op \in DialogOps =>
          ~(call'[m].late /\ call'[m].current /\ call'[m].op \in DialogOps)
  BY <1>3, <1>4, <1>6, <1>9
<1>12. asked' = asked => AskedHere'
  BY <1>3, <1>4, <1>6 DEF IInv, AskedHere
<1>13. op \in DialogOps => AskedHere'
  BY <1>11 DEF AskedHere
<1> QED
  BY <1>5, <1>8, <1>10, <1>12, <1>13

\* The dialog's fields, one or two at a time.
LEMMA DialogEdits ==
  ASSUME NEW d \in DialogRecord, NEW b \in BOOLEAN, NEW e \in GeneralErrors,
         NEW u \in Urls \cup {None}, NEW s \in Sites
  PROVE  /\ [d EXCEPT !.fieldError = b] \in DialogRecord
         /\ [d EXCEPT !.generalError = e] \in DialogRecord
         /\ [d EXCEPT !.fieldError = b, !.generalError = e] \in DialogRecord
         /\ [d EXCEPT !.candidates = CandidatesOf[s], !.subscribedUrl = u] \in DialogRecord
         /\ Closed \in DialogRecord
         /\ [Closed EXCEPT !.open = TRUE] \in DialogRecord
BY DEF DialogRecord, Closed, GeneralErrors

LEMMA OpenKeeps == IInv /\ Open => IInv'
<1> SUFFICES ASSUME IInv, Open PROVE IInv'
  OBVIOUS
<1>1. \A n \in Calls :
        /\ call[n] \in CallRecords
        /\ call'[n] \in CallRecords
        /\ call'[n].st = call[n].st /\ call'[n].op = call[n].op /\ call'[n].arg = call[n].arg
        /\ call'[n].reply = call[n].reply /\ call'[n].current = call[n].current
        /\ call'[n].had = call[n].had /\ call'[n].did = call[n].did
        /\ call'[n].late <=> call[n].op \in DialogOps /\ call[n].st # "stray"
  <2> SUFFICES ASSUME NEW n \in Calls
               PROVE  /\ call[n] \in CallRecords
                      /\ call'[n] \in CallRecords
                      /\ call'[n].st = call[n].st /\ call'[n].op = call[n].op
                      /\ call'[n].arg = call[n].arg
                      /\ call'[n].reply = call[n].reply /\ call'[n].current = call[n].current
                      /\ call'[n].had = call[n].had /\ call'[n].did = call[n].did
                      /\ call'[n].late <=> call[n].op \in DialogOps /\ call[n].st # "stray"
    OBVIOUS
  <2>1. call[n] \in CallRecords
    BY DEF IInv, TypeOK
  <2>2. \A b \in BOOLEAN :
           LET r == [call[n] EXCEPT !.late = b] IN
             /\ r \in CallRecords
             /\ r.st = call[n].st /\ r.op = call[n].op /\ r.arg = call[n].arg
             /\ r.reply = call[n].reply /\ r.current = call[n].current
             /\ r.had = call[n].had /\ r.did = call[n].did
             /\ r.late = b
    BY <2>1 DEF CallRecords
  <2>3. CASE call[n].op \in DialogOps /\ call[n].st # "stray"
    <3>1. call'[n] = [call[n] EXCEPT !.late = TRUE]
      BY <2>3 DEF Open
    <3> QED
      BY <2>1, <2>2, <2>3, <3>1
  <2>4. CASE ~(call[n].op \in DialogOps /\ call[n].st # "stray")
    <3>0. (call[n].op \in DialogOps /\ call[n].st # "stray") = FALSE
      BY <2>4
    <3>1. call'[n] = [call[n] EXCEPT !.late = FALSE]
      BY <3>0, Zenon DEF Open
    <3> QED
      BY <2>1, <2>2, <2>4, <3>1
  <2> QED
    BY <2>3, <2>4
<1>2. UNCHANGED <<subs, lastId, list, news>> /\ asked' = FALSE
      /\ dialog' = [Closed EXCEPT !.open = TRUE]
  BY DEF Open, server
<1>3. TypeOK'
  <2>1. call' = [n \in Calls |-> call'[n]]
    BY DEF Open
  <2>2. dialog' \in DialogRecord
    BY <1>2 DEF DialogRecord, Closed, GeneralErrors
  <2> QED
    BY <1>1, <1>2, <2>1, <2>2 DEF IInv, TypeOK
<1>4. CallsTruthful'
  <2> SUFFICES ASSUME NEW n \in Calls PROVE Truthful(call[n])'
    BY DEF CallsTruthful
  <2> QED
    BY <1>1, <1>2, NoneIsNew DEF IInv, CallsTruthful, Truthful
<1>5. OneAtATime' /\ AskedHere'
  BY <1>1, <1>2 DEF IInv, OneAtATime, AskedHere
<1> QED
  BY <1>2, <1>3, <1>4, <1>5, IdsKept DEF IInv, server

\* A step of the dialog that sends nothing.
LEMMA DialogOnlyKeeps ==
  ASSUME IInv, dialog' \in DialogRecord, asked' \in BOOLEAN, asked' => asked,
         UNCHANGED <<server, call, list, news>>
  PROVE  IInv'
<1>1. TypeOK' /\ AskedHere'
  BY DEF IInv, TypeOK, AskedHere, server
<1> QED
  BY <1>1, IdsKept, CallsKept DEF IInv

\* A mutation, sent with a change of the dialog.
LEMMA SendKeeps ==
  ASSUME IInv, NEW op \in DialogOps \cup {"delete"}, NEW arg \in Inputs \cup Ids,
         Mutate(op, arg), UNCHANGED <<server, list, news>>,
         op \in DialogOps => ~pending /\ arg \in Inputs /\ asked' = TRUE,
         op = "register" => arg \in Urls \cup {Malformed},
         op = "discover" => arg \in Sites \cup {Malformed},
         op = "delete" => arg \in Ids /\ arg <= lastId /\ asked' = asked,
         dialog' \in DialogRecord
  PROVE  IInv'
<1>1. call' \in [Calls -> CallRecords] /\ CallsTruthful' /\ OneAtATime' /\ AskedHere'
  BY MutateKeeps DEF DialogOps
<1>2. asked' \in BOOLEAN
  BY DEF IInv, TypeOK, DialogOps
<1>3. TypeOK'
  BY <1>1, <1>2 DEF IInv, TypeOK, server
<1> QED
  BY <1>1, <1>3, IdsKept DEF IInv

LEMMA UserKeeps == IInv /\ UserNext => IInv'
<1> SUFFICES ASSUME IInv, UserNext PROVE IInv'
  OBVIOUS
<1>0. dialog \in DialogRecord /\ asked \in BOOLEAN /\ "none" \in GeneralErrors
  BY DEF IInv, TypeOK, GeneralErrors
<1>1. CASE Open
  BY <1>1, OpenKeeps
<1>2. CASE Close
  <2>1. dialog' \in DialogRecord
    BY <1>2 DEF Close, Closed, DialogRecord, GeneralErrors
  <2> QED
    BY <1>0, <1>2, <2>1, DialogOnlyKeeps DEF Close
<1>3. CASE setMode \/ submitEmpty
  <2>1. dialog' \in DialogRecord
    BY <1>0, <1>3 DEF setMode, submitEmpty, DialogRecord
  <2> QED
    BY <1>0, <1>3, <2>1, DialogOnlyKeeps DEF setMode, submitEmpty
<1>4. CASE \E text \in Inputs : submit(text)
  <2>1. PICK text \in Inputs : submit(text)
    BY <1>4
  <2>2. dialog' \in DialogRecord
    BY <1>0, <2>1 DEF submit, DialogRecord
  <2>3. CASE text \notin Sites /\ Mutate("register", text)
    BY <2>1, <2>2, <2>3, SendKeeps DEF submit, DialogOps, Inputs
  <2>4. CASE text \notin Urls /\ Mutate("discover", text)
    BY <2>1, <2>2, <2>4, SendKeeps DEF submit, DialogOps, Inputs
  <2> QED
    BY <2>1, <2>3, <2>4 DEF submit
<1>5. CASE \E u \in Candidates : subscribeCandidate(u)
  <2>1. PICK u \in Candidates : subscribeCandidate(u)
    BY <1>5
  <2>2. dialog' \in DialogRecord
    BY <1>0, <2>1 DEF subscribeCandidate, DialogRecord
  <2>3. u \in Urls
    <3>1. dialog.candidates = <<>> \/ \E s \in Sites : dialog.candidates = CandidatesOf[s]
      BY <1>0 DEF DialogRecord
    <3>2. \A i \in DOMAIN dialog.candidates : dialog.candidates[i] \in Urls
      <4>1. CASE dialog.candidates = <<>>
        BY <4>1
      <4>2. CASE \E s \in Sites : dialog.candidates = CandidatesOf[s]
        <5>1. PICK s \in Sites : dialog.candidates = CandidatesOf[s]
          BY <4>2
        <5>2. dialog.candidates \in Seq(Urls)
          BY <5>1, ClientAssumption
        <5> QED
          BY <5>2
      <4> QED
        BY <3>1, <4>1, <4>2
    <3> QED
      BY <3>2, <2>1 DEF Candidates
  <2> QED
    BY <2>1, <2>2, <2>3, SendKeeps DEF subscribeCandidate, DialogOps, Inputs
<1>6. CASE \E id \in Listed : removeFeed(id)
  <2>1. PICK id \in Listed : removeFeed(id)
    BY <1>6
  <2>2. id \in Ids /\ id <= lastId
    BY <2>1 DEF Listed, IInv, TypeOK, IdsGiven, Subs
  <2> QED
    BY <1>0, <2>1, <2>2, SendKeeps DEF removeFeed, DialogOps
<1> QED
  BY <1>1, <1>2, <1>3, <1>4, <1>5, <1>6 DEF UserNext

-----------------------------------------------------------------------------
(* The service. *)

LEMMA ReplyFacts ==
  /\ \A code \in Codes :
       /\ Failure(code) \in Replies /\ ~Accepted(Failure(code)) /\ Failure(code).code = code
       /\ Failure(code).status \in 400..599
  /\ \A s \in Subs : Created(s) \in Replies /\ Created(s).code = None /\ Created(s).feed = s
  /\ NoContent \in Replies /\ NoContent.code = None
  /\ \A r \in NoEnvelope : r \in Replies /\ ~Accepted(r) /\ r.code = None /\ r.status \in {0, 504}
<1>1. \A code \in Codes : statusFromCode(code) \in 400..599
  BY DEF Codes, statusFromCode
<1>2. \A code \in Codes :
       /\ Failure(code) \in Replies /\ ~Accepted(Failure(code)) /\ Failure(code).code = code
       /\ Failure(code).status \in 400..599
  <2> SUFFICES ASSUME NEW code \in Codes
               PROVE  /\ Failure(code) \in Replies /\ ~Accepted(Failure(code))
                      /\ Failure(code).code = code /\ Failure(code).status \in 400..599
    OBVIOUS
  <2>1. Failure(code).status = statusFromCode(code) /\ Failure(code).code = code
    BY DEF Failure
  <2>2. ~Accepted(Failure(code))
    BY <1>1, <2>1 DEF Accepted
  <2> QED
    BY <1>1, <2>1, <2>2 DEF Replies
<1>3. \A s \in Subs : Created(s) \in Replies /\ Created(s).code = None /\ Created(s).feed = s
  BY DEF Created, Replies
<1>4. NoContent \in Replies /\ NoContent.code = None
  BY DEF NoContent, Replies
<1>5. \A r \in NoEnvelope : r \in Replies /\ ~Accepted(r) /\ r.code = None /\ r.status \in {0, 504}
  BY DEF NoEnvelope, Replies, Accepted
<1> QED
  BY <1>2, <1>3, <1>4, <1>5

\* The record of a call that has been answered.
LEMMA RepliedRecord ==
  ASSUME NEW c \in CallRecords, NEW r \in Replies, NEW did \in BOOLEAN,
         c.st \in {"sent", "stray"}
  PROVE  LET x == Replied(c, r, did) IN
           /\ x \in CallRecords
           /\ c.st = "stray" =>
                x.st = "free" /\ x.op = None /\ ~x.current /\ ~x.late
           /\ c.st = "sent" =>
                /\ x.st = "served" /\ x.op = c.op /\ x.arg = c.arg /\ x.reply = r
                /\ (x.did <=> did) /\ (x.late <=> c.late) /\ (x.current <=> c.current)
<1>1. CASE c.st = "stray"
  BY <1>1 DEF Replied, NoCall, CallRecords
<1>2. CASE c.st = "sent"
  <2> DEFINE x == [c EXCEPT !.st = "served", !.reply = r, !.had = {}, !.did = did]
  <2>1. Replied(c, r, did) = x
    BY <1>2 DEF Replied
  <2>2. /\ x \in CallRecords
        /\ x.st = "served" /\ x.op = c.op /\ x.arg = c.arg /\ x.reply = r
        /\ x.did = did /\ x.late = c.late /\ x.current = c.current
    BY DEF CallRecords
  <2> QED
    BY <1>2, <2>1, <2>2
<1> QED
  BY <1>1, <1>2

\* What a step of the service does: it answers an error, registers a feed, or deletes
\* one.
LEMMA ServeForms ==
  ASSUME IInv, NEW n \in Calls, Serve(n)
  PROVE  /\ call[n].st \in {"sent", "stray"}
         /\ \/ /\ UNCHANGED server
               /\ \E code \in Codes : call' = [call EXCEPT ![n] = Replied(call[n], Failure(code), FALSE)]
            \/ /\ call[n].op \in DialogOps
               /\ call[n].op = "discover" => call[n].arg \in Sites
               /\ lastId < MaxId
               /\ \E u \in Urls : Insert(n, [id |-> lastId + 1, url |-> u])
            \/ /\ call[n].op = "delete"
               /\ subs' = {s \in subs : s.id # call[n].arg}
               /\ lastId' = lastId
               /\ \E r \in {NoContent, Failure("internal")} :
                    call' = [call EXCEPT ![n] = Replied(call[n], r, TRUE)]
<1> DEFINE Error == /\ UNCHANGED server
                    /\ \E code \in Codes :
                         call' = [call EXCEPT ![n] = Replied(call[n], Failure(code), FALSE)]
<1>1. \A codes \in SUBSET Codes : Refuse(n, codes) => Error
  BY DEF Refuse
<1>2. \A u \in Urls : RegisterFeed(n, u) =>
        Error \/ (lastId < MaxId /\ Insert(n, [id |-> lastId + 1, url |-> u]))
  BY <1>1 DEF RegisterFeed, Codes
<1>3. \A site \in Sites : DiscoverAndRegister(n, site) =>
        Error \/ \E u \in Urls : lastId < MaxId /\ Insert(n, [id |-> lastId + 1, url |-> u])
  <2> SUFFICES ASSUME NEW site \in Sites, DiscoverAndRegister(n, site), ~Error
               PROVE  \E u \in Urls : lastId < MaxId /\ Insert(n, [id |-> lastId + 1, url |-> u])
    OBVIOUS
  <2>1. PICK u \in FirstOf(site) : RegisterFeed(n, u)
    BY <1>1 DEF DiscoverAndRegister, Codes
  <2>2. u \in Urls
    <3>1. CandidatesOf[site] \in Seq(Urls)
      BY ClientAssumption
    <3> QED
      BY <2>1, <3>1 DEF FirstOf
  <2> QED
    BY <1>2, <2>1, <2>2
<1>4. DeleteFeed(n, call[n].arg) =>
        \/ Error
        \/ /\ subs' = {s \in subs : s.id # call[n].arg}
           /\ lastId' = lastId
           /\ \E r \in {NoContent, Failure("internal")} :
                call' = [call EXCEPT ![n] = Replied(call[n], r, TRUE)]
  BY <1>1 DEF DeleteFeed, Codes
<1> HIDE DEF Error
<1>5. \/ Error
      \/ call[n].op = "register" /\ call[n].arg \in Urls /\ RegisterFeed(n, call[n].arg)
      \/ call[n].op = "discover" /\ call[n].arg \in Sites /\ DiscoverAndRegister(n, call[n].arg)
      \/ call[n].op = "delete" /\ DeleteFeed(n, call[n].arg)
  BY <1>1 DEF Serve, Codes
<1>6. call[n].st \in {"sent", "stray"}
  BY DEF Serve
<1> QED
  BY <1>2, <1>3, <1>4, <1>5, <1>6 DEF Error, DialogOps

\* An answer to call n, with no row but possibly one row less than before.
LEMMA AnswerKeeps ==
  ASSUME IInv, NEW n \in Calls, NEW r \in Replies, NEW did \in BOOLEAN,
         call[n].st \in {"sent", "stray"},
         call' = [call EXCEPT ![n] = Replied(call[n], r, did)],
         subs' \in SUBSET subs, lastId' = lastId, UNCHANGED <<dialog, asked, list, news>>,
         did => r.code \in {None, "internal"},
         Accepted(r) => call[n].op = "delete" /\ \A s \in subs' : s.id # call[n].arg
  PROVE  IInv'
<1> DEFINE new == Replied(call[n], r, did)
<1>1. \A m \in Calls : call[m] \in CallRecords /\ call'[m] = IF m = n THEN new ELSE call[m]
  BY DEF IInv, TypeOK
<1>2. /\ new \in CallRecords
      /\ call[n].st = "stray" => new.st = "free" /\ new.op = None /\ ~new.current /\ ~new.late
      /\ call[n].st = "sent" =>
           /\ new.st = "served" /\ new.op = call[n].op /\ new.arg = call[n].arg /\ new.reply = r
           /\ (new.did <=> did) /\ (new.late <=> call[n].late) /\ (new.current <=> call[n].current)
  BY <1>1, RepliedRecord
<1> HIDE DEF new
<1>3. TypeOK'
  BY <1>1, <1>2 DEF IInv, TypeOK
<1>4. IdsGiven' /\ ListShows'
  BY DEF IInv, IdsGiven, ListShows, Shows
<1>5. CallsTruthful'
  <2> SUFFICES ASSUME NEW m \in Calls PROVE Truthful(call[m])'
    BY DEF CallsTruthful
  <2>1. CASE m # n
    BY <1>1, <2>1 DEF IInv, CallsTruthful, Truthful
  <2>2. CASE m = n /\ call[n].st = "stray"
    BY <1>1, <1>2, <2>2, NoneIsNew DEF Truthful, DialogOps
  <2>3. CASE m = n /\ call[n].st = "sent"
    BY <1>1, <1>2, <2>3 DEF IInv, CallsTruthful, Truthful, DialogOps
  <2> QED
    BY <2>1, <2>2, <2>3
<1>6. OneAtATime' /\ AskedHere'
  BY <1>1, <1>2, NoneIsNew DEF IInv, OneAtATime, AskedHere
<1> QED
  BY <1>3, <1>4, <1>5, <1>6 DEF IInv

\* A registration: the calls that wait meanwhile learn of it when it is a stray one's.
LEMMA InsertKeeps ==
  ASSUME IInv, NEW n \in Calls, NEW u \in Urls,
         call[n].st \in {"sent", "stray"}, call[n].op \in DialogOps,
         call[n].op = "discover" => call[n].arg \in Sites,
         lastId < MaxId, Insert(n, [id |-> lastId + 1, url |-> u]),
         UNCHANGED <<dialog, asked, list, news>>
  PROVE  IInv'
<1> DEFINE s == [id |-> lastId + 1, url |-> u]
<1>1. s \in Subs /\ s.id = lastId + 1 /\ lastId \in 0..MaxId /\ lastId + 1 \in 0..MaxId
  BY ClientAssumption DEF IInv, TypeOK, Subs, Ids
<1>2. PICK r \in {Created(s), Failure("internal")} :
        call' = [m \in Calls |->
            IF m = n THEN Replied(call[n], r, TRUE)
            ELSE IF call[n].st = "stray" /\ call[m].st = "sent" /\ call[m].op \in DialogOps
            THEN [call[m] EXCEPT !.had = @ \cup {s.id}]
            ELSE call[m]]
  BY DEF Insert
<1>3. subs' = subs \cup {s} /\ lastId' = s.id
  BY DEF Insert
<1> HIDE DEF s
<1>4. /\ r \in Replies /\ r.code \in {None, "internal"}
      /\ Accepted(r) => r.feed = s
  BY <1>1, <1>2, ReplyFacts DEF Codes
<1> DEFINE new == Replied(call[n], r, TRUE)
<1>5. /\ new \in CallRecords
      /\ call[n].st = "stray" => new.st = "free" /\ new.op = None /\ ~new.current /\ ~new.late
      /\ call[n].st = "sent" =>
           /\ new.st = "served" /\ new.op = call[n].op /\ new.arg = call[n].arg /\ new.reply = r
           /\ new.did /\ (new.late <=> call[n].late) /\ (new.current <=> call[n].current)
  <2>1. call[n] \in CallRecords
    BY DEF IInv, TypeOK
  <2> QED
    BY <1>4, <2>1, RepliedRecord
<1>6. call'[n] = new
  BY <1>2
<1> HIDE DEF new
<1>7. \A m \in Calls \ {n} :
        /\ call'[m] \in CallRecords
        /\ call'[m].st = call[m].st /\ call'[m].op = call[m].op /\ call'[m].arg = call[m].arg
        /\ call'[m].reply = call[m].reply /\ call'[m].late = call[m].late
        /\ call'[m].current = call[m].current /\ call'[m].did = call[m].did
        /\ call[n].st = "stray" /\ call[m].st = "sent" /\ call[m].op \in DialogOps =>
             call'[m].had = call[m].had \cup {s.id}
  <2> SUFFICES ASSUME NEW m \in Calls \ {n}
               PROVE  /\ call'[m] \in CallRecords
                      /\ call'[m].st = call[m].st /\ call'[m].op = call[m].op
                      /\ call'[m].arg = call[m].arg
                      /\ call'[m].reply = call[m].reply /\ call'[m].late = call[m].late
                      /\ call'[m].current = call[m].current /\ call'[m].did = call[m].did
                      /\ call[n].st = "stray" /\ call[m].st = "sent" /\ call[m].op \in DialogOps =>
                           call'[m].had = call[m].had \cup {s.id}
    OBVIOUS
  <2>1. call[m] \in CallRecords /\ s.id \in Ids
    BY <1>1 DEF IInv, TypeOK, Subs
  <2>2. \A h \in SUBSET Ids :
           LET x == [call[m] EXCEPT !.had = h] IN
             /\ x \in CallRecords
             /\ x.st = call[m].st /\ x.op = call[m].op /\ x.arg = call[m].arg
             /\ x.reply = call[m].reply /\ x.late = call[m].late
             /\ x.current = call[m].current /\ x.did = call[m].did
             /\ x.had = h
    BY <2>1 DEF CallRecords
  <2>3. call[m].had \in SUBSET Ids /\ call[m].had \cup {s.id} \in SUBSET Ids
    BY <2>1 DEF CallRecords
  <2>4. CASE call[n].st = "stray" /\ call[m].st = "sent" /\ call[m].op \in DialogOps
    <3>1. call'[m] = [call[m] EXCEPT !.had = call[m].had \cup {s.id}]
      BY <1>2, <2>4
    <3> QED
      BY <2>2, <2>3, <3>1
  <2>5. CASE ~(call[n].st = "stray" /\ call[m].st = "sent" /\ call[m].op \in DialogOps)
    <3>1. call'[m] = call[m]
      BY <1>2, <2>5
    <3> QED
      BY <2>1, <2>5, <3>1
  <2> QED
    BY <2>4, <2>5
<1>8. TypeOK'
  <2>1. call' = [m \in Calls |-> call'[m]]
    BY <1>2
  <2>2. call' \in [Calls -> CallRecords]
    BY <1>5, <1>6, <1>7, <2>1
  <2> QED
    BY <1>1, <1>3, <2>2 DEF IInv, TypeOK
<1>9. IdsGiven'
  <2>1. \A i \in Ids : i <= lastId => i <= lastId + 1 /\ i # lastId + 1
    BY <1>1 DEF Ids
  <2>2. \A t \in subs : t.id \in Ids
    BY DEF IInv, TypeOK, Subs
  <2>3. /\ list.data # None => \A t \in list.data : t.id \in Ids
        /\ \A t \in list.seen : t.id \in Ids
    BY DEF IInv, TypeOK, Subs
  <2> QED
    BY <1>1, <1>3, <2>1, <2>2, <2>3 DEF IInv, IdsGiven
<1>10. ListShows'
  <2>1. news[s.id] = "none"
    BY <1>1 DEF IInv, IdsGiven, TypeOK, Subs, Ids
  <2> QED
    BY <1>3, <2>1 DEF IInv, ListShows, Shows
<1>11. CallsTruthful'
  <2> SUFFICES ASSUME NEW m \in Calls PROVE Truthful(call[m])'
    BY DEF CallsTruthful
  <2>0. /\ \A i \in Ids : i <= lastId => i <= lastId' /\ i # s.id
        /\ \A t \in Subs : t.id \in Ids
    BY <1>1, <1>3 DEF Ids, Subs
  <2>1. CASE m # n
    BY <1>3, <1>7, <2>0, <2>1 DEF IInv, CallsTruthful, Truthful
  <2>2. CASE m = n /\ call[n].st = "stray"
    BY <1>5, <1>6, <2>2, NoneIsNew DEF Truthful, DialogOps
  <2>3. CASE m = n /\ call[n].st = "sent"
    BY <1>1, <1>3, <1>4, <1>5, <1>6, <2>3 DEF IInv, CallsTruthful, Truthful, DialogOps
  <2> QED
    BY <2>1, <2>2, <2>3
<1>12. OneAtATime'
  BY <1>3, <1>5, <1>6, <1>7, NoneIsNew DEF IInv, OneAtATime
<1>13. AskedHere'
  BY <1>5, <1>6, <1>7, NoneIsNew DEF IInv, AskedHere
<1> QED
  BY <1>8, <1>9, <1>10, <1>11, <1>12, <1>13 DEF IInv

LEMMA ServeKeeps == ASSUME IInv, NEW n \in Calls, Serve(n) PROVE IInv'
<1>1. UNCHANGED <<dialog, asked, list, news>>
  BY DEF Serve
<1>2. ASSUME UNCHANGED server,
             NEW code \in Codes, call' = [call EXCEPT ![n] = Replied(call[n], Failure(code), FALSE)]
      PROVE  IInv'
  <2>1. /\ Failure(code) \in Replies /\ ~Accepted(Failure(code)) /\ FALSE \in BOOLEAN
        /\ subs' \in SUBSET subs /\ lastId' = lastId
    BY <1>2, ReplyFacts DEF server
  <2>2. call[n].st \in {"sent", "stray"}
    BY ServeForms
  <2> QED
    BY <1>1, <1>2, <2>1, <2>2, AnswerKeeps
<1>3. ASSUME call[n].op = "delete", subs' = {s \in subs : s.id # call[n].arg}, lastId' = lastId,
             NEW r \in {NoContent, Failure("internal")},
             call' = [call EXCEPT ![n] = Replied(call[n], r, TRUE)]
      PROVE  IInv'
  <2>1. r \in Replies /\ r.code \in {None, "internal"}
    BY ReplyFacts DEF Codes
  <2> QED
    BY <1>1, <1>3, <2>1, ServeForms, AnswerKeeps
<1> QED
  BY <1>1, <1>2, <1>3, ServeForms, InsertKeeps

-----------------------------------------------------------------------------
(* The client: calls end, lists arrive. *)

\* Call n is forgotten, or given up.
LEMMA CallEnds ==
  ASSUME IInv, NEW n \in Calls, NEW new \in CallRecords,
         call' = [call EXCEPT ![n] = new],
         \/ new = NoCall
         \/ /\ call[n].st = "sent" /\ new.st = "stray" /\ ~new.current
            /\ new.op = call[n].op /\ new.arg = call[n].arg,
         UNCHANGED server, asked' => asked
  PROVE  call' \in [Calls -> CallRecords] /\ CallsTruthful' /\ OneAtATime' /\ AskedHere'
<1>1. \A m \in Calls : call[m] \in CallRecords /\ call'[m] = IF m = n THEN new ELSE call[m]
  BY DEF IInv, TypeOK
<1>2. new = NoCall => new.st = "free" /\ new.op = None /\ ~new.current /\ ~new.late
  BY DEF NoCall
<1>3. call' \in [Calls -> CallRecords]
  BY DEF IInv, TypeOK
<1>4. subs' = subs /\ lastId' = lastId
  BY DEF server
<1>5. CallsTruthful'
  <2> SUFFICES ASSUME NEW m \in Calls PROVE Truthful(call[m])'
    BY DEF CallsTruthful
  <2>1. CASE m # n
    BY <1>1, <1>4, <2>1 DEF IInv, CallsTruthful, Truthful
  <2>2. CASE m = n /\ new = NoCall
    BY <1>1, <1>2, <2>2, NoneIsNew DEF Truthful, DialogOps
  <2>3. CASE m = n /\ new # NoCall
    BY <1>1, <1>4, <2>3 DEF IInv, CallsTruthful, Truthful
  <2> QED
    BY <2>1, <2>2, <2>3
<1>6. OneAtATime' /\ AskedHere'
  BY <1>1, <1>2, <1>4, NoneIsNew DEF IInv, OneAtATime, AskedHere
<1> QED
  BY <1>3, <1>5, <1>6

LEMMA NoCallTyped == NoCall \in CallRecords
BY DEF NoCall, CallRecords

LEMMA VanishKeeps == ASSUME IInv, NEW n \in Calls, Vanish(n) PROVE IInv'
<1>1. UNCHANGED <<server, dialog, asked, list, news>> /\ call' = [call EXCEPT ![n] = NoCall]
  BY DEF Vanish
<1>2. call' \in [Calls -> CallRecords] /\ CallsTruthful' /\ OneAtATime' /\ AskedHere'
  BY <1>1, NoCallTyped, CallEnds
<1>3. TypeOK'
  BY <1>1, <1>2 DEF IInv, TypeOK, server
<1> QED
  BY <1>1, <1>2, <1>3, IdsKept DEF IInv

LEMMA MessageTyped == \A r : MessageOf(r) \in GeneralErrors \cup {"field"}
BY DEF MessageOf, GeneralErrors, Reasons

\* The callbacks of a call that ends.
LEMMA CallbackTyped ==
  ASSUME IInv, NEW n \in Calls, NEW r \in Replies,
         call[n].st \in {"sent", "served"},
         call[n].op \in DialogOps,
         Accepted(r) => call[n].st = "served" /\ r = call[n].reply
  PROVE  Callback(call[n], r) \in DialogRecord
<1>1. dialog \in DialogRecord /\ "none" \in GeneralErrors
  BY DEF IInv, TypeOK, GeneralErrors
<1>2. Closed \in DialogRecord
  BY DEF Closed, DialogRecord, GeneralErrors
<1>3. Accepted(r) /\ call[n].op # "register" =>
        call[n].arg \in Sites /\ r.feed.url \in Urls
  BY DEF IInv, CallsTruthful, Truthful, DialogOps, Subs
<1>4. ASSUME NEW s \in Sites, NEW u \in Urls
      PROVE  [dialog EXCEPT !.candidates = CandidatesOf[s], !.subscribedUrl = u] \in DialogRecord
  BY <1>1, DialogEdits
<1>5. [dialog EXCEPT !.fieldError = TRUE] \in DialogRecord
  BY <1>1 DEF DialogRecord
<1>6. MessageOf(r) # "field" => [dialog EXCEPT !.generalError = MessageOf(r)] \in DialogRecord
  <2>1. MessageOf(r) # "field" => MessageOf(r) \in GeneralErrors
    BY MessageTyped
  <2>2. \A e \in GeneralErrors : [dialog EXCEPT !.generalError = e] \in DialogRecord
    BY <1>1 DEF DialogRecord
  <2> QED
    BY <2>1, <2>2
<1> QED
  BY <1>2, <1>3, <1>4, <1>5, <1>6 DEF Callback

LEMMA SettleWithKeeps ==
  ASSUME IInv, NEW n \in Calls, NEW r \in Replies,
         call[n].st \in {"sent", "served"},
         Accepted(r) => call[n].st = "served" /\ r = call[n].reply,
         SettleWith(n, r), call' \in [Calls -> CallRecords]
  PROVE  /\ TypeOK' /\ IdsGiven' /\ ListShows'
         /\ UNCHANGED server /\ (asked' => asked)
<1>1. UNCHANGED server /\ subs' = subs /\ lastId' = lastId
  BY DEF SettleWith, server
<1>2. dialog' \in DialogRecord
  <2>1. dialog \in DialogRecord
    BY DEF IInv, TypeOK
  <2> QED
    BY <2>1, CallbackTyped DEF SettleWith
<1>3. asked' \in BOOLEAN /\ (asked' => asked)
  BY DEF SettleWith
<1>4. list' \in [phase : {"idle", "sent", "read", "failed"},
                 data : (SUBSET Subs) \cup {None}, seen : SUBSET Subs]
      /\ list'.data = list.data /\ list'.seen \in SUBSET list.seen
      /\ (list' = list \/ list'.phase = "sent")
      /\ (Accepted(r) /\ list.data # None => list'.phase = "sent")
  <2>1. list \in [phase : {"idle", "sent", "read", "failed"},
                  data : (SUBSET Subs) \cup {None}, seen : SUBSET Subs]
    BY DEF IInv, TypeOK
  <2>2. list' \in {list, [list EXCEPT !.phase = "sent", !.seen = {}]}
        /\ (Accepted(r) /\ list.data # None => list' = [list EXCEPT !.phase = "sent", !.seen = {}])
    BY DEF SettleWith, Invalidate
  <2> QED
    BY <2>1, <2>2
<1>5. news' = news
      \/ /\ Accepted(r) /\ list.data # None
         /\ \E i \in Ids, what \in {"added", "removed"} :
              /\ i <= lastId
              /\ news' = [news EXCEPT ![i] = IF @ = "removed" THEN "removed" ELSE what]
              /\ what = "removed" => \A s \in subs : s.id # i
  <2> SUFFICES ASSUME Accepted(r), list.data # None
               PROVE  \E i \in Ids, what \in {"added", "removed"} :
                        /\ i <= lastId
                        /\ news' = [news EXCEPT ![i] = IF @ = "removed" THEN "removed" ELSE what]
                        /\ what = "removed" => \A s \in subs : s.id # i
    BY DEF SettleWith, Tell
  <2>1. news' = Tell(call[n], r)
    BY DEF SettleWith
  <2>2. Truthful(call[n]) /\ call[n].st = "served" /\ r = call[n].reply
        /\ call[n].op \in DialogOps \cup {"delete", None}
    BY DEF IInv, CallsTruthful, TypeOK, CallRecords
  <2>3. CASE call[n].op = "delete"
    <3>1. news' = [news EXCEPT ![call[n].arg] = "removed"]
      BY <2>1, <2>3 DEF Tell
    <3>2. call[n].arg \in Ids /\ call[n].arg <= lastId /\ \A s \in subs : s.id # call[n].arg
      BY <2>2, <2>3 DEF Truthful
    <3>3. news' = [news EXCEPT ![call[n].arg] = IF @ = "removed" THEN "removed" ELSE "removed"]
      BY <3>1
    <3> QED
      BY <3>2, <3>3
  <2>4. CASE call[n].op \in DialogOps
    <3>1. r.feed.id \in Ids /\ r.feed.id <= lastId
      BY <2>2, <2>4 DEF Truthful, Subs
    <3>2. news' = [news EXCEPT ![r.feed.id] = IF @ = "removed" THEN "removed" ELSE "added"]
      BY <2>1, <2>4, NoneIsNew DEF Tell, DialogOps
    <3> QED
      BY <3>1, <3>2
  <2> QED
    BY <2>2, <2>3, <2>4 DEF Truthful
<1>6. news' \in [Ids -> {"none", "added", "removed"}]
  BY <1>5 DEF IInv, TypeOK
<1>7. TypeOK'
  BY <1>1, <1>2, <1>3, <1>4, <1>6 DEF IInv, TypeOK
<1>8. IdsGiven'
  <2>1. \A i \in Ids : news'[i] # "none" => i <= lastId
    BY <1>5 DEF IInv, TypeOK, IdsGiven
  <2>2. \A i \in Ids : news'[i] = "removed" => \A s \in subs : s.id # i
    BY <1>5 DEF IInv, TypeOK, IdsGiven
  <2> QED
    BY <1>1, <1>4, <2>1, <2>2 DEF IInv, IdsGiven
<1>9. ListShows'
  <2>1. CASE news' = news
    BY <1>1, <1>4, <2>1 DEF IInv, ListShows, Shows
  <2>2. CASE Accepted(r) /\ list.data # None
    BY <1>4, <2>2 DEF ListShows
  <2> QED
    BY <1>5, <2>1, <2>2
<1> QED
  BY <1>1, <1>3, <1>7, <1>8, <1>9

LEMMA SettleKeeps == ASSUME IInv, NEW n \in Calls, Settle(n) PROVE IInv'
<1>1. call[n].st = "served" /\ SettleWith(n, call[n].reply) /\ call' = [call EXCEPT ![n] = NoCall]
  BY DEF Settle
<1>2. call[n].reply \in Replies
  BY <1>1 DEF IInv, CallsTruthful, Truthful
<1>3. call' \in [Calls -> CallRecords]
  BY <1>1, NoCallTyped DEF IInv, TypeOK
<1>4. TypeOK' /\ IdsGiven' /\ ListShows' /\ UNCHANGED server /\ (asked' => asked)
  BY <1>1, <1>2, <1>3, SettleWithKeeps
<1>5. CallsTruthful' /\ OneAtATime' /\ AskedHere'
  BY <1>1, <1>4, NoCallTyped, CallEnds
<1> QED
  BY <1>4, <1>5 DEF IInv

LEMMA BreakKeeps == ASSUME IInv, NEW n \in Calls, Break(n) PROVE IInv'
<1>1. PICK r \in NoEnvelope : SettleWith(n, r)
  BY DEF Break
<1>2. PICK new \in CallRecords :
        /\ call' = [call EXCEPT ![n] = new]
        /\ \/ new = NoCall
           \/ /\ call[n].st = "sent" /\ new.st = "stray" /\ ~new.current
              /\ new.op = call[n].op /\ new.arg = call[n].arg
  <2>1. CASE call[n].st = "sent"
    <3> DEFINE x == [call[n] EXCEPT !.st = "stray", !.current = FALSE,
                                    !.late = FALSE, !.had = {}]
    <3>1. call' = [call EXCEPT ![n] = x]
      BY <2>1 DEF Break
    <3>2. call[n] \in CallRecords
      BY DEF IInv, TypeOK
    <3>3. x \in CallRecords /\ x.st = "stray" /\ ~x.current /\ x.op = call[n].op /\ x.arg = call[n].arg
      BY <3>2 DEF CallRecords
    <3> QED
      BY <2>1, <3>1, <3>3
  <2>2. CASE call[n].st # "sent"
    BY <2>2, NoCallTyped DEF Break
  <2> QED
    BY <2>1, <2>2
<1>3. call[n].st \in {"sent", "served"} /\ r \in Replies /\ ~Accepted(r)
  BY ReplyFacts DEF Break
<1>4. call' \in [Calls -> CallRecords]
  BY <1>2 DEF IInv, TypeOK
<1>5. TypeOK' /\ IdsGiven' /\ ListShows' /\ UNCHANGED server /\ (asked' => asked)
  BY <1>1, <1>3, <1>4, SettleWithKeeps
<1>6. CallsTruthful' /\ OneAtATime' /\ AskedHere'
  BY <1>2, <1>5, CallEnds
<1> QED
  BY <1>5, <1>6 DEF IInv

\* The queries of the list: what is read is what is registered.
LEMMA ListKeeps ==
  ASSUME IInv, ListFeeds \/ ListArrives \/ ListFails \/ refresh
  PROVE  IInv'
<1>1. UNCHANGED <<server, call, dialog, asked, news>>
  BY DEF ListFeeds, ListArrives, ListFails, refresh
<1>2. list \in [phase : {"idle", "sent", "read", "failed"},
                data : (SUBSET Subs) \cup {None}, seen : SUBSET Subs]
      /\ subs \in SUBSET Subs
  BY DEF IInv, TypeOK
<1>3. CASE ListFeeds
  <2>0. PICK page \in FirstPage(subs) :
          list' = [list EXCEPT !.phase = "read", !.seen = page]
    BY <1>3 DEF ListFeeds
  <2>01. /\ page \in SUBSET subs
         /\ \A s \in page, t \in subs \ page : Newer(s, t)
         /\ page # subs => Cardinality(page) = FEEDS_LIMIT
    BY <2>0 DEF FirstPage
  <2>1. list' \in [phase : {"idle", "sent", "read", "failed"},
                   data : (SUBSET Subs) \cup {None}, seen : SUBSET Subs]
        /\ list'.phase = "read" /\ list'.data = list.data /\ list'.seen = page
    BY <1>2, <2>0, <2>01
  <2>2. \A s \in subs : s.id \in Ids
    BY <1>2 DEF Subs
  <2>20. Shows(page)
    BY <2>01, <2>2 DEF IInv, IdsGiven, Shows
  <2>21. Shows(page)'
    BY <1>1, <2>1, <2>20 DEF Shows, server
  <2>3. IdsGiven' /\ ListShows'
    BY <1>1, <2>01, <2>1, <2>2, <2>21 DEF IInv, IdsGiven, ListShows, server
  <2>4. TypeOK' /\ AskedHere'
    BY <1>1, <2>1 DEF IInv, TypeOK, AskedHere, server
  <2> QED
    BY <1>1, <2>3, <2>4, CallsKept DEF IInv
<1>4. CASE ListArrives
  <2>1. list' \in [phase : {"idle", "sent", "read", "failed"},
                   data : (SUBSET Subs) \cup {None}, seen : SUBSET Subs]
        /\ list.phase = "read" /\ list'.phase = "idle"
        /\ list'.data = list.seen /\ list'.data # None /\ list'.seen = {}
    BY <1>2, <1>4, NoneIsNew DEF ListArrives
  <2>2. IdsGiven' /\ ListShows'
    BY <1>1, <2>1 DEF IInv, IdsGiven, ListShows, Shows, server
  <2>3. TypeOK' /\ AskedHere'
    BY <1>1, <2>1 DEF IInv, TypeOK, AskedHere, server
  <2> QED
    BY <1>1, <2>2, <2>3, CallsKept DEF IInv
<1>5. CASE ListFails \/ refresh
  <2>1. \/ list' = list
        \/ /\ list' \in [phase : {"idle", "sent", "read", "failed"},
                         data : (SUBSET Subs) \cup {None}, seen : SUBSET Subs]
           /\ list'.data = list.data /\ list'.seen = {}
           /\ list'.phase \in {"sent", "failed"}
    BY <1>2, <1>5 DEF ListFails, refresh, Invalidate
  <2>2. CASE list' = list
    <3>1. TypeOK' /\ AskedHere'
      BY <1>1, <2>2 DEF IInv, TypeOK, AskedHere, server
    <3> QED
      BY <1>1, <2>2, <3>1, IdsKept, CallsKept DEF IInv
  <2>3. CASE list' # list
    <3>1. IdsGiven' /\ ListShows'
      BY <1>1, <2>1, <2>3 DEF IInv, IdsGiven, ListShows, Shows, server
    <3>2. TypeOK' /\ AskedHere'
      BY <1>1, <2>1, <2>3 DEF IInv, TypeOK, AskedHere, server
    <3> QED
      BY <1>1, <3>1, <3>2, CallsKept DEF IInv
  <2> QED
    BY <2>2, <2>3
<1> QED
  BY <1>3, <1>4, <1>5

LEMMA NextIInv == IInv /\ [Next]_vars => IInv'
<1> SUFFICES ASSUME IInv, [Next]_vars PROVE IInv'
  OBVIOUS
<1>1. CASE UNCHANGED vars
  <2>1. TypeOK' /\ AskedHere'
    BY <1>1 DEF IInv, TypeOK, AskedHere, vars, server
  <2> QED
    BY <1>1, <2>1, IdsKept, CallsKept DEF IInv, vars
<1>2. CASE Next
  BY <1>2, UserKeeps, ServeKeeps, VanishKeeps, SettleKeeps, BreakKeeps, ListKeeps DEF Next
<1> QED
  BY <1>1, <1>2

LEMMA InvariantHolds == Spec => []IInv
<1>1. IInv /\ [Next]_vars => IInv'
  BY NextIInv
<1> QED
  BY <1>1, InitIInv, PTL DEF Spec

-----------------------------------------------------------------------------
(* The properties. *)

\* Every variable keeps its type.
THEOREM TypeSafe == Spec => []TypeOK
<1>1. IInv => TypeOK
  BY DEF IInv
<1> QED
  BY <1>1, InvariantHolds, PTL

\* A feed list at rest shows every registration and deletion the client has been
\* told of since it first had a list, but for registrations below a full page of
\* newer ones.
THEOREM ListShown == Spec => []ListUpToDate
<1>1. IInv => ListUpToDate
  BY DEF IInv, ListShows, Shows, ListUpToDate
<1> QED
  BY <1>1, InvariantHolds, PTL

\* What changes the state of a call: a click sends a free one, the service answers one,
\* and one ends.
LEMMA UserSends ==
  ASSUME IInv, UserNext, NEW n \in Calls, call'[n].st # call[n].st
  PROVE  call[n].st = "free" /\ call'[n].st = "sent"
<1>1. (\E op, arg : Mutate(op, arg)) \/ call' = call \/ Open
  BY DEF UserNext, Close, setMode, submitEmpty, submit, subscribeCandidate, removeFeed
<1>2. call \in [Calls -> CallRecords]
  BY DEF IInv, TypeOK
<1>3. \A m \in Calls : \A b : /\ [call[m] EXCEPT !.current = b].st = call[m].st
                              /\ [call[m] EXCEPT !.late = b].st = call[m].st
  BY <1>2 DEF CallRecords
<1>4. CASE Open
  <2>1. call'[n] = [call[n] EXCEPT
                      !.late = call[n].op \in DialogOps /\ call[n].st # "stray"]
    BY <1>4 DEF Open
  <2> QED
    BY <1>3, <2>1
<1>5. CASE \E op, arg : Mutate(op, arg)
  <2>1. PICK op, arg : Mutate(op, arg)
    BY <1>5
  <2>2. PICK m \in Calls :
          /\ call[m].st = "free"
          /\ call' = [k \in Calls |->
             IF k = m THEN [NoCall EXCEPT !.st = "sent", !.op = op, !.arg = arg,
                                          !.current = TRUE,
                        !.had = IF op \in DialogOps THEN {s.id : s \in subs} ELSE {}]
             ELSE [call[k] EXCEPT !.current = @ /\ call[k].op # op]]
    BY <2>1 DEF Mutate
  <2>3. CASE n = m
    <3>1. call'[n].st = "sent"
      BY <2>2, <2>3 DEF NoCall
    <3> QED
      BY <2>2, <2>3, <3>1
  <2>4. CASE n # m
    <3>1. call'[n] = [call[n] EXCEPT !.current = @ /\ call[n].op # op]
      BY <2>2, <2>4
    <3> QED
      BY <1>3, <3>1
  <2> QED
    BY <2>3, <2>4
<1> QED
  BY <1>1, <1>4, <1>5

\* A step of the service on another call leaves the state of this one.
LEMMA ServeOthers ==
  ASSUME IInv, NEW m \in Calls, Serve(m), NEW n \in Calls, n # m
  PROVE  call'[n].st = call[n].st
<1>1. call \in [Calls -> CallRecords]
  BY DEF IInv, TypeOK
<1>2. \A h : [call[n] EXCEPT !.had = h].st = call[n].st
  BY <1>1 DEF CallRecords
<1>3. ASSUME NEW s, Insert(m, s) PROVE call'[n].st = call[n].st
  <2>1. call'[n] \in {call[n], [call[n] EXCEPT !.had = call[n].had \cup {s.id}]}
    BY <1>3 DEF Insert
  <2> QED
    BY <1>2, <2>1
<1>4. ASSUME NEW x, call' = [call EXCEPT ![m] = x] PROVE call'[n].st = call[n].st
  BY <1>1, <1>4
<1> QED
  BY <1>3, <1>4, ServeForms

\* The steps that change the state of call n.
LEMMA StepOf ==
  ASSUME IInv, Next, NEW n \in Calls, call'[n].st # call[n].st
  PROVE  \/ call[n].st = "free" /\ call'[n].st = "sent"
         \/ Serve(n) \/ Vanish(n) \/ Settle(n) \/ Break(n)
<1>1. \A m \in Calls : Vanish(m) \/ Settle(m) \/ Break(m) => m = n
  BY DEF IInv, TypeOK, Vanish, Settle, Break
<1>2. \A m \in Calls : Serve(m) => m = n
  BY ServeOthers
<1>3. ~(ListFeeds \/ ListArrives \/ ListFails \/ refresh)
  BY DEF ListFeeds, ListArrives, ListFails, refresh
<1> QED
  BY <1>1, <1>2, <1>3, UserSends DEF Next

\* The answer "conflict" to a call of the dialog.
LEMMA ConflictMet ==
  ASSUME IInv, NEW n \in Calls, Serve(n), call[n].st = "sent", call[n].op \in DialogOps,
         call'[n].reply.code = "conflict"
  PROVE  \/ call[n].op = "register" /\ Clashing(call[n].arg) # {}
         \/ /\ call[n].op = "discover"
            /\ \/ Subscribed(call[n].arg) # {}
               \/ \E u \in FirstOf(call[n].arg) : Clashing(u) # {}
<1>1. call \in [Calls -> CallRecords]
  BY DEF IInv, TypeOK
<1>2. \A r \in Replies, did \in BOOLEAN : Replied(call[n], r, did).reply = r
  BY <1>1, RepliedRecord
<1>3. ASSUME NEW codes \in SUBSET Codes, Refuse(n, codes) PROVE "conflict" \in codes
  <2>1. PICK code \in codes : call' = [call EXCEPT ![n] = Replied(call[n], Failure(code), FALSE)]
    BY <1>3 DEF Refuse
  <2>2. call'[n] = Replied(call[n], Failure(code), FALSE)
    BY <1>1, <2>1
  <2>3. code \in Codes /\ Failure(code) \in Replies /\ Failure(code).code = code
    BY <1>3, ReplyFacts
  <2>4. call'[n].reply = Failure(code)
    BY <1>2, <2>2, <2>3
  <2> QED
    BY <2>3, <2>4
<1>4. ASSUME NEW u \in Urls, lastId < MaxId PROVE ~Insert(n, [id |-> lastId + 1, url |-> u])
  <2> SUFFICES ASSUME Insert(n, [id |-> lastId + 1, url |-> u]) PROVE FALSE
    OBVIOUS
  <2> DEFINE s == [id |-> lastId + 1, url |-> u]
  <2>1. s \in Subs
    BY <1>4, ClientAssumption DEF IInv, TypeOK, Subs, Ids
  <2>2. PICK r \in {Created(s), Failure("internal")} : call'[n] = Replied(call[n], r, TRUE)
    BY DEF Insert
  <2> HIDE DEF s
  <2>3. r \in Replies /\ r.code \in {None, "internal"}
    BY <2>1, <2>2, ReplyFacts DEF Codes
  <2>4. call'[n].reply = r
    BY <1>2, <2>2, <2>3
  <2> QED
    BY <2>3, <2>4, NoneIsNew DEF Codes
<1>5. \A u \in Urls : RegisterFeed(n, u) => Clashing(u) # {}
  BY <1>3, <1>4 DEF RegisterFeed, Codes
<1>6. ASSUME call[n].arg \in Sites, DiscoverAndRegister(n, call[n].arg)
      PROVE  \/ Subscribed(call[n].arg) # {}
             \/ \E u \in FirstOf(call[n].arg) : Clashing(u) # {}
  <2>1. CandidatesOf[call[n].arg] \in Seq(Urls)
    BY <1>6, ClientAssumption
  <2>2. FirstOf(call[n].arg) \subseteq Urls
    BY <2>1 DEF FirstOf
  <2> QED
    BY <1>3, <1>5, <1>6, <2>2 DEF DiscoverAndRegister, Codes
<1> QED
  BY <1>3, <1>5, <1>6 DEF Serve, DialogOps, Codes

\* "Already registered" is said of a feed that was there at the click, or came from a
\* call the client had given up.
THEOREM ConflictsAreOld == Spec => ConflictIsOld
<1> DEFINE met(c) == IF c.op = "register" THEN Clashing(c.arg)
                     ELSE Subscribed(c.arg) \cup UNION {Clashing(u) : u \in FirstOf(c.arg)}
           Old == \A n \in Calls :
                    LET c == call[n] IN
                      c.op \in DialogOps /\ c.st = "sent" /\ call'[n].st = "served"
                        /\ call'[n].reply.code = "conflict" => met(c) \cap c.had # {}
<1>1. IInv /\ [Next]_vars => [Old]_vars
  <2> SUFFICES ASSUME IInv, Next, NEW n \in Calls,
                      call[n].op \in DialogOps, call[n].st = "sent", call'[n].st = "served",
                      call'[n].reply.code = "conflict"
               PROVE  met(call[n]) \cap call[n].had # {}
    BY DEF Old
  <2>1. call \in [Calls -> CallRecords]
    BY DEF IInv, TypeOK
  <2>2. Serve(n)
    <3>1. ~Vanish(n) /\ ~Settle(n)
      BY <2>1 DEF Vanish, Settle, NoCall
    <3>2. ~Break(n)
      <4>1. [call[n] EXCEPT !.st = "stray", !.current = FALSE,
                             !.late = FALSE, !.had = {}].st = "stray"
        BY <2>1 DEF CallRecords
      <4> QED
        BY <2>1, <4>1 DEF Break
    <3> QED
      BY <3>1, <3>2, StepOf
  <2>3. \/ call[n].op = "register" /\ Clashing(call[n].arg) # {}
        \/ /\ call[n].op = "discover"
           /\ \/ Subscribed(call[n].arg) # {}
              \/ \E u \in FirstOf(call[n].arg) : Clashing(u) # {}
    BY <2>2, ConflictMet
  <2>4. met(call[n]) # {}
    BY <2>3
  <2>5. \A i \in met(call[n]) : \E s \in subs : i = s.id
    BY DEF Clashing, Subscribed
  <2>6. \A s \in subs : s.id \in call[n].had
    BY DEF IInv, OneAtATime
  <2> QED
    BY <2>4, <2>5, <2>6
<1> QED
  BY <1>1, InvariantHolds, PTL DEF Spec, ConflictIsOld

\* Without a code, or with that of a failure of the server, no reason is given.
LEMMA NoReason ==
  ASSUME NEW r, r.code \in {None, "internal"}
  PROVE  MessageOf(r) = "other"
<1>1. None \notin Codes
  BY NoneIsNew
<1> QED
  BY <1>1 DEF MessageOf, toApiError, Reasons, Codes

\* What the callbacks of a call change in the dialog.
LEMMA CallbackSays ==
  ASSUME IInv, NEW c, NEW r
  PROVE  LET d == Callback(c, r) IN
           /\ dialog.open /\ ~d.open => Accepted(r) /\ c.op = "register"
           /\ \/ ~dialog.fieldError /\ d.fieldError
              \/ d.generalError # dialog.generalError /\ d.generalError \in Reasons
                => ~Accepted(r) /\ MessageOf(r) # "other"
<1>1. dialog \in DialogRecord
  BY DEF IInv, TypeOK
<1>2. ~Closed.open /\ ~Closed.fieldError /\ Closed.generalError \notin Reasons
  BY DEF Closed, Reasons
<1>3. \A x, y : LET d == [dialog EXCEPT !.candidates = x, !.subscribedUrl = y] IN
        d.open = dialog.open /\ d.fieldError = dialog.fieldError
          /\ d.generalError = dialog.generalError
  BY <1>1 DEF DialogRecord
<1>4. LET d == [dialog EXCEPT !.fieldError = TRUE] IN
        d.open = dialog.open /\ d.generalError = dialog.generalError
  BY <1>1 DEF DialogRecord
<1>5. \A e : LET d == [dialog EXCEPT !.generalError = e] IN
        d.open = dialog.open /\ d.fieldError = dialog.fieldError /\ d.generalError = e
  BY <1>1 DEF DialogRecord
<1>6. CASE ~dialog.open
  BY <1>2, <1>6 DEF Callback
<1>7. CASE dialog.open /\ Accepted(r)
  BY <1>2, <1>3, <1>7 DEF Callback
<1>8. CASE dialog.open /\ ~Accepted(r)
  <2>1. "other" \notin Reasons
    BY DEF Reasons
  <2> QED
    BY <1>4, <1>5, <1>8, <2>1 DEF Callback
<1> QED
  BY <1>6, <1>7, <1>8

\* The dialog closes itself only for a registration that took place, and the reason it
\* gives why nothing was registered is never that of a call that registered a feed, or
\* may yet.
THEOREM MessagesTrue == Spec => MessageTrue
<1> DEFINE True == \A n \in Calls :
          call[n].op \in DialogOps /\ call'[n].st # call[n].st /\ call'[n].st \in {"free", "stray"} =>
              /\ dialog.open /\ ~dialog'.open => call[n].did
              /\ \/ ~dialog.fieldError /\ dialog'.fieldError
                 \/ dialog'.generalError # dialog.generalError
                      /\ dialog'.generalError \in Reasons
                   => call[n].st = "served" /\ ~call[n].did
<1>1. IInv /\ [Next]_vars => [True]_vars
  <2> SUFFICES ASSUME IInv, Next, NEW n \in Calls,
                      call[n].op \in DialogOps, call'[n].st # call[n].st,
                      call'[n].st \in {"free", "stray"}
               PROVE  /\ dialog.open /\ ~dialog'.open => call[n].did
                      /\ \/ ~dialog.fieldError /\ dialog'.fieldError
                         \/ dialog'.generalError # dialog.generalError
                              /\ dialog'.generalError \in Reasons
                           => call[n].st = "served" /\ ~call[n].did
    BY DEF True
  <2>1. CASE Serve(n) \/ Vanish(n)
    BY <2>1 DEF Serve, Vanish
  <2>2. CASE Settle(n)
    <3>1. call[n].st = "served" /\ SettleWith(n, call[n].reply)
      BY <2>2 DEF Settle
    <3>2. /\ call[n].did => call[n].reply.code \in {None, "internal"}
          /\ Accepted(call[n].reply) => call[n].did
      BY <3>1 DEF IInv, CallsTruthful, Truthful
    <3>3. dialog' = dialog \/ dialog' = Callback(call[n], call[n].reply)
      BY <3>1 DEF SettleWith
    <3>4. MessageOf(call[n].reply) # "other" => ~call[n].did
      BY <3>2, NoReason
    <3> QED
      BY <3>1, <3>2, <3>3, <3>4, CallbackSays
  <2>3. CASE Break(n)
    <3>1. PICK r \in NoEnvelope : SettleWith(n, r)
      BY <2>3 DEF Break
    <3>2. ~Accepted(r) /\ MessageOf(r) = "other"
      BY ReplyFacts, NoReason
    <3>3. dialog' = dialog \/ dialog' = Callback(call[n], r)
      BY <3>1 DEF SettleWith
    <3> QED
      BY <3>2, <3>3, CallbackSays
  <2> QED
    BY <2>1, <2>2, <2>3, StepOf
<1> QED
  BY <1>1, InvariantHolds, PTL DEF Spec, MessageTrue

\* An answer to what was submitted before the dialog was opened again never reaches it
\* once something has been submitted in it.
THEOREM AnswersOwn == Spec => OwnAnswers
<1> DEFINE Own == \A n \in Calls :
                    call[n].late /\ call'[n].st # call[n].st /\ dialog' # dialog => ~asked
<1>1. IInv /\ [Next]_vars => [Own]_vars
  <2> SUFFICES ASSUME IInv, Next, NEW n \in Calls,
                      call[n].late, call'[n].st # call[n].st, dialog' # dialog
               PROVE  ~asked
    BY DEF Own
  <2>1. call[n].st # "free"
    BY DEF IInv, CallsTruthful, Truthful
  <2>2. ~Serve(n) /\ ~Vanish(n)
    BY DEF Serve, Vanish
  <2>3. CASE Settle(n) \/ Break(n)
    <3>1. call[n].op \in DialogOps /\ call[n].current
      BY <2>3 DEF Settle, Break, SettleWith
    <3> QED
      BY <3>1 DEF IInv, AskedHere
  <2> QED
    BY <2>1, <2>2, <2>3, StepOf
<1> QED
  BY <1>1, InvariantHolds, PTL DEF Spec, OwnAnswers
=============================================================================
