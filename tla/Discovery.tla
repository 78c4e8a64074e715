----------------------------- MODULE Discovery -----------------------------
(***************************************************************************)
(* DiscoveryGateway.DiscoverFeedURLs: one pass over the tokens of a        *)
(* website's page, as they arrive, that collects the feeds its head        *)
(* advertises.                                                             *)
(*                                                                         *)
(* A token is a link element, the end of the head, the start of the body   *)
(* or something else.  The page ends for the scanner where it ends, where  *)
(* reading it fails, or after maxDiscoveryHTMLBytes, counted in tokens.    *)
(***************************************************************************)
EXTENDS Integers, FiniteSets, SequencesExt

CONSTANTS
    Links,                  \* link elements a page may have
    MaxTokens,              \* length of the pages considered
    maxDiscoveryHTMLBytes   \* the part of a page that is read

\* rel and type decide whether a link names a feed, href and the final URL of
\* the page where it is; an href that url.Parse rejects is "invalid".
Schemes == {"http", "https", "other"}
LinkElement == [ kind : {"link"},
                 rel  : SUBSET {"alternate", "stylesheet", "icon"},
                 type : {"rss", "atom", "json", "html"},
                 href : {"", "invalid", "relative"} \cup Schemes ]

ASSUME DiscoveryAssumption ==
    /\ Links \subseteq LinkElement
    /\ MaxTokens \in Nat
    /\ maxDiscoveryHTMLBytes \in Nat

Stops == [kind : {"headEnd", "bodyStart"}]
Tokens == Links \cup Stops \cup [kind : {"text"}]

\* status is that of the reply, "none" when there is no reply, "unparsed" when
\* no request is made because the URL does not parse.
Reply == [ status : {"unparsed", "none", "ok", "error"},
           html   : BOOLEAN,
           page   : BoundedSeq(Tokens, MaxTokens),
           broken : BOOLEAN ]      \* reading fails after the last token

VARIABLES reply, pc, pos, candidates, outcome

vars == <<reply, pc, pos, candidates, outcome>>

Outcomes == {"invalid", "unavailable", "not_found", "found"}

TypeOK ==
    /\ reply \in Reply
    /\ pc \in {"do", "headers", "scan", "classify", "done"}
    /\ pos \in 0..Len(reply.page)
    /\ candidates \in Seq(Links)
    /\ outcome \in Outcomes \cup {"pending"}

Init ==
    /\ reply \in Reply
    /\ pc = "do"
    /\ pos = 0
    /\ candidates = <<>>
    /\ outcome = "pending"

Classify(o) == pc' = "done" /\ outcome' = o

Do ==
    /\ pc = "do"
    /\ CASE reply.status = "unparsed" -> Classify("invalid")
         [] reply.status = "none" -> Classify("unavailable")
         [] OTHER -> pc' = "headers" /\ UNCHANGED outcome
    /\ UNCHANGED <<reply, pos, candidates>>

CheckHeaders ==
    /\ pc = "headers"
    /\ CASE reply.status # "ok" -> Classify("unavailable")
         [] reply.status = "ok" /\ ~reply.html -> Classify("not_found")
         [] OTHER -> pc' = "scan" /\ UNCHANGED outcome
    /\ UNCHANGED <<reply, pos, candidates>>

-----------------------------------------------------------------------------
(* scanFeedLinks *)

\* Mutant: rel="alternate stylesheet" names a feed.
AnyAlternate(link) == "alternate" \in link.rel /\ link.type # "html"

feedMIMEType(link) ==
    /\ "alternate" \in link.rel
    /\ "stylesheet" \notin link.rel
    /\ link.type # "html"

\* The page's own URL is http or https, and so is a relative reference.
feedCandidateFromLink(link) ==
    feedMIMEType(link) /\ link.href \in {"relative", "http", "https"}

AtEnd == pos = Len(reply.page) \/ pos = maxDiscoveryHTMLBytes

\* Mutant: the name of the element is not looked at.
AnyElement ==
    /\ pc = "scan" /\ ~AtEnd
    /\ candidates' = Append(candidates, reply.page[pos + 1])
    /\ pos' = pos + 1
    /\ UNCHANGED <<reply, pc, outcome>>

ScanToken ==
    /\ pc = "scan" /\ ~AtEnd
    /\ LET token == reply.page[pos + 1] IN
         IF token \in Stops
           THEN pc' = "classify" /\ UNCHANGED candidates
           ELSE /\ pc' = "scan"
                /\ candidates' = IF token \in Links /\ feedCandidateFromLink(token)
                                   THEN Append(candidates, token) ELSE candidates
    /\ pos' = pos + 1
    /\ UNCHANGED <<reply, outcome>>

\* Mutant: a failed read ends the scan like the end of the page.
IgnoreError ==
    /\ pc = "scan" /\ AtEnd
    /\ pc' = "classify"
    /\ UNCHANGED <<reply, pos, candidates, outcome>>

\* The limit reads as the end of the page, before any failure behind it.
ScanEnds ==
    /\ pc = "scan" /\ AtEnd
    /\ IF reply.broken /\ pos < maxDiscoveryHTMLBytes
         THEN Classify("unavailable")
         ELSE pc' = "classify" /\ UNCHANGED outcome
    /\ UNCHANGED <<reply, pos, candidates>>

ClassifyCandidates ==
    /\ pc = "classify"
    /\ Classify(IF candidates = <<>> THEN "not_found" ELSE "found")
    /\ UNCHANGED <<reply, pos, candidates>>

Next ==
    \/ Do \/ CheckHeaders \/ ScanToken \/ ScanEnds \/ ClassifyCandidates
    \/ pc = "done" /\ UNCHANGED vars

Spec == Init /\ [][Next]_vars

-----------------------------------------------------------------------------
(* What discovery promises, of the page as a whole. *)

\* The head: what the scanner may read before the first stop.
InHead(i) ==
    /\ i \in DOMAIN reply.page
    /\ i <= maxDiscoveryHTMLBytes
    /\ \A j \in 1..i : reply.page[j] \notin Stops

\* The head was seen in full: it is closed, or the page ends, or it is longer
\* than what is read.
HeadSeen ==
    \/ \E i \in DOMAIN reply.page : i <= maxDiscoveryHTMLBytes /\ reply.page[i] \in Stops
    \/ ~reply.broken
    \/ Len(reply.page) >= maxDiscoveryHTMLBytes

Advertised(link) ==
    /\ link \in Links
    /\ "alternate" \in link.rel /\ "stylesheet" \notin link.rel
    /\ link.type \in {"rss", "atom", "json"}
    /\ link.href \in {"relative", "http", "https"}

\* The positions of the feeds the head advertises up to position n.
HeadFeeds(n) == {i \in 1..n : InHead(i) /\ Advertised(reply.page[i])}

\* seq lists what the page has at the positions in S, in the order of the page.
Lists(seq, S) ==
    /\ Len(seq) = Cardinality(S)
    /\ \A i \in S : seq[Cardinality({j \in S : j <= i})] = reply.page[i]

\* The candidates are the feeds the head advertises, all of them and in the
\* order of the page: the first, which is registered, is the page's own choice.
PageOrder ==
    /\ pc \in {"scan", "classify"} => Lists(candidates, HeadFeeds(pos))
    /\ outcome = "found" => Lists(candidates, HeadFeeds(Len(reply.page)))

\* "There is no feed here" is only said of a page whose head has been read; what
\* could not be read is unavailable, and may be tried again, though
\* links were seen before the reading failed.  Neither is said of a text that is no
\* URL.
NotFoundIsSure ==
    /\ outcome = "not_found" =>
         reply.status = "ok" /\ (reply.html => HeadSeen /\ HeadFeeds(Len(reply.page)) = {})
    /\ outcome = "unavailable" =>
         reply.status \in {"none", "error"} \/ (reply.status = "ok" /\ reply.html /\ ~HeadSeen)

-----------------------------------------------------------------------------
(* The inductive invariant behind them: how much of the head each step has *)
(* behind it.                                                              *)

\* The scanner is inside the head, and has passed no stop.
Scanning ==
    /\ pos <= maxDiscoveryHTMLBytes
    /\ \A i \in 1..pos : reply.page[i] \notin Stops

\* The scanner has left the head behind it.
HeadPassed ==
    /\ HeadSeen
    /\ HeadFeeds(Len(reply.page)) = HeadFeeds(pos)

Progress ==
    /\ pc \in {"do", "headers"} => pos = 0 /\ candidates = <<>>
    /\ pc # "done" => outcome = "pending"
    /\ pc = "headers" => reply.status \in {"ok", "error"}
    /\ pc \in {"scan", "classify"} => reply.status = "ok" /\ reply.html
    /\ pc = "scan" => Scanning
    /\ pc = "classify" => HeadPassed

IInv == TypeOK /\ Progress /\ PageOrder /\ NotFoundIsSure
=============================================================================
