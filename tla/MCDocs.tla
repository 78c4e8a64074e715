------------------------------- MODULE MCDocs -------------------------------
(***************************************************************************)
(* The publishers of the small instances: feed URLs whose documents name   *)
(* the same website or different ones, with overlapping items, with and    *)
(* without validators.                                                     *)
(***************************************************************************)
EXTENDS Gateway, TLC

CONSTANTS u1, u2, s1, s2, e1, e2, d1, d2, d3

\* d1 and d2 are two issues of one site's feed; d3 names the other site, has
\* no items and no validator.  An instance uses some of them.
MCItemsOf == [d \in Docs |-> (d1 :> {e1} @@ d2 :> {e1, e2} @@ d3 :> {})[d]]
MCSiteOf == [d \in Docs |-> IF d = d3 THEN s2 ELSE s1]
MCTagged == Docs \ {d3}
\* The page of s1 offers both feeds; that of s2 offers none.
InUse(u) == u \in Urls
MCCandidatesOf == [s \in Sites |-> IF s = s1 THEN SelectSeq(<<u1, u2>>, InUse) ELSE <<>>]
\* The other site, where there is one.
MCTwin == [s \in Sites |-> CHOOSE t \in Sites : t # s \/ Sites = {s}]
=============================================================================
