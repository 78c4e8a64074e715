------------------------------ MODULE MCClient ------------------------------
(***************************************************************************)
(* Two feeds advertised by the page of s1, the second with no link to its  *)
(* site, and the feed of a website whose page advertises none.  The list   *)
(* has room for one feed, and the registration that commits first was      *)
(* stamped last.                                                           *)
(***************************************************************************)
EXTENDS WebClient, TLC

CONSTANTS u1, u2, u3, s1, s2

MCSiteOf == [u \in Urls |-> CASE u = u1 -> s1 [] u = u2 -> None [] u = u3 -> s2]
MCCandidatesOf == [s \in Sites |-> IF s = s1 THEN <<u1, u2>> ELSE <<>>]
MCLinkless == {u2}
MCStampOf == [id \in Ids |-> MaxId - id]
Symmetric == Permutations(Calls)
=============================================================================
