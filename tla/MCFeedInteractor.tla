-------------------------- MODULE MCFeedInteractor --------------------------
(***************************************************************************)
(* Small instances of the requests on their own.                           *)
(***************************************************************************)
EXTENDS FeedInteractor, MCDocs

Symmetry == Permutations(FeedIds) \cup Permutations(Requests)
=============================================================================
