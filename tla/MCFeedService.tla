--------------------------- MODULE MCFeedService ---------------------------
(***************************************************************************)
(* Small instances of the requests together with the job.                  *)
(***************************************************************************)
EXTENDS FeedService, MCDocs

Symmetry == Permutations(FeedIds) \cup Permutations(Requests) \cup Permutations(Workers)
=============================================================================
