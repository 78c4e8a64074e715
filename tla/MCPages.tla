------------------------------ MODULE MCPages ------------------------------
(***************************************************************************)
(* A request without a limit, one row to a page, and sizes that are        *)
(* refused on both sides.                                                  *)
(***************************************************************************)
EXTENDS Pagination

MCLimits == {-1, 0, 1, 3}
=============================================================================
