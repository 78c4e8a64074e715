---------------------------- MODULE MCDiscovery ----------------------------
(***************************************************************************)
(* Pages of up to four tokens with links of every kind the scanner tells   *)
(* apart.                                                                  *)
(***************************************************************************)
EXTENDS Discovery

Link(rel, type, href) == [kind |-> "link", rel |-> rel, type |-> type, href |-> href]

MCLinks ==
    { Link({"alternate"}, "rss", "https"),
      Link({"alternate", "icon"}, "atom", "relative"),
      Link({"alternate", "stylesheet"}, "rss", "https"),
      Link({"alternate"}, "html", "https"),
      Link({"alternate"}, "json", "other"),
      Link({"alternate"}, "rss", "invalid") }
=============================================================================
