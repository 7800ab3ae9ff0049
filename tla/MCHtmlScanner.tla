--------------------------- MODULE MCHtmlScanner ---------------------------
(***************************************************************************)
(* A small buffer: a custom tag fits only as the first one, and nothing    *)
(* fits after it, so that up to two open elements are forgotten.  X-LONG   *)
(* is a custom name longer than NameMax, and X is what is left of it;      *)
(* SCRIPTX starts like SCRIPT; HR is void and is not allowed in a          *)
(* paragraph.                                                              *)
(***************************************************************************)
EXTENDS HtmlScanner

MCNames == {"P", "HR", "SCRIPT", "SCRIPTX", "X-LONG", "X"}
MCNameLength ==
  [n \in MCNames |-> CASE n = "X" -> 1 [] n = "X-LONG" -> 2 [] OTHER -> 1]
MCCut == [n \in MCNames |-> IF n = "X-LONG" THEN "X" ELSE n]
MCRawEnd == [t \in {"SCRIPT", "STYLE"} |->
               IF t = "SCRIPT" THEN {"SCRIPT", "SCRIPTX"} ELSE {}]
=============================================================================
