------------------------------ MODULE MCPager ------------------------------
(***************************************************************************)
(* Three rows of two columns. Every text of up to four characters, and     *)
(* texts of more lines than a page has, with a line wider than the screen, *)
(* an empty line and a newline at the end.                                 *)
(***************************************************************************)
EXTENDS Pager

MCDocuments ==
  UNION {[1 .. n -> {"x", Newline, Return}] : n \in 0 .. 4} \cup
  {<<"1", Newline, "2", Newline, "3", "y", "z", Newline, "4", Newline, Newline, "6">>,
   <<"1", Newline, "2", "y", Newline, "3", Return, Newline, "4", Newline>>}
MCKeys == {" ", "b", "q", "u", Up, Down, CtrlC}
=============================================================================
