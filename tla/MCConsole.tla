------------------------------ MODULE MCConsole ------------------------------
(***************************************************************************)
(* A keyboard with the keys that matter to the races: a letter, Enter, and *)
(* with a prefix a modifier and the arrow whose code is that of the 8 of   *)
(* the keypad, which it is taken for when its prefix is lost.              *)
(***************************************************************************)
EXTENDS Console

RightCtrl == [code |-> "ctrl", ext |-> TRUE]
Letter == [code |-> "letter", ext |-> FALSE]
Return == [code |-> "enter", ext |-> FALSE]
Up == [code |-> "up", ext |-> TRUE]

MCKeys == {RightCtrl, Letter, Return, Up}
MCTypingKeys == {Letter, Return}
=============================================================================
