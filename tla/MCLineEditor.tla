---------------------------- MODULE MCLineEditor ----------------------------
(***************************************************************************)
(* Two rows of five columns and a prompt of one: a line of four characters *)
(* is one too wide. The names share a first letter with one another, one   *)
(* of them is a prefix of another and one does not fit the buffer.         *)
(***************************************************************************)
EXTENDS LineEditor

MCPrompt == <<">">>
MCCommands == << <<"a", "b">>, <<"a">>, <<"b", "a", "a", "a", "a">> >>
MCOutputs == {<<"x">>, <<"x", "return", "y", "backspace", Newline>>}
=============================================================================
