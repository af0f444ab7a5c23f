-------------------------- MODULE MCTextFunctions --------------------------
(***************************************************************************)
(* Integers of 6 bits: 63 is the greatest, 32 the magnitude of the least   *)
(* signed one. Texts of up to four characters include numbers that do not  *)
(* fit, signs and prefixes in every place. A path has room for 5           *)
(* characters. Surfaces are smaller and larger than the terminal of two    *)
(* rows and three columns, and 63 added to a row wraps around.             *)
(***************************************************************************)
EXTENDS TextFunctions

\* Every line of up to seven characters; u is no command.
MCLines == UpTo(7, {"u", " ", "tab", "|", ">"})

MCTexts == UpTo(4, {"0", "3", "6", "9", "x", "-"})
MCValues == 0 .. 63
MCDirectives == {<<"o">>, <<"%", "%">>, <<"%", "s">>, <<"%", "c">>, <<"%", "d">>, <<"%", "u">>,
                 <<"%", "X">>, <<"%", "p">>, <<"%", "q">>, <<"\\", "n">>, <<"\\", "%">>, <<"\\", "\\">>}
MCArguments == {<<"-", "1">>, <<"0", "x", "f">>, <<"q">>}

\* "h" is /home.
MCCwds == {<<"/">>, <<"/", "h">>, <<"/", "h", "/", "d">>}
MCPathTexts == UpTo(6, {"/", "h", "d"})
MCSizes == {<<1, 1>>, <<4, 2>>, <<2, 4>>, <<3, 3>>}
MCDirs == {<<>>, <<<<"h">>>>, <<<<"h">>, <<"d">>>>}
=============================================================================
