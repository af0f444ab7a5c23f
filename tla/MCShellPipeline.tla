--------------------------- MODULE MCShellPipeline ---------------------------
EXTENDS ShellPipeline

\* Lines that move data: x prints, c is cat, t is touch, u is unknown.
MCDataLines == {
  <<"x", " ", ">", "f">>, <<"x", ">", ">", "f">>,
  <<"c", " ", "f", " ", ">", "f">>, <<"c", " ", "f", " ", ">", ">", "f">>,
  <<"x", " ", "|", "c", ">", "f">>, <<"x", " ", "|", "c">>,
  <<"x", " ", "|", "t", " ", "f">>, <<"x", " ", "|", "t", " ", "f", " ", "g">>,
  <<"t", " ", "g", " ", "f">>, <<"t">>, <<"x", " ", "|", "t", " ", "f", ">", ">", "f">>,
  <<"c", " ", "f", " ", "g", " ", "|", "c", " ", ">", "g">>,
  <<"c", " ", "l", "o", "n">>, <<"t", " ", "l", "o", "n">>,
  <<"x", ">", "l", "o", "n">>,
  <<"x", " ", "|", "u", ">", "f">> }

MCChunks == {<<"p">>, <<"q", "p">>}
=============================================================================
