----------------------------- MODULE ShellParse -----------------------------
(***************************************************************************)
(* How the shell takes a line apart (kernel/shell/shell.c): parse_pipeline *)
(* cuts it at the pipes, parse_redirection_from_segment takes ">" or ">>"  *)
(* and a path off the last segment, tokenize cuts a segment into words.    *)
(*                                                                         *)
(* A line is a sequence of characters. The code works in place: it ends a  *)
(* segment by storing a NUL in the line, and a NUL ends the line. Positions*)
(* run from 1 to Len + 1, the last standing for the NUL at the end.        *)
(***************************************************************************)
EXTENDS Integers, Sequences, FiniteSets

CONSTANTS MAX_PIPE_SEGMENTS, MAX_ARGS

ASSUME ParseAssumption == MAX_PIPE_SEGMENTS \in Nat \ {0} /\ MAX_ARGS \in Nat \ {0}

Blank == {" ", "tab"}
Special == Blank \cup {"|", ">"}

\* The first position from p on whose character is in S, or is not.
Until(text, p, S) ==
  CHOOSE q \in p .. Len(text) + 1 :
    /\ q <= Len(text) => text[q] \in S
    /\ \A r \in p .. q - 1 : text[r] \notin S
Past(text, p, S) ==
  CHOOSE q \in p .. Len(text) + 1 :
    /\ q <= Len(text) => text[q] \notin S
    /\ \A r \in p .. q - 1 : text[r] \in S

\* The end (exclusive) of text[s .. p - 1] without its trailing blanks.
TrimmedEnd(text, s, p) ==
  CHOOSE e \in s .. p : /\ e > s => text[e - 1] \notin Blank
                        /\ \A r \in e .. p - 1 : text[r] \in Blank

trim_trailing_whitespace(text) == SubSeq(text, 1, TrimmedEnd(text, 1, Len(text) + 1) - 1)

\* Mutation: the blanks before a pipe stay in the segment, unless there is
\* nothing else.
ParseUntrimmed(line) ==
  LET from[p \in 1 .. Len(line) + 1] ==
        LET s == Past(line, p, {" "})
            q == Until(line, s, {"|"})
            e == TrimmedEnd(line, s, q)
        IN  IF s > Len(line) THEN [ok |-> TRUE, segs |-> <<>>]
            ELSE IF e = s \/ q = Len(line) THEN [ok |-> FALSE, segs |-> <<>>]
            ELSE IF q > Len(line) THEN [ok |-> TRUE, segs |-> <<SubSeq(line, s, q - 1)>>]
            ELSE [ok |-> from[q + 1].ok, segs |-> <<SubSeq(line, s, q - 1)>> \o from[q + 1].segs]
      all == from[1]
  IN  [ok |-> all.ok /\ Len(all.segs) \in 1 .. MAX_PIPE_SEGMENTS, segs |-> all.segs]

\* The NUL that ends a segment goes where its trailing blanks begin. With no
\* blank before the pipe it replaces the pipe, and the loop takes it for the
\* end of the line.
parse_pipeline(line) ==
  LET from[p \in 1 .. Len(line) + 1] ==
        LET s == Past(line, p, {" "})
            q == Until(line, s, {"|"})
            e == TrimmedEnd(line, s, q)
            seg == <<SubSeq(line, s, e - 1)>>
        IN  IF s > Len(line) THEN [ok |-> TRUE, segs |-> <<>>]
            ELSE IF e = s THEN [ok |-> FALSE, segs |-> <<>>]
            ELSE IF e = q THEN [ok |-> TRUE, segs |-> seg]
            ELSE IF q = Len(line) THEN [ok |-> FALSE, segs |-> <<>>]
            ELSE IF q > Len(line) THEN [ok |-> TRUE, segs |-> seg]
            ELSE [ok |-> from[q + 1].ok, segs |-> seg \o from[q + 1].segs]
      all == from[1]
  IN  [ok |-> all.ok /\ Len(all.segs) \in 1 .. MAX_PIPE_SEGMENTS, segs |-> all.segs]

NoRedirection == [active |-> FALSE, append |-> FALSE, path |-> <<>>]

\* The first ">" is the redirection; the path goes up to the next blank, and
\* nothing may follow it. What is left must be a command.
parse_redirection_from_segment(segment) ==
  LET n == Len(segment)
      gt == Until(segment, 1, {">"})
      append == gt < n /\ segment[gt + 1] = ">"
      s == Past(segment, IF append THEN gt + 2 ELSE gt + 1, Blank)
      q == Until(segment, s, Blank)
      command == trim_trailing_whitespace(SubSeq(segment, 1, gt - 1))
      redir == [active |-> TRUE, append |-> append, path |-> SubSeq(segment, s, q - 1)]
  IN  IF gt > n
      THEN [ok |-> command # <<>>, command |-> command, redir |-> NoRedirection]
      ELSE [ok |-> s <= n /\ Past(segment, q, Blank) > n /\ command # <<>>,
            command |-> command, redir |-> redir]

\* shell_run: what a line is parsed into, if it can be.
Parsed(line) ==
  LET p == parse_pipeline(line)
      n == Len(p.segs)
      r == parse_redirection_from_segment(p.segs[n])
      runs == p.ok /\ r.ok
  IN  [runs |-> runs,
       segments |-> IF runs THEN [p.segs EXCEPT ![n] = r.command] ELSE <<>>,
       redir |-> IF runs THEN r.redir ELSE NoRedirection]

\* The words between spaces; those after the first MAX_ARGS are dropped.
tokenize(text) ==
  LET starts == {p \in 1 .. Len(text) : text[p] # " " /\ (p = 1 \/ text[p - 1] = " ")}
      nth(k) == CHOOSE p \in starts : Cardinality({r \in starts : r <= p}) = k
      argc == IF Cardinality(starts) > MAX_ARGS THEN MAX_ARGS ELSE Cardinality(starts)
  IN  [k \in 1 .. argc |-> SubSeq(text, nth(k), Until(text, nth(k), {" "}) - 1)]
-----------------------------------------------------------------------------
(* What is in a line, by definition.                                       *)

Occurs(x, s) == \E n \in 1 .. Len(s) : s[n] = x
Pipes(l) == {n \in 1 .. Len(l) : l[n] = "|"}

\* The pieces of a line between its pipes, without blanks around them, by
\* their definition: piece k is what lies between the pipes number k - 1 and k.
Piece(l, k) ==
  LET before_(n) == Cardinality({m \in Pipes(l) : m < n})
      mine == {n \in 1 .. Len(l) : n \notin Pipes(l) /\ before_(n) = k - 1}
      solid == {n \in mine : l[n] \notin Blank}
      first == CHOOSE n \in solid : \A m \in solid : n <= m
      last == CHOOSE n \in solid : \A m \in solid : n >= m
  IN  IF solid = {} THEN <<>> ELSE SubSeq(l, first, last)
Pieces(l) == [k \in 1 .. Cardinality(Pipes(l)) + 1 |-> Piece(l, k)]
=============================================================================
