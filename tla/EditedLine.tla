----------------------------- MODULE EditedLine -----------------------------
(***************************************************************************)
(* What the line editor of the shell promises, without buffers, offsets or *)
(* screen: the text left and right of the cursor, the lines entered        *)
(* before, newest first, and which of them is being looked at. A line that *)
(* was being written is kept while older lines are looked at, until the    *)
(* text is changed.                                                        *)
(***************************************************************************)
EXTENDS Integers, Sequences, SequencesExt

CONSTANTS
  Chars,     \* the characters that are typed
  Blanks,    \* those that leave a line empty
  Room,      \* the characters a line has room for
  Depth,     \* the lines that are remembered
  Names,     \* what Tab completes to
  Gap        \* the space between words

VARIABLES
  left, right,  \* the line, split at the cursor
  past,         \* the lines entered, newest first
  pick,         \* 0: the line being written; n: a copy of past[n]
  draft,        \* the line being written, while pick is not 0
  command       \* the line that was entered and is being run, or nothing

avars == <<left, right, past, pick, draft, command>>

Line == left \o right
First(s, n) == SubSeq(s, 1, IF Len(s) < n THEN Len(s) ELSE n)

AInit == /\ left = <<>> /\ right = <<>> /\ past = <<>> /\ pick = 0 /\ draft = <<>>
         /\ command = <<>>

\* A line is edited while no command runs.
Edits == command = <<>> /\ UNCHANGED command

\* A change of the text makes it the line being written.
Written == Edits /\ pick' = 0 /\ draft' = <<>> /\ UNCHANGED past

ATypes(c) ==
  /\ Len(Line) < Room
  /\ left' = Append(left, c) /\ UNCHANGED right
  /\ Written

AErases ==
  /\ left # <<>>
  /\ left' = Front(left) /\ UNCHANGED right
  /\ Written

ADeletes ==
  /\ right # <<>>
  /\ right' = Tail(right) /\ UNCHANGED left
  /\ Written

\* The cursor moves by one character, or to an end of the line.
AMoves ==
  \E n \in {Len(left) - 1, Len(left) + 1, 0, Len(Line)} :
    /\ n \in 0 .. Len(Line)
    /\ left' = SubSeq(Line, 1, n)
    /\ right' = SubSeq(Line, n + 1, Len(Line))
    /\ Edits /\ UNCHANGED <<past, pick, draft>>

AShows(text) == left' = First(text, Room) /\ right' = <<>>

AOlder ==
  /\ pick < Len(past)
  /\ pick' = pick + 1
  /\ draft' = IF pick = 0 THEN Line ELSE draft
  /\ AShows(past[pick'])
  /\ Edits /\ UNCHANGED past

ANewer ==
  /\ pick > 0
  /\ pick' = pick - 1
  /\ AShows(IF pick' = 0 THEN draft ELSE past[pick'])
  /\ draft' = IF pick' = 0 THEN <<>> ELSE draft
  /\ Edits /\ UNCHANGED past

\* What Tab adds behind the line: as much as the names that begin with the
\* line have in common, and a space when that is the only one of them.
\* Lines with a space in them are not completed.
Completion(line) ==
  LET match == {n \in Names : IsPrefix(line, n)}
      grown == First(LongestCommonPrefix(match), Room)
      done == match = {grown} /\ Len(grown) < Room
      full == IF done THEN Append(grown, Gap) ELSE grown
  IN  IF line = <<>> \/ Gap \in Range(line) \/ match = {} THEN <<>>
      ELSE SubSeq(full, Len(line) + 1, Len(full))

\* The text is completed behind the cursor: the cursor does not move.
ACompletes ==
  /\ right' = IF right = <<>> THEN Completion(left) ELSE right
  /\ UNCHANGED left
  /\ Written

\* The line is run. One with something in it is remembered, before all others.
AEnters ==
  /\ command = <<>> /\ command' = Line
  /\ past' = IF Range(Line) \subseteq Blanks THEN past
             ELSE First(<<Line>> \o past, Depth)
  /\ left' = <<>> /\ right' = <<>> /\ pick' = 0 /\ draft' = <<>>

\* The line is given up: nothing is run and nothing remembered.
ACancels ==
  /\ left' = <<>> /\ right' = <<>> /\ pick' = 0 /\ draft' = <<>>
  /\ Edits /\ UNCHANGED past

\* The command is done with.
AFinishes == command' = <<>> /\ UNCHANGED <<left, right, past, pick, draft>>

ANext == \/ \E c \in Chars : ATypes(c)
         \/ AErases \/ ADeletes \/ AMoves
         \/ AOlder \/ ANewer \/ ACompletes
         \/ AEnters \/ ACancels \/ AFinishes

ASpec == AInit /\ [][ANext]_avars
=============================================================================
