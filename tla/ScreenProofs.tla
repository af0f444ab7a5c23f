---------------------------- MODULE ScreenProofs ----------------------------
(***************************************************************************)
(* The two programs that draw on the terminal, for every size of the       *)
(* screen: the line editor and the pager.                                  *)
(*   The editor, for every size of the buffer and of the history, every    *)
(* prompt, every list of commands and every sequence of keys. The screen   *)
(* shows the cells and one cursor block (ScreenFaithful); the row of the   *)
(* cursor shows the prompt and the line (LineShown). And without the       *)
(* screen: the array, the ring and the table of commands do what           *)
(* EditedLine says of texts and lists (ImplementsEditedLine).              *)
(*   The pager, for every text, every size of the chunks, and every        *)
(* sequence of keys and interrupts: less frees what it allocates once on   *)
(* every path (BlocksBalanced), stays within the pages of the text         *)
(* (PagerTypeOK) and finds exactly its lines (LinesExact). And, if no text *)
(* has a backspace in it and the screen has two rows, it shows the lines   *)
(* of the page in order above the status line (PageConsecutive).           *)
(***************************************************************************)
EXTENDS LineEditor, Pager, TerminalProofs

-----------------------------------------------------------------------------
(* The line editor: lists and frames.                                      *)

\* The names that begin with a line are written one by one.
Lines(t, names, line) == FoldLeft(LAMBDA s, name : ListName(s, name, line), t, names)
Listing(g, line, t, names, n) ==
  g = [s \in SUBSET (1 .. n) |-> IF s = {} THEN t
                                 ELSE ListName(g[s \ {Max(s)}], names[Max(s)], line)]
Begun(names, line) == {name \in Range(names) : command_matches_prefix(name, line)}

\* What the listing leaves is where the names lead, one by one.
LEMMA ListSteps ==
  ASSUME NEW t, NEW line, NEW S, NEW names \in Seq(S)
  PROVE  \E w : /\ Steps(w, "name", Begun(names, line), t, names, Len(names))
               /\ Lines(t, names, line) = w[Len(names)]
<1> DEFINE n == Len(names)
           it == CHOOSE g : Listing(g, line, t, names, n)
           arg == Begun(names, line)
<1>1. n \in Nat /\ DOMAIN names = 1 .. n
  OBVIOUS
<1>2. Lines(t, names, line) = it[1 .. n]
  BY <1>1 DEF Lines, FoldLeft, MapThenFoldSet, Listing
<1>3. \A u : \A x \in Range(names) : Step("name", arg, u, x) = ListName(u, x, line)
  BY DEF Step, ListName, Begun
<1> HIDE DEF it, arg
<1>4. \A g : Listing(g, line, t, names, n) <=> Doing(g, "name", arg, t, names, n)
  <2> SUFFICES ASSUME NEW g PROVE Listing(g, line, t, names, n) <=> Doing(g, "name", arg, t, names, n)
    OBVIOUS
  <2>1. ASSUME NEW s \in SUBSET (1 .. n), s # {}
        PROVE  Step("name", arg, g[s \ {Max(s)}], names[Max(s)]) = ListName(g[s \ {Max(s)}], names[Max(s)], line)
    <3>1. s \subseteq 0 .. n
      OBVIOUS
    <3>2. Max(s) \in s
      BY <1>1, <2>1, <3>1, GreatestNumber
    <3>3. names[Max(s)] \in Range(names)
      BY <1>1, <3>2 DEF Range
    <3> QED BY <1>3, <3>3
  <2>2. [s \in SUBSET (1 .. n) |-> IF s = {} THEN t ELSE ListName(g[s \ {Max(s)}], names[Max(s)], line)]
          = [s \in SUBSET (1 .. n) |-> IF s = {} THEN t ELSE Step("name", arg, g[s \ {Max(s)}], names[Max(s)])]
    BY <2>1
  <2> QED BY <2>2 DEF Listing, Doing
<1>5. Listing(it, line, t, names, n)
  BY <1>1, <1>4, DoingExists DEF it
<1> QED BY <1>1, <1>2, <1>4, <1>5, DoingSteps DEF arg

\* A frame of noise is written cell by cell.
Frame(t, cells) == FoldLeft(LAMBDA s, rc : tty_write_cell(s, rc[1], rc[2], "9", NoiseColor), t, cells)
Filling(g, t, cells, n) ==
  g = [s \in SUBSET (1 .. n) |->
         IF s = {} THEN t
         ELSE tty_write_cell(g[s \ {Max(s)}], cells[Max(s)][1], cells[Max(s)][2], "9", NoiseColor)]

\* What a frame leaves is where its cells lead, one by one.
LEMMA FrameSteps ==
  ASSUME NEW t, NEW S, NEW cells \in Seq(S)
  PROVE  \E w : Steps(w, "cell", <<"9", NoiseColor>>, t, cells, Len(cells)) /\ Frame(t, cells) = w[Len(cells)]
<1> DEFINE n == Len(cells)
           it == CHOOSE g : Filling(g, t, cells, n)
<1>1. n \in Nat /\ DOMAIN cells = 1 .. n
  OBVIOUS
<1>2. Frame(t, cells) = it[1 .. n]
  BY <1>1 DEF Frame, FoldLeft, MapThenFoldSet, Filling
<1>3. \A s, x : Step("cell", <<"9", NoiseColor>>, s, x) = tty_write_cell(s, x[1], x[2], "9", NoiseColor)
  BY DEF Step
<1>4. \A g : Filling(g, t, cells, n) <=> Doing(g, "cell", <<"9", NoiseColor>>, t, cells, n)
  <2> SUFFICES ASSUME NEW g PROVE Filling(g, t, cells, n) <=> Doing(g, "cell", <<"9", NoiseColor>>, t, cells, n)
    OBVIOUS
  <2>1. \A s : Step("cell", <<"9", NoiseColor>>, g[s \ {Max(s)}], cells[Max(s)])
                = tty_write_cell(g[s \ {Max(s)}], cells[Max(s)][1], cells[Max(s)][2], "9", NoiseColor)
    BY <1>3
  <2> QED BY <2>1 DEF Filling, Doing
<1>5. Filling(it, t, cells, n)
  BY <1>1, <1>4, DoingExists
<1> HIDE DEF it
<1> QED BY <1>1, <1>2, <1>4, <1>5, DoingSteps

(* The line in the buffer.                                                 *)

LineChars == Letters \cup (UNION {Range(name) : name \in Range(Commands)}) \cup {Space}
Bytes == LineChars \cup {NUL, Junk}
TextLines == {s \in Seq(LineChars) : Len(s) <= CAPACITY - 1}

\* The buffer b holds a line of n characters.
Holds(b, n) == /\ b \in [Index -> Bytes] /\ n \in 0 .. CAPACITY - 1
               /\ \A i \in 0 .. n - 1 : b[i] \in LineChars

\* A sequence is one of the characters in it.
LEMMA TextRange ==
  ASSUME NEW S, NEW s \in Seq(S), NEW R, R = Range(s)
  PROVE  s \in Seq(R) /\ R \subseteq S /\ DOMAIN s = 1 .. Len(s) /\ Len(s) \in Nat
<1>1. DOMAIN s = 1 .. Len(s) /\ Len(s) \in Nat /\ \A i \in 1 .. Len(s) : s[i] \in S
  OBVIOUS
<1>2. R = {s[i] : i \in 1 .. Len(s)}
  BY <1>1 DEF Range
<1>3. R \subseteq S
  BY <1>1, <1>2
<1>4. \A i \in 1 .. Len(s) : s[i] \in R
  BY <1>2
<1>5. PICK n \in Nat : n = Len(s)
  BY <1>1
<1>6. s \in [1 .. n -> R]
  BY <1>1, <1>4, <1>5
<1>7. \A f \in [1 .. n -> R] : f \in Seq(R)
  OBVIOUS
<1> QED BY <1>1, <1>3, <1>6, <1>7

\* The texts of the editor are made of characters.
LEMMA Texts ==
  /\ Letters \subseteq Characters
  /\ Prompt \in Seq(Range(Prompt)) /\ Range(Prompt) \subseteq Characters
  /\ Commands \in Seq(Range(Commands)) /\ DOMAIN Commands = 1 .. Len(Commands) /\ Len(Commands) \in Nat
  /\ \A text \in Outputs \cup Range(Commands) : text \in Seq(Range(text)) /\ Range(text) \subseteq Characters
<1>1. Letters \subseteq Characters
  BY TextAssumption, SpaceIsCharacter
<1>2. Prompt \in Seq(Range(Prompt)) /\ Range(Prompt) \subseteq Characters
  <2>1. PICK R : R = Range(Prompt)
    OBVIOUS
  <2>2. Prompt \in Seq(STRING)
    BY TextAssumption
  <2> QED BY <2>1, <2>2, SpaceIsCharacter, TextRange
<1>3. /\ Commands \in Seq(Range(Commands)) /\ Range(Commands) \subseteq Seq(STRING)
      /\ DOMAIN Commands = 1 .. Len(Commands) /\ Len(Commands) \in Nat
  <2>1. PICK R : R = Range(Commands)
    OBVIOUS
  <2>2. PICK T : T = Seq(STRING)
    OBVIOUS
  <2>3. Commands \in Seq(T)
    BY <2>2, TextAssumption
  <2> QED BY <2>1, <2>2, <2>3, TextRange
<1>4. ASSUME NEW text \in Outputs \cup Range(Commands)
      PROVE  text \in Seq(Range(text)) /\ Range(text) \subseteq Characters
  <2>1. text \in Seq(STRING)
    BY <1>3, TextAssumption
  <2>2. PICK R : R = Range(text)
    OBVIOUS
  <2> QED BY <2>1, <2>2, SpaceIsCharacter, TextRange
<1> QED BY <1>1, <1>2, <1>3, <1>4

\* The characters of a line are drawn as they are.
LEMMA LineCharsPlain ==
  /\ LineChars \subseteq Characters
  /\ \A ch \in LineChars : Plain(ch) /\ ch \notin {NUL, Junk}
  /\ \A i \in 1 .. Len(Prompt) : Plain(Prompt[i])
  /\ Prompt \in Seq(Characters) /\ Len(Prompt) \in Nat
<1>1. LineChars \subseteq Characters
  BY SpaceIsCharacter, Texts DEF LineChars
<1>2. ASSUME NEW ch \in LineChars PROVE ch \notin Controls
  <2>1. CASE ch \in Letters
    BY <2>1, TextAssumption
  <2>2. CASE ch = Space
    BY <2>2 DEF Space, Controls, Newline, Return, Backspace, NUL, Junk
  <2>3. CASE ch \in UNION {Range(name) : name \in Range(Commands)}
    BY <2>3, TextAssumption
  <2> QED BY <2>1, <2>2, <2>3 DEF LineChars
<1>3. \A ch \in LineChars : Plain(ch) /\ ch \notin {NUL, Junk}
  BY <1>1, <1>2 DEF Plain, Controls
<1>4. Prompt \in Seq(Range(Prompt)) /\ Range(Prompt) \subseteq Characters
  BY Texts
<1>5. Prompt \in Seq(Characters) /\ Len(Prompt) \in Nat
  BY <1>4
<1>6. ASSUME NEW i \in 1 .. Len(Prompt) PROVE Plain(Prompt[i])
  <2>1. Prompt[i] \in Range(Prompt)
    BY <1>4
  <2>2. Prompt[i] \notin Controls
    BY <2>1, TextAssumption
  <2> QED BY <1>4, <2>1, <2>2 DEF Plain, Controls
<1> QED BY <1>1, <1>3, <1>5, <1>6

\* The text of a buffer.
LEMMA TextOf ==
  ASSUME NEW b, NEW n, Holds(b, n)
  PROVE  /\ Text(b, n) \in Seq(LineChars) /\ Len(Text(b, n)) = n /\ n \in Nat
         /\ Text(b, n) \in TextLines
         /\ \A i \in 1 .. n : Text(b, n)[i] = b[i - 1] /\ b[i - 1] \in LineChars
<1>1. n \in Nat /\ n <= CAPACITY - 1
  BY EditorAssumption DEF Holds
<1>2. ASSUME NEW i \in 1 .. n PROVE Text(b, n)[i] = b[i - 1] /\ b[i - 1] \in LineChars
  <2>1. i - 1 \in 0 .. n - 1
    BY <1>1
  <2> QED BY <2>1 DEF Holds, Text
<1>3. Text(b, n) \in [1 .. n -> LineChars]
  BY <1>2 DEF Text
<1>4. Text(b, n) \in Seq(LineChars) /\ Len(Text(b, n)) = n
  BY <1>1, <1>3
<1> QED BY <1>1, <1>2, <1>4 DEF TextLines

\* Drawing the prompt and the line again.
Prompted(s, b, n) ==
  /\ s \in Seq(Characters) /\ Len(s) = Len(Prompt) + n
  /\ \A i \in 1 .. Len(s) : Plain(s[i])
  /\ \A i \in 1 .. Len(Prompt) : s[i] = Prompt[i]
  /\ \A i \in 0 .. n - 1 : s[Len(Prompt) + 1 + i] = b[i]

\* The text that is drawn is the prompt with the characters of the buffer.
LEMMA PromptText ==
  ASSUME NEW b, NEW n, Holds(b, n), NEW s, s = Prompt \o Text(b, n)
  PROVE  Prompted(s, b, n)
<1>1. Text(b, n) \in Seq(Characters)
  BY TextOf, LineCharsPlain, SeqMore
<1>2. Prompt \in Seq(Characters) /\ Len(Prompt) \in Nat
  BY LineCharsPlain
<1>3. Len(Text(b, n)) = n /\ n \in Nat
  BY TextOf
<1>4. s \in Seq(Characters) /\ Len(s) = Len(Prompt) + n
  BY <1>1, <1>2, <1>3, ConcatProperties
<1>5. \A i \in 1 .. Len(Prompt) : s[i] = Prompt[i]
  BY <1>1, <1>2, <1>3
<1>6. ASSUME NEW i \in 0 .. n - 1
      PROVE  s[Len(Prompt) + 1 + i] = b[i] /\ b[i] \in LineChars
  <2>1. i + 1 \in 1 .. n /\ i + 1 - 1 = i
    BY <1>3
  <2>2. Text(b, n)[i + 1] = b[i] /\ b[i] \in LineChars
    BY <2>1, TextOf
  <2>3. s[Len(Prompt) + 1 + i] = Text(b, n)[i + 1]
    BY <1>1, <1>2, <1>3, <2>1
  <2> QED BY <2>2, <2>3
<1>7. ASSUME NEW i \in 1 .. Len(s) PROVE Plain(s[i])
  <2>1. CASE i <= Len(Prompt)
    BY <1>2, <1>4, <1>5, <2>1, LineCharsPlain
  <2>2. CASE ~(i <= Len(Prompt))
    <3>1. i - Len(Prompt) - 1 \in 0 .. n - 1 /\ Len(Prompt) + 1 + (i - Len(Prompt) - 1) = i
      BY <1>2, <1>3, <1>4, <2>2
    <3>2. s[i] \in LineChars
      BY <1>6, <3>1
    <3> QED BY <3>2, LineCharsPlain
  <2> QED BY <2>1, <2>2
<1> QED BY <1>4, <1>5, <1>6, <1>7 DEF Prompted

\* A function on the first numbers is a sequence.
LEMMA RangeIsSeq ==
  ASSUME NEW S, NEW n \in Nat, NEW s \in [1 .. n -> S]
  PROVE  s \in Seq(S) /\ Len(s) = n
  OBVIOUS

\* Spaces are written over what a longer line left.
LEMMA SpacesText ==
  ASSUME NEW n \in Nat, NEW p \in Nat, NEW s, s = [i \in 1 .. p - n |-> Space]
  PROVE  /\ s \in Seq(Characters) /\ Len(s) = IF p > n THEN p - n ELSE 0
         /\ \A i \in 1 .. Len(s) : s[i] = Space /\ Plain(s[i])
<1>1. Space \in Characters /\ Plain(Space)
  BY LineCharsPlain DEF LineChars, Plain
<1>2. CASE p > n
  <2>1. p - n \in Nat
    BY <1>2
  <2>2. s \in [1 .. p - n -> Characters]
    BY <1>1
  <2>3. s \in Seq(Characters) /\ Len(s) = p - n
    BY <2>1, <2>2
  <2> QED BY <1>1, <1>2, <2>1, <2>3
<1>3. CASE ~(p > n)
  <2>1. 1 .. p - n = 1 .. 0
    BY <1>3
  <2>4. PICK k \in Nat : k = 0
    OBVIOUS
  <2>2. s \in [1 .. k -> Characters]
    BY <1>1, <2>1, <2>4
  <2>6. \A f \in [1 .. k -> Characters] : f \in Seq(Characters) /\ Len(f) = k
    <3> TAKE f \in [1 .. k -> Characters]
    <3> QED BY RangeIsSeq
  <2>3. s \in Seq(Characters) /\ Len(s) = k
    BY <2>2, <2>6, Zenon
  <2>5. 1 .. k = {}
    BY <2>4
  <2> QED BY <1>3, <2>3, <2>4, <2>5
<1> QED BY <1>2, <1>3

\* The row of the cursor shows the prompt and the line of n characters in b,
\* then spaces up to where a line of p characters ended; the cursor stands at
\* character pos.
Shown(t, u, b, n, p, pos) ==
  /\ u.row = t.row /\ u.col = Len(Prompt) + pos
  /\ \A c \in Cols :
       u.cells[t.row][c].character =
         IF c < Len(Prompt) THEN Prompt[c + 1]
         ELSE IF c < Len(Prompt) + n THEN b[c - Len(Prompt)]
         ELSE IF c < Len(Prompt) + p THEN Space
         ELSE t.cells[t.row][c].character

\* refresh_prompt_line leaves the terminal settled and shows the line.
LEMMA RefreshSettles ==
  ASSUME NEW t, Settled(t), NEW b, NEW n, Holds(b, n), NEW p \in Nat, NEW pos \in 0 .. n,
         NEW u, u = refresh_prompt_line(t, b, n, p, pos)
  PROVE  /\ Settled(u) /\ u.color = t.color
         /\ Fits(n, p) => Shown(t, u, b, n, p, pos)
<1> DEFINE start == tty_set_cursor_position(t, t.row, 0)
           text == Prompt \o Text(b, n)
           line == tty_write(start, text)
           spaces == [i \in 1 .. p - n |-> Space]
           clear == tty_write(line, spaces)
           L == Len(Prompt)
<1>1. /\ t.row \in Nat /\ t.row \in Rows /\ t.row < TTY_ROWS /\ TTY_COLS \in Nat
      /\ 0 \in Nat /\ 0 < TTY_COLS /\ n \in Nat /\ L \in Nat /\ pos \in Nat
  BY SettledRange, TerminalAssumption, TextOf, LineCharsPlain
<1>2. u = tty_set_cursor_position(clear, t.row, L + pos)
  BY DEF refresh_prompt_line, redraw_prompt_with_buffer
<1>3. Settled(start) /\ start.cells = t.cells /\ start.color = t.color /\ start.row = t.row /\ start.col = 0
  <2>1. PICK row \in Nat, col \in Nat : row = t.row /\ col = 0
    BY <1>1
  <2>2. start = tty_set_cursor_position(t, row, col)
    BY <2>1
  <2> HIDE DEF start
  <2>3. Settled(start) /\ start.cells = t.cells /\ start.color = t.color /\ AtPlace(start, row, col)
    <3>1. \A v : v = tty_set_cursor_position(t, row, col) =>
                   Settled(v) /\ v.cells = t.cells /\ v.color = t.color /\ AtPlace(v, row, col)
      BY CursorSettles
    <3> QED BY <2>2, <3>1
  <2> QED BY <1>1, <2>1, <2>3 DEF AtPlace
<1> HIDE DEF start
<1>4. /\ text \in Seq(Characters) /\ Len(text) = L + n
      /\ \A i \in 1 .. Len(text) : Plain(text[i])
      /\ \A i \in 1 .. L : text[i] = Prompt[i]
      /\ \A i \in 0 .. n - 1 : text[L + 1 + i] = b[i]
  <2>1. text = Prompt \o Text(b, n)
    OBVIOUS
  <2> HIDE DEF text, L
  <2>2. Prompted(text, b, n)
    BY <2>1, PromptText
  <2> QED BY <2>2 DEF L, Prompted
<1>5. /\ spaces \in Seq(Characters) /\ Len(spaces) = IF p > n THEN p - n ELSE 0
      /\ \A i \in 1 .. Len(spaces) : spaces[i] = Space /\ Plain(spaces[i])
  BY <1>1, SpacesText
<1> HIDE DEF text, spaces
<1>6. Settled(line) /\ line.color = t.color
  BY <1>3, <1>4, WriteSettles
<1>7. L + n < TTY_COLS => Fills(start, line, text)
  BY <1>1, <1>3, <1>4, WriteFills
<1> HIDE DEF line
<1>8. Settled(clear) /\ clear.color = t.color
  BY <1>5, <1>6, WriteSettles
<1>9. line.col + Len(spaces) < TTY_COLS => Fills(line, clear, spaces)
  BY <1>5, <1>6, WriteFills
<1> HIDE DEF clear, L
<1>10. L + pos \in Nat
  BY <1>1
<1>11. /\ Settled(u) /\ u.cells = clear.cells /\ u.color = clear.color /\ u.row = t.row
       /\ L + pos < TTY_COLS => u.col = L + pos
  <2>1. PICK row \in Nat, col \in Nat : row = t.row /\ col = L + pos
    BY <1>1, <1>10
  <2>2. u = tty_set_cursor_position(clear, row, col)
    BY <1>2, <2>1
  <2>3. Settled(u) /\ u.cells = clear.cells /\ u.color = clear.color /\ AtPlace(u, row, col)
    BY <1>8, <2>2, CursorSettles
  <2> QED BY <1>1, <2>1, <2>3 DEF AtPlace
<1>12. ASSUME Fits(n, p) PROVE Shown(t, u, b, n, p, pos)
  <2>1. L + n < TTY_COLS /\ (p > n => L + p < TTY_COLS)
    BY <1>1, <1>12 DEF Fits, L
  <2>2. Fills(start, line, text)
    BY <1>7, <2>1
  <2>3. line.row = t.row /\ line.col = L + n
    BY <1>1, <1>3, <1>4, <2>2 DEF Fills
  <2>4. line.col + Len(spaces) = L + (IF p > n THEN p ELSE n)
    BY <1>1, <1>5, <2>3
  <2>5. Fills(line, clear, spaces)
    BY <1>1, <1>9, <2>1, <2>4
  <2>6. u.col = L + pos /\ u.row = t.row
    BY <1>1, <1>11, <2>1
  <2>7. ASSUME NEW c \in Cols
        PROVE  u.cells[t.row][c].character =
                 IF c < L THEN Prompt[c + 1] ELSE IF c < L + n THEN b[c - L]
                 ELSE IF c < L + p THEN Space ELSE t.cells[t.row][c].character
    <3>0. c \in Nat
      BY DEF Cols
    <3>1. line.cells[t.row][c] = IF c \in 0 .. L + n - 1
                                 THEN [character |-> text[c + 1], color |-> t.color] ELSE t.cells[t.row][c]
      <4>1. start.col .. start.col + Len(text) - 1 = 0 .. L + n - 1 /\ c - start.col + 1 = c + 1
        BY <1>1, <1>3, <1>4, <3>0
      <4> QED BY <1>1, <1>3, <2>2, <4>1 DEF Fills
    <3>2. u.cells[t.row][c] = IF c \in L + n .. L + n + Len(spaces) - 1
                              THEN [character |-> spaces[c - (L + n) + 1], color |-> t.color]
                              ELSE line.cells[t.row][c]
      BY <1>1, <1>6, <1>11, <2>3, <2>5 DEF Fills
    <3>3. CASE c < L
      <4>1. c \in 0 .. L + n - 1 /\ c \notin L + n .. L + n + Len(spaces) - 1 /\ c + 1 \in 1 .. L
        BY <1>1, <3>0, <3>3
      <4>2. u.cells[t.row][c].character = text[c + 1]
        BY <3>1, <3>2, <4>1
      <4> QED BY <1>4, <3>3, <4>1, <4>2
    <3>4. CASE c >= L /\ c < L + n
      <4>1. /\ c \in 0 .. L + n - 1 /\ c \notin L + n .. L + n + Len(spaces) - 1 /\ c - L \in 0 .. n - 1
            /\ L + 1 + (c - L) = c + 1 /\ ~(c < L)
        BY <1>1, <3>0, <3>4
      <4>2. u.cells[t.row][c].character = text[c + 1]
        BY <3>1, <3>2, <4>1
      <4>3. text[c + 1] = b[c - L]
        BY <1>4, <4>1
      <4> QED BY <3>4, <4>1, <4>2, <4>3
    <3>5. CASE c >= L + n /\ c < L + p
      <4>1. /\ c \in L + n .. L + n + Len(spaces) - 1 /\ c - (L + n) + 1 \in 1 .. Len(spaces)
            /\ ~(c < L) /\ ~(c < L + n)
        BY <1>1, <1>5, <3>0, <3>5
      <4>2. u.cells[t.row][c].character = spaces[c - (L + n) + 1]
        BY <3>2, <4>1
      <4> QED BY <1>5, <3>5, <4>1, <4>2
    <3>6. CASE c >= L + n /\ c >= L + p
      <4>1. /\ c \notin L + n .. L + n + Len(spaces) - 1 /\ c \notin 0 .. L + n - 1
            /\ ~(c < L) /\ ~(c < L + n) /\ ~(c < L + p)
        BY <1>1, <1>5, <3>0, <3>6
      <4> QED BY <3>1, <3>2, <4>1
    <3> QED BY <1>1, <3>0, <3>3, <3>4, <3>5, <3>6
  <2> QED BY <2>6, <2>7 DEF Shown, L
<1> QED BY <1>8, <1>11, <1>12

(* What the keys do to the buffer.                                         *)

\* A buffer that holds a line holds bytes.
LEMMA HoldsBytes ==
  ASSUME NEW b, NEW n, Holds(b, n)
  PROVE  /\ CAPACITY \in Nat /\ CAPACITY > 0 /\ n \in Nat /\ n <= CAPACITY - 1
         /\ \A i \in Index : b[i] \in Bytes
         /\ \A i \in 0 .. n - 1 : i \in Index /\ b[i] \in LineChars
         /\ LineChars \subseteq Bytes /\ NUL \in Bytes
         /\ \A i \in Int : i \in Index <=> 0 <= i /\ i <= CAPACITY - 1
<1>1. CAPACITY \in Nat /\ CAPACITY > 0 /\ n \in Nat /\ n <= CAPACITY - 1
  BY EditorAssumption DEF Holds
<1>2. \A i \in Int : i \in Index <=> 0 <= i /\ i <= CAPACITY - 1
  BY <1>1 DEF Index
<1>3. \A i \in Index : b[i] \in Bytes
  BY DEF Holds
<1>4. \A i \in 0 .. n - 1 : i \in Index /\ b[i] \in LineChars
  BY <1>1, <1>2 DEF Holds
<1>5. LineChars \subseteq Bytes /\ NUL \in Bytes
  BY DEF Bytes
<1> QED BY <1>1, <1>2, <1>3, <1>4, <1>5

\* A character is inserted: the characters behind it move by one.
With(d, b, n, pos, ch) ==
  \A i \in 0 .. n : d[i] = IF i < pos THEN b[i] ELSE IF i = pos THEN ch ELSE b[i - 1]

\* What TypeChar does to the buffer: the new line has one character more.
LEMMA InsertHolds ==
  ASSUME NEW b, NEW n, Holds(b, n), n + 1 < CAPACITY, NEW pos \in 0 .. n, NEW ch \in LineChars,
         NEW d, d = [memmove(b, pos + 1, pos, n - pos + 1) EXCEPT ![pos] = ch]
  PROVE  Holds(d, n + 1) /\ With(d, b, n, pos, ch)
<1> DEFINE m == memmove(b, pos + 1, pos, n - pos + 1)
<1>1. /\ CAPACITY \in Nat /\ n \in Nat /\ pos \in Nat /\ pos <= n /\ n + 1 <= CAPACITY - 1
      /\ \A i \in Int : i \in Index <=> 0 <= i /\ i <= CAPACITY - 1
  BY HoldsBytes
<1>2. m = [i \in Index |-> IF i \in pos + 1 .. n + 1 THEN b[i - 1] ELSE b[i]]
  <2>1. (pos + 1) + (n - pos + 1) - 1 = n + 1
    BY <1>1
  <2>2. \A i \in Index : i - (pos + 1) + pos = i - 1
    BY <1>1 DEF Index
  <2> QED BY <2>1, <2>2 DEF memmove
<1> HIDE DEF m
<1>3. d = [i \in Index |-> IF i = pos THEN ch ELSE IF i \in pos + 1 .. n + 1 THEN b[i - 1] ELSE b[i]]
  BY <1>1, <1>2 DEF m
<1>4. ASSUME NEW i \in Index PROVE d[i] \in Bytes
  <2>1. i \in Int /\ (i \in pos + 1 .. n + 1 => i - 1 \in Index)
    BY <1>1 DEF Index
  <2>2. b[i] \in Bytes /\ ch \in Bytes /\ (i \in pos + 1 .. n + 1 => b[i - 1] \in Bytes)
    BY <2>1, HoldsBytes
  <2> QED BY <1>3, <2>2
<1>5. d \in [Index -> Bytes]
  BY <1>3, <1>4
<1>6. ASSUME NEW i \in 0 .. n
      PROVE  /\ d[i] = IF i < pos THEN b[i] ELSE IF i = pos THEN ch ELSE b[i - 1]
             /\ d[i] \in LineChars
  <2>1. i \in Index /\ i \in Nat
    BY <1>1
  <2>2. d[i] = IF i = pos THEN ch ELSE IF i \in pos + 1 .. n + 1 THEN b[i - 1] ELSE b[i]
    BY <1>3, <2>1
  <2>3. CASE i < pos
    <3>1. i # pos /\ i \notin pos + 1 .. n + 1 /\ i \in 0 .. n - 1
      BY <1>1, <2>1, <2>3
    <3> QED BY <2>2, <2>3, <3>1, HoldsBytes
  <2>4. CASE i = pos
    BY <1>1, <2>2, <2>4
  <2>5. CASE i > pos
    <3>1. i # pos /\ ~(i < pos) /\ i \in pos + 1 .. n + 1 /\ i - 1 \in 0 .. n - 1
      BY <1>1, <2>1, <2>5
    <3> QED BY <2>2, <3>1, HoldsBytes
  <2> QED BY <1>1, <2>1, <2>3, <2>4, <2>5
<1>7. n + 1 \in 0 .. CAPACITY - 1 /\ (n + 1) - 1 = n
  BY <1>1
<1> QED BY <1>5, <1>6, <1>7 DEF Holds, With

\* A character is taken out: the characters behind it move by one.
Without(d, b, n, pos) ==
  /\ Holds(d, n - 1)
  /\ \A i \in 0 .. n - 2 : d[i] = IF i < pos THEN b[i] ELSE b[i + 1]

\* What Backspace does to the buffer, left of the cursor.
LEMMA EraseHolds ==
  ASSUME NEW b, NEW n, Holds(b, n), NEW pos \in 1 .. n,
         NEW d, d = memmove(b, pos - 1, pos, n - pos + 1)
  PROVE  Without(d, b, n, pos - 1)
<1>1. /\ CAPACITY \in Nat /\ n \in Nat /\ pos \in Nat /\ pos <= n /\ 1 <= pos /\ n <= CAPACITY - 1
      /\ \A i \in Int : i \in Index <=> 0 <= i /\ i <= CAPACITY - 1
  BY HoldsBytes
<1>2. d = [i \in Index |-> IF i \in pos - 1 .. n - 1 THEN b[i + 1] ELSE b[i]]
  <2>1. (pos - 1) + (n - pos + 1) - 1 = n - 1
    BY <1>1
  <2>2. \A i \in Index : i - (pos - 1) + pos = i + 1
    BY <1>1 DEF Index
  <2> QED BY <2>1, <2>2 DEF memmove
<1>4. ASSUME NEW i \in Index PROVE d[i] \in Bytes
  <2>1. i \in Int /\ (i \in pos - 1 .. n - 1 => i + 1 \in Index)
    BY <1>1 DEF Index
  <2>2. b[i] \in Bytes /\ (i \in pos - 1 .. n - 1 => b[i + 1] \in Bytes)
    BY <2>1, HoldsBytes
  <2> QED BY <1>2, <2>2
<1>5. d \in [Index -> Bytes]
  BY <1>2, <1>4
<1>6. ASSUME NEW i \in 0 .. n - 2
      PROVE  d[i] = (IF i < pos - 1 THEN b[i] ELSE b[i + 1]) /\ d[i] \in LineChars
  <2>1. i \in Index /\ i \in Nat /\ i \in 0 .. n - 1 /\ i + 1 \in 0 .. n - 1
    BY <1>1
  <2>2. i \in pos - 1 .. n - 1 <=> ~(i < pos - 1)
    BY <1>1, <2>1
  <2>3. d[i] = IF i < pos - 1 THEN b[i] ELSE b[i + 1]
    BY <1>2, <2>1, <2>2
  <2> QED BY <2>1, <2>3, HoldsBytes
<1>7. n - 1 \in 0 .. CAPACITY - 1 /\ (n - 1) - 1 = n - 2
  BY <1>1
<1> QED BY <1>5, <1>6, <1>7 DEF Holds, Without

\* What Delete does to the buffer, at the cursor.
LEMMA DeleteHolds ==
  ASSUME NEW b, NEW n, Holds(b, n), NEW pos \in 0 .. n - 1,
         NEW d, d = NullTerminated(memmove(b, pos, pos + 1, n - pos), n - 1)
  PROVE  Without(d, b, n, pos)
<1> DEFINE m == memmove(b, pos, pos + 1, n - pos)
<1>1. /\ CAPACITY \in Nat /\ n \in Nat /\ pos \in Nat /\ pos <= n - 1 /\ n <= CAPACITY - 1
      /\ \A i \in Int : i \in Index <=> 0 <= i /\ i <= CAPACITY - 1
  BY HoldsBytes
<1>2. m = [i \in Index |-> IF i \in pos .. n - 1 THEN b[i + 1] ELSE b[i]]
  <2>1. pos + (n - pos) - 1 = n - 1
    BY <1>1
  <2>2. \A i \in Index : i - pos + (pos + 1) = i + 1
    BY <1>1 DEF Index
  <2> QED BY <2>1, <2>2 DEF memmove
<1>3. d = [m EXCEPT ![n - 1] = NUL]
  BY DEF NullTerminated
<1> HIDE DEF m
<1>8. d = [i \in Index |-> IF i = n - 1 THEN NUL ELSE IF i \in pos .. n - 1 THEN b[i + 1] ELSE b[i]]
  BY <1>2, <1>3
<1>4. ASSUME NEW i \in Index PROVE d[i] \in Bytes
  <2>1. i \in Int /\ (i \in pos .. n - 1 => i + 1 \in Index)
    BY <1>1 DEF Index
  <2>2. b[i] \in Bytes /\ NUL \in Bytes /\ (i \in pos .. n - 1 => b[i + 1] \in Bytes)
    BY <2>1, HoldsBytes
  <2> QED BY <1>8, <2>2
<1>5. d \in [Index -> Bytes]
  BY <1>8, <1>4
<1>6. ASSUME NEW i \in 0 .. n - 2
      PROVE  d[i] = (IF i < pos THEN b[i] ELSE b[i + 1]) /\ d[i] \in LineChars
  <2>1. i \in Index /\ i \in Nat /\ i \in 0 .. n - 1 /\ i + 1 \in 0 .. n - 1 /\ i # n - 1
    BY <1>1
  <2>2. i \in pos .. n - 1 <=> ~(i < pos)
    BY <1>1, <2>1
  <2>3. d[i] = IF i < pos THEN b[i] ELSE b[i + 1]
    BY <1>8, <2>1, <2>2
  <2> QED BY <2>1, <2>3, HoldsBytes
<1>7. n - 1 \in 0 .. CAPACITY - 1 /\ (n - 1) - 1 = n - 2
  BY <1>1
<1> QED BY <1>5, <1>6, <1>7 DEF Holds, Without

\* The buffer d holds the n characters of b, and text behind them.
Grows(d, m, b, n, text) ==
  /\ m = n + Len(text)
  /\ \A i \in 0 .. n - 1 : d[i] = b[i]
  /\ \A i \in 1 .. Len(text) : d[n + i - 1] = text[i]

\* A text is copied behind the first n characters.
LEMMA CopyHolds ==
  ASSUME NEW b \in [Index -> Bytes], NEW n \in Nat, \A i \in 0 .. n - 1 : b[i] \in LineChars,
         NEW text \in Seq(LineChars), n + Len(text) <= CAPACITY - 1,
         NEW d, d = NullTerminated(memcpy(b, n, text), n + Len(text))
  PROVE  Holds(d, n + Len(text)) /\ Grows(d, n + Len(text), b, n, text)
<1> DEFINE k == Len(text)
           m == memcpy(b, n, text)
<1>1. /\ CAPACITY \in Nat /\ k \in Nat /\ n + k \in Index /\ CAPACITY > 0
      /\ \A i \in Int : i \in Index <=> 0 <= i /\ i <= CAPACITY - 1
  BY EditorAssumption DEF Index
<1>2. m = [i \in Index |-> IF i \in n .. n + k - 1 THEN text[i - n + 1] ELSE b[i]]
  BY DEF memcpy
<1>3. d = [m EXCEPT ![n + k] = NUL]
  BY DEF NullTerminated
<1> HIDE DEF m, k
<1>4. d = [i \in Index |-> IF i = n + k THEN NUL ELSE IF i \in n .. n + k - 1 THEN text[i - n + 1] ELSE b[i]]
  BY <1>2, <1>3
<1>5. ASSUME NEW i \in n .. n + k - 1
      PROVE  i \in Index /\ i # n + k /\ d[i] = text[i - n + 1] /\ d[i] \in LineChars
  <2>1. i \in Index /\ i # n + k /\ i - n + 1 \in 1 .. Len(text)
    BY <1>1 DEF k
  <2> QED BY <1>4, <2>1
<1>6. ASSUME NEW i \in 0 .. n - 1
      PROVE  i \in Index /\ d[i] = b[i] /\ d[i] \in LineChars
  <2>1. i \in Index /\ i # n + k /\ i \notin n .. n + k - 1
    BY <1>1
  <2> QED BY <1>4, <2>1
<1>7. ASSUME NEW i \in Index PROVE d[i] \in Bytes
  <2>1. CASE i \in n .. n + k - 1
    BY <1>5, <2>1 DEF Bytes
  <2>2. CASE i \notin n .. n + k - 1
    BY <1>4, <2>2 DEF Bytes
  <2> QED BY <2>1, <2>2
<1>8. d \in [Index -> Bytes]
  BY <1>4, <1>7
<1>9. ASSUME NEW i \in 0 .. n + k - 1 PROVE d[i] \in LineChars
  <2>1. i \in 0 .. n - 1 \/ i \in n .. n + k - 1
    BY <1>1
  <2> QED BY <1>5, <1>6, <2>1
<1>10. ASSUME NEW i \in 1 .. k PROVE d[n + i - 1] = text[i]
  <2>1. n + i - 1 \in n .. n + k - 1 /\ (n + i - 1) - n + 1 = i
    BY <1>1
  <2> QED BY <1>5, <2>1
<1>11. n + k \in 0 .. CAPACITY - 1 /\ (n + k) - 1 = n + k - 1
  BY <1>1
<1>12. Holds(d, n + k)
  BY <1>8, <1>9, <1>11 DEF Holds
<1>13. Grows(d, n + k, b, n, text)
  BY <1>6, <1>10 DEF Grows, k
<1> QED BY <1>12, <1>13 DEF k

\* The buffer becomes a text that fits it.
LEMMA ReplaceHolds ==
  ASSUME NEW b, NEW n, Holds(b, n), NEW text \in TextLines,
         NEW d, d = NullTerminated(memcpy(b, 0, text), Len(text))
  PROVE  Holds(d, Len(text)) /\ Text(d, Len(text)) = text
<1>1. b \in [Index -> Bytes] /\ text \in Seq(LineChars) /\ Len(text) \in Nat /\ Len(text) <= CAPACITY - 1
  BY DEF Holds, TextLines
<1>2. 0 + Len(text) = Len(text) /\ \A i : i \notin 0 .. 0 - 1
  BY <1>1
<1>3. /\ Holds(d, 0 + Len(text))
      /\ \A i \in 1 .. Len(text) : d[0 + i - 1] = text[i]
  <2>1. PICK z \in Nat : z = 0
    OBVIOUS
  <2>2. d = NullTerminated(memcpy(b, z, text), z + Len(text)) /\ z + Len(text) <= CAPACITY - 1
    BY <1>1, <1>2, <2>1
  <2>3. \A i \in 0 .. z - 1 : b[i] \in LineChars
    BY <1>2, <2>1
  <2>4. /\ Holds(d, z + Len(text))
        /\ \A i \in 1 .. Len(text) : d[z + i - 1] = text[i]
    <3>1. Holds(d, z + Len(text)) /\ Grows(d, z + Len(text), b, z, text)
      BY <1>1, <2>2, <2>3, CopyHolds
    <3> QED BY <3>1 DEF Grows
  <2> QED BY <2>1, <2>4
<1>4. Holds(d, Len(text))
  BY <1>2, <1>3
<1>5. /\ Text(d, Len(text)) \in Seq(LineChars) /\ Len(Text(d, Len(text))) = Len(text)
      /\ \A i \in 1 .. Len(text) : Text(d, Len(text))[i] = d[i - 1]
  BY <1>4, TextOf
<1>6. \A i \in 1 .. Len(text) : d[i - 1] = text[i]
  <2> TAKE i \in 1 .. Len(text)
  <2>1. 0 + i - 1 = i - 1
    BY <1>1
  <2> QED BY <1>3, <2>1
<1>7. Text(d, Len(text)) = text
  BY <1>1, <1>5, <1>6, SeqEqual
<1> QED BY <1>4, <1>7

\* Cutting a text that fits leaves it alone.
LEMMA FirstCharsOf ==
  ASSUME NEW text \in TextLines
  PROVE  FirstChars(text, CAPACITY - 1) = text
<1>1. text \in Seq(LineChars) /\ Len(text) \in Nat /\ Len(text) <= CAPACITY - 1 /\ CAPACITY \in Nat
  BY EditorAssumption DEF TextLines
<1>2. FirstChars(text, CAPACITY - 1) = SubSeq(text, 1, Len(text))
  BY <1>1 DEF FirstChars
<1> QED BY <1>1, <1>2

(* The invariant.                                                          *)

Ring == /\ history_count \in 0 .. HISTORY_SIZE /\ history_head \in 0 .. HISTORY_SIZE - 1
        /\ history \in [0 .. HISTORY_SIZE - 1 -> TextLines]
Browsing == /\ history_offset \in -1 .. history_count - 1
            /\ saved_current \in TextLines /\ saved_current_valid \in BOOLEAN
Editing == Holds(buffer, len) /\ cursor_pos \in 0 .. len
Flags == at \in {"read", "run", "noise"} /\ seen \in [fits : BOOLEAN, clean : BOOLEAN]
EditInv == Ring /\ Browsing /\ Editing /\ Flags /\ Settled(tty)

\* The row of the cursor shows the line: what LineShown says of the screen,
\* and that a row with nothing else in it shows the line.
RowShown ==
  /\ at = "read" /\ seen.clean => seen.fits
  /\ at = "read" /\ seen.fits =>
       /\ tty.col = Len(Prompt) + cursor_pos
       /\ \A c \in Cols : c < Len(Prompt) => tty.cells[tty.row][c].character = Prompt[c + 1]
       /\ Len(Prompt) + len < TTY_COLS
       /\ \A c \in Cols : Len(Prompt) <= c /\ c < Len(Prompt) + len =>
                             tty.cells[tty.row][c].character = buffer[c - Len(Prompt)]
  /\ at = "read" /\ seen.clean =>
       \A c \in Cols : c >= Len(Prompt) + len => tty.cells[tty.row][c].character = Space
ScreenInv == EditInv /\ RowShown

\* A key that changes the line and draws it again.
LEMMA RefreshKeeps ==
  ASSUME EditInv, RowShown, at = "read", at' = "read", Holds(buffer', len'), cursor_pos' \in 0 .. len',
         Refreshes(buffer', len', len, cursor_pos')
  PROVE  Settled(tty') /\ Editing' /\ Flags' /\ RowShown'
<1>1. /\ tty' = refresh_prompt_line(tty, buffer', len', len, cursor_pos')
      /\ seen' = [fits |-> Fits(len', len), clean |-> seen.clean /\ Fits(len', len)]
  BY DEF Refreshes
<1>2. Settled(tty) /\ len \in Nat /\ len' \in Nat /\ seen.clean \in BOOLEAN /\ Len(Prompt) \in Nat
      /\ cursor_pos' \in Nat /\ TTY_COLS \in Nat
  BY TextOf, LineCharsPlain, TerminalAssumption DEF EditInv, Editing, Flags
<1>3. /\ Settled(tty')
      /\ Fits(len', len) => Shown(tty, tty', buffer', len', len, cursor_pos')
  BY <1>1, <1>2, RefreshSettles
<1>4. Fits(len', len) \in BOOLEAN
  BY DEF Fits
<1>5. Flags'
  BY <1>1, <1>2, <1>4 DEF Flags
<1>6. seen'.fits = Fits(len', len) /\ seen'.clean = (seen.clean /\ Fits(len', len))
  BY <1>1
<1>7. RowShown'
  <2>1. CASE ~Fits(len', len)
    BY <1>6, <2>1 DEF RowShown
  <2>2. CASE Fits(len', len)
    <3>1. Shown(tty, tty', buffer', len', len, cursor_pos')
      BY <1>3, <2>2
    <3>2. Len(Prompt) + len' < TTY_COLS
      BY <1>2, <2>2 DEF Fits
    <3>3. ASSUME NEW c \in Cols
          PROVE  /\ c < Len(Prompt) => tty'.cells[tty'.row][c].character = Prompt[c + 1]
                 /\ Len(Prompt) <= c /\ c < Len(Prompt) + len' =>
                             tty'.cells[tty'.row][c].character = buffer'[c - Len(Prompt)]
                 /\ seen.clean /\ c >= Len(Prompt) + len' => tty'.cells[tty'.row][c].character = Space
      <4>0. c \in Nat
        BY DEF Cols
      <4>1. tty'.row = tty.row
        BY <3>1 DEF Shown
      <4>2. tty'.cells[tty.row][c].character =
              IF c < Len(Prompt) THEN Prompt[c + 1]
              ELSE IF c < Len(Prompt) + len' THEN buffer'[c - Len(Prompt)]
              ELSE IF c < Len(Prompt) + len THEN Space
              ELSE tty.cells[tty.row][c].character
        BY <3>1 DEF Shown
      <4>3. c < Len(Prompt) => tty'.cells[tty'.row][c].character = Prompt[c + 1]
        BY <4>1, <4>2
      <4>4. Len(Prompt) <= c /\ c < Len(Prompt) + len' =>
                             tty'.cells[tty'.row][c].character = buffer'[c - Len(Prompt)]
        BY <1>2, <4>0, <4>1, <4>2
      <4>5. ASSUME seen.clean, c >= Len(Prompt) + len'
            PROVE  tty'.cells[tty'.row][c].character = Space
        <5>1. ~(c < Len(Prompt)) /\ ~(c < Len(Prompt) + len')
          BY <1>2, <4>0, <4>5
        <5>2. ~(c < Len(Prompt) + len) => tty.cells[tty.row][c].character = Space
          BY <1>2, <4>0, <4>5 DEF RowShown
        <5> QED BY <4>1, <4>2, <5>1, <5>2
      <4> QED BY <4>3, <4>4, <4>5
    <3>4. tty'.col = Len(Prompt) + cursor_pos'
      BY <3>1 DEF Shown
    <3> QED BY <1>6, <3>2, <3>3, <3>4, <2>2 DEF RowShown
  <2> QED BY <2>1, <2>2
<1> QED BY <1>3, <1>5, <1>7 DEF Editing

\* A bell is drawn and nothing else changes.
LEMMA RingKeeps ==
  ASSUME EditInv, RowShown, Rings, keys' = keys + 1
  PROVE  EditInv' /\ RowShown'
<1>1. /\ tty' = tty_putc(tty, Bell) /\ seen' = [fits |-> FALSE, clean |-> FALSE]
      /\ UNCHANGED <<at, edit, browse, ring>>
  BY DEF Rings
<1>2. Bell \in Characters
  BY SpaceIsCharacter
<1>3. Settled(tty')
  BY <1>1, <1>2, PutcSettles DEF EditInv
<1>4. Ring' /\ Browsing' /\ Editing' /\ Flags'
  BY <1>1 DEF EditInv, Ring, Browsing, Editing, Flags, edit, browse, ring, Holds
<1>5. RowShown'
  BY <1>1 DEF RowShown
<1> QED BY <1>3, <1>4, <1>5 DEF EditInv

\* -1 is an offset of every history.
LEMMA NoOffset ==
  ASSUME NEW n \in Nat
  PROVE  -1 \in -1 .. n - 1
  OBVIOUS

\* A line that is not one of the history.
LEMMA BrowsesNothing ==
  ASSUME Ring', history_offset' = -1, saved_current' \in TextLines, saved_current_valid' = FALSE
  PROVE  Browsing'
<1>1. history_count' \in Nat
  BY EditorAssumption DEF Ring
<1>2. -1 \in -1 .. history_count' - 1
  BY <1>1, NoOffset
<1>3. FALSE \in BOOLEAN
  OBVIOUS
<1>4. history_offset' \in -1 .. history_count' - 1 /\ saved_current_valid' \in BOOLEAN
  BY <1>2, <1>3
<1> QED BY <1>4 DEF Browsing

\* A new prompt is shown where the cursor is, and the line is empty.
LEMMA PromptKeeps ==
  ASSUME NEW t, Settled(t), NewPrompt(t), Ring'
  PROVE  EditInv' /\ RowShown'
<1>1. /\ at' = "read" /\ tty' = tty_write(t, Prompt)
      /\ seen' = [fits |-> PromptFits /\ t.col = 0,
                  clean |-> PromptFits /\ t.col = 0 /\ t.cells[t.row] = BlankRow(t.color)]
      /\ buffer' = [i \in Index |-> Junk] /\ len' = 0 /\ cursor_pos' = 0
      /\ history_offset' = -1 /\ saved_current' = <<>> /\ saved_current_valid' = FALSE
  BY DEF NewPrompt
<1>2. /\ Prompt \in Seq(Characters) /\ Len(Prompt) \in Nat
      /\ \A i \in 1 .. Len(Prompt) : Plain(Prompt[i])
  BY LineCharsPlain
<1>3. Settled(tty')
  BY <1>1, <1>2, WriteSettles
<1>4. Editing'
  <2>1. Holds([i \in Index |-> Junk], 0)
    BY EditorAssumption DEF Holds, Bytes
  <2> QED BY <1>1, <2>1 DEF Editing
<1>5. Browsing'
  <2>1. <<>> \in TextLines
    BY EditorAssumption DEF TextLines
  <2> QED BY <1>1, <2>1, BrowsesNothing
<1>6. /\ (PromptFits /\ t.col = 0) \in BOOLEAN
      /\ (PromptFits /\ t.col = 0 /\ t.cells[t.row] = BlankRow(t.color)) \in BOOLEAN
  OBVIOUS
<1>7. Flags'
  BY <1>1, <1>6 DEF Flags
<1>8. /\ seen'.fits = (PromptFits /\ t.col = 0)
      /\ seen'.clean = (PromptFits /\ t.col = 0 /\ t.cells[t.row] = BlankRow(t.color))
  BY <1>1
<1>9. RowShown'
  <2>1. CASE ~(PromptFits /\ t.col = 0)
    BY <1>8, <2>1 DEF RowShown
  <2>2. CASE PromptFits /\ t.col = 0
    <3>1. t.row \in Rows /\ t.col + Len(Prompt) < TTY_COLS /\ TTY_COLS \in Nat
      BY <1>2, <2>2, SettledRange DEF PromptFits
    <3>2. Fills(t, tty', Prompt)
      BY <1>1, <1>2, <3>1, WriteFills
    <3>3. tty'.row = t.row /\ tty'.col = Len(Prompt) + cursor_pos'
      BY <1>1, <1>2, <2>2, <3>2 DEF Fills
    <3>4. ASSUME NEW c \in Cols
          PROVE  /\ c < Len(Prompt) => tty'.cells[tty'.row][c].character = Prompt[c + 1]
                 /\ ~(Len(Prompt) <= c /\ c < Len(Prompt) + len')
                 /\ seen'.clean /\ c >= Len(Prompt) + len' => tty'.cells[tty'.row][c].character = Space
      <4>0. c \in Nat
        BY DEF Cols
      <4>1. tty'.cells[tty'.row][c] = IF c \in 0 .. Len(Prompt) - 1
                                      THEN [character |-> Prompt[c + 1], color |-> t.color]
                                      ELSE t.cells[t.row][c]
        <5>1. t.col .. t.col + Len(Prompt) - 1 = 0 .. Len(Prompt) - 1 /\ c - t.col + 1 = c + 1
          BY <1>2, <2>2, <4>0
        <5> QED BY <3>1, <3>2, <3>3, <5>1 DEF Fills
      <4>2. c < Len(Prompt) => tty'.cells[tty'.row][c].character = Prompt[c + 1]
        <5>1. c < Len(Prompt) => c \in 0 .. Len(Prompt) - 1
          BY <1>2, <4>0
        <5> QED BY <4>1, <5>1
      <4>3. ~(Len(Prompt) <= c /\ c < Len(Prompt) + len')
        BY <1>1, <1>2, <4>0
      <4>4. ASSUME seen'.clean, c >= Len(Prompt) + len'
            PROVE  tty'.cells[tty'.row][c].character = Space
        <5>1. c \notin 0 .. Len(Prompt) - 1
          BY <1>1, <1>2, <4>0, <4>4
        <5>2. t.cells[t.row][c] = Blank(t.color)
          BY <1>8, <4>4 DEF BlankRow
        <5> QED BY <4>1, <5>1, <5>2 DEF Blank
      <4> QED BY <4>2, <4>3, <4>4
    <3>5. Len(Prompt) + len' < TTY_COLS
      BY <1>1, <1>2, <2>2 DEF PromptFits
    <3> QED BY <1>8, <3>3, <3>4, <3>5 DEF RowShown
  <2> QED BY <2>1, <2>2
<1> QED BY <1>3, <1>4, <1>5, <1>7, <1>9 DEF EditInv

\* The invariant says of a line that is being typed:
LEMMA EditFacts ==
  ASSUME EditInv
  PROVE  /\ Holds(buffer, len) /\ len \in Nat /\ len <= CAPACITY - 1 /\ CAPACITY \in Nat
         /\ cursor_pos \in 0 .. len /\ cursor_pos \in Nat /\ cursor_pos <= len
         /\ history_count \in Nat /\ HISTORY_SIZE \in Nat /\ HISTORY_SIZE > 0
         /\ Ring /\ Browsing /\ Settled(tty)
<1>1. len \in Nat /\ len <= CAPACITY - 1
  BY HoldsBytes DEF EditInv, Editing
<1> QED BY <1>1, EditorAssumption DEF EditInv, Editing, Ring

\* A change of the text leaves the history, which stays as it is.
LEMMA LeavingKeeps ==
  ASSUME EditInv, LeavesHistory, UNCHANGED ring
  PROVE  Ring' /\ Browsing'
<1>1. Ring'
  BY EditFacts DEF ring, Ring
<1>2. saved_current' \in TextLines
  BY EditFacts DEF Browsing, LeavesHistory
<1> QED BY <1>1, <1>2, BrowsesNothing DEF LeavesHistory

\* The keys that change one character or move the cursor.
LEMMA TypeCharKeeps ==
  ASSUME EditInv, RowShown, NEW ch \in Letters, TypeChar(ch)
  PROVE  EditInv' /\ RowShown'
<1>1. at = "read" /\ keys' = keys + 1
  BY DEF TypeChar, KeyTyped
<1>2. CASE len + 1 >= CAPACITY
  BY <1>1, <1>2, RingKeeps DEF TypeChar
<1>3. CASE ~(len + 1 >= CAPACITY)
  <2>1. /\ buffer' = [memmove(buffer, cursor_pos + 1, cursor_pos, len - cursor_pos + 1) EXCEPT ![cursor_pos] = ch]
        /\ cursor_pos' = cursor_pos + 1 /\ len' = len + 1 /\ LeavesHistory
        /\ Refreshes(buffer', len + 1, len, cursor_pos + 1) /\ UNCHANGED <<at, ring>>
    BY <1>3 DEF TypeChar
  <2>2. ch \in LineChars /\ len + 1 < CAPACITY
    BY <1>3, EditFacts DEF LineChars
  <2>3. Holds(buffer', len')
    BY <2>1, <2>2, EditFacts, InsertHolds
  <2>4. Refreshes(buffer', len', len, cursor_pos') /\ at' = "read" /\ cursor_pos' \in 0 .. len'
    BY <1>1, <2>1, EditFacts
  <2>5. Settled(tty') /\ Editing' /\ Flags' /\ RowShown'
    BY <1>1, <2>3, <2>4, RefreshKeeps
  <2>6. Ring' /\ Browsing'
    BY <2>1, LeavingKeeps
  <2> QED BY <2>5, <2>6 DEF EditInv
<1> QED BY <1>2, <1>3

\* Backspace keeps the invariant.
LEMMA BackspaceKeeps ==
  ASSUME EditInv, RowShown, BackspaceKey
  PROVE  EditInv' /\ RowShown'
<1>1. at = "read" /\ keys' = keys + 1
  BY DEF BackspaceKey, KeyTyped
<1>2. CASE cursor_pos = 0
  BY <1>1, <1>2, RingKeeps DEF BackspaceKey
<1>3. CASE cursor_pos # 0
  <2>1. /\ buffer' = memmove(buffer, cursor_pos - 1, cursor_pos, len - cursor_pos + 1)
        /\ cursor_pos' = cursor_pos - 1 /\ len' = len - 1 /\ LeavesHistory
        /\ Refreshes(buffer', len - 1, len, cursor_pos - 1) /\ UNCHANGED <<at, ring>>
    BY <1>3 DEF BackspaceKey
  <2>2. cursor_pos \in 1 .. len
    BY <1>3, EditFacts
  <2>3. Holds(buffer', len')
    BY <2>1, <2>2, EditFacts, EraseHolds DEF Without
  <2>4. Refreshes(buffer', len', len, cursor_pos') /\ at' = "read" /\ cursor_pos' \in 0 .. len'
    BY <1>1, <2>1, <2>2, EditFacts
  <2>5. Settled(tty') /\ Editing' /\ Flags' /\ RowShown'
    BY <1>1, <2>3, <2>4, RefreshKeeps
  <2>6. Ring' /\ Browsing'
    BY <2>1, LeavingKeeps
  <2> QED BY <2>5, <2>6 DEF EditInv
<1> QED BY <1>2, <1>3

\* Delete keeps the invariant.
LEMMA DeleteKeeps ==
  ASSUME EditInv, RowShown, DeleteKey
  PROVE  EditInv' /\ RowShown'
<1>1. at = "read" /\ keys' = keys + 1
  BY DEF DeleteKey, KeyTyped
<1>2. CASE cursor_pos >= len
  BY <1>1, <1>2, RingKeeps DEF DeleteKey
<1>3. CASE ~(cursor_pos >= len)
  <2>1. /\ buffer' = NullTerminated(memmove(buffer, cursor_pos, cursor_pos + 1, len - cursor_pos), len - 1)
        /\ cursor_pos' = cursor_pos /\ len' = len - 1 /\ LeavesHistory
        /\ Refreshes(buffer', len - 1, len, cursor_pos) /\ UNCHANGED <<at, ring>>
    BY <1>3 DEF DeleteKey
  <2>2. cursor_pos \in 0 .. len - 1
    BY <1>3, EditFacts
  <2>3. Holds(buffer', len')
    BY <2>1, <2>2, EditFacts, DeleteHolds DEF Without
  <2>4. Refreshes(buffer', len', len, cursor_pos') /\ at' = "read" /\ cursor_pos' \in 0 .. len'
    BY <1>1, <2>1, <2>2, EditFacts
  <2>5. Settled(tty') /\ Editing' /\ Flags' /\ RowShown'
    BY <1>1, <2>3, <2>4, RefreshKeeps
  <2>6. Ring' /\ Browsing'
    BY <2>1, LeavingKeeps
  <2> QED BY <2>5, <2>6 DEF EditInv
<1> QED BY <1>2, <1>3

\* A move of the cursor within the line keeps the invariant.
LEMMA MoveKeeps ==
  ASSUME EditInv, RowShown, at = "read", NEW pos \in 0 .. len, MovesTo(pos)
  PROVE  EditInv' /\ RowShown'
<1>1. /\ cursor_pos' = pos /\ Refreshes(buffer, len, len, pos)
      /\ UNCHANGED <<at, buffer, len, browse, ring>>
  BY DEF MovesTo
<1>2. /\ Holds(buffer', len') /\ Refreshes(buffer', len', len, cursor_pos') /\ at' = "read"
      /\ cursor_pos' \in 0 .. len'
  BY <1>1, EditFacts
<1>3. Settled(tty') /\ Editing' /\ Flags' /\ RowShown'
  BY <1>2, RefreshKeeps
<1>4. Ring' /\ Browsing'
  BY <1>1, EditFacts DEF ring, browse, Ring, Browsing
<1> QED BY <1>3, <1>4 DEF EditInv

\* The keys that move the cursor keep the invariant, or ring.
LEMMA CursorKeeps ==
  ASSUME EditInv, RowShown, ArrowLeft \/ ArrowRight \/ HomeKey \/ EndKey
  PROVE  EditInv' /\ RowShown'
<1>1. at = "read" /\ keys' = keys + 1
  BY DEF ArrowLeft, ArrowRight, HomeKey, EndKey, KeyTyped
<1>2. CASE Rings
  BY <1>1, <1>2, RingKeeps
<1>3. CASE ~Rings
  <2>1. \E pos \in 0 .. len : MovesTo(pos)
    <3>1. CASE ArrowLeft
      <4>1. MovesTo(cursor_pos - 1) /\ cursor_pos - 1 \in 0 .. len
        BY <1>3, <3>1, EditFacts DEF ArrowLeft
      <4> QED BY <4>1
    <3>2. CASE ArrowRight
      <4>1. MovesTo(cursor_pos + 1) /\ cursor_pos + 1 \in 0 .. len
        BY <1>3, <3>2, EditFacts DEF ArrowRight
      <4> QED BY <4>1
    <3>3. CASE HomeKey
      <4>1. MovesTo(0) /\ 0 \in 0 .. len
        BY <3>3, EditFacts DEF HomeKey
      <4> QED BY <4>1
    <3>4. CASE EndKey
      <4>1. MovesTo(len) /\ len \in 0 .. len
        BY <3>4, EditFacts DEF EndKey
      <4> QED BY <4>1
    <3> QED BY <3>1, <3>2, <3>3, <3>4
  <2> QED BY <1>1, <2>1, MoveKeeps
<1> QED BY <1>2, <1>3

(* The history.                                                            *)

\* An index of the ring is taken modulo its size.
LEMMA RingIndex ==
  ASSUME NEW x \in Int, NEW m \in Nat, m > 0
  PROVE  x % m \in 0 .. m - 1
  OBVIOUS

\* What the history gives back is a line.
LEMMA HistoryGet ==
  ASSUME Ring, NEW k \in Int
  PROVE  history_get(k) \in TextLines
<1> DEFINE x == history_head + HISTORY_SIZE - 1 - k
<1>1. x \in Int /\ HISTORY_SIZE \in Nat /\ HISTORY_SIZE > 0
  BY EditorAssumption DEF Ring
<1>2. history_get(k) = history[x % HISTORY_SIZE]
  BY DEF history_get
<1> HIDE DEF x
<1>3. x % HISTORY_SIZE \in 0 .. HISTORY_SIZE - 1
  BY <1>1, RingIndex
<1> QED BY <1>2, <1>3 DEF Ring

\* A line is remembered in the slot of the head, and nothing else changes.
LEMMA HistoryAdd ==
  ASSUME Ring, NEW line \in TextLines, history_add(line)
  PROVE  Ring'
<1>1. HISTORY_SIZE \in Nat /\ HISTORY_SIZE > 0 /\ history_count \in Nat /\ history_head \in Int
  BY EditorAssumption DEF Ring
<1>2. CASE HasContent(line)
  <2>1. /\ history' = [history EXCEPT ![history_head] = line]
        /\ history_head' = (history_head + 1) % HISTORY_SIZE
        /\ history_count' = IF history_count < HISTORY_SIZE THEN history_count + 1 ELSE history_count
    BY <1>2, FirstCharsOf DEF history_add
  <2>2. history_head + 1 \in Int
    BY <1>1
  <2>3. history_head' \in 0 .. HISTORY_SIZE - 1
    BY <1>1, <2>1, <2>2, RingIndex
  <2>4. history_count' \in 0 .. HISTORY_SIZE
    BY <1>1, <2>1 DEF Ring
  <2>5. history' \in [0 .. HISTORY_SIZE - 1 -> TextLines]
    BY <2>1 DEF Ring
  <2> QED BY <2>3, <2>4, <2>5 DEF Ring
<1>3. CASE ~HasContent(line)
  BY <1>3 DEF history_add, ring, Ring
<1> QED BY <1>2, <1>3

\* The buffer becomes a line of the history or the one that was being written.
LEMMA ReplaceKeeps ==
  ASSUME EditInv, RowShown, at = "read", NEW text \in TextLines, replace_buffer_with_text(text)
  PROVE  /\ Settled(tty') /\ Editing' /\ Flags' /\ RowShown' /\ at' = "read"
         /\ len' = Len(text) /\ cursor_pos' = Len(text) /\ Text(buffer', len') = text
<1>1. FirstChars(text, CAPACITY - 1) = text
  BY FirstCharsOf
<1>2. /\ buffer' = NullTerminated(memcpy(buffer, 0, text), Len(text))
      /\ len' = Len(text) /\ cursor_pos' = Len(text)
      /\ Refreshes(buffer', Len(text), len, Len(text)) /\ at' = at
  BY <1>1 DEF replace_buffer_with_text
<1>3. Holds(buffer', len') /\ Text(buffer', len') = text
  BY <1>2, EditFacts, ReplaceHolds
<1>4. Len(text) \in 0 .. Len(text)
  BY DEF TextLines
<1>5. Refreshes(buffer', len', len, cursor_pos') /\ cursor_pos' \in 0 .. len' /\ at' = "read"
  BY <1>2, <1>4
<1> QED BY <1>2, <1>3, <1>5, RefreshKeeps

\* The line being written stays in saved_current while older ones are shown.
LEMMA ArrowUpKeeps ==
  ASSUME EditInv, RowShown, ArrowUp
  PROVE  EditInv' /\ RowShown'
<1>1. at = "read" /\ keys' = keys + 1
  BY DEF ArrowUp, KeyTyped
<1>2. CASE history_offset + 1 >= history_count
  BY <1>1, <1>2, RingKeeps DEF ArrowUp
<1>3. CASE ~(history_offset + 1 >= history_count)
  <2>1. /\ (saved_current' = Text(buffer, len) /\ saved_current_valid' = TRUE)
             \/ UNCHANGED <<saved_current, saved_current_valid>>
        /\ history_offset' = history_offset + 1
        /\ replace_buffer_with_text(history_get(history_offset + 1)) /\ UNCHANGED ring
    BY <1>3 DEF ArrowUp
  <2>2. history_offset \in Int /\ history_offset + 1 \in Int
    BY EditFacts DEF Browsing
  <2>3. history_get(history_offset + 1) \in TextLines
    BY <2>2, EditFacts, HistoryGet
  <2>4. Settled(tty') /\ Editing' /\ Flags' /\ RowShown'
    BY <1>1, <2>1, <2>3, ReplaceKeeps
  <2>5. Ring'
    BY <2>1, EditFacts DEF ring, Ring
  <2>6. history_offset' \in -1 .. history_count' - 1
    <3>1. history_count' = history_count
      BY <2>1 DEF ring
    <3>2. history_offset \in -1 .. history_count - 1 /\ history_count \in Nat
      BY EditFacts DEF Browsing
    <3>3. history_offset + 1 \in -1 .. history_count - 1
      BY <1>3, <3>2
    <3> QED BY <2>1, <3>1, <3>3
  <2>7. saved_current' \in TextLines
    BY <2>1, EditFacts, TextOf DEF Browsing
  <2>8. saved_current_valid' \in BOOLEAN
    BY <2>1, EditFacts DEF Browsing
  <2> QED BY <2>4, <2>5, <2>6, <2>7, <2>8 DEF EditInv, Browsing
<1> QED BY <1>2, <1>3

\* The newest line gives way to the one that was being written.
LEMMA ArrowDownKeeps ==
  ASSUME EditInv, RowShown, ArrowDown
  PROVE  EditInv' /\ RowShown'
<1>1. at = "read" /\ keys' = keys + 1
  BY DEF ArrowDown, KeyTyped
<1>2. CASE history_offset < 0
  BY <1>1, <1>2, RingKeeps DEF ArrowDown
<1>3. CASE ~(history_offset < 0)
  <2>0. history_offset \in -1 .. history_count - 1 /\ history_count \in Nat
    BY EditFacts DEF Browsing
  <2>1. history_offset' = history_offset - 1 /\ UNCHANGED ring
    BY <1>3 DEF ArrowDown
  <2>2. \/ /\ replace_buffer_with_text(history_get(history_offset - 1))
           /\ UNCHANGED <<saved_current, saved_current_valid>>
        \/ /\ replace_buffer_with_text(IF saved_current_valid THEN saved_current ELSE <<>>)
           /\ saved_current_valid' = FALSE /\ UNCHANGED saved_current
    BY <1>3 DEF ArrowDown
  <2>3. history_get(history_offset - 1) \in TextLines
    <3>1. history_offset - 1 \in Int
      BY <2>0
    <3> QED BY <3>1, EditFacts, HistoryGet
  <2>4. (IF saved_current_valid THEN saved_current ELSE <<>>) \in TextLines
    <3>1. <<>> \in TextLines
      BY EditorAssumption DEF TextLines
    <3> QED BY <3>1, EditFacts DEF Browsing
  <2>5. Settled(tty') /\ Editing' /\ Flags' /\ RowShown'
    <3> DEFINE text == IF saved_current_valid THEN saved_current ELSE <<>>
    <3>1. text \in TextLines /\ (replace_buffer_with_text(history_get(history_offset - 1))
                                   \/ replace_buffer_with_text(text))
      BY <2>2, <2>4
    <3> HIDE DEF text
    <3> QED BY <1>1, <2>3, <3>1, ReplaceKeeps
  <2>6. Ring'
    BY <2>1, EditFacts DEF ring, Ring
  <2>7. history_offset' \in -1 .. history_count' - 1
    <3>1. history_count' = history_count
      BY <2>1 DEF ring
    <3>3. history_offset - 1 \in -1 .. history_count - 1
      BY <1>3, <2>0
    <3> QED BY <2>1, <3>1, <3>3
  <2>8. saved_current' \in TextLines
    BY <2>2, EditFacts DEF Browsing
  <2>9. saved_current_valid' \in BOOLEAN
    BY <2>2, EditFacts DEF Browsing
  <2> QED BY <2>5, <2>6, <2>7, <2>8, <2>9 DEF EditInv, Browsing
<1> QED BY <1>2, <1>3

\* A line that is entered is remembered, and an empty one is prompted again.
LEMMA EnterKeeps ==
  ASSUME EditInv, RowShown, EnterKey
  PROVE  EditInv' /\ RowShown'
<1>1. at = "read" /\ Newline \in Characters /\ Holds(buffer, len) /\ Settled(tty)
  BY EditFacts, SpaceIsCharacter DEF EnterKey, KeyTyped
<1>2. CASE len = 0
  <2>1. NewPrompt(tty_putc(tty, Newline)) /\ UNCHANGED ring
    BY <1>2 DEF EnterKey
  <2>2. Settled(tty_putc(tty, Newline))
    BY <1>1, PutcSettles
  <2>3. Ring'
    BY <2>1, EditFacts DEF ring, Ring
  <2> QED BY <2>1, <2>2, <2>3, PromptKeeps
<1>3. CASE len # 0
  <2>1. /\ at' = "run" /\ tty' = tty_putc(tty, Newline) /\ buffer' = NullTerminated(buffer, len)
        /\ history_add(Text(buffer, len)) /\ UNCHANGED <<len, cursor_pos, browse, seen>>
    BY <1>3 DEF EnterKey
  <2>2. Settled(tty')
    BY <1>1, <2>1, PutcSettles
  <2>3. Ring'
    <3>1. Text(buffer, len) \in TextLines
      BY <1>1, TextOf
    <3> QED BY <2>1, <3>1, EditFacts, HistoryAdd
  <2>4. Holds(buffer', len')
    <3>1. len' = len /\ buffer' = [buffer EXCEPT ![len] = NUL] /\ len \in Nat
      BY <2>1, EditFacts DEF NullTerminated
    <3>2. buffer' \in [Index -> Bytes]
      BY <1>1, <3>1, HoldsBytes DEF Holds
    <3>3. ASSUME NEW i \in 0 .. len - 1 PROVE buffer'[i] \in LineChars
      <4>1. i # len /\ i \in Index /\ buffer[i] \in LineChars
        BY <1>1, <3>1, HoldsBytes
      <4> QED BY <1>1, <3>1, <4>1 DEF Holds
    <3> QED BY <1>1, <3>1, <3>2, <3>3 DEF Holds
  <2>5. Editing' /\ Flags'
    BY <2>1, <2>4 DEF EditInv, Editing, Flags
  <2>6. Browsing'
    <3>1. history_offset \in -1 .. history_count' - 1
      <4>1. history_offset \in -1 .. history_count - 1 /\ history_count \in Nat
        BY EditFacts DEF Browsing
      <4>2. history_count' = history_count \/ history_count' = history_count + 1
        BY <2>1 DEF history_add, ring
      <4> QED BY <4>1, <4>2
    <3> QED BY <2>1, <3>1 DEF EditInv, Browsing, browse
  <2>7. RowShown'
    BY <2>1 DEF RowShown
  <2> QED BY <2>2, <2>3, <2>5, <2>6, <2>7 DEF EditInv
<1> QED BY <1>2, <1>3

\* Ctrl-C leaves the line.
LEMMA CtrlCKeeps ==
  ASSUME EditInv, CtrlCKey
  PROVE  EditInv' /\ RowShown'
<1> DEFINE text == <<"^", "C", Newline>>
<1>1. NewPrompt(tty_write(tty, text)) /\ UNCHANGED ring
  BY DEF CtrlCKey
<1>2. text \in Seq(Characters)
  BY SpaceIsCharacter
<1> HIDE DEF text
<1>3. Settled(tty_write(tty, text))
  BY <1>2, EditFacts, WriteSettles
<1>4. Ring'
  BY <1>1, EditFacts DEF ring, Ring
<1> QED BY <1>1, <1>3, <1>4, PromptKeeps

(* Longer operations.                                                      *)

\* The names of the commands are made of characters of a line.
LEMMA NameText ==
  ASSUME NEW i \in 1 .. Len(Commands)
  PROVE  Commands[i] \in Seq(LineChars) /\ Commands[i] \in Range(Commands)
<1>1. Commands \in Seq(Range(Commands))
  BY Texts
<1>2. Commands[i] \in Range(Commands)
  BY <1>1
<1>3. Commands[i] \in Seq(Range(Commands[i]))
  BY <1>2, Texts
<1>4. Range(Commands[i]) \subseteq LineChars
  BY <1>2 DEF LineChars
<1> QED BY <1>2, <1>3, <1>4, SeqMore

\* The names that are listed leave the terminal settled.
LEMMA ListSettles ==
  ASSUME NEW t, Settled(t), NEW b, NEW n, Holds(b, n), NEW u, u = list_matches(t, b, n)
  PROVE  Settled(u)
<1> DEFINE line == Text(b, n)
           start == tty_putc(t, Newline)
           listed == Lines(start, Commands, line)
           text == Prompt \o line
<1>1. u = tty_write(listed, text)
  BY DEF list_matches, Lines, redraw_prompt_with_buffer
<1>2. Settled(start)
  BY SpaceIsCharacter, PutcSettles
<1>3. text \in Seq(Characters)
  BY PromptText DEF Prompted
<1> HIDE DEF line, start, listed, text
<1>4. EachSettles("name", Begun(Commands, line), Commands, Len(Commands))
  <2> SUFFICES ASSUME NEW i \in 1 .. Len(Commands), NEW s, Settled(s)
               PROVE  Settled(Step("name", Begun(Commands, line), s, Commands[i]))
    BY DEF EachSettles
  <2>1. \/ Step("name", Begun(Commands, line), s, Commands[i]) = tty_write(s, Append(Commands[i], Newline))
        \/ Step("name", Begun(Commands, line), s, Commands[i]) = s
    BY DEF Step
  <2>2. Commands[i] \in Seq(Characters)
    BY NameText, LineCharsPlain, SeqMore
  <2>3. Append(Commands[i], Newline) \in Seq(Characters)
    BY <2>2, SpaceIsCharacter
  <2>4. Settled(tty_write(s, Append(Commands[i], Newline)))
    BY <2>3, WriteSettles
  <2> QED BY <2>1, <2>4
<1>5. Commands \in Seq(Range(Commands)) /\ Len(Commands) \in Nat
  BY Texts
<1>6. PICK w : /\ Steps(w, "name", Begun(Commands, line), start, Commands, Len(Commands))
               /\ Lines(start, Commands, line) = w[Len(Commands)]
  BY <1>5, ListSteps
<1>7. Settled(w[Len(Commands)])
  BY <1>2, <1>4, <1>5, <1>6, StepsSettle
<1>8. Settled(listed)
  BY <1>6, <1>7 DEF listed
<1> QED BY <1>1, <1>3, <1>8, WriteSettles

\* So does a frame of noise.
LEMMA FrameSettles ==
  ASSUME NEW t, Settled(t), NEW S, NEW cells \in Seq(S)
  PROVE  Settled(Frame(t, cells))
<1>1. EachSettles("cell", <<"9", NoiseColor>>, cells, Len(cells))
  <2> SUFFICES ASSUME NEW i \in 1 .. Len(cells), NEW s, Settled(s)
               PROVE  Settled(Step("cell", <<"9", NoiseColor>>, s, cells[i]))
    BY DEF EachSettles
  <2>1. Step("cell", <<"9", NoiseColor>>, s, cells[i]) = tty_write_cell(s, cells[i][1], cells[i][2], "9", NoiseColor)
    BY DEF Step
  <2>2. "9" \in Characters /\ NoiseColor \in Colors
    BY SpaceIsCharacter, EditorAssumption DEF Colors
  <2>3. PICK row, col : row = cells[i][1] /\ col = cells[i][2]
    OBVIOUS
  <2>4. Settled(tty_write_cell(s, row, col, "9", NoiseColor))
    BY <2>2, CellSettles
  <2> QED BY <2>1, <2>3, <2>4
<1>2. Len(cells) \in Nat
  OBVIOUS
<1>3. PICK w : Steps(w, "cell", <<"9", NoiseColor>>, t, cells, Len(cells)) /\ Frame(t, cells) = w[Len(cells)]
  BY FrameSteps
<1>4. Settled(w[Len(cells)])
  BY <1>1, <1>2, <1>3, StepsSettle
<1> QED BY <1>3, <1>4

\* The commands leave the terminal settled and a new prompt behind them.
LEMMA CommandKeeps ==
  ASSUME EditInv, NEW text \in Outputs, CommandWrites(text)
  PROVE  EditInv' /\ RowShown'
<1>1. NewPrompt(tty_write(tty, text)) /\ UNCHANGED ring
  BY DEF CommandWrites
<1>2. text \in Seq(Characters)
  <2>1. text \in Seq(Range(text)) /\ Range(text) \subseteq Characters
    BY Texts
  <2> QED BY <2>1, SeqMore
<1>3. Settled(tty_write(tty, text))
  BY <1>2, EditFacts, WriteSettles
<1>4. Ring'
  BY <1>1, EditFacts DEF ring, Ring
<1> QED BY <1>1, <1>3, <1>4, PromptKeeps

\* clear leaves a blank screen and a prompt.
LEMMA ClearKeeps ==
  ASSUME EditInv, clear_handler
  PROVE  EditInv' /\ RowShown'
<1>1. NewPrompt(tty_clear(tty)) /\ UNCHANGED ring
  BY DEF clear_handler
<1>2. Settled(tty_clear(tty))
  BY EditFacts, ClearSettles
<1>3. Ring'
  BY <1>1, EditFacts DEF ring, Ring
<1> QED BY <1>1, <1>2, <1>3, PromptKeeps

\* noise fills the screen, cell by cell.
LEMMA NoiseKeeps ==
  ASSUME EditInv, draw_noise_frame("9")
  PROVE  EditInv' /\ RowShown'
<1> DEFINE n == TTY_ROWS * TTY_COLS
           cells == [i \in 1 .. n |-> <<(i - 1) \div TTY_COLS, (i - 1) % TTY_COLS>>]
           S == {cells[i] : i \in 1 .. n}
<1>1. /\ at = "run" /\ at' = "noise" /\ tty' = Frame(tty_clear(tty), cells)
      /\ UNCHANGED <<edit, browse, ring, keys, seen>>
  BY DEF draw_noise_frame, Frame
<1>2. n \in Nat
  BY TerminalAssumption
<1>3. cells \in [1 .. n -> S]
  OBVIOUS
<1> HIDE DEF n, cells, S
<1>4. cells \in Seq(S)
  BY <1>2, <1>3, RangeIsSeq
<1>5. Settled(tty_clear(tty))
  BY EditFacts, ClearSettles
<1>6. Settled(tty')
  BY <1>1, <1>4, <1>5, FrameSettles
<1>7. Ring' /\ Browsing' /\ Editing' /\ Flags'
  BY <1>1 DEF EditInv, Ring, Browsing, Editing, Flags, edit, browse, ring, Holds
<1>8. RowShown'
  BY <1>1 DEF RowShown
<1> QED BY <1>6, <1>7, <1>8 DEF EditInv

\* When noise ends the screen is cleared.
LEMMA NoiseEndKeeps ==
  ASSUME EditInv, noise_handler
  PROVE  EditInv' /\ RowShown'
<1>1. PICK text \in {<<>>, <<"N", Newline>>} : NewPrompt(tty_write(tty_clear(tty), text))
  BY DEF noise_handler
<1>2. text \in Seq(Characters)
  <2>1. CASE text = <<>>
    BY <2>1
  <2>2. CASE text = <<"N", Newline>>
    BY <2>2, SpaceIsCharacter
  <2> QED BY <2>1, <2>2
<1>3. Settled(tty_clear(tty))
  BY EditFacts, ClearSettles
<1>4. Settled(tty_write(tty_clear(tty), text))
  BY <1>2, <1>3, WriteSettles
<1>5. Ring'
  BY EditFacts DEF noise_handler, ring, Ring
<1> QED BY <1>1, <1>4, <1>5, PromptKeeps

\* The first prompt is shown on a blank screen.
LEMMA InitKeeps == Init => EditInv /\ RowShown
<1> SUFFICES ASSUME Init PROVE EditInv /\ RowShown
  OBVIOUS
<1> DEFINE t == tty_init(DefaultColor)
<1>1. /\ at = "read" /\ tty = tty_write(t, Prompt)
      /\ buffer = [i \in Index |-> Junk] /\ len = 0 /\ cursor_pos = 0
      /\ history_offset = -1 /\ saved_current = <<>> /\ saved_current_valid = FALSE
      /\ history = [i \in 0 .. HISTORY_SIZE - 1 |-> <<>>] /\ history_head = 0 /\ history_count = 0
      /\ seen = [fits |-> PromptFits, clean |-> PromptFits]
  BY DEF Init
<1>2. /\ Prompt \in Seq(Characters) /\ Len(Prompt) \in Nat
      /\ \A i \in 1 .. Len(Prompt) : Plain(Prompt[i])
  BY LineCharsPlain
<1>3. /\ Settled(t) /\ t.color = DefaultColor /\ t.row = 0 /\ t.col = 0
      /\ t.cells = [r \in Rows |-> BlankRow(DefaultColor)]
  BY InitSettles
<1> HIDE DEF t
<1>4. Settled(tty)
  BY <1>1, <1>2, <1>3, WriteSettles
<1>5. ASSUME PromptFits PROVE Fills(t, tty, Prompt)
  <2>1. t.col + Len(Prompt) < TTY_COLS
    BY <1>2, <1>3, <1>5 DEF PromptFits
  <2> QED BY <1>1, <1>2, <1>3, <2>1, WriteFills
<1>6. <<>> \in TextLines
  BY EditorAssumption DEF TextLines
<1>7. Ring
  BY <1>1, <1>6, EditorAssumption DEF Ring
<1>8. Browsing
  <2>1. -1 \in -1 .. history_count - 1
    BY <1>1, NoOffset
  <2>2. FALSE \in BOOLEAN
    OBVIOUS
  <2> QED BY <1>1, <1>6, <2>1, <2>2 DEF Browsing
<1>9. Editing
  <2>1. Holds([i \in Index |-> Junk], 0)
    BY EditorAssumption DEF Holds, Bytes
  <2> QED BY <1>1, <2>1 DEF Editing
<1>10. Flags
  <2>1. PromptFits \in BOOLEAN
    BY DEF PromptFits
  <2> QED BY <1>1, <2>1 DEF Flags
<1>11. CASE ~PromptFits
  <2>1. ~seen.fits /\ ~seen.clean
    BY <1>1, <1>11
  <2>2. RowShown
    BY <2>1 DEF RowShown
  <2> QED BY <1>4, <1>7, <1>8, <1>9, <1>10, <2>2 DEF EditInv
<1>12. CASE PromptFits
  <2>1. tty.row = 0 /\ tty.col = Len(Prompt) + cursor_pos /\ 0 \in Rows
    BY <1>1, <1>2, <1>3, <1>5, <1>12, TerminalAssumption DEF Fills, Rows
  <2>2. ASSUME NEW c \in Cols
        PROVE  /\ c < Len(Prompt) => tty.cells[tty.row][c].character = Prompt[c + 1]
               /\ ~(Len(Prompt) <= c /\ c < Len(Prompt) + len)
               /\ c >= Len(Prompt) + len => tty.cells[tty.row][c].character = Space
    <3>0. c \in Nat
      BY DEF Cols
    <3>1. tty.cells[0][c] = IF c \in 0 .. Len(Prompt) - 1
                            THEN [character |-> Prompt[c + 1], color |-> t.color] ELSE Blank(DefaultColor)
      <4>1. t.col .. t.col + Len(Prompt) - 1 = 0 .. Len(Prompt) - 1 /\ c - t.col + 1 = c + 1
        BY <1>2, <1>3, <3>0
      <4>2. t.cells[0][c] = Blank(DefaultColor)
        BY <1>3, <2>1 DEF BlankRow
      <4> QED BY <1>3, <1>5, <1>12, <2>1, <4>1, <4>2 DEF Fills
    <3>2. c < Len(Prompt) <=> c \in 0 .. Len(Prompt) - 1
      BY <1>2, <3>0
    <3>3. c >= Len(Prompt) + len => c \notin 0 .. Len(Prompt) - 1
      BY <1>1, <1>2, <3>0
    <3>4. ~(Len(Prompt) <= c /\ c < Len(Prompt) + len)
      BY <1>1, <1>2, <3>0
    <3> QED BY <2>1, <3>1, <3>2, <3>3, <3>4 DEF Blank
  <2>3. Len(Prompt) + len < TTY_COLS /\ seen.fits
    <3>1. seen.fits
      BY <1>1, <1>12
    <3>2. Len(Prompt) + len < TTY_COLS
      BY <1>1, <1>2, <1>12 DEF PromptFits
    <3> QED BY <3>1, <3>2
  <2>4. RowShown
    BY <2>1, <2>2, <2>3 DEF RowShown
  <2> QED BY <1>4, <1>7, <1>8, <1>9, <1>10, <2>4 DEF EditInv
<1> QED BY <1>11, <1>12

(* Tab completion.                                                         *)

\* The Min of numbers is the least of them.
LEMMA LeastIsMin ==
  ASSUME NEW S, S \subseteq Nat, S # {}
  PROVE  Min(S) \in S /\ \A y \in S : Min(S) <= y
  BY LeastNumber DEF Min

\* Two names begin with the same n characters.
Shared(a, b, n) == n <= Len(a) /\ n <= Len(b) /\ \A i \in 1 .. n : a[i] = b[i]

\* common_prefix_len counts the characters two names share.
LEMMA CommonPrefix ==
  ASSUME NEW S, NEW a \in Seq(S), NEW b \in Seq(S), NEW k, k = common_prefix_len(a, b)
  PROVE  k \in Nat /\ Shared(a, b, k) /\ \A m \in Nat : Shared(a, b, m) => m <= k
<1> DEFINE l == Min({Len(a), Len(b)})
           N == {n \in 0 .. l : \A i \in 1 .. n : a[i] = b[i]}
<1>1. l \in Nat /\ l <= Len(a) /\ l <= Len(b) /\ (l = Len(a) \/ l = Len(b))
  <2>1. {Len(a), Len(b)} \subseteq Nat /\ {Len(a), Len(b)} # {}
    OBVIOUS
  <2>2. l \in {Len(a), Len(b)} /\ \A y \in {Len(a), Len(b)} : l <= y
    BY <2>1, LeastIsMin
  <2> QED BY <2>1, <2>2
<1>2. k = Max(N)
  BY DEF common_prefix_len
<1> HIDE DEF l
<1>3. N \subseteq 0 .. l
  OBVIOUS
<1>4. 0 \in N
  BY <1>1
<1>5. ASSUME NEW m \in Nat PROVE m \in N <=> Shared(a, b, m)
  BY <1>1 DEF Shared
<1> HIDE DEF N
<1>6. Max(N) \in N /\ \A y \in N : y <= Max(N)
  BY <1>1, <1>3, <1>4, GreatestNumber
<1>7. k \in N /\ \A y \in N : y <= k
  BY <1>2, <1>6
<1>8. k \in Nat
  BY <1>1, <1>3, <1>7
<1>9. Shared(a, b, k)
  BY <1>5, <1>7, <1>8
<1>10. \A m \in Nat : Shared(a, b, m) => m <= k
  BY <1>5, <1>7
<1> QED BY <1>8, <1>9, <1>10

\* The names found share k characters and no more.
Longest(found, k) ==
  /\ k \in Nat /\ k <= Len(FirstName(found))
  /\ \A i \in found : Shared(FirstName(found), Commands[i], k)
  /\ \A m \in Nat : (\A i \in found : Shared(FirstName(found), Commands[i], m)) => m <= k
Names(found) == found \subseteq 1 .. Len(Commands) /\ found # {}

\* The first name found is one of them.
LEMMA FirstOf ==
  ASSUME NEW found, Names(found)
  PROVE  /\ Min(found) \in found /\ FirstName(found) = Commands[Min(found)]
         /\ FirstName(found) \in Seq(LineChars) /\ Len(FirstName(found)) \in Nat
<1>1. found \subseteq Nat /\ found # {}
  BY DEF Names
<1>2. Min(found) \in found
  BY <1>1, LeastIsMin
<1>3. Min(found) \in 1 .. Len(Commands)
  BY <1>2 DEF Names
<1>4. Commands[Min(found)] \in Seq(LineChars)
  BY <1>3, NameText
<1> QED BY <1>2, <1>4 DEF FirstName

\* The least of the lengths shared with the first name is shared by all.
LEMMA SharedLen ==
  ASSUME NEW found, Names(found),
         NEW k, k = Min({common_prefix_len(FirstName(found), Commands[i]) : i \in found})
  PROVE  Longest(found, k)
<1> DEFINE first == FirstName(found)
           N == {common_prefix_len(first, Commands[i]) : i \in found}
<1>1. first \in Seq(LineChars) /\ Len(first) \in Nat
  BY FirstOf
<1>2. ASSUME NEW i \in found
      PROVE  LET l == common_prefix_len(first, Commands[i])
             IN  l \in Nat /\ Shared(first, Commands[i], l)
                   /\ \A m \in Nat : Shared(first, Commands[i], m) => m <= l
  <2>1. Commands[i] \in Seq(LineChars)
    BY NameText DEF Names
  <2>2. PICK l : l = common_prefix_len(first, Commands[i])
    OBVIOUS
  <2> HIDE DEF first
  <2>3. l \in Nat /\ Shared(first, Commands[i], l) /\ \A m \in Nat : Shared(first, Commands[i], m) => m <= l
    BY <1>1, <2>1, <2>2, CommonPrefix
  <2> QED BY <2>2, <2>3
<1>3. k = Min(N)
  OBVIOUS
<1>4. N \subseteq Nat /\ N # {}
  BY <1>2 DEF Names
<1>5. PICK j \in found : k = common_prefix_len(first, Commands[j])
  <2>1. Min(N) \in N
    BY <1>4, LeastIsMin
  <2> QED BY <1>3, <2>1
<1>6. ASSUME NEW i \in found PROVE k <= common_prefix_len(first, Commands[i])
  <2>1. common_prefix_len(first, Commands[i]) \in N
    OBVIOUS
  <2>2. \A y \in N : Min(N) <= y
    BY <1>4, LeastIsMin
  <2> QED BY <1>3, <2>1, <2>2
<1> HIDE DEF first, N
<1>7. k \in Nat /\ k <= Len(first)
  BY <1>2, <1>5 DEF Shared
<1>8. ASSUME NEW i \in found PROVE Shared(first, Commands[i], k)
  <2>1. PICK l \in Nat : l = common_prefix_len(first, Commands[i])
    BY <1>2
  <2>2. Shared(first, Commands[i], l) /\ k <= l
    BY <1>2, <1>6, <2>1
  <2>3. Len(Commands[i]) \in Nat
    BY NameText DEF Names
  <2>4. \A x \in 1 .. k : x \in 1 .. l
    BY <1>7, <2>1, <2>2
  <2>5. l <= Len(first) /\ l <= Len(Commands[i]) /\ \A x \in 1 .. l : first[x] = Commands[i][x]
    BY <2>2 DEF Shared
  <2>6. k <= Len(first) /\ k <= Len(Commands[i])
    BY <1>1, <1>7, <2>1, <2>2, <2>3, <2>5
  <2>7. \A x \in 1 .. k : first[x] = Commands[i][x]
    BY <2>4, <2>5
  <2> QED BY <2>6, <2>7 DEF Shared
<1>9. ASSUME NEW m \in Nat, \A i \in found : Shared(first, Commands[i], m) PROVE m <= k
  BY <1>2, <1>5, <1>9
<1> QED BY <1>7, <1>8, <1>9 DEF Longest, first

\* The names that begin with a line share its characters.
LEMMA MatchesShare ==
  ASSUME NEW b, NEW n, Holds(b, n), NEW found, found = Matches(Text(b, n)), found # {}
  PROVE  /\ Names(found)
         /\ \A i \in found : n <= Len(Commands[i]) /\ \A j \in 1 .. n : Commands[i][j] = b[j - 1]
         /\ \A i \in found : Shared(FirstName(found), Commands[i], n)
<1>1. Names(found)
  BY DEF Names, Matches
<1>2. ASSUME NEW i \in found
      PROVE  n <= Len(Commands[i]) /\ \A j \in 1 .. n : Commands[i][j] = b[j - 1]
  <2>1. command_matches_prefix(Commands[i], Text(b, n))
    BY DEF Matches
  <2> QED BY <2>1, TextOf DEF command_matches_prefix
<1>3. Min(found) \in found /\ FirstName(found) = Commands[Min(found)]
  BY <1>1, FirstOf
<1>4. \A i \in found : Shared(FirstName(found), Commands[i], n)
  BY <1>2, <1>3 DEF Shared
<1> QED BY <1>1, <1>2, <1>4

\* What Tab appends: the rest of what the names found share, as far as the
\* buffer has room, and a space behind a name that is complete.
Cut(k) == IF k < CAPACITY - 1 THEN k ELSE CAPACITY - 1
Rest(found, n, k) == SubSeq(FirstName(found), n + 1, Cut(k))
Closed(found, k) == Cardinality(found) = 1 /\ Cut(k) = Len(FirstName(found)) /\ Cut(k) < CAPACITY - 1
Completed(text, found, n, k) ==
  text = IF Closed(found, k) THEN Append(Rest(found, n, k), Space) ELSE Rest(found, n, k)

\* Its length and its characters.
LEMMA RestText ==
  ASSUME NEW found, Names(found), NEW k, Longest(found, k), NEW n \in Nat, n <= k, n <= CAPACITY - 1
  PROVE  /\ Rest(found, n, k) \in Seq(LineChars) /\ Len(Rest(found, n, k)) = Cut(k) - n
         /\ Cut(k) \in Nat /\ n <= Cut(k) /\ Cut(k) <= k /\ Cut(k) <= CAPACITY - 1
         /\ \A i \in 1 .. Cut(k) - n : Rest(found, n, k)[i] = FirstName(found)[n + i]
<1>1. CAPACITY \in Nat /\ k \in Nat /\ k <= Len(FirstName(found))
  BY EditorAssumption DEF Longest
<1>2. Cut(k) \in Nat /\ n <= Cut(k) /\ Cut(k) <= k /\ Cut(k) <= CAPACITY - 1
  BY <1>1, EditorAssumption DEF Cut
<1>3. PICK c \in Nat : c = Cut(k)
  BY <1>2
<1>4. PICK f \in Seq(LineChars) : f = FirstName(found)
  BY FirstOf
<1>5. c <= Len(f) /\ n <= c
  BY <1>1, <1>2, <1>3, <1>4
<1>6. /\ SubSeq(f, n + 1, c) \in Seq(LineChars) /\ Len(SubSeq(f, n + 1, c)) = c - n
      /\ \A i \in 1 .. c - n : SubSeq(f, n + 1, c)[i] = f[n + i]
  BY <1>5
<1> QED BY <1>2, <1>3, <1>4, <1>6 DEF Rest

\* CompletionText is that.
LEMMA CompletionIs ==
  ASSUME NEW b, NEW n, Holds(b, n), NEW found, found = Matches(Text(b, n)), found # {}
  PROVE  \E k : Longest(found, k) /\ n <= k /\ Completed(CompletionText(found, n), found, n, k)
<1> DEFINE k == Min({common_prefix_len(FirstName(found), Commands[i]) : i \in found})
<1>1. Names(found) /\ \A i \in found : Shared(FirstName(found), Commands[i], n)
  BY MatchesShare
<1>2. Longest(found, k)
  BY <1>1, SharedLen
<1>3. CAPACITY \in Nat /\ n \in Nat /\ n <= CAPACITY - 1
  BY HoldsBytes
<1>4. n <= k /\ k \in Nat
  BY <1>1, <1>2, <1>3 DEF Longest
<1>5. /\ Rest(found, n, k) \in Seq(LineChars) /\ Len(Rest(found, n, k)) = Cut(k) - n
      /\ Cut(k) \in Nat /\ n <= Cut(k) /\ Cut(k) <= k /\ Cut(k) <= CAPACITY - 1
  BY <1>1, <1>2, <1>3, <1>4, RestText
<1> DEFINE room == CAPACITY - 1 - n
           to_add == IF k > n THEN Min({k - n, room}) ELSE 0
<1>6. Appended(found, n) = SubSeq(FirstName(found), n + 1, n + to_add)
  BY DEF Appended
<1> HIDE DEF k
<1>7. n + to_add = Cut(k)
  <2>1. CASE k > n
    <3>1. {k - n, room} \subseteq Nat /\ {k - n, room} # {}
      BY <1>3, <1>4, <2>1
    <3>2. Min({k - n, room}) \in {k - n, room} /\ \A y \in {k - n, room} : Min({k - n, room}) <= y
      BY <3>1, LeastIsMin
    <3> QED BY <1>3, <1>4, <2>1, <3>1, <3>2 DEF Cut
  <2>2. CASE ~(k > n)
    <3>1. k = n /\ to_add = 0
      BY <1>3, <1>4, <2>2
    <3> QED BY <1>3, <3>1 DEF Cut
  <2> QED BY <2>1, <2>2
<1>8. Appended(found, n) = Rest(found, n, k)
  BY <1>6, <1>7 DEF Rest
<1>9. n + Len(Appended(found, n)) = Cut(k)
  BY <1>3, <1>5, <1>8
<1>10. Cut(k) + 1 < CAPACITY <=> Cut(k) < CAPACITY - 1
  BY <1>3, <1>5
<1>11. Completed(CompletionText(found, n), found, n, k)
  BY <1>8, <1>9, <1>10 DEF CompletionText, Completed, Closed
<1> QED BY <1>2, <1>4, <1>11

\* It is a text a line has room for.
LEMMA CompletionFits ==
  ASSUME NEW b, NEW n, Holds(b, n), NEW found, found = Matches(Text(b, n)), found # {}
  PROVE  CompletionText(found, n) \in Seq(LineChars) /\ n + Len(CompletionText(found, n)) <= CAPACITY - 1
<1>1. PICK k : Longest(found, k) /\ n <= k /\ Completed(CompletionText(found, n), found, n, k)
  BY CompletionIs
<1>2. Names(found) /\ n \in Nat /\ n <= CAPACITY - 1 /\ CAPACITY \in Nat
  BY MatchesShare, HoldsBytes
<1>3. /\ Rest(found, n, k) \in Seq(LineChars) /\ Len(Rest(found, n, k)) = Cut(k) - n
      /\ Cut(k) \in Nat /\ n <= Cut(k) /\ Cut(k) <= CAPACITY - 1
  BY <1>1, <1>2, RestText
<1>4. CASE Closed(found, k)
  <2>1. CompletionText(found, n) = Append(Rest(found, n, k), Space) /\ Cut(k) < CAPACITY - 1
    BY <1>1, <1>4 DEF Completed, Closed
  <2>2. Space \in LineChars
    BY DEF LineChars
  <2>3. /\ Append(Rest(found, n, k), Space) \in Seq(LineChars)
        /\ Len(Append(Rest(found, n, k), Space)) = Cut(k) - n + 1
    BY <1>3, <2>2
  <2> QED BY <1>2, <1>3, <2>1, <2>3
<1>5. CASE ~Closed(found, k)
  BY <1>1, <1>2, <1>3, <1>5 DEF Completed
<1> QED BY <1>4, <1>5

\* What Tab does: names are listed or the bell is drawn (own is FALSE),
\* nothing, or a text is appended.
Untouched(done, b, n) == done.buffer = b /\ done.len = n
Extended(done, t, b, n, text) ==
  /\ done.tty = tty_write(t, text) /\ done.len = n + Len(text)
  /\ done.buffer = NullTerminated(memcpy(b, n, text), n + Len(text))

\* One of the three happens, and the terminal is settled behind it.
LEMMA TabDoes ==
  ASSUME NEW t, Settled(t), NEW b, NEW n, Holds(b, n), NEW pos \in 0 .. n,
         NEW done, done = handle_tab_completion(t, b, n, pos)
  PROVE  /\ Settled(done.tty) /\ Holds(done.buffer, done.len) /\ done.own \in BOOLEAN /\ n <= done.len
         /\ \/ Untouched(done, b, n) /\ (done.own => done.tty = t)
            \/ /\ n # 0 /\ Space \notin Range(Text(b, n)) /\ pos = n /\ Matches(Text(b, n)) # {}
               /\ \E text \in Seq(LineChars) :
                    /\ text = CompletionText(Matches(Text(b, n)), n) /\ n + Len(text) <= CAPACITY - 1
                    /\ Extended(done, t, b, n, text)
<1> DEFINE line == Text(b, n)
           found == Matches(line)
           text == CompletionText(found, n)
           listed == list_matches(t, b, n)
           bell == tty_putc(t, Bell)
           more == tty_write(t, text)
           grown == NullTerminated(memcpy(b, n, text), n + Len(text))
<1>1. \/ done = [tty |-> listed, buffer |-> b, len |-> n, own |-> FALSE]
      \/ done = [tty |-> bell, buffer |-> b, len |-> n, own |-> FALSE]
      \/ done = [tty |-> t, buffer |-> b, len |-> n, own |-> TRUE]
      \/ /\ n # 0 /\ Space \notin Range(line) /\ pos = n /\ found # {}
         /\ done = [tty |-> more, buffer |-> grown, len |-> n + Len(text), own |-> TRUE]
  BY DEF handle_tab_completion
<1>2. Settled(listed) /\ Settled(bell)
  BY ListSettles, SpaceIsCharacter, PutcSettles
<1>3. n \in Nat
  BY HoldsBytes
<1>4. CASE \/ done = [tty |-> listed, buffer |-> b, len |-> n, own |-> FALSE]
           \/ done = [tty |-> bell, buffer |-> b, len |-> n, own |-> FALSE]
           \/ done = [tty |-> t, buffer |-> b, len |-> n, own |-> TRUE]
  <2> HIDE DEF line, found, text, listed, bell, more, grown
  <2>1. Settled(done.tty) /\ done.buffer = b /\ done.len = n
    BY <1>2, <1>4
  <2>2. (done.own = FALSE) \/ (done.own = TRUE /\ done.tty = t)
    BY <1>4
  <2>3. done.own \in BOOLEAN /\ (done.own => done.tty = t)
    BY <2>2
  <2> QED BY <1>3, <2>1, <2>3 DEF Untouched
<1>5. CASE /\ n # 0 /\ Space \notin Range(line) /\ pos = n /\ found # {}
           /\ done = [tty |-> more, buffer |-> grown, len |-> n + Len(text), own |-> TRUE]
  <2>1. text \in Seq(LineChars) /\ n + Len(text) <= CAPACITY - 1
    BY <1>5, CompletionFits
  <2>2. text \in Seq(Characters) /\ Len(text) \in Nat
    BY <2>1, LineCharsPlain, SeqMore
  <2> HIDE DEF text
  <2>3. Settled(more)
    BY <2>2, WriteSettles
  <2>4. Holds(grown, n + Len(text))
    <3>1. b \in [Index -> Bytes] /\ \A i \in 0 .. n - 1 : b[i] \in LineChars
      BY DEF Holds
    <3> QED BY <1>3, <2>1, <3>1, CopyHolds
  <2>5. done.tty = more /\ done.buffer = grown /\ done.len = n + Len(text) /\ done.own = TRUE
    BY <1>5
  <2>6. Extended(done, t, b, n, text)
    BY <2>5 DEF Extended
  <2>7. n <= n + Len(text)
    BY <1>3, <2>2
  <2> HIDE DEF more, grown
  <2> QED BY <1>5, <2>1, <2>3, <2>4, <2>5, <2>6, <2>7 DEF text
<1> QED BY <1>1, <1>4, <1>5

\* Behind the line that Tab leaves the row is blank, if it was.
LEMMA TabRow ==
  ASSUME EditInv, RowShown, at = "read", seen.clean,
         NEW done, done = handle_tab_completion(tty, buffer, len, cursor_pos),
         done.own, Fits(done.len, done.len), NEW c \in Cols, c >= Len(Prompt) + done.len
  PROVE  done.tty.cells[done.tty.row][c].character = Space
<1> DEFINE L == Len(Prompt)
<1>1. /\ Settled(tty) /\ Holds(buffer, len) /\ cursor_pos \in 0 .. len /\ len \in Nat /\ c \in Nat
      /\ L \in Nat /\ TTY_COLS \in Nat
  BY EditFacts, LineCharsPlain, TerminalAssumption DEF Cols
<1>2. /\ tty.col = L + cursor_pos
      /\ \A x \in Cols : x >= L + len => tty.cells[tty.row][x].character = Space
  BY DEF RowShown
<1> HIDE DEF L
<1>3. /\ len <= done.len /\ Holds(done.buffer, done.len)
      /\ \/ Untouched(done, buffer, len) /\ (done.own => done.tty = tty)
         \/ /\ cursor_pos = len
            /\ \E text \in Seq(LineChars) : Extended(done, tty, buffer, len, text)
  BY <1>1, TabDoes
<1>4. done.len \in Nat /\ L + done.len < TTY_COLS /\ c >= L + len
  BY <1>1, <1>3, HoldsBytes DEF Fits, L
<1>5. tty.cells[tty.row][c].character = Space
  BY <1>2, <1>4
<1>6. CASE done.tty = tty
  BY <1>5, <1>6
<1>7. CASE done.tty # tty
  <2>1. PICK text \in Seq(LineChars) : Extended(done, tty, buffer, len, text)
    BY <1>3, <1>7
  <2>2. cursor_pos = len /\ done.tty = tty_write(tty, text) /\ done.len = len + Len(text) /\ Len(text) \in Nat
    BY <1>3, <1>7, <2>1 DEF Extended
  <2>3. text \in Seq(Characters) /\ \A i \in 1 .. Len(text) : Plain(text[i])
    BY LineCharsPlain, SeqMore
  <2>4. tty.col + Len(text) < TTY_COLS /\ tty.col + Len(text) = L + done.len
    BY <1>1, <1>2, <1>4, <2>2
  <2>5. Fills(tty, done.tty, text)
    BY <1>1, <2>2, <2>3, <2>4, WriteFills
  <2>6. c \notin tty.col .. tty.col + Len(text) - 1
    BY <1>1, <1>2, <1>4, <2>2, <2>4 DEF L
  <2>7. done.tty.row = tty.row /\ tty.row \in Rows
    BY <1>1, <2>5, SettledRange DEF Fills
  <2>8. done.tty.cells[tty.row][c] = tty.cells[tty.row][c]
    BY <2>5, <2>6, <2>7 DEF Fills
  <2> QED BY <1>5, <2>7, <2>8
<1> QED BY <1>6, <1>7

\* Tab leaves a line the row shows.
LEMMA TabKeeps ==
  ASSUME EditInv, RowShown, TabKey
  PROVE  EditInv' /\ RowShown'
<1>1. PICK done : done = handle_tab_completion(tty, buffer, len, cursor_pos)
  OBVIOUS
<1>2. /\ Settled(tty) /\ Holds(buffer, len) /\ cursor_pos \in 0 .. len /\ len \in Nat
      /\ Len(Prompt) \in Nat /\ TTY_COLS \in Nat
  BY EditFacts, LineCharsPlain, TerminalAssumption
<1>3. (IF len = 0 THEN 0 ELSE cursor_pos) = cursor_pos
  BY <1>2
<1>4. /\ at = "read" /\ buffer' = done.buffer /\ len' = done.len /\ cursor_pos' = cursor_pos
      /\ LeavesHistory /\ at' = at /\ UNCHANGED ring
      /\ tty' = refresh_prompt_line(done.tty, done.buffer, done.len, done.len, cursor_pos)
      /\ seen' = [fits |-> Fits(done.len, done.len),
                  clean |-> seen.clean /\ done.own /\ Fits(done.len, done.len)]
  BY <1>1, <1>3 DEF TabKey, KeyTyped
<1>5. Settled(done.tty) /\ Holds(done.buffer, done.len) /\ done.own \in BOOLEAN /\ len <= done.len
  BY <1>1, <1>2, TabDoes
<1>6. done.len \in Nat /\ cursor_pos \in 0 .. done.len
  BY <1>2, <1>5, HoldsBytes
<1>7. PICK t, b, n : t = done.tty /\ b = done.buffer /\ n = done.len
  OBVIOUS
<1>8. /\ Settled(tty')
      /\ Fits(n, n) => Shown(t, tty', b, n, n, cursor_pos)
  BY <1>4, <1>5, <1>6, <1>7, RefreshSettles
<1>9. Ring' /\ Browsing'
  BY <1>4, LeavingKeeps
<1>10. Editing'
  BY <1>4, <1>5, <1>6 DEF Editing
<1>11. Fits(n, n) \in BOOLEAN
  BY DEF Fits
<1>12. Flags'
  BY <1>4, <1>5, <1>7, <1>11 DEF EditInv, Flags
<1>13. seen'.fits = Fits(n, n) /\ seen'.clean = (seen.clean /\ done.own /\ Fits(n, n))
  BY <1>4, <1>7
<1>14. RowShown'
  <2>1. CASE ~Fits(n, n)
    BY <1>13, <2>1 DEF RowShown
  <2>2. CASE Fits(n, n)
    <3>1. Shown(t, tty', b, n, n, cursor_pos)
      BY <1>8, <2>2
    <3>2. Len(Prompt) + n < TTY_COLS /\ n \in Nat
      BY <1>2, <1>6, <1>7, <2>2 DEF Fits
    <3>3. ASSUME NEW c \in Cols
          PROVE  /\ c < Len(Prompt) => tty'.cells[tty'.row][c].character = Prompt[c + 1]
                 /\ Len(Prompt) <= c /\ c < Len(Prompt) + len' =>
                             tty'.cells[tty'.row][c].character = buffer'[c - Len(Prompt)]
                 /\ seen'.clean /\ c >= Len(Prompt) + len' => tty'.cells[tty'.row][c].character = Space
      <4>0. c \in Nat
        BY DEF Cols
      <4>1. tty'.row = t.row
        BY <3>1 DEF Shown
      <4>2. tty'.cells[t.row][c].character =
              IF c < Len(Prompt) THEN Prompt[c + 1]
              ELSE IF c < Len(Prompt) + n THEN b[c - Len(Prompt)]
              ELSE IF c < Len(Prompt) + n THEN Space
              ELSE t.cells[t.row][c].character
        BY <3>1 DEF Shown
      <4>3. c < Len(Prompt) => tty'.cells[tty'.row][c].character = Prompt[c + 1]
        BY <4>1, <4>2
      <4>4. Len(Prompt) <= c /\ c < Len(Prompt) + len' =>
                             tty'.cells[tty'.row][c].character = buffer'[c - Len(Prompt)]
        BY <1>2, <1>4, <1>7, <4>0, <4>1, <4>2
      <4>5. ASSUME seen'.clean, c >= Len(Prompt) + len'
            PROVE  tty'.cells[tty'.row][c].character = Space
        <5>1. ~(c < Len(Prompt)) /\ ~(c < Len(Prompt) + n) /\ c >= Len(Prompt) + done.len
          BY <1>2, <1>4, <1>7, <3>2, <4>0, <4>5
        <5>2. seen.clean /\ done.own /\ Fits(done.len, done.len)
          BY <1>7, <1>13, <4>5
        <5>3. done.tty.cells[done.tty.row][c].character = Space
          BY <1>1, <1>4, <5>1, <5>2, TabRow
        <5> QED BY <1>7, <4>1, <4>2, <5>1, <5>3
      <4> QED BY <4>3, <4>4, <4>5
    <3>4. tty'.col = Len(Prompt) + cursor_pos'
      BY <1>4, <3>1 DEF Shown
    <3>5. Len(Prompt) + len' < TTY_COLS
      BY <1>4, <1>7, <3>2
    <3> QED BY <1>13, <3>3, <3>4, <3>5, <2>2 DEF RowShown
  <2> QED BY <2>1, <2>2
<1> QED BY <1>8, <1>9, <1>10, <1>12, <1>14 DEF EditInv

(* The theorems about the screen of the editor.                            *)

\* Every step of the editor keeps the invariant.
LEMMA NextKeeps ==
  ASSUME EditInv, RowShown, [Next]_vars
  PROVE  EditInv' /\ RowShown'
<1>1. CASE UNCHANGED vars
  BY <1>1 DEF vars, edit, browse, ring, EditInv, RowShown, Ring, Browsing, Editing, Flags, Holds, Settled
<1>2. CASE Next
  BY <1>2, TypeCharKeeps, BackspaceKeeps, DeleteKeeps, CursorKeeps, ArrowUpKeeps, ArrowDownKeeps,
     TabKeeps, EnterKeeps, CtrlCKeeps, CommandKeeps, ClearKeeps, NoiseKeeps, NoiseEndKeeps DEF Next
<1> QED BY <1>1, <1>2

\* The invariant holds in every state of the editor.
LEMMA AlwaysEditing == Spec => [](EditInv /\ RowShown)
<1>1. Init => EditInv /\ RowShown
  BY InitKeeps
<1>2. (EditInv /\ RowShown) /\ [Next]_vars => (EditInv /\ RowShown)'
  <2>1. SUFFICES ASSUME EditInv, RowShown, [Next]_vars PROVE EditInv' /\ RowShown'
    OBVIOUS
  <2> QED BY <2>1, NextKeeps
<1> QED BY <1>1, <1>2, PTL DEF Spec

\* The screen shows the cells and one cursor block, at the cursor, whatever is
\* typed and whatever the commands write (tty_redraw_cursor, tty_scroll,
\* tty_putc, tty_write_cell).
THEOREM ScreenAlwaysFaithful == Spec => []ScreenFaithful
<1>1. EditInv => ScreenFaithful
  BY DEF EditInv, Settled, ScreenFaithful
<1> QED BY <1>1, AlwaysEditing, PTL

\* The row of the cursor shows the prompt and the line after every key that
\* redraws a line that fits, with the cursor at its place, and nothing of a
\* longer line stays behind it (refresh_prompt_line).
THEOREM LineAlwaysShown == Spec => []LineShown
<1>1. EditInv /\ RowShown => LineShown
  <2> SUFFICES ASSUME EditInv, RowShown PROVE LineShown
    OBVIOUS
  <2> DEFINE L == Len(Prompt)
             line == Prompt \o Text(buffer, len)
  <2>1. /\ Holds(buffer, len) /\ len \in Nat /\ L \in Nat /\ TTY_COLS \in Nat
        /\ Prompt \in Seq(Characters)
    BY EditFacts, LineCharsPlain, TerminalAssumption
  <2>2. Prompted(line, buffer, len)
    BY <2>1, PromptText
  <2>3. Len(line) = L + len
    BY <2>2 DEF Prompted
  <2>4. TypeOK
    <3>1. \A i \in 0 .. len - 1 : buffer[i] \notin {Junk, NUL}
      BY <2>1, HoldsBytes, LineCharsPlain
    <3> QED BY <3>1 DEF TypeOK, EditInv, Flags, Ring, Browsing, Editing, Holds
  <2>5. ASSUME at = "read", seen.fits
        PROVE  /\ \A i \in 1 .. Len(line) : tty.cells[tty.row][i - 1].character = line[i]
               /\ tty.col = L + cursor_pos
    <3>1. L + len < TTY_COLS /\ tty.col = L + cursor_pos
      BY <2>5 DEF RowShown
    <3>2. ASSUME NEW i \in 1 .. Len(line) PROVE tty.cells[tty.row][i - 1].character = line[i]
      <4>1. i - 1 \in Cols /\ i \in Nat
        BY <2>1, <2>3, <3>1 DEF Cols
      <4>2. CASE i - 1 < L
        <5>1. tty.cells[tty.row][i - 1].character = Prompt[(i - 1) + 1]
          BY <2>5, <4>1, <4>2 DEF RowShown
        <5>2. (i - 1) + 1 = i /\ i \in 1 .. L
          BY <2>1, <2>3, <4>1, <4>2
        <5> QED BY <2>2, <5>1, <5>2 DEF Prompted
      <4>3. CASE ~(i - 1 < L)
        <5>1. L <= i - 1 /\ i - 1 < L + len
          BY <2>1, <2>3, <4>1, <4>3
        <5>2. tty.cells[tty.row][i - 1].character = buffer[(i - 1) - L]
          BY <2>5, <4>1, <5>1 DEF RowShown
        <5>3. (i - 1) - L \in 0 .. len - 1 /\ L + 1 + ((i - 1) - L) = i
          BY <2>1, <2>3, <4>1, <5>1
        <5>4. line[i] = buffer[(i - 1) - L]
          BY <2>2, <5>3 DEF Prompted
        <5> QED BY <5>2, <5>4
      <4> QED BY <4>2, <4>3
    <3> QED BY <3>1, <3>2
  <2>6. ASSUME at = "read", seen.clean, NEW c \in Len(line) .. TTY_COLS - 1
        PROVE  tty.cells[tty.row][c].character = Space
    <3>1. c \in Cols /\ c >= L + len
      BY <2>1, <2>3 DEF Cols
    <3> QED BY <2>6, <3>1 DEF RowShown
  <2> HIDE DEF line
  <2> QED BY <2>4, <2>5, <2>6 DEF LineShown, line
<1> QED BY <1>1, AlwaysEditing, PTL

(* The editor implements EditedLine.                                       *)

\* l and r are the characters of the buffer left and right of pos.
Halves(l, r, b, n, pos) ==
  /\ l \in Seq(LineChars) /\ Len(l) = pos /\ \A i \in 1 .. pos : l[i] = b[i - 1]
  /\ r \in Seq(LineChars) /\ Len(r) = n - pos /\ \A i \in 1 .. n - pos : r[i] = b[pos + i - 1]

\* A buffer is split at the cursor.
LEMMA SplitText ==
  ASSUME NEW b, NEW n, Holds(b, n), NEW pos \in 0 .. n
  PROVE  Halves(Text(b, pos), SubSeq(Text(b, n), pos + 1, n), b, n, pos)
<1>1. Holds(b, pos)
  BY HoldsBytes DEF Holds
<1>2. Text(b, pos) \in Seq(LineChars) /\ Len(Text(b, pos)) = pos /\ \A i \in 1 .. pos : Text(b, pos)[i] = b[i - 1]
  BY <1>1, TextOf
<1>3. PICK s \in Seq(LineChars) : s = Text(b, n)
  BY TextOf
<1>4. Len(s) = n /\ n \in Nat /\ pos \in Nat /\ pos <= n /\ \A i \in 1 .. n : s[i] = b[i - 1]
  BY <1>3, TextOf
<1>5. /\ SubSeq(s, pos + 1, n) \in Seq(LineChars) /\ Len(SubSeq(s, pos + 1, n)) = n - pos
      /\ \A i \in 1 .. n - pos : SubSeq(s, pos + 1, n)[i] = s[pos + i]
  BY <1>4
<1>6. ASSUME NEW i \in 1 .. n - pos PROVE SubSeq(s, pos + 1, n)[i] = b[pos + i - 1]
  <2>1. pos + i \in 1 .. n /\ (pos + i) - 1 = pos + i - 1
    BY <1>4
  <2> QED BY <1>4, <1>5, <2>1
<1> QED BY <1>2, <1>3, <1>5, <1>6 DEF Halves

\* There is one way to split it.
LEMMA SplitUnique ==
  ASSUME NEW b, NEW n \in Nat, NEW pos \in 0 .. n, NEW l, NEW r, Halves(l, r, b, n, pos),
         NEW x, NEW y, Halves(x, y, b, n, pos)
  PROVE  l = x /\ r = y
<1>1. l = x
  BY SeqEqual DEF Halves
<1>2. r = y
  BY SeqEqual DEF Halves
<1> QED BY <1>1, <1>2

\* The two parts make the line.
LEMMA SplitJoins ==
  ASSUME NEW b, NEW n, Holds(b, n), NEW pos \in 0 .. n, NEW l, NEW r, Halves(l, r, b, n, pos)
  PROVE  l \o r = Text(b, n)
<1>1. n \in Nat /\ pos \in Nat /\ pos <= n
  BY HoldsBytes
<1>2. /\ Text(b, n) \in Seq(LineChars) /\ Len(Text(b, n)) = n
      /\ \A i \in 1 .. n : Text(b, n)[i] = b[i - 1]
  BY TextOf
<1>3. l \o r \in Seq(LineChars) /\ Len(l \o r) = n
  <2>1. l \in Seq(LineChars) /\ r \in Seq(LineChars) /\ Len(l) = pos /\ Len(r) = n - pos
    BY DEF Halves
  <2>2. Len(l \o r) = Len(l) + Len(r) /\ l \o r \in Seq(LineChars)
    BY <2>1
  <2> QED BY <1>1, <2>1, <2>2
<1>4. ASSUME NEW i \in 1 .. n PROVE (l \o r)[i] = b[i - 1]
  <2>1. CASE i <= pos
    <3>1. i \in 1 .. pos /\ i \in 1 .. Len(l)
      BY <1>1, <2>1 DEF Halves
    <3>2. (l \o r)[i] = l[i]
      BY <1>1, <2>1, <3>1 DEF Halves
    <3> QED BY <3>1, <3>2 DEF Halves
  <2>2. CASE i > pos
    <3>1. i - pos \in 1 .. n - pos /\ pos + (i - pos) - 1 = i - 1
      BY <1>1, <2>2
    <3>2. (l \o r)[i] = r[i - pos]
      BY <1>1, <2>2, <3>1 DEF Halves
    <3> QED BY <3>1, <3>2 DEF Halves
  <2>3. i <= pos \/ i > pos
    BY <1>1
  <2> QED BY <2>1, <2>2, <2>3
<1> QED BY <1>2, <1>3, <1>4, SeqEqual

\* What the abstract editor's text is, while a line is read and when it is not.
LEMMA TextReading ==
  ASSUME EditInv, Reading
  PROVE  /\ Halves(LeftText, RightText, buffer, len, cursor_pos)
         /\ LeftText \o RightText = Text(buffer, len)
         /\ Picked = history_offset + 1
         /\ Waiting = IF saved_current_valid THEN saved_current ELSE <<>>
         /\ RunText = <<>>
<1>1. Holds(buffer, len) /\ cursor_pos \in 0 .. len
  BY EditFacts
<1>2. Halves(LeftText, RightText, buffer, len, cursor_pos)
  BY <1>1, SplitText DEF LeftText, RightText
<1>3. LeftText \o RightText = Text(buffer, len)
  BY <1>1, <1>2, SplitJoins
<1> QED BY <1>2, <1>3 DEF Picked, Waiting, RunText

\* No line is read while a command runs.
LEMMA TextRunning ==
  ASSUME ~Reading
  PROVE  LeftText = <<>> /\ RightText = <<>> /\ Picked = 0 /\ Waiting = <<>>
  BY DEF LeftText, RightText, Picked, Waiting

\* While lines are read no command runs.
LEMMA StillEdits ==
  ASSUME Reading, Reading'
  PROVE  Abstract!Edits
  BY DEF RunText, Abstract!Edits

\* A ring that does not change remembers the same lines.
LEMMA SameEntered ==
  ASSUME UNCHANGED ring
  PROVE  Entered' = Entered
  BY DEF ring, Entered, history_get

\* A line that waits waits for the end of the browsing.
WaitInv == history_offset = -1 => saved_current_valid = FALSE

\* A step that changes the text leaves the history.
LEMMA WritesText ==
  ASSUME EditInv, LeavesHistory, UNCHANGED ring, Reading, Reading'
  PROVE  Abstract!Written /\ WaitInv'
<1>1. Picked' = 0
  <2>1. -1 + 1 = 0
    OBVIOUS
  <2> QED BY <2>1 DEF LeavesHistory, Picked
<1>2. Waiting' = <<>>
  BY DEF LeavesHistory, Waiting
<1>3. Entered' = Entered
  BY SameEntered
<1>4. WaitInv'
  BY DEF LeavesHistory, WaitInv
<1> QED BY <1>1, <1>2, <1>3, <1>4, StillEdits DEF Abstract!Written

\* A bell changes nothing of it.
LEMMA RingsRefines ==
  ASSUME WaitInv, Rings
  PROVE  UNCHANGED Abstract!avars /\ WaitInv'
<1>1. UNCHANGED <<at, edit, browse, ring>>
  BY DEF Rings
<1>2. Entered' = Entered
  BY <1>1, SameEntered
<1>3. /\ LeftText' = LeftText /\ RightText' = RightText /\ Picked' = Picked /\ Waiting' = Waiting
      /\ RunText' = RunText
  BY <1>1 DEF edit, browse, LeftText, RightText, Picked, Waiting, RunText, Reading, Text
<1>4. WaitInv'
  BY <1>1 DEF browse, WaitInv
<1> QED BY <1>2, <1>3, <1>4 DEF Abstract!avars

\* What a key does for the abstract editor.
Refines == [Abstract!ANext]_(Abstract!avars) /\ WaitInv'

\* A character is typed left of the cursor.
LEMMA TypeCharRefines ==
  ASSUME EditInv, EditInv', WaitInv, NEW ch \in Letters, TypeChar(ch)
  PROVE  Refines
<1>1. Reading
  BY DEF TypeChar, KeyTyped, Reading
<1>2. CASE len + 1 >= CAPACITY
  BY <1>2, RingsRefines DEF TypeChar, Refines
<1>3. CASE ~(len + 1 >= CAPACITY)
  <2>1. /\ buffer' = [memmove(buffer, cursor_pos + 1, cursor_pos, len - cursor_pos + 1) EXCEPT ![cursor_pos] = ch]
        /\ cursor_pos' = cursor_pos + 1 /\ len' = len + 1 /\ LeavesHistory /\ UNCHANGED <<at, ring>>
    BY <1>3 DEF TypeChar
  <2>2. /\ ch \in LineChars /\ len + 1 < CAPACITY /\ Reading' /\ len \in Nat /\ CAPACITY \in Nat
        /\ cursor_pos \in 0 .. len /\ cursor_pos \in Nat /\ Holds(buffer, len)
    BY <1>1, <1>3, <2>1, EditFacts DEF LineChars, Reading
  <2>3. PICK d : d = buffer'
    OBVIOUS
  <2>4. \A i \in 0 .. len : d[i] = IF i < cursor_pos THEN buffer[i] ELSE IF i = cursor_pos THEN ch ELSE buffer[i - 1]
    <3>1. With(d, buffer, len, cursor_pos, ch)
      BY <2>1, <2>2, <2>3, InsertHolds
    <3> QED BY <3>1 DEF With
  <2>5. Halves(LeftText, RightText, buffer, len, cursor_pos) /\ LeftText \o RightText = Text(buffer, len)
    BY <1>1, TextReading
  <2>6. Halves(LeftText', RightText', d, len + 1, cursor_pos + 1)
    <3>1. Holds(d, len + 1) /\ cursor_pos + 1 \in 0 .. len + 1
      BY <2>1, <2>2, <2>3, InsertHolds
    <3>2. LeftText' = Text(d, cursor_pos + 1)
      BY <2>1, <2>2, <2>3 DEF LeftText, Text
    <3>3. RightText' = SubSeq(Text(d, len + 1), (cursor_pos + 1) + 1, len + 1)
      BY <2>1, <2>2, <2>3 DEF RightText, Text
    <3> QED BY <3>1, <3>2, <3>3, SplitText
  <2>7. Halves(Append(LeftText, ch), RightText, d, len + 1, cursor_pos + 1)
    <3>1. Append(LeftText, ch) \in Seq(LineChars) /\ Len(Append(LeftText, ch)) = cursor_pos + 1
      BY <2>2, <2>5 DEF Halves
    <3>2. ASSUME NEW i \in 1 .. cursor_pos + 1 PROVE Append(LeftText, ch)[i] = d[i - 1]
      <4>1. i - 1 \in 0 .. len
        BY <2>2
      <4>2. CASE i <= cursor_pos
        <5>1. i \in 1 .. cursor_pos /\ i - 1 < cursor_pos
          BY <2>2, <4>2
        <5>2. Append(LeftText, ch)[i] = LeftText[i]
          BY <2>2, <2>5, <5>1 DEF Halves
        <5>3. LeftText[i] = buffer[i - 1]
          BY <2>5, <5>1 DEF Halves
        <5> QED BY <2>4, <4>1, <5>1, <5>2, <5>3
      <4>3. CASE ~(i <= cursor_pos)
        <5>1. i = cursor_pos + 1 /\ i - 1 = cursor_pos /\ ~(i - 1 < cursor_pos)
          BY <2>2, <4>3
        <5>2. Append(LeftText, ch)[i] = ch
          BY <2>2, <2>5, <5>1 DEF Halves
        <5> QED BY <2>4, <4>1, <5>1, <5>2
      <4> QED BY <4>2, <4>3
    <3>3. (len + 1) - (cursor_pos + 1) = len - cursor_pos
      BY <2>2
    <3>4. ASSUME NEW i \in 1 .. len - cursor_pos PROVE RightText[i] = d[(cursor_pos + 1) + i - 1]
      <4>1. /\ (cursor_pos + 1) + i - 1 \in 0 .. len /\ ~((cursor_pos + 1) + i - 1 < cursor_pos)
            /\ (cursor_pos + 1) + i - 1 # cursor_pos
            /\ ((cursor_pos + 1) + i - 1) - 1 = cursor_pos + i - 1
        BY <2>2
      <4>2. d[(cursor_pos + 1) + i - 1] = buffer[((cursor_pos + 1) + i - 1) - 1]
        BY <2>4, <4>1
      <4> QED BY <2>5, <4>1, <4>2 DEF Halves
    <3> QED BY <2>5, <3>1, <3>2, <3>3, <3>4 DEF Halves
  <2>8. LeftText' = Append(LeftText, ch) /\ RightText' = RightText
    <3>1. len + 1 \in Nat /\ cursor_pos + 1 \in 0 .. len + 1
      BY <2>2
    <3> QED BY <2>6, <2>7, <3>1, SplitUnique
  <2>9. Len(Abstract!Line) < CAPACITY - 1
    <3>1. Len(Text(buffer, len)) = len
      BY <2>2, TextOf
    <3> QED BY <2>2, <2>5, <3>1 DEF Abstract!Line
  <2>10. Abstract!Written /\ WaitInv'
    BY <1>1, <2>1, <2>2, WritesText
  <2>11. Abstract!ATypes(ch)
    BY <2>8, <2>9, <2>10 DEF Abstract!ATypes
  <2> QED BY <2>10, <2>11 DEF Refines, Abstract!ANext
<1> QED BY <1>2, <1>3

\* The text after a step, while a line is read.
LEMMA TextNext ==
  ASSUME EditInv', Reading'
  PROVE  Halves(LeftText', RightText', buffer', len', cursor_pos')
<1>1. PICK b, n, pos : b = buffer' /\ n = len' /\ pos = cursor_pos'
  OBVIOUS
<1>2. Holds(b, n) /\ pos \in 0 .. n
  BY <1>1 DEF EditInv, Editing
<1>3. LeftText' = Text(b, pos) /\ RightText' = SubSeq(Text(b, n), pos + 1, n)
  BY <1>1 DEF LeftText, RightText, Text
<1>4. Halves(Text(b, pos), SubSeq(Text(b, n), pos + 1, n), b, n, pos)
  BY <1>2, SplitText
<1> QED BY <1>1, <1>3, <1>4

\* The character before the cursor is taken out.
LEMMA EraseSplit ==
  ASSUME NEW b, NEW n \in Nat, NEW d, NEW p \in 0 .. n - 1, Without(d, b, n, p),
         NEW l, NEW r, Halves(l, r, b, n, p + 1)
  PROVE  Halves(SubSeq(l, 1, p), r, d, n - 1, p)
<1>1. /\ \A i \in 0 .. n - 2 : d[i] = IF i < p THEN b[i] ELSE b[i + 1]
      /\ p \in Nat /\ p <= n - 1
  BY DEF Without
<1>2. l \in Seq(LineChars) /\ Len(l) = p + 1 /\ \A i \in 1 .. p + 1 : l[i] = b[i - 1]
  BY DEF Halves
<1>3. /\ SubSeq(l, 1, p) \in Seq(LineChars) /\ Len(SubSeq(l, 1, p)) = p
      /\ \A i \in 1 .. p : SubSeq(l, 1, p)[i] = l[i]
  BY <1>1, <1>2
<1>4. ASSUME NEW i \in 1 .. p PROVE SubSeq(l, 1, p)[i] = d[i - 1]
  <2>1. i \in 1 .. p + 1 /\ i - 1 \in 0 .. n - 2 /\ i - 1 < p
    BY <1>1
  <2> QED BY <1>1, <1>2, <1>3, <2>1
<1>5. r \in Seq(LineChars) /\ Len(r) = n - (p + 1) /\ \A i \in 1 .. n - (p + 1) : r[i] = b[(p + 1) + i - 1]
  BY DEF Halves
<1>6. n - (p + 1) = (n - 1) - p
  BY <1>1
<1>7. ASSUME NEW i \in 1 .. (n - 1) - p PROVE r[i] = d[p + i - 1]
  <2>1. p + i - 1 \in 0 .. n - 2 /\ ~(p + i - 1 < p) /\ (p + i - 1) + 1 = (p + 1) + i - 1
    BY <1>1
  <2>2. d[p + i - 1] = b[(p + i - 1) + 1]
    BY <1>1, <2>1
  <2> QED BY <1>5, <1>6, <2>1, <2>2
<1>8. Len(r) = (n - 1) - p
  BY <1>5, <1>6
<1> QED BY <1>3, <1>4, <1>5, <1>7, <1>8 DEF Halves

\* The character behind the cursor is taken out.
LEMMA DeleteSplit ==
  ASSUME NEW b, NEW n \in Nat, NEW d, NEW p \in 0 .. n - 1, Without(d, b, n, p),
         NEW l, NEW r, Halves(l, r, b, n, p)
  PROVE  Halves(l, Tail(r), d, n - 1, p)
<1>1. /\ \A i \in 0 .. n - 2 : d[i] = IF i < p THEN b[i] ELSE b[i + 1]
      /\ p \in Nat /\ p <= n - 1
  BY DEF Without
<1>2. l \in Seq(LineChars) /\ Len(l) = p /\ \A i \in 1 .. p : l[i] = b[i - 1]
  BY DEF Halves
<1>4. ASSUME NEW i \in 1 .. p PROVE l[i] = d[i - 1]
  <2>1. i - 1 \in 0 .. n - 2 /\ i - 1 < p
    BY <1>1
  <2> QED BY <1>1, <1>2, <2>1
<1>5. r \in Seq(LineChars) /\ Len(r) = n - p /\ \A i \in 1 .. n - p : r[i] = b[p + i - 1]
  BY DEF Halves
<1>6. r # <<>>
  BY <1>1, <1>5
<1>7. /\ Tail(r) \in Seq(LineChars) /\ Len(Tail(r)) = Len(r) - 1
      /\ \A i \in 1 .. Len(r) - 1 : Tail(r)[i] = r[i + 1]
  BY <1>5, <1>6
<1>8. Len(Tail(r)) = (n - 1) - p /\ Len(r) - 1 = (n - 1) - p
  BY <1>1, <1>5, <1>7
<1>9. ASSUME NEW i \in 1 .. (n - 1) - p PROVE Tail(r)[i] = d[p + i - 1]
  <2>1. /\ p + i - 1 \in 0 .. n - 2 /\ ~(p + i - 1 < p) /\ (p + i - 1) + 1 = p + (i + 1) - 1
        /\ i + 1 \in 1 .. n - p
    BY <1>1
  <2>2. d[p + i - 1] = b[(p + i - 1) + 1]
    BY <1>1, <2>1
  <2>3. r[i + 1] = b[p + (i + 1) - 1]
    BY <1>5, <2>1
  <2>4. Tail(r)[i] = r[i + 1]
    BY <1>7, <1>8
  <2> QED BY <2>1, <2>2, <2>3, <2>4
<1> QED BY <1>2, <1>4, <1>7, <1>8, <1>9 DEF Halves

\* Backspace takes the last character left of the cursor.
LEMMA BackspaceRefines ==
  ASSUME EditInv, EditInv', WaitInv, BackspaceKey
  PROVE  Refines
<1>1. Reading
  BY DEF BackspaceKey, KeyTyped, Reading
<1>2. CASE cursor_pos = 0
  BY <1>2, RingsRefines DEF BackspaceKey, Refines
<1>3. CASE cursor_pos # 0
  <2>1. /\ buffer' = memmove(buffer, cursor_pos - 1, cursor_pos, len - cursor_pos + 1)
        /\ cursor_pos' = cursor_pos - 1 /\ len' = len - 1 /\ LeavesHistory /\ UNCHANGED <<at, ring>>
    BY <1>3 DEF BackspaceKey
  <2>2. /\ cursor_pos \in 1 .. len /\ Reading' /\ Holds(buffer, len) /\ len \in Nat
    BY <1>1, <1>3, <2>1, EditFacts DEF Reading
  <2>3. PICK p \in 0 .. len - 1 : p = cursor_pos - 1
    BY <2>2
  <2>4. p + 1 = cursor_pos /\ p \in 0 .. len - 1 /\ len - 1 \in Nat
    BY <2>2, <2>3
  <2>5. Without(buffer', buffer, len, p)
    BY <2>1, <2>2, <2>3, EraseHolds
  <2>6. Halves(LeftText, RightText, buffer, len, p + 1)
    BY <1>1, <2>4, TextReading
  <2>7. Halves(SubSeq(LeftText, 1, p), RightText, buffer', len - 1, p)
    BY <2>2, <2>3, <2>5, <2>6, EraseSplit
  <2>8. Halves(LeftText', RightText', buffer', len - 1, p)
    BY <2>1, <2>2, <2>3, TextNext
  <2>9. LeftText' = SubSeq(LeftText, 1, p) /\ RightText' = RightText
    <3>0. PICK n \in Nat : n = len - 1
      BY <2>4
    <3>1. PICK x, b : x = SubSeq(LeftText, 1, p) /\ b = buffer'
      OBVIOUS
    <3>2. p \in 0 .. n /\ Halves(x, RightText, b, n, p) /\ Halves(LeftText', RightText', b, n, p)
      BY <2>3, <2>7, <2>8, <3>0, <3>1
    <3> QED BY <3>1, <3>2, SplitUnique
  <2>10. LeftText # <<>> /\ Front(LeftText) = SubSeq(LeftText, 1, p)
    <3>1. Len(LeftText) = p + 1 /\ p \in Nat /\ LeftText \in Seq(LineChars)
      BY <2>3, <2>6 DEF Halves
    <3>2. Len(LeftText) - 1 = p /\ LeftText # <<>>
      BY <3>1
    <3> QED BY <3>2 DEF Front
  <2>11. Abstract!Written /\ WaitInv'
    BY <1>1, <2>1, <2>2, WritesText
  <2>12. Abstract!AErases
    BY <2>9, <2>10, <2>11 DEF Abstract!AErases, Abstract!Front, Front
  <2> QED BY <2>11, <2>12 DEF Refines, Abstract!ANext
<1> QED BY <1>2, <1>3

\* Delete takes the first character right of the cursor.
LEMMA DeleteRefines ==
  ASSUME EditInv, EditInv', WaitInv, DeleteKey
  PROVE  Refines
<1>1. Reading
  BY DEF DeleteKey, KeyTyped, Reading
<1>2. CASE cursor_pos >= len
  BY <1>2, RingsRefines DEF DeleteKey, Refines
<1>3. CASE ~(cursor_pos >= len)
  <2>1. /\ buffer' = NullTerminated(memmove(buffer, cursor_pos, cursor_pos + 1, len - cursor_pos), len - 1)
        /\ cursor_pos' = cursor_pos /\ len' = len - 1 /\ LeavesHistory /\ UNCHANGED <<at, ring>>
    BY <1>3 DEF DeleteKey
  <2>2. /\ cursor_pos \in 0 .. len - 1 /\ Reading' /\ Holds(buffer, len) /\ len \in Nat /\ len - 1 \in Nat
    BY <1>1, <1>3, <2>1, EditFacts DEF Reading
  <2>3. Without(buffer', buffer, len, cursor_pos)
    BY <2>1, <2>2, DeleteHolds
  <2>4. Halves(LeftText, RightText, buffer, len, cursor_pos)
    BY <1>1, TextReading
  <2>5. Halves(LeftText, Tail(RightText), buffer', len - 1, cursor_pos)
    BY <2>2, <2>3, <2>4, DeleteSplit
  <2>6. Halves(LeftText', RightText', buffer', len - 1, cursor_pos)
    BY <2>1, <2>2, TextNext
  <2>7. LeftText' = LeftText /\ RightText' = Tail(RightText)
    BY <2>2, <2>5, <2>6, SplitUnique
  <2>8. RightText # <<>>
    <3>1. Len(RightText) = len - cursor_pos
      BY <2>4 DEF Halves
    <3> QED BY <2>2, <3>1
  <2>9. Abstract!Written /\ WaitInv'
    BY <1>1, <2>1, <2>2, WritesText
  <2>10. Abstract!ADeletes
    BY <2>7, <2>8, <2>9 DEF Abstract!ADeletes
  <2> QED BY <2>9, <2>10 DEF Refines, Abstract!ANext
<1> QED BY <1>2, <1>3

\* The cursor moves to another place of the line.
LEMMA MoveRefines ==
  ASSUME EditInv, EditInv', WaitInv, Reading, NEW pos \in 0 .. len, MovesTo(pos),
         pos \in {cursor_pos - 1, cursor_pos + 1, 0, len}
  PROVE  Refines
<1>1. cursor_pos' = pos /\ UNCHANGED <<at, buffer, len, browse, ring>>
  BY DEF MovesTo
<1>2. Reading' /\ Holds(buffer, len) /\ len \in Nat /\ pos \in Nat /\ pos <= len
  BY <1>1, EditFacts DEF Reading
<1>3. LeftText \o RightText = Text(buffer, len) /\ Len(LeftText) = cursor_pos
  BY TextReading DEF Halves
<1>4. LeftText' = Text(buffer, pos) /\ RightText' = SubSeq(Text(buffer, len), pos + 1, len)
  BY <1>1, <1>2 DEF LeftText, RightText, Text
<1>5. Text(buffer, pos) = SubSeq(Text(buffer, len), 1, pos)
  <2>1. PICK s \in Seq(LineChars) : s = Text(buffer, len)
    BY <1>2, TextOf
  <2>2. Len(s) = len /\ \A i \in 1 .. len : s[i] = buffer[i - 1]
    BY <1>2, <2>1, TextOf
  <2>3. SubSeq(s, 1, pos) = [i \in 1 .. pos |-> s[i]]
    BY <1>2, <2>2
  <2>4. \A i \in 1 .. pos : s[i] = buffer[i - 1]
    BY <1>2, <2>2
  <2>5. [i \in 1 .. pos |-> s[i]] = [i \in 1 .. pos |-> buffer[i - 1]]
    BY <2>4
  <2> QED BY <2>1, <2>3, <2>5 DEF Text
<1>6. Len(Text(buffer, len)) = len
  BY <1>2, TextOf
<1>7. Picked' = Picked /\ Waiting' = Waiting /\ WaitInv'
  BY <1>1, <1>2 DEF browse, Picked, Waiting, WaitInv
<1>8. Entered' = Entered
  BY <1>1, SameEntered
<1>9. Abstract!AMoves
  <2>1. /\ pos \in 0 .. Len(Abstract!Line) /\ Abstract!Line = Text(buffer, len)
        /\ pos \in {Len(LeftText) - 1, Len(LeftText) + 1, 0, Len(Abstract!Line)}
    BY <1>3, <1>6 DEF Abstract!Line
  <2>2. Abstract!Edits
    BY <1>2, StillEdits
  <2> QED BY <1>4, <1>5, <1>6, <1>7, <1>8, <2>1, <2>2 DEF Abstract!AMoves
<1> QED BY <1>7, <1>9 DEF Refines, Abstract!ANext

\* The keys that move the cursor.
LEMMA CursorRefines ==
  ASSUME EditInv, EditInv', WaitInv, ArrowLeft \/ ArrowRight \/ HomeKey \/ EndKey
  PROVE  Refines
<1>1. Reading
  BY DEF ArrowLeft, ArrowRight, HomeKey, EndKey, KeyTyped, Reading
<1>2. len \in Nat /\ cursor_pos \in 0 .. len
  BY EditFacts
<1>3. CASE Rings
  BY <1>3, RingsRefines DEF Refines
<1>4. CASE ~Rings
  <2>1. \/ cursor_pos > 0 /\ MovesTo(cursor_pos - 1)
        \/ cursor_pos < len /\ MovesTo(cursor_pos + 1)
        \/ MovesTo(0) \/ MovesTo(len)
    BY <1>4 DEF ArrowLeft, ArrowRight, HomeKey, EndKey
  <2>2. PICK pos \in 0 .. len : MovesTo(pos) /\ pos \in {cursor_pos - 1, cursor_pos + 1, 0, len}
    BY <1>2, <2>1
  <2> QED BY <1>1, <2>2, MoveRefines
<1> QED BY <1>3, <1>4

\* An index below the size of the ring is a slot of it.
LEMMA NoWrap ==
  ASSUME NEW x \in Nat, NEW m \in Nat, x < m
  PROVE  x % m = x
  OBVIOUS

\* And the index that is one round further is taken back by the size.
LEMMA OneWrap ==
  ASSUME NEW x \in Nat, NEW m \in Nat, m > 0, m <= x, x < m + m
  PROVE  x % m = x - m
  OBVIOUS

\* The k-th newest line of a ring g with its head at h.
Newest(g, h, k) == g[(h + HISTORY_SIZE - 1 - (k - 1)) % HISTORY_SIZE]
Slot(h, k) == IF k <= h THEN h - k ELSE h + HISTORY_SIZE - k

\* Its slot.
LEMMA NewestSlot ==
  ASSUME NEW h \in 0 .. HISTORY_SIZE - 1, NEW k \in 1 .. HISTORY_SIZE, NEW g
  PROVE  Newest(g, h, k) = g[Slot(h, k)]
<1>1. HISTORY_SIZE \in Nat /\ HISTORY_SIZE > 0 /\ h \in Nat /\ h < HISTORY_SIZE /\ k \in Nat
  BY EditorAssumption
<1> DEFINE x == h + HISTORY_SIZE - 1 - (k - 1)
<1>2. x = h + HISTORY_SIZE - k /\ x \in Nat
  BY <1>1
<1>3. Newest(g, h, k) = g[x % HISTORY_SIZE]
  BY DEF Newest
<1> HIDE DEF x
<1>4. CASE k <= h
  <2>1. HISTORY_SIZE <= x /\ x < HISTORY_SIZE + HISTORY_SIZE /\ x - HISTORY_SIZE = h - k
    BY <1>1, <1>2, <1>4
  <2>2. x % HISTORY_SIZE = h - k
    BY <1>1, <1>2, <2>1, OneWrap
  <2> QED BY <1>3, <1>4, <2>2 DEF Slot
<1>5. CASE ~(k <= h)
  <2>1. x < HISTORY_SIZE
    BY <1>1, <1>2, <1>5
  <2>2. x % HISTORY_SIZE = x
    BY <1>1, <1>2, <2>1, NoWrap
  <2> QED BY <1>2, <1>3, <1>5, <2>2 DEF Slot
<1> QED BY <1>4, <1>5

\* A line that is added is the newest, and the others move back by one.
Shifted(f, j, g, h, line, k) == Newest(f, j, k) = IF k = 1 THEN line ELSE Newest(g, h, k - 1)

\* history_add puts the line before all others, the wrap-around included.
LEMMA NewestAdded ==
  ASSUME NEW S, NEW g \in [0 .. HISTORY_SIZE - 1 -> S], NEW h \in 0 .. HISTORY_SIZE - 1, NEW line,
         NEW f, f = [g EXCEPT ![h] = line], NEW j, j = (h + 1) % HISTORY_SIZE,
         NEW k \in 1 .. HISTORY_SIZE
  PROVE  Shifted(f, j, g, h, line, k)
<1> USE DEF Shifted
<1>1. HISTORY_SIZE \in Nat /\ HISTORY_SIZE > 0 /\ h \in Nat /\ h < HISTORY_SIZE /\ k \in Nat /\ 1 <= k
      /\ k <= HISTORY_SIZE
  BY EditorAssumption
<1>2. j = IF h + 1 < HISTORY_SIZE THEN h + 1 ELSE 0
  <2>1. CASE h + 1 < HISTORY_SIZE
    <3>1. h + 1 \in Nat
      BY <1>1
    <3>2. (h + 1) % HISTORY_SIZE = h + 1
      BY <1>1, <2>1, <3>1, NoWrap
    <3> QED BY <2>1, <3>2
  <2>2. CASE ~(h + 1 < HISTORY_SIZE)
    <3>1. h + 1 = HISTORY_SIZE /\ HISTORY_SIZE - HISTORY_SIZE = 0
      BY <1>1, <2>2
    <3>2. HISTORY_SIZE % HISTORY_SIZE = HISTORY_SIZE - HISTORY_SIZE
      BY <1>1, OneWrap
    <3> QED BY <2>2, <3>1, <3>2
  <2> QED BY <2>1, <2>2
<1>3. j \in 0 .. HISTORY_SIZE - 1
  BY <1>1, <1>2
<1>4. Newest(f, j, k) = f[Slot(j, k)]
  BY <1>3, NewestSlot
<1>5. CASE k = 1
  <2>1. Slot(j, k) = h
    BY <1>1, <1>2, <1>5 DEF Slot
  <2> QED BY <1>4, <1>5, <2>1
<1>6. CASE k # 1
  <2>1. k - 1 \in 1 .. HISTORY_SIZE
    BY <1>1, <1>6
  <2>2. Slot(j, k) = Slot(h, k - 1) /\ Slot(j, k) # h /\ Slot(j, k) \in 0 .. HISTORY_SIZE - 1
    BY <1>1, <1>2, <1>6 DEF Slot
  <2>3. f[Slot(j, k)] = g[Slot(h, k - 1)]
    BY <2>2
  <2>4. Newest(g, h, k - 1) = g[Slot(h, k - 1)]
    BY <2>1, NewestSlot
  <2> QED BY <1>4, <1>6, <2>3, <2>4
<1> QED BY <1>5, <1>6

\* The lines entered are the newest ones.
LEMMA EnteredIs ==
  ASSUME Ring
  PROVE  /\ Entered = [k \in 1 .. history_count |-> Newest(history, history_head, k)]
         /\ Entered \in Seq(TextLines) /\ Len(Entered) = history_count /\ history_count \in Nat
         /\ \A k \in 1 .. history_count : Entered[k] = history_get(k - 1)
<1>1. Entered = [k \in 1 .. history_count |-> Newest(history, history_head, k)]
  BY DEF Entered, Newest, history_get
<1>2. history_count \in Nat
  BY EditorAssumption DEF Ring
<1>3. ASSUME NEW k \in 1 .. history_count PROVE Entered[k] \in TextLines /\ Entered[k] = history_get(k - 1)
  <2>1. k - 1 \in Int
    BY <1>2
  <2>2. Entered[k] = history_get(k - 1)
    BY DEF Entered
  <2> QED BY <2>1, <2>2, HistoryGet
<1>4. Entered \in [1 .. history_count -> TextLines]
  BY <1>1, <1>3
<1>5. Entered \in Seq(TextLines) /\ Len(Entered) = history_count
  BY <1>2, <1>4, RangeIsSeq
<1> QED BY <1>1, <1>2, <1>3, <1>5

\* A line that is added comes before the others, and the oldest goes when
\* there is no room.
LEMMA EnteredNext ==
  ASSUME Ring, NEW line \in TextLines, history_add(line)
  PROVE  Entered' = IF Range(line) \subseteq {Space, "tab"} THEN Entered
                    ELSE Abstract!First(<<line>> \o Entered, HISTORY_SIZE)
<1>1. /\ HISTORY_SIZE \in Nat /\ HISTORY_SIZE > 0 /\ history_count \in 0 .. HISTORY_SIZE
      /\ history_head \in 0 .. HISTORY_SIZE - 1 /\ history \in [0 .. HISTORY_SIZE - 1 -> TextLines]
  BY EditorAssumption DEF Ring
<1>2. HasContent(line) <=> ~(Range(line) \subseteq {Space, "tab"})
  <2>1. line \in Seq(LineChars)
    BY DEF TextLines
  <2>2. DOMAIN line = 1 .. Len(line)
    BY <2>1
  <2> QED BY <2>2 DEF HasContent, Range
<1>3. CASE ~HasContent(line)
  <2>1. UNCHANGED ring
    BY <1>3 DEF history_add
  <2> QED BY <1>2, <1>3, <2>1, SameEntered
<1>4. CASE HasContent(line)
  <2>1. PICK f, j, c : f = history' /\ j = history_head' /\ c = history_count'
    OBVIOUS
  <2>2. /\ f = [history EXCEPT ![history_head] = line]
        /\ j = (history_head + 1) % HISTORY_SIZE
        /\ c = IF history_count < HISTORY_SIZE THEN history_count + 1 ELSE history_count
    BY <1>4, <2>1, FirstCharsOf DEF history_add
  <2>3. Entered' = [k \in 1 .. c |-> Newest(f, j, k)]
    BY <2>1 DEF Entered, Newest, history_get
  <2>4. PICK e \in Seq(TextLines) : e = Entered
    BY EnteredIs
  <2>5. Len(e) = history_count /\ \A k \in 1 .. history_count : e[k] = Newest(history, history_head, k)
    BY <2>4, EnteredIs
  <2> DEFINE all == <<line>> \o e
  <2>6. /\ all \in Seq(TextLines) /\ Len(all) = history_count + 1
        /\ \A k \in 1 .. history_count + 1 : all[k] = IF k = 1 THEN line ELSE e[k - 1]
    BY <1>1, <2>5
  <2> HIDE DEF all
  <2>7. c \in Nat /\ c <= HISTORY_SIZE /\ c <= history_count + 1
        /\ c = IF history_count + 1 < HISTORY_SIZE THEN history_count + 1 ELSE HISTORY_SIZE
    BY <1>1, <2>2
  <2>8. Abstract!First(all, HISTORY_SIZE) = SubSeq(all, 1, c)
    BY <2>6, <2>7 DEF Abstract!First
  <2>9. SubSeq(all, 1, c) = [k \in 1 .. c |-> all[k]]
    BY <1>1, <2>6, <2>7
  <2>10. ASSUME NEW k \in 1 .. c PROVE Newest(f, j, k) = all[k]
    <3>1. k \in 1 .. HISTORY_SIZE /\ k \in 1 .. history_count + 1 /\ (k # 1 => k - 1 \in 1 .. history_count)
      BY <1>1, <2>7
    <3>2. Newest(f, j, k) = IF k = 1 THEN line ELSE Newest(history, history_head, k - 1)
      <4>1. Shifted(f, j, history, history_head, line, k)
        BY <1>1, <2>2, <3>1, NewestAdded
      <4> QED BY <4>1 DEF Shifted
    <3>3. all[k] = IF k = 1 THEN line ELSE e[k - 1]
      BY <2>6, <3>1
    <3> QED BY <2>5, <3>1, <3>2, <3>3
  <2>11. [k \in 1 .. c |-> Newest(f, j, k)] = [k \in 1 .. c |-> all[k]]
    BY <2>10
  <2> QED BY <1>2, <1>4, <2>3, <2>4, <2>8, <2>9, <2>11 DEF all
<1> QED BY <1>3, <1>4

\* A text that fits is shown whole.
LEMMA ShowsRest ==
  ASSUME EditInv, EditInv', RowShown, Reading, NEW text \in TextLines, replace_buffer_with_text(text)
  PROVE  Abstract!AShows(text) /\ Reading'
<1>1. at = "read"
  BY DEF Reading
<1>2. at' = "read" /\ len' = Len(text) /\ cursor_pos' = Len(text) /\ Text(buffer', len') = text
  BY <1>1, ReplaceKeeps
<1>3. Reading'
  BY <1>2 DEF Reading
<1>4. LeftText' = text
  <2>1. LeftText' = Text(buffer', cursor_pos')
    BY <1>3 DEF LeftText, Text
  <2>2. Text(buffer', cursor_pos') = Text(buffer', len')
    BY <1>2
  <2> QED BY <1>2, <2>1, <2>2
<1>5. RightText' = <<>>
  <2>1. RightText' \in Seq(LineChars) /\ Len(RightText') = len' - cursor_pos'
    BY <1>3, TextNext DEF Halves
  <2>2. Len(text) \in Nat
    BY DEF TextLines
  <2>3. Len(RightText') = 0
    BY <1>2, <2>1, <2>2
  <2> QED BY <2>1, <2>3
<1>6. Abstract!First(text, CAPACITY - 1) = text
  BY FirstCharsOf DEF Abstract!First, FirstChars
<1> QED BY <1>3, <1>4, <1>5, <1>6 DEF Abstract!AShows

\* An older line is looked at, and the one being written waits.
LEMMA ArrowUpRefines ==
  ASSUME EditInv, EditInv', RowShown, WaitInv, ArrowUp
  PROVE  Refines
<1>1. Reading
  BY DEF ArrowUp, KeyTyped, Reading
<1>2. CASE history_offset + 1 >= history_count
  BY <1>2, RingsRefines DEF ArrowUp, Refines
<1>3. CASE ~(history_offset + 1 >= history_count)
  <2>1. /\ IF history_offset = -1 /\ ~saved_current_valid
           THEN saved_current' = Text(buffer, len) /\ saved_current_valid' = TRUE
           ELSE UNCHANGED <<saved_current, saved_current_valid>>
        /\ history_offset' = history_offset + 1
        /\ replace_buffer_with_text(history_get(history_offset + 1)) /\ UNCHANGED ring
    BY <1>3 DEF ArrowUp
  <2>2. history_offset \in -1 .. history_count - 1 /\ history_count \in Nat /\ Ring
    BY EditFacts DEF Browsing
  <2>3. PICK k \in Int : k = history_offset + 1
    BY <2>2
  <2>4. k \in Nat /\ k < history_count /\ k + 1 \in 1 .. history_count /\ (k + 1) - 1 = k
        /\ (k = 0 <=> history_offset = -1)
    BY <1>3, <2>2, <2>3
  <2>5. history_get(k) \in TextLines
    BY <2>2, HistoryGet
  <2>6. Abstract!AShows(history_get(k)) /\ Reading'
    BY <1>1, <2>1, <2>3, <2>5, ShowsRest
  <2>7. Picked = k /\ Picked' = k + 1
    BY <1>1, <2>1, <2>3, <2>6 DEF Picked
  <2>8. Len(Entered) = history_count /\ Entered[k + 1] = history_get(k)
    BY <2>2, <2>4, EnteredIs
  <2>9. Waiting' = IF k = 0 THEN Abstract!Line ELSE Waiting
    <3>1. LeftText \o RightText = Text(buffer, len)
      BY <1>1, TextReading
    <3>2. CASE k = 0
      <4>1. saved_current' = Text(buffer, len) /\ saved_current_valid' = TRUE
        BY <2>1, <2>4, <3>2 DEF WaitInv
      <4> QED BY <2>6, <3>1, <3>2, <4>1 DEF Waiting, Abstract!Line
    <3>3. CASE k # 0
      <4>1. saved_current' = saved_current /\ saved_current_valid' = saved_current_valid
        BY <2>1, <2>4, <3>3
      <4> QED BY <1>1, <2>6, <3>3, <4>1 DEF Waiting
    <3> QED BY <3>2, <3>3
  <2>10. Entered' = Entered
    BY <2>1, SameEntered
  <2>11. WaitInv'
    <3>1. history_offset' # -1
      BY <2>1, <2>3, <2>4
    <3> QED BY <3>1 DEF WaitInv
  <2>12. Abstract!AOlder
    BY <1>1, StillEdits, <2>4, <2>6, <2>7, <2>8, <2>9, <2>10 DEF Abstract!AOlder
  <2> QED BY <2>11, <2>12 DEF Refines, Abstract!ANext
<1> QED BY <1>2, <1>3

\* A newer line is looked at, or the one that waited.
LEMMA ArrowDownRefines ==
  ASSUME EditInv, EditInv', RowShown, WaitInv, ArrowDown
  PROVE  Refines
<1>1. Reading
  BY DEF ArrowDown, KeyTyped, Reading
<1>2. CASE history_offset < 0
  BY <1>2, RingsRefines DEF ArrowDown, Refines
<1>3. CASE ~(history_offset < 0)
  <2>1. history_offset \in -1 .. history_count - 1 /\ history_count \in Nat /\ Ring
        /\ saved_current \in TextLines
    BY EditFacts DEF Browsing
  <2>2. PICK k \in Nat : k = history_offset
    BY <1>3, <2>1
  <2>3. history_offset' = k - 1 /\ UNCHANGED ring
    BY <1>3, <2>2 DEF ArrowDown
  <2>4. Entered' = Entered
    BY <2>3, SameEntered
  <2>5. CASE k > 0
    <3>1. replace_buffer_with_text(history_get(k - 1)) /\ UNCHANGED <<saved_current, saved_current_valid>>
      BY <1>3, <2>2, <2>5 DEF ArrowDown
    <3>2. k \in 1 .. history_count /\ k - 1 \in Int /\ (k - 1) + 1 = k /\ k - 1 # -1 /\ k + 1 > 0 /\ k # 0
          /\ (k + 1) - 1 = k
      BY <2>1, <2>2, <2>5
    <3>3. history_get(k - 1) \in TextLines /\ Entered[k] = history_get(k - 1)
      BY <2>1, <3>2, HistoryGet, EnteredIs
    <3>4. PICK text \in TextLines : text = history_get(k - 1)
      BY <3>3
    <3>5. Abstract!AShows(text) /\ Reading'
      BY <1>1, <3>1, <3>4, ShowsRest
    <3>6. Picked = k + 1 /\ Picked' = k
      BY <1>1, <2>2, <2>3, <3>2, <3>5 DEF Picked
    <3>7. Waiting' = Waiting
      BY <1>1, <3>1, <3>5 DEF Waiting
    <3>8. WaitInv'
      BY <2>3, <3>2 DEF WaitInv
    <3>9. Abstract!ANewer
      BY <1>1, StillEdits, <2>4, <3>2, <3>3, <3>4, <3>5, <3>6, <3>7 DEF Abstract!ANewer
    <3> QED BY <3>8, <3>9 DEF Refines, Abstract!ANext
  <2>6. CASE k = 0
    <3>1. /\ replace_buffer_with_text(IF saved_current_valid THEN saved_current ELSE <<>>)
          /\ saved_current_valid' = FALSE
      BY <1>3, <2>2, <2>6 DEF ArrowDown
    <3>2. <<>> \in TextLines
      BY EditorAssumption DEF TextLines
    <3>3. Waiting = IF saved_current_valid THEN saved_current ELSE <<>>
      BY <1>1 DEF Waiting
    <3>4. Waiting \in TextLines /\ replace_buffer_with_text(Waiting)
      BY <2>1, <3>1, <3>2, <3>3
    <3>5. Abstract!AShows(Waiting) /\ Reading'
      BY <1>1, <3>4, ShowsRest
    <3>6. Picked = 1 /\ Picked' = 0
      <4>1. 0 + 1 = 1 /\ (0 - 1) + 1 = 0
        OBVIOUS
      <4>2. Picked = history_offset + 1 /\ Picked' = history_offset' + 1
        BY <1>1, <3>5 DEF Picked
      <4> QED BY <2>2, <2>3, <2>6, <4>1, <4>2
    <3>7. Waiting' = <<>>
      BY <3>1, <3>5 DEF Waiting
    <3>8. WaitInv'
      BY <3>1 DEF WaitInv
    <3>9. 1 > 0 /\ 1 - 1 = 0
      OBVIOUS
    <3>10. Abstract!ANewer
      BY <1>1, StillEdits, <2>4, <3>5, <3>6, <3>7, <3>9 DEF Abstract!ANewer
    <3> QED BY <3>8, <3>10 DEF Refines, Abstract!ANext
  <2> QED BY <2>5, <2>6
<1> QED BY <1>2, <1>3

\* Behind a new prompt the line is empty.
LEMMA PromptRefines ==
  ASSUME NEW t, NewPrompt(t)
  PROVE  /\ LeftText' = <<>> /\ RightText' = <<>> /\ Picked' = 0 /\ Waiting' = <<>> /\ WaitInv'
         /\ RunText' = <<>>
<1>1. /\ at' = "read" /\ len' = 0 /\ cursor_pos' = 0
      /\ history_offset' = -1 /\ saved_current_valid' = FALSE
  BY DEF NewPrompt
<1>2. Reading'
  BY <1>1 DEF Reading
<1>3. LeftText' = <<>>
  <2>1. LeftText' = [i \in 1 .. cursor_pos' |-> buffer'[i - 1]]
    BY <1>2 DEF LeftText, Text
  <2>2. 1 .. cursor_pos' = {}
    BY <1>1
  <2> QED BY <2>1, <2>2
<1>4. RightText' = <<>>
  <2>1. PICK s : s = Text(buffer', len')
    OBVIOUS
  <2>2. RightText' = SubSeq(s, cursor_pos' + 1, len')
    BY <1>2, <2>1 DEF RightText, Text
  <2>3. cursor_pos' + 1 = 1 /\ len' = 0
    BY <1>1
  <2>4. s = <<>>
    BY <2>1, <2>3 DEF Text
  <2> QED BY <2>2, <2>3, <2>4
<1>5. Picked' = 0
  <2>1. -1 + 1 = 0
    OBVIOUS
  <2> QED BY <1>1, <1>2, <2>1 DEF Picked
<1>6. Waiting' = <<>>
  BY <1>1 DEF Waiting
<1>7. WaitInv'
  BY <1>1 DEF WaitInv
<1>8. RunText' = <<>>
  BY <1>2 DEF RunText
<1> QED BY <1>3, <1>4, <1>5, <1>6, <1>7, <1>8

\* Enter remembers the line and leaves it.
LEMMA EnterRefines ==
  ASSUME EditInv, WaitInv, EnterKey
  PROVE  Refines
<1>1. Reading /\ Holds(buffer, len) /\ Ring
  BY EditFacts DEF EnterKey, KeyTyped, Reading
<1>2. CASE len = 0
  <2>1. NewPrompt(tty_putc(tty, Newline)) /\ UNCHANGED ring
    BY <1>2 DEF EnterKey
  <2>2. /\ LeftText' = <<>> /\ RightText' = <<>> /\ Picked' = 0 /\ Waiting' = <<>> /\ WaitInv'
        /\ RunText' = <<>> /\ RunText = <<>>
    BY <1>1, <2>1, PromptRefines DEF RunText
  <2>3. Entered' = Entered
    BY <2>1, SameEntered
  <2>4. Abstract!ACancels
    BY <2>2, <2>3 DEF Abstract!ACancels, Abstract!Edits
  <2> QED BY <2>2, <2>4 DEF Refines, Abstract!ANext
<1>3. CASE len # 0
  <2>1. /\ at' = "run" /\ history_add(Text(buffer, len)) /\ UNCHANGED <<len, cursor_pos, browse, seen>>
        /\ buffer' = NullTerminated(buffer, len)
    BY <1>3 DEF EnterKey
  <2>2. PICK line \in TextLines : line = Text(buffer, len)
    BY <1>1, TextOf
  <2>3. Abstract!Line = line
    BY <1>1, <2>2, TextReading DEF Abstract!Line
  <2>4. Entered' = IF Range(line) \subseteq {Space, "tab"} THEN Entered
                   ELSE Abstract!First(<<line>> \o Entered, HISTORY_SIZE)
    BY <1>1, <2>1, <2>2, EnteredNext
  <2>5. ~Reading'
    BY <2>1 DEF Reading
  <2>6. LeftText' = <<>> /\ RightText' = <<>> /\ Picked' = 0 /\ Waiting' = <<>>
    BY <2>5 DEF LeftText, RightText, Picked, Waiting
  <2>7. WaitInv'
    BY <2>1 DEF WaitInv, browse
  <2>8. RunText = <<>> /\ RunText' = line
    <3>1. RunText = <<>>
      BY <1>1 DEF RunText
    <3>2. len \in Nat /\ buffer \in [Index -> Bytes]
      BY <1>1, HoldsBytes DEF Holds
    <3>3. \A i \in 1 .. len : buffer'[i - 1] = buffer[i - 1]
      BY <2>1, <3>2 DEF NullTerminated
    <3>4. [i \in 1 .. len |-> buffer'[i - 1]] = [i \in 1 .. len |-> buffer[i - 1]]
      BY <3>3
    <3>5. RunText' = [i \in 1 .. len |-> buffer'[i - 1]]
      BY <2>1, <2>5 DEF RunText, Text
    <3>6. line = [i \in 1 .. len |-> buffer[i - 1]]
      BY <2>2 DEF Text
    <3> QED BY <3>1, <3>4, <3>5, <3>6
  <2>9. Abstract!AEnters
    BY <2>3, <2>4, <2>6, <2>8 DEF Abstract!AEnters, Abstract!Range, Range
  <2> QED BY <2>7, <2>9 DEF Refines, Abstract!ANext
<1> QED BY <1>2, <1>3

\* Ctrl-C leaves the line and remembers nothing.
LEMMA CtrlCRefines ==
  ASSUME CtrlCKey
  PROVE  Refines
<1>1. PICK t : NewPrompt(t)
  BY DEF CtrlCKey
<1>2. /\ LeftText' = <<>> /\ RightText' = <<>> /\ Picked' = 0 /\ Waiting' = <<>> /\ WaitInv'
      /\ RunText' = <<>> /\ RunText = <<>>
  BY <1>1, PromptRefines DEF CtrlCKey, KeyTyped, Reading, RunText
<1>3. Entered' = Entered
  BY SameEntered DEF CtrlCKey
<1>4. Abstract!ACancels
  BY <1>2, <1>3 DEF Abstract!ACancels, Abstract!Edits
<1> QED BY <1>2, <1>4 DEF Refines, Abstract!ANext

\* When a command is done with, the line that was run is gone.
LEMMA CommandRefines ==
  ASSUME ~Reading, UNCHANGED ring, NEW t, NewPrompt(t)
  PROVE  Refines
<1>1. /\ LeftText' = <<>> /\ RightText' = <<>> /\ Picked' = 0 /\ Waiting' = <<>> /\ WaitInv'
      /\ RunText' = <<>>
  BY PromptRefines
<1>2. LeftText = <<>> /\ RightText = <<>> /\ Picked = 0 /\ Waiting = <<>>
  BY TextRunning
<1>3. Entered' = Entered
  BY SameEntered
<1>4. Abstract!AFinishes
  BY <1>1, <1>2, <1>3 DEF Abstract!AFinishes
<1> QED BY <1>1, <1>4 DEF Refines, Abstract!ANext

\* A frame of noise changes nothing of it.
LEMMA NoiseRefines ==
  ASSUME WaitInv, draw_noise_frame("9")
  PROVE  Refines
<1>1. at = "run" /\ at' = "noise" /\ UNCHANGED <<edit, browse, ring, keys, seen>>
  BY DEF draw_noise_frame
<1>2. ~Reading /\ ~Reading'
  BY <1>1 DEF Reading
<1>3. LeftText' = <<>> /\ RightText' = <<>> /\ Picked' = 0 /\ Waiting' = <<>>
  BY <1>2 DEF LeftText, RightText, Picked, Waiting
<1>4. LeftText = <<>> /\ RightText = <<>> /\ Picked = 0 /\ Waiting = <<>>
  BY <1>2, TextRunning
<1>5. Entered' = Entered
  BY <1>1, SameEntered
<1>6. WaitInv'
  BY <1>1 DEF WaitInv, browse
<1>7. RunText' = RunText
  BY <1>1, <1>2 DEF RunText, Text, edit
<1>8. UNCHANGED Abstract!avars
  BY <1>3, <1>4, <1>5, <1>7 DEF Abstract!avars
<1> QED BY <1>6, <1>8 DEF Refines

(* Tab, for the abstract editor.                                           *)

\* The names that begin with a line, as texts.
Matching(line) == {name \in Range(Commands) : IsPrefix(line, name)}

\* They are the names of the indices found.
LEMMA MatchingIs ==
  ASSUME NEW b, NEW n, Holds(b, n), NEW line, line = Text(b, n), NEW found, found = Matches(line)
  PROVE  Matching(line) = {Commands[i] : i \in found}
<1>1. line \in Seq(LineChars) /\ Len(line) = n /\ n \in Nat
  BY TextOf
<1>2. Commands \in Seq(Range(Commands)) /\ DOMAIN Commands = 1 .. Len(Commands) /\ Len(Commands) \in Nat
  BY Texts
<1>3. ASSUME NEW name \in Seq(LineChars)
      PROVE  IsPrefix(line, name) <=> command_matches_prefix(name, line)
  <2>1. IsPrefix(line, name) <=> Len(line) <= Len(name) /\ SubSeq(line, 1, Len(line)) = SubSeq(name, 1, Len(line))
    BY DEF IsPrefix
  <2>2. ASSUME Len(line) <= Len(name)
        PROVE  SubSeq(line, 1, Len(line)) = SubSeq(name, 1, Len(line))
                 <=> \A i \in 1 .. Len(line) : name[i] = line[i]
    <3>1. SubSeq(line, 1, Len(line)) = [i \in 1 .. n |-> line[i]]
      BY <1>1
    <3>2. SubSeq(name, 1, Len(line)) = [i \in 1 .. n |-> name[i]]
      BY <1>1, <2>2
    <3>3. [i \in 1 .. n |-> line[i]] = [i \in 1 .. n |-> name[i]] <=> \A i \in 1 .. n : name[i] = line[i]
      <4>1. ASSUME [i \in 1 .. n |-> line[i]] = [i \in 1 .. n |-> name[i]], NEW i \in 1 .. n PROVE name[i] = line[i]
        <5>1. [j \in 1 .. n |-> line[j]][i] = [j \in 1 .. n |-> name[j]][i]
          BY <4>1
        <5> QED BY <5>1
      <4>2. ASSUME \A i \in 1 .. n : name[i] = line[i] PROVE [i \in 1 .. n |-> line[i]] = [i \in 1 .. n |-> name[i]]
        BY <4>2
      <4> QED BY <4>1, <4>2
    <3> QED BY <1>1, <3>1, <3>2, <3>3
  <2> QED BY <2>1, <2>2 DEF command_matches_prefix
<1>4. ASSUME NEW i \in 1 .. Len(Commands) PROVE i \in found <=> IsPrefix(line, Commands[i])
  <2>1. Commands[i] \in Seq(LineChars)
    BY NameText
  <2> QED BY <1>3, <2>1 DEF Matches
<1>5. ASSUME NEW name \in Matching(line) PROVE name \in {Commands[i] : i \in found}
  <2>1. PICK i \in 1 .. Len(Commands) : name = Commands[i]
    BY <1>2 DEF Matching, Range
  <2> QED BY <1>4, <2>1 DEF Matching
<1>6. ASSUME NEW i \in found PROVE Commands[i] \in Matching(line)
  <2>1. i \in 1 .. Len(Commands)
    BY DEF Matches
  <2>2. Commands[i] \in Range(Commands)
    BY <2>1, NameText
  <2> QED BY <1>4, <2>1, <2>2 DEF Matching
<1> QED BY <1>5, <1>6

\* A prefix of a sequence.
LEMMA PrefixOf ==
  ASSUME NEW S, NEW a \in Seq(S), NEW b \in Seq(S), NEW m \in Nat, m <= Len(a)
  PROVE  /\ SubSeq(a, 1, m) \in Seq(S) /\ Len(SubSeq(a, 1, m)) = m
         /\ IsPrefix(SubSeq(a, 1, m), b) <=> Shared(a, b, m)
<1>1. /\ SubSeq(a, 1, m) \in Seq(S) /\ Len(SubSeq(a, 1, m)) = m
      /\ SubSeq(a, 1, m) = [i \in 1 .. m |-> a[i]]
  OBVIOUS
<1>2. PICK p \in Seq(S) : p = SubSeq(a, 1, m)
  BY <1>1
<1>3. IsPrefix(p, b) <=> m <= Len(b) /\ SubSeq(p, 1, m) = SubSeq(b, 1, m)
  BY <1>1, <1>2 DEF IsPrefix
<1>4. SubSeq(p, 1, m) = [i \in 1 .. m |-> a[i]]
  <2>1. Len(p) = m /\ SubSeq(p, 1, m) = [i \in 1 .. m |-> p[i]]
    BY <1>1, <1>2
  <2>2. \A i \in 1 .. m : p[i] = a[i]
    BY <1>1, <1>2
  <2>3. [i \in 1 .. m |-> p[i]] = [i \in 1 .. m |-> a[i]]
    BY <2>2
  <2> QED BY <2>1, <2>3
<1>5. ASSUME m <= Len(b) PROVE SubSeq(b, 1, m) = [i \in 1 .. m |-> b[i]]
  BY <1>5
<1>6. [i \in 1 .. m |-> a[i]] = [i \in 1 .. m |-> b[i]] <=> \A i \in 1 .. m : a[i] = b[i]
  <2>1. ASSUME [i \in 1 .. m |-> a[i]] = [i \in 1 .. m |-> b[i]], NEW i \in 1 .. m PROVE a[i] = b[i]
    <3>1. [j \in 1 .. m |-> a[j]][i] = [j \in 1 .. m |-> b[j]][i]
      BY <2>1
    <3> QED BY <3>1
  <2>2. ASSUME \A i \in 1 .. m : a[i] = b[i] PROVE [i \in 1 .. m |-> a[i]] = [i \in 1 .. m |-> b[i]]
    BY <2>2
  <2> QED BY <2>1, <2>2
<1> QED BY <1>1, <1>2, <1>3, <1>4, <1>5, <1>6 DEF Shared

\* What the names found have in common is what the first shares with all.
LEMMA CommonIs ==
  ASSUME NEW found, Names(found), NEW k, Longest(found, k),
         NEW match, match = {Commands[i] : i \in found}
  PROVE  LongestCommonPrefix(match) = SubSeq(FirstName(found), 1, k)
<1> DEFINE C == CommonPrefixes(match)
<1>1. PICK first \in Seq(LineChars) : first = FirstName(found) /\ first \in match
  BY FirstOf
<1>2. /\ k \in Nat /\ k <= Len(first) /\ \A i \in found : Shared(first, Commands[i], k)
      /\ \A m \in Nat : (\A i \in found : Shared(first, Commands[i], m)) => m <= k
  BY <1>1 DEF Longest
<1>3. \A i \in found : Commands[i] \in Seq(LineChars)
  BY NameText DEF Names
<1>4. SubSeq(first, 1, k) \in C /\ Len(SubSeq(first, 1, k)) = k
  <2>1. SubSeq(first, 1, k) \in Prefixes(first) /\ Len(SubSeq(first, 1, k)) = k
    BY <1>2 DEF Prefixes
  <2>2. ASSUME NEW i \in found PROVE IsPrefix(SubSeq(first, 1, k), Commands[i])
    BY <1>2, <1>3, PrefixOf
  <2>3. \A t \in match : IsPrefix(SubSeq(first, 1, k), t)
    BY <2>2
  <2>4. SubSeq(first, 1, k) \in UNION {Prefixes(seq) : seq \in match}
    BY <1>1, <2>1
  <2> QED BY <2>1, <2>3, <2>4 DEF CommonPrefixes
<1>5. ASSUME NEW q \in C PROVE Len(q) \in Nat /\ Len(q) <= k /\ q = SubSeq(first, 1, Len(q))
  <2>1. PICK i \in found : q \in Prefixes(Commands[i])
    BY DEF CommonPrefixes
  <2>2. PICK l \in 0 .. Len(Commands[i]) : q = SubSeq(Commands[i], 1, l)
    BY <2>1 DEF Prefixes
  <2>3. q \in Seq(LineChars) /\ Len(q) \in Nat
    BY <1>3, <2>2
  <2>4. \A t \in match : IsPrefix(q, t)
    BY DEF CommonPrefixes
  <2>5. Len(q) <= Len(first) /\ SubSeq(q, 1, Len(q)) = SubSeq(first, 1, Len(q))
    BY <1>1, <2>4 DEF IsPrefix
  <2>6. q = SubSeq(first, 1, Len(q))
    <3>1. SubSeq(q, 1, Len(q)) = q
      BY <2>3
    <3> QED BY <2>5, <3>1
  <2>7. ASSUME NEW x \in found PROVE Shared(first, Commands[x], Len(q))
    <3>1. PICK m \in Nat : m = Len(q)
      BY <2>3
    <3>2. IsPrefix(SubSeq(first, 1, m), Commands[x]) /\ m <= Len(first)
      BY <2>4, <2>5, <2>6, <3>1
    <3> QED BY <1>3, <3>1, <3>2, PrefixOf
  <2> QED BY <1>2, <2>3, <2>6, <2>7
<1> HIDE DEF C
<1>6. ASSUME NEW x \in C, \A other \in C : Len(other) <= Len(x) PROVE x = SubSeq(first, 1, k)
  <2>1. k <= Len(x)
    BY <1>4, <1>6
  <2>2. Len(x) = k
    BY <1>2, <1>5, <2>1
  <2> QED BY <1>5, <2>2
<1>7. \A other \in C : Len(other) <= Len(SubSeq(first, 1, k))
  BY <1>4, <1>5
<1>8. LongestCommonPrefix(match) = CHOOSE x \in C : \A other \in C : Len(other) <= Len(x)
  BY DEF LongestCommonPrefix, C
<1> QED BY <1>1, <1>4, <1>6, <1>7, <1>8

\* There is one name exactly when there is one index.
LEMMA OneName ==
  ASSUME NEW found, Names(found), NEW match, match = {Commands[i] : i \in found}
  PROVE  /\ Cardinality(found) = 1 <=> \E j : found = {j}
         /\ (\E j : found = {j}) <=> \E m : match = {m}
<1>1. Len(Commands) \in Nat /\ DOMAIN Commands = 1 .. Len(Commands)
  BY Texts
<1>2. IsFiniteSet(1 .. Len(Commands))
  BY <1>1, FS_Interval
<1>3. IsFiniteSet(found)
  BY <1>2, FS_Subset DEF Names
<1>6. Cardinality(found) = 1 <=> \E j : found = {j}
  BY <1>3, FS_Singleton
<1>7. ASSUME NEW j, found = {j} PROVE \E m : match = {m}
  <2>1. match = {Commands[j]}
    BY <1>7
  <2> QED BY <2>1
<1>8. ASSUME NEW m, match = {m} PROVE \E j : found = {j}
  <2>1. PICK j \in found : TRUE
    BY DEF Names
  <2>2. ASSUME NEW i \in found PROVE i = j
    <3>1. Commands[i] \in match /\ Commands[j] \in match
      OBVIOUS
    <3>2. Commands[i] = m /\ Commands[j] = m
      BY <1>8, <3>1
    <3>3. i \in DOMAIN Commands /\ j \in DOMAIN Commands
      BY <1>1 DEF Names
    <3> QED BY <3>2, <3>3, TextAssumption DEF IsInjective
  <2>3. found = {j}
    BY <2>1, <2>2
  <2> QED BY <2>3
<1> QED BY <1>6, <1>7, <1>8

\* What is cut off behind the line: the rest of a name, and a space.
LEMMA RestIs ==
  ASSUME NEW S, NEW f \in Seq(S), NEW c \in Nat, c <= Len(f), NEW n \in Nat, n <= c, NEW sp \in S,
         NEW g, g = SubSeq(f, 1, c)
  PROVE  /\ g \in Seq(S) /\ Len(g) = c
         /\ SubSeq(g, n + 1, Len(g)) = SubSeq(f, n + 1, c)
         /\ SubSeq(Append(g, sp), n + 1, Len(Append(g, sp))) = Append(SubSeq(f, n + 1, c), sp)
<1>1. g \in Seq(S) /\ Len(g) = c /\ \A i \in 1 .. c : g[i] = f[i]
  OBVIOUS
<1>2. /\ SubSeq(f, n + 1, c) \in Seq(S) /\ Len(SubSeq(f, n + 1, c)) = c - n
      /\ \A i \in 1 .. c - n : SubSeq(f, n + 1, c)[i] = f[n + i]
  OBVIOUS
<1>3. SubSeq(g, n + 1, Len(g)) = SubSeq(f, n + 1, c)
  <2>1. /\ SubSeq(g, n + 1, c) \in Seq(S) /\ Len(SubSeq(g, n + 1, c)) = c - n
        /\ \A i \in 1 .. c - n : SubSeq(g, n + 1, c)[i] = g[n + i]
    BY <1>1
  <2>2. \A i \in 1 .. c - n : g[n + i] = f[n + i]
    BY <1>1
  <2> QED BY <1>1, <1>2, <2>1, <2>2, SeqEqual
<1>4. SubSeq(Append(g, sp), n + 1, Len(Append(g, sp))) = Append(SubSeq(f, n + 1, c), sp)
  <2>0. Append(g, sp) \in Seq(S)
    BY <1>1
  <2>1. PICK a \in Seq(S) : a = Append(g, sp)
    BY <2>0
  <2>2. Len(a) = c + 1 /\ \A i \in 1 .. c + 1 : a[i] = IF i <= c THEN f[i] ELSE sp
    BY <1>1, <2>1
  <2>3. /\ SubSeq(a, n + 1, c + 1) \in Seq(S) /\ Len(SubSeq(a, n + 1, c + 1)) = c + 1 - n
        /\ \A i \in 1 .. c + 1 - n : SubSeq(a, n + 1, c + 1)[i] = a[n + i]
    BY <2>2
  <2>4. PICK r \in Seq(S) : r = SubSeq(f, n + 1, c)
    BY <1>2
  <2>5. /\ Append(r, sp) \in Seq(S) /\ Len(Append(r, sp)) = c + 1 - n
        /\ \A i \in 1 .. c + 1 - n : Append(r, sp)[i] = IF i <= c - n THEN f[n + i] ELSE sp
    BY <1>2, <2>4
  <2>6. ASSUME NEW i \in 1 .. c + 1 - n PROVE SubSeq(a, n + 1, c + 1)[i] = Append(r, sp)[i]
    <3>1. n + i \in 1 .. c + 1 /\ (n + i <= c <=> i <= c - n)
      OBVIOUS
    <3> QED BY <2>2, <2>3, <2>5, <3>1
  <2>7. SubSeq(a, n + 1, c + 1) = Append(r, sp)
    BY <2>3, <2>5, <2>6, SeqEqual
  <2> QED BY <2>1, <2>2, <2>4, <2>7
<1> QED BY <1>1, <1>3, <1>4

\* The abstract editor completes to the same text.
LEMMA CompletionRefines ==
  ASSUME NEW b, NEW n, Holds(b, n), n # 0, NEW line, line = Text(b, n), Space \notin Range(line),
         NEW found, found = Matches(line), found # {}
  PROVE  Abstract!Completion(line) = CompletionText(found, n)
<1>1. PICK k : Longest(found, k) /\ n <= k /\ Completed(CompletionText(found, n), found, n, k)
  BY CompletionIs
<1>2. Names(found) /\ n \in Nat /\ n <= CAPACITY - 1 /\ CAPACITY \in Nat /\ CAPACITY > 0
  BY MatchesShare, HoldsBytes
<1>3. PICK match : match = Matching(line)
  OBVIOUS
<1>4. match = {Commands[i] : i \in found} /\ match # {}
  <2>1. match = {Commands[i] : i \in found}
    BY <1>3, MatchingIs
  <2>2. PICK i \in found : TRUE
    OBVIOUS
  <2>3. Commands[i] \in match
    BY <2>1
  <2> QED BY <2>1, <2>3
<1>5. PICK first \in Seq(LineChars) : first = FirstName(found)
  BY <1>2, FirstOf
<1>6. LongestCommonPrefix(match) = SubSeq(first, 1, k)
  BY <1>1, <1>2, <1>4, <1>5, CommonIs
<1>7. PICK c \in Nat : c = Cut(k)
  BY <1>1, <1>2, RestText
<1>8. k \in Nat /\ k <= Len(first) /\ n <= c /\ c <= k /\ c <= CAPACITY - 1
  BY <1>1, <1>2, <1>5, <1>7, RestText DEF Longest
<1>9. PICK common \in Seq(LineChars) : common = SubSeq(first, 1, k) /\ Len(common) = k
  <2>1. SubSeq(first, 1, k) \in Seq(LineChars) /\ Len(SubSeq(first, 1, k)) = k
    BY <1>8
  <2> QED BY <2>1
<1>10. PICK grown \in Seq(LineChars) : grown = SubSeq(first, 1, c) /\ Len(grown) = c
  <2>1. SubSeq(first, 1, c) \in Seq(LineChars) /\ Len(SubSeq(first, 1, c)) = c
    BY <1>8
  <2> QED BY <2>1
<1>11. Abstract!First(common, CAPACITY - 1) = grown
  <2>1. Abstract!First(common, CAPACITY - 1) = SubSeq(common, 1, c)
    BY <1>2, <1>7, <1>9 DEF Abstract!First, Cut
  <2>2. /\ SubSeq(common, 1, c) \in Seq(LineChars) /\ Len(SubSeq(common, 1, c)) = c
        /\ \A i \in 1 .. c : SubSeq(common, 1, c)[i] = common[i]
    BY <1>8, <1>9
  <2>3. \A i \in 1 .. c : common[i] = first[i] /\ grown[i] = first[i]
    BY <1>8, <1>9, <1>10
  <2>4. SubSeq(common, 1, c) = grown
    BY <1>10, <2>2, <2>3, SeqEqual
  <2> QED BY <2>1, <2>4
<1>12. Closed(found, k) <=> match = {grown} /\ Len(grown) < CAPACITY - 1
  <2>1. first \in match
    BY <1>2, <1>4, <1>5, FirstOf
  <2>2. /\ Cardinality(found) = 1 <=> \E j : found = {j}
        /\ (\E j : found = {j}) <=> \E m : match = {m}
    BY <1>2, <1>4, OneName
  <2>3. ASSUME Cardinality(found) = 1, c = Len(first) PROVE match = {grown}
    <3>1. PICK m : match = {m}
      BY <2>2, <2>3
    <3>2. match = {first}
      BY <2>1, <3>1
    <3>3. grown = first
      BY <1>10, <2>3
    <3> QED BY <3>2, <3>3
  <2>4. ASSUME match = {grown} PROVE Cardinality(found) = 1 /\ c = Len(first)
    <3>1. grown = first
      BY <2>1, <2>4
    <3> QED BY <1>10, <2>2, <2>4, <3>1
  <2>5. Closed(found, k) <=> Cardinality(found) = 1 /\ c = Len(first) /\ c < CAPACITY - 1
    BY <1>5, <1>7 DEF Closed
  <2> QED BY <1>10, <2>3, <2>4, <2>5
<1>13. Space \in LineChars
  BY Zenon DEF LineChars
<1>14. /\ SubSeq(grown, n + 1, Len(grown)) = SubSeq(first, n + 1, c)
       /\ SubSeq(Append(grown, Space), n + 1, Len(Append(grown, Space))) = Append(SubSeq(first, n + 1, c), Space)
  <2>1. c <= Len(first)
    BY <1>8
  <2> QED BY <1>2, <1>8, <1>10, <1>13, <2>1, RestIs
<1>15. CompletionText(found, n) = IF Closed(found, k) THEN Append(SubSeq(first, n + 1, c), Space)
                                  ELSE SubSeq(first, n + 1, c)
  BY <1>1, <1>5, <1>7 DEF Completed, Rest
<1>16. line # <<>> /\ Len(line) = n
  BY TextOf
<1>17. \A x, y : Abstract!IsPrefix(x, y) <=> IsPrefix(x, y)
  BY DEF Abstract!IsPrefix, IsPrefix
<1>18. match = {name \in Range(Commands) : Abstract!IsPrefix(line, name)}
  BY <1>3, <1>17 DEF Matching
<1>19. Abstract!LongestCommonPrefix(match) = common
  <2>1. Abstract!LongestCommonPrefix(match) = LongestCommonPrefix(match)
    BY DEF Abstract!LongestCommonPrefix, LongestCommonPrefix, Abstract!CommonPrefixes, CommonPrefixes,
           Abstract!Prefixes, Prefixes, Abstract!IsPrefix, IsPrefix
  <2> QED BY <1>6, <1>9, <2>1
<1> DEFINE full == IF match = {grown} /\ Len(grown) < CAPACITY - 1 THEN Append(grown, Space) ELSE grown
<1>20. Abstract!Completion(line) = SubSeq(full, Len(line) + 1, Len(full))
  <2>1. Abstract!Completion(line) =
          IF line = <<>> \/ Space \in Abstract!Range(line) \/ match = {} THEN <<>>
          ELSE SubSeq(full, Len(line) + 1, Len(full))
    BY <1>11, <1>18, <1>19 DEF Abstract!Completion
  <2>2. Space \notin Abstract!Range(line)
    BY DEF Abstract!Range, Range
  <2> QED BY <1>4, <1>16, <2>1, <2>2
<1>21. CASE Closed(found, k)
  <2>1. full = Append(grown, Space)
    BY <1>12, <1>21
  <2> HIDE DEF full
  <2> QED BY <1>14, <1>15, <1>16, <1>20, <1>21, <2>1
<1>22. CASE ~Closed(found, k)
  <2>1. full = grown
    BY <1>12, <1>22
  <2> HIDE DEF full
  <2> QED BY <1>14, <1>15, <1>16, <1>20, <1>22, <2>1
<1> QED BY <1>21, <1>22

\* Tab adds nothing where the abstract editor completes nothing.
LEMMA NothingCompleted ==
  ASSUME NEW b, NEW n, Holds(b, n), NEW line, line = Text(b, n),
         n = 0 \/ Space \in Range(line) \/ Matches(line) = {}
  PROVE  Abstract!Completion(line) = <<>>
<1>1. line \in Seq(LineChars) /\ Len(line) = n /\ n \in Nat
  BY TextOf
<1>2. n = 0 => line = <<>>
  BY <1>1
<1>3. Space \in Range(line) => Space \in Abstract!Range(line)
  BY DEF Range, Abstract!Range
<1>4. PICK match : match = {name \in Range(Commands) : Abstract!IsPrefix(line, name)}
  OBVIOUS
<1>5. Matches(line) = {} => match = {}
  <2>1. \A x, y : Abstract!IsPrefix(x, y) <=> IsPrefix(x, y)
    BY DEF Abstract!IsPrefix, IsPrefix
  <2>2. match = Matching(line)
    BY <1>4, <2>1 DEF Matching
  <2>3. PICK found : found = Matches(line)
    OBVIOUS
  <2>4. Matching(line) = {Commands[i] : i \in found}
    BY <2>3, MatchingIs
  <2> QED BY <2>2, <2>3, <2>4
<1>6. line = <<>> \/ Space \in Abstract!Range(line) \/ match = {}
  BY <1>2, <1>3, <1>5
<1> DEFINE grown == Abstract!First(Abstract!LongestCommonPrefix(match), CAPACITY - 1)
           full == IF match = {grown} /\ Len(grown) < CAPACITY - 1 THEN Append(grown, Space) ELSE grown
<1>7. Abstract!Completion(line) =
        IF line = <<>> \/ Space \in Abstract!Range(line) \/ match = {} THEN <<>>
        ELSE SubSeq(full, Len(line) + 1, Len(full))
  BY <1>4 DEF Abstract!Completion
<1> HIDE DEF full, grown
<1> QED BY <1>6, <1>7

\* What Tab leaves in the buffer: nothing new unless the cursor is behind the
\* line, and then what the abstract editor completes it with.
LEMMA TabText ==
  ASSUME NEW t, NEW b, NEW n, Holds(b, n), NEW pos \in 0 .. n,
         NEW done, done = handle_tab_completion(t, b, n, pos)
  PROVE  /\ pos # n => Untouched(done, b, n)
         /\ pos = n => \E text \in Seq(LineChars) :
                         text = Abstract!Completion(Text(b, n)) /\ Grows(done.buffer, done.len, b, n, text)
<1> DEFINE line == Text(b, n)
           found == Matches(line)
           text == CompletionText(found, n)
           listed == list_matches(t, b, n)
           bell == tty_putc(t, Bell)
           more == tty_write(t, text)
           grown == NullTerminated(memcpy(b, n, text), n + Len(text))
           none == n = 0 \/ Space \in Range(line) \/ found = {}
<1>1. \/ /\ none \/ pos # n \/ text = <<>>
         /\ \/ done = [tty |-> listed, buffer |-> b, len |-> n, own |-> FALSE]
            \/ done = [tty |-> bell, buffer |-> b, len |-> n, own |-> FALSE]
            \/ done = [tty |-> t, buffer |-> b, len |-> n, own |-> TRUE]
      \/ /\ ~none /\ pos = n
         /\ done = [tty |-> more, buffer |-> grown, len |-> n + Len(text), own |-> TRUE]
  BY DEF handle_tab_completion
<1>2. n \in Nat /\ b \in [Index -> Bytes] /\ \A i \in 0 .. n - 1 : b[i] \in LineChars
  BY HoldsBytes DEF Holds
<1>3. none => Abstract!Completion(line) = <<>>
  BY NothingCompleted
<1>4. ~none => Abstract!Completion(line) = text
  BY CompletionRefines
<1>5. ~none => text \in Seq(LineChars) /\ n + Len(text) <= CAPACITY - 1
  BY CompletionFits
<1>6. CASE /\ none \/ pos # n \/ text = <<>>
           /\ \/ done = [tty |-> listed, buffer |-> b, len |-> n, own |-> FALSE]
              \/ done = [tty |-> bell, buffer |-> b, len |-> n, own |-> FALSE]
              \/ done = [tty |-> t, buffer |-> b, len |-> n, own |-> TRUE]
  <2> HIDE DEF line, found, text, listed, bell, more, grown, none
  <2>1. done.buffer = b /\ done.len = n
    BY <1>6
  <2>2. ASSUME pos = n PROVE <<>> = Abstract!Completion(line)
    BY <1>3, <1>4, <1>6, <2>2
  <2>3. <<>> \in Seq(LineChars) /\ Grows(done.buffer, done.len, b, n, <<>>)
    BY <1>2, <2>1 DEF Grows
  <2> QED BY <2>1, <2>2, <2>3 DEF Untouched, line
<1>7. CASE /\ ~none /\ pos = n
           /\ done = [tty |-> more, buffer |-> grown, len |-> n + Len(text), own |-> TRUE]
  <2>1. PICK x \in Seq(LineChars) : x = text
    BY <1>5, <1>7
  <2>2. n + Len(x) <= CAPACITY - 1
    BY <1>5, <1>7, <2>1
  <2>3. PICK d : d = NullTerminated(memcpy(b, n, x), n + Len(x))
    OBVIOUS
  <2>4. Grows(d, n + Len(x), b, n, x)
    BY <1>2, <2>2, <2>3, CopyHolds
  <2>5. done.buffer = d /\ done.len = n + Len(x)
    BY <1>7, <2>1, <2>3
  <2>6. Grows(done.buffer, done.len, b, n, x)
    BY <2>4, <2>5
  <2>7. x = Abstract!Completion(line)
    BY <1>4, <1>7, <2>1
  <2> QED BY <1>7, <2>6, <2>7
<1> QED BY <1>1, <1>6, <1>7

\* Tab completes the text behind the cursor.
LEMMA TabRefines ==
  ASSUME EditInv, EditInv', WaitInv, TabKey
  PROVE  Refines
<1>1. PICK done : done = handle_tab_completion(tty, buffer, len, cursor_pos)
  OBVIOUS
<1>2. /\ Holds(buffer, len) /\ cursor_pos \in 0 .. len /\ len \in Nat /\ cursor_pos \in Nat
      /\ cursor_pos <= len
  BY EditFacts
<1>3. (IF len = 0 THEN 0 ELSE cursor_pos) = cursor_pos
  BY <1>2
<1>4. /\ at = "read" /\ buffer' = done.buffer /\ len' = done.len /\ cursor_pos' = cursor_pos
      /\ LeavesHistory /\ at' = at /\ UNCHANGED ring
  BY <1>1, <1>3 DEF TabKey, KeyTyped
<1>5. Reading /\ Reading'
  BY <1>4 DEF Reading
<1>6. Abstract!Written /\ WaitInv'
  BY <1>4, <1>5, WritesText
<1>7. Halves(LeftText, RightText, buffer, len, cursor_pos)
  BY <1>5, TextReading
<1>8. Halves(LeftText', RightText', done.buffer, done.len, cursor_pos)
  BY <1>4, <1>5, TextNext
<1>9. RightText = <<>> <=> cursor_pos = len
  <2>1. RightText \in Seq(LineChars) /\ Len(RightText) = len - cursor_pos
    BY <1>7 DEF Halves
  <2>2. RightText = <<>> <=> Len(RightText) = 0
    BY <2>1
  <2> QED BY <1>2, <2>1, <2>2
<1>10. CASE cursor_pos # len
  <2>1. Untouched(done, buffer, len)
    BY <1>1, <1>2, <1>10, TabText
  <2>2. LeftText' = LeftText /\ RightText' = RightText
    BY <1>2, <1>7, <1>8, <2>1, SplitUnique DEF Untouched
  <2>3. Abstract!ACompletes
    BY <1>6, <1>9, <1>10, <2>2 DEF Abstract!ACompletes
  <2> QED BY <1>6, <2>3 DEF Refines, Abstract!ANext
<1>11. CASE cursor_pos = len
  <2>1. PICK text \in Seq(LineChars) :
          text = Abstract!Completion(Text(buffer, len)) /\ Grows(done.buffer, done.len, buffer, len, text)
    BY <1>1, <1>2, <1>11, TabText
  <2>2. PICK d, m : d = done.buffer /\ m = done.len
    OBVIOUS
  <2>3. /\ m = len + Len(text) /\ Len(text) \in Nat /\ m \in Nat /\ cursor_pos \in 0 .. m
        /\ m - cursor_pos = Len(text)
        /\ \A i \in 0 .. len - 1 : d[i] = buffer[i]
        /\ \A i \in 1 .. Len(text) : d[len + i - 1] = text[i]
    BY <1>2, <1>11, <2>1, <2>2 DEF Grows
  <2>4. Halves(LeftText, text, d, m, cursor_pos)
    <3>1. LeftText \in Seq(LineChars) /\ Len(LeftText) = cursor_pos
      BY <1>7 DEF Halves
    <3>2. ASSUME NEW i \in 1 .. cursor_pos PROVE LeftText[i] = d[i - 1]
      <4>1. i - 1 \in 0 .. len - 1
        BY <1>2, <1>11
      <4> QED BY <1>7, <2>3, <4>1 DEF Halves
    <3> QED BY <1>11, <2>1, <2>3, <3>1, <3>2 DEF Halves
  <2>5. LeftText' = LeftText /\ RightText' = text
    BY <1>8, <2>2, <2>3, <2>4, SplitUnique
  <2>6. LeftText = Text(buffer, len)
    BY <1>5, <1>11 DEF LeftText
  <2>7. Abstract!ACompletes
    BY <1>6, <1>9, <1>11, <2>1, <2>5, <2>6 DEF Abstract!ACompletes
  <2> QED BY <1>6, <2>7 DEF Refines, Abstract!ANext
<1> QED BY <1>10, <1>11

\* At the start nothing is typed and nothing was entered.
LEMMA InitRefines ==
  ASSUME Init
  PROVE  Abstract!AInit /\ WaitInv
<1>1. /\ at = "read" /\ len = 0 /\ cursor_pos = 0
      /\ history_offset = -1 /\ saved_current_valid = FALSE /\ history_count = 0
  BY DEF Init
<1>2. Reading
  BY <1>1 DEF Reading
<1>3. LeftText = <<>>
  <2>1. 1 .. cursor_pos = {}
    BY <1>1
  <2> QED BY <1>2, <2>1 DEF LeftText, Text
<1>4. RightText = <<>>
  <2>1. PICK s : s = Text(buffer, len)
    OBVIOUS
  <2>2. RightText = SubSeq(s, cursor_pos + 1, len)
    BY <1>2, <2>1 DEF RightText
  <2>3. cursor_pos + 1 = 1
    BY <1>1
  <2>4. s = <<>>
    BY <1>1, <2>1 DEF Text
  <2> QED BY <1>1, <2>2, <2>3, <2>4
<1>5. Entered = <<>>
  <2>1. 1 .. history_count = {}
    BY <1>1
  <2> QED BY <2>1 DEF Entered
<1>6. Picked = 0
  <2>1. -1 + 1 = 0
    OBVIOUS
  <2> QED BY <1>1, <1>2, <2>1 DEF Picked
<1>7. Waiting = <<>>
  BY <1>1 DEF Waiting
<1>8. WaitInv
  BY <1>1 DEF WaitInv
<1>9. RunText = <<>>
  BY <1>2 DEF RunText
<1> QED BY <1>3, <1>4, <1>5, <1>6, <1>7, <1>8, <1>9 DEF Abstract!AInit

\* A step that changes nothing changes nothing of the abstract editor.
LEMMA StutterRefines ==
  ASSUME WaitInv, UNCHANGED vars
  PROVE  Refines
<1>1. UNCHANGED <<at, edit, browse, ring>>
  BY DEF vars
<1>2. Entered' = Entered
  BY <1>1, SameEntered
<1>3. /\ LeftText' = LeftText /\ RightText' = RightText /\ Picked' = Picked /\ Waiting' = Waiting
      /\ RunText' = RunText
  BY <1>1 DEF edit, browse, LeftText, RightText, Picked, Waiting, RunText, Reading, Text
<1>4. WaitInv'
  BY <1>1 DEF browse, WaitInv
<1>5. UNCHANGED Abstract!avars
  BY <1>2, <1>3 DEF Abstract!avars
<1> QED BY <1>4, <1>5 DEF Refines

\* Every step of the editor is one of the abstract editor, or none.
LEMMA NextRefines ==
  ASSUME EditInv, EditInv', RowShown, WaitInv, [Next]_vars
  PROVE  Refines
<1>1. CASE UNCHANGED vars
  BY <1>1, StutterRefines
<1>2. CASE \E c \in Letters : TypeChar(c)
  BY <1>2, TypeCharRefines
<1>3. CASE BackspaceKey \/ DeleteKey
  BY <1>3, BackspaceRefines, DeleteRefines
<1>4. CASE ArrowLeft \/ ArrowRight \/ HomeKey \/ EndKey
  BY <1>4, CursorRefines
<1>5. CASE ArrowUp \/ ArrowDown
  BY <1>5, ArrowUpRefines, ArrowDownRefines
<1>6. CASE TabKey
  BY <1>6, TabRefines
<1>7. CASE EnterKey \/ CtrlCKey
  BY <1>7, EnterRefines, CtrlCRefines
<1>8. CASE (\E text \in Outputs : CommandWrites(text)) \/ clear_handler \/ noise_handler
  <2>1. ~Reading /\ UNCHANGED ring
    BY <1>8 DEF CommandWrites, clear_handler, noise_handler, Reading
  <2>2. \E t : NewPrompt(t)
    BY <1>8 DEF CommandWrites, clear_handler, noise_handler
  <2> QED BY <2>1, <2>2, CommandRefines
<1>9. CASE draw_noise_frame("9")
  BY <1>9, NoiseRefines
<1> QED BY <1>1, <1>2, <1>3, <1>4, <1>5, <1>6, <1>7, <1>8, <1>9 DEF Next

\* The editor implements EditedLine: whatever is typed, the line, the history
\* and the line that waits are what the text left and right of the cursor and
\* the list of lines say (read_line, history_add, history_get,
\* handle_tab_completion).
THEOREM ImplementsEdited == Spec => ImplementsEditedLine
<1>1. Init => Abstract!AInit /\ WaitInv
  BY InitRefines
<1>2. ASSUME EditInv, EditInv', RowShown, WaitInv, [Next]_vars
      PROVE  [Abstract!ANext]_(Abstract!avars) /\ WaitInv'
  BY <1>2, NextRefines DEF Refines
<1>3. (EditInv /\ RowShown) /\ (EditInv /\ RowShown)' /\ WaitInv /\ [Next]_vars
        => [Abstract!ANext]_(Abstract!avars) /\ WaitInv'
  BY <1>2
<1> QED BY <1>1, <1>3, AlwaysEditing, PTL DEF Spec, ImplementsEditedLine, Abstract!ASpec

-----------------------------------------------------------------------------
(* The pager: operators.                                                   *)

\* A set of natural numbers that has a member has a least one.
LEMMA MinIsLeast ==
  ASSUME NEW S, S \subseteq Nat, S # {}
  PROVE  Min(S) \in S /\ \A y \in S : Min(S) <= y
<1>1. \E x \in S : \A y \in S : x <= y
  BY LeastNumber
<1> QED BY <1>1 DEF Min

-----------------------------------------------------------------------------
(* The pager: the inductive invariant.                                     *)

Chars == {NUL} \cup UNION {{d[i] : i \in 1 .. Len(d)} : d \in Documents}

Control ==
  /\ pc \in {"idle", "line", "load", "prepare", "split", "view", "wait", "poll", "exit"}
  /\ stop \in BOOLEAN /\ running \in BOOLEAN
  /\ source \in Seq(Chars) /\ offset \in Nat

Balanced == blocks = [b \in {"data", "lines"} |-> blocks[b]] /\ BlocksBalanced

\* What has been read of the text.
Loaded ==
  /\ pc \in {"idle", "line"} => offset = 0 /\ data = <<>>
  /\ pc = "load" => offset <= Len(source) /\ data = SubSeq(source, 1, offset)
  /\ pc = "prepare" => data = Append(source, NUL)

\* What the loop of less_prepare_lines has made of the first n characters.
SplitTo(n) ==
  /\ data \in Seq(Chars) /\ Len(data) = Len(source) + 1
  /\ \A i \in 1 .. Len(source) :
       data[i] = IF i <= n /\ source[i] \in {Newline, Return} THEN NUL ELSE source[i]
  /\ data[Len(source) + 1] = NUL
  /\ lines \in Seq(Nat) /\ Len(lines) <= n + 1
  /\ \A i \in Nat : (\E k \in 1 .. Len(lines) : lines[k] = i) <=>
                      i = 0 \/ (i \in 1 .. n /\ source[i] = Newline)
  /\ \A j, k \in 1 .. Len(lines) : j < k => lines[j] < lines[k]

Divided ==
  /\ pc = "split" => offset <= Len(source) /\ SplitTo(offset)
  /\ Viewing => SplitTo(Len(source)) /\ top_line \in 0 .. max_start

PInv == Control /\ Balanced /\ Loaded /\ Divided

-----------------------------------------------------------------------------
(* The pager: one lemma for each action, or for a few that are alike.      *)

\* What less shows are sequences of characters.
LEMMA DocumentsAreChars == \A d \in Documents : d \in Seq(Chars)
<1> SUFFICES ASSUME NEW d \in Documents PROVE d \in Seq(Chars)
  OBVIOUS
<1>1. Len(d) \in Nat /\ d = [i \in 1 .. Len(d) |-> d[i]]
  BY PagerAssumption
<1>2. \A i \in 1 .. Len(d) : d[i] \in Chars
  BY DEF Chars
<1>3. [i \in 1 .. Len(d) |-> d[i]] \in Seq(Chars)
  BY <1>1, <1>2
<1> QED BY <1>1, <1>3

\* The shell waits for a command.
LEMMA PInvInit == PagerInit => PInv
<1> SUFFICES ASSUME PagerInit PROVE PInv
  OBVIOUS
<1>1. <<>> \in Seq(Chars)
  OBVIOUS
<1>2. Control
  BY <1>1, Zenon DEF PagerInit, Control
<1>3. Balanced
  BY DEF PagerInit, Balanced, BlocksBalanced, Viewing
<1>4. Loaded /\ Divided
  BY DEF PagerInit, Loaded, Divided, Viewing
<1> QED BY <1>2, <1>3, <1>4 DEF PInv

\* What less_handler allocates and frees.
LEMMA AllocatedIs ==
  ASSUME Balanced, NEW b \in {"data", "lines"}, Allocated(b)
  PROVE  /\ blocks' = [c \in {"data", "lines"} |-> blocks'[c]]
         /\ \A c \in {"data", "lines"} : blocks'[c] = IF c = b THEN blocks[c] + 1 ELSE blocks[c]
BY DEF Balanced, Allocated

\* What free leaves of each block.
LEMMA FreedIs ==
  ASSUME Balanced, NEW bs, Freed(bs)
  PROVE  /\ blocks' = [c \in {"data", "lines"} |-> blocks'[c]]
         /\ \A c \in {"data", "lines"} : blocks'[c] = IF c \in bs THEN blocks[c] - 1 ELSE blocks[c]
<1>1. DOMAIN blocks = {"data", "lines"}
  BY DEF Balanced
<1> QED BY <1>1 DEF Freed

\* Every way out of less_handler with its blocks freed is a way back to the
\* invariant.
LEMMA ReturnsKeeps ==
  ASSUME PInv, Returns, stop' \in BOOLEAN, NEW bs, Freed(bs),
         bs = {b \in {"data", "lines"} : blocks[b] = 1}
  PROVE  PInv'
<1>0. <<>> \in Seq(Chars)
  OBVIOUS
<1>1. Control'
  BY <1>0, Zenon DEF Returns, Control
<1>2. \A c \in {"data", "lines"} : blocks[c] \in {0, 1}
  BY DEF PInv, Balanced, BlocksBalanced
<1>3. Balanced'
  <2>1. /\ blocks' = [c \in {"data", "lines"} |-> blocks'[c]]
        /\ \A c \in {"data", "lines"} : blocks'[c] = IF c \in bs THEN blocks[c] - 1 ELSE blocks[c]
    BY FreedIs DEF PInv
  <2>2. \A c \in {"data", "lines"} : blocks'[c] = 0
    BY <1>2, <2>1
  <2> QED BY <2>1, <2>2 DEF Returns, Balanced, BlocksBalanced, Viewing
<1>4. Loaded' /\ Divided'
  BY DEF Returns, Loaded, Divided, Viewing
<1> QED BY <1>1, <1>3, <1>4 DEF PInv

\* Before there is a text.
LEMMA LineKeeps ==
  ASSUME PInv, ShellPrompts \/ Refused \/ OpenFile \/ less_copy_input
  PROVE  PInv'
<1>0. Control /\ Balanced /\ Loaded
  BY DEF PInv
<1>1. CASE ShellPrompts \/ Refused
  BY <1>0, <1>1 DEF ShellPrompts, Refused, PInv, Control, Balanced, BlocksBalanced, Loaded,
     Divided, Viewing
<1>2. CASE OpenFile
  <2>1. CASE pc' = "idle"
    BY <1>0, <1>2, <2>1 DEF OpenFile, PInv, Control, Balanced, BlocksBalanced, Loaded,
       Divided, Viewing
  <2>2. CASE pc' = "load"
    <3>1. /\ pc = "line" /\ source' \in Documents /\ Allocated("data")
          /\ UNCHANGED <<offset, data, lines, top_line, running, stop>>
      BY <1>2, <2>2 DEF OpenFile
    <3>2. source' \in Seq(Chars)
      BY <3>1, DocumentsAreChars
    <3>3. Control'
      BY <1>0, <2>2, <3>1, <3>2 DEF Control
    <3>4. Balanced'
      BY <1>0, <2>2, <3>1, AllocatedIs DEF Balanced, BlocksBalanced, Viewing
    <3>5. SubSeq(source', 1, 0) = <<>>
      BY <3>2
    <3>6. Loaded'
      BY <1>0, <2>2, <3>1, <3>2, <3>5 DEF Loaded
    <3>7. Divided'
      BY <2>2 DEF Divided, Viewing
    <3> QED BY <3>3, <3>4, <3>6, <3>7 DEF PInv
  <2> QED BY <1>2, <2>1, <2>2 DEF OpenFile
<1>3. CASE less_copy_input
  <2>1. CASE pc' = "idle"
    BY <1>0, <1>3, <2>1 DEF less_copy_input, PInv, Control, Balanced, BlocksBalanced, Loaded,
       Divided, Viewing
  <2>2. CASE pc' = "prepare"
    <3>1. /\ pc = "line" /\ source' \in Documents /\ Allocated("data")
          /\ data' = Append(source', NUL)
          /\ UNCHANGED <<offset, lines, top_line, running, stop>>
      BY <1>3, <2>2 DEF less_copy_input
    <3>2. source' \in Seq(Chars)
      BY <3>1, DocumentsAreChars
    <3>3. Control'
      BY <1>0, <2>2, <3>1, <3>2 DEF Control
    <3>4. Balanced'
      BY <1>0, <2>2, <3>1, AllocatedIs DEF Balanced, BlocksBalanced, Viewing
    <3>5. Loaded' /\ Divided'
      BY <2>2, <3>1 DEF Loaded, Divided, Viewing
    <3> QED BY <3>3, <3>4, <3>5 DEF PInv
  <2> QED BY <1>3, <2>1, <2>2 DEF less_copy_input
<1> QED BY <1>1, <1>2, <1>3

\* A chunk is read behind what was read before it, a read fails, or all is read.
LEMMA LoadKeeps ==
  ASSUME PInv, less_load_file
  PROVE  PInv'
<1>0. /\ Control /\ Balanced /\ Loaded /\ pc = "load" /\ UNCHANGED <<screen, stop>>
      /\ offset \in Nat /\ offset <= Len(source) /\ data = SubSeq(source, 1, offset)
      /\ source \in Seq(Chars) /\ Len(source) \in Nat
  BY DEF PInv, less_load_file, Loaded, Control
<1>1. CASE /\ offset < Len(source)
           /\ data' = data \o SubSeq(source, offset + 1, offset + Chunk)
           /\ offset' = offset + Chunk
           /\ UNCHANGED <<pc, source, label, lines, top_line, running, blocks>>
  <2>1. Chunk \in Nat /\ offset + Chunk <= Len(source)
    BY <1>0, <1>1, PagerAssumption DEF Chunk
  <2>2. data' = SubSeq(source, 1, offset + Chunk)
    <3> DEFINE n == offset + Chunk
               a == SubSeq(source, 1, offset)
               b == SubSeq(source, offset + 1, n)
               c == SubSeq(source, 1, n)
    <3>1. n \in Nat /\ offset <= n /\ n <= Len(source) /\ n - offset \in Nat
      BY <1>0, <2>1
    <3> HIDE DEF n
    <3>2. /\ a \in Seq(Chars) /\ Len(a) = offset
          /\ \A i \in 1 .. offset : a[i] = source[i]
      BY <1>0
    <3>3. /\ b \in Seq(Chars) /\ Len(b) = n - offset
          /\ \A i \in 1 .. n - offset : b[i] = source[offset + i]
      BY <1>0, <3>1
    <3>4. /\ c \in Seq(Chars) /\ Len(c) = n
          /\ \A i \in 1 .. n : c[i] = source[i]
      BY <1>0, <3>1
    <3> HIDE DEF a, b, c
    <3>5. /\ a \o b \in Seq(Chars) /\ Len(a \o b) = n
          /\ \A i \in 1 .. n : (a \o b)[i] = source[i]
      BY <1>0, <3>1, <3>2, <3>3
    <3>6. a \o b = c
      <4>1. \A t \in Seq(Chars) : t = [i \in 1 .. Len(t) |-> t[i]]
        OBVIOUS
      <4>2. c = [i \in 1 .. n |-> source[i]]
        BY <3>4, <4>1
      <4>3. a \o b = [i \in 1 .. n |-> source[i]]
        BY <3>5, <4>1
      <4> QED BY <4>2, <4>3
    <3> QED BY <1>0, <1>1, <3>6 DEF a, b, c, n
  <2>3. Control' /\ Balanced'
    BY <1>0, <1>1, <2>1 DEF Control, Balanced, BlocksBalanced, Viewing
  <2>4. Loaded' /\ Divided'
    BY <1>0, <1>1, <2>1, <2>2 DEF Loaded, Divided, Viewing
  <2> QED BY <2>3, <2>4 DEF PInv
<1>2. CASE Freed({"data"}) /\ Returns
  <2>1. {"data"} = {b \in {"data", "lines"} : blocks[b] = 1}
    BY <1>0 DEF Balanced, BlocksBalanced, Viewing
  <2> QED BY <1>0, <1>2, <2>1, ReturnsKeeps DEF Control
<1>3. CASE /\ offset >= Len(source) /\ data' = Append(data, NUL) /\ pc' = "prepare"
           /\ UNCHANGED <<source, label, offset, lines, top_line, running, blocks>>
  <2>1. data = source
    BY <1>0, <1>3
  <2> QED BY <1>0, <1>3, <2>1 DEF PInv, Control, Balanced, BlocksBalanced, Loaded, Divided, Viewing
<1> QED BY <1>1, <1>2, <1>3 DEF less_load_file

\* The table of lines is allocated, or less gives up.
LEMMA PrepareKeeps ==
  ASSUME PInv, less_prepare_lines
  PROVE  PInv'
<1>0. Control /\ Balanced /\ pc = "prepare" /\ data = Append(source, NUL) /\ UNCHANGED <<screen, stop>>
  BY DEF PInv, less_prepare_lines, Loaded
<1>1. CASE /\ Allocated("lines") /\ lines' = <<0>> /\ offset' = 0 /\ pc' = "split"
           /\ UNCHANGED <<source, label, data, top_line, running>>
  <2>1. Control'
    BY <1>0, <1>1 DEF Control
  <2>2. Balanced'
    BY <1>0, <1>1, AllocatedIs DEF Balanced, BlocksBalanced, Viewing
  <2>n. NUL \in Chars
    BY DEF Chars
  <2>3. source \in Seq(Chars) /\ Len(source) \in Nat
    BY <1>0 DEF Control
  <2>4. /\ data \in Seq(Chars) /\ Len(data) = Len(source) + 1
        /\ \A i \in 1 .. Len(source) : data[i] = source[i]
        /\ data[Len(source) + 1] = NUL
    BY <1>0, <2>n, <2>3
  <2>5. lines' \in Seq(Nat) /\ Len(lines') = 1 /\ lines'[1] = 0
    BY <1>1
  <2>6. SplitTo(0)'
    BY <1>1, <2>3, <2>4, <2>5 DEF SplitTo
  <2>7. Divided'
    BY <1>1, <2>3, <2>6 DEF Divided, Viewing
  <2> QED BY <1>1, <2>1, <2>2, <2>7 DEF PInv, Loaded
<1>2. CASE Freed({"data"}) /\ Returns
  <2>1. {"data"} = {b \in {"data", "lines"} : blocks[b] = 1}
    BY <1>0 DEF Balanced, BlocksBalanced, Viewing
  <2> QED BY <1>0, <1>2, <2>1, ReturnsKeeps DEF Control
<1> QED BY <1>1, <1>2 DEF less_prepare_lines

\* A turn of the loop splits one character more.
LEMMA SplitsKeeps ==
  ASSUME PInv, Splits
  PROVE  PInv'
<1> DEFINE n == offset + 1
<1>0. /\ Control /\ Balanced /\ pc = "split" /\ pc' = "split" /\ offset < length
      /\ UNCHANGED <<source, top_line, running, stop, blocks>> /\ SplitTo(offset)
      /\ offset' = n
      /\ data' = [data EXCEPT ![n] = IF data[n] \in {Newline, Return} THEN NUL ELSE data[n]]
      /\ lines' = IF data[n] = Newline THEN Append(lines, n) ELSE lines
  BY DEF PInv, Splits, Divided
<1>1. /\ source \in Seq(Chars) /\ Len(source) \in Nat /\ offset \in Nat /\ n \in Nat
      /\ n \in 1 .. Len(source) /\ n <= Len(source) /\ data \in Seq(Chars)
      /\ Len(data) = Len(source) + 1
      /\ lines \in Seq(Nat) /\ Len(lines) \in Nat /\ Len(lines) <= n
  BY <1>0 DEF Control, SplitTo, length
<1>2. data[n] = source[n]
  BY <1>0, <1>1 DEF SplitTo
<1>3. /\ \A i \in 1 .. Len(source) :
           data[i] = IF i <= offset /\ source[i] \in {Newline, Return} THEN NUL ELSE source[i]
      /\ data[Len(source) + 1] = NUL
      /\ \A i \in Nat : (\E k \in 1 .. Len(lines) : lines[k] = i) <=>
                          i = 0 \/ (i \in 1 .. offset /\ source[i] = Newline)
      /\ \A j, k \in 1 .. Len(lines) : j < k => lines[j] < lines[k]
  BY <1>0 DEF SplitTo
<1>4. Control' /\ Balanced'
  BY <1>0, <1>1 DEF Control, Balanced, BlocksBalanced, Viewing
<1> DEFINE x == IF data[n] \in {Newline, Return} THEN NUL ELSE data[n]
<1>5. x \in Chars /\ data' = [data EXCEPT ![n] = x]
  <2>1. NUL \in Chars
    BY DEF Chars
  <2>2. data[n] \in Chars
    BY <1>1
  <2> QED BY <1>0, <2>1, <2>2
<1> HIDE DEF n
<1>6. /\ data' \in Seq(Chars) /\ Len(data') = Len(data) /\ data'[n] = x
      /\ \A i \in 1 .. Len(data) : i # n => data'[i] = data[i]
  <2> HIDE DEF x
  <2>1. n \in 1 .. Len(data) /\ Len(data) \in Nat
    BY <1>1
  <2>2. data' = [i \in 1 .. Len(data) |-> IF i = n THEN x ELSE data[i]]
    <3>1. data = [i \in 1 .. Len(data) |-> data[i]]
      BY <1>1
    <3> QED BY <1>5, <2>1, <3>1
  <2>3. \A i \in 1 .. Len(data) : (IF i = n THEN x ELSE data[i]) \in Chars
    BY <1>1, <1>5
  <2> QED BY <2>1, <2>2, <2>3
<1>7. \A i \in 1 .. Len(source) :
        data'[i] = IF i <= n /\ source[i] \in {Newline, Return} THEN NUL ELSE source[i]
  <2> TAKE i \in 1 .. Len(source)
  <2>1. CASE i = n
    BY <1>1, <1>2, <1>6, <2>1
  <2>2. CASE i # n
    <3>1. data'[i] = data[i] /\ (i <= n <=> i <= offset)
      BY <1>1, <1>6, <2>2 DEF n
    <3> QED BY <1>3, <3>1
  <2> QED BY <2>1, <2>2
<1>8. data'[Len(source) + 1] = NUL
  BY <1>1, <1>3, <1>6
<1>9. CASE source[n] = Newline
  <2>1. lines' = Append(lines, n)
    BY <1>0, <1>2, <1>9
  <2>2. /\ lines' \in Seq(Nat) /\ Len(lines') = Len(lines) + 1 /\ lines'[Len(lines) + 1] = n
        /\ \A k \in 1 .. Len(lines) : lines'[k] = lines[k]
    BY <1>1, <2>1
  <2>3. \A k \in 1 .. Len(lines) : lines[k] \in Nat /\ lines[k] < n
    <3> TAKE k \in 1 .. Len(lines)
    <3>1. lines[k] \in Nat
      BY <1>1
    <3>2. lines[k] = 0 \/ lines[k] \in 1 .. offset
      BY <1>3, <3>1
    <3> QED BY <1>1, <3>1, <3>2 DEF n
  <2>4. \A i \in Nat : (\E k \in 1 .. Len(lines') : lines'[k] = i) <=>
                         i = 0 \/ (i \in 1 .. n /\ source[i] = Newline)
    <3> TAKE i \in Nat
    <3>1. (\E k \in 1 .. Len(lines') : lines'[k] = i) <=>
            (\E k \in 1 .. Len(lines) : lines[k] = i) \/ i = n
      <4>1. \A k \in 1 .. Len(lines') : k \in 1 .. Len(lines) \/ k = Len(lines) + 1
        BY <1>1, <2>2
      <4>2. \A k \in 1 .. Len(lines) : k \in 1 .. Len(lines')
        BY <1>1, <2>2
      <4>3. Len(lines) + 1 \in 1 .. Len(lines')
        BY <1>1, <2>2
      <4> QED BY <2>2, <4>1, <4>2, <4>3
    <3>2. i \in 1 .. n <=> i \in 1 .. offset \/ i = n
      BY <1>1 DEF n
    <3> QED BY <1>3, <1>9, <3>1, <3>2
  <2>5. \A j, k \in 1 .. Len(lines') : j < k => lines'[j] < lines'[k]
    <3>0. \A k \in 1 .. Len(lines') : k = Len(lines) + 1 \/ k \in 1 .. Len(lines)
      BY <1>1, <2>2
    <3> SUFFICES ASSUME NEW j \in 1 .. Len(lines'), NEW k \in 1 .. Len(lines'), j < k
                 PROVE  lines'[j] < lines'[k]
      OBVIOUS
    <3>1. j \in 1 .. Len(lines) /\ lines'[j] = lines[j]
      BY <1>1, <2>2
    <3>2. CASE k = Len(lines) + 1
      BY <2>2, <2>3, <3>1, <3>2
    <3>3. CASE k \in 1 .. Len(lines)
      BY <1>3, <2>2, <3>1, <3>3
    <3> QED BY <3>0, <3>2, <3>3
  <2>6. Len(lines') <= n + 1
    BY <1>1, <2>2
  <2>7. SplitTo(offset)'
    <3>1. source' = source /\ offset' = n /\ Len(data') = Len(source) + 1
      BY <1>0, <1>1, <1>6
    <3> QED BY <1>6, <1>7, <1>8, <2>2, <2>4, <2>5, <2>6, <3>1 DEF SplitTo
  <2> QED BY <1>0, <1>1, <1>4, <2>7 DEF PInv, Loaded, Divided, Viewing
<1>10. CASE source[n] # Newline
  <2>1. lines' = lines
    BY <1>0, <1>2, <1>10
  <2>2. \A i \in Nat : (\E k \in 1 .. Len(lines) : lines[k] = i) <=>
                         i = 0 \/ (i \in 1 .. n /\ source[i] = Newline)
    <3> TAKE i \in Nat
    <3>1. i \in 1 .. n <=> i \in 1 .. offset \/ i = n
      BY <1>1 DEF n
    <3> QED BY <1>3, <1>10, <3>1
  <2>3. SplitTo(offset)'
    <3>1. Len(lines) <= n + 1
      BY <1>1
    <3> QED BY <1>0, <1>1, <1>3, <1>6, <1>7, <1>8, <2>1, <2>2, <3>1 DEF SplitTo
  <2> QED BY <1>0, <1>1, <1>4, <2>3 DEF PInv, Loaded, Divided, Viewing
<1> QED BY <1>9, <1>10

\* The rows of the screen that show lines.
LEMMA Viewport == viewport_rows \in Nat /\ viewport_rows >= 1
BY TerminalAssumption DEF viewport_rows, total_rows

\* The first line of the last page is a line number.
LEMMA LastPage == lines \in Seq(Nat) => max_start \in Nat
<1> SUFFICES ASSUME lines \in Seq(Nat) PROVE max_start \in Nat
  OBVIOUS
<1>1. Len(lines) \in Nat
  OBVIOUS
<1> QED BY <1>1, Viewport DEF max_start

\* With all lines found the first page is shown.
LEMMA ViewBeginsKeeps ==
  ASSUME PInv, ViewBegins
  PROVE  PInv'
<1>0. /\ Control /\ Balanced /\ pc = "split" /\ pc' = "view" /\ offset >= length
      /\ top_line' = 0 /\ running' = TRUE /\ offset <= Len(source) /\ SplitTo(offset)
      /\ UNCHANGED <<source, offset, data, lines, stop, blocks>>
  BY DEF PInv, ViewBegins, Divided
<1>1. Control' /\ Balanced'
  BY <1>0 DEF Control, Balanced, BlocksBalanced, Viewing
<1>2. offset = Len(source)
  BY <1>0 DEF Control, SplitTo, length
<1>3. SplitTo(Len(source))'
  BY <1>0, <1>2 DEF SplitTo
<1>4. max_start' \in Nat
  BY <1>0, LastPage DEF SplitTo, max_start, viewport_rows, total_rows
<1> QED BY <1>0, <1>1, <1>3, <1>4 DEF PInv, Loaded, Divided, Viewing

\* While the pager shows a page: the keys keep the page within the text.
LEMMA ViewKeeps ==
  ASSUME PInv, ShowPage \/ less_wait_key \/ NoKey \/ \E key \in Keys : less_view_document(key)
  PROVE  PInv'
<1>0. /\ Control /\ Balanced /\ Viewing /\ SplitTo(Len(source)) /\ top_line \in 0 .. max_start
      /\ UNCHANGED <<source, offset, data, lines, blocks>>
  BY DEF PInv, Divided, ShowPage, less_wait_key, NoKey, less_view_document, Viewing
<1>1. max_start \in Nat /\ max_start' = max_start /\ viewport_rows \in Nat /\ top_line \in Nat
  BY <1>0, LastPage, Viewport DEF SplitTo, max_start, viewport_rows, total_rows
<1>2. Viewing' /\ pc' \in {"view", "wait", "poll", "exit"}
  BY DEF ShowPage, less_wait_key, NoKey, less_view_document, Viewing
<1>3. stop' \in BOOLEAN /\ running' \in BOOLEAN
  BY <1>0 DEF Control, ShowPage, less_wait_key, NoKey, less_view_document
<1>4. top_line' \in 0 .. max_start
  <2>1. CASE less_wait_key \/ NoKey
    BY <1>0, <2>1 DEF less_wait_key, NoKey
  <2>2. CASE ShowPage
    BY <1>0, <1>1, <2>2 DEF ShowPage
  <2>3. ASSUME NEW key \in Keys, less_view_document(key) PROVE top_line' \in 0 .. max_start
    <3>1. top_line' = CASE key = " " /\ top_line < max_start -> PageDown(top_line)
                        [] key = Down /\ top_line < max_start -> top_line + 1
                        [] key = Up /\ top_line > 0 -> top_line - 1
                        [] key = "b" /\ top_line > 0 -> PageUp(top_line)
                        [] OTHER -> top_line
      BY <2>3 DEF less_view_document
    <3>2. PageDown(top_line) \in 0 .. max_start
      BY <1>0, <1>1 DEF PageDown
    <3>3. PageUp(top_line) \in 0 .. max_start
      BY <1>0, <1>1 DEF PageUp
    <3>4. top_line' \in {top_line, PageDown(top_line), PageUp(top_line)}
          \/ (top_line < max_start /\ top_line' = top_line + 1)
          \/ (top_line > 0 /\ top_line' = top_line - 1)
      BY <3>1, Zenon DEF Up, Down
    <3> QED BY <1>0, <1>1, <3>2, <3>3, <3>4
  <2> QED BY <2>1, <2>2, <2>3
<1>5. Control'
  BY <1>0, <1>2, <1>3 DEF Control
<1>6. Balanced'
  BY <1>0, <1>2 DEF Balanced, BlocksBalanced, Viewing
<1>7. SplitTo(Len(source))'
  BY <1>0 DEF SplitTo
<1>8. Loaded' /\ Divided'
  BY <1>1, <1>2, <1>4, <1>7 DEF Loaded, Divided
<1> QED BY <1>5, <1>6, <1>8 DEF PInv

\* Quitting frees both blocks.
LEMMA QuitKeeps ==
  ASSUME PInv, Quit
  PROVE  PInv'
<1>1. {"data", "lines"} = {b \in {"data", "lines"} : blocks[b] = 1}
  BY DEF PInv, Quit, Balanced, BlocksBalanced, Viewing
<1>2. Returns /\ Freed({"data", "lines"}) /\ stop' \in BOOLEAN
  BY DEF PInv, Quit, Control
<1> QED BY <1>1, <1>2, ReturnsKeeps

\* Ctrl-C may come at any time.
LEMMA InterruptKeeps ==
  ASSUME PInv, Interrupt \/ UNCHANGED pagerVars
  PROVE  PInv'
<1>1. UNCHANGED <<pc, source, offset, data, lines, top_line, running, blocks>>
  BY DEF Interrupt, pagerVars
<1>2. stop' \in BOOLEAN
  BY DEF PInv, Control, Interrupt, pagerVars
<1> QED BY <1>1, <1>2 DEF PInv, Control, Balanced, BlocksBalanced, Loaded, Divided, SplitTo,
       Viewing, max_start, viewport_rows, total_rows

-----------------------------------------------------------------------------
(* The theorems about the pager.                                           *)

\* Every step keeps the invariant.
LEMMA PInvNext == PInv /\ [PagerNext]_pagerVars => PInv'
<1> SUFFICES ASSUME PInv, [PagerNext]_pagerVars PROVE PInv'
  OBVIOUS
<1>1. CASE ShellPrompts \/ Refused \/ OpenFile \/ less_copy_input
  BY <1>1, LineKeeps
<1>2. CASE less_load_file \/ less_prepare_lines \/ Splits \/ ViewBegins
  BY <1>2, LoadKeeps, PrepareKeeps, SplitsKeeps, ViewBeginsKeeps
<1>3. CASE ShowPage \/ less_wait_key \/ NoKey \/ \E key \in Keys : less_view_document(key)
  BY <1>3, ViewKeeps
<1>4. CASE Quit \/ Interrupt
  BY <1>4, QuitKeeps, InterruptKeeps
<1>5. CASE UNCHANGED pagerVars
  BY <1>5, InterruptKeeps
<1>6. CASE PagerNext
  BY <1>1, <1>2, <1>3, <1>4, <1>6 DEF PagerNext, Thread
<1> QED BY <1>5, <1>6

\* The inductive invariant always holds.
LEMMA PInvAlways == PagerSpec => []PInv
BY PInvInit, PInvNext, PTL DEF PagerSpec

\* less frees the text and the lines exactly once on every way out: a read that
\* fails, no memory, a key, Ctrl-C before, between or while pages are shown.
THEOREM AlwaysBalanced == PagerSpec => []BlocksBalanced
<1>1. PInv => BlocksBalanced
  BY DEF PInv, Balanced
<1> QED BY <1>1, PInvAlways, PTL

\* The page never begins behind the last full one, whatever keys are pressed.
THEOREM PageWithinText == PagerSpec => []PagerTypeOK
<1>1. PInv => PagerTypeOK
  BY DEF PInv, Control, Divided, PagerTypeOK
<1> QED BY <1>1, PInvAlways, PTL

\* The string at a line start is the line of the text that starts there.
LEMMA StringIsLine ==
  ASSUME SplitTo(Len(source)), source \in Seq(Chars), NEW o \in 0 .. Len(source)
  PROVE  StringAt(o) = LineOf(source, o)
<1> DEFINE n == Len(source)
           S == {i \in o + 1 .. Len(data) : data[i] = NUL}
           T == {i \in o + 1 .. n : source[i] \in {Newline, Return, NUL}} \cup {n + 1}
           e == Min(S)
<1>1. /\ n \in Nat /\ o \in Nat /\ o <= n /\ data \in Seq(Chars) /\ Len(data) = n + 1
      /\ data[n + 1] = NUL
      /\ \A i \in 1 .. n : data[i] = IF source[i] \in {Newline, Return} THEN NUL ELSE source[i]
  BY DEF SplitTo
<1> HIDE DEF n
<1>2. S = T
  <2>1. ASSUME NEW i \in o + 1 .. n PROVE data[i] = NUL <=> source[i] \in {Newline, Return, NUL}
    BY <1>1 DEF Newline, Return, NUL
  <2> QED BY <1>1, <2>1
<1>3. S \subseteq Nat /\ S # {}
  BY <1>1
<1>4. e \in S /\ \A i \in S : e <= i
  <2> HIDE DEF S
  <2> QED BY <1>3, MinIsLeast
<1>5. e \in o + 1 .. n + 1 /\ e \in Nat
  BY <1>1, <1>4
<1>6. \A i \in o + 1 .. e - 1 : data[i] = source[i]
  <2> TAKE i \in o + 1 .. e - 1
  <2>1. i \in 1 .. n /\ i \notin S
    BY <1>1, <1>4, <1>5
  <2>2. data[i] # NUL
    BY <1>1, <1>5, <2>1
  <2> QED BY <1>1, <2>1, <2>2
<1> HIDE DEF e, S, T
<1>7. SubSeq(data, o + 1, e - 1) = SubSeq(source, o + 1, e - 1)
  <2> DEFINE m == e - 1 - o
  <2>1. m \in Nat /\ o + 1 \in Nat /\ e - 1 \in Nat /\ e - 1 <= n
    BY <1>1, <1>5
  <2>2. SubSeq(data, o + 1, e - 1) = [i \in 1 .. m |-> data[o + i]]
    BY <1>1, <2>1
  <2>3. SubSeq(source, o + 1, e - 1) = [i \in 1 .. m |-> source[o + i]]
    BY <1>1, <2>1 DEF n
  <2>4. \A i \in 1 .. m : data[o + i] = source[o + i]
    BY <1>1, <1>5, <1>6, <2>1
  <2> QED BY <2>2, <2>3, <2>4
<1>8. StringAt(o) = SubSeq(data, o + 1, e - 1)
  BY DEF StringAt, e, S
<1>9. LineOf(source, o) = SubSeq(source, o + 1, e - 1)
  BY <1>2 DEF LineOf, e, T, n
<1> QED BY <1>7, <1>8, <1>9

\* However the file was read, less has exactly the lines of the text: one for
\* the beginning and one behind every newline, in order, each whole, in an
\* array that is large enough.
THEOREM LinesAlwaysExact == PagerSpec => []LinesExact
<1>1. PInv => LinesExact
  <2> SUFFICES ASSUME PInv, Viewing PROVE LinesExact
    BY DEF LinesExact
  <2>1. SplitTo(Len(source)) /\ source \in Seq(Chars)
    BY DEF PInv, Divided, Control
  <2>2. /\ lines \in Seq(Nat) /\ Len(lines) \in Nat /\ Len(lines) <= Len(source) + 1
        /\ Len(source) \in Nat /\ length = Len(source)
        /\ \A i \in Nat : (\E k \in 1 .. Len(lines) : lines[k] = i) <=>
                            i = 0 \/ (i \in 1 .. Len(source) /\ source[i] = Newline)
        /\ \A j, k \in 1 .. Len(lines) : j < k => lines[j] < lines[k]
    BY <2>1 DEF SplitTo, length
  <2>3. Range(lines) = {0} \cup {i \in 1 .. Len(source) : source[i] = Newline}
    <3>1. Range(lines) = {lines[k] : k \in 1 .. Len(lines)}
      BY <2>2 DEF Range
    <3>2. \A k \in 1 .. Len(lines) : lines[k] \in Nat
      BY <2>2
    <3> QED BY <2>2, <3>1, <3>2
  <2>4. \A k \in 1 .. Len(lines) : StringAt(lines[k]) = LineOf(source, lines[k])
    <3> TAKE k \in 1 .. Len(lines)
    <3>1. lines[k] \in Nat
      BY <2>2
    <3>2. lines[k] \in 0 .. Len(source)
      BY <2>2, <3>1
    <3> QED BY <2>1, <3>2, StringIsLine
  <2>5. Len(lines) <= (IF length = 0 THEN 1 ELSE length) + 1
    BY <2>2
  <2> QED BY <2>2, <2>3, <2>4, <2>5 DEF LinesExact
<1> QED BY <1>1, PInvAlways, PTL

-----------------------------------------------------------------------------
(* The page. A backspace in a text erases what is left of it, and a screen *)
(* of one row moves its status line away, so both are excluded.            *)

PageRows == [r \in 1 .. viewport_rows |-> r - 1]
PageTexts(top) == [r \in {x \in 0 .. viewport_rows - 1 : top + x < Len(lines)} |->
                     Limited(StringAt(lines[top + r + 1]), TTY_COLS)]

\* One row of a page, and the rows of a page as a fold over them.
ShowRow(top, s, r) == IF top + r < Len(lines)
                      THEN tty_write(tty_set_cursor_position(s, r, 0),
                                     Limited(StringAt(lines[top + r + 1]), TTY_COLS))
                      ELSE tty_set_cursor_position(s, r, 0)
Rendering(g, top, t, n) ==
  g = [s \in SUBSET (1 .. n) |-> IF s = {} THEN t
                                 ELSE ShowRow(top, g[s \ {Max(s)}], PageRows[Max(s)])]
StatusOn(page) ==
  tty_write(tty_write(tty_set_cursor_position(page, status_row, 0), Status),
            [i \in 1 .. TTY_COLS - Len(Status) |-> Space])

\* What less_render_page leaves is where its rows lead, one by one, with the
\* status line written behind them.
LEMMA PageSteps ==
  ASSUME NEW t, NEW top
  PROVE  \E w : /\ Steps(w, "row", PageTexts(top), tty_clear(t), PageRows, viewport_rows)
                /\ less_render_page(t, top) = StatusOn(w[viewport_rows])
<1> DEFINE n == viewport_rows
           blank == tty_clear(t)
           it == CHOOSE g : Rendering(g, top, blank, n)
           arg == PageTexts(top)
<1>1. n \in Nat /\ DOMAIN PageRows = 1 .. n /\ \A i \in 1 .. n : PageRows[i] \in 0 .. n - 1
  BY Viewport DEF PageRows
<1>2. less_render_page(t, top) = StatusOn(it[1 .. n])
  BY <1>1 DEF less_render_page, FoldLeft, MapThenFoldSet, Rendering, StatusOn, ShowRow, PageRows
<1>3. \A u : \A x \in 0 .. n - 1 : Step("row", arg, u, x) = ShowRow(top, u, x)
  BY DEF Step, ShowRow, PageTexts
<1> HIDE DEF it, arg, n, blank
<1>4. \A g : Rendering(g, top, blank, n) <=> Doing(g, "row", arg, blank, PageRows, n)
  <2> SUFFICES ASSUME NEW g
               PROVE  Rendering(g, top, blank, n) <=> Doing(g, "row", arg, blank, PageRows, n)
    OBVIOUS
  <2>1. ASSUME NEW s \in SUBSET (1 .. n), s # {}
        PROVE  Step("row", arg, g[s \ {Max(s)}], PageRows[Max(s)]) = ShowRow(top, g[s \ {Max(s)}], PageRows[Max(s)])
    <3>1. s \subseteq 0 .. n
      OBVIOUS
    <3>2. Max(s) \in s
      BY <1>1, <2>1, <3>1, GreatestNumber
    <3>3. PageRows[Max(s)] \in 0 .. n - 1
      BY <1>1, <3>2
    <3> QED BY <1>3, <3>3
  <2>2. [s \in SUBSET (1 .. n) |-> IF s = {} THEN blank ELSE ShowRow(top, g[s \ {Max(s)}], PageRows[Max(s)])]
          = [s \in SUBSET (1 .. n) |-> IF s = {} THEN blank
                                       ELSE Step("row", arg, g[s \ {Max(s)}], PageRows[Max(s)])]
    BY <2>1
  <2> QED BY <2>2 DEF Rendering, Doing
<1>5. Rendering(it, top, blank, n)
  BY <1>1, <1>4, DoingExists DEF it
<1>6. PICK w : Steps(w, "row", arg, blank, PageRows, n) /\ it[1 .. n] = w[n]
  BY <1>1, <1>4, <1>5, DoingSteps
<1> QED BY <1>2, <1>6 DEF arg, blank, n

\* A text that can be written on a row: it fits, and has only characters that
\* fill a cell.
RowText(text) == /\ text \in Seq(Characters) /\ Len(text) <= TTY_COLS
                 /\ \A i \in 1 .. Len(text) : Plain(text[i])

\* The first characters of a text.
LEMMA LimitedText ==
  ASSUME NEW S, NEW s \in Seq(S), NEW n \in Nat
  PROVE  /\ Limited(s, n) \in Seq(S) /\ Len(Limited(s, n)) <= n
         /\ \A i \in 1 .. Len(Limited(s, n)) : Limited(s, n)[i] \in S
         /\ Len(s) <= n => Limited(s, n) = s
<1>1. PICK m \in Nat : m = IF Len(s) < n THEN Len(s) ELSE n
  OBVIOUS
<1>2. m <= Len(s) /\ m <= n /\ Limited(s, n) = SubSeq(s, 1, m)
  BY <1>1 DEF Limited
<1>3. SubSeq(s, 1, m) \in Seq(S) /\ Len(SubSeq(s, 1, m)) = m
  BY <1>2
<1>4. \A u \in Seq(S) : \A i \in 1 .. Len(u) : u[i] \in S
  OBVIOUS
<1>5. Len(s) <= n => SubSeq(s, 1, m) = s
  BY <1>1
<1> QED BY <1>2, <1>3, <1>4, <1>5

\* No text has a backspace in it.
NoBackspace == \A d \in Documents : \A i \in 1 .. Len(d) : d[i] # Backspace

\* The characters of the texts are characters of the terminal.
LEMMA CharsAreCharacters == Chars \subseteq Characters /\ (NoBackspace => Backspace \notin Chars)
<1>1. ASSUME NEW d \in Documents, NEW i \in 1 .. Len(d) PROVE d[i] \in STRING
  <2>1. d \in Seq(STRING)
    BY PagerAssumption
  <2> QED BY <2>1
<1>2. NUL \in Characters /\ STRING \subseteq Characters
  BY SpaceIsCharacter
<1>3. Chars \subseteq Characters
  <2> SUFFICES ASSUME NEW ch \in Chars, ch # NUL PROVE ch \in Characters
    BY <1>2
  <2>1. PICK d \in Documents : ch \in {d[i] : i \in 1 .. Len(d)}
    BY DEF Chars
  <2>2. PICK i \in 1 .. Len(d) : ch = d[i]
    BY <2>1
  <2> QED BY <1>1, <1>2, <2>2
<1>4. NUL # Backspace
  BY DEF NUL, Backspace
<1>5. NoBackspace => Backspace \notin Chars
  BY <1>4 DEF NoBackspace, Chars
<1> QED BY <1>3, <1>5

\* A line that was split can be written on a row.
LEMMA LineIsRowText ==
  ASSUME SplitTo(Len(source)), source \in Seq(Chars), NoBackspace, NEW i \in Nat
  PROVE  RowText(LineText(i))
<1>0. TTY_COLS \in Nat
  BY TerminalAssumption
<1>1. CASE ~(i < Len(lines))
  <2>1. LineText(i) = <<>>
    BY <1>1 DEF LineText
  <2> QED BY <1>0, <2>1 DEF RowText
<1>2. CASE i < Len(lines)
  <2> DEFINE o == lines[i + 1]
             S == {k \in o + 1 .. Len(data) : data[k] = NUL}
             P == {ch \in Chars : Plain(ch)}
             n == Len(source)
  <2>1. /\ n \in Nat /\ data \in Seq(Chars) /\ Len(data) = n + 1 /\ data[n + 1] = NUL
        /\ \A k \in 1 .. n : data[k] = IF source[k] \in {Newline, Return} THEN NUL ELSE source[k]
        /\ lines \in Seq(Nat) /\ Len(lines) \in Nat
    BY DEF SplitTo
  <2>2. i + 1 \in 1 .. Len(lines)
    BY <1>2, <2>1
  <2>3. o \in Nat /\ (o = 0 \/ o \in 1 .. n)
    <3>1. o \in Nat
      BY <2>1, <2>2
    <3> QED BY <2>2, <3>1 DEF SplitTo
  <2> HIDE DEF o, n
  <2>4. S \subseteq Nat /\ n + 1 \in S
    BY <2>1, <2>3
  <2>5. Min(S) \in S /\ \A y \in S : Min(S) <= y
    <3> HIDE DEF S
    <3> QED BY <2>4, MinIsLeast
  <2>6. PICK e \in o + 1 .. n + 1 : e = Min(S)
    BY <2>1, <2>5
  <2>7. StringAt(o) = SubSeq(data, o + 1, e - 1)
    BY <2>6 DEF StringAt
  <2> HIDE DEF S
  <2>8. \A k \in 1 .. n : data[k] \in P
    <3> TAKE k \in 1 .. n
    <3>1. data[k] \in Chars /\ source[k] \in Chars
      BY <2>1 DEF n
    <3>2. data[k] # Newline /\ data[k] # Return
      BY <2>1 DEF Newline, Return, NUL
    <3>3. data[k] # Backspace
      BY <3>1, CharsAreCharacters
    <3> QED BY <3>1, <3>2, <3>3, CharsAreCharacters DEF Plain
  <2>9. SubSeq(data, o + 1, e - 1) \in Seq(P)
    <3> DEFINE m == e - 1 - o
    <3>1. m \in Nat /\ o + 1 \in Nat /\ e - 1 \in Nat /\ e - 1 <= n
      BY <2>1, <2>3
    <3>2. SubSeq(data, o + 1, e - 1) = [k \in 1 .. m |-> data[o + k]]
      BY <2>1, <2>3, <3>1
    <3>3. \A k \in 1 .. m : data[o + k] \in P
      <4> TAKE k \in 1 .. m
      <4>1. o + k \in 1 .. n
        BY <2>1, <2>3, <3>1
      <4> QED BY <2>8, <4>1
    <3> HIDE DEF m, P
    <3>4. [k \in 1 .. m |-> data[o + k]] \in Seq(P)
      BY <3>1, <3>3
    <3> QED BY <3>2, <3>4
  <2>10. PICK text \in Seq(P) : text = StringAt(o)
    BY <2>7, <2>9
  <2>11. LineText(i) = Limited(text, TTY_COLS)
    BY <1>2, <2>10 DEF LineText, o
  <2> HIDE DEF P
  <2>12. /\ Limited(text, TTY_COLS) \in Seq(P) /\ Len(Limited(text, TTY_COLS)) <= TTY_COLS
         /\ \A k \in 1 .. Len(Limited(text, TTY_COLS)) : Limited(text, TTY_COLS)[k] \in P
    BY <1>0, LimitedText
  <2>13. P \subseteq Characters /\ \A ch \in P : Plain(ch)
    BY CharsAreCharacters DEF P
  <2>14. Limited(text, TTY_COLS) \in Seq(Characters)
    BY <2>12, <2>13, SeqMore
  <2> QED BY <2>11, <2>12, <2>13, <2>14 DEF RowText
<1> QED BY <1>1, <1>2

\* Rows as they are shown: a blank row is one of a text of no characters.
ShowsText(t, r, text) == \A c \in Cols : t.cells[r][c].character = Padded(text)[c]

\* The cursor is put at the beginning of a row.
LEMMA RowStart ==
  ASSUME NEW t, Settled(t), NEW x \in Rows, NEW u, u = tty_set_cursor_position(t, x, 0)
  PROVE  Settled(u) /\ u.cells = t.cells /\ u.color = t.color /\ u.row = x /\ u.col = 0
<1>1. PICK row \in Nat, col \in Nat : row = x /\ col = 0 /\ row < TTY_ROWS /\ col < TTY_COLS
  BY TerminalAssumption DEF Rows
<1>2. u = tty_set_cursor_position(t, row, col)
  BY <1>1
<1>3. Settled(u) /\ u.cells = t.cells /\ u.color = t.color /\ AtPlace(u, row, col)
  BY <1>2, CursorSettles
<1> QED BY <1>1, <1>3 DEF AtPlace

\* A row that was blank shows a text once it is written there, and no other row
\* changes, as long as there is a row below it.
LEMMA RowWritten ==
  ASSUME NEW t, Settled(t), NEW x \in Rows, x + 1 < TTY_ROWS, NEW text, RowText(text),
         ShowsText(t, x, <<>>),
         NEW u, u = tty_write(tty_set_cursor_position(t, x, 0), text)
  PROVE  /\ Settled(u) /\ ShowsText(u, x, text)
         /\ \A r \in Rows : r # x => u.cells[r] = t.cells[r]
<1>0. /\ TTY_COLS \in Nat /\ TTY_COLS > 0 /\ TTY_ROWS \in Nat /\ 0 \in Nat /\ x \in Nat
      /\ text \in Seq(Characters) /\ Len(text) \in Nat /\ Len(text) <= TTY_COLS
      /\ \A i \in 1 .. Len(text) : Plain(text[i])
  BY TerminalAssumption DEF RowText, Rows
<1>1. PICK p : p = tty_set_cursor_position(t, x, 0)
  OBVIOUS
<1>2. Settled(p) /\ p.cells = t.cells /\ p.color = t.color
  BY <1>1, RowStart
<1>3. p.row = x /\ p.col = 0
  BY <1>1, RowStart
<1>4. Settled(u)
  BY <1>0, <1>1, <1>2, WriteSettles
<1>5. \A r \in Rows, c \in Cols : u.cells[r][c] = CellShows(p, text, Len(text), r, c)
  <2>1. CASE Len(text) < TTY_COLS
    <3>1. Fills(p, u, text)
      BY <1>0, <1>1, <1>2, <1>3, <2>1, WriteFills
    <3> QED BY <3>1 DEF Fills, CellShows
  <2>2. CASE Len(text) = TTY_COLS
    <3>1. Ends(p, u, text)
      BY <1>0, <1>1, <1>2, <1>3, <2>2, WriteEnds
    <3> QED BY <1>3, <3>1 DEF Ends
  <2> QED BY <1>0, <2>1, <2>2
<1>6. ShowsText(u, x, text)
  <2> SUFFICES ASSUME NEW c \in Cols PROVE u.cells[x][c].character = Padded(text)[c]
    BY DEF ShowsText
  <2>1. c \in Nat
    BY DEF Cols
  <2>2. u.cells[x][c] = CellShows(p, text, Len(text), x, c)
    BY <1>5
  <2>3. CASE c < Len(text)
    <3>1. c \in 0 .. 0 + Len(text) - 1 /\ c - 0 + 1 = c + 1
      BY <1>0, <2>1, <2>3
    <3>2. u.cells[x][c].character = text[c + 1]
      BY <1>3, <2>2, <3>1 DEF CellShows
    <3> QED BY <2>3, <3>2 DEF Padded
  <2>4. CASE ~(c < Len(text))
    <3>1. c \notin 0 .. 0 + Len(text) - 1
      BY <1>0, <2>1, <2>4
    <3>2. u.cells[x][c] = t.cells[x][c]
      BY <1>2, <1>3, <2>2, <3>1 DEF CellShows
    <3>3. Padded(text)[c] = Space
      BY <2>4 DEF Padded
    <3>4. Padded(<<>>)[c] = Space
      BY <2>1 DEF Padded
    <3> QED BY <3>2, <3>3, <3>4 DEF ShowsText
  <2> QED BY <2>3, <2>4
<1>7. ASSUME NEW r \in Rows, r # x PROVE u.cells[r] = t.cells[r]
  <2>1. \A c \in Cols : u.cells[r][c] = t.cells[r][c]
    BY <1>2, <1>3, <1>5, <1>7 DEF CellShows
  <2>2. u.cells[r] \in [Cols -> Cells] /\ t.cells[r] \in [Cols -> Cells]
    BY <1>4 DEF Settled, Screens
  <2> QED BY <2>1, <2>2
<1> QED BY <1>4, <1>6, <1>7

\* The rows of a page: below the k first ones the screen is blank.
RowsOn(t, top, k) ==
  /\ Settled(t)
  /\ \A r \in Rows : ShowsText(t, r, IF r < k THEN LineText(top + r) ELSE <<>>)

\* All lines of the page are on the screen when its last row is written.
LEMMA PageWritten ==
  ASSUME NEW t, Settled(t), NEW top \in Nat, NEW w,
         Steps(w, "row", PageTexts(top), tty_clear(t), PageRows, viewport_rows),
         TTY_ROWS > 1, SplitTo(Len(source)), source \in Seq(Chars), NoBackspace
  PROVE  RowsOn(w[viewport_rows], top, viewport_rows)
<1> DEFINE n == viewport_rows
           B == {i \in 0 .. n : ~RowsOn(w[i], top, i)}
<1>0. TTY_ROWS \in Nat /\ n = TTY_ROWS - 1 /\ n \in Nat
  BY TerminalAssumption DEF viewport_rows, total_rows
<1> HIDE DEF n
<1>1. RowsOn(w[0], top, 0)
  <2>1. w[0] = tty_clear(t)
    BY DEF Steps
  <2>2. Settled(w[0]) /\ w[0].cells = [r \in Rows |-> BlankRow(t.color)]
    BY <2>1, ClearSettles
  <2>3. ASSUME NEW r \in Rows PROVE ShowsText(w[0], r, <<>>) /\ ~(r < 0)
    <3>1. \A c \in Cols : w[0].cells[r][c] = Blank(t.color)
      BY <2>2 DEF BlankRow
    <3>2. Blank(t.color).character = Space
      BY DEF Blank
    <3>3. \A c \in Cols : Padded(<<>>)[c] = Space
      BY DEF Padded, Cols
    <3>4. ~(r < 0)
      BY DEF Rows
    <3> QED BY <3>1, <3>2, <3>3, <3>4 DEF ShowsText
  <2> QED BY <2>2, <2>3 DEF RowsOn
<1>2. ASSUME NEW i \in 1 .. n, RowsOn(w[i - 1], top, i - 1) PROVE RowsOn(w[i], top, i)
  <2>1. PICK x \in Rows : x = i - 1 /\ x + 1 < TTY_ROWS /\ x \in Nat /\ x \in 0 .. n - 1
    BY <1>0 DEF Rows
  <2>2. PageRows[i] = x
    BY <2>1 DEF PageRows, n
  <2>3. PICK p : p = w[i - 1]
    OBVIOUS
  <2>4. PICK u : u = w[i] /\ u = Step("row", PageTexts(top), p, x)
    BY <2>2, <2>3 DEF Steps, n
  <2>5. Settled(p) /\ \A r \in Rows : ShowsText(p, r, IF r < x THEN LineText(top + r) ELSE <<>>)
    BY <1>2, <2>1, <2>3 DEF RowsOn
  <2>6. ShowsText(p, x, <<>>)
    <3>1. ~(x < x)
      BY <2>1
    <3> QED BY <2>5, <3>1
  <2>7. /\ Settled(u) /\ ShowsText(u, x, LineText(top + x))
        /\ \A r \in Rows : r # x => u.cells[r] = p.cells[r]
    <3>1. CASE top + x < Len(lines)
      <4>1. x \in DOMAIN PageTexts(top) /\ PageTexts(top)[x] = Limited(StringAt(lines[top + x + 1]), TTY_COLS)
        BY <2>1, <3>1 DEF PageTexts, n
      <4>2. PageTexts(top)[x] = LineText(top + x)
        BY <3>1, <4>1 DEF LineText
      <4>3. u = tty_write(tty_set_cursor_position(p, x, 0), LineText(top + x))
        BY <2>4, <4>1, <4>2 DEF Step
      <4>4. PICK text : text = LineText(top + x) /\ RowText(text)
        <5>1. top + x \in Nat
          BY <2>1
        <5> QED BY <5>1, LineIsRowText
      <4>5. u = tty_write(tty_set_cursor_position(p, x, 0), text)
        BY <4>3, <4>4
      <4>6. /\ Settled(u) /\ ShowsText(u, x, text)
            /\ \A r \in Rows : r # x => u.cells[r] = p.cells[r]
        <5>1. x \in Rows /\ x + 1 < TTY_ROWS /\ Settled(p) /\ ShowsText(p, x, <<>>) /\ RowText(text)
          BY <2>1, <2>5, <2>6, <4>4
        <5> QED BY <5>1, <4>5, RowWritten
      <4> QED BY <4>4, <4>6
    <3>2. CASE ~(top + x < Len(lines))
      <4>1. x \notin DOMAIN PageTexts(top) /\ LineText(top + x) = <<>>
        BY <2>1, <3>2 DEF PageTexts, LineText
      <4>2. u = tty_set_cursor_position(p, x, 0)
        BY <2>4, <4>1 DEF Step
      <4>3. Settled(u) /\ u.cells = p.cells
        BY <2>1, <2>5, <4>2, RowStart
      <4> QED BY <2>6, <4>1, <4>3 DEF ShowsText
    <3> QED BY <3>1, <3>2
  <2>8. ASSUME NEW r \in Rows PROVE ShowsText(u, r, IF r < i THEN LineText(top + r) ELSE <<>>)
    <3>1. CASE r = x
      <4>1. r < i
        BY <2>1, <3>1
      <4> QED BY <2>7, <3>1, <4>1
    <3>2. CASE r # x
      <4>1. (r < i) <=> (r < x)
        BY <2>1, <3>2 DEF Rows
      <4>2. u.cells[r] = p.cells[r]
        BY <2>7, <3>2
      <4>3. ShowsText(p, r, IF r < i THEN LineText(top + r) ELSE <<>>)
        BY <2>5, <4>1
      <4> QED BY <4>2, <4>3 DEF ShowsText
    <3> QED BY <3>1, <3>2
  <2> QED BY <2>4, <2>7, <2>8 DEF RowsOn
<1>3. B = {}
  <2> SUFFICES ASSUME B # {} PROVE FALSE
    OBVIOUS
  <2>1. PICK i \in B : \A y \in B : i <= y
    <3>1. B \subseteq Nat
      OBVIOUS
    <3> HIDE DEF B
    <3> QED BY <3>1, LeastNumber
  <2>2. i \in 0 .. n /\ i # 0 /\ ~RowsOn(w[i], top, i)
    BY <1>1, <2>1
  <2>3. i \in 1 .. n /\ i - 1 \in 0 .. n /\ i - 1 \notin B
    BY <1>0, <2>1, <2>2
  <2>4. RowsOn(w[i - 1], top, i - 1)
    BY <2>3
  <2> QED BY <1>2, <2>2, <2>3, <2>4
<1>4. n \in 0 .. n
  BY <1>0
<1>5. RowsOn(w[n], top, n)
  BY <1>3, <1>4
<1> QED BY <1>5 DEF n

\* The status line is written on the last row, fills it to its end, and so moves
\* itself and the lines above it up by one row.
PageOn(t, top) ==
  \A r \in Rows :
    ShowsText(t, r, IF r < TTY_ROWS - 2 THEN LineText(top + r + 1)
                    ELSE IF r = TTY_ROWS - 2 THEN Status ELSE <<>>)

\* The status line has characters that fill a cell, and fits its row.
LEMMA StatusText ==
  ASSUME label \in Nat
  PROVE  RowText(Status)
<1>1. TTY_COLS \in Nat
  BY TerminalAssumption
<1>2. PICK s : s = [i \in 1 .. label |-> "s"]
  OBVIOUS
<1> DEFINE S == {ch \in Characters : Plain(ch)}
<1>3. Plain("s") /\ "s" \in S
  <2>1. "s" \in Characters
    BY SpaceIsCharacter
  <2>2. "s" \notin {Newline, Return, Backspace}
    BY DEF Newline, Return, Backspace
  <2> QED BY <2>1, <2>2 DEF Plain
<1> HIDE DEF S
<1>4. s \in Seq(S)
  BY <1>2, <1>3
<1>5. Status = Limited(s, TTY_COLS)
  BY <1>2 DEF Status
<1>6. /\ Limited(s, TTY_COLS) \in Seq(S) /\ Len(Limited(s, TTY_COLS)) <= TTY_COLS
      /\ \A k \in 1 .. Len(Limited(s, TTY_COLS)) : Limited(s, TTY_COLS)[k] \in S
  BY <1>1, <1>4, LimitedText
<1>7. S \subseteq Characters /\ \A ch \in S : Plain(ch)
  BY DEF S
<1>8. Limited(s, TTY_COLS) \in Seq(Characters)
  BY <1>6, <1>7, SeqMore
<1> QED BY <1>5, <1>6, <1>7, <1>8 DEF RowText

\* The blanks that fill the row behind it.
Blanks(n) == [i \in 1 .. n |-> Space]

\* Blanks are characters that fill a cell.
LEMMA BlanksText ==
  ASSUME NEW n \in Nat
  PROVE  Blanks(n) \in Seq(Characters) /\ Len(Blanks(n)) = n
         /\ \A i \in 1 .. n : Blanks(n)[i] = Space /\ Plain(Blanks(n)[i])
<1>1. Space \in Characters
  BY SpaceIsCharacter
<1>2. Space \notin {Newline, Return, Backspace}
  BY Zenon DEF Space, Newline, Return, Backspace
<1>3. Plain(Space)
  BY <1>1, <1>2 DEF Plain
<1>4. Blanks(n) \in Seq(Characters) /\ Len(Blanks(n)) = n
  BY <1>1 DEF Blanks
<1>5. \A i \in 1 .. n : Blanks(n)[i] = Space
  BY DEF Blanks
<1> QED BY <1>3, <1>4, <1>5

\* Writing nothing changes nothing.
LEMMA WriteNothing ==
  ASSUME NEW t, NEW text \in Seq(Characters), Len(text) = 0
  PROVE  tty_write(t, text) = t
<1>1. PICK w : Shows(w, t, text) /\ tty_write(t, text) = w[Len(text)]
  BY WriteSteps
<1> QED BY <1>1 DEF Shows

\* The cells of a last row that is filled with a text and blanks move up.
LEMMA StatusWritten ==
  ASSUME NEW p, Settled(p), NEW text, RowText(text), p.row = TTY_ROWS - 1, p.col = 0,
         TTY_ROWS > 1,
         NEW u, u = tty_write(tty_write(p, text), Blanks(TTY_COLS - Len(text)))
  PROVE  /\ Settled(u) /\ ShowsText(u, TTY_ROWS - 2, text) /\ ShowsText(u, TTY_ROWS - 1, <<>>)
         /\ \A r \in Rows : r < TTY_ROWS - 2 => u.cells[r] = p.cells[r + 1]
<1>0. /\ TTY_COLS \in Nat /\ TTY_COLS > 0 /\ TTY_ROWS \in Nat
      /\ text \in Seq(Characters) /\ Len(text) \in Nat /\ Len(text) <= TTY_COLS
      /\ \A i \in 1 .. Len(text) : Plain(text[i])
      /\ TTY_ROWS - 1 \in Rows /\ TTY_ROWS - 2 \in Rows
  BY TerminalAssumption DEF RowText, Rows
<1>1. PICK n \in Nat : n = TTY_COLS - Len(text)
  BY <1>0
<1>2. PICK blanks : blanks = Blanks(n)
  OBVIOUS
<1>3. /\ blanks \in Seq(Characters) /\ Len(blanks) = n
      /\ \A i \in 1 .. n : blanks[i] = Space /\ Plain(blanks[i])
  BY <1>2, BlanksText
<1>4. PICK q : q = tty_write(p, text)
  OBVIOUS
<1>5. u = tty_write(q, blanks)
  BY <1>1, <1>2, <1>4
<1>6. Settled(q) /\ q.color = p.color
  BY <1>0, <1>4, WriteSettles
<1>7. Settled(u)
  BY <1>3, <1>5, <1>6, WriteSettles
<1>8. \A r \in Rows, c \in Cols :
        /\ r < TTY_ROWS - 1 => /\ r + 1 = TTY_ROWS - 1 => u.cells[r][c].character = Padded(text)[c]
                               /\ r + 1 # TTY_ROWS - 1 => u.cells[r][c] = p.cells[r + 1][c]
        /\ r = TTY_ROWS - 1 => u.cells[r][c].character = Space
  <2> SUFFICES ASSUME NEW r \in Rows, NEW c \in Cols
               PROVE  /\ r < TTY_ROWS - 1 => /\ r + 1 = TTY_ROWS - 1 => u.cells[r][c].character = Padded(text)[c]
                                             /\ r + 1 # TTY_ROWS - 1 => u.cells[r][c] = p.cells[r + 1][c]
                      /\ r = TTY_ROWS - 1 => u.cells[r][c].character = Space
    OBVIOUS
  <2>0. c \in Nat /\ c < TTY_COLS /\ r \in Nat /\ (r < TTY_ROWS - 1 => r + 1 \in Rows)
        /\ (r = TTY_ROWS - 1 => ~(r < TTY_ROWS - 1)) /\ ~(TTY_ROWS - 1 + 1 < TTY_ROWS)
    BY <1>0 DEF Cols, Rows
  <2>b. \A color : Blank(color).character = Space
    BY DEF Blank
  <2>1. CASE n = 0
    <3>1. u = q /\ Len(text) = TTY_COLS
      BY <1>0, <1>1, <1>3, <1>5, <2>1, WriteNothing
    <3>2. Ends(p, u, text)
      BY <1>0, <1>4, <3>1, WriteEnds
    <3>3. u.cells[r][c] = IF r < TTY_ROWS - 1 THEN CellShows(p, text, Len(text), r + 1, c) ELSE Blank(p.color)
      BY <2>0, <3>2 DEF Ends
    <3>4. c \in 0 .. 0 + Len(text) - 1 /\ c - 0 + 1 = c + 1 /\ c < Len(text)
      BY <1>0, <2>0, <3>1
    <3>5. CASE r = TTY_ROWS - 1
      BY <2>0, <2>b, <3>3, <3>5
    <3>6. CASE r < TTY_ROWS - 1 /\ r + 1 = TTY_ROWS - 1
      <4>1. CellShows(p, text, Len(text), r + 1, c) = [character |-> text[c + 1], color |-> p.color]
        BY <3>4, <3>6 DEF CellShows
      <4>2. Padded(text)[c] = text[c + 1]
        BY <3>4 DEF Padded
      <4> QED BY <2>0, <3>3, <3>6, <4>1, <4>2
    <3>7. CASE r < TTY_ROWS - 1 /\ r + 1 # TTY_ROWS - 1
      <4>1. CellShows(p, text, Len(text), r + 1, c) = p.cells[r + 1][c]
        BY <3>7 DEF CellShows
      <4> QED BY <2>0, <3>3, <3>7, <4>1
    <3> QED BY <2>0, <3>5, <3>6, <3>7
  <2>2. CASE n # 0
    <3>1. Len(text) < TTY_COLS
      BY <1>0, <1>1, <2>2
    <3>2. Fills(p, q, text)
      BY <1>0, <1>4, <3>1, WriteFills
    <3>3. q.row = TTY_ROWS - 1 /\ q.col = Len(text) /\ q.col + Len(blanks) = TTY_COLS
      BY <1>0, <1>1, <1>3, <3>2 DEF Fills
    <3>4. Ends(q, u, blanks)
      BY <1>3, <1>5, <1>6, <3>3, WriteEnds
    <3>5. u.cells[r][c] = IF r < TTY_ROWS - 1 THEN CellShows(q, blanks, n, r + 1, c) ELSE Blank(q.color)
      BY <1>3, <2>0, <3>3, <3>4 DEF Ends
    <3>6. CASE r = TTY_ROWS - 1
      BY <2>0, <2>b, <3>5, <3>6
    <3>7. CASE r < TTY_ROWS - 1 /\ r + 1 = TTY_ROWS - 1
      <4>1. CASE c < Len(text)
        <5>1. /\ c \notin q.col .. q.col + n - 1
              /\ c \in 0 .. 0 + Len(text) - 1 /\ c - 0 + 1 = c + 1
          BY <1>0, <1>1, <2>0, <3>3, <4>1
        <5>2. CellShows(q, blanks, n, r + 1, c) = q.cells[r + 1][c]
          BY <5>1 DEF CellShows
        <5>3. q.cells[r + 1][c] = [character |-> text[c + 1], color |-> p.color]
          BY <2>0, <3>2, <3>7, <5>1 DEF Fills
        <5>4. Padded(text)[c] = text[c + 1]
          BY <4>1 DEF Padded
        <5> QED BY <2>0, <3>5, <3>7, <5>2, <5>3, <5>4
      <4>2. CASE ~(c < Len(text))
        <5>1. c \in q.col .. q.col + n - 1 /\ c - q.col + 1 \in 1 .. n
          BY <1>0, <1>1, <2>0, <3>3, <4>2
        <5>2. CellShows(q, blanks, n, r + 1, c).character = Space
          BY <1>3, <3>3, <3>7, <5>1 DEF CellShows
        <5>3. Padded(text)[c] = Space
          BY <4>2 DEF Padded
        <5> QED BY <2>0, <3>5, <3>7, <5>2, <5>3
      <4> QED BY <4>1, <4>2
    <3>8. CASE r < TTY_ROWS - 1 /\ r + 1 # TTY_ROWS - 1
      <4>1. CellShows(q, blanks, n, r + 1, c) = q.cells[r + 1][c]
        BY <3>3, <3>8 DEF CellShows
      <4>2. q.cells[r + 1][c] = p.cells[r + 1][c]
        BY <2>0, <3>2, <3>8 DEF Fills
      <4> QED BY <2>0, <3>5, <3>8, <4>1, <4>2
    <3> QED BY <2>0, <3>6, <3>7, <3>8
  <2> QED BY <2>1, <2>2
<1>9. ShowsText(u, TTY_ROWS - 2, text)
  <2>1. TTY_ROWS - 2 < TTY_ROWS - 1 /\ TTY_ROWS - 2 + 1 = TTY_ROWS - 1
    BY <1>0
  <2> QED BY <1>0, <1>8, <2>1 DEF ShowsText
<1>10. ShowsText(u, TTY_ROWS - 1, <<>>)
  <2>1. \A c \in Cols : Padded(<<>>)[c] = Space
    BY DEF Padded, Cols
  <2> QED BY <1>0, <1>8, <2>1 DEF ShowsText
<1>11. ASSUME NEW r \in Rows, r < TTY_ROWS - 2 PROVE u.cells[r] = p.cells[r + 1]
  <2>1. r < TTY_ROWS - 1 /\ r + 1 # TTY_ROWS - 1 /\ r + 1 \in Rows
    BY <1>0, <1>11 DEF Rows
  <2>2. \A c \in Cols : u.cells[r][c] = p.cells[r + 1][c]
    BY <1>8, <2>1
  <2>3. u.cells[r] \in [Cols -> Cells] /\ p.cells[r + 1] \in [Cols -> Cells]
    BY <1>7, <2>1 DEF Settled, Screens
  <2> QED BY <2>2, <2>3
<1> QED BY <1>7, <1>9, <1>10, <1>11

\* less_render_page leaves the page on the screen.
LEMMA RenderShows ==
  ASSUME NEW t, Settled(t), NEW top \in Nat, label \in Nat, TTY_ROWS > 1, NoBackspace,
         SplitTo(Len(source)), source \in Seq(Chars),
         NEW u, u = less_render_page(t, top)
  PROVE  Settled(u) /\ PageOn(u, top)
<1>0. TTY_ROWS \in Nat /\ viewport_rows = TTY_ROWS - 1 /\ status_row = TTY_ROWS - 1 /\ TTY_ROWS - 1 \in Rows
  BY TerminalAssumption DEF viewport_rows, total_rows, status_row, Rows
<1>1. PICK w : /\ Steps(w, "row", PageTexts(top), tty_clear(t), PageRows, viewport_rows)
               /\ less_render_page(t, top) = StatusOn(w[viewport_rows])
  BY PageSteps
<1>2. PICK page : page = w[viewport_rows]
  OBVIOUS
<1>3. RowsOn(page, top, viewport_rows)
  BY <1>1, <1>2, PageWritten
<1>4. PICK p : p = tty_set_cursor_position(page, TTY_ROWS - 1, 0)
  OBVIOUS
<1>5. Settled(p) /\ p.cells = page.cells /\ p.row = TTY_ROWS - 1 /\ p.col = 0
  <2>1. PICK x \in Rows : x = TTY_ROWS - 1
    BY <1>0
  <2> QED BY <1>3, <1>4, <2>1, RowStart DEF RowsOn
<1>6. PICK text : text = Status /\ RowText(text)
  BY StatusText
<1>7. u = tty_write(tty_write(p, text), Blanks(TTY_COLS - Len(text)))
  BY <1>0, <1>1, <1>2, <1>4, <1>6 DEF StatusOn, Blanks
<1>8. /\ Settled(u) /\ ShowsText(u, TTY_ROWS - 2, text) /\ ShowsText(u, TTY_ROWS - 1, <<>>)
      /\ \A r \in Rows : r < TTY_ROWS - 2 => u.cells[r] = p.cells[r + 1]
  BY <1>5, <1>6, <1>7, StatusWritten
<1>9. ASSUME NEW r \in Rows
      PROVE  ShowsText(u, r, IF r < TTY_ROWS - 2 THEN LineText(top + r + 1)
                             ELSE IF r = TTY_ROWS - 2 THEN Status ELSE <<>>)
  <2>1. CASE r < TTY_ROWS - 2
    <3>1. r + 1 \in Rows /\ r + 1 < viewport_rows /\ top + (r + 1) = top + r + 1
      BY <1>0, <2>1 DEF Rows
    <3>2. ShowsText(page, r + 1, LineText(top + r + 1))
      <4>1. ShowsText(page, r + 1, IF r + 1 < viewport_rows THEN LineText(top + (r + 1)) ELSE <<>>)
        BY <1>3, <3>1 DEF RowsOn
      <4> QED BY <3>1, <4>1
    <3>3. u.cells[r] = page.cells[r + 1]
      BY <1>5, <1>8, <2>1
    <3> QED BY <2>1, <3>2, <3>3 DEF ShowsText
  <2>2. CASE r = TTY_ROWS - 2
    <3>1. ~(r < TTY_ROWS - 2)
      BY <1>0, <2>2
    <3> QED BY <1>6, <1>8, <2>2, <3>1
  <2>3. CASE ~(r < TTY_ROWS - 2) /\ r # TTY_ROWS - 2
    <3>1. r = TTY_ROWS - 1
      BY <1>0, <2>3 DEF Rows
    <3> QED BY <1>8, <2>3, <3>1
  <2> QED BY <2>1, <2>2, <2>3
<1> QED BY <1>8, <1>9 DEF PageOn

\* Between two steps the screen is settled, and while a key is awaited it shows
\* the page.
PageInv == PInv /\ label \in Nat /\ Settled(screen) /\ (pc \in {"wait", "poll"} => PageOn(screen, top_line))

\* The page on the screen is the one the property speaks of.
LEMMA PageInvShows ==
  ASSUME TTY_ROWS > 1, PageInv
  PROVE  PageConsecutive
<1>1. PagerTypeOK
  BY DEF PageInv, PInv, Control, Divided, PagerTypeOK
<1> SUFFICES ASSUME pc \in {"wait", "poll"}
             PROVE  \E s \in Rows :
                      /\ s + 1 >= status_row /\ RowShows(s, Status)
                      /\ \A r \in 0 .. s - 1 : RowShows(r, LineText(top_line + viewport_rows - (s - r)))
                      /\ \A r \in s + 1 .. TTY_ROWS - 1 : RowShows(r, <<>>)
  BY <1>1 DEF PageConsecutive
<1>2. PageOn(screen, top_line) /\ top_line \in 0 .. max_start /\ lines \in Seq(Nat)
  BY DEF PageInv, PInv, Divided, Viewing, SplitTo
<1>3. top_line \in Nat
  BY <1>2, LastPage
<1>4. TTY_ROWS \in Nat /\ viewport_rows = TTY_ROWS - 1 /\ status_row = TTY_ROWS - 1
  BY TerminalAssumption DEF viewport_rows, status_row, total_rows
<1>5. PICK s \in Rows : s = TTY_ROWS - 2 /\ s \in Nat
  BY <1>4 DEF Rows
<1>6. \A r, text : RowShows(r, text) <=> ShowsText(screen, r, text)
  BY DEF RowShows, ShowsText
<1>7. s + 1 >= status_row /\ RowShows(s, Status)
  <2>1. ~(s < TTY_ROWS - 2) /\ s = TTY_ROWS - 2 /\ s + 1 >= status_row
    BY <1>4, <1>5
  <2> QED BY <1>2, <1>6, <2>1 DEF PageOn
<1>8. ASSUME NEW r \in 0 .. s - 1 PROVE RowShows(r, LineText(top_line + viewport_rows - (s - r)))
  <2>1. r \in Rows /\ r < TTY_ROWS - 2
    BY <1>4, <1>5 DEF Rows
  <2>2. top_line + viewport_rows - (s - r) = top_line + r + 1
    BY <1>3, <1>4, <1>5
  <2>3. ShowsText(screen, r, LineText(top_line + r + 1))
    BY <1>2, <2>1 DEF PageOn
  <2> QED BY <1>6, <2>2, <2>3
<1>9. ASSUME NEW r \in s + 1 .. TTY_ROWS - 1 PROVE RowShows(r, <<>>)
  <2>1. r \in Rows /\ ~(r < TTY_ROWS - 2) /\ r # TTY_ROWS - 2
    BY <1>4, <1>5 DEF Rows
  <2> QED BY <1>2, <1>6, <2>1 DEF PageOn
<1> QED BY <1>7, <1>8, <1>9

\* Nothing but ShowPage and Quit writes to the terminal.
LEMMA PageInvNext ==
  ASSUME TTY_ROWS > 1, NoBackspace, PageInv, [PagerNext]_pagerVars
  PROVE  PageInv'
<1>0. PInv /\ label \in Nat /\ Settled(screen)
  BY DEF PageInv
<1>1. PInv'
  BY <1>0, PInvNext
<1>2. CASE ShowPage /\ pc' = "wait"
  <2>1. PICK top : /\ top = (IF top_line > max_start THEN max_start ELSE top_line)
                   /\ top_line' = top /\ screen' = less_render_page(screen, top)
    BY <1>2 DEF ShowPage
  <2>2. pc = "view" /\ UNCHANGED <<source, label, data, lines>>
    BY <1>2 DEF ShowPage
  <2>3. SplitTo(Len(source)) /\ top_line \in 0 .. max_start /\ source \in Seq(Chars)
    BY <1>0, <2>2 DEF PInv, Divided, Viewing, Control
  <2>4. top \in Nat
    BY <2>1, <2>3, LastPage DEF SplitTo
  <2>5. Settled(screen') /\ PageOn(screen', top)
    BY <1>0, <2>1, <2>3, <2>4, RenderShows
  <2>6. PageOn(screen, top_line)'
    BY <2>1, <2>2, <2>5 DEF PageOn, ShowsText, LineText, StringAt, Status
  <2>7. Settled(screen)' /\ label' \in Nat
    BY <1>0, <2>2, <2>5 DEF Settled, Faithful
  <2> QED BY <1>1, <2>6, <2>7 DEF PageInv
<1>3. CASE Quit
  <2>1. screen' = tty_clear(screen) /\ pc' = "idle" /\ label' = 0
    BY <1>3 DEF Quit, Returns
  <2>2. Settled(screen')
    BY <1>0, <2>1, ClearSettles
  <2>3. Settled(screen)'
    BY <2>2 DEF Settled, Faithful
  <2> QED BY <1>1, <2>1, <2>3 DEF PageInv
<1>4. CASE UNCHANGED screen /\ label' \in Nat /\ pc' \notin {"wait", "poll"}
  <2>1. Settled(screen)'
    BY <1>0, <1>4 DEF Settled, Faithful
  <2> QED BY <1>1, <1>4, <2>1 DEF PageInv
<1>5. CASE /\ UNCHANGED <<screen, label, data, lines, top_line>>
           /\ (pc' \in {"wait", "poll"} => pc \in {"wait", "poll"})
  <2>1. Settled(screen)' /\ label' \in Nat
    BY <1>0, <1>5 DEF Settled, Faithful
  <2>2. PageOn(screen, top_line) => PageOn(screen, top_line)'
    BY <1>5 DEF PageOn, ShowsText, LineText, StringAt, Status
  <2> QED BY <1>1, <1>5, <2>1, <2>2 DEF PageInv
<1>6. CASE ShellPrompts \/ Refused
  BY <1>0, <1>4, <1>6 DEF ShellPrompts, Refused
<1>7. CASE OpenFile \/ less_copy_input
  BY <1>0, <1>4, <1>7, PagerAssumption DEF OpenFile, less_copy_input
<1>8. CASE less_load_file \/ less_prepare_lines
  BY <1>0, <1>4, <1>8 DEF less_load_file, less_prepare_lines, Returns
<1>9. CASE Splits \/ ViewBegins \/ (ShowPage /\ pc' = "exit")
  BY <1>0, <1>4, <1>9 DEF Splits, ViewBegins, ShowPage
<1>10. CASE less_wait_key \/ NoKey \/ Interrupt \/ UNCHANGED pagerVars
  BY <1>5, <1>10 DEF less_wait_key, NoKey, Interrupt, pagerVars
<1>11. CASE \E key \in Keys : less_view_document(key)
  BY <1>0, <1>4, <1>11 DEF less_view_document
<1>12. ShowPage => pc' \in {"wait", "exit"}
  BY DEF ShowPage
<1> QED BY <1>2, <1>3, <1>6, <1>7, <1>8, <1>9, <1>10, <1>11, <1>12 DEF PagerNext, Thread

\* For every text without a backspace, every screen of at least two rows and
\* every sequence of keys: while less waits for a key, the screen shows the
\* lines of the page in order, the status line directly below the last one, and
\* nothing below that. The status line fills its row, so the terminal scrolls
\* and the first line of the page is not among them; no other one is missing.
THEOREM PagesAreConsecutive ==
  ASSUME TTY_ROWS > 1, NoBackspace
  PROVE  PagerSpec => []PageConsecutive
<1>1. PagerInit => PageInv
  <2> SUFFICES ASSUME PagerInit PROVE PageInv
    OBVIOUS
  <2>1. Settled(screen)
    BY InitSettles DEF PagerInit
  <2>2. PInv /\ label \in Nat /\ pc = "idle"
    BY PInvInit DEF PagerInit
  <2> QED BY <2>1, <2>2 DEF PageInv
<1>2. PageInv /\ [PagerNext]_pagerVars => PageInv'
  BY PageInvNext
<1>3. PageInv => PageConsecutive
  BY PageInvShows
<1> QED BY <1>1, <1>2, <1>3, PTL DEF PagerSpec
=============================================================================
