--------------------------- MODULE TerminalProofs ---------------------------
(***************************************************************************)
(* What each operation of the terminal leaves, for every size of the       *)
(* screen: the cells it changes, the place of the cursor, and that the     *)
(* screen shows the cells and one cursor block (Settled). The proofs about *)
(* the line editor and about the pager rest on these lemmas.               *)
(***************************************************************************)
EXTENDS Terminal, TLAPS, FiniteSetTheorems, SequenceTheorems, NaturalsInduction,
        WellFoundedInduction

(* Numbers.                                                                *)

\* Of any numbers there is a least one.
LEMMA LeastNumber ==
  ASSUME NEW S, S \subseteq Nat, S # {}
  PROVE  \E m \in S : \A y \in S : m <= y
<1> DEFINE R == OpToRel(<, Nat)
<1>1. IsWellFoundedOn(R, Nat)
  BY NatLessThanWellFounded
<1> HIDE DEF R
<1>2. PICK x \in S : \A y \in S : ~(<<y, x>> \in R)
  BY <1>1, WFMin
<1>3. \A y \in S : y < x => <<y, x>> \in R
  BY DEF R, OpToRel
<1>4. \A y \in S : ~(y < x)
  BY <1>2, <1>3
<1> QED BY <1>4

\* Of numbers below a bound there is a greatest one, and it is their Max.
LEMMA GreatestNumber ==
  ASSUME NEW n \in Nat, NEW S, S \subseteq 0 .. n, S # {}
  PROVE  Max(S) \in S /\ \A y \in S : y <= Max(S)
<1> DEFINE D == {n - x : x \in S}
<1>1. D \subseteq Nat
  OBVIOUS
<1>0. D # {}
  <2>1. PICK x \in S : TRUE
    OBVIOUS
  <2>2. n - x \in D
    OBVIOUS
  <2> QED BY <2>2
<1> HIDE DEF D
<1>2. PICK m \in D : \A y \in D : m <= y
  BY <1>0, <1>1, LeastNumber
<1>3. PICK x \in S : m = n - x
  BY DEF D
<1>4. ASSUME NEW y \in S PROVE x >= y
  <2>1. n - y \in D
    BY DEF D
  <2>2. m <= n - y
    BY <1>2, <2>1
  <2> QED BY <1>3, <2>2
<1>5. \E z \in S : \A y \in S : z >= y
  BY <1>4
<1>6. Max(S) \in S /\ \A y \in S : Max(S) >= y
  BY <1>5 DEF Max
<1>7. S \subseteq Nat
  OBVIOUS
<1> QED BY <1>6, <1>7

\* Sequences of some characters are sequences of more.
LEMMA SeqMore ==
  ASSUME NEW S, NEW T, S \subseteq T, NEW s \in Seq(S)
  PROVE  s \in Seq(T)
  OBVIOUS

(* Sequences of operations of the terminal: the characters of a text, the  *)
(* names of a list, the cells of the screen, the rows of a page.           *)

Step(kind, arg, t, x) ==
  CASE kind = "character" -> tty_putc(t, x)
    [] kind = "name"      -> IF x \in arg THEN tty_write(t, Append(x, Newline)) ELSE t
    [] kind = "cell"      -> tty_write_cell(t, x[1], x[2], arg[1], arg[2])
    [] kind = "row"       -> IF x \in DOMAIN arg
                             THEN tty_write(tty_set_cursor_position(t, x, 0), arg[x])
                             ELSE tty_set_cursor_position(t, x, 0)

\* A fold over a sequence is a function of the sets of indices done.
Doing(g, kind, arg, t, items, n) ==
  g = [s \in SUBSET (1 .. n) |-> IF s = {} THEN t
                                 ELSE Step(kind, arg, g[s \ {Max(s)}], items[Max(s)])]

\* Such a function exists, so that the one FoldLeft chooses is one of them.
LEMMA DoingExists ==
  ASSUME NEW kind, NEW arg, NEW t, NEW items, NEW n \in Nat
  PROVE  \E g : Doing(g, kind, arg, t, items, n)
<1> DEFINE B == {m \in Nat : ~\E g : Doing(g, kind, arg, t, items, m)}
<1> SUFFICES ASSUME B # {} PROVE FALSE
  OBVIOUS
<1>1. PICK m \in B : \A y \in B : m <= y
  <2>1. B \subseteq Nat
    OBVIOUS
  <2> HIDE DEF B
  <2> QED BY <2>1, LeastNumber
<1>2. CASE m = 0
  <2> DEFINE g == [s \in SUBSET (1 .. 0) |-> t]
  <2>1. ASSUME NEW s \in SUBSET (1 .. 0)
        PROVE  g[s] = IF s = {} THEN t ELSE Step(kind, arg, g[s \ {Max(s)}], items[Max(s)])
    <3>1. s = {}
      OBVIOUS
    <3> QED BY <3>1
  <2>2. g = [s \in SUBSET (1 .. 0) |-> g[s]]
    OBVIOUS
  <2> HIDE DEF g
  <2>3. Doing(g, kind, arg, t, items, 0)
    BY <2>1, <2>2 DEF Doing
  <2> QED BY <1>2, <2>3
<1>3. CASE m # 0
  <2>1. m - 1 \in Nat /\ m - 1 \notin B
    BY <1>1, <1>3
  <2>2. PICK f : Doing(f, kind, arg, t, items, m - 1)
    BY <2>1
  <2> DEFINE g == [s \in SUBSET (1 .. m) |-> IF m \in s THEN Step(kind, arg, f[s \ {m}], items[m]) ELSE f[s]]
  <2>3. ASSUME NEW s \in SUBSET (1 .. m)
        PROVE  g[s] = IF s = {} THEN t ELSE Step(kind, arg, g[s \ {Max(s)}], items[Max(s)])
    <3>1. CASE m \in s
      <4>1. m \in Nat /\ s \subseteq 0 .. m
        OBVIOUS
      <4>2. Max(s) \in s /\ \A y \in s : y <= Max(s)
        BY <3>1, <4>1, GreatestNumber
      <4>3. Max(s) = m
        <5>1. m <= Max(s)
          BY <3>1, <4>2
        <5>2. Max(s) \in 1 .. m
          BY <4>2
        <5> QED BY <4>1, <5>1, <5>2
      <4>4. g[s \ {m}] = f[s \ {m}]
        OBVIOUS
      <4> QED BY <3>1, <4>3, <4>4
    <3>2. CASE m \notin s
      <4>1. s \in SUBSET (1 .. (m - 1))
        BY <3>2
      <4>2. f[s] = IF s = {} THEN t ELSE Step(kind, arg, f[s \ {Max(s)}], items[Max(s)])
        BY <2>2, <4>1 DEF Doing
      <4>3. g[s \ {Max(s)}] = f[s \ {Max(s)}]
        BY <3>2
      <4> QED BY <3>2, <4>2, <4>3
    <3> QED BY <3>1, <3>2
  <2>4. g = [s \in SUBSET (1 .. m) |-> g[s]]
    OBVIOUS
  <2> HIDE DEF g
  <2>5. Doing(g, kind, arg, t, items, m)
    BY <2>3, <2>4 DEF Doing
  <2> QED BY <2>5
<1> QED BY <1>2, <1>3

\* The terminal goes from one operation to the next; w is what it is after
\* each of them.
Steps(w, kind, arg, t, items, n) == w[0] = t /\ \A i \in 1 .. n : w[i] = Step(kind, arg, w[i - 1], items[i])

\* Its value at all n indices is where n steps lead.
LEMMA DoingSteps ==
  ASSUME NEW kind, NEW arg, NEW t, NEW items, NEW n \in Nat, NEW it, Doing(it, kind, arg, t, items, n)
  PROVE  \E w : Steps(w, kind, arg, t, items, n) /\ it[1 .. n] = w[n]
<1> DEFINE w == [i \in 0 .. n |-> it[1 .. i]]
<1>4. w[0] = t
  <2>1. 1 .. 0 = {} /\ {} \in SUBSET (1 .. n)
    OBVIOUS
  <2>2. it[{}] = t
    BY <2>1 DEF Doing
  <2> QED BY <2>1, <2>2
<1>5. ASSUME NEW i \in 1 .. n PROVE w[i] = Step(kind, arg, w[i - 1], items[i])
  <2>1. i \in Nat /\ 1 .. i \subseteq 0 .. i /\ 1 .. i # {} /\ 1 .. i \in SUBSET (1 .. n) /\ i \in 1 .. i
    OBVIOUS
  <2>2. Max(1 .. i) \in 1 .. i /\ \A y \in 1 .. i : y <= Max(1 .. i)
    BY <2>1, GreatestNumber
  <2>3. Max(1 .. i) = i
    BY <2>1, <2>2
  <2>4. (1 .. i) \ {i} = 1 .. (i - 1)
    BY <2>1
  <2>5. it[1 .. i] = Step(kind, arg, it[(1 .. i) \ {i}], items[i])
    BY <2>1, <2>3 DEF Doing
  <2>6. i \in 0 .. n /\ i - 1 \in 0 .. n
    BY <2>1
  <2>7. w[i] = it[1 .. i] /\ w[i - 1] = it[1 .. (i - 1)]
    BY <2>6
  <2> QED BY <2>4, <2>5, <2>7
<1>6. w[n] = it[1 .. n]
  OBVIOUS
<1> HIDE DEF w
<1>7. Steps(w, kind, arg, t, items, n)
  BY <1>4, <1>5 DEF Steps
<1> QED BY <1>6, <1>7

\* Writing a text is putting its characters one by one.
Writing(g, t, text, n) ==
  g = [s \in SUBSET (1 .. n) |-> IF s = {} THEN t
                                 ELSE tty_putc(g[s \ {Max(s)}], text[Max(s)])]
Shows(w, t, text) ==
  /\ w[0] = t
  /\ \A i \in 1 .. Len(text) : w[i] = tty_putc(w[i - 1], text[i])

\* What tty_write leaves is where the characters lead, put one by one.
LEMMA WriteSteps ==
  ASSUME NEW t, NEW S, NEW text \in Seq(S)
  PROVE  \E w : Shows(w, t, text) /\ tty_write(t, text) = w[Len(text)]
<1> DEFINE n == Len(text)
           it == CHOOSE g : Writing(g, t, text, n)
<1>1. n \in Nat /\ DOMAIN text = 1 .. n
  OBVIOUS
<1>2. tty_write(t, text) = it[1 .. n]
  BY <1>1 DEF tty_write, FoldLeft, MapThenFoldSet, Writing
<1>3. \A s, x : Step("character", <<>>, s, x) = tty_putc(s, x)
  BY DEF Step
<1>4. \A g : Writing(g, t, text, n) <=> Doing(g, "character", <<>>, t, text, n)
  BY <1>3 DEF Writing, Doing
<1>5. Writing(it, t, text, n)
  BY <1>1, <1>4, DoingExists
<1> HIDE DEF it
<1>6. PICK w : Steps(w, "character", <<>>, t, text, n) /\ it[1 .. n] = w[n]
  BY <1>1, <1>4, <1>5, DoingSteps
<1>7. Shows(w, t, text)
  BY <1>3, <1>6 DEF Steps, Shows
<1> QED BY <1>2, <1>6, <1>7

(* What one operation of the terminal does.                                *)

\* The codes of characters and of attributes. A character is a string; the ones
\* that the modules name are listed, because the provers do not take a string
\* for one otherwise.
Written == {Space, NUL, Bell, Newline, Return, Backspace, "^", "C", "9", "N", "s"}
Characters == STRING \cup Written
Colors == Nat
Cells == [character : Characters, color : Colors]
Glyphs == [character : Characters, color : Colors, block : BOOLEAN]

\* A terminal, in the middle of an operation: the cursor may be on the row
\* behind the last one.
Screens == [cells : [Rows -> [Cols -> Cells]], row : Nat, col : Cols, color : Colors,
            overlay : (Rows \X Cols) \cup {CURSOR_INVALID},
            drawn : [Rows -> [Cols -> Glyphs]]]

\* Nothing but what is drawn has changed.
SameCells(t, u) == /\ u.cells = t.cells /\ u.row = t.row /\ u.col = t.col
                   /\ u.color = t.color

\* The characters the modules name are characters.
LEMMA SpaceIsCharacter ==
  /\ {Space, NUL, Bell, Newline, "^", "C", "9", "N", "s"} \subseteq Characters
  /\ STRING \subseteq Characters
  BY Zenon DEF Characters, Written

\* A glyph has no block, and setting the block again changes nothing.
LEMMA GlyphPlain ==
  ASSUME NEW cell \in Cells
  PROVE  Glyph(cell) \in Glyphs /\ [Glyph(cell) EXCEPT !.block = FALSE] = Glyph(cell)
<1>1. Glyph(cell) \in Glyphs /\ Glyph(cell).block = FALSE
  BY SpaceIsCharacter DEF Glyph, Cells, Glyphs
<1>2. \A g \in Glyphs : g.block = FALSE => [g EXCEPT !.block = FALSE] = g
  BY DEF Glyphs
<1> QED BY <1>1, <1>2

\* A glyph is drawn in one cell.
LEMMA GlyphDrawn ==
  ASSUME NEW t \in Screens, NEW row \in Rows, NEW col \in Cols,
         NEW u, u = tty_draw_glyph(t, row, col)
  PROVE  /\ u \in Screens /\ SameCells(t, u) /\ u.overlay = t.overlay
         /\ \A r \in Rows, c \in Cols :
              u.drawn[r][c] = IF r = row /\ c = col THEN Glyph(t.cells[r][c]) ELSE t.drawn[r][c]
<1>1. Glyph(t.cells[row][col]) \in Glyphs
  <2>1. t.cells[row][col] \in Cells
    BY DEF Screens
  <2> QED BY <2>1, SpaceIsCharacter DEF Glyph, Cells, Glyphs
<1>2. u = [t EXCEPT !.drawn = [t.drawn EXCEPT ![row] = [t.drawn[row] EXCEPT ![col] = Glyph(t.cells[row][col])]]]
  BY DEF tty_draw_glyph, OnScreen, Screens
<1>3. u.drawn = [t.drawn EXCEPT ![row] = [t.drawn[row] EXCEPT ![col] = Glyph(t.cells[row][col])]]
  BY <1>2 DEF Screens
<1>4. u.drawn \in [Rows -> [Cols -> Glyphs]]
  BY <1>1, <1>3 DEF Screens
<1>5. u \in Screens /\ SameCells(t, u) /\ u.overlay = t.overlay
  BY <1>2, <1>3, <1>4 DEF Screens, SameCells
<1> QED BY <1>3, <1>5 DEF Screens

\* The block of the cursor is drawn over one cell.
Blocked(glyph) == [glyph EXCEPT !.block = TRUE]

\* That cell shows the block, and no other cell is drawn.
LEMMA BlockDrawn ==
  ASSUME NEW t \in Screens, NEW row \in Rows, NEW col \in Cols,
         NEW u, u = tty_draw_cursor_block(t, row, col)
  PROVE  /\ u \in Screens /\ SameCells(t, u) /\ u.overlay = t.overlay
         /\ \A r \in Rows, c \in Cols :
              u.drawn[r][c] = IF r = row /\ c = col THEN Blocked(t.drawn[r][c]) ELSE t.drawn[r][c]
<1> DEFINE glyph == [t.drawn[row][col] EXCEPT !.block = TRUE]
<1>1. glyph \in Glyphs
  <2>1. t.drawn[row][col] \in Glyphs
    BY DEF Screens
  <2> QED BY <2>1 DEF Glyphs
<1>2. u = [t EXCEPT !.drawn = [t.drawn EXCEPT ![row] = [t.drawn[row] EXCEPT ![col] = glyph]]]
  BY DEF tty_draw_cursor_block, OnScreen, Screens
<1>3. u.drawn = [t.drawn EXCEPT ![row] = [t.drawn[row] EXCEPT ![col] = glyph]]
  BY <1>2 DEF Screens
<1>4. \A r \in Rows, c \in Cols :
        u.drawn[r][c] = IF r = row /\ c = col THEN glyph ELSE t.drawn[r][c]
  BY <1>3 DEF Screens
<1> HIDE DEF glyph
<1>5. u.drawn \in [Rows -> [Cols -> Glyphs]]
  BY <1>1, <1>3 DEF Screens
<1>6. u \in Screens /\ SameCells(t, u) /\ u.overlay = t.overlay
  BY <1>2, <1>3, <1>5 DEF Screens, SameCells
<1> QED BY <1>4, <1>6 DEF glyph, Blocked

\* Every cell but the one with the block shows its character.
Fresh(t) == \A r \in Rows, c \in Cols :
              <<r, c>> # t.overlay => t.drawn[r][c] = Glyph(t.cells[r][c])

\* A terminal between two operations: the screen shows the cells and one
\* block, at the cursor.
Settled(t) == /\ t \in Screens /\ OnScreen(t.row, t.col)
              /\ t.overlay = <<t.row, t.col>>
              /\ Faithful(t)

\* Every cell but that of the cursor shows what is in the array.
LEMMA SettledFresh == ASSUME NEW t, Settled(t) PROVE Fresh(t)
<1> SUFFICES ASSUME NEW r \in Rows, NEW c \in Cols, <<r, c>> # <<t.row, t.col>>
             PROVE  t.drawn[r][c] = Glyph(t.cells[r][c])
  BY DEF Fresh, Settled
<1>1. t.drawn[r][c] = [Glyph(t.cells[r][c]) EXCEPT !.block = FALSE]
  BY DEF Settled, Faithful
<1> QED BY <1>1 DEF Glyph

\* Redrawing the cursor makes the screen show the cells and the block, if all
\* it has to repair is the cell of the block.
LEMMA RedrawSettles ==
  ASSUME NEW t \in Screens, OnScreen(t.row, t.col), Fresh(t), NEW u, u = tty_redraw_cursor(t)
  PROVE  Settled(u) /\ SameCells(t, u)
<1> DEFINE old == tty_draw_glyph(t, t.overlay[1], t.overlay[2])
           moved == [old EXCEPT !.overlay = <<t.row, t.col>>]
           glyph == tty_draw_glyph(moved, t.row, t.col)
<1>0. t.row \in Rows /\ t.col \in Cols
  BY DEF OnScreen
<1>1. /\ old \in Screens /\ SameCells(t, old)
      /\ \A r \in Rows, c \in Cols : old.drawn[r][c] = Glyph(t.cells[r][c])
  <2>1. CASE t.overlay = CURSOR_INVALID
    <3>1. old = t
      BY <2>1, TerminalAssumption DEF tty_draw_glyph, OnScreen, CURSOR_INVALID, Rows
    <3>2. \A r \in Rows, c \in Cols : <<r, c>> # t.overlay
      BY <2>1, TerminalAssumption DEF CURSOR_INVALID, Rows
    <3> QED BY <3>1, <3>2 DEF Fresh, SameCells
  <2>2. CASE t.overlay # CURSOR_INVALID
    <3>1. t.overlay \in Rows \X Cols
      BY <2>2 DEF Screens
    <3>2. PICK a \in Rows, b \in Cols : t.overlay = <<a, b>>
      BY <3>1
    <3>3. old = tty_draw_glyph(t, a, b)
      BY <3>2
    <3> HIDE DEF old
    <3>4. /\ old \in Screens /\ SameCells(t, old)
          /\ \A r \in Rows, c \in Cols :
              old.drawn[r][c] = IF r = a /\ c = b THEN Glyph(t.cells[r][c]) ELSE t.drawn[r][c]
      BY <3>3, GlyphDrawn
    <3>5. \A r \in Rows, c \in Cols : (r = a /\ c = b) \/ <<r, c>> # t.overlay
      BY <3>2
    <3> QED BY <3>4, <3>5 DEF Fresh
  <2> QED BY <2>1, <2>2
<1> HIDE DEF old
<1>2. /\ moved \in Screens /\ SameCells(t, moved) /\ moved.overlay = <<t.row, t.col>>
      /\ moved.drawn = old.drawn
  BY <1>0, <1>1 DEF Screens, SameCells
<1> HIDE DEF moved
<1>9. glyph = tty_draw_glyph(moved, t.row, t.col)
  OBVIOUS
<1>4. u = tty_draw_cursor_block(glyph, t.row, t.col)
  BY DEF tty_redraw_cursor, old, moved
<1> HIDE DEF glyph
<1>3. /\ glyph \in Screens /\ SameCells(moved, glyph) /\ glyph.overlay = moved.overlay
      /\ \A r \in Rows, c \in Cols :
           glyph.drawn[r][c] = IF r = t.row /\ c = t.col THEN Glyph(moved.cells[r][c]) ELSE moved.drawn[r][c]
  <2>1. PICK a \in Rows, b \in Cols : a = t.row /\ b = t.col
    BY <1>0
  <2>2. glyph = tty_draw_glyph(moved, a, b)
    BY <1>9, <2>1
  <2>3. moved \in Screens
    BY <1>2
  <2>4. /\ glyph \in Screens /\ SameCells(moved, glyph) /\ glyph.overlay = moved.overlay
        /\ \A r \in Rows, c \in Cols :
             glyph.drawn[r][c] = IF r = a /\ c = b THEN Glyph(moved.cells[r][c]) ELSE moved.drawn[r][c]
    BY <2>2, <2>3, GlyphDrawn
  <2> QED BY <2>1, <2>4
<1>5. /\ u \in Screens /\ SameCells(glyph, u) /\ u.overlay = glyph.overlay
      /\ \A r \in Rows, c \in Cols :
           u.drawn[r][c] = IF r = t.row /\ c = t.col THEN Blocked(glyph.drawn[r][c])
                           ELSE glyph.drawn[r][c]
  <2>1. PICK a \in Rows, b \in Cols : a = t.row /\ b = t.col
    BY <1>0
  <2>2. u = tty_draw_cursor_block(glyph, a, b)
    BY <1>4, <2>1
  <2>3. glyph \in Screens
    BY <1>3
  <2>4. /\ u \in Screens /\ SameCells(glyph, u) /\ u.overlay = glyph.overlay
        /\ \A r \in Rows, c \in Cols :
             u.drawn[r][c] = IF r = a /\ c = b THEN Blocked(glyph.drawn[r][c]) ELSE glyph.drawn[r][c]
    BY <2>2, <2>3, BlockDrawn
  <2> QED BY <2>1, <2>4
<1>6. SameCells(t, u) /\ u.overlay = <<u.row, u.col>>
  BY <1>2, <1>3, <1>5 DEF SameCells
<1>7. ASSUME NEW r \in Rows, NEW c \in Cols
      PROVE  u.drawn[r][c] = [Glyph(u.cells[r][c]) EXCEPT !.block = (<<r, c>> = <<u.row, u.col>>)]
  <2>1. glyph.drawn[r][c] = Glyph(t.cells[r][c])
    BY <1>1, <1>2, <1>3 DEF SameCells
  <2>2. u.cells[r][c] = t.cells[r][c] /\ u.row = t.row /\ u.col = t.col
    BY <1>6 DEF SameCells
  <2>3. CASE r = t.row /\ c = t.col
    <3>1. u.drawn[r][c] = [Glyph(t.cells[r][c]) EXCEPT !.block = TRUE]
      BY <1>5, <2>1, <2>3 DEF Blocked
    <3>2. (<<r, c>> = <<u.row, u.col>>) = TRUE
      BY <2>2, <2>3
    <3> QED BY <2>2, <3>1, <3>2
  <2>4. CASE ~(r = t.row /\ c = t.col)
    <3>1. u.drawn[r][c] = Glyph(t.cells[r][c])
      BY <1>5, <2>1, <2>4
    <3>2. (<<r, c>> = <<u.row, u.col>>) = FALSE
      BY <2>2, <2>4
    <3>3. Glyph(t.cells[r][c]) = [Glyph(t.cells[r][c]) EXCEPT !.block = FALSE]
      <4>1. t.cells[r][c] \in Cells
        BY DEF Screens
      <4> QED BY <4>1, GlyphPlain
    <3> QED BY <2>2, <3>1, <3>2, <3>3
  <2> QED BY <2>3, <2>4
<1>8. OnScreen(u.row, u.col)
  BY <1>6 DEF SameCells
<1> QED BY <1>5, <1>6, <1>7, <1>8 DEF Settled, Faithful

\* The whole screen is drawn from the cells.
LEMMA RenderSettles ==
  ASSUME NEW X, NEW D,
         NEW t \in [cells : [Rows -> [Cols -> Cells]], row : Rows, col : Cols, color : Colors,
                    overlay : X, drawn : D],
         NEW u, u = tty_render_screen(t)
  PROVE  Settled(u) /\ SameCells(t, u)
<1> DEFINE picture == [r \in Rows |-> [c \in Cols |-> Glyph(t.cells[r][c])]]
           drawn == [t EXCEPT !.drawn = picture, !.overlay = CURSOR_INVALID]
<1>1. ASSUME NEW r \in Rows, NEW c \in Cols PROVE Glyph(t.cells[r][c]) \in Glyphs
  <2>1. t.cells[r][c] \in Cells
    OBVIOUS
  <2> QED BY <2>1, GlyphPlain
<1>2. picture \in [Rows -> [Cols -> Glyphs]]
  BY <1>1
<1>3. \A r \in Rows, c \in Cols : picture[r][c] = Glyph(t.cells[r][c])
  OBVIOUS
<1>4. u = tty_redraw_cursor(drawn)
  BY DEF tty_render_screen
<1> HIDE DEF picture
<1>5. /\ drawn.drawn = picture /\ drawn.overlay = CURSOR_INVALID
      /\ drawn.cells = t.cells /\ drawn.row = t.row /\ drawn.col = t.col /\ drawn.color = t.color
  OBVIOUS
<1>6. Rows \subseteq Nat
  BY DEF Rows
<1>7. drawn \in Screens
  BY <1>2, <1>6 DEF Screens
<1> HIDE DEF drawn
<1>8. Fresh(drawn) /\ OnScreen(drawn.row, drawn.col)
  BY <1>3, <1>5 DEF Fresh, OnScreen
<1>9. Settled(u) /\ SameCells(drawn, u)
  BY <1>4, <1>7, <1>8, RedrawSettles
<1> QED BY <1>5, <1>9 DEF SameCells

\* The rows have moved up by one, and the last one is blank.
Lifted(t, u) ==
  \A r \in Rows : u.cells[r] = IF r < TTY_ROWS - 1 THEN t.cells[r + 1] ELSE BlankRow(t.color)

\* A cursor behind the last row is brought back, and the rows move up.
LEMMA ScrollSettles ==
  ASSUME NEW t \in Screens, t.row >= TTY_ROWS, NEW u, u = tty_scroll(t)
  PROVE  /\ Settled(u) /\ u.row = TTY_ROWS - 1 /\ u.col = t.col /\ u.color = t.color
         /\ t.row = TTY_ROWS => Lifted(t, u)
<1> DEFINE past == t.row - (TTY_ROWS - 1)
           overflow == IF past > TTY_ROWS THEN TTY_ROWS ELSE past
           keep_rows == TTY_ROWS - overflow
           lifted == [r \in Rows |-> IF r < keep_rows THEN t.cells[r + overflow] ELSE BlankRow(t.color)]
           moved == [t EXCEPT !.cells = lifted, !.row = TTY_ROWS - 1]
<1>1. TTY_ROWS \in Nat /\ TTY_ROWS > 0 /\ t.row \in Nat /\ t.col \in Cols /\ t.color \in Colors
  BY TerminalAssumption DEF Screens
<1>2. overflow \in 1 .. TTY_ROWS
  BY <1>1
<1>3. u = tty_render_screen(moved)
  BY <1>1 DEF tty_scroll
<1>o. t.row = TTY_ROWS => overflow = 1
  BY <1>1
<1> HIDE DEF overflow
<1>l. t.row = TTY_ROWS =>
        \A r \in Rows : lifted[r] = IF r < TTY_ROWS - 1 THEN t.cells[r + 1] ELSE BlankRow(t.color)
  BY <1>o
<1>4. BlankRow(t.color) \in [Cols -> Cells]
  BY <1>1, SpaceIsCharacter DEF BlankRow, Blank, Cells
<1>5. ASSUME NEW r \in Rows PROVE lifted[r] \in [Cols -> Cells]
  <2>1. CASE r < keep_rows
    <3>1. r + overflow \in Rows
      BY <1>1, <1>2, <2>1 DEF Rows
    <3>2. t.cells[r + overflow] \in [Cols -> Cells]
      BY <3>1 DEF Screens
    <3> QED BY <2>1, <3>2
  <2>2. CASE ~(r < keep_rows)
    BY <1>4, <2>2
  <2> QED BY <2>1, <2>2
<1>6. lifted \in [Rows -> [Cols -> Cells]]
  BY <1>5
<1> HIDE DEF lifted
<1>7. TTY_ROWS - 1 \in Rows
  BY <1>1 DEF Rows
<1> DEFINE X == (Rows \X Cols) \cup {CURSOR_INVALID}
           D == [Rows -> [Cols -> Glyphs]]
<1>8. /\ moved \in [cells : [Rows -> [Cols -> Cells]], row : Rows, col : Cols, color : Colors,
                    overlay : X, drawn : D]
      /\ moved.row = TTY_ROWS - 1 /\ moved.col = t.col /\ moved.color = t.color /\ moved.cells = lifted
  BY <1>6, <1>7 DEF Screens
<1> HIDE DEF moved, X, D
<1>9. Settled(u) /\ SameCells(moved, u)
  BY <1>3, <1>8, RenderSettles
<1>10. t.row = TTY_ROWS => Lifted(t, u)
  BY <1>l, <1>8, <1>9 DEF SameCells, Lifted
<1> QED BY <1>8, <1>9, <1>10 DEF SameCells

\* A terminal that does not need to scroll stays what it is.
LEMMA NoScroll ==
  ASSUME NEW t, t.row < TTY_ROWS PROVE tty_scroll(t) = t
  BY DEF tty_scroll

\* A settled terminal has a cursor on its screen.
LEMMA SettledRange ==
  ASSUME NEW t, Settled(t)
  PROVE  /\ t \in Screens /\ t.row \in Rows /\ t.col \in Cols /\ t.row \in Nat /\ t.col \in Nat
         /\ t.row < TTY_ROWS /\ t.col < TTY_COLS /\ t.color \in Colors
         /\ TTY_ROWS \in Nat /\ TTY_COLS \in Nat
<1>1. t \in Screens /\ t.row \in Rows /\ t.col \in Cols
  BY DEF Settled, OnScreen
<1>2. t.color \in Colors
  BY <1>1 DEF Screens
<1> QED BY <1>1, <1>2, TerminalAssumption DEF Rows, Cols

\* The cursor moves and is drawn again.
MovedTo(t, row, col) == [t EXCEPT !.row = row, !.col = col]

\* A move leaves the terminal settled with the same cells, and the cursor there.
LEMMA MoveSettles ==
  ASSUME NEW t, Settled(t), NEW row \in Rows, NEW col \in Cols,
         NEW u, u = tty_redraw_cursor(MovedTo(t, row, col))
  PROVE  /\ Settled(u) /\ u.cells = t.cells /\ u.row = row /\ u.col = col /\ u.color = t.color
<1> DEFINE moved == MovedTo(t, row, col)
<1>1. t \in Screens /\ Fresh(t)
  BY SettledFresh DEF Settled
<1>6. Rows \subseteq Nat
  BY DEF Rows
<1>2. /\ moved \in Screens /\ moved.cells = t.cells /\ moved.drawn = t.drawn
      /\ moved.overlay = t.overlay /\ moved.row = row /\ moved.col = col /\ moved.color = t.color
  BY <1>1, <1>6 DEF Screens, MovedTo
<1>3. u = tty_redraw_cursor(moved)
  OBVIOUS
<1> HIDE DEF moved
<1>4. Fresh(moved) /\ OnScreen(moved.row, moved.col)
  BY <1>1, <1>2 DEF Fresh, OnScreen
<1>5. Settled(u) /\ SameCells(moved, u)
  BY <1>2, <1>3, <1>4, RedrawSettles
<1> QED BY <1>2, <1>5 DEF SameCells

\* One cell of the array is replaced.
Put(t, row, col, cell) == [t EXCEPT !.cells[row][col] = cell]

\* The terminal is still one, and only that cell is another.
LEMMA PutCell ==
  ASSUME NEW t \in Screens, NEW row \in Rows, NEW col \in Cols, NEW cell \in Cells,
         NEW u, u = Put(t, row, col, cell)
  PROVE  /\ u \in Screens /\ u.row = t.row /\ u.col = t.col /\ u.color = t.color
         /\ u.overlay = t.overlay /\ u.drawn = t.drawn
         /\ \A r \in Rows, c \in Cols : u.cells[r][c] = IF r = row /\ c = col THEN cell ELSE t.cells[r][c]
<1> DEFINE cells == [t.cells EXCEPT ![row] = [t.cells[row] EXCEPT ![col] = cell]]
<1>1. u = [t EXCEPT !.cells = cells]
  BY DEF Put, Screens
<1>2. cells \in [Rows -> [Cols -> Cells]]
  BY DEF Screens
<1>3. \A r \in Rows, c \in Cols : cells[r][c] = IF r = row /\ c = col THEN cell ELSE t.cells[r][c]
  BY DEF Screens
<1> HIDE DEF cells
<1> QED BY <1>1, <1>2, <1>3 DEF Screens

\* A cell is replaced and drawn: every other cell is shown as before.
LEMMA PutDrawn ==
  ASSUME NEW t \in Screens, Fresh(t), NEW row \in Rows, NEW col \in Cols, NEW cell \in Cells,
         NEW u, u = tty_draw_glyph(Put(t, row, col, cell), row, col)
  PROVE  /\ u \in Screens /\ Fresh(u) /\ u.row = t.row /\ u.col = t.col /\ u.color = t.color
         /\ u.overlay = t.overlay
         /\ \A r \in Rows, c \in Cols : u.cells[r][c] = IF r = row /\ c = col THEN cell ELSE t.cells[r][c]
         /\ \A r \in Rows, c \in Cols : u.drawn[r][c] = IF r = row /\ c = col THEN Glyph(cell) ELSE t.drawn[r][c]
<1> DEFINE put == Put(t, row, col, cell)
<1>1. /\ put \in Screens /\ put.row = t.row /\ put.col = t.col /\ put.color = t.color
      /\ put.overlay = t.overlay /\ put.drawn = t.drawn
      /\ \A r \in Rows, c \in Cols : put.cells[r][c] = IF r = row /\ c = col THEN cell ELSE t.cells[r][c]
  BY PutCell
<1>2. u = tty_draw_glyph(put, row, col)
  OBVIOUS
<1> HIDE DEF put
<1>3. /\ u \in Screens /\ SameCells(put, u) /\ u.overlay = put.overlay
      /\ \A r \in Rows, c \in Cols :
           u.drawn[r][c] = IF r = row /\ c = col THEN Glyph(put.cells[r][c]) ELSE put.drawn[r][c]
  <2>1. put \in Screens
    BY <1>1
  <2> QED BY <1>2, <2>1, GlyphDrawn
<1>4. Fresh(u)
  BY <1>1, <1>3 DEF Fresh, SameCells
<1> QED BY <1>1, <1>3, <1>4 DEF SameCells

\* '\b' leaves the terminal settled.
LEMMA BackspaceSettles ==
  ASSUME NEW t, Settled(t), NEW u, u = PutBackspace(t)
  PROVE  Settled(u) /\ u.color = t.color
<1> DEFINE row == IF t.col = 0 /\ t.row > 0 THEN t.row - 1 ELSE t.row
           col == IF t.col > 0 THEN t.col - 1 ELSE IF t.row > 0 THEN TTY_COLS - 1 ELSE 0
           moved == [t EXCEPT !.row = row, !.col = col]
           put == tty_draw_glyph(Put(moved, row, col, Blank(t.color)), row, col)
<1>1. t \in Screens /\ Fresh(t)
  BY SettledFresh DEF Settled
<1>2. row \in Rows /\ col \in Cols /\ row \in Nat
  BY SettledRange DEF Rows, Cols
<1>3. Blank(t.color) \in Cells
  BY SettledRange, SpaceIsCharacter DEF Blank, Cells
<1>4. u = tty_redraw_cursor(put)
  <2>1. [t EXCEPT !.row = row, !.col = col, !.cells[row][col] = Blank(t.color)]
          = Put(moved, row, col, Blank(t.color))
    BY DEF Put
  <2> QED BY <2>1 DEF PutBackspace
<1> HIDE DEF row, col
<1>5. /\ moved \in Screens /\ moved.cells = t.cells /\ moved.drawn = t.drawn
      /\ moved.overlay = t.overlay /\ moved.row = row /\ moved.col = col /\ moved.color = t.color
  BY <1>1, <1>2 DEF Screens
<1> HIDE DEF moved
<1>6. Fresh(moved)
  BY <1>1, <1>5 DEF Fresh
<1>7. /\ put \in Screens /\ Fresh(put) /\ put.row = row /\ put.col = col /\ put.color = t.color
  BY <1>2, <1>3, <1>5, <1>6, PutDrawn
<1> HIDE DEF put
<1>8. Settled(u) /\ SameCells(put, u)
  BY <1>2, <1>4, <1>7, RedrawSettles DEF OnScreen
<1> QED BY <1>7, <1>8 DEF SameCells

\* A character leaves the terminal settled; within a row it fills the cell of
\* the cursor, no other, and moves the cursor to the next.
Filled(t, u, ch) ==
  /\ u.row = t.row /\ u.col = t.col + 1
  /\ \A r \in Rows, c \in Cols :
       u.cells[r][c] = IF r = t.row /\ c = t.col THEN [character |-> ch, color |-> t.color]
                       ELSE t.cells[r][c]

\* What a cell is when the one of the cursor has been filled.
CellFilled(t, ch, r, c) == IF r = t.row /\ c = t.col THEN [character |-> ch, color |-> t.color]
                           ELSE t.cells[r][c]

\* In the last column it goes on in the next row, and in the last row it moves
\* all rows up.
Wrapped(t, u, ch) ==
  /\ u.row = (IF t.row + 1 < TTY_ROWS THEN t.row + 1 ELSE t.row) /\ u.col = 0
  /\ \A r \in Rows, c \in Cols :
       u.cells[r][c] = IF t.row + 1 < TTY_ROWS THEN CellFilled(t, ch, r, c)
                       ELSE IF r < TTY_ROWS - 1 THEN CellFilled(t, ch, r + 1, c)
                       ELSE Blank(t.color)

\* PutGlyph does so at any place, also where it scrolls.
LEMMA GlyphSettles ==
  ASSUME NEW t, Settled(t), NEW ch \in Characters, NEW u, u = PutGlyph(t, ch)
  PROVE  /\ Settled(u) /\ u.color = t.color
         /\ t.col + 1 < TTY_COLS => Filled(t, u, ch)
         /\ t.col + 1 >= TTY_COLS => Wrapped(t, u, ch)
<1> DEFINE cell == [character |-> ch, color |-> t.color]
           put == tty_draw_glyph(Put(t, t.row, t.col, cell), t.row, t.col)
           wraps == t.col + 1 >= TTY_COLS
           row == IF wraps THEN t.row + 1 ELSE t.row
           col == IF wraps THEN 0 ELSE t.col + 1
           moved == [put EXCEPT !.col = col, !.row = row]
<1>1. t \in Screens /\ Fresh(t)
  BY SettledFresh DEF Settled
<1>2. /\ t.row \in Rows /\ t.col \in Cols /\ t.row \in Nat /\ t.col \in Nat
      /\ t.row < TTY_ROWS /\ t.col < TTY_COLS /\ t.color \in Colors
      /\ TTY_ROWS \in Nat /\ TTY_COLS \in Nat
  BY SettledRange
<1>3. cell \in Cells
  BY <1>2 DEF Cells
<1>4. /\ put \in Screens /\ Fresh(put) /\ put.row = t.row /\ put.col = t.col /\ put.color = t.color
      /\ put.overlay = t.overlay
      /\ \A r \in Rows, c \in Cols : put.cells[r][c] = IF r = t.row /\ c = t.col THEN cell ELSE t.cells[r][c]
  BY <1>1, <1>2, <1>3, PutDrawn
<1>5. u = tty_redraw_cursor(tty_scroll(moved))
  <2>1. tty_scroll(t) = t
    BY <1>2, NoScroll
  <2>2. [put EXCEPT !.col = IF wraps THEN 0 ELSE @ + 1, !.row = IF wraps THEN @ + 1 ELSE @] = moved
    BY <1>4
  <2> QED BY <2>1, <2>2 DEF PutGlyph, Put
<1> HIDE DEF put, cell
<1>6. row \in Nat /\ col \in Cols
  BY <1>2 DEF Cols
<1>7. /\ moved \in Screens /\ moved.cells = put.cells /\ moved.drawn = put.drawn
      /\ moved.overlay = put.overlay /\ moved.row = row /\ moved.col = col /\ moved.color = t.color
  BY <1>4, <1>6 DEF Screens
<1> HIDE DEF moved
<1>8. CASE row >= TTY_ROWS
  <2> DEFINE v == tty_scroll(moved)
  <2>0. wraps /\ row = TTY_ROWS /\ col = 0 /\ t.row = TTY_ROWS - 1
    BY <1>2, <1>8
  <2>1. /\ Settled(v) /\ v.color = t.color /\ v.row = TTY_ROWS - 1 /\ v.col = 0 /\ Lifted(moved, v)
    BY <1>7, <1>8, <2>0, ScrollSettles
  <2>2. Settled(u) /\ SameCells(v, u)
    <3>1. v \in Screens /\ Fresh(v) /\ OnScreen(v.row, v.col)
      BY <2>1, SettledFresh DEF Settled
    <3> HIDE DEF v
    <3>2. u = tty_redraw_cursor(v)
      BY <1>5 DEF v
    <3> QED BY <3>1, <3>2, RedrawSettles
  <2> HIDE DEF v
  <2>3. ASSUME NEW r \in Rows, NEW c \in Cols
        PROVE  u.cells[r][c] = IF r < TTY_ROWS - 1 THEN CellFilled(t, ch, r + 1, c) ELSE Blank(t.color)
    <3>1. u.cells[r] = IF r < TTY_ROWS - 1 THEN put.cells[r + 1] ELSE BlankRow(t.color)
      BY <1>7, <2>1, <2>2 DEF Lifted, SameCells
    <3>2. CASE r < TTY_ROWS - 1
      <4>1. r + 1 \in Rows
        BY <1>2, <3>2 DEF Rows
      <4> QED BY <1>4, <3>1, <3>2, <4>1 DEF CellFilled, cell
    <3>3. CASE ~(r < TTY_ROWS - 1)
      BY <3>1, <3>3 DEF BlankRow
    <3> QED BY <3>2, <3>3
  <2>4. Wrapped(t, u, ch)
    <3>1. ~(t.row + 1 < TTY_ROWS) /\ u.row = t.row /\ u.col = 0
      BY <1>2, <2>0, <2>1, <2>2 DEF SameCells
    <3> QED BY <2>3, <3>1 DEF Wrapped
  <2> QED BY <1>2, <2>0, <2>1, <2>2, <2>4 DEF SameCells
<1>9. CASE row < TTY_ROWS
  <2>1. tty_scroll(moved) = moved
    BY <1>7, <1>9, NoScroll
  <2>2. OnScreen(moved.row, moved.col)
    BY <1>2, <1>6, <1>7, <1>9 DEF OnScreen, Rows
  <2>3. Fresh(moved)
    BY <1>4, <1>7 DEF Fresh
  <2>4. Settled(u) /\ SameCells(moved, u)
    BY <1>5, <1>7, <2>1, <2>2, <2>3, RedrawSettles
  <2>5. Settled(u) /\ u.color = t.color /\ u.cells = put.cells /\ u.row = row /\ u.col = col
    BY <1>7, <2>4 DEF SameCells
  <2>6. ~wraps => u.row = t.row /\ u.col = t.col + 1
    BY <2>5
  <2>7. (t.col + 1 < TTY_COLS) => ~wraps
    BY <1>2
  <2>8. ~(t.col + 1 < TTY_COLS) => Wrapped(t, u, ch)
    <3> SUFFICES ASSUME ~(t.col + 1 < TTY_COLS) PROVE Wrapped(t, u, ch)
      OBVIOUS
    <3>1. row = t.row + 1 /\ col = 0
      BY <1>2
    <3>2. t.row + 1 < TTY_ROWS /\ u.row = t.row + 1 /\ u.col = 0
      BY <1>9, <2>5, <3>1
    <3> HIDE DEF row, col, wraps
    <3>3. \A r \in Rows, c \in Cols : u.cells[r][c] = CellFilled(t, ch, r, c)
      BY <1>4, <2>5 DEF CellFilled, cell
    <3> QED BY <3>2, <3>3 DEF Wrapped
  <2>9. (t.col + 1 < TTY_COLS) => Filled(t, u, ch)
    BY <1>4, <2>5, <2>6, <2>7 DEF cell, Filled
  <2>10. t.col + 1 >= TTY_COLS => ~(t.col + 1 < TTY_COLS)
    BY <1>2
  <2> QED BY <2>5, <2>8, <2>9, <2>10
<1>10. row >= TTY_ROWS \/ row < TTY_ROWS
  BY <1>2, <1>6
<1> QED BY <1>8, <1>9, <1>10

\* Any character leaves the terminal settled.
Plain(ch) == ch \in Characters /\ ch \notin {Newline, Return, Backspace}

\* Printed, moving or scrolling, it leaves the color alone.
LEMMA PutcSettles ==
  ASSUME NEW t, Settled(t), NEW ch \in Characters, NEW u, u = tty_putc(t, ch)
  PROVE  Settled(u) /\ u.color = t.color
<1>0. /\ t \in Screens /\ t.row \in Rows /\ t.col \in Cols /\ t.row \in Nat /\ t.row < TTY_ROWS
      /\ TTY_ROWS \in Nat /\ TTY_COLS \in Nat /\ 0 \in Cols
  BY SettledRange, TerminalAssumption DEF Cols
<1>1. CASE ch = Newline
  <2> DEFINE moved == [t EXCEPT !.col = 0, !.row = t.row + 1]
  <2>5. moved = [t EXCEPT !.col = 0, !.row = @ + 1]
    OBVIOUS
  <2>1. u = tty_redraw_cursor(tty_scroll(moved))
    BY <1>1, <2>5 DEF tty_putc, Newline, Return, Backspace
  <2>6. t.row + 1 \in Nat
    BY <1>0
  <2>2. moved \in Screens /\ moved.row = t.row + 1 /\ moved.color = t.color
    BY <1>0, <2>6 DEF Screens
  <2>3. CASE t.row + 1 >= TTY_ROWS
    <3> DEFINE v == tty_scroll(moved)
    <3>1. Settled(v) /\ v.color = t.color
      <4> HIDE DEF moved
      <4> QED BY <2>2, <2>3, ScrollSettles
    <3>2. v \in Screens /\ Fresh(v) /\ OnScreen(v.row, v.col)
      BY <3>1, SettledFresh DEF Settled
    <3>3. u = tty_redraw_cursor(v)
      BY <2>1
    <3> HIDE DEF v
    <3>4. Settled(u) /\ SameCells(v, u)
      BY <3>2, <3>3, RedrawSettles
    <3> QED BY <3>1, <3>4 DEF SameCells
  <2>4. CASE t.row + 1 < TTY_ROWS
    <3>1. tty_scroll(moved) = moved
      BY <2>2, <2>4, NoScroll
    <3>2. [t EXCEPT !.row = t.row + 1, !.col = 0] = moved
      BY <1>0 DEF Screens
    <3>3. t.row + 1 \in Rows
      BY <1>0, <2>4 DEF Rows
    <3>4. u = tty_redraw_cursor([t EXCEPT !.row = t.row + 1, !.col = 0])
      BY <2>1, <3>1, <3>2
    <3>5. PICK row \in Rows, col \in Cols : row = t.row + 1 /\ col = 0
      BY <1>0, <3>3
    <3>6. u = tty_redraw_cursor(MovedTo(t, row, col))
      BY <3>4, <3>5 DEF MovedTo
    <3> QED BY <3>6, MoveSettles
  <2> QED BY <1>0, <2>3, <2>4
<1>2. CASE ch = Return
  <2>1. u = tty_redraw_cursor([t EXCEPT !.col = 0])
    BY <1>2 DEF tty_putc, Newline, Return, Backspace
  <2>2. [t EXCEPT !.row = t.row, !.col = 0] = [t EXCEPT !.col = 0]
    BY <1>0 DEF Screens
  <2>3. u = tty_redraw_cursor([t EXCEPT !.row = t.row, !.col = 0])
    BY <2>1, <2>2
  <2>4. PICK row \in Rows, col \in Cols : row = t.row /\ col = 0
    BY <1>0
  <2>5. u = tty_redraw_cursor(MovedTo(t, row, col))
    BY <2>3, <2>4 DEF MovedTo
  <2> QED BY <2>5, MoveSettles
<1>3. CASE ch = Backspace
  <2>1. u = PutBackspace(t)
    BY <1>3 DEF tty_putc, Newline, Return, Backspace
  <2> QED BY <2>1, BackspaceSettles
<1>4. CASE ch \notin {Newline, Return, Backspace}
  <2>1. u = PutGlyph(t, ch)
    BY <1>4 DEF tty_putc
  <2> QED BY <2>1, GlyphSettles
<1> QED BY <1>1, <1>2, <1>3, <1>4

\* So does any text.
LEMMA WriteSettles ==
  ASSUME NEW t, Settled(t), NEW text \in Seq(Characters), NEW u, u = tty_write(t, text)
  PROVE  Settled(u) /\ u.color = t.color
<1>1. PICK w : Shows(w, t, text) /\ tty_write(t, text) = w[Len(text)]
  BY WriteSteps
<1> DEFINE Good(i) == Settled(w[i]) /\ w[i].color = t.color
           B == {i \in 0 .. Len(text) : ~Good(i)}
<1>2. B = {}
  <2> SUFFICES ASSUME B # {} PROVE FALSE
    OBVIOUS
  <2>1. PICK i \in B : \A y \in B : i <= y
    <3>1. B \subseteq Nat
      OBVIOUS
    <3> HIDE DEF B
    <3> QED BY <3>1, LeastNumber
  <2>2. i # 0
    BY <1>1, <2>1 DEF Shows
  <2>3. i - 1 \in 0 .. Len(text) /\ i \in 1 .. Len(text) /\ i - 1 \notin B
    BY <2>1, <2>2
  <2>4. Good(i - 1)
    BY <2>3
  <2>5. w[i] = tty_putc(w[i - 1], text[i]) /\ text[i] \in Characters
    BY <1>1, <2>3 DEF Shows
  <2>6. Good(i)
    BY <2>4, <2>5, PutcSettles
  <2> QED BY <2>1, <2>6
<1>3. Len(text) \in 0 .. Len(text)
  OBVIOUS
<1> QED BY <1>1, <1>2, <1>3

\* A text without control characters that fits its row is shown behind the
\* cursor, and nothing else changes.
Fills(t, u, text) ==
  /\ u.row = t.row /\ u.col = t.col + Len(text)
  /\ \A r \in Rows, c \in Cols :
       u.cells[r][c] = IF r = t.row /\ c \in t.col .. t.col + Len(text) - 1
                       THEN [character |-> text[c - t.col + 1], color |-> t.color]
                       ELSE t.cells[r][c]

\* What a cell is when the first n characters have been put behind the cursor.
CellShows(t, text, n, r, c) ==
  IF r = t.row /\ c \in t.col .. t.col + n - 1
  THEN [character |-> text[c - t.col + 1], color |-> t.color]
  ELSE t.cells[r][c]
FillsTo(t, u, text, n) ==
  /\ u.row = t.row /\ u.col = t.col + n
  /\ \A r \in Rows, c \in Cols : u.cells[r][c] = CellShows(t, text, n, r, c)

\* It fills the cells behind the cursor one after the other, as far as the row
\* goes.
LEMMA RowFills ==
  ASSUME NEW t, Settled(t), NEW text \in Seq(Characters), NEW w, Shows(w, t, text),
         \A i \in 1 .. Len(text) : Plain(text[i]),
         NEW k \in 0 .. Len(text), t.col + k < TTY_COLS
  PROVE  Settled(w[k]) /\ w[k].color = t.color /\ FillsTo(t, w[k], text, k)
<1>1. Shows(w, t, text)
  OBVIOUS
<1>0. /\ t.row \in Rows /\ t.col \in Cols /\ t.row \in Nat /\ t.col \in Nat
      /\ TTY_COLS \in Nat /\ Len(text) \in Nat
  BY SettledRange
<1> DEFINE Cell(i, r, c) == IF r = t.row /\ c \in t.col .. t.col + i - 1
                            THEN [character |-> text[c - t.col + 1], color |-> t.color]
                            ELSE t.cells[r][c]
           Good(i) == /\ Settled(w[i]) /\ w[i].color = t.color
                      /\ w[i].row = t.row /\ w[i].col = t.col + i
                      /\ \A r \in Rows, c \in Cols : w[i].cells[r][c] = Cell(i, r, c)
           B == {i \in 0 .. k : ~Good(i)}
<1>2. Good(0)
  <2>1. w[0] = t /\ t.col + 0 = t.col
    BY <1>0, <1>1 DEF Shows
  <2>2. \A c : c \notin t.col .. t.col + 0 - 1
    BY <1>0
  <2> QED BY <2>1, <2>2
<1>3. B = {}
  <2> SUFFICES ASSUME B # {} PROVE FALSE
    OBVIOUS
  <2>1. PICK i \in B : \A y \in B : i <= y
    <3>1. B \subseteq Nat
      OBVIOUS
    <3> HIDE DEF B
    <3> QED BY <3>1, LeastNumber
  <2>2. i # 0
    BY <1>2, <2>1
  <2>3. i - 1 \in 0 .. k /\ i \in 1 .. Len(text) /\ i <= k /\ i - 1 \notin B
    BY <1>0, <2>1, <2>2
  <2>4. Good(i - 1)
    BY <2>3
  <2> DEFINE p == w[i - 1]
             q == w[i]
  <2>5. q = tty_putc(p, text[i]) /\ Plain(text[i])
    BY <1>1, <2>3 DEF Shows
  <2>6. q = PutGlyph(p, text[i]) /\ text[i] \in Characters
    BY <2>5 DEF tty_putc, Plain
  <2>7. p.col + 1 < TTY_COLS /\ p.row = t.row /\ p.col = t.col + (i - 1) /\ p.color = t.color /\ Settled(p)
    BY <1>0, <2>3, <2>4
  <2> HIDE DEF p, q
  <2>8. /\ Settled(q) /\ q.color = p.color
        /\ q.row = p.row /\ q.col = p.col + 1
        /\ \A r \in Rows, c \in Cols :
             q.cells[r][c] = IF r = p.row /\ c = p.col THEN [character |-> text[i], color |-> p.color]
                             ELSE p.cells[r][c]
    BY <2>6, <2>7, GlyphSettles DEF Filled
  <2>9. ASSUME NEW r \in Rows, NEW c \in Cols PROVE q.cells[r][c] = Cell(i, r, c)
    <3>1. p.cells[r][c] = Cell(i - 1, r, c)
      BY <2>4 DEF p
    <3>2. q.cells[r][c] = IF r = t.row /\ c = t.col + (i - 1)
                          THEN [character |-> text[i], color |-> t.color] ELSE p.cells[r][c]
      BY <2>7, <2>8
    <3>3. c \in Int /\ i \in Int
      BY <2>3 DEF Cols
    <3>4. CASE r = t.row /\ c = t.col + (i - 1)
      <4>1. c - t.col + 1 = i /\ c \in t.col .. t.col + i - 1
        BY <1>0, <2>3, <3>3, <3>4
      <4> QED BY <3>2, <3>4, <4>1
    <3>5. CASE ~(r = t.row /\ c = t.col + (i - 1))
      <4>1. (r = t.row /\ c \in t.col .. t.col + i - 1) <=> (r = t.row /\ c \in t.col .. t.col + (i - 1) - 1)
        <5>1. r = t.row => c # t.col + (i - 1)
          BY <3>5
        <5>2. c # t.col + (i - 1) => (c \in t.col .. t.col + i - 1 <=> c \in t.col .. t.col + (i - 1) - 1)
          <6>1. \A a, b, d \in Int : d # a + (b - 1) => (d \in a .. a + b - 1 <=> d \in a .. a + (b - 1) - 1)
            OBVIOUS
          <6>2. t.col \in Int
            BY <1>0
          <6> QED BY <3>3, <6>1, <6>2, Zenon
        <5> QED BY <5>1, <5>2
      <4> QED BY <3>1, <3>2, <3>5, <4>1
    <3> QED BY <3>4, <3>5
  <2>10. q.col = t.col + i
    BY <1>0, <2>3, <2>7, <2>8
  <2>11. Good(i)
    BY <2>7, <2>8, <2>9, <2>10 DEF q
  <2> QED BY <2>1, <2>11
<1>4. Good(k)
  <2>1. k \in 0 .. k
    BY <1>0
  <2> QED BY <1>3, <2>1
<1> QED BY <1>4 DEF FillsTo, CellShows

\* A text that ends before the row does.
LEMMA WriteFills ==
  ASSUME NEW t, Settled(t), NEW text \in Seq(Characters), NEW u, u = tty_write(t, text),
         \A i \in 1 .. Len(text) : Plain(text[i]), t.col + Len(text) < TTY_COLS
  PROVE  Fills(t, u, text)
<1>1. PICK w : Shows(w, t, text) /\ tty_write(t, text) = w[Len(text)]
  BY WriteSteps
<1>2. PICK n \in 0 .. Len(text) : n = Len(text)
  OBVIOUS
<1>3. FillsTo(t, w[n], text, n)
  BY <1>1, <1>2, RowFills
<1> QED BY <1>1, <1>2, <1>3 DEF Fills, FillsTo, CellShows

\* A text that ends with the row goes on in the next, or moves all rows up.
Ends(t, u, text) ==
  /\ u.row = (IF t.row + 1 < TTY_ROWS THEN t.row + 1 ELSE t.row) /\ u.col = 0
  /\ \A r \in Rows, c \in Cols :
       u.cells[r][c] = IF t.row + 1 < TTY_ROWS THEN CellShows(t, text, Len(text), r, c)
                       ELSE IF r < TTY_ROWS - 1 THEN CellShows(t, text, Len(text), r + 1, c)
                       ELSE Blank(t.color)

\* Its last character is the one that wraps.
LEMMA WriteEnds ==
  ASSUME NEW t, Settled(t), NEW text \in Seq(Characters), NEW u, u = tty_write(t, text),
         \A i \in 1 .. Len(text) : Plain(text[i]), t.col + Len(text) = TTY_COLS
  PROVE  Ends(t, u, text)
<1>1. PICK w : Shows(w, t, text) /\ tty_write(t, text) = w[Len(text)]
  BY WriteSteps
<1>0. /\ t.row \in Rows /\ t.col \in Cols /\ t.row \in Nat /\ t.col \in Nat /\ t.col < TTY_COLS
      /\ TTY_COLS \in Nat /\ TTY_ROWS \in Nat /\ Len(text) \in Nat
  BY SettledRange
<1>2. PICK n \in 1 .. Len(text) : n = Len(text)
  BY <1>0
<1>3. PICK k \in 0 .. Len(text) : k = n - 1 /\ t.col + k < TTY_COLS /\ t.col + k + 1 = TTY_COLS
  BY <1>0, <1>2
<1>4. PICK p : p = w[k]
  OBVIOUS
<1>5. Settled(p) /\ p.color = t.color /\ FillsTo(t, p, text, k)
  BY <1>1, <1>3, <1>4, RowFills
<1>6. u = tty_putc(p, text[n]) /\ Plain(text[n])
  BY <1>1, <1>2, <1>3, <1>4 DEF Shows
<1>7. u = PutGlyph(p, text[n]) /\ text[n] \in Characters
  BY <1>6 DEF tty_putc, Plain
<1>8. p.col = t.col + k /\ p.row = t.row /\ p.col + 1 >= TTY_COLS
  BY <1>0, <1>3, <1>5 DEF FillsTo
<1>9. Wrapped(p, u, text[n])
  BY <1>5, <1>7, <1>8, GlyphSettles
<1>10. ASSUME NEW r \in Rows, NEW c \in Cols
       PROVE  CellFilled(p, text[n], r, c) = CellShows(t, text, Len(text), r, c)
  <2>1. p.cells[r][c] = CellShows(t, text, k, r, c)
    BY <1>5 DEF FillsTo
  <2>2. c \in Int /\ k \in Int /\ n \in Int
    BY <1>2, <1>3 DEF Cols
  <2>3. CASE r = p.row /\ c = p.col
    <3>1. CellFilled(p, text[n], r, c) = [character |-> text[n], color |-> t.color]
      BY <1>5, <2>3 DEF CellFilled
    <3>2. c - t.col + 1 = n /\ c \in t.col .. t.col + n - 1 /\ r = t.row
      BY <1>0, <1>3, <1>8, <2>2, <2>3
    <3> QED BY <1>2, <3>1, <3>2 DEF CellShows
  <2>4. CASE ~(r = p.row /\ c = p.col)
    <3>1. CellFilled(p, text[n], r, c) = CellShows(t, text, k, r, c)
      BY <2>1, <2>4 DEF CellFilled
    <3>2. (r = t.row /\ c \in t.col .. t.col + n - 1) <=> (r = t.row /\ c \in t.col .. t.col + k - 1)
      <4>1. r = t.row => c # t.col + k
        BY <1>8, <2>4
      <4>2. \A a, b, d, e \in Int : d # a + b /\ b = e - 1 => (d \in a .. a + e - 1 <=> d \in a .. a + b - 1)
        OBVIOUS
      <4>3. t.col \in Int /\ k = n - 1
        BY <1>0, <1>3
      <4> QED BY <2>2, <4>1, <4>2, <4>3, Zenon
    <3> QED BY <1>2, <3>1, <3>2 DEF CellShows
  <2> QED BY <2>3, <2>4
<1>11. ASSUME NEW r \in Rows, r < TTY_ROWS - 1 PROVE r + 1 \in Rows
  BY <1>0, <1>11 DEF Rows
<1> QED BY <1>5, <1>8, <1>9, <1>10, <1>11 DEF Wrapped, Ends

\* The cursor is put at a place, or at the nearest one on the screen.
AtPlace(u, row, col) == (row < TTY_ROWS => u.row = row) /\ (col < TTY_COLS => u.col = col)

\* tty_set_cursor_position leaves the terminal settled, with the same cells.
LEMMA CursorSettles ==
  ASSUME NEW t, Settled(t), NEW row \in Nat, NEW col \in Nat,
         NEW u, u = tty_set_cursor_position(t, row, col)
  PROVE  Settled(u) /\ u.cells = t.cells /\ u.color = t.color /\ AtPlace(u, row, col)
<1>1. PICK a \in Rows, b \in Cols : /\ a = IF row >= TTY_ROWS THEN TTY_ROWS - 1 ELSE row
                                    /\ b = IF col >= TTY_COLS THEN TTY_COLS - 1 ELSE col
  BY TerminalAssumption DEF Rows, Cols
<1>2. u = tty_redraw_cursor(MovedTo(t, a, b))
  BY <1>1 DEF tty_set_cursor_position, MovedTo
<1>3. Settled(u) /\ u.cells = t.cells /\ u.color = t.color /\ u.row = a /\ u.col = b
  BY <1>2, MoveSettles
<1> QED BY <1>1, <1>3, TerminalAssumption DEF AtPlace

\* A cleared screen is settled and blank.
LEMMA ClearSettles ==
  ASSUME NEW t, Settled(t), NEW u, u = tty_clear(t)
  PROVE  Settled(u) /\ u.color = t.color /\ u.cells = [r \in Rows |-> BlankRow(t.color)]
<1> DEFINE cells == [r \in Rows |-> BlankRow(t.color)]
           blank == [t EXCEPT !.cells = cells, !.row = 0, !.col = 0]
           X == (Rows \X Cols) \cup {CURSOR_INVALID}
           D == [Rows -> [Cols -> Glyphs]]
<1>1. t \in Screens /\ t.color \in Colors /\ 0 \in Rows /\ 0 \in Cols
  BY SettledRange, TerminalAssumption DEF Rows, Cols
<1>2. BlankRow(t.color) \in [Cols -> Cells]
  BY <1>1, SpaceIsCharacter DEF BlankRow, Blank, Cells
<1>3. cells \in [Rows -> [Cols -> Cells]]
  BY <1>2
<1>4. u = tty_render_screen(blank)
  BY DEF tty_clear
<1> HIDE DEF cells
<1>5. /\ blank \in [cells : [Rows -> [Cols -> Cells]], row : Rows, col : Cols, color : Colors,
                    overlay : X, drawn : D]
      /\ blank.color = t.color /\ blank.cells = cells
  BY <1>1, <1>3 DEF Screens
<1> HIDE DEF blank, X, D
<1>6. Settled(u) /\ SameCells(blank, u)
  BY <1>4, <1>5, RenderSettles
<1> QED BY <1>5, <1>6 DEF SameCells, cells

\* The terminal starts settled.
LEMMA InitSettles ==
  ASSUME NEW u, u = tty_init(DefaultColor)
  PROVE  /\ Settled(u) /\ u.color = DefaultColor /\ u.row = 0 /\ u.col = 0
         /\ u.cells = [r \in Rows |-> BlankRow(DefaultColor)]
<1> DEFINE cells == [r \in Rows |-> BlankRow(DefaultColor)]
           start == [cells |-> cells, row |-> 0, col |-> 0, color |-> DefaultColor,
                     overlay |-> CURSOR_INVALID, drawn |-> <<>>]
<1>1. DefaultColor \in Colors /\ 0 \in Rows /\ 0 \in Cols
  BY TerminalAssumption DEF Colors, Rows, Cols
<1>2. BlankRow(DefaultColor) \in [Cols -> Cells]
  BY <1>1, SpaceIsCharacter DEF BlankRow, Blank, Cells
<1>3. cells \in [Rows -> [Cols -> Cells]]
  BY <1>2
<1>4. u = tty_render_screen(start)
  BY DEF tty_init
<1> HIDE DEF cells
<1>5. /\ start \in [cells : [Rows -> [Cols -> Cells]], row : Rows, col : Cols, color : Colors,
                    overlay : {CURSOR_INVALID}, drawn : {<<>>}]
      /\ start.color = DefaultColor /\ start.row = 0 /\ start.col = 0 /\ start.cells = cells
  BY <1>1, <1>3
<1> HIDE DEF start
<1>6. Settled(u) /\ SameCells(start, u)
  BY <1>4, <1>5, RenderSettles
<1> QED BY <1>5, <1>6 DEF SameCells, cells

\* A cell is written wherever the cursor is.
LEMMA CellSettles ==
  ASSUME NEW t, Settled(t), NEW row, NEW col, NEW ch \in Characters, NEW color \in Colors,
         NEW u, u = tty_write_cell(t, row, col, ch, color)
  PROVE  Settled(u) /\ u.color = t.color
<1> DEFINE cell == [character |-> ch, color |-> color]
           put == tty_draw_glyph(Put(t, row, col, cell), row, col)
<1>1. CASE ~OnScreen(row, col)
  BY <1>1 DEF tty_write_cell
<1>2. CASE OnScreen(row, col)
  <2>1. t \in Screens /\ Fresh(t) /\ cell \in Cells /\ row \in Rows /\ col \in Cols
    BY <1>2, SettledFresh DEF Settled, Cells, OnScreen
  <2>2. u = IF row = t.row /\ col = t.col THEN tty_redraw_cursor(put) ELSE put
    BY <1>2 DEF tty_write_cell, Put
  <2> HIDE DEF cell
  <2>3. /\ put \in Screens /\ Fresh(put) /\ put.row = t.row /\ put.col = t.col /\ put.color = t.color
        /\ put.overlay = t.overlay
        /\ \A r \in Rows, c \in Cols : put.cells[r][c] = IF r = row /\ c = col THEN cell ELSE t.cells[r][c]
        /\ \A r \in Rows, c \in Cols : put.drawn[r][c] = IF r = row /\ c = col THEN Glyph(cell) ELSE t.drawn[r][c]
    BY <2>1, PutDrawn
  <2> HIDE DEF put
  <2>4. OnScreen(put.row, put.col)
    BY <2>3 DEF Settled
  <2>5. CASE row = t.row /\ col = t.col
    <3>1. Settled(u) /\ SameCells(put, u)
      BY <2>2, <2>3, <2>4, <2>5, RedrawSettles
    <3> QED BY <2>3, <3>1 DEF SameCells
  <2>6. CASE ~(row = t.row /\ col = t.col)
    <3>1. ASSUME NEW r \in Rows, NEW c \in Cols
          PROVE  put.drawn[r][c] = [Glyph(put.cells[r][c]) EXCEPT !.block = (<<r, c>> = <<put.row, put.col>>)]
      <4>1. CASE r = row /\ c = col
        <5>1. (<<r, c>> = <<put.row, put.col>>) = FALSE
          BY <2>3, <2>6, <4>1
        <5>2. put.drawn[r][c] = Glyph(cell) /\ put.cells[r][c] = cell
          BY <2>3, <4>1
        <5>3. Glyph(cell) = [Glyph(cell) EXCEPT !.block = FALSE]
          BY <2>1, GlyphPlain
        <5> QED BY <5>1, <5>2, <5>3
      <4>2. CASE ~(r = row /\ c = col)
        <5>1. put.drawn[r][c] = t.drawn[r][c] /\ put.cells[r][c] = t.cells[r][c]
          BY <2>3, <4>2
        <5>2. t.drawn[r][c] = [Glyph(t.cells[r][c]) EXCEPT !.block = (<<r, c>> = <<t.row, t.col>>)]
          BY DEF Settled, Faithful
        <5> QED BY <2>3, <5>1, <5>2
      <4> QED BY <4>1, <4>2
    <3>2. Faithful(put)
      BY <2>4, <3>1 DEF Faithful
    <3>3. put.overlay = <<put.row, put.col>>
      BY <2>3 DEF Settled
    <3> QED BY <2>2, <2>3, <2>4, <2>6, <3>2, <3>3 DEF Settled
  <2> QED BY <2>5, <2>6
<1> QED BY <1>1, <1>2

\* Steps that each leave a terminal settled do so together.
EachSettles(kind, arg, items, n) ==
  \A i \in 1 .. n : \A s : Settled(s) => Settled(Step(kind, arg, s, items[i]))

\* The terminal is settled behind the last step.
LEMMA StepsSettle ==
  ASSUME NEW kind, NEW arg, NEW t, Settled(t), NEW items, NEW n \in Nat, NEW w,
         Steps(w, kind, arg, t, items, n), EachSettles(kind, arg, items, n)
  PROVE  Settled(w[n])
<1> DEFINE B == {i \in 0 .. n : ~Settled(w[i])}
<1>1. B = {}
  <2> SUFFICES ASSUME B # {} PROVE FALSE
    OBVIOUS
  <2>1. PICK i \in B : \A y \in B : i <= y
    <3>1. B \subseteq Nat
      OBVIOUS
    <3> HIDE DEF B
    <3> QED BY <3>1, LeastNumber
  <2>2. i # 0
    BY <2>1 DEF Steps
  <2>3. i - 1 \in 0 .. n /\ i \in 1 .. n /\ i - 1 \notin B
    BY <2>1, <2>2
  <2>4. Settled(w[i - 1])
    BY <2>3
  <2>5. w[i] = Step(kind, arg, w[i - 1], items[i])
    BY <2>3 DEF Steps
  <2>6. Settled(w[i])
    BY <2>3, <2>4, <2>5 DEF EachSettles
  <2> QED BY <2>1, <2>6
<1>2. n \in 0 .. n
  OBVIOUS
<1> QED BY <1>1, <1>2
=============================================================================
