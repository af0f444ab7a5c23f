------------------------------ MODULE Terminal ------------------------------
(***************************************************************************)
(* The terminal (kernel/drivers/video/tty.c): an array of cells, a cursor, *)
(* and a picture of the cells in video memory with a block drawn over the  *)
(* cell of the cursor.                                                     *)
(*                                                                         *)
(* Every operation of tty.c is an operator from a terminal to a terminal,  *)
(* because callers (the line editor, the pager, the commands) make many of *)
(* them in one step. The pixels of a glyph are abstracted: drawn says      *)
(* which glyph, in which color, a cell of the screen shows, and whether    *)
(* the cursor block is painted over it.                                    *)
(***************************************************************************)
EXTENDS Integers, Sequences, SequencesExt

CONSTANTS
  TTY_ROWS,
  TTY_COLS,
  DefaultColor  \* the color the kernel passes to tty_init

ASSUME TerminalAssumption ==
  TTY_ROWS \in Nat \ {0} /\ TTY_COLS \in Nat \ {0} /\ DefaultColor \in Nat

Rows == 0 .. TTY_ROWS - 1
Cols == 0 .. TTY_COLS - 1

\* The characters tty_putc treats apart. It has no case for the bell, which
\* is a character like any other to it.
Newline == "newline"
Return == "return"
Backspace == "backspace"
Bell == "bell"
NUL == "nul"
Space == " "

CURSOR_INVALID == <<-1, -1>>
Blank(color) == [character |-> Space, color |-> color]
BlankRow(color) == [c \in Cols |-> Blank(color)]

\* What is drawn for a cell: NUL is drawn as a space.
Glyph(cell) == [character |-> IF cell.character = NUL THEN Space ELSE cell.character,
                color |-> cell.color, block |-> FALSE]

OnScreen(row, col) == row \in Rows /\ col \in Cols

tty_draw_glyph(t, row, col) ==
  IF OnScreen(row, col)
  THEN [t EXCEPT !.drawn[row][col] = Glyph(t.cells[row][col])] ELSE t

tty_draw_cursor_block(t, row, col) ==
  IF OnScreen(row, col) THEN [t EXCEPT !.drawn[row][col].block = TRUE] ELSE t

\* Mutation: the cell the cursor leaves is not redrawn.
RedrawKeepsOld(t) ==
  LET moved == [t EXCEPT !.overlay = <<t.row, t.col>>]
      glyph == tty_draw_glyph(moved, t.row, t.col)
  IN  tty_draw_cursor_block(glyph, t.row, t.col)

tty_redraw_cursor(t) ==
  LET old == tty_draw_glyph(t, t.overlay[1], t.overlay[2])
      moved == [old EXCEPT !.overlay = <<t.row, t.col>>]
      glyph == tty_draw_glyph(moved, t.row, t.col)
  IN  tty_draw_cursor_block(glyph, t.row, t.col)

tty_render_screen(t) ==
  tty_redraw_cursor([t EXCEPT
    !.drawn = [r \in Rows |-> [c \in Cols |-> Glyph(t.cells[r][c])]],
    !.overlay = CURSOR_INVALID])

tty_scroll(t) ==
  LET past == t.row - (TTY_ROWS - 1)
      overflow == IF past > TTY_ROWS THEN TTY_ROWS ELSE past
      keep_rows == TTY_ROWS - overflow
  IN  IF t.row < TTY_ROWS THEN t
      ELSE tty_render_screen([t EXCEPT
             !.cells = [r \in Rows |-> IF r < keep_rows THEN t.cells[r + overflow]
                                       ELSE BlankRow(t.color)],
             !.row = TTY_ROWS - 1])

\* The cells are blank and the screen is drawn from them.
tty_init(color) ==
  tty_render_screen([cells |-> [r \in Rows |-> BlankRow(color)], row |-> 0, col |-> 0,
                     color |-> color, overlay |-> CURSOR_INVALID, drawn |-> <<>>])

\* '\b' steps back, to the end of the row above from the first column, and
\* blanks the cell it steps to; in the top left corner it stays.
PutBackspace(t) ==
  LET row == IF t.col = 0 /\ t.row > 0 THEN t.row - 1 ELSE t.row
      col == IF t.col > 0 THEN t.col - 1 ELSE IF t.row > 0 THEN TTY_COLS - 1 ELSE 0
      at == [t EXCEPT !.row = row, !.col = col, !.cells[row][col] = Blank(t.color)]
  IN  tty_redraw_cursor(tty_draw_glyph(at, row, col))

\* Any other character fills the cell of the cursor, which moves on, at the
\* end of a row to the next row.
PutGlyph(t0, ch) ==
  LET t == tty_scroll(t0)
      cell == [character |-> ch, color |-> t.color]
      put == tty_draw_glyph([t EXCEPT !.cells[t.row][t.col] = cell], t.row, t.col)
      wraps == t.col + 1 >= TTY_COLS
      moved == [put EXCEPT !.col = IF wraps THEN 0 ELSE @ + 1,
                           !.row = IF wraps THEN @ + 1 ELSE @]
  IN  tty_redraw_cursor(tty_scroll(moved))

tty_putc(t, ch) ==
  CASE ch = Newline   -> tty_redraw_cursor(tty_scroll([t EXCEPT !.col = 0, !.row = @ + 1]))
    [] ch = Return    -> tty_redraw_cursor([t EXCEPT !.col = 0])
    [] ch = Backspace -> PutBackspace(t)
    [] OTHER          -> PutGlyph(t, ch)

tty_write(t, text) == FoldLeft(tty_putc, t, text)

tty_clear(t) ==
  tty_render_screen([t EXCEPT !.cells = [r \in Rows |-> BlankRow(t.color)],
                              !.row = 0, !.col = 0])

tty_write_cell(t, row, col, ch, color) ==
  LET put == tty_draw_glyph([t EXCEPT !.cells[row][col] = [character |-> ch, color |-> color]],
                            row, col)
  IN  IF ~OnScreen(row, col) THEN t
      ELSE IF row = t.row /\ col = t.col THEN tty_redraw_cursor(put) ELSE put

tty_set_cursor_position(t, row, col) ==
  tty_redraw_cursor([t EXCEPT
    !.row = IF row >= TTY_ROWS THEN TTY_ROWS - 1 ELSE row,
    !.col = IF col >= TTY_COLS THEN TTY_COLS - 1 ELSE col])

\* The screen shows the cells of t, and the cursor block at its cursor.
Faithful(t) ==
  /\ OnScreen(t.row, t.col)
  /\ \A r \in Rows, c \in Cols :
       t.drawn[r][c] = [Glyph(t.cells[r][c]) EXCEPT !.block = (<<r, c>> = <<t.row, t.col>>)]
=============================================================================
