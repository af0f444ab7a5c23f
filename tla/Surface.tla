------------------------------ MODULE Surface ------------------------------
(***************************************************************************)
(* Off-screen surfaces (kernel/drivers/video/term.c): cells in one array,  *)
(* row after row, that are drawn into, scrolled, resized, and flushed to   *)
(* the terminal cell by cell where they differ. Nothing in the kernel uses *)
(* them yet.                                                               *)
(*                                                                         *)
(* Every operation is an operator from a surface to a surface. A write     *)
(* outside the array adds a cell to its domain. What allocates or frees    *)
(* takes the heap as well: the blocks that are live, how often calloc was  *)
(* called, and which call of it finds no memory (0 for none).              *)
(***************************************************************************)
EXTENDS Terminal

CONSTANT WordBits  \* the bits of a size_t

ZeroCell == [character |-> NUL, color |-> 0]
Allocation(total) == [i \in 0 .. total - 1 |-> ZeroCell]
Clamped(n, size) == IF n >= size THEN IF size > 0 THEN size - 1 ELSE 0 ELSE n

term_cell_index(s, row, col) == row * s.cols + col
term_surface_valid_cell(s, row, col) == row < s.rows /\ col < s.cols

\* An assignment to an element of the array, and a memcpy within or between
\* arrays of cells.
Assigned(cells, i, cell) == (i :> cell) @@ cells
Copied(cells, dst, from, src, n) == [i \in dst .. dst + n - 1 |-> from[i - dst + src]] @@ cells

term_surface_clear(s, fill) ==
  [s EXCEPT !.cells = [i \in DOMAIN @ |-> IF i < s.rows * s.cols
                                          THEN [character |-> fill, color |-> s.color] ELSE @[i]]]

NULL == 0

\* The n-th call of calloc returns block n, or NULL.
calloc(heap) ==
  LET n == heap.calls + 1
      fails == n = heap.failing
  IN  [block |-> IF fails THEN NULL ELSE n,
       heap  |-> [heap EXCEPT !.calls = n, !.live = IF fails THEN @ ELSE @ \cup {n}]]
free(heap, block) ==
  [heap EXCEPT !.live = @ \ {block}, !.misfreed = @ \/ block \notin heap.live]

term_surface_destroy(heap, s) ==
  free(IF s.block # NULL THEN free(heap, s.block) ELSE heap, s.self)

term_surface_allocate_cells(heap, s) ==
  LET cells == calloc(heap)
  IN  [heap |-> cells.heap,
       surface |-> [s EXCEPT !.block = cells.block, !.cells = Allocation(s.rows * s.cols)]]

term_surface_create(heap, color) ==
  LET structure == calloc(heap)
      blank == [self |-> structure.block, block |-> NULL, rows |-> TTY_ROWS, cols |-> TTY_COLS,
                cursor_row |-> 0, cursor_col |-> 0, color |-> color, cells |-> Allocation(0)]
      made == term_surface_allocate_cells(structure.heap, blank)
  IN  IF structure.block = NULL THEN [ok |-> FALSE, heap |-> structure.heap]
      ELSE IF made.surface.block = NULL
      THEN [ok |-> FALSE, heap |-> term_surface_destroy(made.heap, made.surface)]
      ELSE [ok |-> TRUE, heap |-> made.heap, surface |-> term_surface_clear(made.surface, Space)]

\* The rows both sizes have are copied from an array of one width to an array
\* of the other. The number of cells is a size_t.
term_surface_resize(heap, s, rows, cols) ==
  LET new == calloc(heap)
      min_rows == IF rows < s.rows THEN rows ELSE s.rows
      min_cols == IF cols < s.cols THEN cols ELSE s.cols
      copy(cells, r) == Copied(cells, r * cols, s.cells, r * s.cols, min_cols)
  IN  IF rows = 0 \/ cols = 0 THEN [ok |-> FALSE, heap |-> heap, surface |-> s]
      ELSE IF new.block = NULL THEN [ok |-> FALSE, heap |-> new.heap, surface |-> s]
      ELSE [ok |-> TRUE, heap |-> free(new.heap, s.block),
            surface |-> [s EXCEPT
              !.block = new.block, !.rows = rows, !.cols = cols,
              !.cursor_row = Clamped(@, rows), !.cursor_col = Clamped(@, cols),
              !.cells = FoldLeft(copy, Allocation((rows * cols) % 2^WordBits),
                                [k \in 1 .. min_rows |-> k - 1])]]

term_surface_set_cursor(s, row, col) ==
  [s EXCEPT !.cursor_row = Clamped(row, s.rows), !.cursor_col = Clamped(col, s.cols)]

term_surface_draw_char(s, row, col, ch, color) ==
  IF ~term_surface_valid_cell(s, row, col) THEN s
  ELSE [s EXCEPT !.cells = Assigned(@, term_cell_index(s, row, col), [character |-> ch, color |-> color])]

\* A newline, or the last column, leads to the column the text started at.
term_surface_write_string(s, row, col, text, color) ==
  LET step(w, ch) ==
        LET wraps == w.col >= s.cols
            r == IF wraps THEN w.row + 1 ELSE w.row
            c == IF wraps THEN col ELSE w.col
        IN  IF w.row >= s.rows THEN w
            ELSE IF ch = Newline THEN [w EXCEPT !.row = @ + 1, !.col = col]
            ELSE IF r >= s.rows THEN [w EXCEPT !.row = r, !.col = c]
            ELSE [surface |-> term_surface_draw_char(w.surface, r, c, ch, color),
                  row |-> r, col |-> c + 1]
  IN  FoldLeft(step, [surface |-> s, row |-> row, col |-> col], text).surface

\* The cells of a rectangle, row after row.
Rectangle(row, col, height, width) ==
  [k \in 1 .. height * width |-> <<row + (k - 1) \div width, col + ((k - 1) % width)>>]

\* Both loops end at the edge of the surface.
term_surface_fill_rect(s, row, col, height, width, ch, color) ==
  LET within(n, size, limit) == IF n >= limit THEN 0 ELSE IF n + size > limit THEN limit - n ELSE size
  IN  FoldLeft(LAMBDA t, rc : term_surface_draw_char(t, rc[1], rc[2], ch, color),
               s, Rectangle(row, col, within(row, height, s.rows), within(col, width, s.cols)))

\* Mutation: the rows of a region that scrolls down are copied from its top.
DownwardForwards(top, bottom, shift) == [k \in 1 .. bottom - top + 1 - shift |-> top + shift + k - 1]

\* The rows of a region that scrolls down are copied from the last one up.
DownwardRows(top, bottom, shift) == [k \in 1 .. bottom - top + 1 - shift |-> bottom - k + 1]

term_surface_scroll_region(s, top_row, bottom_row, delta_rows, fill) ==
  LET bottom == IF bottom_row >= s.rows THEN s.rows - 1 ELSE bottom_row
      height == bottom - top_row + 1
      columns == s.cols
      up == delta_rows > 0
      shift == IF up THEN delta_rows ELSE -delta_rows
      copy(cells, r) == Copied(cells, r * columns, cells,
                               (IF up THEN r + shift ELSE r - shift) * columns, columns)
      moved == IF up THEN [k \in 1 .. height - shift |-> top_row + k - 1]
               ELSE DownwardRows(top_row, bottom, shift)
      vacated == IF shift >= height THEN top_row .. bottom
                 ELSE IF up THEN bottom + 1 - shift .. bottom ELSE top_row .. top_row + shift - 1
      scrolled == FoldLeft(copy, s.cells, moved)
  IN  IF top_row >= s.rows \/ bottom <= top_row \/ shift = 0 THEN s
      ELSE [s EXCEPT !.cells =
             [i \in {term_cell_index(s, r, c) : r \in vacated, c \in 0 .. columns - 1} |->
                [character |-> fill, color |-> s.color]] @@ scrolled]

tty_get_cell(t, row, col) == IF OnScreen(row, col) THEN t.cells[row][col] ELSE ZeroCell

\* The end of the region is a size_t, before it is clamped.
term_surface_flush_region(t, s, row, col, height, width) ==
  LET end(n, size, limit) ==
        LET sum == (n + size) % 2^WordBits IN IF sum > limit THEN limit ELSE sum
      size(from, to) == IF to > from THEN to - from ELSE 0
      region == Rectangle(row, col, size(row, end(row, height, s.rows)), size(col, end(col, width, s.cols)))
      put(u, rc) ==
        LET cell == s.cells[term_cell_index(s, rc[1], rc[2])]
        IN  IF tty_get_cell(u, rc[1], rc[2]) = cell THEN u
            ELSE tty_write_cell(u, rc[1], rc[2], cell.character, cell.color)
  IN  FoldLeft(put, t, region)

term_surface_flush(t, s) ==
  tty_set_cursor_position(term_surface_flush_region(t, s, 0, 0, s.rows, s.cols),
                          s.cursor_row, s.cursor_col)

-----------------------------------------------------------------------------
(* What the operations are to do, cell by cell.                            *)

CellsOf(s) == (0 .. s.rows - 1) \X (0 .. s.cols - 1)
CellAt(s, rc) == s.cells[rc[1] * s.cols + rc[2]]

\* The array is as large as the surface, and the cursor is on it.
WellFormed(s) ==
  /\ DOMAIN s.cells = 0 .. s.rows * s.cols - 1
  /\ <<s.cursor_row, s.cursor_col>> \in CellsOf(s)

\* A surface of the size of s with these cells.
Becomes(s, u, cell(_)) ==
  /\ WellFormed(u)
  /\ \A rc \in CellsOf(u) : CellAt(u, rc) = cell(rc)
  /\ [u EXCEPT !.cells = s.cells] = s

\* Where character k of a text goes: a line is laid out over rows of width
\* cells, of which even an empty line takes one.
PlaceOf(text, k, width) ==
  LET newlines == {n \in 1 .. k - 1 : text[n] = Newline}
      start(n) == Max({0} \cup {m \in newlines : m < n})
      chars(n) == n - start(n) - 1
      height(n) == IF chars(n) = 0 THEN 1 ELSE (chars(n) + width - 1) \div width
  IN  <<MapThenSumSet(height, newlines) + chars(k) \div width, chars(k) % width>>

WritesText(s, row, col, text, color) ==
  LET width == s.cols - col
      drawn(rc) == {k \in 1 .. Len(text) : /\ text[k] # Newline
                                           /\ <<rc[1] - row, rc[2] - col>> = PlaceOf(text, k, width)}
      cell(rc) == IF width > 0 /\ drawn(rc) # {}
                  THEN [character |-> text[CHOOSE k \in drawn(rc) : TRUE], color |-> color]
                  ELSE CellAt(s, rc)
  IN  Becomes(s, term_surface_write_string(s, row, col, text, color), cell)

FillsRect(s, row, col, height, width, ch, color) ==
  LET inside(rc) == rc[1] \in row .. row + height - 1 /\ rc[2] \in col .. col + width - 1
      cell(rc) == IF inside(rc) THEN [character |-> ch, color |-> color] ELSE CellAt(s, rc)
  IN  Becomes(s, term_surface_fill_rect(s, row, col, height, width, ch, color), cell)

\* The cells of s after the rows of a region have moved up by delta.
RegionMoved(s, top, bottom, delta, fill, rc) ==
  IF rc[1] \notin top .. bottom THEN CellAt(s, rc)
  ELSE IF rc[1] + delta \in top .. (IF bottom < s.rows THEN bottom ELSE s.rows - 1)
  THEN CellAt(s, <<rc[1] + delta, rc[2]>>)
  ELSE [character |-> fill, color |-> s.color]

\* For a region of one row see OneRowScrolls (TextFunctions): only what is
\* outside it is said here.
ScrollsRegion(s, top, bottom, delta, fill) ==
  LET u == term_surface_scroll_region(s, top, bottom, delta, fill)
      one == top = bottom \/ top = s.rows - 1
      cell(rc) == IF one /\ rc[1] = top THEN CellAt(u, rc)
                  ELSE RegionMoved(s, top, bottom, delta, fill, rc)
  IN  Becomes(s, u, cell)

\* What is live is the structure of s and its cells, and no block was freed
\* that was not live.
Owns(heap, s) == /\ heap.live = {s.self, s.block} /\ NULL \notin heap.live
                 /\ s.self # s.block /\ ~heap.misfreed

\* A surface that is made owns its two blocks and gives both back; one that is
\* not made, because either calloc failed, leaves none.
Creates(failing, color) ==
  LET start == [live |-> {}, calls |-> 0, failing |-> failing, misfreed |-> FALSE]
      r == term_surface_create(start, color)
      after == IF r.ok THEN term_surface_destroy(r.heap, r.surface) ELSE r.heap
  IN  /\ r.ok <=> failing \notin 1 .. 2
      /\ r.ok => /\ Owns(r.heap, r.surface) /\ WellFormed(r.surface)
                 /\ \A rc \in CellsOf(r.surface) :
                      CellAt(r.surface, rc) = [character |-> Space, color |-> color]
      /\ after.live = {} /\ ~after.misfreed

\* What both sizes have stays; without memory, or for no size, all of it. The
\* surface owns one array afterwards, the new one or the old.
Resizes(s, rows, cols, fits) ==
  LET start == [live |-> {s.self, s.block}, calls |-> s.block,
                failing |-> IF fits THEN 0 ELSE s.block + 1, misfreed |-> FALSE]
      r == term_surface_resize(start, s, rows, cols)
      u == r.surface
  IN  /\ r.ok <=> rows > 0 /\ cols > 0 /\ fits
      /\ Owns(r.heap, u) /\ u.self = s.self
      /\ ~r.ok => u = s
      /\ r.ok => /\ WellFormed(u) /\ <<u.rows, u.cols>> = <<rows, cols>>
                 /\ \A rc \in CellsOf(u) :
                      CellAt(u, rc) = IF rc \in CellsOf(s) THEN CellAt(s, rc) ELSE ZeroCell

\* The terminal shows the region where both have cells, is otherwise as it
\* was, and its screen shows its cells.
FlushesRegion(t, s, row, col, height, width) ==
  LET u == term_surface_flush_region(t, s, row, col, height, width)
      inside(r, c) == /\ <<r, c>> \in CellsOf(s)
                      /\ r \in row .. row + height - 1 /\ c \in col .. col + width - 1
  IN  /\ Faithful(u) /\ <<u.row, u.col>> = <<t.row, t.col>>
      /\ \A r \in Rows, c \in Cols :
           u.cells[r][c] = IF inside(r, c) THEN CellAt(s, <<r, c>>) ELSE t.cells[r][c]

Flushes(t, s) ==
  LET u == term_surface_flush(t, s)
  IN  /\ Faithful(u) /\ <<u.row, u.col>> = <<Clamped(s.cursor_row, TTY_ROWS), Clamped(s.cursor_col, TTY_COLS)>>
      /\ \A r \in Rows, c \in Cols :
           u.cells[r][c] = IF <<r, c>> \in CellsOf(s) THEN CellAt(s, <<r, c>>) ELSE t.cells[r][c]
=============================================================================
