------------------------------- MODULE Pager -------------------------------
(***************************************************************************)
(* The pager (kernel/shell/commands/less.c) over the terminal: it loads a  *)
(* file in chunks or copies piped input, splits it into lines in place,    *)
(* and shows a page at a time until a key or Ctrl-C ends it.               *)
(*                                                                         *)
(* A character is a string. The status line is one that kvprintf makes of  *)
(* a format with "%zu", which it has no case for: the numbers it should    *)
(* report are not in it (TextFunctions, StatusReports), so the line        *)
(* depends on the label only. Messages about errors are left out.          *)
(***************************************************************************)
EXTENDS Terminal

CONSTANTS
  Documents,        \* the texts that are paged
  LESS_READ_CHUNK,
  StatusLens,       \* how long labels make the status line, before it is cut or padded
  Keys              \* the characters the keyboard sends

ASSUME PagerAssumption ==
  /\ LESS_READ_CHUNK \in Nat \ {0} /\ StatusLens \subseteq Nat
  /\ Documents \subseteq Seq(STRING)

VARIABLES
  screen,    \* the terminal
  pc,        \* where less_handler is; "idle": the shell waits for a line
  source,    \* the text of the file or of the pipe
  label,     \* the length of the status line with the label of the text
  offset,    \* how much less_load_file has read, or less_prepare_lines split
  data,      \* the bytes of the buffer, its terminator the last
  lines,     \* the offsets in data at which lines start
  top_line,
  running,
  stop,      \* shell_interrupt_requested
  blocks     \* the blocks of the heap that are allocated, by what they hold

pagerVars == <<screen, pc, source, label, offset, data, lines, top_line, running, stop, blocks>>

CtrlC == "ctrl-c"
Up == "up"
Down == "down"

length == Len(data) - 1
total_rows == TTY_ROWS
viewport_rows == IF total_rows > 1 THEN total_rows - 1 ELSE total_rows
status_row == IF total_rows > viewport_rows THEN viewport_rows ELSE viewport_rows - 1
max_start == IF Len(lines) > viewport_rows THEN Len(lines) - viewport_rows ELSE 0

Allocated(b) == blocks' = [blocks EXCEPT ![b] = @ + 1]
Freed(bs) == blocks' = [b \in DOMAIN blocks |-> IF b \in bs THEN blocks[b] - 1 ELSE blocks[b]]

\* less_handler returns; its locals are gone.
Returns ==
  /\ pc' = "idle"
  /\ source' = <<>> /\ label' = 0 /\ offset' = 0 /\ data' = <<>> /\ lines' = <<>>
  /\ top_line' = 0 /\ running' = FALSE

-----------------------------------------------------------------------------
(* Loading.                                                                *)

\* shell_run clears the interrupt, and then the user types the line that runs
\* less: a Ctrl-C while it is typed is still there when less starts.
ShellPrompts ==
  /\ pc = "idle"
  /\ stop' = FALSE
  /\ pc' = "line"
  /\ UNCHANGED <<screen, source, label, offset, data, lines, top_line, running, blocks>>

\* A path that cannot be resolved, names nothing or names a directory, or no
\* path and no input: nothing was allocated yet.
Refused ==
  /\ pc = "line"
  /\ pc' = "idle"
  /\ UNCHANGED <<screen, source, label, offset, data, lines, top_line, running, stop, blocks>>

\* The head of less_load_file. malloc may fail.
OpenFile ==
  /\ pc = "line"
  /\ \/ /\ source' \in Documents /\ label' \in StatusLens
        /\ pc' = "load" /\ Allocated("data")
     \/ pc' = "idle" /\ UNCHANGED <<source, label, blocks>>
  /\ UNCHANGED <<screen, offset, data, lines, top_line, running, stop>>

\* Input of length 0 counts as none.
less_copy_input ==
  /\ pc = "line"
  /\ \/ /\ source' \in Documents \ {<<>>} /\ label' \in StatusLens
        /\ data' = Append(source', NUL)
        /\ pc' = "prepare" /\ Allocated("data")
     \/ pc' = "idle" /\ UNCHANGED <<source, label, data, blocks>>
  /\ UNCHANGED <<screen, offset, lines, top_line, running, stop>>

Chunk == IF Len(source) - offset > LESS_READ_CHUNK THEN LESS_READ_CHUNK
         ELSE Len(source) - offset

\* One call of fs_read, which reads all it is asked for or fails.
less_load_file ==
  /\ pc = "load"
  /\ \/ /\ offset < Len(source)
        /\ data' = data \o SubSeq(source, offset + 1, offset + Chunk)
        /\ offset' = offset + Chunk
        /\ UNCHANGED <<pc, source, label, lines, top_line, running, blocks>>
     \/ /\ offset < Len(source)
        /\ Freed({"data"})
        /\ Returns
     \/ /\ offset >= Len(source)
        /\ data' = Append(data, NUL)
        /\ pc' = "prepare"
        /\ UNCHANGED <<source, label, offset, lines, top_line, running, blocks>>
  /\ UNCHANGED <<screen, stop>>

-----------------------------------------------------------------------------
(* Lines.                                                                  *)

\* Mutation: the buffer is kept when there is no memory for the lines.
PrepareKeepsData ==
  /\ pc = "prepare"
  /\ \/ /\ Allocated("lines")
        /\ lines' = <<0>> /\ offset' = 0 /\ pc' = "split"
        /\ UNCHANGED <<source, label, data, top_line, running>>
     \/ Freed({}) /\ Returns
  /\ UNCHANGED <<screen, stop>>

\* A line starts at 0. When there is no memory for the array of lines,
\* less_handler frees the text.
less_prepare_lines ==
  /\ pc = "prepare"
  /\ \/ /\ Allocated("lines")
        /\ lines' = <<0>> /\ offset' = 0 /\ pc' = "split"
        /\ UNCHANGED <<source, label, data, top_line, running>>
     \/ Freed({"data"}) /\ Returns
  /\ UNCHANGED <<screen, stop>>

\* Mutation: a newline at the end of the text starts no line.
SplitsWithoutLast ==
  /\ pc = "split" /\ offset < length
  /\ data' = [data EXCEPT ![offset + 1] = IF @ \in {Newline, Return} THEN NUL ELSE @]
  /\ lines' = IF data[offset + 1] = Newline /\ offset + 1 < length
              THEN Append(lines, offset + 1) ELSE lines
  /\ offset' = offset + 1
  /\ UNCHANGED <<screen, pc, source, label, top_line, running, stop, blocks>>

\* One turn of its loop: carriage returns and newlines become terminators, and
\* a line starts behind every newline, also one at the end.
Splits ==
  /\ pc = "split" /\ offset < length
  /\ data' = [data EXCEPT ![offset + 1] = IF @ \in {Newline, Return} THEN NUL ELSE @]
  /\ lines' = IF data[offset + 1] = Newline THEN Append(lines, offset + 1) ELSE lines
  /\ offset' = offset + 1
  /\ UNCHANGED <<screen, pc, source, label, top_line, running, stop, blocks>>

\* All is split, and less_view_document begins.
ViewBegins ==
  /\ pc = "split" /\ offset >= length
  /\ top_line' = 0 /\ running' = TRUE /\ pc' = "view"
  /\ UNCHANGED <<screen, source, label, offset, data, lines, stop, blocks>>

-----------------------------------------------------------------------------
(* Viewing.                                                                *)

Limited(s, n) == SubSeq(s, 1, IF Len(s) < n THEN Len(s) ELSE n)

\* The string that starts at an offset of data: up to the next terminator.
StringAt(o) == SubSeq(data, o + 1, Min({i \in o + 1 .. Len(data) : data[i] = NUL}) - 1)

\* The status line, cut at the width of the screen: as many characters as
\* the label makes it, none of which depends on the page.
Status == Limited([i \in 1 .. label |-> "s"], TTY_COLS)

\* Mutation: the last line of the page is left out.
RenderShort(t, top) ==
  LET row(s, r) == IF top + r < Len(lines)
                   THEN tty_write(tty_set_cursor_position(s, r, 0),
                                  Limited(StringAt(lines[top + r + 1]), TTY_COLS))
                   ELSE tty_set_cursor_position(s, r, 0)
      page == FoldLeft(row, tty_clear(t), [r \in 1 .. viewport_rows - 1 |-> r - 1])
      line == tty_write(tty_set_cursor_position(page, status_row, 0), Status)
  IN  tty_write(line, [i \in 1 .. TTY_COLS - Len(Status) |-> Space])

less_render_page(t, top) ==
  LET row(s, r) == IF top + r < Len(lines)
                   THEN tty_write(tty_set_cursor_position(s, r, 0),
                                  Limited(StringAt(lines[top + r + 1]), TTY_COLS))
                   ELSE tty_set_cursor_position(s, r, 0)
      page == FoldLeft(row, tty_clear(t), [r \in 1 .. viewport_rows |-> r - 1])
      line == tty_write(tty_set_cursor_position(page, status_row, 0), Status)
  IN  tty_write(line, [i \in 1 .. TTY_COLS - Len(Status) |-> Space])

\* The head of the loop of less_view_document.
ShowPage ==
  /\ pc = "view"
  /\ IF stop \/ ~running
     THEN pc' = "exit" /\ UNCHANGED <<screen, top_line>>
     ELSE LET top == IF top_line > max_start THEN max_start ELSE top_line
          IN  /\ top_line' = top
              /\ screen' = less_render_page(screen, top)
              /\ pc' = "wait"
  /\ UNCHANGED <<source, label, offset, data, lines, running, stop, blocks>>

\* Mutation: the wait for a key does not look at the interrupt.
WaitDeaf ==
  /\ pc = "wait"
  /\ pc' = "poll"
  /\ UNCHANGED <<screen, source, label, offset, data, lines, top_line, running, stop, blocks>>

\* less_wait_key looks at the interrupt and then polls the keyboard once. A
\* stop returns 0, which no key handler takes.
less_wait_key ==
  /\ pc = "wait"
  /\ pc' = IF stop THEN "view" ELSE "poll"
  /\ UNCHANGED <<screen, source, label, offset, data, lines, top_line, running, stop, blocks>>

NoKey ==
  /\ pc = "poll"
  /\ pc' = "wait"
  /\ UNCHANGED <<screen, source, label, offset, data, lines, top_line, running, stop, blocks>>

PageDown(top) ==
  top + (IF viewport_rows > max_start - top THEN max_start - top ELSE viewport_rows)
PageUp(top) == IF top > viewport_rows THEN top - viewport_rows ELSE 0

\* A key arrives in the poll. Polling Ctrl-C also requests the interrupt.
less_view_document(key) ==
  /\ pc = "poll"
  /\ stop' = (stop \/ key = CtrlC)
  /\ pc' = IF key = CtrlC THEN "exit" ELSE "view"
  /\ top_line' = CASE key = " " /\ top_line < max_start -> PageDown(top_line)
                   [] key = Down /\ top_line < max_start -> top_line + 1
                   [] key = Up /\ top_line > 0 -> top_line - 1
                   [] key = "b" /\ top_line > 0 -> PageUp(top_line)
                   [] OTHER -> top_line
  /\ running' = ~(key = "q" \/ (key = " " /\ top_line >= max_start))
  /\ UNCHANGED <<screen, source, label, offset, data, lines, blocks>>

\* The screen is cleared and less_handler frees both blocks.
Quit ==
  /\ pc = "exit"
  /\ screen' = tty_clear(screen)
  /\ Freed({"data", "lines"})
  /\ Returns
  /\ UNCHANGED stop

\* The interrupt of the keyboard brings a Ctrl-C at any time.
Interrupt ==
  /\ ~stop /\ stop' = TRUE
  /\ UNCHANGED <<screen, pc, source, label, offset, data, lines, top_line, running, blocks>>

PagerInit ==
  /\ screen = tty_init(DefaultColor)
  /\ pc = "idle" /\ source = <<>> /\ label = 0 /\ offset = 0 /\ data = <<>> /\ lines = <<>>
  /\ top_line = 0 /\ running = FALSE /\ stop = FALSE
  /\ blocks = [b \in {"data", "lines"} |-> 0]

\* What the processor does next, whether or not a key has come.
Thread ==
  \/ ShellPrompts \/ less_load_file \/ less_prepare_lines \/ Splits \/ ViewBegins
  \/ ShowPage \/ less_wait_key \/ NoKey \/ Quit
  \/ \E key \in Keys : less_view_document(key)

PagerNext == Refused \/ OpenFile \/ less_copy_input \/ Thread \/ Interrupt

\* The kernel has one thread, and it never blocks: the wait for a key polls.
\* This is weak fairness of Thread, with its enabledness spelled out: only
\* the line that runs less has to come from the user.
Fairness == []<>(pc = "line") \/ []<><<Thread>>_pagerVars

PagerSpec == PagerInit /\ [][PagerNext]_pagerVars

PagerFairSpec == PagerSpec /\ Fairness

-----------------------------------------------------------------------------
(* Properties.                                                             *)

Viewing == pc \in {"view", "wait", "poll", "exit"}

\* The types; the page begins at a line of the text, never behind the last
\* full page, whatever keys moved it (less_view_document).
PagerTypeOK ==
  /\ pc \in {"idle", "line", "load", "prepare", "split", "view", "wait", "poll", "exit"}
  /\ stop \in BOOLEAN /\ running \in BOOLEAN
  /\ Viewing => top_line \in 0 .. max_start

\* Both blocks are freed once on every path out of less_handler: a failed
\* read, no memory for the lines, a key, Ctrl-C. Outside the pager nothing is
\* held, and nothing was freed twice.
BlocksBalanced ==
  /\ blocks["data"] = IF Viewing \/ pc \in {"load", "prepare", "split"} THEN 1 ELSE 0
  /\ blocks["lines"] = IF Viewing \/ pc = "split" THEN 1 ELSE 0

\* The line of a text that starts at an offset: up to a newline, a carriage
\* return or a terminator of its own, or to the end.
LineOf(text, o) ==
  LET ends == {i \in o + 1 .. Len(text) : text[i] \in {Newline, Return, NUL}}
  IN  SubSeq(text, o + 1, Min(ends \cup {Len(text) + 1}) - 1)

\* Reading in chunks and splitting in place finds the lines of the text, each
\* whole, in order and once, within the array allocated for them
\* (less_load_file, less_prepare_lines).
LinesExact ==
  Viewing =>
    /\ Range(lines) = {0} \cup {i \in 1 .. Len(source) : source[i] = Newline}
    /\ \A j, k \in 1 .. Len(lines) : j < k => lines[j] < lines[k]
    /\ \A k \in 1 .. Len(lines) : StringAt(lines[k]) = LineOf(source, lines[k])
    /\ Len(lines) <= (IF length = 0 THEN 1 ELSE length) + 1

Padded(s) == [c \in Cols |-> IF c < Len(s) THEN s[c + 1] ELSE Space]
RowShows(r, s) == \A c \in Cols : screen.cells[r][c].character = Padded(s)[c]
LineText(i) == IF i < Len(lines) THEN Limited(StringAt(lines[i + 1]), TTY_COLS) ELSE <<>>

\* While a key is awaited the screen shows the lines of the page in order,
\* ending with the last one, directly above the status line, and nothing
\* below it; the status line is on its row or, as the terminal has scrolled
\* when it filled the row, on the one above, so at most one line is lost at
\* the top; the page is within the text (less_view_document,
\* less_render_page, and the wrapping and scrolling of the terminal).
PageConsecutive ==
  /\ PagerTypeOK
  /\ pc \in {"wait", "poll"} =>
       \E s \in Rows :
         /\ s + 1 >= status_row /\ RowShows(s, Status)
         /\ \A r \in 0 .. s - 1 : RowShows(r, LineText(top_line + viewport_rows - (s - r)))
         /\ \A r \in s + 1 .. TTY_ROWS - 1 : RowShows(r, <<>>)

\* A Ctrl-C, from the interrupt or from the poll, ends the pager whatever it
\* is doing: loading, drawing, or between the look at the interrupt and the
\* poll of the keyboard (less_wait_key, less_view_document).
CtrlCEndsPager == stop ~> pc \in {"idle", "line"}

\* The comment of less_render_page: it "writes up to `viewport_rows` lines
\* starting at `top_line` [...] and then writes a status line at `status_row`".
PageShown ==
  pc \in {"wait", "poll"} =>
    /\ RowShows(status_row, Status)
    /\ \A r \in 0 .. viewport_rows - 1 : RowShows(r, LineText(top_line + r))
=============================================================================
