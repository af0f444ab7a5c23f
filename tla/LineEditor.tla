----------------------------- MODULE LineEditor -----------------------------
(***************************************************************************)
(* The line editor of the shell (kernel/shell/shell.c: read_line, the      *)
(* history ring, Tab completion) over the terminal. One action is one key; *)
(* between two lines a command of the shell writes to the same terminal.   *)
(*                                                                         *)
(* buffer is the array the caller passes to read_line: its bytes behind    *)
(* len are not initialised, and Junk marks the ones nothing may depend on. *)
(***************************************************************************)
EXTENDS Terminal, FiniteSets

CONSTANTS
  Letters,       \* the characters typed into a line
  Prompt,        \* the working directory and "@lux >"
  CAPACITY,      \* INPUT_BUFFER_SIZE
  HISTORY_SIZE,
  Commands,      \* the names of the builtin commands, in their order
  Outputs,       \* what commands write to the terminal
  NoiseColor,    \* a color of noise's palette
  MaxKeys        \* bound: the keys typed in a behaviour

\* What marks a byte of the buffer that nothing has written.
Junk == "junk"

\* The characters that are no part of a line, a name or the prompt: read_line
\* and tty_putc treat them apart.
Controls == {Newline, Return, Backspace, NUL, Junk}

ASSUME EditorAssumption ==
  /\ CAPACITY \in Nat \ {0} /\ HISTORY_SIZE \in Nat \ {0}
  /\ MaxKeys \in Nat /\ NoiseColor \in Nat

\* A character is a string. What is typed, the prompt and the names are
\* without control characters, the table of commands is not empty and lists
\* none twice.
ASSUME TextAssumption ==
  /\ Letters \subseteq STRING /\ Prompt \in Seq(STRING)
  /\ Commands \in Seq(Seq(STRING)) /\ Outputs \subseteq Seq(STRING)
  /\ Letters \cap Controls = {} /\ Range(Prompt) \cap Controls = {}
  /\ \A name \in Range(Commands) : Range(name) \cap Controls = {}
  /\ Commands # <<>> /\ IsInjective(Commands)

VARIABLES
  tty,                  \* the terminal
  at,                   \* "read": in read_line; "run" and "noise": in a command
  buffer, len, cursor_pos,
  history_offset,       \* -1: the line being written
  saved_current, saved_current_valid,
  history, history_head, history_count,
  keys,                 \* the number of keys typed
  seen                  \* history variable: see Shown and Remains

edit == <<buffer, len, cursor_pos>>
browse == <<history_offset, saved_current, saved_current_valid>>
ring == <<history, history_head, history_count>>
vars == <<tty, at, edit, browse, ring, keys, seen>>

Index == 0 .. CAPACITY - 1
Text(b, n) == [i \in 1 .. n |-> b[i - 1]]
NullTerminated(b, n) == [b EXCEPT ![n] = NUL]

\* dst, src and n count bytes of the same array.
memmove(b, dst, src, n) ==
  [i \in Index |-> IF i \in dst .. dst + n - 1 THEN b[i - dst + src] ELSE b[i]]
memcpy(b, dst, text) ==
  [i \in Index |-> IF i \in dst .. dst + Len(text) - 1 THEN text[i - dst + 1] ELSE b[i]]

FirstChars(s, n) == SubSeq(s, 1, IF Len(s) < n THEN Len(s) ELSE n)

-----------------------------------------------------------------------------
(* The prompt line.                                                        *)

redraw_prompt_with_buffer(t, b, n) == tty_write(t, Prompt \o Text(b, n))

\* Mutation: the end of a line that was longer is left on the screen.
RefreshKeepsEnd(t, b, n, previous_len, pos) ==
  LET start == tty_set_cursor_position(t, t.row, 0)
      line == redraw_prompt_with_buffer(start, b, n)
  IN  tty_set_cursor_position(line, t.row, Len(Prompt) + pos)

\* The line is written again from the first column of the row the cursor is
\* on, followed by spaces over what a longer line left.
refresh_prompt_line(t, b, n, previous_len, pos) ==
  LET start == tty_set_cursor_position(t, t.row, 0)
      line == redraw_prompt_with_buffer(start, b, n)
      clear == tty_write(line, [i \in 1 .. previous_len - n |-> Space])
  IN  tty_set_cursor_position(clear, t.row, Len(Prompt) + pos)

\* The row has room for what the refresh writes and for the cursor behind it.
Fits(n, previous_len) ==
  Len(Prompt) + (IF previous_len > n THEN previous_len ELSE n) < TTY_COLS

Refreshes(b, n, previous_len, pos) ==
  /\ tty' = refresh_prompt_line(tty, b, n, previous_len, pos)
  /\ seen' = [fits |-> Fits(n, previous_len),
              clean |-> seen.clean /\ Fits(n, previous_len)]

\* '\a' is written to the terminal, which draws it like any character.
Rings ==
  /\ tty' = tty_putc(tty, Bell)
  /\ seen' = [fits |-> FALSE, clean |-> FALSE]
  /\ UNCHANGED <<at, edit, browse, ring>>

\* A row has room for the prompt, which is as long as the working directory.
PromptFits == Len(Prompt) < TTY_COLS

\* shell_run writes the prompt where the cursor is and calls read_line.
NewPrompt(t) ==
  /\ at' = "read"
  /\ tty' = tty_write(t, Prompt)
  /\ seen' = [fits |-> PromptFits /\ t.col = 0,
              clean |-> PromptFits /\ t.col = 0 /\ t.cells[t.row] = BlankRow(t.color)]
  /\ buffer' = [i \in Index |-> Junk]
  /\ len' = 0 /\ cursor_pos' = 0
  /\ history_offset' = -1 /\ saved_current' = <<>> /\ saved_current_valid' = FALSE

-----------------------------------------------------------------------------
(* The history ring.                                                       *)

HasContent(line) == \E i \in 1 .. Len(line) : line[i] \notin {Space, "tab"}

history_add(line) ==
  IF HasContent(line)
  THEN /\ history' = [history EXCEPT ![history_head] = FirstChars(line, CAPACITY - 1)]
       /\ history_head' = (history_head + 1) % HISTORY_SIZE
       /\ history_count' = IF history_count < HISTORY_SIZE THEN history_count + 1
                           ELSE history_count
  ELSE UNCHANGED ring

\* Mutation: the index is taken from the head and not from the slot before it.
GetFromHead(offset) == history[(history_head + HISTORY_SIZE - offset) % HISTORY_SIZE]

\* Callers ask for an offset below history_count.
history_get(offset) == history[(history_head + HISTORY_SIZE - 1 - offset) % HISTORY_SIZE]

\* The buffer becomes text, with the cursor behind it.
replace_buffer_with_text(text) ==
  LET copy == FirstChars(text, CAPACITY - 1)
      n == Len(copy)
  IN  /\ buffer' = NullTerminated(memcpy(buffer, 0, copy), n)
      /\ len' = n /\ cursor_pos' = n
      /\ Refreshes(buffer', n, len, n)
      /\ UNCHANGED at

-----------------------------------------------------------------------------
(* Tab completion.                                                         *)

command_matches_prefix(name, prefix) ==
  /\ Len(prefix) <= Len(name)
  /\ \A i \in 1 .. Len(prefix) : name[i] = prefix[i]

common_prefix_len(a, b) ==
  Max({n \in 0 .. Min({Len(a), Len(b)}) : \A i \in 1 .. n : a[i] = b[i]})

\* The indices of the commands whose names begin with the line, and the name
\* of the first of them.
Matches(line) == {i \in 1 .. Len(Commands) : command_matches_prefix(Commands[i], line)}
FirstName(found) == Commands[Min(found)]

ListName(t, name, line) ==
  IF command_matches_prefix(name, line) THEN tty_write(t, Append(name, Newline)) ELSE t

list_matches(t, b, n) ==
  LET line == Text(b, n)
      listed == FoldLeft(LAMBDA s, name : ListName(s, name, line), tty_putc(t, Newline), Commands)
  IN  redraw_prompt_with_buffer(listed, b, n)

\* The names found are compared with the first of them; what it shares with
\* all of them is appended, as far as there is room.
Appended(found, prefix_len) ==
  LET first_name == FirstName(found)
      shared_len == Min({common_prefix_len(first_name, Commands[i]) : i \in found})
      room == CAPACITY - 1 - prefix_len
      to_add == IF shared_len > prefix_len THEN Min({shared_len - prefix_len, room}) ELSE 0
  IN  SubSeq(first_name, prefix_len + 1, prefix_len + to_add)

\* A space closes a name that is complete and the only one.
CompletionText(found, prefix_len) ==
  LET appended == Appended(found, prefix_len)
      n == prefix_len + Len(appended)
  IN  IF Cardinality(found) = 1 /\ n = Len(FirstName(found)) /\ n + 1 < CAPACITY
      THEN Append(appended, Space) ELSE appended

\* The terminal, buffer and length after Tab; own is whether the row still
\* shows nothing but the line. cursor_pos stays what it was.
handle_tab_completion(t, b, n, pos) ==
  LET line == Text(b, n)
      found == Matches(line)
      text == CompletionText(found, n)
      grown == memcpy(b, n, text)
      result(u, buf, m, own) == [tty |-> u, buffer |-> buf, len |-> m, own |-> own]
  IN  CASE n = 0 -> result(list_matches(t, b, n), b, n, FALSE)
        [] n # 0 /\ (Space \in Range(line) \/ pos # n \/ found = {}) ->
             result(tty_putc(t, Bell), b, n, FALSE)
        [] OTHER ->
             IF text = <<>> /\ Cardinality(found) > 1
             THEN result(list_matches(t, b, n), b, n, FALSE)
             ELSE IF text = <<>> THEN result(t, b, n, TRUE)
             ELSE result(tty_write(t, text), NullTerminated(grown, n + Len(text)),
                         n + Len(text), TRUE)

-----------------------------------------------------------------------------
(* The keys.                                                               *)

KeyTyped == at = "read" /\ keys < MaxKeys /\ keys' = keys + 1

\* A change of the text leaves the history.
LeavesHistory == history_offset' = -1 /\ saved_current_valid' = FALSE /\ UNCHANGED saved_current

TypeChar(c) ==
  /\ KeyTyped
  /\ IF len + 1 >= CAPACITY THEN Rings
     ELSE /\ buffer' = [memmove(buffer, cursor_pos + 1, cursor_pos, len - cursor_pos + 1)
                          EXCEPT ![cursor_pos] = c]
          /\ cursor_pos' = cursor_pos + 1 /\ len' = len + 1
          /\ LeavesHistory
          /\ Refreshes(buffer', len + 1, len, cursor_pos + 1)
          /\ UNCHANGED <<at, ring>>

BackspaceKey ==
  /\ KeyTyped
  /\ IF cursor_pos = 0 THEN Rings
     ELSE /\ buffer' = memmove(buffer, cursor_pos - 1, cursor_pos, len - cursor_pos + 1)
          /\ cursor_pos' = cursor_pos - 1 /\ len' = len - 1
          /\ LeavesHistory
          /\ Refreshes(buffer', len - 1, len, cursor_pos - 1)
          /\ UNCHANGED <<at, ring>>

DeleteKey ==
  /\ KeyTyped
  /\ IF cursor_pos >= len THEN Rings
     ELSE /\ buffer' = NullTerminated(memmove(buffer, cursor_pos, cursor_pos + 1, len - cursor_pos), len - 1)
          /\ len' = len - 1 /\ UNCHANGED cursor_pos
          /\ LeavesHistory
          /\ Refreshes(buffer', len - 1, len, cursor_pos)
          /\ UNCHANGED <<at, ring>>

MovesTo(pos) ==
  /\ cursor_pos' = pos
  /\ Refreshes(buffer, len, len, pos)
  /\ UNCHANGED <<at, buffer, len, browse, ring>>

ArrowLeft == KeyTyped /\ IF cursor_pos > 0 THEN MovesTo(cursor_pos - 1) ELSE Rings
ArrowRight == KeyTyped /\ IF cursor_pos < len THEN MovesTo(cursor_pos + 1) ELSE Rings
HomeKey == KeyTyped /\ cursor_pos > 0 /\ MovesTo(0)
EndKey == KeyTyped /\ cursor_pos < len /\ MovesTo(len)

\* The line being written is saved before the first entry replaces it.
ArrowUp ==
  /\ KeyTyped
  /\ IF history_offset + 1 >= history_count THEN Rings
     ELSE /\ IF history_offset = -1 /\ ~saved_current_valid
             THEN saved_current' = Text(buffer, len) /\ saved_current_valid' = TRUE
             ELSE UNCHANGED <<saved_current, saved_current_valid>>
          /\ history_offset' = history_offset + 1
          /\ replace_buffer_with_text(history_get(history_offset + 1))
          /\ UNCHANGED ring

ArrowDown ==
  /\ KeyTyped
  /\ IF history_offset < 0 THEN Rings
     ELSE /\ history_offset' = history_offset - 1
          /\ IF history_offset > 0
             THEN /\ replace_buffer_with_text(history_get(history_offset - 1))
                  /\ UNCHANGED <<saved_current, saved_current_valid>>
             ELSE /\ replace_buffer_with_text(IF saved_current_valid THEN saved_current ELSE <<>>)
                  /\ saved_current_valid' = FALSE /\ UNCHANGED saved_current
          /\ UNCHANGED ring

TabKey ==
  LET done == handle_tab_completion(tty, buffer, len, cursor_pos)
      pos == IF len = 0 THEN 0 ELSE cursor_pos
  IN  /\ KeyTyped
      /\ buffer' = done.buffer /\ len' = done.len /\ cursor_pos' = pos
      /\ LeavesHistory
      /\ tty' = refresh_prompt_line(done.tty, done.buffer, done.len, done.len, pos)
      /\ seen' = [fits |-> Fits(done.len, done.len),
                  clean |-> seen.clean /\ done.own /\ Fits(done.len, done.len)]
      /\ UNCHANGED <<at, ring>>

\* An empty line is not remembered and runs nothing.
EnterKey ==
  /\ KeyTyped
  /\ LET line == Text(buffer, len)
     IN  IF len = 0
         THEN NewPrompt(tty_putc(tty, Newline)) /\ UNCHANGED ring
         ELSE /\ at' = "run"
              /\ tty' = tty_putc(tty, Newline)
              /\ buffer' = NullTerminated(buffer, len)
              /\ history_add(line)
              /\ UNCHANGED <<len, cursor_pos, browse, seen>>

CtrlCKey ==
  /\ KeyTyped
  /\ NewPrompt(tty_write(tty, <<"^", "C", Newline>>))
  /\ UNCHANGED ring

-----------------------------------------------------------------------------
(* The command the line names, as far as the terminal sees it.             *)

CommandWrites(text) ==
  /\ at = "run"
  /\ NewPrompt(tty_write(tty, text))
  /\ UNCHANGED <<ring, keys>>

clear_handler ==
  /\ at = "run"
  /\ NewPrompt(tty_clear(tty))
  /\ UNCHANGED <<ring, keys>>

\* noise fills every cell and clears the screen when it ends or is stopped.
draw_noise_frame(glyph) ==
  LET cellAt(i) == <<(i - 1) \div TTY_COLS, (i - 1) % TTY_COLS>>
      cells == [i \in 1 .. TTY_ROWS * TTY_COLS |-> cellAt(i)]
  IN  /\ at = "run" /\ at' = "noise"
      /\ tty' = FoldLeft(LAMBDA t, rc : tty_write_cell(t, rc[1], rc[2], glyph, NoiseColor),
                         tty_clear(tty), cells)
      /\ UNCHANGED <<edit, browse, ring, keys, seen>>

noise_handler ==
  /\ at = "noise"
  /\ \E text \in {<<>>, <<"N", Newline>>} : NewPrompt(tty_write(tty_clear(tty), text))
  /\ UNCHANGED <<ring, keys>>

Init ==
  /\ at = "read"
  /\ tty = tty_write(tty_init(DefaultColor), Prompt)
  /\ buffer = [i \in Index |-> Junk] /\ len = 0 /\ cursor_pos = 0
  /\ history_offset = -1 /\ saved_current = <<>> /\ saved_current_valid = FALSE
  /\ history = [i \in 0 .. HISTORY_SIZE - 1 |-> <<>>]
  /\ history_head = 0 /\ history_count = 0
  /\ keys = 0
  /\ seen = [fits |-> PromptFits, clean |-> PromptFits]

Next ==
  \/ \E c \in Letters : TypeChar(c)
  \/ BackspaceKey \/ DeleteKey
  \/ ArrowLeft \/ ArrowRight \/ HomeKey \/ EndKey
  \/ ArrowUp \/ ArrowDown
  \/ TabKey \/ EnterKey \/ CtrlCKey
  \/ \E text \in Outputs : CommandWrites(text)
  \/ clear_handler \/ draw_noise_frame("9") \/ noise_handler

Spec == Init /\ [][Next]_vars

-----------------------------------------------------------------------------
(* Properties.                                                             *)

\* The line fits its buffer with room for the terminator, the cursor is in
\* the line, and no byte that was never written is part of it.
TypeOK ==
  /\ at \in {"read", "run", "noise"}
  /\ len \in 0 .. CAPACITY - 1 /\ cursor_pos \in 0 .. len
  /\ history_offset \in -1 .. history_count - 1
  /\ history_count \in 0 .. HISTORY_SIZE /\ history_head \in 0 .. HISTORY_SIZE - 1
  /\ \A i \in 0 .. len - 1 : buffer[i] \notin {Junk, NUL}

\* The screen shows the cells, every one of them, and the cursor block is
\* painted at the cursor and nowhere else: no operation of the terminal
\* forgets to redraw a cell it changed, leaves a block behind or moves the
\* cursor off the cells (tty_redraw_cursor, tty_scroll, tty_putc).
ScreenFaithful == Faithful(tty)

\* The row of the cursor shows the prompt and the line, and the cursor stands
\* at its place in the line, after every key that redraws a line that fits
\* its row: whatever keys, lists of names, bells and commands came before.
\* Nothing of a longer line stays behind it, as long as every line since the
\* prompt fitted the row and no bell or list was written into it
\* (refresh_prompt_line and the spaces it writes, replace_buffer_with_text).
LineShown ==
  LET line == Prompt \o Text(buffer, len)
      shown(c) == tty.cells[tty.row][c].character
  IN  /\ TypeOK
      /\ at = "read" /\ seen.fits =>
           /\ \A i \in 1 .. Len(line) : shown(i - 1) = line[i]
           /\ tty.col = Len(Prompt) + cursor_pos
      /\ at = "read" /\ seen.clean => \A c \in Len(line) .. TTY_COLS - 1 : shown(c) = Space

\* What a line editor without a buffer and a ring would have: the text left
\* and right of the cursor, the lines entered, newest first, the one that is
\* looked at, the line that waits meanwhile, and the one that is run.
Reading == at = "read"
LeftText == IF Reading THEN Text(buffer, cursor_pos) ELSE <<>>
RightText == IF Reading THEN SubSeq(Text(buffer, len), cursor_pos + 1, len) ELSE <<>>
Entered == [k \in 1 .. history_count |-> history_get(k - 1)]
Picked == IF Reading THEN history_offset + 1 ELSE 0
Waiting == IF Reading /\ saved_current_valid THEN saved_current ELSE <<>>
RunText == IF Reading THEN <<>> ELSE Text(buffer, len)
Abstract == INSTANCE EditedLine WITH
  Chars <- Letters,
  Blanks <- {Space, "tab"},
  Room <- CAPACITY - 1,
  Depth <- HISTORY_SIZE,
  Names <- Range(Commands),
  Gap <- Space,
  left <- LeftText,
  right <- RightText,
  past <- Entered,
  pick <- Picked,
  draft <- Waiting,
  command <- RunText

\* The editor implements EditedLine: what is typed, erased, moved, completed,
\* looked up and entered is what the text left and right of the cursor and
\* the list of lines say, and every line that is run is remembered unless it
\* is blank, with no trace of the array, of its stale bytes or of the ring and
\* its wrap-around (read_line, history_add, history_get,
\* handle_tab_completion).
ImplementsEditedLine == Abstract!ASpec

(* A sentence of the source that the code does not keep (README, section 4).*)

\* read_line "finishes when a newline is entered or the buffer capacity is
\* reached": a line that is still being read has room.
FullLineFinishes == at = "read" => len + 1 < CAPACITY
=============================================================================
