--------------------------- MODULE TextFunctions ---------------------------
(***************************************************************************)
(* The functions of the kernel that compute and keep nothing, one call at  *)
(* a time, against definitions of what they are to return: how a line is   *)
(* taken apart (ShellParse), paths (ShellPath), numbers (Numbers),         *)
(* formatted output (Formats) and the operations on surfaces (Surface). A  *)
(* state is a call with its arguments.                                     *)
(***************************************************************************)
EXTENDS ShellParse, ShellPath, Formats

CONSTANTS
  Lines,       \* lines for parse_pipeline
  Texts,       \* texts for the parsers of numbers
  Values,      \* integers to write and to divide
  Directives,  \* pieces of the formats of printf
  Arguments,   \* texts for their arguments
  Cwds,        \* working directories
  PathTexts,   \* paths to resolve
  Dirs,        \* directories there are, by the names on their paths
  TTY_ROWS, TTY_COLS, DefaultColor,  \* the terminal
  Sizes,       \* <<rows, cols>> of surfaces, up to 16 cells
  Spans,       \* rows, columns, heights and widths
  WideSpans    \* heights and widths of regions

ASSUME CallsAssumption ==
  /\ Values \subseteq Unsigned
  /\ Spans \subseteq Nat /\ WideSpans \subseteq Nat /\ \A size \in Sizes : size[1] * size[2] \in 1 .. 16
  /\ \A cwd \in Cwds : NamesOf(cwd) \in Dirs

VARIABLE call

Sf == INSTANCE Surface

Idle == [op |-> "none"]

UpTo(n, S) == UNION {[1 .. m -> S] : m \in 0 .. n}

Parse == \E l \in Lines : call' = [op |-> "parse", line |-> l]
Divide == \E v \in Values : call' = [op |-> "divide", value |-> v]
WriteNumber == \E v \in Values : call' = [op |-> "write", value |-> v]
ParseNumber == \E t \in Texts : call' = [op |-> "number", text |-> t]
FormatInto == \E t \in Texts, n \in 0 .. 4 : call' = [op |-> "snprintf", text |-> t, size |-> n]
PrintfCommand == \E ds \in UpTo(3, Directives), args \in UpTo(2, Arguments) :
  call' = [op |-> "printf", directives |-> ds, args |-> args]
Hexdump == \E v \in Values, n \in Values :
  call' = [op |-> "hexdump", base |-> v, length |-> n]
ResolvePath == \E cwd \in Cwds, p \in PathTexts : call' = [op |-> "path", cwd |-> cwd, path |-> p]
RenderStatus == \E top, count \in 0 .. 3 :
  top < count /\ call' = [op |-> "status", top |-> top, count |-> count]

Ink == 4
Red == 12

\* The operations on a surface whose cells are all different, so that where
\* each of them went can be told, with the cursor on its last cell.
Canvas(size) ==
  [self |-> 1, block |-> 2, rows |-> size[1], cols |-> size[2],
   cursor_row |-> size[1] - 1, cursor_col |-> size[2] - 1, color |-> DefaultColor,
   cells |-> [i \in 0 .. size[1] * size[2] - 1 |-> [character |-> digits_lower[i + 1], color |-> Ink]]]

CreateSurface == \E failing \in 0 .. 2 : call' = [op |-> "create", failing |-> failing]
ResizeSurface == \E size \in Sizes, rows, cols \in Spans, fits \in BOOLEAN :
  call' = [op |-> "resize", canvas |-> Canvas(size), rows |-> rows, cols |-> cols, fits |-> fits]
WriteSurface == \E size \in Sizes, row, col \in Spans, text \in UpTo(4, {"x", "y", "newline"}) :
  call' = [op |-> "text", canvas |-> Canvas(size), row |-> row, col |-> col, text |-> text]
ScrollSurface == \E size \in Sizes, top, bottom, by \in Spans, sign \in {-1, 1} :
  call' = [op |-> "scroll", canvas |-> Canvas(size), top |-> top, bottom |-> bottom, delta |-> sign * by]
DrawSurface == \E size \in Sizes, row, col \in Spans, height, width \in WideSpans, shown \in BOOLEAN :
  call' = [op |-> IF shown THEN "flush" ELSE "fill", canvas |-> Canvas(size),
           row |-> row, col |-> col, height |-> height, width |-> width]

Return == call # Idle /\ call' = Idle

Init == call = Idle
Next ==
  \/ call = Idle /\ (Parse \/ Divide \/ WriteNumber \/ ParseNumber \/ FormatInto \/ PrintfCommand
                       \/ Hexdump \/ ResolvePath \/ RenderStatus
                       \/ CreateSurface \/ ResizeSurface \/ WriteSurface \/ ScrollSurface \/ DrawSurface)
  \/ Return
Spec == Init /\ [][Next]_call

-----------------------------------------------------------------------------
(* Properties.                                                             *)

\* When every pipe of a line has a blank before it and a command follows the
\* last one, parse_pipeline finds the pieces between the pipes, and refuses
\* the line if and only if one of them is empty or there are too many. Only
\* spaces are skipped in front of a command, so lines with tabs are left out.
ParseFindsPieces ==
  call.op = "parse" =>
    LET line == call.line
        spaced == /\ ~Occurs("tab", line)
                  /\ \A n \in Pipes(line) : n > 1 /\ line[n - 1] = " "
        pieces == Pieces(line)
        p == parse_pipeline(line)
    IN  spaced /\ pieces[Len(pieces)] # <<>> =>
          /\ p.ok <=> (\A k \in DOMAIN pieces : pieces[k] # <<>>) /\ Len(pieces) <= MAX_PIPE_SEGMENTS
          /\ p.ok => p.segs = pieces

\* A line that parses has a word in every segment, also in the one a
\* redirection was cut out of: execute_pipeline always has an argv[0].
CommandsHaveNames ==
  call.op = "parse" =>
    \A k \in 1 .. Len(Parsed(call.line).segments) :
      Len(tokenize(Parsed(call.line).segments[k])) > 0

\* A line is cut into the commands it names (parse_pipeline,
\* parse_redirection_from_segment, tokenize).
ParserExact == ParseFindsPieces /\ CommandsHaveNames

\* The shift-and-subtract loop of __udivmoddi4 divides exactly, and its
\* remainder never grows past the word before the divisor is taken off it.
DivisionExact ==
  call.op = "divide" =>
    \A d \in Unsigned \ {0} :
      LET r == udivmoddi4(call.value, d)
      IN  r.quotient * d + r.rem = call.value /\ r.rem < d

\* The number a text of digits stands for, which may be greater than a word.
ValueOf(text, base) == FoldLeft(LAMBDA v, ch : v * base + digit_value(ch), 0, text)

\* Every number is written with the digits that stand for it, without zeros
\* in front, in every base, and read again by the parsers as itself; the least
\* signed integer, which has no negative, too (emit_signed, write_unsigned,
\* parse_signed, parse_unsigned_auto, parse_unsigned_hex).
NumbersRoundTrip ==
  call.op = "write" =>
    LET v == call.value
        decimal == write_unsigned(v, 10, FALSE)
        signed == write_signed(AsSigned(v))
    IN  /\ \A base \in 2 .. 16, upper \in BOOLEAN :
             LET text == write_unsigned(v, base, upper)
             IN  ValueOf(text, base) = v /\ (Len(text) > 1 => text[1] # "0")
        /\ parse_unsigned_auto(decimal) = [ok |-> TRUE, value |-> v]
        /\ parse_unsigned_hex(write_pointer(v)) = [ok |-> TRUE, value |-> v]
        /\ parse_unsigned(write_pointer(v)) = [ok |-> TRUE, value |-> v]
        /\ parse_signed(signed) = [ok |-> TRUE, value |-> AsSigned(v)]

\* sleep accepts exactly the decimal texts whose number fits into its integer,
\* with that number: the test before the multiplication refuses every text
\* that would wrap around and no other (parse_u32).
SleepTextExact ==
  call.op = "number" =>
    LET t == call.text
        decimal == t # <<>> /\ \A i \in 1 .. Len(t) : digit_value(t[i]) \in 0 .. 9
    IN  /\ parse_u32(t).ok <=> decimal /\ ValueOf(t, 10) < Word
        /\ parse_u32(t).ok => parse_u32(t).value = ValueOf(t, 10)

\* Numbers survive division, output and parsing up to the limits of their
\* word (__udivmoddi4, emit_unsigned_base, emit_signed, the four parsers).
NumbersExact == DivisionExact /\ NumbersRoundTrip /\ SleepTextExact

\* snprintf stores within the buffer only, ends what it stored with a NUL,
\* stores as much as fits, and returns the length of the whole (buffer_emit,
\* vsnprintf).
SnprintfBounded ==
  call.op = "snprintf" =>
    LET buf == vsnprintf(call.size, call.text)
        end == IF Len(call.text) < call.size THEN Len(call.text) ELSE call.size - 1
    IN  /\ DOMAIN buf.bytes = 0 .. call.size - 1
        /\ buf.pos = Len(call.text)
        /\ call.size > 0 => /\ buf.bytes[end] = "nul"
                            /\ \A n \in 0 .. end - 1 : buf.bytes[n] = call.text[n + 1]
                            /\ \A n \in end + 1 .. call.size - 1 : buf.bytes[n] = NoByte

\* The arguments that directives before the k-th take.
Takes(d) == d[1] = "%" /\ d # <<"%", "%">>
Taken(ds, k) == Cardinality({j \in 1 .. k - 1 : Takes(ds[j])})

\* The digits of a number, and the number a text stands for: hexadecimal
\* digits may have 0x before them, and must where decimal ones are expected.
Numeral(v, base, digits) ==
  LET n == CHOOSE n \in 1 .. WordBits + 1 : v < base^n /\ (n = 1 \/ v >= base^(n - 1))
  IN  [k \in 1 .. n |-> digits[1 + ((v \div base^(n - k)) % base)]]
NumberOf(text, plain) ==
  LET prefixed == Len(text) > 2 /\ text[1] = "0" /\ text[2] = "x"
      digits == IF prefixed THEN SubSeq(text, 3, Len(text)) ELSE text
      base == IF prefixed THEN 16 ELSE plain
  IN  IF digits # <<>> /\ \A i \in 1 .. Len(digits) : digit_value(digits[i]) \in 0 .. base - 1
      THEN {ValueOf(digits, base)} ELSE {}

\* What a specifier is to write for an argument (the comment of
\* printf_handler), if the argument is valid.
Meaning(spec, arg) ==
  LET minus == arg[1] = "-"
      integers == NumberOf(IF minus THEN Tail(arg) ELSE arg, 10)
      sign == IF minus /\ integers # {0} THEN <<"-">> ELSE <<>>
  IN  CASE spec = "s" -> {arg}
        [] spec = "c" -> {<<arg[1]>>}
        [] spec \in {"d", "i"} -> {sign \o Numeral(v, 10, digits_lower) : v \in integers}
        [] spec = "u" -> {Numeral(v, 10, digits_lower) : v \in NumberOf(arg, 10)}
        [] spec = "x" -> {Numeral(v, 16, digits_lower) : v \in NumberOf(arg, 16)}
        [] spec = "X" -> {Numeral(v, 16, digits_upper) : v \in NumberOf(arg, 16)}
        [] spec = "p" -> {<<"0", "x">> \o Numeral(AsPointer(v), 16, digits_lower) : v \in NumberOf(arg, 16)}
        [] OTHER -> {<<"%", spec>>}

\* printf writes for a format what its directives are to write, each with the
\* argument that is its turn, up to the first without a valid one: no
\* character of the format is skipped or read twice (printf_handler).
PrintfByDirective ==
  call.op = "printf" =>
    LET ds == call.directives
        missing(k) == Takes(ds[k]) /\ Taken(ds, k) >= Len(call.args)
        meaning(k) == Meaning(ds[k][2], call.args[Taken(ds, k) + 1])
        alone(k) == IF missing(k) THEN <<MissingArgument>>
                    ELSE IF Takes(ds[k])
                    THEN IF meaning(k) = {} THEN <<InvalidArgument>> ELSE CHOOSE t \in meaning(k) : TRUE
                    ELSE IF ds[k] = <<"%", "%">> THEN <<"%">>
                    ELSE IF ds[k] = <<"\\", "n">> THEN <<"newline">>
                    ELSE IF ds[k][1] = "\\" THEN <<ds[k][2]>> ELSE ds[k]
        bad(k) == missing(k) \/ (Takes(ds[k]) /\ meaning(k) = {})
        upto[k \in 0 .. Len(ds)] ==
          IF k = 0 THEN <<>>
          ELSE IF \E j \in 1 .. k - 1 : bad(j) THEN upto[k - 1] ELSE upto[k - 1] \o alone(k)
    IN  printf_handler(FlattenSeq(ds), call.args) = upto[Len(ds)]

\* hexdump prints the bytes asked for, each once and in order and at most
\* HEXDUMP_MAX_BYTES, on lines that start with the address of their first
\* byte, also where addresses wrap around (hexdump_handler, hexdump_region).
HexdumpExact ==
  call.op = "hexdump" =>
    LET lines == hexdump_handler(<<write_pointer(call.base), write_unsigned(call.length, 10, FALSE)>>)
        shown == FlattenSeq([k \in 1 .. Len(lines) |-> lines[k].bytes])
        length == IF call.length < HEXDUMP_MAX_BYTES THEN call.length ELSE HEXDUMP_MAX_BYTES
    IN  /\ shown = [i \in 1 .. length |-> (call.base + i - 1) % Word]
        /\ \A k \in 1 .. Len(lines) : lines[k].bytes[1] = lines[k].address

\* What formats and dumps write is what they were asked to write, all of it
\* and within the buffer (vsnprintf, printf_handler, hexdump_handler).
OutputExact == SnprintfBounded /\ PrintfByDirective /\ HexdumpExact

\* A path resolves to an absolute one that names the same thing, ends in no
\* "/" but the root's, has room for its NUL, and has no "//" that was not
\* typed; only a path that is too long, or would be with one more character,
\* is refused. From a directory, cd leads to one, and the working directory
\* is its own resolution; the shell starts in a directory there is, whichever
\* the volume has (shell_resolve_path, cd_handler,
\* shell_initialize_working_directory).
PathsResolve ==
  call.op = "path" =>
    LET r == shell_resolve_path(call.cwd, call.path)
        absolute == call.path # <<>> /\ call.path[1] = "/"
        cwd == cd_handler(TRUE, Dirs, call.cwd, <<call.path>>)
        doubled(p) == \E n \in 2 .. Len(p) : p[n] = "/" /\ p[n - 1] = "/"
    IN  /\ r.ok =>
             /\ r.path[1] = "/" /\ Len(r.path) < SHELL_PATH_MAX
             /\ NamesOf(r.path) = (IF absolute THEN <<>> ELSE NamesOf(call.cwd)) \o NamesOf(call.path)
             /\ r.path = RootPath \/ r.path[Len(r.path)] # "/"
             /\ doubled(r.path) => doubled(call.path)
        /\ ~r.ok => Len(call.path) + (IF absolute THEN 0 ELSE Len(call.cwd) + 1) >= SHELL_PATH_MAX - 1
        /\ NamesOf(cwd) \in Dirs /\ NamesOf(cd_handler(TRUE, Dirs, call.cwd, <<>>)) \in Dirs
        /\ \A dirs \in SUBSET Dirs : <<>> \in dirs =>
             NamesOf(shell_initialize_working_directory(TRUE, dirs)) \in dirs
        /\ shell_resolve_path(cwd, <<>>).path = cwd
        /\ shell_resolve_path(cwd, cwd) = [ok |-> TRUE, path |-> cwd]

\* The terminal before a flush: it shows cells of the surface and others.
Shown == Sf!tty_write(Sf!tty_init(Ink), <<"0", "x">>)

\* The operations on the array of a surface do to its cells what rows and
\* columns say, and touch nothing else: copies between arrays of different
\* widths and between rows of one array that overlap, texts that wrap, regions
\* that reach over the edge, flushes that leave out equal cells. Whichever
\* calloc fails, a surface owns its structure and one array or nothing is
\* left, and no block is freed twice (kernel/drivers/video/term.c). What a
\* scroll does to a region of one row, and a flush to one whose end wraps
\* around, is not said: the source's sentences about both are below.
SurfaceExact ==
  LET s == call.canvas
  IN  CASE call.op = "create" -> Sf!Creates(call.failing, DefaultColor)
        [] call.op = "resize" -> Sf!Resizes(s, call.rows, call.cols, call.fits)
        [] call.op = "text"   -> Sf!WritesText(s, call.row, call.col, call.text, Red)
        [] call.op = "scroll" -> Sf!ScrollsRegion(s, call.top, call.bottom, call.delta, "z")
        [] call.op = "fill"   ->
             /\ Sf!FillsRect(s, call.row, call.col, call.height, call.width, "z", Red)
             /\ Sf!WellFormed(Sf!term_surface_set_cursor(s, call.row, call.col))
        [] call.op = "flush"  ->
             /\ Sf!Flushes(Shown, s)
             /\ call.row + call.height < Word /\ call.col + call.width < Word =>
                  Sf!FlushesRegion(Shown, s, call.row, call.col, call.height, call.width)
        [] OTHER -> TRUE

(* Sentences of the source that the code does not keep (README, section 4). *)

\* What is typed is run or refused: every character of a line that parses is
\* in a segment ("The shell understands simple pipelines (cmd1 | cmd2)").
NothingDropped ==
  call.op = "parse" =>
    LET p == parse_pipeline(call.line)
        solid(l) == SelectSeq(l, LAMBDA x : x \notin Blank \cup {"|"})
    IN  p.ok => FlattenSeq([k \in 1 .. Len(p.segs) |-> solid(p.segs[k])]) = solid(call.line)

\* A line that ends in a pipe is refused (parse_pipeline: "`false` on parse
\* error (empty input, empty segment, trailing pipe, ...)").
TrailingPipeRefused ==
  call.op = "parse" =>
    LET pieces == Pieces(call.line)
    IN  pieces[Len(pieces)] = <<>> => ~parse_pipeline(call.line).ok

\* A second ">" is refused ("Multiple output redirections are not supported").
OneRedirection == call.op = "parse" => ~Occurs(">", Parsed(call.line).redir.path)

\* The status line of less shows "visible line range, total lines, and
\* percentage progress" (less_render_page).
StatusReports ==
  call.op = "status" =>
    LET number(k) == write_unsigned(StatusNumbers(call.top, 2, call.count)[k], 10, FALSE)
    IN  less_status(call.top, 2, call.count) =
          number(1) \o <<"-">> \o number(2) \o <<"/">> \o number(3) \o <<" ">> \o number(4) \o <<"%">>

\* term_surface_scroll_region shifts "rows in the inclusive range [top_row,
\* bottom_row]", also when that is one row.
OneRowScrolls ==
  call.op = "scroll" /\ call.top = call.bottom =>
    \A rc \in Sf!CellsOf(call.canvas) :
      Sf!CellAt(Sf!term_surface_scroll_region(call.canvas, call.top, call.bottom, call.delta, "z"), rc) =
        IF call.delta = 0 THEN Sf!CellAt(call.canvas, rc)
        ELSE Sf!RegionMoved(call.canvas, call.top, call.bottom, call.delta, "z", rc)

\* term_surface_flush_region: "The region is clamped to the surface bounds",
\* whatever its height and width.
RegionClamped ==
  call.op = "flush" => Sf!FlushesRegion(Shown, call.canvas, call.row, call.col, call.height, call.width)
=============================================================================
