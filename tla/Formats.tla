------------------------------ MODULE Formats ------------------------------
(***************************************************************************)
(* Formatted output: kvprintf and snprintf of the kernel (kernel/lib/      *)
(* printf.c), the status line of less that is made with them, and the      *)
(* commands printf and hexdump (kernel/shell/commands).                    *)
(*                                                                         *)
(* What is emitted is a sequence of characters. The messages about bad     *)
(* arguments are one character each.                                       *)
(***************************************************************************)
EXTENDS Numbers

CONSTANTS HEXDUMP_BYTES_PER_LINE, HEXDUMP_MAX_BYTES

ASSUME HexdumpAssumption ==
  HEXDUMP_BYTES_PER_LINE \in Nat \ {0} /\ HEXDUMP_MAX_BYTES \in 1 .. Word - 1

-----------------------------------------------------------------------------
(* kvprintf and snprintf.                                                  *)

\* An argument is a text for c and s, and an integer for the others.
Specs == {"c", "s", "d", "i", "u", "x", "X", "p"}
Emitted(spec, arg) ==
  CASE spec \in {"c", "s"} -> arg
    [] spec \in {"d", "i"} -> write_signed(arg)
    [] spec = "u"          -> write_unsigned(arg, 10, FALSE)
    [] spec \in {"x", "X"} -> write_unsigned(arg, 16, spec = "X")
    [] spec = "p"          -> write_pointer(arg)

\* Up to two "l" belong to a specifier. One that is not known is written as it
\* is, and its argument is left for the next.
kvprintf(fmt, args) ==
  LET n == Len(fmt)
      at(p) == IF p <= n THEN fmt[p] ELSE "nul"
      past_l(p) == IF at(p) # "l" THEN p ELSE IF at(p + 1) # "l" THEN p + 1 ELSE p + 2
      from[p \in 1 .. n + 1, k \in 1 .. Len(args) + 1] ==
        LET q == past_l(p + 1)
        IN  IF p > n THEN <<>>
            ELSE IF at(p) # "%" THEN <<at(p)>> \o from[p + 1, k]
            ELSE IF at(p + 1) = "%" THEN <<"%">> \o from[p + 2, k]
            ELSE IF q > n THEN <<"%">>
            ELSE IF at(q) \in Specs THEN Emitted(at(q), args[k]) \o from[q + 1, k + 1]
            ELSE <<"%", at(q)>> \o from[q + 1, k]
  IN  from[1, 1]

\* struct buffer_ctx: bytes holds what is in the buffer, which has size cells.
NoByte == "untouched"
NewBuffer(size) == [bytes |-> [n \in 0 .. size - 1 |-> NoByte], pos |-> 0]
Stored(buf, n, ch) == [buf EXCEPT !.bytes = [m \in DOMAIN @ \cup {n} |-> IF m = n THEN ch ELSE @[m]]]

\* Mutation: a full buffer is noticed two characters late.
EmitLate(buf, size, ch) ==
  IF size = 0 \/ buf.pos > size THEN [buf EXCEPT !.pos = @ + 1]
  ELSE [Stored(buf, buf.pos, ch) EXCEPT !.pos = @ + 1]

buffer_emit(buf, size, ch) ==
  IF size = 0 \/ buf.pos + 1 >= size THEN [buf EXCEPT !.pos = @ + 1]
  ELSE [Stored(buf, buf.pos, ch) EXCEPT !.pos = @ + 1]

\* What is returned is pos.
vsnprintf(size, text) ==
  LET buf == FoldLeft(LAMBDA b, ch : buffer_emit(b, size, ch), NewBuffer(size), text)
  IN  IF size = 0 THEN buf
      ELSE Stored(buf, IF buf.pos < size - 1 THEN buf.pos ELSE size - 1, "nul")

\* The part of the status line of less_render_page that holds numbers.
StatusFormat == <<"%", "z", "u", "-", "%", "z", "u", "/", "%", "z", "u", " ", "%", "z", "u", "%", "%">>
StatusNumbers(top, viewport, count) ==
  LET end == IF top + viewport < count THEN top + viewport ELSE count
  IN  IF count = 0 THEN <<0, 0, 0, 100>> ELSE <<top + 1, end, count, (end * 100) \div count>>
less_status(top, viewport, count) == kvprintf(StatusFormat, StatusNumbers(top, viewport, count))

-----------------------------------------------------------------------------
(* The command printf.                                                     *)

MissingArgument == "missing"
InvalidArgument == "invalid"

decode_escape(ch) ==
  CASE ch = "n" -> "newline" [] ch = "r" -> "return" [] ch = "t" -> "tab"
    [] ch = "0" -> "nul" [] OTHER -> ch

\* The cast to uintptr_t, which has half the bits of the integers parsed.
AsPointer(value) == value % 2^(WordBits \div 2)

\* What a specifier makes of an argument, which is a text.
Printed(spec, arg) ==
  LET text(number, written) == [ok |-> number.ok, text |-> written]
  IN  CASE spec = "s" -> [ok |-> TRUE, text |-> arg]
        [] spec = "c" -> [ok |-> TRUE, text |-> <<arg[1]>>]
        [] spec \in {"d", "i"} -> text(parse_signed(arg), write_signed(parse_signed(arg).value))
        [] spec = "u" ->
             text(parse_unsigned_auto(arg), write_unsigned(parse_unsigned_auto(arg).value, 10, FALSE))
        [] spec \in {"x", "X"} ->
             text(parse_unsigned_hex(arg), write_unsigned(parse_unsigned_hex(arg).value, 16, spec = "X"))
        [] spec = "p" -> text(parse_unsigned_hex(arg), write_pointer(AsPointer(parse_unsigned_hex(arg).value)))
        [] OTHER -> [ok |-> TRUE, text |-> <<"%", spec>>]

\* Any specifier but "%%" takes an argument; a missing or an invalid one ends
\* the output.
printf_handler(fmt, args) ==
  LET n == Len(fmt)
      from[p \in 1 .. n + 1, k \in 1 .. Len(args) + 1] ==
        IF p > n THEN <<>>
        ELSE IF fmt[p] = "\\" /\ p < n THEN <<decode_escape(fmt[p + 1])>> \o from[p + 2, k]
        ELSE IF fmt[p] # "%" THEN <<fmt[p]>> \o from[p + 1, k]
        ELSE IF p = n THEN <<"%">>
        ELSE IF fmt[p + 1] = "%" THEN <<"%">> \o from[p + 2, k]
        ELSE IF k > Len(args) THEN <<MissingArgument>>
        ELSE IF ~Printed(fmt[p + 1], args[k]).ok THEN <<InvalidArgument>>
        ELSE Printed(fmt[p + 1], args[k]).text \o from[p + 2, k + 1]
  IN  from[1, 1]

-----------------------------------------------------------------------------
(* The command hexdump.                                                    *)

\* A line is an address and the addresses of the bytes printed after it.
hexdump_region(base, length) ==
  LET from[offset \in 0 .. length] ==
        LET left == length - offset
            line_count == IF left > HEXDUMP_BYTES_PER_LINE THEN HEXDUMP_BYTES_PER_LINE ELSE left
            line == [address |-> (base + offset) % Word,
                     bytes |-> [i \in 1 .. line_count |-> (base + offset + i - 1) % Word]]
        IN  IF left = 0 THEN <<>> ELSE <<line>> \o from[offset + line_count]
  IN  from[0]

hexdump_handler(args) ==
  LET address == parse_unsigned(args[1])
      length == IF Len(args) = 2 THEN parse_unsigned(args[2]) ELSE [ok |-> TRUE, value |-> 128]
      limited == IF length.value > HEXDUMP_MAX_BYTES THEN HEXDUMP_MAX_BYTES ELSE length.value
      runs == Len(args) \in 1 .. 2 /\ address.ok /\ length.ok /\ length.value > 0
  IN  IF runs THEN hexdump_region(address.value, limited) ELSE <<>>
=============================================================================
