------------------------------ MODULE Numbers ------------------------------
(***************************************************************************)
(* Integers and their texts: the division that 32-bit code calls for 64-bit*)
(* integers (kernel/lib/div64.c), the output of numbers (kernel/lib/       *)
(* printf.c and kernel/shell/commands/printf.c have the same two           *)
(* functions), and the four parsers of the commands.                       *)
(*                                                                         *)
(* An integer has WordBits bits, whatever its type in the code; a text is  *)
(* a sequence of characters.                                               *)
(***************************************************************************)
EXTENDS Integers, Sequences, SequencesExt

CONSTANT WordBits  \* 64, or 32 for size_t and uint32_t

ASSUME WordAssumption == WordBits \in Nat \ {0}

Word == 2^WordBits
Unsigned == 0 .. Word - 1
Signed == -(Word \div 2) .. Word \div 2 - 1
AsSigned(value) == IF value >= Word \div 2 THEN value - Word ELSE value

-----------------------------------------------------------------------------
(* Division.                                                               *)

\* __udivmoddi4: from the highest bit down, the remainder takes in a bit of
\* the numerator, in a word that could wrap around.
udivmoddi4(numerator, denominator) ==
  LET bit(k) == (numerator \div 2^k) % 2
      from[k \in 0 .. WordBits] ==
        IF k = WordBits THEN [quotient |-> 0, rem |-> 0]
        ELSE LET last == from[k + 1]
                 rem == (2 * last.rem + bit(k)) % Word
             IN  IF rem >= denominator
                 THEN [quotient |-> last.quotient + 2^k, rem |-> rem - denominator]
                 ELSE [quotient |-> last.quotient, rem |-> rem]
  IN  IF denominator = 0 THEN [quotient |-> 0, rem |-> 0] ELSE from[0]

-----------------------------------------------------------------------------
(* Output.                                                                 *)

digits_lower == <<"0", "1", "2", "3", "4", "5", "6", "7", "8", "9", "a", "b", "c", "d", "e", "f">>
digits_upper == <<"0", "1", "2", "3", "4", "5", "6", "7", "8", "9", "A", "B", "C", "D", "E", "F">>

\* emit_unsigned_base and write_unsigned: the digits from the last to the
\* first, then in reverse. The buffer has room for a digit per bit and one.
write_unsigned(value, base0, uppercase) ==
  LET base == IF base0 \in 2 .. 16 THEN base0 ELSE 10
      digit(v) == (IF uppercase THEN digits_upper ELSE digits_lower)[udivmoddi4(v, base).rem + 1]
      from[v \in Unsigned, room \in 0 .. WordBits + 1] ==
        IF v = 0 \/ room = 0 THEN <<>>
        ELSE Append(from[udivmoddi4(v, base).quotient, room - 1], digit(v))
  IN  IF value = 0 THEN <<"0">> ELSE from[value, WordBits + 1]

\* Mutation: the 1 is not added again.
SignedForgetsOne(value) ==
  IF value < 0 THEN <<"-">> \o write_unsigned((-(value + 1)) % Word, 10, FALSE)
  ELSE write_unsigned(value, 10, FALSE)

\* emit_signed and write_signed: the least integer has no negative.
write_signed(value) ==
  IF value < 0 THEN <<"-">> \o write_unsigned(((-(value + 1)) + 1) % Word, 10, FALSE)
  ELSE write_unsigned(value, 10, FALSE)

write_pointer(value) == <<"0", "x">> \o write_unsigned(value, 16, FALSE)

-----------------------------------------------------------------------------
(* Parsing. A parser that fails leaves its result alone.                   *)

Fail == [ok |-> FALSE, value |-> 0]

digit_value(ch) ==
  LET where == {d \in 0 .. 15 : ch \in {digits_lower[d + 1], digits_upper[d + 1]}}
  IN  IF where = {} THEN -1 ELSE CHOOSE d \in where : TRUE

\* Digits of the base make a number, modulo the word.
Accumulated(text, base) ==
  FoldLeft(LAMBDA value, ch : (value * base + digit_value(ch)) % Word, 0, text)

parse_unsigned_base(text, base) ==
  IF text # <<>> /\ \A i \in 1 .. Len(text) : digit_value(text[i]) \in 0 .. base - 1
  THEN [ok |-> TRUE, value |-> Accumulated(text, base)] ELSE Fail

HexPrefixed(text) == Len(text) >= 2 /\ text[1] = "0" /\ text[2] \in {"x", "X"}
Unprefixed(text) == SubSeq(text, 3, Len(text))

parse_unsigned_auto(text) ==
  IF HexPrefixed(text) /\ Len(text) > 2 THEN parse_unsigned_base(Unprefixed(text), 16)
  ELSE parse_unsigned_base(text, 10)

parse_unsigned_hex(text) ==
  parse_unsigned_base(IF HexPrefixed(text) /\ Len(text) > 2 THEN Unprefixed(text) ELSE text, 16)

\* A magnitude beyond the signed type wraps around.
parse_signed(text) ==
  LET signed == text # <<>> /\ text[1] \in {"-", "+"}
      number == parse_unsigned_auto(IF signed THEN Tail(text) ELSE text)
      value == IF signed /\ text[1] = "-" THEN (Word - number.value) % Word ELSE number.value
  IN  IF text = <<>> \/ ~number.ok THEN Fail ELSE [ok |-> TRUE, value |-> AsSigned(value)]

\* The parser of hexdump, to which "0x" alone is 0.
parse_unsigned(text) ==
  LET base == IF HexPrefixed(text) THEN 16 ELSE 10
      digits == IF HexPrefixed(text) THEN Unprefixed(text) ELSE text
  IN  IF text # <<>> /\ \A i \in 1 .. Len(digits) : digit_value(digits[i]) \in 0 .. base - 1
      THEN [ok |-> TRUE, value |-> Accumulated(digits, base)] ELSE Fail

\* The parser of sleep refuses what does not fit.
parse_u32(text) ==
  LET step(result, ch) ==
        IF \/ ~result.ok \/ digit_value(ch) \notin 0 .. 9
           \/ result.value > (Word - 1 - digit_value(ch)) \div 10
        THEN Fail
        ELSE [ok |-> TRUE, value |-> (result.value * 10 + digit_value(ch)) % Word]
  IN  IF text = <<>> THEN Fail ELSE FoldLeft(step, [ok |-> TRUE, value |-> 0], text)
=============================================================================
