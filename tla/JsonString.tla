----------------------------- MODULE JsonString -----------------------------
(***************************************************************************)
(* parse_string of cJSON.c with parse_hex4 and utf16_literal_to_utf8: a    *)
(* string literal is measured, a buffer for it allocated from the measure, *)
(* and the literal decoded into it, one byte or escape at a time.          *)
(*                                                                         *)
(* Bytes are numbers.  The text ends in NUL, as that of a config file      *)
(* does; positions count from 1, and the literal begins at 1.              *)
(***************************************************************************)
EXTENDS Integers, SequencesExt

CONSTANT Literals        \* texts that begin with a string literal

ASSUME LiteralsAssumption == Literals \subseteq Seq(0 .. 255)

VARIABLES
  input,                 \* the buffer
  phase,                 \* "none", "measure", "decode", "ok", "failed"
  input_pointer,
  input_end,
  skipped_bytes,
  allocated,             \* size of the buffer for the output; 0 if there is none
  output,                \* bytes written to it
  highest                \* history: the highest position read while decoding

stringVars == <<input, phase, input_pointer, input_end, skipped_bytes, allocated,
                output, highest>>

Quote == 34
Backslash == 92
LetterU == 117

\* What the byte after a backslash stands for, where that is a byte.
Escape ==
  [byte \in {98, 102, 110, 114, 116, Quote, Backslash, 47} |->
     CASE byte = 98 -> 8 [] byte = 102 -> 12 [] byte = 110 -> 10 [] byte = 114 -> 13
       [] byte = 116 -> 9 [] OTHER -> byte]

Digit(byte) ==
  CASE byte \in 48 .. 57  -> byte - 48
    [] byte \in 65 .. 70  -> byte - 55
    [] byte \in 97 .. 102 -> byte - 87
    [] OTHER              -> -1

At(i) == IF i \in DOMAIN input THEN input[i] ELSE 0

\* parse_hex4: 0 if any of the four bytes is not a digit.
Hex4(i) ==
  LET d == [k \in 0 .. 3 |-> Digit(At(i + k))]
  IN  IF \E k \in 0 .. 3 : d[k] = -1 THEN 0
      ELSE 4096 * d[0] + 256 * d[1] + 16 * d[2] + d[3]

HighSurrogates == 55296 .. 56319     \* 0xD800 .. 0xDBFF
LowSurrogates == 56320 .. 57343      \* 0xDC00 .. 0xDFFF

\* Fault: the pairs begin at 0.
FromPairAtZero(high, low) == (1024 * (high % 1024)) + (low % 1024)

\* The code point of a surrogate pair.
FromPair(high, low) == 65536 + (1024 * (high % 1024)) + (low % 1024)

\* The bytes of a code point in UTF-8.
Utf8(c) ==
  LET tail(n) == 128 + ((c \div n) % 64)
  IN  IF c < 128 THEN <<c>>
      ELSE IF c < 2048 THEN <<192 + c \div 64, tail(1)>>
      ELSE IF c < 65536 THEN <<224 + c \div 4096, tail(64), tail(1)>>
      ELSE <<240 + c \div 262144, tail(4096), tail(64), tail(1)>>

StringInit ==
  /\ input \in {Append(t, 0) : t \in Literals}
  /\ phase = "measure" /\ input_pointer = 2 /\ input_end = 2 /\ skipped_bytes = 0
  /\ allocated = 0 /\ output = <<>> /\ highest = 0

StringIdle ==
  /\ input = <<>> /\ phase = "none" /\ input_pointer = 2 /\ input_end = 2
  /\ skipped_bytes = 0 /\ allocated = 0 /\ output = <<>> /\ highest = 0

\* On failure the output is freed.
Failed ==
  /\ phase' = "failed" /\ allocated' = 0 /\ output' = <<>>

-----------------------------------------------------------------------------
(* MEASURING                                                               *)

InLiteral == input_end <= Len(input) /\ At(input_end) # Quote

\* An escape counts as two bytes less one; the byte after the backslash ends
\* nothing.
MeasureByte ==
  /\ phase = "measure" /\ InLiteral
  /\ \/ /\ At(input_end) # Backslash
        /\ input_end' = input_end + 1
        /\ UNCHANGED <<phase, skipped_bytes, allocated, output>>
     \/ /\ At(input_end) = Backslash /\ input_end + 1 <= Len(input)
        /\ input_end' = input_end + 2 /\ skipped_bytes' = skipped_bytes + 1
        /\ UNCHANGED <<phase, allocated, output>>
     \/ /\ At(input_end) = Backslash /\ input_end + 1 > Len(input)
        /\ Failed
        /\ UNCHANGED <<input_end, skipped_bytes>>
  /\ UNCHANGED <<input, input_pointer, highest>>

\* Fault: no byte for the terminator, nor for the opening quote.
NeededExactly == input_end - 2 - skipped_bytes

\* The overestimate of the output, which counts the opening quote, and its
\* terminator.
Needed == input_end - 1 - skipped_bytes + 1

Allocate ==
  /\ phase = "measure" /\ ~InLiteral
  /\ \/ /\ input_end <= Len(input)
        /\ allocated' = Needed /\ phase' = "decode"
        /\ UNCHANGED output
     \/ Failed
  /\ UNCHANGED <<input, input_pointer, input_end, skipped_bytes, highest>>

-----------------------------------------------------------------------------
(* DECODING                                                                *)

\* A step of the loop that reads up to position last.
Reads(last) == highest' = Max({highest, last})

Emits(bytes, length) ==
  /\ output' = output \o bytes
  /\ input_pointer' = input_pointer + length
  /\ UNCHANGED <<phase, allocated>>

DecodeByte ==
  /\ phase = "decode" /\ input_pointer < input_end /\ At(input_pointer) # Backslash
  /\ Reads(input_pointer)
  /\ Emits(<<At(input_pointer)>>, 1)
  /\ UNCHANGED <<input, input_end, skipped_bytes>>

DecodeEscape ==
  /\ phase = "decode" /\ input_pointer < input_end /\ At(input_pointer) = Backslash
  /\ At(input_pointer + 1) # LetterU
  /\ Reads(input_pointer + 1)
  /\ LET escaped == At(input_pointer + 1)
     IN  IF escaped \in DOMAIN Escape THEN Emits(<<Escape[escaped]>>, 2)
         ELSE Failed /\ UNCHANGED input_pointer
  /\ UNCHANGED <<input, input_end, skipped_bytes>>

\* Fault: the length is not checked.
CompleteAlways(from) == from >= 1

\* An escape with four digits from position from has ended before the quote.
Complete(from) == input_end - from >= 6

\* utf16_literal_to_utf8: one escape, or the two of a surrogate pair.
DecodeUtf16 ==
  /\ phase = "decode" /\ input_pointer < input_end /\ At(input_pointer) = Backslash
  /\ At(input_pointer + 1) = LetterU
  /\ LET second == input_pointer + 6
         high   == Hex4(input_pointer + 2)
         low    == Hex4(second + 2)
         pair   == high \in HighSurrogates
     IN  \/ /\ ~Complete(input_pointer)
            /\ Reads(input_pointer + 1) /\ Failed
            /\ UNCHANGED input_pointer
         \/ /\ Complete(input_pointer) /\ ~pair
            /\ Reads(input_pointer + 5)
            /\ IF high \in LowSurrogates THEN Failed /\ UNCHANGED input_pointer
               ELSE Emits(Utf8(high), 6)
         \/ /\ Complete(input_pointer) /\ pair /\ ~Complete(second)
            /\ Reads(input_pointer + 5) /\ Failed
            /\ UNCHANGED input_pointer
         \/ /\ Complete(input_pointer) /\ pair /\ Complete(second)
            /\ Reads(second + 5)
            /\ IF At(second) = Backslash /\ At(second + 1) = LetterU /\ low \in LowSurrogates
               THEN Emits(Utf8(FromPair(high, low)), 12)
               ELSE Failed /\ UNCHANGED input_pointer
  /\ UNCHANGED <<input, input_end, skipped_bytes>>

\* The terminator is written and the string handed over.
Finish ==
  /\ phase = "decode" /\ input_pointer >= input_end
  /\ phase' = "ok" /\ output' = Append(output, 0)
  /\ UNCHANGED <<input, input_pointer, input_end, skipped_bytes, allocated, highest>>

StringNext ==
  \/ MeasureByte \/ Allocate \/ DecodeByte \/ DecodeEscape \/ DecodeUtf16 \/ Finish

StringSpec == StringInit /\ [][StringNext]_stringVars

-----------------------------------------------------------------------------
(* PROPERTIES                                                              *)

\* "This is at most how much we need for the output" (cJSON.c:861): what is
\* written never exceeds the buffer, its terminator included, for any mix of
\* escapes.
OutputFits ==
  /\ phase = "decode" => Len(output) + 1 <= allocated
  /\ phase = "ok"     => Len(output) <= allocated

\* No byte behind the closing quote is read, however the last escape is cut off.
ReadsWithinLiteral == highest <= input_end
=============================================================================
