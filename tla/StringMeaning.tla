--------------------------- MODULE StringMeaning ---------------------------
(***************************************************************************)
(* What a string literal denotes, as code points, and what well-formed     *)
(* UTF-8 does, each defined without regard to how parse_string gets there. *)
(***************************************************************************)
EXTENDS JsonString

-----------------------------------------------------------------------------
(* UTF-8                                                                   *)

Continuations == 128 .. 191

\* The number of bytes in a character that begins with this one.
LengthFrom(lead) ==
  IF lead < 128 THEN 1 ELSE IF lead < 224 THEN 2 ELSE IF lead < 240 THEN 3 ELSE 4

\* The code points of two, three and four bytes.
Two(a, b) == (a - 192) * 64 + (b - 128)
Three(a, b, c) == (a - 224) * 4096 + (b - 128) * 64 + (c - 128)
Four(a, b, c, d) == (a - 240) * 262144 + (b - 128) * 4096 + (c - 128) * 64 + (d - 128)

\* The code point whose bytes begin at position i.
CodeAt(bytes, i) ==
  LET n == LengthFrom(bytes[i])
  IN  IF n = 1 THEN bytes[i]
      ELSE IF n = 2 THEN Two(bytes[i], bytes[i + 1])
      ELSE IF n = 3 THEN Three(bytes[i], bytes[i + 1], bytes[i + 2])
      ELSE Four(bytes[i], bytes[i + 1], bytes[i + 2], bytes[i + 3])

\* The code points of well-formed UTF-8, by those of its last bytes.
CodePoints(bytes) ==
  LET of[n \in 0 .. Len(bytes)] ==
        LET i == Len(bytes) + 1 - n
        IN  IF n = 0 \/ LengthFrom(bytes[i]) > n THEN <<>>
            ELSE <<CodeAt(bytes, i)>> \o of[n - LengthFrom(bytes[i])]
  IN  of[Len(bytes)]

-----------------------------------------------------------------------------
(* WHAT A LITERAL DENOTES                                                  *)

HexFrom(i) == \A k \in i .. i + 3 : Digit(At(k)) # -1

\* The number of a \u at position i, as a set.
Unit(i) ==
  IF At(i) = Backslash /\ At(i + 1) = LetterU /\ HexFrom(i + 2) THEN {Hex4(i + 2)} ELSE {}

Surrogates == HighSurrogates \cup LowSurrogates

\* The code point of a surrogate pair: ten bits of each.
PairOf(high, low) == 65536 + (high - 55296) * 1024 + (low - 56320)

\* The code point that is written at position i, and in how many bytes, as a set:
\* a character, an escape, a \u or two of them for one code point.
Written(i) ==
     {<<CodeAt(input, i), LengthFrom(At(i))>> :
        x \in {At(i)} \ ({Quote, Backslash} \cup Continuations)}
\cup {<<Escape[x], 2>> : x \in {At(i + 1) : b \in {At(i)} \cap {Backslash}} \cap DOMAIN Escape}
\cup {<<c, 6>> : c \in Unit(i) \ Surrogates}
\cup {<<PairOf(high, low), 12>> :
        high \in Unit(i) \cap HighSurrogates, low \in Unit(i + 6) \cap LowSurrogates}

\* The code points of the literal from position i up to its quote, as a set:
\* none if it is malformed.
Denoted(i) ==
  LET of[n \in 0 .. Len(input)] ==    \* of the last n bytes
        LET j == Len(input) + 1 - n
        IN  IF At(j) = Quote THEN {<<>>}
            ELSE UNION {{<<w[1]>> \o rest : rest \in of[n - w[2]]} :
                          w \in {w \in Written(j) : w[2] <= n}}
  IN  of[Len(input) + 1 - i]

-----------------------------------------------------------------------------
(* PROPERTIES                                                              *)

\* The literal is UTF-8, and every \u in it is followed by four digits.
Readable ==
  \A i \in 2 .. input_end :
    /\ At(i) < 248
    /\ At(i) >= 192 => \A k \in 1 .. LengthFrom(At(i)) - 1 : At(i + k) \in Continuations
    /\ At(i) \in Continuations => \E j \in 2 .. i - 1 : At(j) >= 192 /\ j + LengthFrom(At(j)) > i
    /\ At(i) = Backslash /\ At(i + 1) = LetterU => HexFrom(i + 2)

\* A literal that is decoded (its buffer could be allocated) is accepted exactly
\* if it is well formed, and the output is the UTF-8 of what it denotes, surrogate
\* pairs included.  Literals with \u but no number are left out: the code takes
\* it for \u0000.  So are those that are not UTF-8: the code copies them as they are.
DecodesLiteral ==
  Readable =>
    /\ phase = "ok" => Denoted(2) = {CodePoints(Front(output))}
    /\ phase = "failed" /\ highest > 0 => Denoted(2) = {}
=============================================================================
