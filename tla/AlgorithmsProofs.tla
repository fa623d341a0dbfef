-------------------------- MODULE AlgorithmsProofs --------------------------
(***************************************************************************)
(* Proofs about the two algorithms that MCAlgorithms runs, for every input *)
(* and every size.                                                         *)
(*                                                                         *)
(* parse_string: what is decoded fits into the buffer that was allocated   *)
(* from the measure, and nothing is read behind the literal.  The buffer   *)
(* has a byte for each byte of the literal, less one for each escape that  *)
(* was counted.  Decoding need not come by the same escapes: the digits of *)
(* \u are not looked at when they are measured, and may be backslashes.  So *)
(* the invariant speaks of how many escapes were counted up to each        *)
(* position, wherever decoding stands: no two of them begin next to each   *)
(* other, so that n bytes hold at most half as many.                       *)
(*                                                                         *)
(* What is decoded is what the literal denotes: up to where decoding       *)
(* stands, or the last character before, the output is the UTF-8 of what   *)
(* the literal begins with, and measuring found the quote that ends it,    *)
(* since the positions where it stopped are those where decoding does.     *)
(*                                                                         *)
(* The frame check: the CRC is a remainder of polynomials, and a burst of  *)
(* errors no longer than it does not go undetected.  Both rest on what a   *)
(* register holds while the bits of a byte have been put into it ahead of  *)
(* their time: the remainder of the bits before, and those bits on top.    *)
(***************************************************************************)
EXTENDS StringMeaning, FrameCheck, CommonLemmas, SequenceTheorems, FiniteSetTheorems

-----------------------------------------------------------------------------
(* THE LITERAL: THE INDUCTIVE INVARIANT                                    *)

\* e[p] is the number of escapes that were counted before position p of text s,
\* when n have been counted up to position end.
Counts(e, s, end, n) ==
  /\ e \in [Nat -> Nat] /\ e[2] = 0
  /\ \A p \in Nat \ {0, 1} : /\ e[p + 1] = e[p] \/ e[p + 1] = e[p] + 1
                             /\ e[p + 1] # e[p] => p \in DOMAIN s /\ s[p] = Backslash
                             /\ e[p + 2] <= e[p] + 1
  /\ \A p \in Nat : p >= end => e[p] = n
  /\ \A p \in 2 .. end : n <= e[p] + (end - p)
  /\ end > 2 => e[end - 1] = n

\* What has been decoded has no more bytes than what it was decoded from, less
\* the escapes that were counted in that.
Decoded(e) ==
  /\ Counts(e, input, input_end, skipped_bytes)
  /\ Len(output) + 2 + e[input_pointer] <= input_pointer

Types ==
  /\ input \in Seq(0 .. 255)
  /\ phase \in {"measure", "decode", "ok", "failed"}
  /\ input_pointer \in Nat
  /\ input_end \in Nat \ {0, 1}
  /\ skipped_bytes \in Nat
  /\ output \in Seq(Int)
  /\ highest \in 0 .. input_end

IInv ==
  /\ Types
  /\ phase = "measure" => /\ output = <<>> /\ input_pointer = 2
                          /\ \E e : Counts(e, input, input_end, skipped_bytes)
  /\ phase = "decode" => /\ allocated = Needed
                         /\ input_pointer \in 2 .. input_end + 1
                         /\ \E e : Decoded(e)
  /\ phase = "ok" => Len(output) <= allocated

-----------------------------------------------------------------------------
(* COUNTING                                                                *)

\* Nothing has been counted in nothing.
LEMMA CountsNone == ASSUME NEW s PROVE \E e : Counts(e, s, 2, 0)
<1> DEFINE e == [p \in Nat |-> 0]
<1>1. Counts(e, s, 2, 0)
  BY DEF Counts
<1> QED
  BY <1>1

\* A byte is measured.
LEMMA CountsByte ==
  ASSUME NEW s, NEW end \in Nat \ {0, 1}, NEW n \in Nat, NEW e, Counts(e, s, end, n)
  PROVE  Counts(e, s, end + 1, n)
BY DEF Counts

\* An escape is measured.
LEMMA CountsEscape ==
  ASSUME NEW s, NEW end \in Nat \ {0, 1}, NEW n \in Nat, NEW e, Counts(e, s, end, n),
         end \in DOMAIN s, s[end] = Backslash
  PROVE  \E d : Counts(d, s, end + 2, n + 1)
<1> DEFINE d == [p \in Nat |-> IF p <= end THEN e[p] ELSE n + 1]
<1>1. d \in [Nat -> Nat] /\ d[2] = 0
  BY DEF Counts
<1>2. \A p \in Nat : d[p] = IF p <= end THEN e[p] ELSE n + 1
  OBVIOUS
<1> HIDE DEF d
<1>3. e[end] = n
  BY DEF Counts
<1>4. ASSUME NEW p \in Nat \ {0, 1}
      PROVE  /\ d[p + 1] = d[p] \/ d[p + 1] = d[p] + 1
             /\ d[p + 1] # d[p] => p \in DOMAIN s /\ s[p] = Backslash
             /\ d[p + 2] <= d[p] + 1
  <2>1. CASE p + 2 <= end
    BY <1>2, <2>1 DEF Counts
  <2>2. CASE p + 1 = end
    <3>1. e[p] = n
      BY <2>2 DEF Counts
    <3> QED
      BY <1>2, <1>3, <2>2, <3>1
  <2>3. CASE p = end
    BY <1>2, <1>3, <2>3
  <2>4. CASE p > end
    BY <1>2, <2>4
  <2> QED
    BY <2>1, <2>2, <2>3, <2>4
<1>5. \A p \in Nat : p >= end + 2 => d[p] = n + 1
  BY <1>2
<1>6. ASSUME NEW p \in 2 .. end + 2 PROVE n + 1 <= d[p] + (end + 2 - p)
  <2>1. CASE p <= end
    <3>1. n <= e[p] + (end - p) /\ d[p] = e[p] /\ e[p] \in Nat
      BY <1>2, <2>1 DEF Counts
    <3> QED
      BY <3>1
  <2>2. CASE p > end
    BY <1>2, <2>2
  <2> QED
    BY <2>1, <2>2
<1> DEFINE m == end + 2
           k == n + 1
<1>7. m \in Nat /\ d[m - 1] = k
  BY <1>2
<1>8. Counts(d, s, m, k)
  <2>1. (\A p \in Nat : p >= m => d[p] = k) /\ \A p \in 2 .. m : k <= d[p] + (m - p)
    BY <1>5, <1>6
  <2> HIDE DEF m, k
  <2> QED
    BY <1>1, <1>4, <1>7, <2>1 DEF Counts
<1> QED
  BY <1>8

\* So many escapes can have been counted in some bytes.
LEMMA CountsApart ==
  ASSUME NEW s, NEW end \in Nat \ {0, 1}, NEW n \in Nat, NEW e, Counts(e, s, end, n),
         NEW p \in Nat \ {0, 1}
  PROVE  /\ e[p] \in Nat
         /\ ~(p \in DOMAIN s /\ s[p] = Backslash) => e[p + 1] = e[p]
         /\ e[p + 2] <= e[p] + 1
         /\ e[p + 6] <= e[p] + 3
         /\ e[p + 12] <= e[p] + 6
<1>1. \A q \in Nat \ {0, 1} : e[q] \in Nat /\ e[q + 2] <= e[q] + 1
  BY DEF Counts
<1>2. ~(p \in DOMAIN s /\ s[p] = Backslash) => e[p + 1] = e[p]
  BY DEF Counts
<1>3. ASSUME NEW q \in Nat \ {0, 1} PROVE e[q + 6] <= e[q] + 3
  <2>1. e[q + 2] <= e[q] + 1 /\ e[(q + 2) + 2] <= e[q + 2] + 1
        /\ e[(q + 4) + 2] <= e[q + 4] + 1
    BY <1>1
  <2>2. (q + 2) + 2 = q + 4 /\ (q + 4) + 2 = q + 6
    OBVIOUS
  <2>3. e[q] \in Nat /\ e[q + 2] \in Nat /\ e[q + 4] \in Nat /\ e[q + 6] \in Nat
    BY <1>1
  <2> QED
    BY <2>1, <2>2, <2>3
<1>4. e[p + 12] <= e[p] + 6
  <2>1. e[p + 6] <= e[p] + 3 /\ e[(p + 6) + 6] <= e[p + 6] + 3
    BY <1>3
  <2>2. (p + 6) + 6 = p + 12
    OBVIOUS
  <2>3. e[p] \in Nat /\ e[p + 6] \in Nat /\ e[p + 12] \in Nat
    BY <1>1
  <2> QED
    BY <2>1, <2>2, <2>3
<1> QED
  BY <1>1, <1>2, <1>3, <1>4

-----------------------------------------------------------------------------
(* CODE POINTS AND THEIR BYTES                                             *)

LargestUnit == 65535

\* What is read at a position is a byte, also where there is nothing.
LEMMA AtIs ==
  ASSUME input \in Seq(0 .. 255), NEW i
  PROVE  At(i) \in 0 .. 255 /\ (At(i) = Backslash => i \in DOMAIN input /\ input[i] = Backslash)
<1>1. i \in DOMAIN input => input[i] \in 0 .. 255
  BY ElementOfSeq, LenProperties
<1>2. 0 # Backslash
  BY DEF Backslash
<1> QED
  BY <1>1, <1>2 DEF At

\* Four digits make a number of 16 bits, and if one is none, 0.
LEMMA Hex4Is ==
  ASSUME input \in Seq(0 .. 255), NEW i \in Nat
  PROVE  Hex4(i) \in Nat /\ Hex4(i) <= LargestUnit
<1>1. \A b \in 0 .. 255 : Digit(b) \in -1 .. 15
  BY SMT DEF Digit
<1>2. \A k \in 0 .. 3 : Digit(At(i + k)) \in -1 .. 15
  <2> TAKE k \in 0 .. 3
  <2> DEFINE a == At(i + k)
  <2>1. a \in 0 .. 255
    BY AtIs
  <2> HIDE DEF a
  <2>2. Digit(a) \in -1 .. 15
    BY <1>1, <2>1
  <2> QED
    BY <2>2 DEF a
<1> DEFINE d == [k \in 0 .. 3 |-> Digit(At(i + k))]
<1>3. \A k \in 0 .. 3 : d[k] \in -1 .. 15
  BY <1>2
<1>4. Hex4(i) = IF \E k \in 0 .. 3 : d[k] = -1 THEN 0
                ELSE 4096 * d[0] + 256 * d[1] + 16 * d[2] + d[3]
  BY Zenon DEF Hex4
<1> HIDE DEF d
<1>5. CASE \E k \in 0 .. 3 : d[k] = -1
  BY <1>4, <1>5, SMT DEF LargestUnit
<1>6. CASE ~ \E k \in 0 .. 3 : d[k] = -1
  <2>1. d[0] \in -1 .. 15 /\ d[1] \in -1 .. 15 /\ d[2] \in -1 .. 15 /\ d[3] \in -1 .. 15
    BY <1>3, SMT
  <2>2. d[0] # -1 /\ d[1] # -1 /\ d[2] # -1 /\ d[3] # -1
    BY <1>6, SMT
  <2>3. d[0] \in 0 .. 15 /\ d[1] \in 0 .. 15 /\ d[2] \in 0 .. 15 /\ d[3] \in 0 .. 15
    BY <2>1, <2>2, SMT
  <2>4. Hex4(i) = 4096 * d[0] + 256 * d[1] + 16 * d[2] + d[3]
    BY <1>4, <1>6, SMT
  <2>5. PICK w \in 0 .. 15, x \in 0 .. 15, y \in 0 .. 15, z \in 0 .. 15 :
          w = d[0] /\ x = d[1] /\ y = d[2] /\ z = d[3]
    BY <2>3, Zenon
  <2> DEFINE v == 4096 * w + 256 * x + 16 * y + z
  <2>6. v \in Nat /\ v <= LargestUnit
    BY SMT DEF LargestUnit
  <2>7. Hex4(i) = v
    BY <2>4, <2>5, SMT
  <2> HIDE DEF v
  <2> QED
    BY <2>6, <2>7, Zenon
<1> QED
  BY <1>5, <1>6

\* A surrogate pair makes a code point.
LEMMA FromPairIs == ASSUME NEW high \in Nat, NEW low \in Nat PROVE FromPair(high, low) \in Nat
<1>1. high % 1024 \in Nat /\ low % 1024 \in Nat
  BY SMT
<1> QED
  BY <1>1, SMT DEF FromPair

\* A code point of one unit takes at most three bytes, any other four.
LEMMA Utf8Is ==
  ASSUME NEW c \in Nat
  PROVE  /\ Utf8(c) \in Seq(Int) /\ Len(Utf8(c)) <= 4
         /\ c <= LargestUnit => Len(Utf8(c)) <= 3
<1> DEFINE tail(n) == 128 + ((c \div n) % 64)
           a == <<192 + c \div 64, tail(1)>>
           b == <<224 + c \div 4096, tail(64), tail(1)>>
           f == <<240 + c \div 262144, tail(4096), tail(64), tail(1)>>
<1>1. Utf8(c) = IF c < 128 THEN <<c>> ELSE IF c < 2048 THEN a ELSE IF c < 65536 THEN b ELSE f
  BY SMT DEF Utf8
<1>2. \A n \in Nat \ {0} : c \div n \in Int /\ tail(n) \in Int
  BY SMT
<1>3. a \in Seq(Int) /\ Len(a) <= 3 /\ Len(a) <= 4
  BY <1>2, SMT
<1>4. b \in Seq(Int) /\ Len(b) <= 3 /\ Len(b) <= 4
  BY <1>2, SMT
<1>5. f \in Seq(Int) /\ Len(f) <= 4
  BY <1>2, SMT
<1>6. <<c>> \in Seq(Int) /\ Len(<<c>>) <= 3 /\ Len(<<c>>) <= 4
  BY SMT
<1> HIDE DEF a, b, f
<1>7. Utf8(c) \in {<<c>>, a, b, f} /\ (c <= LargestUnit => Utf8(c) \in {<<c>>, a, b})
  BY <1>1, SMT DEF LargestUnit
<1> QED
  BY <1>3, <1>4, <1>5, <1>6, <1>7, Zenon

-----------------------------------------------------------------------------
(* THE LITERAL: THE STEPS                                                  *)

LEMMA InitInv == StringInit => IInv
<1> SUFFICES ASSUME StringInit PROVE IInv
  OBVIOUS
<1>1. PICK t \in Literals : input = Append(t, 0)
  BY DEF StringInit
<1>2. input \in Seq(0 .. 255)
  <2>1. t \in Seq(0 .. 255) /\ 0 \in 0 .. 255
    BY LiteralsAssumption
  <2> QED
    BY <1>1, <2>1, AppendProperties
<1>3. output \in Seq(Int)
  BY DEF StringInit
<1>4. Types
  BY <1>2, <1>3 DEF Types, StringInit
<1> QED
  BY <1>4, CountsNone DEF IInv, StringInit

\* Reading within the literal.
LEMMA ReadsWithin ==
  ASSUME Types, NEW last \in Nat, last <= input_end, Reads(last)
  PROVE  highest' \in 0 .. input_end
<1>1. highest' = Max({highest, last}) /\ highest \in Int /\ last \in Int
  BY DEF Types, Reads
<1>2. \E x \in {highest, last} : \A y \in {highest, last} : x >= y
  BY <1>1
<1>3. Max({highest, last}) \in {highest, last}
  BY <1>2 DEF Max
<1> QED
  BY <1>1, <1>3 DEF Types

LEMMA MeasureByteInv == IInv /\ MeasureByte => IInv'
<1> SUFFICES ASSUME IInv, MeasureByte PROVE IInv'
  OBVIOUS
<1>1. Types /\ phase = "measure" /\ output = <<>> /\ input_pointer = 2
  BY DEF IInv, MeasureByte
<1>2. PICK e : Counts(e, input, input_end, skipped_bytes)
  BY <1>1 DEF IInv
<1>3. UNCHANGED <<input, input_pointer, highest>>
  BY DEF MeasureByte
<1>4. CASE /\ input_end' = input_end + 1
           /\ UNCHANGED <<phase, skipped_bytes, allocated, output>>
  <2>1. Types'
    BY <1>1, <1>3, <1>4 DEF Types
  <2>2. Counts(e, input, input_end + 1, skipped_bytes)
    BY <1>1, <1>2, CountsByte DEF Types
  <2>3. Counts(e, input', input_end', skipped_bytes')
    BY <1>3, <1>4, <2>2
  <2> QED
    BY <1>1, <1>3, <1>4, <2>1, <2>3 DEF IInv
<1>5. CASE /\ At(input_end) = Backslash
           /\ input_end' = input_end + 2 /\ skipped_bytes' = skipped_bytes + 1
           /\ UNCHANGED <<phase, allocated, output>>
  <2>1. Types'
    BY <1>1, <1>3, <1>5 DEF Types
  <2>2. input_end \in DOMAIN input /\ input[input_end] = Backslash
    BY <1>1, <1>5, AtIs DEF Types
  <2>3. PICK d : Counts(d, input, input_end + 2, skipped_bytes + 1)
    BY <1>1, <1>2, <2>2, CountsEscape DEF Types
  <2>4. Counts(d, input', input_end', skipped_bytes')
    BY <1>3, <1>5, <2>3
  <2> QED
    BY <1>1, <1>3, <1>5, <2>1, <2>4 DEF IInv
<1>6. CASE Failed /\ UNCHANGED <<input_end, skipped_bytes>>
  BY <1>1, <1>3, <1>6 DEF Types, IInv, Failed
<1> QED
  BY <1>4, <1>5, <1>6 DEF MeasureByte

LEMMA AllocateInv == IInv /\ Allocate => IInv'
<1> SUFFICES ASSUME IInv, Allocate PROVE IInv'
  OBVIOUS
<1>1. Types /\ phase = "measure" /\ output = <<>> /\ input_pointer = 2
  BY DEF IInv, Allocate
<1>2. PICK e : Counts(e, input, input_end, skipped_bytes)
  BY <1>1 DEF IInv
<1>3. UNCHANGED <<input, input_pointer, input_end, skipped_bytes, highest>>
  BY DEF Allocate
<1>4. CASE allocated' = Needed /\ phase' = "decode" /\ UNCHANGED output
  <2>1. Types'
    BY <1>1, <1>3, <1>4 DEF Types
  <2>2. Decoded(e)
    <3>1. e[input_pointer] = 0 /\ Len(output) = 0
      BY <1>1, <1>2 DEF Counts
    <3> QED
      BY <1>1, <1>2, <3>1 DEF Decoded
  <2>3. Decoded(e)'
    BY <1>3, <1>4, <2>2 DEF Decoded
  <2>4. allocated' = Needed'
    BY <1>3, <1>4 DEF Needed
  <2>5. input_pointer' \in 2 .. input_end' + 1
    BY <1>1, <1>3 DEF Types
  <2> QED
    BY <1>4, <2>1, <2>3, <2>4, <2>5 DEF IInv
<1>5. CASE Failed
  BY <1>1, <1>3, <1>5 DEF Types, IInv, Failed
<1> QED
  BY <1>4, <1>5 DEF Allocate

\* Decoding some bytes from as many that allow for them.
LEMMA DecodesMore ==
  ASSUME Types, NEW e, Decoded(e), input_pointer \in Nat \ {0, 1}, NEW bytes \in Seq(Int),
         NEW length \in Nat, Len(bytes) + e[input_pointer + length] <= e[input_pointer] + length,
         input_pointer + length <= input_end + 1, Emits(bytes, length),
         UNCHANGED <<input, input_end, skipped_bytes>>
  PROVE  /\ Decoded(e)' /\ output' \in Seq(Int)
         /\ input_pointer' \in 2 .. input_end' + 1
<1>1. /\ output' = output \o bytes
      /\ input_pointer' = input_pointer + length
  BY DEF Emits
<1>2. output' \in Seq(Int) /\ Len(output') = Len(output) + Len(bytes)
  BY <1>1, ConcatProperties DEF Types
<1>3. Counts(e, input', input_end', skipped_bytes')
  BY DEF Decoded
<1>4. Len(output') + 2 + e[input_pointer'] <= input_pointer'
  <2>1. e[input_pointer] \in Nat /\ e[input_pointer + length] \in Nat
    BY DEF Decoded, Counts
  <2>2. Len(output) \in Nat /\ Len(bytes) \in Nat
    BY LenProperties DEF Types
  <2>3. Len(output) + 2 + e[input_pointer] <= input_pointer
    BY DEF Decoded
  <2> QED
    BY <1>1, <1>2, <2>1, <2>2, <2>3
<1>5. Decoded(e)'
  BY <1>3, <1>4 DEF Decoded
<1>6. input_pointer' \in 2 .. input_end' + 1
  BY <1>1 DEF Types
<1> QED
  BY <1>2, <1>5, <1>6

\* What a step of the loop keeps, once it is known to have decoded rightly.
LEMMA StepKeeps ==
  ASSUME IInv, phase = "decode", NEW e, UNCHANGED <<input, input_end, skipped_bytes>>,
         highest' \in 0 .. input_end,
         \/ Failed /\ UNCHANGED input_pointer
         \/ /\ UNCHANGED <<phase, allocated>>
            /\ Decoded(e)' /\ output' \in Seq(Int)
            /\ input_pointer' \in 2 .. input_end' + 1
  PROVE  IInv'
<1>1. Types /\ allocated = Needed
  BY DEF IInv
<1>2. CASE Failed /\ UNCHANGED input_pointer
  BY <1>1, <1>2 DEF Types, IInv, Failed
<1>3. CASE /\ UNCHANGED <<phase, allocated>>
           /\ Decoded(e)' /\ output' \in Seq(Int)
           /\ input_pointer' \in 2 .. input_end' + 1
  <2>1. Types'
    BY <1>1, <1>3 DEF Types
  <2>2. allocated' = Needed'
    BY <1>1, <1>3 DEF Needed
  <2> QED
    BY <1>3, <2>1, <2>2 DEF IInv
<1> QED
  BY <1>2, <1>3

LEMMA DecodeByteInv == IInv /\ DecodeByte => IInv'
<1> SUFFICES ASSUME IInv, DecodeByte PROVE IInv'
  OBVIOUS
<1>1. /\ Types /\ phase = "decode" /\ input_pointer < input_end
      /\ UNCHANGED <<input, input_end, skipped_bytes>>
  BY DEF IInv, DecodeByte
<1>2. PICK e : Decoded(e)
  BY <1>1 DEF IInv
<1>3. input_pointer \in Nat \ {0, 1} /\ input_end \in Nat
  BY <1>1 DEF IInv, Types
<1> DEFINE bytes == <<At(input_pointer)>>
<1>4. bytes \in Seq(Int) /\ Len(bytes) = 1
  <2>1. At(input_pointer) \in 0 .. 255
    BY <1>1, AtIs DEF Types
  <2> QED
    BY <2>1
<1>5. Emits(bytes, 1) /\ Reads(input_pointer)
  BY DEF DecodeByte
<1> HIDE DEF bytes
<1>6. highest' \in 0 .. input_end
  BY <1>1, <1>3, <1>5, ReadsWithin
<1>7. e[input_pointer + 1] = e[input_pointer] /\ e[input_pointer] \in Nat
  <2>1. ~(input_pointer \in DOMAIN input /\ input[input_pointer] = Backslash)
    BY DEF DecodeByte, At
  <2> QED
    BY <1>1, <1>2, <1>3, <2>1, CountsApart DEF Decoded, Types
<1>8. /\ Decoded(e)' /\ output' \in Seq(Int)
      /\ input_pointer' \in 2 .. input_end' + 1
  <2>1. /\ Len(bytes) + e[input_pointer + 1] <= e[input_pointer] + 1
        /\ input_pointer + 1 <= input_end + 1 /\ 1 \in Nat
    BY <1>1, <1>3, <1>4, <1>7
  <2> QED
    BY <1>1, <1>2, <1>3, <1>4, <1>5, <2>1, DecodesMore, Zenon
<1>9. UNCHANGED <<phase, allocated>>
  BY <1>5 DEF Emits
<1> QED
  BY <1>1, <1>6, <1>8, <1>9, StepKeeps

LEMMA DecodeEscapeInv == IInv /\ DecodeEscape => IInv'
<1> SUFFICES ASSUME IInv, DecodeEscape PROVE IInv'
  OBVIOUS
<1>1. /\ Types /\ phase = "decode" /\ input_pointer < input_end
      /\ UNCHANGED <<input, input_end, skipped_bytes>>
  BY DEF IInv, DecodeEscape
<1>2. PICK e : Decoded(e)
  BY <1>1 DEF IInv
<1>3. input_pointer \in Nat \ {0, 1} /\ input_end \in Nat
  BY <1>1 DEF IInv, Types
<1>4. Reads(input_pointer + 1)
  BY DEF DecodeEscape
<1>5. highest' \in 0 .. input_end
  BY <1>1, <1>3, <1>4, ReadsWithin
<1> DEFINE escaped == At(input_pointer + 1)
           bytes == <<Escape[escaped]>>
<1>6. CASE escaped \in DOMAIN Escape
  <2>1. Emits(bytes, 2)
    BY <1>6 DEF DecodeEscape
  <2>2. bytes \in Seq(Int) /\ Len(bytes) = 1
    <3>1. Escape[escaped] \in Int
      BY <1>6 DEF Escape, Quote, Backslash
    <3> QED
      BY <3>1
  <2> HIDE DEF bytes
  <2>3. /\ e[input_pointer + 2] <= e[input_pointer] + 1
        /\ e[input_pointer] \in Nat /\ e[input_pointer + 2] \in Nat
    BY <1>1, <1>2, <1>3, CountsApart DEF Decoded, Types, Counts
  <2>4. /\ Decoded(e)' /\ output' \in Seq(Int)
        /\ input_pointer' \in 2 .. input_end' + 1
    <3>1. /\ Len(bytes) + e[input_pointer + 2] <= e[input_pointer] + 2
          /\ input_pointer + 2 <= input_end + 1 /\ 2 \in Nat
      BY <1>1, <1>3, <2>2, <2>3
    <3> QED
      BY <1>1, <1>2, <1>3, <2>1, <2>2, <3>1, DecodesMore, Zenon
  <2>5. UNCHANGED <<phase, allocated>>
    BY <2>1 DEF Emits
  <2> QED
    BY <1>1, <1>5, <2>4, <2>5, StepKeeps
<1>7. CASE escaped \notin DOMAIN Escape
  <2>1. Failed /\ UNCHANGED input_pointer
    BY <1>7 DEF DecodeEscape
  <2> QED
    BY <1>1, <1>5, <2>1, StepKeeps
<1> QED
  BY <1>6, <1>7

LEMMA DecodeUtf16Inv == IInv /\ DecodeUtf16 => IInv'
<1> SUFFICES ASSUME IInv, DecodeUtf16 PROVE IInv'
  OBVIOUS
<1>1. /\ Types /\ phase = "decode" /\ input_pointer < input_end
      /\ UNCHANGED <<input, input_end, skipped_bytes>>
  BY DEF IInv, DecodeUtf16
<1>2. PICK e : Decoded(e)
  BY <1>1 DEF IInv
<1>3. input_pointer \in Nat \ {0, 1} /\ input_end \in Nat
  BY <1>1 DEF IInv, Types
<1>4. /\ e[input_pointer + 6] <= e[input_pointer] + 3
      /\ e[input_pointer + 12] <= e[input_pointer] + 6
      /\ e[input_pointer] \in Nat /\ e[input_pointer + 6] \in Nat
      /\ e[input_pointer + 12] \in Nat
  <2>1. /\ e[input_pointer + 6] <= e[input_pointer] + 3
        /\ e[input_pointer + 12] <= e[input_pointer] + 6
    <3>1. Counts(e, input, input_end, skipped_bytes)
      BY <1>2 DEF Decoded
    <3>2. input_end \in Nat \ {0, 1} /\ skipped_bytes \in Nat
      BY <1>1 DEF Types
    <3> QED
      BY <1>3, <3>1, <3>2, CountsApart, Zenon
  <2>2. \A p \in Nat : e[p] \in Nat
    BY <1>2 DEF Decoded, Counts
  <2> QED
    BY <1>3, <2>1, <2>2
<1> DEFINE second == input_pointer + 6
           high == Hex4(input_pointer + 2)
           low == Hex4(second + 2)
<1>5. /\ high \in Nat /\ high <= LargestUnit
      /\ low \in Nat
  <2>1. input_pointer + 2 \in Nat /\ second + 2 \in Nat
    BY <1>3
  <2> QED
    BY <1>1, <2>1, Hex4Is DEF Types
<1>6. \/ Reads(input_pointer + 1) /\ Failed /\ UNCHANGED input_pointer
      \/ Complete(input_pointer) /\ Reads(input_pointer + 5)
         /\ ((Failed /\ UNCHANGED input_pointer) \/ Emits(Utf8(high), 6))
      \/ Complete(second) /\ Reads(second + 5)
         /\ ((Failed /\ UNCHANGED input_pointer) \/ Emits(Utf8(FromPair(high, low)), 12))
  BY Zenon DEF DecodeUtf16
<1> HIDE DEF high, low
<1>7. highest' \in 0 .. input_end
  <2>1. CASE Reads(input_pointer + 1)
    BY <1>1, <1>3, <2>1, ReadsWithin
  <2>2. CASE Complete(input_pointer) /\ Reads(input_pointer + 5)
    <3>1. input_pointer + 5 \in Nat /\ input_pointer + 5 <= input_end
      BY <1>3, <2>2 DEF Complete
    <3> QED
      BY <1>1, <2>2, <3>1, ReadsWithin
  <2>3. CASE Complete(second) /\ Reads(second + 5)
    <3>1. second + 5 \in Nat /\ second + 5 <= input_end
      BY <1>3, <2>3 DEF Complete
    <3> QED
      BY <1>1, <2>3, <3>1, ReadsWithin
  <2> QED
    BY <1>6, <2>1, <2>2, <2>3
<1>8. CASE Failed /\ UNCHANGED input_pointer
  BY <1>1, <1>7, <1>8, StepKeeps
<1>9. CASE Complete(input_pointer) /\ Emits(Utf8(high), 6)
  <2>1. Utf8(high) \in Seq(Int) /\ Len(Utf8(high)) <= 3
    BY <1>5, Utf8Is
  <2> DEFINE bytes == Utf8(high)
  <2>2. bytes \in Seq(Int) /\ Len(bytes) \in Nat /\ Len(bytes) <= 3 /\ Emits(bytes, 6)
    BY <1>9, <2>1, LenProperties
  <2> HIDE DEF bytes
  <2>3. /\ Len(bytes) + e[input_pointer + 6] <= e[input_pointer] + 6
        /\ input_pointer + 6 <= input_end + 1 /\ 6 \in Nat
    BY <1>3, <1>4, <1>9, <2>2 DEF Complete
  <2>4. /\ Decoded(e)' /\ output' \in Seq(Int)
        /\ input_pointer' \in 2 .. input_end' + 1
    BY <1>1, <1>2, <1>3, <2>2, <2>3, DecodesMore, Zenon
  <2>5. UNCHANGED <<phase, allocated>>
    BY <2>2 DEF Emits
  <2> QED
    BY <1>1, <1>7, <2>4, <2>5, StepKeeps
<1>10. CASE Complete(second) /\ Emits(Utf8(FromPair(high, low)), 12)
  <2> DEFINE bytes == Utf8(FromPair(high, low))
  <2>1. FromPair(high, low) \in Nat
    BY <1>5, FromPairIs
  <2>2. bytes \in Seq(Int) /\ Len(bytes) <= 4
    BY <2>1, Utf8Is
  <2>3. Len(bytes) \in Nat /\ Emits(bytes, 12)
    BY <1>10, <2>2, LenProperties
  <2> HIDE DEF bytes
  <2>4. /\ Len(bytes) + e[input_pointer + 12] <= e[input_pointer] + 12
        /\ input_pointer + 12 <= input_end + 1 /\ 12 \in Nat
    BY <1>3, <1>4, <1>10, <2>2, <2>3 DEF Complete
  <2>5. /\ Decoded(e)' /\ output' \in Seq(Int)
        /\ input_pointer' \in 2 .. input_end' + 1
    BY <1>1, <1>2, <1>3, <2>2, <2>3, <2>4, DecodesMore, Zenon
  <2>6. UNCHANGED <<phase, allocated>>
    BY <2>3 DEF Emits
  <2> QED
    BY <1>1, <1>7, <2>5, <2>6, StepKeeps
<1> QED
  BY <1>6, <1>8, <1>9, <1>10

\* All is decoded, and perhaps a byte behind the literal: the terminator fits.
LEMMA OutputFitsNow == IInv => OutputFits
<1> SUFFICES ASSUME IInv PROVE OutputFits
  OBVIOUS
<1>1. ASSUME phase = "decode" PROVE Len(output) + 1 <= allocated
  <2>1. Types /\ allocated = Needed /\ input_pointer \in 2 .. input_end + 1
    BY <1>1 DEF IInv
  <2>2. PICK e : Decoded(e)
    BY <1>1 DEF IInv
  <2>3. e[input_pointer] \in Nat /\ Len(output) \in Nat /\ input_end \in Nat
        /\ skipped_bytes \in Nat
    BY <2>1, <2>2, LenProperties DEF Decoded, Counts, Types
  <2>4. Len(output) + 2 + e[input_pointer] <= input_pointer
    BY <2>2 DEF Decoded
  <2>5. CASE input_pointer <= input_end
    <3>1. skipped_bytes <= e[input_pointer] + (input_end - input_pointer)
      BY <2>1, <2>2, <2>3, <2>5 DEF Decoded, Counts
    <3> QED
      BY <2>1, <2>3, <2>4, <3>1 DEF Needed
  <2>6. CASE input_pointer = input_end + 1
    <3>1. e[input_pointer] = skipped_bytes
      BY <2>1, <2>2, <2>3, <2>6 DEF Decoded, Counts
    <3> QED
      BY <2>1, <2>3, <2>4, <2>6, <3>1 DEF Needed
  <2> QED
    BY <2>1, <2>3, <2>5, <2>6
<1>2. phase = "ok" => Len(output) <= allocated
  BY DEF IInv
<1> QED
  BY <1>1, <1>2 DEF OutputFits

LEMMA FinishInv == IInv /\ Finish => IInv'
<1> SUFFICES ASSUME IInv, Finish PROVE IInv'
  OBVIOUS
<1>1. Types /\ phase = "decode" /\ phase' = "ok" /\ output' = Append(output, 0)
      /\ UNCHANGED <<input, input_pointer, input_end, skipped_bytes, allocated, highest>>
  BY DEF IInv, Finish
<1>2. Len(output) + 1 <= allocated
  BY <1>1, OutputFitsNow DEF OutputFits
<1>3. output' \in Seq(Int) /\ Len(output') = Len(output) + 1
  BY <1>1, AppendProperties DEF Types
<1>4. Types'
  BY <1>1, <1>3 DEF Types
<1> QED
  BY <1>1, <1>2, <1>3, <1>4 DEF IInv

-----------------------------------------------------------------------------
(* UTF-8                                                                   *)

LEMMA LengthFromIs == ASSUME NEW lead \in Int PROVE LengthFrom(lead) \in 1 .. 4
BY DEF LengthFrom

\* The code points of bytes, by those of its last n.
Points(f, bytes) ==
  /\ f \in [0 .. Len(bytes) -> Seq(Int)]
  /\ CodePoints(bytes) = f[Len(bytes)]
  /\ \A n \in 0 .. Len(bytes) :
       LET i == Len(bytes) + 1 - n
       IN  f[n] = IF n = 0 \/ LengthFrom(bytes[i]) > n THEN <<>>
                  ELSE <<CodeAt(bytes, i)>> \o f[n - LengthFrom(bytes[i])]

LEMMA CodesAreNumbers ==
  ASSUME NEW a \in Int, NEW b \in Int, NEW c \in Int, NEW d \in Int
  PROVE  Two(a, b) \in Int /\ Three(a, b, c) \in Int /\ Four(a, b, c, d) \in Int
BY SMT DEF Two, Three, Four

LEMMA CodeAtIs ==
  ASSUME NEW bytes \in Seq(Int), NEW i \in 1 .. Len(bytes),
         i + LengthFrom(bytes[i]) <= Len(bytes) + 1
  PROVE  CodeAt(bytes, i) \in Int
<1> DEFINE n == LengthFrom(bytes[i])
<1>1. \A k \in 1 .. Len(bytes) : bytes[k] \in Int
  BY ElementOfSeq
<1>2. Len(bytes) \in Nat
  BY LenProperties
<1>3. n \in 1 .. 4 /\ bytes[i] \in Int
  BY <1>1, LengthFromIs
<1>4. i + n <= Len(bytes) + 1
  OBVIOUS
<1>5. CodeAt(bytes, i) =
        IF n = 1 THEN bytes[i]
        ELSE IF n = 2 THEN Two(bytes[i], bytes[i + 1])
        ELSE IF n = 3 THEN Three(bytes[i], bytes[i + 1], bytes[i + 2])
        ELSE Four(bytes[i], bytes[i + 1], bytes[i + 2], bytes[i + 3])
  BY Zenon DEF CodeAt
<1> HIDE DEF n
<1>6. /\ n >= 2 => i + 1 \in 1 .. Len(bytes)
      /\ n >= 3 => i + 2 \in 1 .. Len(bytes)
      /\ n >= 4 => i + 3 \in 1 .. Len(bytes)
  BY <1>2, <1>3, <1>4
<1>7. /\ n >= 2 => bytes[i + 1] \in Int
      /\ n >= 3 => bytes[i + 2] \in Int
      /\ n >= 4 => bytes[i + 3] \in Int
  BY <1>1, <1>6
<1>8. CASE n = 1
  BY <1>3, <1>5, <1>8
<1>9. CASE n = 2
  <2>1. CodeAt(bytes, i) = Two(bytes[i], bytes[i + 1]) /\ bytes[i + 1] \in Int
    BY <1>5, <1>7, <1>9
  <2> QED BY <1>3, <2>1, CodesAreNumbers
<1>10. CASE n = 3
  <2>1. /\ CodeAt(bytes, i) = Three(bytes[i], bytes[i + 1], bytes[i + 2])
        /\ bytes[i + 1] \in Int /\ bytes[i + 2] \in Int
    BY <1>5, <1>7, <1>10
  <2> QED BY <1>3, <2>1, CodesAreNumbers
<1>11. CASE n = 4
  <2>1. /\ CodeAt(bytes, i) = Four(bytes[i], bytes[i + 1], bytes[i + 2], bytes[i + 3])
        /\ bytes[i + 1] \in Int /\ bytes[i + 2] \in Int /\ bytes[i + 3] \in Int
    BY <1>5, <1>7, <1>11
  <2>2. SUFFICES Four(bytes[i], bytes[i + 1], bytes[i + 2], bytes[i + 3]) \in Int
    BY <2>1
  <2> QED BY <1>3, <2>1, CodesAreNumbers
<1>12. n = 1 \/ n = 2 \/ n = 3 \/ n = 4
  BY <1>3
<1> QED
  BY <1>8, <1>9, <1>10, <1>11, <1>12

LEMMA PointsOf == ASSUME NEW bytes \in Seq(Int) PROVE \E f : Points(f, bytes)
<1> DEFINE N == Len(bytes)
           L(n) == LengthFrom(bytes[N + 1 - n])
           Step(n, g) == IF n = 0 \/ L(n) > n THEN <<>>
                         ELSE <<CodeAt(bytes, N + 1 - n)>> \o g[n - L(n)]
           Eqn(f) == f = [n \in 0 .. N |-> Step(n, f)]
           F == CHOOSE f : Eqn(f)
           step == [n \in 0 .. N |-> [g \in [0 .. N -> Seq(Int)] |-> Step(n, g)]]
<1>1. N \in Nat
  BY LenProperties
<1>2. ASSUME NEW n \in 1 .. N PROVE L(n) \in 1 .. 4
  <2>1. N + 1 - n \in 1 .. N
    BY <1>1
  <2>2. bytes[N + 1 - n] \in Int
    BY <2>1, ElementOfSeq
  <2> QED BY <2>2, LengthFromIs
<1>3. ASSUME NEW n \in 0 .. N, NEW g \in [0 .. N -> Seq(Int)] PROVE Step(n, g) \in Seq(Int)
  <2>1. CASE n = 0 \/ L(n) > n
    BY <2>1
  <2>2. CASE ~(n = 0 \/ L(n) > n)
    <3>1. n \in 1 .. N /\ L(n) \in 1 .. 4 /\ L(n) <= n
      BY <1>1, <1>2, <2>2
    <3>2. CodeAt(bytes, N + 1 - n) \in Int
      <4>1. N + 1 - n \in 1 .. N /\ (N + 1 - n) + L(n) <= N + 1
        BY <1>1, <3>1
      <4> QED BY <4>1, CodeAtIs
    <3>3. n - L(n) \in 0 .. N
      BY <1>1, <3>1
    <3>4. g[n - L(n)] \in Seq(Int)
      BY <3>3
    <3>5. <<CodeAt(bytes, N + 1 - n)>> \in Seq(Int)
      BY <3>2
    <3> HIDE DEF L
    <3> QED BY <2>2, <3>4, <3>5, ConcatProperties
  <2> QED BY <2>1, <2>2
<1>4. step \in [0 .. N -> [[0 .. N -> Seq(Int)] -> Seq(Int)]]
  <2> HIDE DEF Step
  <2> QED BY <1>3
<1>5. Earlier(step, N, Seq(Int))
  <2> SUFFICES ASSUME NEW k \in 0 .. N, NEW g \in [0 .. N -> Seq(Int)], NEW h \in [0 .. N -> Seq(Int)],
                      \A j \in 0 .. k - 1 : g[j] = h[j]
               PROVE  step[k][g] = step[k][h]
    BY DEF Earlier
  <2>1. Step(k, g) = Step(k, h)
    <3>1. CASE k = 0 \/ L(k) > k
      BY <3>1
    <3>2. CASE ~(k = 0 \/ L(k) > k)
      <4>1. L(k) \in 1 .. 4
        BY <1>1, <1>2, <3>2
      <4>2. k - L(k) \in 0 .. k - 1
        BY <3>2, <4>1
      <4>3. g[k - L(k)] = h[k - L(k)]
        BY <4>2
      <4> HIDE DEF L
      <4> QED BY <4>3
    <3> QED BY <3>1, <3>2
  <2> HIDE DEF Step
  <2> QED BY <2>1
<1>6. \E f : Eqn(f)
  <2>1. Seq(Int) # {}
    BY EmptySeq
  <2> HIDE DEF step
  <2>2. PICK f \in [0 .. N -> Seq(Int)] : Follows(f, step, N)
    BY <1>1, <1>4, <1>5, <2>1, CourseOfValues, Zenon
  <2>3. \A k \in 0 .. N : f[k] = step[k][f]
    BY <2>2 DEF Follows
  <2>4. ASSUME NEW k \in 0 .. N PROVE f[k] = Step(k, f)
    <3> HIDE DEF Step
    <3> QED BY <2>3 DEF step
  <2> HIDE DEF Step
  <2> QED BY <2>4
<1>7. Eqn(F)
  <2> HIDE DEF Step, N
  <2> QED BY <1>6
<1>8. CodePoints(bytes) = F[N]
  BY Zenon DEF CodePoints
<1> HIDE DEF F
<1>9. F = [n \in 0 .. N |-> F[n]] /\ \A n \in 0 .. N : F[n] = Step(n, F)
  <2> HIDE DEF Step
  <2> QED BY <1>7
<1>10. F \in [0 .. N -> Seq(Int)]
  <2> DEFINE S == {m \in Nat : \A n \in 0 .. N : n <= m => F[n] \in Seq(Int)}
  <2>1. ASSUME NEW n \in 0 .. N, \A j \in 0 .. N : j < n => F[j] \in Seq(Int) PROVE F[n] \in Seq(Int)
    <3> DEFINE g == [j \in 0 .. N |-> IF j < n THEN F[j] ELSE <<>>]
    <3>1. g \in [0 .. N -> Seq(Int)]
      BY <2>1, EmptySeq
    <3>2. Step(n, g) = Step(n, F)
      <4>1. CASE n = 0 \/ L(n) > n
        BY <4>1
      <4>2. CASE ~(n = 0 \/ L(n) > n)
        <5>1. L(n) \in 1 .. 4
          BY <1>1, <1>2, <4>2
        <5>2. n - L(n) \in 0 .. N /\ n - L(n) < n
          <6> HIDE DEF L, N
          <6> QED BY <1>1, <4>2, <5>1
        <5>3. g[n - L(n)] = F[n - L(n)]
          BY <5>2
        <5> HIDE DEF L, g
        <5> QED BY <5>3
      <4> QED BY <4>1, <4>2
    <3> HIDE DEF Step, g
    <3> QED BY <1>3, <1>9, <3>1, <3>2
  <2>2. 0 \in S
    <3>1. \A n \in 0 .. N : n <= 0 => F[n] \in Seq(Int)
      <4> TAKE n \in 0 .. N
      <4> HAVE n <= 0
      <4>1. \A j \in 0 .. N : ~(j < n)
        OBVIOUS
      <4> QED BY <2>1, <4>1
    <3> QED BY <3>1
  <2>3. ASSUME NEW m \in Nat, m \in S PROVE m + 1 \in S
    <3>1. \A n \in 0 .. N : n <= m => F[n] \in Seq(Int)
      BY <2>3
    <3>2. ASSUME NEW n \in 0 .. N, n <= m + 1 PROVE F[n] \in Seq(Int)
      <4>1. \A j \in 0 .. N : j < n => F[j] \in Seq(Int)
        BY <3>1, <3>2
      <4> QED BY <2>1, <4>1
    <3> QED BY <3>2
  <2> HIDE DEF S
  <2>4. Nat \subseteq S
    BY <2>2, <2>3, SetInduction
  <2>5. N \in S
    BY <1>1, <2>4
  <2>6. \A n \in 0 .. N : F[n] \in Seq(Int)
    BY <2>5 DEF S
  <2> QED BY <1>9, <2>6
<1>11. Points(F, bytes)
  BY <1>8, <1>9, <1>10 DEF Points
<1> QED
  BY <1>11

\* A code point is that of its bytes, wherever they are.
LEMMA SameCode ==
  ASSUME NEW v, NEW w, NEW i \in Int, NEW k \in Int, LengthFrom(w[k]) \in 1 .. 4,
         \A j \in 0 .. LengthFrom(w[k]) - 1 : v[i + j] = w[k + j]
  PROVE  CodeAt(v, i) = CodeAt(w, k)
<1> DEFINE n == LengthFrom(w[k])
<1>1. v[i] = w[k]
  <2>1. 0 \in 0 .. n - 1 /\ i + 0 = i /\ k + 0 = k
    OBVIOUS
  <2>2. v[i + 0] = w[k + 0]
    BY <2>1
  <2> QED BY <2>1, <2>2
<1>2. /\ CodeAt(v, i) = IF n = 1 THEN v[i]
                        ELSE IF n = 2 THEN Two(v[i], v[i + 1])
                        ELSE IF n = 3 THEN Three(v[i], v[i + 1], v[i + 2])
                        ELSE Four(v[i], v[i + 1], v[i + 2], v[i + 3])
      /\ CodeAt(w, k) = IF n = 1 THEN w[k]
                        ELSE IF n = 2 THEN Two(w[k], w[k + 1])
                        ELSE IF n = 3 THEN Three(w[k], w[k + 1], w[k + 2])
                        ELSE Four(w[k], w[k + 1], w[k + 2], w[k + 3])
  BY <1>1, Zenon DEF CodeAt
<1>3. n \in 1 .. 4 /\ \A j \in 0 .. n - 1 : v[i + j] = w[k + j]
  OBVIOUS
<1> HIDE DEF n
<1>4. /\ n >= 2 => v[i + 1] = w[k + 1]
      /\ n >= 3 => v[i + 2] = w[k + 2]
      /\ n >= 4 => v[i + 3] = w[k + 3]
  BY <1>3
<1>5. CASE n = 1
  BY <1>1, <1>2, <1>5
<1>6. CASE n = 2
  BY <1>1, <1>2, <1>4, <1>6
<1>7. CASE n = 3
  BY <1>1, <1>2, <1>4, <1>7
<1>8. CASE n = 4
  BY <1>1, <1>2, <1>4, <1>8
<1> QED
  BY <1>3, <1>5, <1>6, <1>7, <1>8

\* A character at the beginning of the bytes is their first code point.
LEMMA CodePointsBegin ==
  ASSUME NEW u \in Seq(Int), NEW w \in Seq(Int), u # <<>>, LengthFrom(u[1]) = Len(u)
  PROVE  CodePoints(u \o w) = <<CodeAt(u, 1)>> \o CodePoints(w)
<1> DEFINE v == u \o w
           N == Len(w)
           M == Len(v)
           Lu == Len(u)
<1>1. PICK f : Points(f, v)
  BY ConcatProperties, PointsOf
<1>2. PICK g : Points(g, w)
  BY PointsOf
<1>3. /\ v \in Seq(Int) /\ M = Lu + N /\ N \in Nat /\ Lu \in Nat /\ M \in Nat
      /\ Lu \in 1 .. 4
  <2>1. v \in Seq(Int) /\ M = Lu + N
    BY ConcatProperties
  <2>2. N \in Nat /\ Lu \in Nat
    BY LenProperties
  <2>3. Lu # 0
    BY EmptySeq
  <2>4. u[1] \in Int
    <3>1. 1 \in 1 .. Lu
      BY <2>2, <2>3
    <3> QED BY <3>1, ElementOfSeq
  <2> HIDE DEF N, Lu, M
  <2>5. Lu \in 1 .. 4
    BY <2>4, LengthFromIs DEF Lu
  <2> QED BY <2>1, <2>2, <2>5
<1>4. \A k \in 1 .. N : v[Lu + k] = w[k]
  <2> TAKE k \in 1 .. N
  <2>1. Lu + k \in 1 .. Lu + N /\ ~(Lu + k <= Lu) /\ (Lu + k) - Lu = k
    BY <1>3
  <2> QED BY <2>1, ConcatProperties
<1>5. \A k \in 1 .. Lu : v[k] = u[k]
  <2> TAKE k \in 1 .. Lu
  <2>1. k \in 1 .. Lu + N /\ k <= Lu
    BY <1>3
  <2> QED BY <2>1, ConcatProperties
<1> HIDE DEF v, N, M, Lu
<1>6. ASSUME NEW k \in 1 .. N, k + LengthFrom(w[k]) <= N + 1
      PROVE  CodeAt(v, Lu + k) = CodeAt(w, k)
  <2> DEFINE n == LengthFrom(w[k])
  <2>1. n \in 1 .. 4 /\ k + n <= N + 1
    <3>1. w[k] \in Int
      BY ElementOfSeq DEF N
    <3> QED BY <1>6, <3>1, LengthFromIs
  <2>2. ASSUME NEW j \in 0 .. n - 1 PROVE v[Lu + k + j] = w[k + j]
    <3> HIDE DEF n
    <3>1. k + j \in 1 .. N /\ Lu + k + j = Lu + (k + j)
      BY <1>3, <2>1
    <3> QED BY <1>4, <3>1
  <2>3. Lu + k \in Int /\ k \in Int
    BY <1>3
  <2>4. PICK p \in Int : p = Lu + k
    BY <2>3
  <2>5. \A j \in 0 .. LengthFrom(w[k]) - 1 : v[p + j] = w[k + j]
    BY <2>2, <2>4
  <2>6. LengthFrom(w[k]) \in 1 .. 4
    BY <2>1
  <2>7. CodeAt(v, p) = CodeAt(w, k)
    BY <2>3, <2>5, <2>6, SameCode
  <2> QED BY <2>4, <2>7
<1>7. /\ f \in [0 .. M -> Seq(Int)] /\ CodePoints(v) = f[M]
      /\ \A n \in 0 .. M :
           f[n] = IF n = 0 \/ LengthFrom(v[M + 1 - n]) > n THEN <<>>
                  ELSE <<CodeAt(v, M + 1 - n)>> \o f[n - LengthFrom(v[M + 1 - n])]
  BY <1>1, Zenon DEF Points, M
<1>8. /\ g \in [0 .. N -> Seq(Int)] /\ CodePoints(w) = g[N]
      /\ \A n \in 0 .. N :
           g[n] = IF n = 0 \/ LengthFrom(w[N + 1 - n]) > n THEN <<>>
                  ELSE <<CodeAt(w, N + 1 - n)>> \o g[n - LengthFrom(w[N + 1 - n])]
  BY <1>2, Zenon DEF Points, N
<1> DEFINE S == {m \in Nat : \A n \in 0 .. N : n <= m => f[n] = g[n]}
<1>9. ASSUME NEW n \in 0 .. N, \A j \in 0 .. N : j < n => f[j] = g[j] PROVE f[n] = g[n]
  <2>1. CASE n = 0
    <3>1. n \in 0 .. M
      BY <1>3
    <3> QED BY <1>7, <1>8, <2>1, <3>1
  <2>2. CASE n # 0
    <3> DEFINE k == N + 1 - n
               L == LengthFrom(w[k])
    <3>1. k \in 1 .. N /\ M + 1 - n = Lu + k /\ n \in 0 .. M
      BY <1>3, <2>2
    <3>2. v[M + 1 - n] = w[k]
      BY <1>4, <3>1
    <3>3. L \in 1 .. 4
      <4>1. w[k] \in Int
        BY <3>1, ElementOfSeq DEF N
      <4> QED BY <4>1, LengthFromIs
    <3>4. CASE L > n
      <4>1. f[n] = <<>>
        BY <1>7, <3>1, <3>2, <3>4
      <4>2. g[n] = <<>>
        BY <1>8, <3>4
      <4> QED BY <4>1, <4>2
    <3>5. CASE ~(L > n)
      <4>1. f[n] = <<CodeAt(v, Lu + k)>> \o f[n - L]
        <5>1. f[n] = IF n = 0 \/ LengthFrom(v[M + 1 - n]) > n THEN <<>>
                     ELSE <<CodeAt(v, M + 1 - n)>> \o f[n - LengthFrom(v[M + 1 - n])]
          BY <1>7, <3>1, Zenon
        <5> QED BY <2>2, <3>1, <3>2, <3>5, <5>1, Zenon
      <4>2. g[n] = <<CodeAt(w, k)>> \o g[n - L]
        <5>1. g[n] = IF n = 0 \/ LengthFrom(w[N + 1 - n]) > n THEN <<>>
                     ELSE <<CodeAt(w, N + 1 - n)>> \o g[n - LengthFrom(w[N + 1 - n])]
          BY <1>8, Zenon
        <5> QED BY <2>2, <3>5, <5>1, Zenon
      <4>3. k + L <= N + 1
        <5> HIDE DEF L
        <5> QED BY <1>3, <3>3, <3>5
      <4>4. CodeAt(v, Lu + k) = CodeAt(w, k)
        BY <1>6, <3>1, <4>3
      <4>5. n - L \in 0 .. N /\ n - L < n
        <5> HIDE DEF L
        <5> QED BY <1>3, <3>3, <3>5
      <4>6. f[n - L] = g[n - L]
        BY <1>9, <4>5
      <4> QED BY <4>1, <4>2, <4>4, <4>6, Zenon
    <3> QED BY <3>4, <3>5
  <2> QED BY <2>1, <2>2
<1>10. 0 \in S
  <2>1. \A n \in 0 .. N : n <= 0 => \A j \in 0 .. N : ~(j < n)
    OBVIOUS
  <2> QED BY <1>9, <2>1
<1>11. ASSUME NEW m \in Nat, m \in S PROVE m + 1 \in S
  <2>1. \A n \in 0 .. N : n <= m => f[n] = g[n]
    BY <1>11
  <2>2. ASSUME NEW n \in 0 .. N, n <= m + 1 PROVE f[n] = g[n]
    <3>1. \A j \in 0 .. N : j < n => f[j] = g[j]
      BY <2>1, <2>2
    <3> QED BY <1>9, <3>1
  <2> QED BY <2>2
<1> HIDE DEF S
<1>12. Nat \subseteq S
  BY <1>10, <1>11, SetInduction
<1>13. f[N] = g[N]
  <2>1. N \in S /\ N \in 0 .. N /\ N <= N
    BY <1>3, <1>12
  <2> QED BY <2>1 DEF S
<1>14. f[M] = <<CodeAt(v, 1)>> \o f[N]
  <2>1. /\ M \in 0 .. M /\ M + 1 - M = 1 /\ M # 0 /\ M - Lu = N /\ ~(Lu > M)
        /\ 1 \in 1 .. Lu
    BY <1>3
  <2>2. v[1] = u[1] /\ LengthFrom(u[1]) = Lu
    BY <1>5, <2>1 DEF Lu
  <2>3. f[M] = IF M = 0 \/ LengthFrom(v[M + 1 - M]) > M THEN <<>>
               ELSE <<CodeAt(v, M + 1 - M)>> \o f[M - LengthFrom(v[M + 1 - M])]
    BY <1>7, <2>1, Zenon
  <2> QED BY <2>1, <2>2, <2>3
<1>15. CodeAt(v, 1) = CodeAt(u, 1)
  <2>1. LengthFrom(u[1]) \in 1 .. 4 /\ LengthFrom(u[1]) = Lu
    BY <1>3 DEF Lu
  <2>2. \A j \in 0 .. Lu - 1 : v[1 + j] = u[1 + j]
    BY <1>3, <1>5
  <2> QED BY <2>1, <2>2, SameCode
<1> QED
  BY <1>7, <1>8, <1>13, <1>14, <1>15 DEF v

\* The bytes of a code point are its UTF-8.
LargestCode == 1114111

LEMMA Utf8Decoded ==
  ASSUME NEW c \in Nat, c <= LargestCode
  PROVE  /\ Utf8(c) \in Seq(Int) /\ Utf8(c) # <<>>
         /\ LengthFrom(Utf8(c)[1]) = Len(Utf8(c))
         /\ CodeAt(Utf8(c), 1) = c
<1> DEFINE low(n) == 128 + ((c \div n) % 64)
<1>1. CASE c < 128
  <2>1. Utf8(c) = <<c>>
    BY <1>1, SMT DEF Utf8
  <2> QED BY <1>1, <2>1 DEF LengthFrom, CodeAt
<1>2. CASE c >= 128 /\ c < 2048
  <2>1. Utf8(c) = <<192 + c \div 64, low(1)>>
    BY <1>2, SMT DEF Utf8
  <2>2. PICK a \in Int, b \in Int : a = 192 + c \div 64 /\ b = low(1)
    BY SMT
  <2>3. a >= 192 /\ a < 224 /\ Two(a, b) = c
    BY <1>2, <2>2, SMT DEF Two, LargestCode
  <2>4. Utf8(c) = <<a, b>>
    BY <2>1, <2>2
  <2>5. LengthFrom(a) = 2
    BY <2>3 DEF LengthFrom
  <2> HIDE DEF low
  <2> QED BY <2>3, <2>4, <2>5 DEF CodeAt
<1>3. CASE c >= 2048 /\ c < 65536
  <2>1. Utf8(c) = <<224 + c \div 4096, low(64), low(1)>>
    BY <1>3, SMT DEF Utf8
  <2>2. PICK a \in Int, b \in Int, d \in Int : a = 224 + c \div 4096 /\ b = low(64) /\ d = low(1)
    BY SMT
  <2>3. a >= 224 /\ a < 240 /\ Three(a, b, d) = c
    BY <1>3, <2>2, SMT DEF Three, LargestCode
  <2>4. Utf8(c) = <<a, b, d>>
    BY <2>1, <2>2
  <2>5. LengthFrom(a) = 3
    BY <2>3 DEF LengthFrom
  <2> HIDE DEF low
  <2> QED BY <2>3, <2>4, <2>5 DEF CodeAt
<1>4. CASE c >= 65536
  <2>1. Utf8(c) = <<240 + c \div 262144, low(4096), low(64), low(1)>>
    BY <1>4, SMT DEF Utf8
  <2>2. PICK a \in Int, b \in Int, d \in Int, e \in Int :
          a = 240 + c \div 262144 /\ b = low(4096) /\ d = low(64) /\ e = low(1)
    BY SMT
  <2>3. a >= 240 /\ Four(a, b, d, e) = c
    BY <1>4, <2>2, SMT DEF Four, LargestCode
  <2>4. Utf8(c) = <<a, b, d, e>>
    BY <2>1, <2>2
  <2>5. LengthFrom(a) = 4
    BY <2>3 DEF LengthFrom
  <2> HIDE DEF low
  <2> QED BY <2>3, <2>4, <2>5 DEF CodeAt
<1>5. c < 128 \/ (c >= 128 /\ c < 2048) \/ (c >= 2048 /\ c < 65536) \/ c >= 65536
  BY SMT DEF LargestCode
<1> QED
  BY <1>1, <1>2, <1>3, <1>4, <1>5, SMT

-----------------------------------------------------------------------------
(* WHAT A LITERAL DENOTES                                                  *)

\* What is written at a position, and what may follow it: the code point before
\* what the rest denotes.
WrittenWithin(i, n) == {w \in Written(i) : w[2] <= n}
Before(w, rest) == {<<w[1]>> \o r : r \in rest}

LEMMA InputIs ==
  ASSUME input \in Seq(0 .. 255)
  PROVE  /\ input \in Seq(Int) /\ Len(input) \in Nat /\ DOMAIN input = 1 .. Len(input)
         /\ \A i \in Int : At(i) \in 0 .. 255
         /\ \A i \in 1 .. Len(input) : At(i) = input[i]
         /\ \A i \in Int : i \notin 1 .. Len(input) => At(i) = 0
<1>1. Len(input) \in Nat /\ DOMAIN input = 1 .. Len(input)
  BY LenProperties
<1>2. \A k \in 1 .. Len(input) : input[k] \in 0 .. 255
  BY ElementOfSeq
<1>3. input \in Seq(Int)
  <2>1. 0 .. 255 \subseteq Int
    OBVIOUS
  <2> QED BY <2>1, SeqMonotonic, Zenon
<1>4. \A i \in Int : At(i) \in 0 .. 255
  BY AtIs
<1> QED
  BY <1>1, <1>3, <1>4 DEF At

LEMMA WrittenIs ==
  ASSUME input \in Seq(0 .. 255), NEW i \in Nat \ {0}, NEW w \in Written(i),
         i + w[2] <= Len(input) + 1
  PROVE  w[1] \in Int /\ w[2] \in 1 .. 12
<1>1. /\ At(i) \in Int /\ Len(input) \in Nat /\ input \in Seq(Int)
      /\ \A k \in 1 .. Len(input) : At(k) = input[k]
  BY InputIs
<1>2. CASE w = <<CodeAt(input, i), LengthFrom(At(i))>>
  <2>1. w[1] = CodeAt(input, i) /\ w[2] = LengthFrom(At(i))
    BY <1>2
  <2>2. w[2] \in 1 .. 4
    BY <1>1, <2>1, LengthFromIs
  <2>3. i \in 1 .. Len(input)
    BY <1>1, <2>2
  <2>4. i + LengthFrom(input[i]) <= Len(input) + 1
    BY <1>1, <2>1, <2>3
  <2> QED BY <1>1, <2>1, <2>2, <2>3, <2>4, CodeAtIs
<1>3. ASSUME NEW x \in DOMAIN Escape, w = <<Escape[x], 2>> PROVE w[1] \in Int /\ w[2] \in 1 .. 12
  BY <1>3 DEF Escape, Quote, Backslash
<1>4. \A k \in Nat : Unit(k) \subseteq Nat
  <2> SUFFICES ASSUME NEW k \in Nat PROVE Unit(k) \subseteq Nat
    OBVIOUS
  <2>1. k + 2 \in Nat
    OBVIOUS
  <2>2. Hex4(k + 2) \in Nat
    BY <2>1, Hex4Is
  <2> QED BY <2>2 DEF Unit
<1>5. ASSUME NEW c \in Unit(i), w = <<c, 6>> PROVE w[1] \in Int /\ w[2] \in 1 .. 12
  BY <1>4, <1>5
<1>6. ASSUME NEW high \in Unit(i), NEW low \in Unit(i + 6),
             w = <<PairOf(high, low), 12>>
      PROVE  w[1] \in Int /\ w[2] \in 1 .. 12
  <2>1. high \in Int /\ low \in Int
    BY <1>4
  <2>2. PairOf(high, low) \in Int
    BY <2>1, SMT DEF PairOf
  <2> QED BY <1>6, <2>2
<1>7. \/ w = <<CodeAt(input, i), LengthFrom(At(i))>>
      \/ \E x \in DOMAIN Escape : w = <<Escape[x], 2>>
      \/ \E c \in Unit(i) : w = <<c, 6>>
      \/ \E high \in Unit(i), low \in Unit(i + 6) :
           w = <<PairOf(high, low), 12>>
  BY DEF Written
<1> QED
  BY <1>2, <1>3, <1>5, <1>6, <1>7

LEMMA BeforeIs ==
  ASSUME NEW w, w[1] \in Int, NEW rest, rest \subseteq Seq(Int)
  PROVE  Before(w, rest) \subseteq Seq(Int)
<1>1. <<w[1]>> \in Seq(Int)
  OBVIOUS
<1>2. \A r \in rest : <<w[1]>> \o r \in Seq(Int)
  BY <1>1, ConcatProperties, Zenon
<1> QED
  BY <1>2 DEF Before

\* What the literal denotes from position i, by what is written there.
DenotedHere(i) ==
  /\ Denoted(i) \subseteq Seq(Int)
  /\ Denoted(i) = IF At(i) = Quote THEN {<<>>}
                  ELSE UNION {Before(w, Denoted(i + w[2])) :
                                w \in WrittenWithin(i, Len(input) + 1 - i)}

LEMMA DenotedIs ==
  ASSUME input \in Seq(0 .. 255)
  PROVE  \A i \in 1 .. Len(input) + 1 : DenotedHere(i)
<1> DEFINE N == Len(input)
           X == SUBSET Seq(Int)
           W(n) == WrittenWithin(N + 1 - n, n)
           Step(n, g) == IF At(N + 1 - n) = Quote THEN {<<>>}
                         ELSE UNION {Before(w, g[n - w[2]]) : w \in W(n)}
           Eqn(f) == f = [n \in 0 .. N |-> Step(n, f)]
           F == CHOOSE f : Eqn(f)
           step == [n \in 0 .. N |-> [g \in [0 .. N -> X] |-> Step(n, g)]]
<1>1. N \in Nat
  BY LenProperties
<1>2. ASSUME NEW n \in 0 .. N, NEW w \in W(n)
      PROVE  w[1] \in Int /\ n - w[2] \in 0 .. n - 1
  <2> DEFINE i == N + 1 - n
  <2>1. i \in Nat \ {0} /\ w \in Written(i) /\ w[2] <= n
    BY <1>1, <1>2 DEF WrittenWithin
  <2>2. CASE i + w[2] <= N + 1
    <3>1. w[1] \in Int /\ w[2] \in 1 .. 12
      BY <2>1, <2>2, WrittenIs
    <3>2. n \in Nat /\ w[2] <= n
      BY <1>1, <2>1
    <3>3. \A k \in Nat, m \in 1 .. 12 : m <= k => k - m \in 0 .. k - 1
      OBVIOUS
    <3> HIDE DEF i, W, N, X, Step, F, step
    <3> QED BY <3>1, <3>2, <3>3, Zenon
  <2>3. w[2] \in Int
    <3>1. ASSUME NEW x PROVE LengthFrom(x) \in Int
      BY DEF LengthFrom
    <3>2. \A j : w \in Written(j) => w[2] \in Int
      BY <3>1 DEF Written
    <3> QED BY <2>1, <3>2
  <2>4. i + w[2] <= N + 1
    BY <1>1, <2>1, <2>3
  <2> QED BY <2>2, <2>4
<1> HIDE DEF W
<1>3. ASSUME NEW n \in 0 .. N, NEW g \in [0 .. N -> X] PROVE Step(n, g) \in X
  <2>1. \A w \in W(n) : Before(w, g[n - w[2]]) \subseteq Seq(Int)
    <3> TAKE w \in W(n)
    <3>1. w[1] \in Int /\ n - w[2] \in 0 .. N
      BY <1>1, <1>2
    <3>2. g[n - w[2]] \subseteq Seq(Int)
      BY <3>1
    <3> QED BY <3>1, <3>2, BeforeIs
  <2>2. {<<>>} \subseteq Seq(Int)
    BY EmptySeq
  <2> QED BY <2>1, <2>2
<1>4. step \in [0 .. N -> [[0 .. N -> X] -> X]]
  <2> HIDE DEF Step, X
  <2> QED BY <1>3
<1>5. ASSUME NEW k \in 0 .. N, NEW g, NEW h, \A j \in 0 .. k - 1 : g[j] = h[j]
      PROVE  Step(k, g) = Step(k, h)
  <2>1. \A w \in W(k) : Before(w, g[k - w[2]]) = Before(w, h[k - w[2]])
    BY <1>2, <1>5
  <2> QED BY <2>1
<1> HIDE DEF X
<1>6. Earlier(step, N, X)
  <2> HIDE DEF Step
  <2> QED BY <1>5 DEF Earlier
<1>7. \E f \in [0 .. N -> X] : Eqn(f)
  <2>1. X # {}
    BY DEF X
  <2> HIDE DEF step
  <2>2. PICK f \in [0 .. N -> X] : Follows(f, step, N)
    BY <1>1, <1>4, <1>6, <2>1, CourseOfValues, Zenon
  <2>3. \A k \in 0 .. N : f[k] = step[k][f]
    BY <2>2 DEF Follows
  <2>4. ASSUME NEW k \in 0 .. N PROVE f[k] = Step(k, f)
    <3> HIDE DEF Step
    <3> QED BY <2>3 DEF step
  <2> HIDE DEF Step
  <2> QED BY <2>4
<1>8. Eqn(F)
  <2> HIDE DEF Step, N
  <2> QED BY <1>7
<1>9. \A i \in 1 .. N + 1 : Denoted(i) = F[N + 1 - i]
  BY Zenon DEF Denoted, Before, W, WrittenWithin
<1> HIDE DEF F
<1>10. F = [n \in 0 .. N |-> F[n]] /\ \A n \in 0 .. N : F[n] = Step(n, F)
  <2> HIDE DEF Step
  <2> QED BY <1>8
<1>11. F \in [0 .. N -> X]
  <2> DEFINE S == {m \in Nat : \A n \in 0 .. N : n <= m => F[n] \in X}
  <2>1. ASSUME NEW n \in 0 .. N, \A j \in 0 .. N : j < n => F[j] \in X PROVE F[n] \in X
    <3>1. {} \in X
      BY DEF X
    <3> DEFINE g == [j \in 0 .. N |-> IF j < n THEN F[j] ELSE {}]
    <3>2. g \in [0 .. N -> X]
      BY <2>1, <3>1
    <3>3. \A j \in 0 .. n - 1 : g[j] = F[j]
      BY <1>1
    <3> HIDE DEF Step, g
    <3> QED BY <1>3, <1>5, <1>10, <3>2, <3>3
  <2>2. 0 \in S
    <3>1. \A n \in 0 .. N : n <= 0 => F[n] \in X
      <4> TAKE n \in 0 .. N
      <4> HAVE n <= 0
      <4>1. \A j \in 0 .. N : ~(j < n)
        OBVIOUS
      <4> QED BY <2>1, <4>1
    <3> QED BY <3>1
  <2>3. ASSUME NEW m \in Nat, m \in S PROVE m + 1 \in S
    <3>1. \A n \in 0 .. N : n <= m => F[n] \in X
      BY <2>3
    <3>2. ASSUME NEW n \in 0 .. N, n <= m + 1 PROVE F[n] \in X
      <4>1. \A j \in 0 .. N : j < n => F[j] \in X
        BY <3>1, <3>2
      <4> QED BY <2>1, <4>1
    <3> QED BY <3>2
  <2> HIDE DEF S
  <2>4. Nat \subseteq S
    BY <2>2, <2>3, SetInduction
  <2>5. N \in S
    BY <1>1, <2>4
  <2>6. \A n \in 0 .. N : F[n] \in X
    BY <2>5 DEF S
  <2> QED BY <1>10, <2>6
<1> SUFFICES ASSUME NEW i \in 1 .. N + 1 PROVE DenotedHere(i)
  OBVIOUS
<1>12. N + 1 - i \in 0 .. N /\ N + 1 - (N + 1 - i) = i
  BY <1>1
<1>13. Denoted(i) = F[N + 1 - i]
  BY <1>9
<1>14. Denoted(i) \subseteq Seq(Int)
  BY <1>11, <1>12, <1>13 DEF X
<1>15. Denoted(i) = IF At(i) = Quote THEN {<<>>}
                    ELSE UNION {Before(w, F[(N + 1 - i) - w[2]]) : w \in WrittenWithin(i, N + 1 - i)}
  <2>1. F[N + 1 - i] = IF At(N + 1 - (N + 1 - i)) = Quote THEN {<<>>}
                       ELSE UNION {Before(w, F[(N + 1 - i) - w[2]]) : w \in W(N + 1 - i)}
    BY <1>10, <1>12
  <2> QED BY <1>12, <1>13, <2>1 DEF W
<1>16. ASSUME NEW w \in WrittenWithin(i, N + 1 - i)
       PROVE  Denoted(i + w[2]) = F[(N + 1 - i) - w[2]]
  <2>1. w \in W(N + 1 - i)
    BY <1>12 DEF W
  <2>2. (N + 1 - i) - w[2] \in 0 .. (N + 1 - i) - 1
    BY <1>2, <1>12, <2>1
  <2>3. w[2] \in Int
    <3>1. ASSUME NEW x PROVE LengthFrom(x) \in Int
      BY DEF LengthFrom
    <3>2. \A j : w \in Written(j) => w[2] \in Int
      BY <3>1 DEF Written
    <3> QED BY <3>2 DEF WrittenWithin
  <2>4. i + w[2] \in 1 .. N + 1 /\ N + 1 - (i + w[2]) = (N + 1 - i) - w[2]
    BY <1>1, <2>2, <2>3
  <2> QED BY <1>9, <2>4
<1>17. UNION {Before(w, F[(N + 1 - i) - w[2]]) : w \in WrittenWithin(i, N + 1 - i)}
         = UNION {Before(w, Denoted(i + w[2])) : w \in WrittenWithin(i, N + 1 - i)}
  BY <1>16
<1> QED
  BY <1>14, <1>15, <1>17 DEF DenotedHere

-----------------------------------------------------------------------------
(* WHAT HAS BEEN DECODED                                                   *)

\* The codes are what the bytes begin with, whatever follows.
Encodes(bytes, codes) ==
  /\ bytes \in Seq(Int) /\ codes \in Seq(Int)
  /\ \A rest \in Seq(Int) : CodePoints(bytes \o rest) = codes \o CodePoints(rest)

\* The codes are what the literal begins with, up to position i.
Begins(codes, i) == Denoted(2) = {codes \o rest : rest \in Denoted(i)}

\* However it is put together, it is the same.
Joined(s, t, u) == (s \o t) \o u = s \o (t \o u)

LEMMA JoinedIs ==
  ASSUME NEW s \in Seq(Int), NEW t \in Seq(Int), NEW u \in Seq(Int)
  PROVE  Joined(s, t, u)
BY ConcatAssociative DEF Joined

LEMMA CodePointsNone == CodePoints(<<>>) = <<>>
<1>1. PICK f : Points(f, <<>>)
  BY PointsOf, EmptySeq
<1>2. Len(<<>>) = 0 /\ 0 \in 0 .. 0
  BY EmptySeq
<1> QED
  BY <1>1, <1>2 DEF Points

LEMMA CodePointsAre == ASSUME NEW bytes \in Seq(Int) PROVE CodePoints(bytes) \in Seq(Int)
<1>1. PICK f : Points(f, bytes)
  BY PointsOf
<1>2. Len(bytes) \in 0 .. Len(bytes)
  BY LenProperties
<1> QED
  BY <1>1, <1>2 DEF Points

LEMMA EncodesNone == Encodes(<<>>, <<>>)
<1>1. <<>> \in Seq(Int)
  BY EmptySeq
<1>2. \A rest \in Seq(Int) : CodePoints(<<>> \o rest) = <<>> \o CodePoints(rest)
  BY CodePointsAre, ConcatEmptySeq, Zenon
<1> QED
  BY <1>1, <1>2 DEF Encodes

LEMMA EncodesMore ==
  ASSUME NEW bytes, NEW codes, Encodes(bytes, codes), NEW char \in Seq(Int), char # <<>>,
         LengthFrom(char[1]) = Len(char), CodeAt(char, 1) \in Int
  PROVE  Encodes(bytes \o char, codes \o <<CodeAt(char, 1)>>)
<1> DEFINE c == <<CodeAt(char, 1)>>
<1>1. /\ bytes \in Seq(Int) /\ codes \in Seq(Int) /\ c \in Seq(Int)
      /\ bytes \o char \in Seq(Int)
  BY ConcatProperties DEF Encodes
<1> HIDE DEF c
<1>2. codes \o c \in Seq(Int)
  BY <1>1, ConcatProperties
<1>3. ASSUME NEW rest \in Seq(Int)
      PROVE  CodePoints((bytes \o char) \o rest) = (codes \o c) \o CodePoints(rest)
  <2>1. char \o rest \in Seq(Int)
    BY ConcatProperties
  <2>2. Joined(bytes, char, rest)
    BY <1>1, JoinedIs
  <2>3. CodePoints(bytes \o (char \o rest)) = codes \o CodePoints(char \o rest)
    BY <2>1 DEF Encodes
  <2>4. CodePoints(char \o rest) = c \o CodePoints(rest)
    BY CodePointsBegin DEF c
  <2>5. CodePoints(rest) \in Seq(Int)
    BY CodePointsAre
  <2>6. Joined(codes, c, CodePoints(rest))
    BY <1>1, <2>5, JoinedIs
  <2> QED BY <2>2, <2>3, <2>4, <2>6, Zenon DEF Joined
<1> QED
  BY <1>1, <1>2, <1>3 DEF Encodes, c

LEMMA BeginsWith ==
  ASSUME input \in Seq(0 .. 255), 2 \in 1 .. Len(input) + 1
  PROVE  Begins(<<>>, 2)
<1>1. Denoted(2) \subseteq Seq(Int)
  BY DenotedIs DEF DenotedHere
<1>2. \A r \in Denoted(2) : <<>> \o r = r
  BY <1>1, ConcatEmptySeq
<1> QED
  BY <1>2 DEF Begins

\* One thing is written at position i: the literal begins with it, too.
LEMMA BeginsMore ==
  ASSUME input \in Seq(0 .. 255), NEW codes \in Seq(Int), NEW i \in Nat \ {0}, Begins(codes, i),
         NEW w, Written(i) = {w}, At(i) # Quote,
         w[1] \in Int, w[2] \in Nat, i + w[2] <= Len(input) + 1
  PROVE  Begins(codes \o <<w[1]>>, i + w[2])
<1>1. i \in 1 .. Len(input) + 1 /\ i + w[2] \in 1 .. Len(input) + 1 /\ Len(input) \in Nat
  BY LenProperties
<1>2. WrittenWithin(i, Len(input) + 1 - i) = {w}
  <2>1. w[2] <= Len(input) + 1 - i
    BY <1>1
  <2> QED BY <2>1 DEF WrittenWithin
<1>3. Denoted(i) = Before(w, Denoted(i + w[2]))
  <2>1. Denoted(i) = UNION {Before(x, Denoted(i + x[2])) : x \in WrittenWithin(i, Len(input) + 1 - i)}
    BY <1>1, DenotedIs DEF DenotedHere
  <2> QED BY <1>2, <2>1
<1>4. Denoted(i + w[2]) \subseteq Seq(Int)
  BY <1>1, DenotedIs DEF DenotedHere
<1>5. \A r \in Denoted(i + w[2]) : codes \o (<<w[1]>> \o r) = (codes \o <<w[1]>>) \o r
  <2>1. <<w[1]>> \in Seq(Int)
    OBVIOUS
  <2>2. \A r \in Denoted(i + w[2]) : Joined(codes, <<w[1]>>, r)
    BY <1>4, <2>1, JoinedIs
  <2> QED BY <2>2, Zenon DEF Joined
<1>6. {codes \o r : r \in Denoted(i)} = {codes \o (<<w[1]>> \o r) : r \in Denoted(i + w[2])}
  BY <1>3 DEF Before
<1>7. {codes \o (<<w[1]>> \o r) : r \in Denoted(i + w[2])}
        = {(codes \o <<w[1]>>) \o r : r \in Denoted(i + w[2])}
  BY <1>5
<1> QED
  BY <1>6, <1>7 DEF Begins

\* Nothing is written there: the literal denotes nothing.
LEMMA BeginsNothing ==
  ASSUME input \in Seq(0 .. 255), NEW codes, NEW i \in 1 .. Len(input) + 1, Begins(codes, i),
         Written(i) = {}, At(i) # Quote
  PROVE  Denoted(2) = {}
<1>1. WrittenWithin(i, Len(input) + 1 - i) = {}
  BY DEF WrittenWithin
<1>2. Denoted(i) = {}
  BY <1>1, DenotedIs DEF DenotedHere
<1> QED
  BY <1>2 DEF Begins

-----------------------------------------------------------------------------
(* WHAT IS WRITTEN                                                         *)

LEMMA WrittenByte ==
  ASSUME NEW i, At(i) \notin {Quote, Backslash} \cup Continuations
  PROVE  Written(i) = {<<CodeAt(input, i), LengthFrom(At(i))>>}
<1>1. Unit(i) = {}
  BY DEF Unit
<1> QED
  BY <1>1 DEF Written

LEMMA WrittenEscape ==
  ASSUME NEW i, At(i) = Backslash, At(i + 1) # LetterU
  PROVE  Written(i) = {<<Escape[x], 2>> : x \in {At(i + 1)} \cap DOMAIN Escape}
<1>1. Unit(i) = {}
  BY DEF Unit
<1> QED
  BY <1>1 DEF Written

LEMMA WrittenUnit ==
  ASSUME NEW i, At(i) = Backslash, At(i + 1) = LetterU, HexFrom(i + 2)
  PROVE  Written(i) = {<<c, 6>> : c \in {Hex4(i + 2)} \ Surrogates}
                 \cup {<<PairOf(high, low), 12>> : high \in {Hex4(i + 2)} \cap HighSurrogates,
                                                   low \in Unit(i + 6) \cap LowSurrogates}
<1>1. Unit(i) = {Hex4(i + 2)}
  BY DEF Unit
<1>2. LetterU \notin DOMAIN Escape
  BY DEF LetterU, Escape, Quote, Backslash
<1> HIDE DEF Escape
<1> QED
  BY <1>1, <1>2 DEF Written

-----------------------------------------------------------------------------
(* THE LITERAL: WHAT IT MEANS                                              *)

\* Where the loops have stopped, and will: a backslash takes a byte with it, and
\* no quote ends anything before the end.
Boundaries(B) ==
  /\ B \subseteq 2 .. input_end /\ {2, input_end} \subseteq B
  /\ \A i \in B \ {input_end} :
       At(i) # Quote /\ IF At(i) = Backslash THEN i + 2 \in B ELSE i + 1 \in B

\* No character begins before position i and ends behind it.
Apart(i) == \A j \in 2 .. i - 1 : At(j) >= 192 => j + LengthFrom(At(j)) <= i

\* The code points of the literal up to a position are decoded, and the bytes
\* behind it, of one character, are copied.
Reading(start, bytes, codes, held) ==
  /\ start \in 2 .. input_pointer /\ Apart(start)
  /\ Encodes(bytes, codes) /\ Begins(codes, start)
  /\ held \in Seq(Int) /\ Len(held) = input_pointer - start
  /\ \A k \in 1 .. Len(held) : held[k] = At(start + k - 1)
  /\ output = bytes \o held
  /\ start < input_pointer => /\ At(start) >= 192
                              /\ input_pointer < start + LengthFrom(At(start))

IsRead == \E start, bytes, codes, held : Reading(start, bytes, codes, held)

Meant(B) ==
  /\ Boundaries(B) /\ input_end <= Len(input) /\ At(input_end) = Quote
  /\ Readable => input_pointer \in B /\ IsRead

MeaningInv ==
  /\ phase = "measure" => highest = 0 /\ \E B : Boundaries(B)
  /\ phase = "decode" => \E B : Meant(B)
  /\ DecodesLiteral

LEMMA LengthAt ==
  ASSUME input \in Seq(0 .. 255), NEW i
  PROVE  At(i) \in Int /\ LengthFrom(At(i)) \in Int /\ LengthFrom(At(i)) \in 1 .. 4
<1>1. At(i) \in 0 .. 255
  BY AtIs
<1>2. PICK x \in Int : x = At(i)
  BY <1>1
<1> QED
  BY <1>1, <1>2, LengthFromIs

\* The six bytes of a number are none that end anything.
LEMMA NumbersEndNothing ==
  ASSUME NEW B, Boundaries(B), At(input_end) = Quote, input_end \in Nat, input \in Seq(0 .. 255),
         NEW i \in B, At(i) = Backslash, At(i + 1) = LetterU, HexFrom(i + 2)
  PROVE  /\ i + 6 \in B /\ i + 6 <= input_end
         /\ \A k \in 0 .. 5 : At(i + k) < 128
<1>1. B \subseteq 2 .. input_end /\ i \in Nat
  BY DEF Boundaries
<1>2. ASSUME NEW k \in 2 .. 5 PROVE At(i + k) \notin {Quote, Backslash} /\ At(i + k) < 128
  <2>1. Digit(At(i + k)) # -1
    BY <1>1 DEF HexFrom
  <2>2. At(i + k) \in 0 .. 255
    BY AtIs
  <2>3. At(i + k) \in 48 .. 57 \cup 65 .. 70 \cup 97 .. 102
    BY <2>1, Zenon DEF Digit
  <2>4. \A b \in 48 .. 57 \cup 65 .. 70 \cup 97 .. 102 : b # 34 /\ b # 92 /\ b < 128
    OBVIOUS
  <2> QED BY <2>3, <2>4 DEF Quote, Backslash
<1>3. ASSUME NEW k \in 2 .. 5, i + k \in B PROVE i + (k + 1) \in B
  <2>1. i + k # input_end /\ At(i + k) # Backslash
    BY <1>2
  <2>2. (i + k) + 1 \in B
    BY <1>3, <2>1 DEF Boundaries
  <2> QED BY <1>1, <2>2
<1>4. i + 2 \in B
  <2>1. i # input_end
    BY DEF Quote, Backslash
  <2> QED BY <2>1 DEF Boundaries
<1>5. i + 3 \in B
  BY <1>3, <1>4
<1>6. i + 4 \in B
  BY <1>3, <1>5
<1>7. i + 5 \in B
  BY <1>3, <1>6
<1>8. i + 6 \in B
  BY <1>3, <1>7
<1>9. ASSUME NEW k \in 0 .. 5 PROVE At(i + k) < 128
  <2>1. CASE k \in 2 .. 5
    BY <1>2, <2>1
  <2>2. CASE k = 0 
    BY <1>1, <2>2 DEF Backslash
  <2>3. CASE k = 1
    BY <2>3 DEF LetterU
  <2> QED BY <2>1, <2>2, <2>3
<1> QED
  BY <1>1, <1>8, <1>9

\* Positions with bytes of one-byte characters are apart.
LEMMA ApartBehind ==
  ASSUME NEW i \in Nat, Apart(i), NEW n \in Nat, \A k \in 0 .. n - 1 : At(i + k) < 128,
         input \in Seq(0 .. 255)
  PROVE  Apart(i + n)
<1> SUFFICES ASSUME NEW j \in 2 .. i + n - 1, At(j) >= 192
             PROVE  j + LengthFrom(At(j)) <= i + n
  BY DEF Apart
<1>1. At(j) \in Int /\ LengthFrom(At(j)) \in Int
  BY LengthAt, Zenon
<1>2. CASE j < i
  <2>1. j \in 2 .. i - 1
    BY <1>2
  <2>2. j + LengthFrom(At(j)) <= i
    BY <2>1 DEF Apart
  <2> QED BY <1>1, <2>2
<1>3. ASSUME j >= i PROVE FALSE
  <2>1. PICK k \in 0 .. n - 1 : j = i + k
    BY <1>3
  <2>2. At(j) < 128
    BY <2>1, Zenon
  <2> QED BY <1>1, <2>2
<1> QED
  BY <1>2, <1>3

\* A character is apart from what follows.
LEMMA ApartCharacter ==
  ASSUME NEW i \in 2 .. input_end, Apart(i), Readable, input_end \in Nat, input \in Seq(0 .. 255),
         At(i) >= 192
  PROVE  Apart(i + LengthFrom(At(i)))
<1>1. ASSUME NEW j PROVE At(j) \in Int /\ LengthFrom(At(j)) \in 1 .. 4
  BY LengthAt, Zenon
<1>2. PICK n \in 1 .. 4 : n = LengthFrom(At(i))
  BY <1>1
<1>3. \A k \in 1 .. n - 1 : At(i + k) \in Continuations
  BY <1>2 DEF Readable
<1> SUFFICES ASSUME NEW j \in 2 .. i + n - 1, At(j) >= 192
             PROVE  j + LengthFrom(At(j)) <= i + n
  <2>2. Apart(i + n) => Apart(i + LengthFrom(At(i)))
    BY <1>2, Zenon
  <2>3. Apart(i + n) <=> \A j \in 2 .. i + n - 1 : At(j) >= 192 => j + LengthFrom(At(j)) <= i + n
    BY DEF Apart
  <2> QED BY <2>2, <2>3
<1>4. CASE j < i
  <2>1. j \in 2 .. i - 1
    BY <1>4
  <2>2. j + LengthFrom(At(j)) <= i
    BY <2>1 DEF Apart
  <2> QED BY <1>1, <1>2, <2>2
<1>5. CASE j = i
  BY <1>1, <1>2, <1>5
<1>6. ASSUME j > i PROVE FALSE
  <2>1. PICK k \in 1 .. n - 1 : j = i + k
    BY <1>2, <1>6
  <2>2. At(j) \in Continuations
    BY <1>3, <2>1, Zenon
  <2>3. \A b \in 128 .. 191 : ~(b >= 192)
    OBVIOUS
  <2> QED BY <2>2, <2>3, Zenon DEF Continuations
<1> QED
  BY <1>4, <1>5, <1>6

\* Within a character there are but its further bytes.
LEMMA WithinCharacter ==
  ASSUME Readable, input_end \in Nat, input \in Seq(0 .. 255), input_pointer \in 2 .. input_end,
         NEW start, NEW bytes, NEW codes, NEW held, Reading(start, bytes, codes, held)
  PROVE  start < input_pointer <=> At(input_pointer) \in Continuations
<1>1. start \in 2 .. input_pointer /\ start \in 2 .. input_end /\ Apart(start)
  BY DEF Reading
<1>2. ASSUME start < input_pointer PROVE At(input_pointer) \in Continuations
  <2>1. At(start) >= 192 /\ input_pointer < start + LengthFrom(At(start))
    BY <1>2 DEF Reading
  <2>2. LengthFrom(At(start)) \in 1 .. 4
    BY LengthAt
  <2>3. PICK k \in 1 .. LengthFrom(At(start)) - 1 : input_pointer = start + k
    BY <1>1, <1>2, <2>1, <2>2
  <2>4. At(start + k) \in Continuations
    BY <1>1, <2>1, <2>3 DEF Readable
  <2> QED BY <2>3, <2>4
<1>3. ASSUME start = input_pointer, At(input_pointer) \in Continuations PROVE FALSE
  <2>1. PICK j \in 2 .. input_pointer - 1 :
           At(j) >= 192 /\ j + LengthFrom(At(j)) > input_pointer
    BY <1>1, <1>3 DEF Readable
  <2>2. j + LengthFrom(At(j)) <= input_pointer
    BY <1>1, <1>3, <2>1 DEF Apart
  <2>3. LengthFrom(At(j)) \in 1 .. 4
    BY LengthAt
  <2> QED BY <2>1, <2>2, <2>3
<1> QED
  BY <1>1, <1>2, <1>3

LEMMA SameMeaning ==
  ASSUME input' = input, input_end' = input_end
  PROVE  /\ Readable' = Readable
         /\ \A i : At(i)' = At(i) /\ Denoted(i)' = Denoted(i) /\ Apart(i)' = Apart(i)
         /\ \A codes, i : Begins(codes, i)' = Begins(codes, i)
         /\ \A B : Boundaries(B)' = Boundaries(B)
<1>1. \A i : At(i)' = At(i)
  BY DEF At
<1>2. Readable' = Readable
  BY <1>1, SMT DEF Readable, HexFrom
<1>3. \A i : Denoted(i)' = Denoted(i)
  BY SMT DEF Denoted, Written, Unit, At, HexFrom, Hex4
<1>4. \A i : Apart(i)' = Apart(i)
  BY <1>1 DEF Apart
<1>5. \A codes, i : Begins(codes, i)' = Begins(codes, i)
  BY <1>3 DEF Begins
<1>6. \A B : Boundaries(B)' = Boundaries(B)
  BY <1>1 DEF Boundaries
<1> QED
  BY <1>1, <1>2, <1>3, <1>4, <1>5, <1>6

\* A position moved forward is not in front of the literal.
LEMMA BeyondTwo ==
  ASSUME NEW a \in Nat, NEW b \in Nat, a >= 2
  PROVE  a + b \in 2 .. a + b
OBVIOUS

\* A step that reads the one thing that is written.
LEMMA CodeIsRead ==
  ASSUME input \in Seq(0 .. 255), input_pointer \in Nat, 
         NEW start, NEW bytes, NEW codes, NEW held, Reading(start, bytes, codes, held),
         NEW w, Written(start) = {w}, At(start) # Quote,
         w[1] \in Int, w[2] \in Nat, start + w[2] <= Len(input) + 1, Apart(start + w[2]),
         NEW char \in Seq(Int), char # <<>>,
         LengthFrom(char[1]) = Len(char), CodeAt(char, 1) = w[1],
         UNCHANGED <<input, input_end>>,
         output' = bytes \o char, input_pointer' = start + w[2]
  PROVE  IsRead'
<1> DEFINE c == codes \o <<w[1]>>
<1>1. start \in Nat \ {0, 1} /\ codes \in Seq(Int) /\ bytes \in Seq(Int)
  <2>1. start \in 2 .. input_pointer
    BY DEF Reading
  <2>2. codes \in Seq(Int) /\ bytes \in Seq(Int)
    BY DEF Reading, Encodes
  <2> QED BY <2>1, <2>2
<1>2. Encodes(bytes \o char, c)
  BY EncodesMore, Zenon DEF Reading
<1>3. Begins(c, start + w[2])
  BY <1>1, BeginsMore, Zenon DEF Reading
<1>4. Begins(c, start + w[2])' /\ Apart(start + w[2])'
  BY <1>3, SameMeaning
<1>5. output' = (bytes \o char) \o <<>> /\ <<>> \in Seq(Int) /\ Len(<<>>) = 0
  <2>1. bytes \o char \in Seq(Int)
    BY <1>1, ConcatProperties
  <2> QED BY <2>1, ConcatEmptySeq, EmptySeq
<1>6. start + w[2] \in 2 .. input_pointer'
  <2>1. start \in Nat /\ start >= 2
    BY <1>1
  <2>2. start + w[2] \in 2 .. start + w[2]
    BY <2>1, BeyondTwo, Zenon
  <2> QED BY <2>2, Zenon
<1> DEFINE s == start + w[2]
           b == bytes \o char
<1>7. /\ s \in 2 .. input_pointer' /\ Apart(s)' /\ Begins(c, s)' /\ Encodes(b, c)
      /\ output' = b \o <<>> /\ s = input_pointer' /\ s \in Nat
  BY <1>1, <1>2, <1>4, <1>5, <1>6
<1> HIDE DEF c, s, b
<1>8. Reading(s, b, c, <<>>)'
  <2>1. Len(<<>>) = input_pointer' - s /\ ~(s < input_pointer')
    BY <1>5, <1>7
  <2>2. 1 .. Len(<<>>) = {}
    <3>1. Len(<<>>) = 0
      BY <1>5
    <3>2. 1 .. 0 = {}
      OBVIOUS
    <3> QED BY <3>1, <3>2, Zenon
  <2>3. \A k \in 1 .. Len(<<>>) : <<>>[k] = At(s + k - 1)'
    BY <2>2, Zenon
  <2> QED BY <1>5, <1>7, <2>1, <2>3, Zenon DEF Reading
<1> QED
  BY <1>8 DEF IsRead

LEMMA DecodeKeepsMeaning ==
  ASSUME UNCHANGED <<input, input_end>>, NEW B, Meant(B), phase' # "measure", phase' # "ok",
         Readable => \/ phase' = "decode" /\ input_pointer' \in B /\ IsRead'
                     \/ phase' = "failed" /\ Denoted(2) = {}
  PROVE  MeaningInv'
<1>1. Boundaries(B)' /\ (input_end <= Len(input))' /\ (At(input_end) = Quote)'
  BY SameMeaning DEF Meant
<1>2. Readable' = Readable /\ Denoted(2)' = Denoted(2)
  BY SameMeaning
<1>3. phase' = "decode" => Meant(B)'
  BY <1>1, <1>2 DEF Meant
<1>4. DecodesLiteral'
  BY <1>2 DEF DecodesLiteral
<1> QED
  BY <1>3, <1>4 DEF MeaningInv

LEMMA DecodeByteMeaning == IInv /\ MeaningInv /\ DecodeByte => MeaningInv'
<1> SUFFICES ASSUME IInv, MeaningInv, DecodeByte PROVE MeaningInv'
  OBVIOUS
<1>1. /\ phase = "decode" /\ phase' = "decode" /\ UNCHANGED <<input, input_end>>
      /\ input_pointer < input_end /\ At(input_pointer) # Backslash
      /\ output' = output \o <<At(input_pointer)>> /\ input_pointer' = input_pointer + 1
  BY DEF DecodeByte, Emits
<1>2. PICK B : Meant(B)
  BY <1>1 DEF MeaningInv
<1> SUFFICES ASSUME Readable PROVE input_pointer' \in B /\ IsRead'
  BY <1>1, <1>2, DecodeKeepsMeaning
<1>3. /\ input \in Seq(0 .. 255) /\ input_end \in Nat /\ input_pointer \in B
      /\ B \subseteq 2 .. input_end /\ input_pointer \in 2 .. input_end
      /\ At(input_pointer) # Quote /\ input_pointer + 1 \in B
      /\ input_end <= Len(input)
  BY <1>1, <1>2 DEF IInv, Types, Meant, Boundaries
<1>4. PICK start, bytes, codes, held : Reading(start, bytes, codes, held)
  BY <1>2 DEF Meant, IsRead
<1>5. start < input_pointer <=> At(input_pointer) \in Continuations
  BY <1>3, <1>4, WithinCharacter
<1>0. PICK char : char = held \o <<At(input_pointer)>>
  OBVIOUS
<1>6. /\ start \in Nat \ {0, 1} /\ start <= input_pointer /\ start \in 2 .. input_end
      /\ Apart(start) /\ bytes \in Seq(Int)
      /\ held \in Seq(Int) /\ Len(held) = input_pointer - start
      /\ \A k \in 1 .. Len(held) : held[k] = At(start + k - 1)
      /\ output = bytes \o held
      /\ start < input_pointer => /\ At(start) >= 192
                                  /\ input_pointer < start + LengthFrom(At(start))
  BY <1>3, <1>4 DEF Reading, Encodes
<1>7. \A i : At(i) \in Int /\ LengthFrom(At(i)) \in 1 .. 4
  BY <1>3, LengthAt, Zenon
<1>8. /\ char \in Seq(Int) /\ Len(char) = input_pointer + 1 - start
      /\ char # <<>> /\ \A k \in 1 .. Len(char) : char[k] = At(start + k - 1)
  <2>1. <<At(input_pointer)>> \in Seq(Int) /\ Len(<<At(input_pointer)>>) = 1
    BY <1>7
  <2>2. char \in Seq(Int) /\ Len(char) = Len(held) + 1
    BY <1>0, <1>6, <2>1, ConcatProperties
  <2>3. ASSUME NEW k \in 1 .. Len(char) PROVE char[k] = At(start + k - 1)
    <3>1. CASE k <= Len(held)
      <4>1. char[k] = held[k] /\ k \in 1 .. Len(held)
        BY <1>0, <1>3, <1>6, <2>1, <2>2, <3>1, ConcatProperties
      <4> QED BY <1>6, <4>1
    <3>2. CASE k = Len(held) + 1
      <4>1. k \in 1 .. Len(held) + 1 /\ ~(k <= Len(held)) /\ k - Len(held) = 1
        BY <1>3, <1>6, <3>2
      <4>2. char[k] = <<At(input_pointer)>>[1]
        BY <1>0, <1>6, <2>1, <4>1, ConcatProperties
      <4>3. start + k - 1 = input_pointer
        BY <1>3, <1>6, <3>2
      <4> QED BY <4>2, <4>3
    <3> QED BY <1>3, <1>6, <2>2, <3>1, <3>2
  <2>4. Len(char) = input_pointer + 1 - start /\ Len(char) >= 1
    BY <1>3, <1>6, <2>2
  <2> QED BY <2>2, <2>3, <2>4, EmptySeq
<1>9. output' = bytes \o char
  <2>1. <<At(input_pointer)>> \in Seq(Int)
    BY <1>7
  <2>2. Joined(bytes, held, <<At(input_pointer)>>)
    BY <1>6, <2>1, JoinedIs
  <2> QED BY <1>0, <1>1, <1>6, <2>2, Zenon DEF Joined
<1>10. At(start) \notin {Quote, Backslash} \cup Continuations
  <2>1. CASE start = input_pointer
    BY <1>1, <1>3, <1>5, <1>6, <2>1
  <2>2. CASE start < input_pointer
    <3>1. PICK x \in Int : x = At(start)
      BY <1>7
    <3>2. x >= 192
      BY <1>6, <2>2, <3>1
    <3>3. x \notin {34, 92} \cup 128 .. 191
      BY <3>2
    <3> QED BY <3>1, <3>3, Zenon DEF Quote, Backslash, Continuations
  <2> QED BY <1>3, <1>6, <2>1, <2>2
<1> DEFINE n == LengthFrom(At(start))
<1>11. n \in 1 .. 4 /\ At(start) \in Int /\ (n # 1 => At(start) >= 192) /\ (n = 1 => At(start) < 128)
  <2>1. n \in 1 .. 4 /\ At(start) \in Int
    BY <1>7
  <2>2. PICK x \in Int : x = At(start)
    BY <2>1
  <2>3. x \notin 128 .. 191
    BY <1>10, <2>2 DEF Continuations
  <2>4. (LengthFrom(x) # 1 => x >= 192) /\ (LengthFrom(x) = 1 => x < 128)
    BY <2>2, <2>3 DEF LengthFrom
  <2> QED BY <2>1, <2>2, <2>4
<1>12. CASE input_pointer + 1 = start + n
  <2>0. PICK w : w = <<CodeAt(input, start), n>>
    OBVIOUS
  <2>1. Written(start) = {w} /\ At(start) # Quote /\ w[1] = CodeAt(input, start) /\ w[2] = n
    BY <1>10, <2>0, WrittenByte
  <2>2. /\ Len(input) \in Nat /\ input \in Seq(Int) /\ start + n <= Len(input) + 1
        /\ \A j \in 0 .. n - 1 : start + j \in 1 .. Len(input)
        /\ start \in 1 .. Len(input)
    <3>1. Len(input) \in Nat /\ input \in Seq(Int)
      BY <1>3, InputIs
    <3>2. start + n <= Len(input) + 1
      BY <1>3, <1>6, <1>12, <3>1
    <3> HIDE DEF n
    <3>3. n \in 1 .. 4 /\ start \in Nat \ {0}
      BY <1>6, <1>11
    <3>4. start \in 1 .. Len(input)
      BY <3>1, <3>2, <3>3
    <3>5. ASSUME NEW j \in 0 .. n - 1 PROVE start + j \in 1 .. Len(input)
      BY <3>1, <3>2, <3>3
    <3> QED BY <3>1, <3>2, <3>4, <3>5
  <2>3. \A k \in 1 .. Len(input) : At(k) = input[k]
    BY <1>3, InputIs
  <2>4. LengthFrom(input[start]) = n
    BY <2>2, <2>3
  <2>5. CodeAt(input, start) \in Int
    BY <2>2, <2>4, CodeAtIs
  <2>6. Len(char) = n
    <3> HIDE DEF n
    <3> QED BY <1>3, <1>6, <1>8, <1>11, <1>12
  <2>7. ASSUME NEW j \in 0 .. n - 1 PROVE char[1 + j] = input[start + j]
    <3>1. 1 + j \in 1 .. Len(char) /\ start + (1 + j) - 1 = start + j
      BY <1>6, <1>11, <2>6
    <3>2. char[1 + j] = At(start + (1 + j) - 1)
      BY <1>8, <3>1, Zenon
    <3>3. start + j \in 1 .. Len(input)
      BY <2>2
    <3> QED BY <2>3, <3>1, <3>2, <3>3
  <2>8. CodeAt(char, 1) = CodeAt(input, start)
    <3>1. /\ start \in Int /\ 1 \in Int /\ LengthFrom(input[start]) \in 1 .. 4
          /\ \A j \in 0 .. LengthFrom(input[start]) - 1 : char[1 + j] = input[start + j]
      BY <1>6, <1>11, <2>4, <2>7
    <3>2. PICK one \in Int : one = 1
      OBVIOUS
    <3>3. CodeAt(char, one) = CodeAt(input, start)
      BY <3>1, <3>2, SameCode
    <3> QED BY <3>2, <3>3
  <2>9. LengthFrom(char[1]) = Len(char)
    <3>1. 0 \in 0 .. n - 1 /\ 1 + 0 = 1 /\ start + 0 = start
      BY <1>6, <1>11
    <3>2. char[1] = input[start]
      BY <2>7, <3>1
    <3> QED BY <2>4, <2>6, <3>2
  <2>10. Apart(start + n)
    <3>1. CASE n = 1
      <4>1. \A k \in 0 .. 0 : At(start + k) < 128
        BY <1>6, <1>11, <3>1
      <4>2. 1 \in Nat /\ start \in Nat /\ \A k \in 0 .. 1 - 1 : At(start + k) < 128
        BY <1>6, <4>1
      <4>3. Apart(start + 1)
        BY <1>3, <1>6, <4>2, ApartBehind
      <4> QED BY <3>1, <4>3
    <3>2. CASE n # 1
      BY <1>3, <1>6, <1>11, <3>2, ApartCharacter
    <3> QED BY <3>1, <3>2
  <2>11. input_pointer' = start + w[2] /\ w[1] \in Int /\ w[2] \in Nat
         /\ start + w[2] <= Len(input) + 1 /\ Apart(start + w[2]) /\ CodeAt(char, 1) = w[1]
    BY <1>1, <1>11, <1>12, <2>1, <2>2, <2>5, <2>8, <2>10
  <2> HIDE DEF n
  <2>12. IsRead'
    <3>1. input_pointer \in Nat
      BY <1>3
    <3> QED BY <1>1, <1>3, <1>4, <1>8, <1>9, <2>1, <2>9, <2>11, <3>1, CodeIsRead, Zenon
  <2> QED BY <1>1, <1>3, <2>12
<1>13. CASE input_pointer + 1 # start + n
  <2>1. n >= 2 /\ At(start) >= 192 /\ input_pointer + 1 < start + n
    <3> HIDE DEF n
    <3>1. CASE start = input_pointer
      BY <1>6, <1>11, <1>13, <3>1
    <3>2. CASE start < input_pointer
      <4>1. At(start) >= 192 /\ input_pointer < start + n
        BY <1>6, <3>2 DEF n
      <4> QED BY <1>3, <1>6, <1>11, <1>13, <3>2, <4>1
    <3> QED BY <1>3, <1>6, <3>1, <3>2
  <2>2. /\ start \in 2 .. input_pointer' /\ Apart(start)' /\ Encodes(bytes, codes)
        /\ Begins(codes, start)'
    <3>1. Encodes(bytes, codes) /\ Begins(codes, start)
      BY <1>4 DEF Reading
    <3>2. start \in 2 .. input_pointer + 1
      BY <1>3, <1>6
    <3> QED BY <1>1, <1>6, <3>1, <3>2, SameMeaning
  <2>3. /\ (At(start) >= 192)' /\ (input_pointer < start + LengthFrom(At(start)))'
        /\ \A k \in 1 .. Len(char) : char[k] = At(start + k - 1)'
        /\ Len(char) = input_pointer' - start
    <3>1. \A i : At(i)' = At(i)
      BY <1>1, SameMeaning
    <3>2. Len(char) = input_pointer' - start
      BY <1>1, <1>3, <1>6, <1>8
    <3>3. \A k \in 1 .. Len(char) : char[k] = At(start + k - 1)'
      BY <1>8, <3>1, Zenon
    <3>4. (At(start) >= 192)' /\ (input_pointer < start + LengthFrom(At(start)))'
      BY <1>1, <2>1, <3>1
    <3> QED BY <3>2, <3>3, <3>4
  <2>4. Reading(start, bytes, codes, char)'
    BY <1>8, <1>9, <2>2, <2>3, Zenon DEF Reading
  <2> QED BY <1>1, <1>3, <2>4 DEF IsRead
<1> QED
  BY <1>12, <1>13

\* Before an escape, or at the end, nothing is held.
LEMMA NothingHeld ==
  ASSUME Readable, input_end \in Nat, input \in Seq(0 .. 255), input_pointer \in 2 .. input_end,
         IsRead, At(input_pointer) \notin Continuations
  PROVE  \E bytes \in Seq(Int), codes \in Seq(Int) :
           Reading(input_pointer, bytes, codes, <<>>) /\ output = bytes
<1>1. PICK start, bytes, codes, held : Reading(start, bytes, codes, held)
  BY DEF IsRead
<1>2. ~(start < input_pointer) /\ start \in 2 .. input_pointer
  BY <1>1, WithinCharacter DEF Reading
<1>3. start = input_pointer
  BY <1>2
<1>4. held = <<>>
  <2>1. held \in Seq(Int) /\ Len(held) = 0
    BY <1>1, <1>3 DEF Reading
  <2> QED BY <2>1, EmptySeq
<1>5. bytes \in Seq(Int) /\ codes \in Seq(Int) /\ output = bytes \o held
  BY <1>1 DEF Reading, Encodes
<1>6. output = bytes
  BY <1>4, <1>5, ConcatEmptySeq
<1> QED
  BY <1>1, <1>3, <1>4, <1>5, <1>6

\* An escape that is written is read.
LEMMA EscapeIsRead ==
  ASSUME Readable, input_end \in Nat, input \in Seq(0 .. 255), input_pointer \in 2 .. input_end,
         IsRead, At(input_pointer) = Backslash, input_end <= Len(input),
         NEW w, Written(input_pointer) = {w}, w[1] \in Int, w[2] \in Nat,
         input_pointer + w[2] <= input_end,
         \A k \in 0 .. w[2] - 1 : At(input_pointer + k) < 128,
         NEW char \in Seq(Int), char # <<>>,
         LengthFrom(char[1]) = Len(char), CodeAt(char, 1) = w[1],
         UNCHANGED <<input, input_end>>,
         output' = output \o char, input_pointer' = input_pointer + w[2]
  PROVE  IsRead'
<1>1. At(input_pointer) \notin Continuations /\ At(input_pointer) # Quote
  BY DEF Continuations, Quote, Backslash
<1>2. PICK bytes \in Seq(Int), codes \in Seq(Int) :
         Reading(input_pointer, bytes, codes, <<>>) /\ output = bytes
  BY <1>1, NothingHeld
<1>3. Len(input) \in Nat /\ input_pointer \in Nat
  BY LenProperties
<1>4. Apart(input_pointer + w[2])
  <2>1. Apart(input_pointer)
    BY <1>2 DEF Reading
  <2> QED BY <1>3, <2>1, ApartBehind
<1>5. input_pointer + w[2] <= Len(input) + 1
  BY <1>3
<1>6. PICK start : start = input_pointer
  OBVIOUS
<1>7. /\ Reading(start, bytes, codes, <<>>) /\ Written(start) = {w} /\ At(start) # Quote
      /\ start + w[2] <= Len(input) + 1 /\ Apart(start + w[2])
      /\ output' = bytes \o char /\ input_pointer' = start + w[2]
  BY <1>1, <1>2, <1>4, <1>5, <1>6, Zenon
<1> QED
  BY <1>3, <1>7, CodeIsRead, Zenon

\* A backslash where nothing is written: the literal denotes nothing.
LEMMA NothingDenoted ==
  ASSUME Readable, input_end \in Nat, input \in Seq(0 .. 255), input_pointer \in 2 .. input_end,
         IsRead, At(input_pointer) = Backslash, input_end <= Len(input),
         Written(input_pointer) = {}
  PROVE  Denoted(2) = {}
<1>1. At(input_pointer) \notin Continuations /\ At(input_pointer) # Quote
  BY DEF Continuations, Quote, Backslash
<1>2. PICK bytes \in Seq(Int), codes \in Seq(Int) : Reading(input_pointer, bytes, codes, <<>>)
  BY <1>1, NothingHeld
<1>3. input_pointer \in 1 .. Len(input) + 1
  BY LenProperties
<1>4. Begins(codes, input_pointer)
  BY <1>2 DEF Reading
<1> QED
  BY <1>1, <1>3, <1>4, BeginsNothing

\* A character of one byte.
LEMMA OneByte ==
  ASSUME NEW b \in Nat, b < 128
  PROVE  /\ <<b>> \in Seq(Int) /\ <<b>> # <<>>
         /\ LengthFrom(<<b>>[1]) = Len(<<b>>) /\ CodeAt(<<b>>, 1) = b
BY DEF LengthFrom, CodeAt

LEMMA DecodeEscapeMeaning == IInv /\ MeaningInv /\ DecodeEscape => MeaningInv'
<1> SUFFICES ASSUME IInv, MeaningInv, DecodeEscape PROVE MeaningInv'
  OBVIOUS
<1>1. /\ phase = "decode" /\ phase' # "measure" /\ phase' # "ok" /\ UNCHANGED <<input, input_end>>
      /\ input_pointer < input_end /\ At(input_pointer) = Backslash
      /\ At(input_pointer + 1) # LetterU
  BY DEF DecodeEscape, Emits, Failed
<1>2. PICK B : Meant(B)
  BY <1>1 DEF MeaningInv
<1> SUFFICES ASSUME Readable
             PROVE  \/ phase' = "decode" /\ input_pointer' \in B /\ IsRead'
                    \/ phase' = "failed" /\ Denoted(2) = {}
  BY <1>1, <1>2, DecodeKeepsMeaning
<1>3. /\ input \in Seq(0 .. 255) /\ input_end \in Nat /\ input_pointer \in B
      /\ B \subseteq 2 .. input_end /\ input_pointer \in 2 .. input_end
      /\ input_pointer + 2 \in B /\ input_end <= Len(input) /\ IsRead
  BY <1>1, <1>2 DEF IInv, Types, Meant, Boundaries
<1>4. PICK x : x = At(input_pointer + 1)
  OBVIOUS
<1>5. Written(input_pointer) = {<<Escape[y], 2>> : y \in {x} \cap DOMAIN Escape}
  BY <1>1, <1>4, WrittenEscape
<1>6. CASE x \in DOMAIN Escape
  <2>1. PICK w : w = <<Escape[x], 2>>
    OBVIOUS
  <2>2. Written(input_pointer) = {w}
    BY <1>5, <1>6, <2>1
  <2>3. Escape[x] \in Nat /\ Escape[x] < 128 /\ x \in Nat /\ x < 128
    BY <1>6 DEF Escape, Quote, Backslash
  <2>4. PICK char : char = <<Escape[x]>>
    OBVIOUS
  <2>5. /\ char \in Seq(Int) /\ char # <<>> /\ LengthFrom(char[1]) = Len(char)
        /\ CodeAt(char, 1) = w[1]
    BY <2>1, <2>3, <2>4, OneByte
  <2>6. /\ w[1] \in Int /\ w[2] \in Nat /\ input_pointer + w[2] <= input_end
        /\ input_pointer + w[2] \in B
    BY <1>3, <2>1, <2>3
  <2>7. \A k \in 0 .. w[2] - 1 : At(input_pointer + k) < 128
    <3>1. At(input_pointer + 0) < 128
      BY <1>1, <1>3 DEF Backslash
    <3>2. At(input_pointer + 1) < 128
      BY <1>4, <2>3
    <3>3. \A k \in 0 .. w[2] - 1 : k = 0 \/ k = 1
      BY <2>1
    <3> QED BY <3>1, <3>2, <3>3
  <2>8. Emits(char, 2)
    BY <1>4, <1>6, <2>4 DEF DecodeEscape
  <2>9. output' = output \o char /\ input_pointer' = input_pointer + w[2] /\ phase' = "decode"
    BY <1>1, <2>1, <2>8 DEF Emits
  <2>10. IsRead'
    BY <1>1, <1>3, <2>2, <2>5, <2>6, <2>7, <2>9, EscapeIsRead, Zenon
  <2> QED BY <2>6, <2>9, <2>10
<1>7. CASE x \notin DOMAIN Escape
  <2>1. phase' = "failed"
    BY <1>4, <1>7 DEF DecodeEscape, Failed
  <2>2. Written(input_pointer) = {}
    BY <1>5, <1>7
  <2>3. Denoted(2) = {}
    BY <1>1, <1>3, <2>2, NothingDenoted
  <2> QED BY <2>1, <2>3
<1> QED
  BY <1>6, <1>7

\* The code adds the ten bits of each surrogate as it should.
LEMMA PairIs ==
  ASSUME NEW high \in HighSurrogates, NEW low \in LowSurrogates
  PROVE  FromPair(high, low) = PairOf(high, low) /\ FromPair(high, low) <= LargestCode
<1>1. high \in 55296 .. 56319 /\ low \in 56320 .. 57343
  BY SMT DEF HighSurrogates, LowSurrogates
<1>2. high % 1024 = high - 55296 /\ low % 1024 = low - 56320
  BY <1>1, SMT
<1> QED
  BY <1>1, <1>2, SMT DEF FromPair, PairOf, LargestCode

LEMMA DecodeUtf16Meaning == IInv /\ MeaningInv /\ DecodeUtf16 => MeaningInv'
<1> SUFFICES ASSUME IInv, MeaningInv, DecodeUtf16 PROVE MeaningInv'
  OBVIOUS
<1>1. /\ phase = "decode" /\ phase' # "measure" /\ phase' # "ok" /\ UNCHANGED <<input, input_end>>
      /\ input_pointer < input_end /\ At(input_pointer) = Backslash
      /\ At(input_pointer + 1) = LetterU
  BY DEF DecodeUtf16, Emits, Failed
<1>2. PICK B : Meant(B)
  BY <1>1 DEF MeaningInv
<1> SUFFICES ASSUME Readable
             PROVE  \/ phase' = "decode" /\ input_pointer' \in B /\ IsRead'
                    \/ phase' = "failed" /\ Denoted(2) = {}
  BY <1>1, <1>2, DecodeKeepsMeaning
<1>3. /\ input \in Seq(0 .. 255) /\ input_end \in Nat /\ input_pointer \in B
      /\ B \subseteq 2 .. input_end /\ input_pointer \in 2 .. input_end
      /\ At(input_end) = Quote /\ Boundaries(B)
      /\ input_end <= Len(input) /\ IsRead
  BY <1>1, <1>2 DEF IInv, Types, Meant, Boundaries
<1> DEFINE second == input_pointer + 6
<1>4. PICK high : high = Hex4(input_pointer + 2)
  OBVIOUS
<1>5. PICK low : low = Hex4(second + 2)
  OBVIOUS
<1>6. HexFrom(input_pointer + 2)
  BY <1>1, <1>3 DEF Readable
<1>7. second \in B /\ second <= input_end /\ \A k \in 0 .. 5 : At(input_pointer + k) < 128
  BY <1>1, <1>3, <1>6, NumbersEndNothing
<1>8. Complete(input_pointer)
  BY <1>3, <1>7 DEF Complete
<1>9. high \in Nat /\ high <= LargestUnit /\ low \in Nat
  <2>1. input_pointer + 2 \in Nat /\ second + 2 \in Nat
    BY <1>3
  <2> QED BY <1>3, <1>4, <1>5, <2>1, Hex4Is
<1>10. Written(input_pointer)
         = {<<c, 6>> : c \in {high} \ Surrogates}
           \cup {<<PairOf(h, l), 12>> : h \in {high} \cap HighSurrogates,
                                        l \in Unit(second) \cap LowSurrogates}
  BY <1>1, <1>4, <1>6, WrittenUnit
<1>11. CASE high \notin Surrogates
  <2>1. PICK w : w = <<high, 6>>
    OBVIOUS
  <2>2. Written(input_pointer) = {w}
    BY <1>10, <1>11, <2>1 DEF Surrogates
  <2>3. PICK char : char = Utf8(high)
    OBVIOUS
  <2>4. high <= LargestCode
    BY <1>9, SMT DEF LargestUnit, LargestCode
  <2>5. /\ char \in Seq(Int) /\ char # <<>> /\ LengthFrom(char[1]) = Len(char)
        /\ CodeAt(char, 1) = w[1]
    BY <1>9, <2>1, <2>3, <2>4, Utf8Decoded
  <2>6. /\ w[1] \in Int /\ w[2] \in Nat /\ input_pointer + w[2] <= input_end
        /\ input_pointer + w[2] \in B
        /\ \A k \in 0 .. w[2] - 1 : At(input_pointer + k) < 128
    <3>1. w[1] = high /\ w[2] = 6 /\ w[2] - 1 = 5
      BY <2>1
    <3> QED BY <1>7, <1>9, <3>1
  <2>7. Emits(char, 6)
    BY <1>4, <1>8, <1>11, <2>3, Zenon DEF DecodeUtf16, Surrogates
  <2>8. output' = output \o char /\ input_pointer' = input_pointer + w[2] /\ phase' = "decode"
    BY <1>1, <2>1, <2>7 DEF Emits
  <2>9. IsRead'
    BY <1>1, <1>3, <2>2, <2>5, <2>6, <2>8, EscapeIsRead, Zenon
  <2> QED BY <2>6, <2>8, <2>9
<1>12. HighSurrogates \cap LowSurrogates = {}
  BY SMT DEF HighSurrogates, LowSurrogates
<1>13. CASE high \in LowSurrogates
  <2>1. phase' = "failed"
    BY <1>4, <1>8, <1>12, <1>13, Zenon DEF DecodeUtf16, Failed
  <2>2. Written(input_pointer) = {}
    <3>1. {high} \ Surrogates = {} /\ {high} \cap HighSurrogates = {}
      BY <1>12, <1>13 DEF Surrogates
    <3> QED BY <1>10, <3>1
  <2> QED BY <1>1, <1>3, <2>1, <2>2, NothingDenoted
<1>14. At(second) = Backslash /\ At(second + 1) = LetterU
         => Complete(second) /\ Unit(second) = {low} /\ second + 6 \in B
            /\ second + 6 <= input_end /\ \A k \in 0 .. 5 : At(second + k) < 128
  <2> SUFFICES ASSUME At(second) = Backslash, At(second + 1) = LetterU
               PROVE  /\ Complete(second) /\ Unit(second) = {low} /\ second + 6 \in B
                      /\ second + 6 <= input_end /\ \A k \in 0 .. 5 : At(second + k) < 128
    OBVIOUS
  <2>1. HexFrom(second + 2)
    <3>1. second \in 2 .. input_end
      BY <1>3, <1>7
    <3> QED BY <3>1 DEF Readable
  <2>2. second + 6 \in B /\ second + 6 <= input_end /\ \A k \in 0 .. 5 : At(second + k) < 128
    BY <1>3, <1>7, <2>1, NumbersEndNothing
  <2>3. Complete(second)
    BY <1>3, <2>2 DEF Complete
  <2>4. Unit(second) = {low}
    BY <1>5, <2>1 DEF Unit
  <2> QED BY <2>2, <2>3, <2>4
<1> DEFINE Paired == At(second) = Backslash /\ At(second + 1) = LetterU /\ low \in LowSurrogates
<1>15. CASE high \in HighSurrogates /\ ~Paired
  <2>1. phase' = "failed"
    BY <1>4, <1>5, <1>8, <1>15, Zenon DEF DecodeUtf16, Failed
  <2>2. Unit(second) \cap LowSurrogates = {}
    BY <1>14, <1>15 DEF Unit
  <2>3. Written(input_pointer) = {}
    <3>1. {high} \ Surrogates = {}
      BY <1>15 DEF Surrogates
    <3> QED BY <1>10, <2>2, <3>1
  <2> QED BY <1>1, <1>3, <2>1, <2>3, NothingDenoted
<1>16. CASE high \in HighSurrogates /\ Paired
  <2>1. PICK w : w = <<PairOf(high, low), 12>>
    OBVIOUS
  <2>2. Written(input_pointer) = {w}
    BY <1>10, <1>14, <1>16, <2>1 DEF Surrogates
  <2>3. PICK code : code = FromPair(high, low)
    OBVIOUS
  <2>4. code \in Nat /\ code <= LargestCode /\ code = PairOf(high, low)
    BY <1>9, <1>16, <2>3, FromPairIs, PairIs
  <2>5. PICK char : char = Utf8(code)
    OBVIOUS
  <2>6. /\ char \in Seq(Int) /\ char # <<>> /\ LengthFrom(char[1]) = Len(char)
        /\ CodeAt(char, 1) = w[1]
    BY <2>1, <2>4, <2>5, Utf8Decoded
  <2>7. w[1] = code /\ w[2] = 12 /\ w[1] \in Int /\ w[2] \in Nat
    BY <2>1, <2>4
  <2>8. input_pointer + w[2] <= input_end /\ input_pointer + w[2] \in B
    <3>1. second + 6 = input_pointer + 12
      BY <1>3
    <3> QED BY <1>14, <1>16, <2>7, <3>1
  <2>9. \A k \in 0 .. w[2] - 1 : At(input_pointer + k) < 128
    <3>1. ASSUME NEW k \in 0 .. 11 PROVE At(input_pointer + k) < 128
      <4>1. CASE k < 6
        BY <1>7, <4>1
      <4>2. CASE k >= 6
        <5>1. k - 6 \in 0 .. 5 /\ second + (k - 6) = input_pointer + k
          BY <1>3, <4>2
        <5>2. At(second + (k - 6)) < 128
          BY <1>14, <1>16, <5>1
        <5> QED BY <5>1, <5>2
      <4> QED BY <4>1, <4>2
    <3> QED BY <2>7, <3>1
  <2>10. Emits(char, 12)
    BY <1>4, <1>5, <1>8, <1>14, <1>16, <2>3, <2>5, Zenon DEF DecodeUtf16
  <2>11. output' = output \o char /\ input_pointer' = input_pointer + w[2] /\ phase' = "decode"
    BY <1>1, <2>7, <2>10 DEF Emits
  <2>12. IsRead'
    BY <1>1, <1>3, <2>2, <2>6, <2>7, <2>8, <2>9, <2>11, EscapeIsRead, Zenon
  <2> QED BY <2>8, <2>11, <2>12
<1> QED
  BY <1>11, <1>13, <1>15, <1>16 DEF Surrogates

\* All has been decoded, and the output is what the literal denotes.
LEMMA FinishMeaning == IInv /\ MeaningInv /\ Finish => MeaningInv'
<1> SUFFICES ASSUME IInv, MeaningInv, Finish PROVE MeaningInv'
  OBVIOUS
<1>1. /\ phase = "decode" /\ phase' = "ok" /\ UNCHANGED <<input, input_end>>
      /\ input_pointer >= input_end /\ output' = Append(output, 0)
  BY DEF Finish
<1>2. PICK B : Meant(B)
  BY <1>1 DEF MeaningInv
<1>3. ASSUME Readable PROVE Denoted(2) = {CodePoints(Front(output'))}
  <2>1. /\ input \in Seq(0 .. 255) /\ input_end \in Nat /\ input_pointer \in B
        /\ B \subseteq 2 .. input_end
        /\ input_end <= Len(input) /\ At(input_end) = Quote /\ IsRead
    BY <1>2, <1>3 DEF IInv, Types, Meant, Boundaries
  <2>2. input_pointer = input_end /\ input_pointer \in 2 .. input_end
    BY <1>1, <2>1
  <2>3. At(input_pointer) = Quote /\ At(input_pointer) \notin Continuations
    BY <2>1, <2>2 DEF Quote, Continuations
  <2>4. PICK bytes \in Seq(Int), codes \in Seq(Int) :
           Reading(input_pointer, bytes, codes, <<>>) /\ output = bytes
    BY <1>3, <2>1, <2>2, <2>3, NothingHeld
  <2>5. Begins(codes, input_pointer) /\ Encodes(bytes, codes)
    BY <2>4 DEF Reading
  <2>6. Denoted(input_pointer) = {<<>>}
    <3>1. input_pointer \in 1 .. Len(input) + 1
      BY <2>1, <2>2, LenProperties
    <3> QED BY <2>1, <2>3, <3>1, DenotedIs DEF DenotedHere
  <2>7. Denoted(2) = {codes}
    <3>1. codes \o <<>> = codes
      BY ConcatEmptySeq
    <3> QED BY <2>5, <2>6, <3>1 DEF Begins
  <2>8. CodePoints(bytes) = codes
    <3>1. CodePoints(bytes \o <<>>) = codes \o CodePoints(<<>>)
      BY <2>5, EmptySeq DEF Encodes
    <3>2. bytes \o <<>> = bytes /\ codes \o <<>> = codes
      BY ConcatEmptySeq
    <3> QED BY <3>1, <3>2, CodePointsNone
  <2>9. Front(Append(bytes, 0)) = bytes
    <3>1. /\ Append(bytes, 0) \in Seq(Int) /\ Len(Append(bytes, 0)) = Len(bytes) + 1
          /\ \A i \in 1 .. Len(bytes) : Append(bytes, 0)[i] = bytes[i]
      BY AppendProperties
    <3> QED BY <3>1, SMT DEF Front
  <2> QED BY <1>1, <2>4, <2>7, <2>8, <2>9
<1>4. DecodesLiteral'
  <2>1. Readable' = Readable /\ Denoted(2)' = Denoted(2)
    BY <1>1, SameMeaning
  <2>2. CodePoints(Front(output))' = CodePoints(Front(output'))
    BY DEF CodePoints, CodeAt
  <2> QED BY <1>1, <1>3, <2>1, <2>2 DEF DecodesLiteral
<1> QED
  BY <1>1, <1>4 DEF MeaningInv

LEMMA MeasureMeaning == IInv /\ MeaningInv /\ MeasureByte => MeaningInv'
<1> SUFFICES ASSUME IInv, MeaningInv, MeasureByte PROVE MeaningInv'
  OBVIOUS
<1>1. /\ phase = "measure" /\ highest = 0 /\ highest' = 0 /\ input' = input
      /\ At(input_end) # Quote /\ input_end \in Nat \ {0, 1}
  BY DEF MeasureByte, InLiteral, MeaningInv, IInv, Types
<1>2. PICK B : Boundaries(B)
  BY <1>1 DEF MeaningInv
<1>3. \A i : At(i)' = At(i)
  BY <1>1 DEF At
<1>4. ASSUME phase' = "measure",
             \/ At(input_end) # Backslash /\ input_end' = input_end + 1
             \/ At(input_end) = Backslash /\ input_end' = input_end + 2
      PROVE  MeaningInv'
  <2>1. PICK end : end = input_end'
    OBVIOUS
  <2>2. end \in Nat /\ end > input_end
    BY <1>1, <1>4, <2>1
  <2> DEFINE C == B \cup {end}
  <2>3. B \subseteq 2 .. input_end /\ {2, input_end} \subseteq B
    BY <1>2 DEF Boundaries
  <2>4. C \subseteq 2 .. end /\ {2, end} \subseteq C
    BY <1>1, <2>2, <2>3
  <2>5. ASSUME NEW i \in C \ {end}
        PROVE  At(i) # Quote /\ IF At(i) = Backslash THEN i + 2 \in C ELSE i + 1 \in C
    <3>1. CASE i = input_end
      BY <1>1, <1>4, <2>1, <3>1
    <3>2. CASE i # input_end
      BY <1>2, <2>5, <3>2 DEF Boundaries
    <3> QED BY <3>1, <3>2
  <2>6. \A D : D = C => Boundaries(D)'
    BY <1>3, <2>1, <2>4, <2>5 DEF Boundaries
  <2>7. \E D : Boundaries(D)'
    BY <2>6
  <2> QED BY <1>1, <1>4, <2>7 DEF MeaningInv, DecodesLiteral
<1>5. CASE phase' = "failed"
  BY <1>1, <1>5 DEF MeaningInv, DecodesLiteral
<1> QED
  BY <1>1, <1>4, <1>5 DEF MeasureByte, Failed

LEMMA AllocateMeaning == IInv /\ MeaningInv /\ Allocate => MeaningInv'
<1> SUFFICES ASSUME IInv, MeaningInv, Allocate PROVE MeaningInv'
  OBVIOUS
<1>1. /\ phase = "measure" /\ highest = 0 /\ highest' = 0 /\ UNCHANGED <<input, input_end, input_pointer>>
      /\ input_end \in Nat \ {0, 1} /\ input \in Seq(0 .. 255) /\ output = <<>> /\ input_pointer = 2
  BY DEF Allocate, MeaningInv, IInv, Types
<1>2. PICK B : Boundaries(B)
  BY <1>1 DEF MeaningInv
<1>3. CASE phase' = "failed"
  BY <1>1, <1>3 DEF MeaningInv, DecodesLiteral
<1>4. CASE phase' = "decode" /\ input_end <= Len(input) /\ output' = output
  <2>1. At(input_end) = Quote
    BY <1>4 DEF Allocate, InLiteral
  <2>2. 2 \in B /\ 2 \in 1 .. Len(input) + 1
    BY <1>1, <1>2, <1>4, LenProperties DEF Boundaries
  <2>3. Begins(<<>>, 2)
    BY <1>1, <2>2, BeginsWith
  <2>4. Apart(2)
    BY DEF Apart
  <2>5. Begins(<<>>, 2)' /\ Apart(2)' /\ Boundaries(B)' /\ (At(input_end) = Quote)'
        /\ (input_end <= Len(input))'
    BY <1>1, <1>2, <1>4, <2>1, <2>3, <2>4, SameMeaning
  <2>6. /\ output' = <<>> \o <<>> /\ Len(<<>>) = input_pointer' - 2 /\ <<>> \in Seq(Int)
        /\ 2 \in 2 .. input_pointer' /\ ~(2 < input_pointer')
    BY <1>1, <1>4, EmptySeq, ConcatEmptySeq
  <2>7. \A k \in 1 .. Len(<<>>) : <<>>[k] = At(2 + k - 1)'
    BY EmptySeq
  <2>8. Reading(2, <<>>, <<>>, <<>>)'
    BY <2>5, <2>6, <2>7, EncodesNone, Zenon DEF Reading
  <2>9. Meant(B)'
    BY <1>1, <2>2, <2>5, <2>8 DEF Meant, IsRead
  <2> QED BY <1>1, <1>4, <2>9 DEF MeaningInv, DecodesLiteral
<1> QED
  BY <1>3, <1>4 DEF Allocate, Failed

LEMMA MeaningInitially == StringInit => MeaningInv
<1> SUFFICES ASSUME StringInit PROVE MeaningInv
  OBVIOUS
<1>1. phase = "measure" /\ highest = 0 /\ input_end = 2
  BY DEF StringInit
<1>2. Boundaries({2})
  BY <1>1 DEF Boundaries
<1> QED
  BY <1>1, <1>2 DEF MeaningInv, DecodesLiteral

LEMMA MeaningKept == IInv /\ MeaningInv /\ [StringNext]_stringVars => MeaningInv'
<1> SUFFICES ASSUME IInv, MeaningInv, [StringNext]_stringVars PROVE MeaningInv'
  OBVIOUS
<1>1. CASE StringNext
  BY <1>1, MeasureMeaning, AllocateMeaning, DecodeByteMeaning, DecodeEscapeMeaning,
     DecodeUtf16Meaning, FinishMeaning DEF StringNext
<1>2. CASE UNCHANGED stringVars
  <2>1. UNCHANGED <<input, phase, input_pointer, input_end, output, highest>>
    BY <1>2 DEF stringVars
  <2>2. /\ Readable' = Readable /\ Denoted(2)' = Denoted(2)
        /\ \A B : Boundaries(B)' = Boundaries(B) /\ (At(input_end) = Quote)' = (At(input_end) = Quote)
    BY <2>1, SameMeaning
  <2>3. ASSUME NEW s, NEW b, NEW c, NEW h, Reading(s, b, c, h) PROVE Reading(s, b, c, h)'
    <3>1. Apart(s)' /\ Begins(c, s)' /\ \A i : At(i)' = At(i)
      BY <2>1, <2>3, SameMeaning DEF Reading
    <3>2. /\ s \in 2 .. input_pointer' /\ Encodes(b, c) /\ h \in Seq(Int)
          /\ Len(h) = input_pointer' - s /\ output' = b \o h
      BY <2>1, <2>3 DEF Reading
    <3>3. \A k \in 1 .. Len(h) : h[k] = At(s + k - 1)'
      BY <2>3, <3>1, Zenon DEF Reading
    <3>4. s < input_pointer' => /\ At(s)' >= 192
                               /\ input_pointer' < s + LengthFrom(At(s)')
      BY <2>1, <2>3, <3>1, Zenon DEF Reading
    <3>5. (s < input_pointer => /\ At(s) >= 192
                                /\ input_pointer < s + LengthFrom(At(s)))'
      BY <3>4, Zenon
    <3> QED BY <3>1, <3>2, <3>3, <3>5, Zenon DEF Reading
  <2>4. IsRead => IsRead'
    BY <2>3 DEF IsRead
  <2>5. \A B : Meant(B) => Meant(B)'
    BY <2>1, <2>2, <2>4 DEF Meant
  <2>6. DecodesLiteral' = DecodesLiteral
    BY <2>1, <2>2, Zenon DEF DecodesLiteral
  <2> QED BY <2>1, <2>2, <2>5, <2>6 DEF MeaningInv
<1> QED
  BY <1>1, <1>2

-----------------------------------------------------------------------------
(* THE LITERAL: THEOREMS                                                   *)

LEMMA Inductive == IInv /\ [StringNext]_stringVars => IInv'
<1> SUFFICES ASSUME IInv, [StringNext]_stringVars PROVE IInv'
  OBVIOUS
<1>1. CASE MeasureByte
  BY <1>1, MeasureByteInv
<1>2. CASE Allocate
  BY <1>2, AllocateInv
<1>3. CASE DecodeByte
  BY <1>3, DecodeByteInv
<1>4. CASE DecodeEscape
  BY <1>4, DecodeEscapeInv
<1>5. CASE DecodeUtf16
  BY <1>5, DecodeUtf16Inv
<1>6. CASE Finish
  BY <1>6, FinishInv
<1>7. CASE UNCHANGED stringVars
  <2>1. /\ input' = input /\ phase' = phase /\ input_pointer' = input_pointer
        /\ input_end' = input_end /\ skipped_bytes' = skipped_bytes
        /\ allocated' = allocated /\ output' = output /\ highest' = highest
    BY <1>7 DEF stringVars
  <2>2. Types' /\ Needed' = Needed
    BY <2>1 DEF IInv, Types, Needed
  <2>3. \A e : Decoded(e) => Decoded(e)'
    BY <2>1 DEF Decoded
  <2>4. \A e : Counts(e, input, input_end, skipped_bytes)
                 => Counts(e, input', input_end', skipped_bytes')
    BY <2>1
  <2> QED
    BY <2>1, <2>2, <2>3, <2>4 DEF IInv
<1> QED
  BY <1>1, <1>2, <1>3, <1>4, <1>5, <1>6, <1>7 DEF StringNext

\* Wherever parse_string stands, as many bytes were decoded as the escapes that
\* were counted allow.
THEOREM StringInvariant == StringSpec => []IInv
<1> QED
  BY InitInv, Inductive, PTL DEF StringSpec

\* The output of parse_string, with its terminator, fits into what was allocated
\* from the measure, whatever escapes the text has and however they overlap.
THEOREM DecodingFits == StringSpec => []OutputFits
<1> QED
  BY StringInvariant, OutputFitsNow, PTL

\* parse_string reads nothing behind the closing quote, however the last escape
\* is cut off.
THEOREM DecodingReadsInside == StringSpec => []ReadsWithinLiteral
<1>1. IInv => ReadsWithinLiteral
  BY DEF IInv, Types, ReadsWithinLiteral
<1> QED
  BY <1>1, StringInvariant, PTL

\* What parse_string makes of a literal is the UTF-8 of what the literal denotes,
\* surrogate pairs included, and it rejects but those that denote nothing.
THEOREM LiteralsAreDecoded == StringSpec => []DecodesLiteral
<1>1. StringSpec => []MeaningInv
  BY StringInvariant, MeaningInitially, MeaningKept, PTL DEF StringSpec
<1>2. MeaningInv => DecodesLiteral
  BY DEF MeaningInv
<1> QED
  BY <1>1, <1>2, PTL

-----------------------------------------------------------------------------
(* REGISTERS                                                               *)

Register(w) == [1 .. w -> {0, 1}]

\* A sequence of bits and a register of its length are the same thing.
LEMMA Registers ==
  /\ \A s \in Seq({0, 1}) : s \in Register(Len(s)) /\ Len(s) \in Nat
  /\ \A w \in Nat : \A r \in Register(w) : r \in Seq({0, 1}) /\ Len(r) = w
<1>1. ASSUME NEW w \in Nat, NEW r \in Register(w) PROVE r \in Seq({0, 1}) /\ Len(r) = w
  <2>1. r \in Seq({0, 1})
    BY SeqDef DEF Register
  <2> QED BY <2>1, LenProperties DEF Register
<1>2. ASSUME NEW s \in Seq({0, 1}) PROVE s \in Register(Len(s)) /\ Len(s) \in Nat
  BY LenProperties, ElementOfSeq DEF Register
<1> QED
  BY <1>1, <1>2

LEMMA SameRegister ==
  ASSUME NEW w, NEW u \in Register(w), NEW v \in Register(w), \A p \in 1 .. w : u[p] = v[p]
  PROVE  u = v
<1>1. u = [p \in 1 .. w |-> u[p]] /\ v = [p \in 1 .. w |-> v[p]]
  BY DEF Register
<1> QED
  BY <1>1

\* One register behind the other.
LEMMA Behind ==
  ASSUME NEW a \in Nat, NEW b \in Nat, NEW u \in Register(a), NEW v \in Register(b)
  PROVE  /\ u \o v \in Register(a + b) /\ Len(u \o v) = a + b
         /\ \A i \in 1 .. a : (u \o v)[i] = u[i]
         /\ \A i \in 1 .. b : (u \o v)[a + i] = v[i]
<1>1. u \in Seq({0, 1}) /\ Len(u) = a /\ v \in Seq({0, 1}) /\ Len(v) = b
  BY Registers
<1>2. /\ u \o v \in Seq({0, 1}) /\ Len(u \o v) = Len(u) + Len(v)
      /\ \A i \in 1 .. Len(u) + Len(v) :
           (u \o v)[i] = IF i <= Len(u) THEN u[i] ELSE v[i - Len(u)]
  BY <1>1, ConcatProperties, Zenon
<1> DEFINE y == u \o v
<1> HIDE DEF y
<1>3. y \in Register(a + b)
  BY <1>1, <1>2, Registers DEF y
<1>4. \A i \in 1 .. a : y[i] = u[i]
  BY <1>1, <1>2 DEF y
<1>5. ASSUME NEW i \in 1 .. b PROVE y[a + i] = v[i]
  <2>1. a + i \in 1 .. a + b /\ ~(a + i <= a) /\ (a + i) - a = i
    OBVIOUS
  <2> QED BY <1>1, <1>2, <2>1 DEF y
<1> QED
  BY <1>1, <1>2, <1>3, <1>4, <1>5 DEF y

\* The sum of two bits.
LEMMA XorBit ==
  \A a, b \in {0, 1} : (a + b) % 2 = IF a = b THEN 0 ELSE 1
<1>1. 0 % 2 = 0 /\ 1 % 2 = 1 /\ 2 % 2 = 0
  OBVIOUS
<1> QED
  BY <1>1

LEMMA XorRegister ==
  ASSUME NEW w \in Nat, NEW u \in Register(w), NEW v \in Register(w)
  PROVE  /\ Xor(u, v) \in Register(w)
         /\ \A p \in 1 .. w : Xor(u, v)[p] = IF u[p] = v[p] THEN 0 ELSE 1
<1>1. ASSUME NEW p \in 1 .. w PROVE Xor(u, v)[p] = IF u[p] = v[p] THEN 0 ELSE 1
  <2>1. u[p] \in {0, 1} /\ v[p] \in {0, 1}
    BY DEF Register
  <2>2. DOMAIN u = 1 .. w
    BY DEF Register
  <2> QED BY <2>1, <2>2, XorBit DEF Xor
<1>2. Xor(u, v) = [p \in 1 .. w |-> Xor(u, v)[p]]
  BY DEF Xor, Register
<1> QED
  BY <1>1, <1>2 DEF Register

LEMMA ShiftLeftRegister ==
  ASSUME NEW w \in Nat \ {0}, NEW r \in Register(w)
  PROVE  /\ ShiftLeft(r) \in Register(w)
         /\ \A p \in 1 .. w : ShiftLeft(r)[p] = IF p = w THEN 0 ELSE r[p + 1]
<1>1. r \in Seq({0, 1}) /\ Len(r) = w /\ r # <<>>
  BY Registers, EmptySeq
<1>2. /\ Tail(r) \in Seq({0, 1}) /\ Len(Tail(r)) = w - 1
      /\ \A i \in 1 .. w - 1 : Tail(r)[i] = r[i + 1]
  BY <1>1, HeadTailProperties
<1>3. 0 \in {0, 1}
  OBVIOUS
<1>4. /\ ShiftLeft(r) \in Seq({0, 1}) /\ Len(ShiftLeft(r)) = w
      /\ \A i \in 1 .. w - 1 : ShiftLeft(r)[i] = Tail(r)[i]
      /\ ShiftLeft(r)[w] = 0
  BY <1>2, <1>3, AppendProperties DEF ShiftLeft
<1>5. ShiftLeft(r) \in Register(w)
  BY <1>4, Registers
<1> QED
  BY <1>2, <1>4, <1>5

\* The bit at p after a shift.
ShiftedBit(r, poly, w, p) ==
  LET s == IF p = w THEN 0 ELSE r[p + 1]
  IN  IF r[1] = 1 THEN (IF s = poly[p] THEN 0 ELSE 1) ELSE s

LEMMA ShiftOutRegister ==
  ASSUME NEW w \in Nat \ {0}, NEW poly \in Register(w), NEW r \in Register(w)
  PROVE  /\ ShiftOut(r, poly) \in Register(w)
         /\ \A p \in 1 .. w : ShiftOut(r, poly)[p] = ShiftedBit(r, poly, w, p)
<1>1. /\ ShiftLeft(r) \in Register(w)
      /\ \A p \in 1 .. w : ShiftLeft(r)[p] = IF p = w THEN 0 ELSE r[p + 1]
  BY ShiftLeftRegister
<1>2. CASE r[1] = 1
  <2>1. ShiftOut(r, poly) = Xor(ShiftLeft(r), poly)
    BY <1>2 DEF ShiftOut
  <2>2. /\ Xor(ShiftLeft(r), poly) \in Register(w)
        /\ \A p \in 1 .. w : Xor(ShiftLeft(r), poly)[p] = IF ShiftLeft(r)[p] = poly[p] THEN 0 ELSE 1
    BY <1>1, XorRegister
  <2> QED BY <1>1, <1>2, <2>1, <2>2 DEF ShiftedBit
<1>3. CASE r[1] # 1
  BY <1>1, <1>3 DEF ShiftOut, ShiftedBit
<1> QED
  BY <1>2, <1>3

\* The registers s are crc after 0 to k shifts.
Shifts(s, crc, k, poly) ==
  /\ s[0] = crc
  /\ \A i \in 1 .. k : s[i] = ShiftOut(s[i - 1], poly)
  /\ Shifted(crc, k, poly) = s[k]

LEMMA ShiftedRegisters ==
  ASSUME NEW w \in Nat \ {0}, NEW poly \in Register(w), NEW crc \in Register(w), NEW k \in Nat
  PROVE  \E s \in [0 .. k -> Register(w)] : Shifts(s, crc, k, poly)
<1> DEFINE Eqn(f) == f = [i \in 0 .. k |-> IF i = 0 THEN crc ELSE ShiftOut(f[i - 1], poly)]
          s == CHOOSE f : Eqn(f)
<1>1. PICK step \in [1 .. k -> [Register(w) -> Register(w)]] :
        \A i \in 1 .. k, r \in Register(w) : step[i][r] = ShiftOut(r, poly)
  <2> DEFINE t == [i \in 1 .. k |-> [r \in Register(w) |-> ShiftOut(r, poly)]]
  <2>1. t \in [1 .. k -> [Register(w) -> Register(w)]]
    BY ShiftOutRegister
  <2> QED BY <2>1
<1>2. \E f : Eqn(f)
  <2>1. PICK f \in [0 .. k -> Register(w)] : Goes(f, k, crc, step)
    BY <1>1, Recursion, Zenon
  <2>2. ASSUME NEW i \in 1 .. k PROVE f[i] = ShiftOut(f[i - 1], poly)
    <3>1. i - 1 \in 0 .. k
      OBVIOUS
    <3> QED BY <1>1, <2>1, <3>1 DEF Goes
  <2>3. Eqn(f)
    BY <2>1, <2>2 DEF Goes
  <2> QED BY <2>3
<1>3. Eqn(s)
  BY <1>2
<1>4. Shifted(crc, k, poly) = s[k]
  BY DEF Shifted
<1> HIDE DEF s
<1>5. /\ s[0] = crc
      /\ \A i \in 1 .. k : s[i] = ShiftOut(s[i - 1], poly)
      /\ s = [i \in 0 .. k |-> s[i]]
  BY <1>3
<1>6. \A i \in 0 .. k : s[i] \in Register(w)
  <2> DEFINE S == {i \in Nat : i <= k => s[i] \in Register(w)}
  <2>1. 0 \in S
    BY <1>5
  <2>2. ASSUME NEW i \in Nat, i \in S PROVE i + 1 \in S
    <3>1. CASE i + 1 <= k
      <4>1. i + 1 \in 1 .. k /\ s[i] \in Register(w)
        BY <2>2, <3>1
      <4>2. (i + 1) - 1 = i
        OBVIOUS
      <4>3. s[i + 1] = ShiftOut(s[i], poly)
        BY <1>5, <4>1, <4>2, Zenon
      <4>4. ShiftOut(s[i], poly) \in Register(w)
        BY <4>1, ShiftOutRegister
      <4> QED BY <4>3, <4>4
    <3> QED BY <3>1
  <2> HIDE DEF S
  <2>3. Nat \subseteq S
    BY <2>1, <2>2, SetInduction
  <2> QED BY <2>3 DEF S
<1>7. s \in [0 .. k -> Register(w)]
  BY <1>5, <1>6
<1> QED
  BY <1>4, <1>5, <1>7 DEF Shifts

\* x is register r with a byte of b bits put into its top; the rest stays.
WithByte(x, r, byte, b, w) ==
  \A p \in 1 .. w : x[p] = IF p <= b THEN (IF r[p] = byte[p] THEN 0 ELSE 1) ELSE r[p]

LEMMA ByteIntoRegister ==
  ASSUME NEW w \in Nat \ {0}, NEW b \in 1 .. w, NEW crc \in Register(w), NEW byte \in Register(b)
  PROVE  LET x == Xor(crc, byte \o Zeros(Len(crc) - Len(byte)))
         IN  x \in Register(w) /\ WithByte(x, crc, byte, b, w)
<1> DEFINE z == Zeros(w - b)
          y == byte \o z
<1>1. /\ byte \in Seq({0, 1}) /\ Len(byte) = b
      /\ Len(crc) = w
  BY Registers
<1>2. w - b \in Nat /\ z \in Register(w - b) /\ \A i \in 1 .. w - b : z[i] = 0
  BY DEF Zeros, Register
<1>3. z \in Seq({0, 1}) /\ Len(z) = w - b
  BY <1>2, Registers
<1> HIDE DEF z
<1>4. /\ y \in Seq({0, 1}) /\ Len(y) = w
      /\ \A i \in 1 .. b : y[i] = byte[i]
      /\ \A i \in 1 .. w : i > b => y[i] = z[i - b]
  <2> HIDE DEF y
  <2>1. /\ byte \o z \in Seq({0, 1}) /\ Len(byte \o z) = Len(byte) + Len(z)
        /\ \A i \in 1 .. Len(byte) + Len(z) :
             (byte \o z)[i] = IF i <= Len(byte) THEN byte[i] ELSE z[i - Len(byte)]
    BY <1>1, <1>3, ConcatProperties, Zenon
  <2> QED BY <1>1, <1>3, <2>1 DEF y
<1>5. y \in Register(w)
  BY <1>4, Registers
<1>6. \A p \in 1 .. w : p > b => y[p] = 0
  BY <1>2, <1>4
<1> HIDE DEF y
<1>7. /\ Xor(crc, y) \in Register(w)
      /\ \A p \in 1 .. w : Xor(crc, y)[p] = IF crc[p] = y[p] THEN 0 ELSE 1
  BY <1>5, XorRegister
<1>8. \A p \in 1 .. w : crc[p] \in {0, 1}
  BY DEF Register
<1>9. \A p \in 1 .. w :
        Xor(crc, y)[p] = IF p <= b THEN (IF crc[p] = byte[p] THEN 0 ELSE 1) ELSE crc[p]
  <2> TAKE p \in 1 .. w
  <2>1. CASE p <= b
    BY <1>4, <1>7, <2>1
  <2>2. CASE p > b
    BY <1>6, <1>7, <1>8, <2>2
  <2> QED BY <2>1, <2>2
<1> QED
  BY <1>1, <1>7, <1>9 DEF y, z, WithByte

LEMMA AddByteRegister ==
  ASSUME NEW w \in Nat \ {0}, NEW b \in 1 .. w, NEW poly \in Register(w),
         NEW crc \in Register(w), NEW byte \in Register(b)
  PROVE  AddByte(crc, byte, poly) \in Register(w)
<1> DEFINE x == Xor(crc, byte \o Zeros(Len(crc) - Len(byte)))
<1>1. x \in Register(w)
  BY ByteIntoRegister
<1>2. Len(byte) = b /\ b \in Nat
  BY Registers
<1> HIDE DEF x
<1>3. Shifted(x, b, poly) \in Register(w)
  <2>1. PICK s \in [0 .. b -> Register(w)] : Shifts(s, x, b, poly)
    BY <1>1, <1>2, ShiftedRegisters
  <2> QED BY <1>2, <2>1 DEF Shifts
<1> QED
  BY <1>2, <1>3 DEF AddByte, x

\* The registers c are the CRCs of the first 0 to n bytes.
Crcs(c, bytes, n, w, poly) ==
  /\ \A p \in 1 .. w : c[0][p] = 1
  /\ \A m \in 1 .. n : c[m] = AddByte(c[m - 1], bytes[m], poly)
  /\ frame_crc_compute(bytes, poly) = c[n]

LEMMA CrcRegisters ==
  ASSUME NEW w \in Nat \ {0}, NEW b \in 1 .. w, NEW poly \in Register(w),
         NEW n \in Nat, NEW bytes \in [1 .. n -> Register(b)]
  PROVE  \E c \in [0 .. n -> Register(w)] : Crcs(c, bytes, n, w, poly)
<1> DEFINE Eqn(f) == f = [m \in 0 .. Len(bytes) |->
                            IF m = 0 THEN Ones(Len(poly)) ELSE AddByte(f[m - 1], bytes[m], poly)]
          c == CHOOSE f : Eqn(f)
<1>1. PICK step \in [1 .. n -> [Register(w) -> Register(w)]] :
        \A m \in 1 .. n, r \in Register(w) : step[m][r] = AddByte(r, bytes[m], poly)
  <2> DEFINE t == [m \in 1 .. n |-> [r \in Register(w) |-> AddByte(r, bytes[m], poly)]]
  <2>1. t \in [1 .. n -> [Register(w) -> Register(w)]]
    BY AddByteRegister
  <2> QED BY <2>1
<1>2. Len(bytes) = n /\ Len(poly) = w
  <2>1. Len(bytes) = n
    <3>1. bytes \in Seq(Register(b))
      BY SeqDef
    <3> QED BY <3>1, LenProperties
  <2> QED BY <2>1, Registers
<1>3. Ones(Len(poly)) \in Register(w) /\ \A p \in 1 .. w : Ones(Len(poly))[p] = 1
  BY <1>2 DEF Ones, Register
<1>4. \E f : Eqn(f)
  <2>1. PICK f \in [0 .. n -> Register(w)] : Goes(f, n, Ones(Len(poly)), step)
    BY <1>1, <1>3, Recursion, Zenon
  <2>2. ASSUME NEW m \in 1 .. n PROVE f[m] = AddByte(f[m - 1], bytes[m], poly)
    <3>1. m - 1 \in 0 .. n
      OBVIOUS
    <3> QED BY <1>1, <2>1, <3>1 DEF Goes
  <2>3. Eqn(f)
    BY <1>2, <2>1, <2>2 DEF Goes
  <2> QED BY <2>3
<1>5. Eqn(c)
  BY <1>4
<1>6. frame_crc_compute(bytes, poly) = c[n]
  BY <1>2 DEF frame_crc_compute
<1> HIDE DEF c
<1>7. /\ c[0] = Ones(Len(poly))
      /\ \A m \in 1 .. n : c[m] = AddByte(c[m - 1], bytes[m], poly)
      /\ c = [m \in 0 .. n |-> c[m]]
  BY <1>2, <1>5
<1>8. \A m \in 0 .. n : c[m] \in Register(w)
  <2> DEFINE S == {m \in Nat : m <= n => c[m] \in Register(w)}
  <2>1. 0 \in S
    BY <1>3, <1>7
  <2>2. ASSUME NEW m \in Nat, m \in S PROVE m + 1 \in S
    <3>1. CASE m + 1 <= n
      <4>1. m + 1 \in 1 .. n /\ c[m] \in Register(w) /\ bytes[m + 1] \in Register(b)
        BY <2>2, <3>1
      <4>2. (m + 1) - 1 = m
        OBVIOUS
      <4>3. c[m + 1] = AddByte(c[m], bytes[m + 1], poly)
        BY <1>7, <4>1, <4>2, Zenon
      <4>4. AddByte(c[m], bytes[m + 1], poly) \in Register(w)
        BY <4>1, AddByteRegister
      <4> QED BY <4>3, <4>4
    <3> QED BY <3>1
  <2> HIDE DEF S
  <2>3. Nat \subseteq S
    BY <2>1, <2>2, SetInduction
  <2> QED BY <2>3 DEF S
<1>9. c \in [0 .. n -> Register(w)]
  BY <1>7, <1>8
<1> QED
  BY <1>3, <1>6, <1>7, <1>9 DEF Crcs

-----------------------------------------------------------------------------
(* A BURST CHANGES THE CRC                                                 *)

\* Two messages differ in the bits of a set E.  The CRCs of both are computed side
\* by side; after i bits the registers are r and t, and the bits up to lim have
\* been put into them.  The remainder of E as a polynomial then has a one at p
\* if the registers differ there or, beyond lim, if there is an error still to
\* come.
Remains(r, t, E, lim, i, p) == (r[p] # t[p]) <=> ~(i + p > lim /\ i + p \in E)

\* Until the first error comes to the top, the remainder is the errors themselves,
\* and from then on it is never zero.
Held(r, t, w, E, first, lim, i) ==
  /\ i < first => \A p \in 1 .. w : Remains(r, t, E, lim, i, p) <=> i + p \in E
  /\ i >= first - 1 => \E p \in 1 .. w : Remains(r, t, E, lim, i, p)

\* It is so in the beginning.
LEMMA HeldInitially ==
  ASSUME NEW w \in Nat \ {0}, NEW E \in SUBSET (Nat \ {0}), NEW first \in E, NEW r \in Register(w)
  PROVE  Held(r, r, w, E, first, 0, 0)
<1>1. \A p \in 1 .. w : Remains(r, r, E, 0, 0, p) <=> 0 + p \in E
  BY DEF Remains
<1>2. 0 >= first - 1 => 1 \in E /\ 1 \in 1 .. w
  <2>1. ASSUME 0 >= first - 1 PROVE first = 1
    BY <2>1
  <2> QED BY <2>1
<1>3. 0 >= first - 1 => \E p \in 1 .. w : Remains(r, r, E, 0, 0, p)
  BY <1>1, <1>2
<1> QED
  BY <1>1, <1>3 DEF Held

\* Two bytes after bit i differ in the bits of E.
DifferAt(u, v, b, i, E) == \A p \in 1 .. b : (u[p] # v[p]) <=> i + p \in E

\* A byte that is put into the registers leaves the remainder as it is.
LEMMA HeldWithByte ==
  ASSUME NEW w \in Nat \ {0}, NEW b \in 1 .. w, NEW E \in SUBSET (Nat \ {0}), NEW first \in E,
         NEW i \in Nat, NEW r \in Register(w), NEW t \in Register(w),
         NEW x \in Register(w), NEW y \in Register(w),
         NEW u \in Register(b), NEW v \in Register(b),
         WithByte(x, r, u, b, w), WithByte(y, t, v, b, w), DifferAt(u, v, b, i, E),
         Held(r, t, w, E, first, i, i)
  PROVE  Held(x, y, w, E, first, i + b, i)
<1>1. ASSUME NEW p \in 1 .. w PROVE Remains(x, y, E, i + b, i, p) <=> Remains(r, t, E, i, i, p)
  <2>1. r[p] \in {0, 1} /\ t[p] \in {0, 1}
    BY DEF Register
  <2>2. CASE p <= b
    <3>1. p \in 1 .. b /\ u[p] \in {0, 1} /\ v[p] \in {0, 1}
      BY <2>2 DEF Register
    <3>2. (x[p] # y[p]) <=> ((r[p] # t[p]) <=> ~(u[p] # v[p]))
      BY <2>1, <2>2, <3>1 DEF WithByte
    <3>3. i + p > i /\ ~(i + p > i + b)
      BY <2>2
    <3> QED BY <3>1, <3>2, <3>3 DEF Remains, DifferAt
  <2>3. CASE p > b
    <3>1. i + p > i /\ i + p > i + b
      BY <2>3
    <3>2. x[p] = r[p] /\ y[p] = t[p]
      BY <2>3 DEF WithByte
    <3> QED BY <3>1, <3>2 DEF Remains
  <2> QED BY <2>2, <2>3
<1> QED
  BY <1>1, Zenon DEF Held

\* A shift divides: the remainder that was not zero is not zero, since the
\* polynomial has a one at the end and no further error comes in.
LEMMA HeldWithShift ==
  ASSUME NEW w \in Nat \ {0}, NEW poly \in Register(w), poly[w] = 1,
         NEW E \in SUBSET (Nat \ {0}), NEW first \in E,
         \A e \in E : first <= e /\ e < first + w,
         NEW lim \in Nat, NEW i \in Nat, i < lim, lim <= i + w,
         NEW r \in Register(w), NEW t \in Register(w),
         Held(r, t, w, E, first, lim, i)
  PROVE  Held(ShiftOut(r, poly), ShiftOut(t, poly), w, E, first, lim, i + 1)
<1> DEFINE x == ShiftOut(r, poly)
          y == ShiftOut(t, poly)
          V(p) == Remains(r, t, E, lim, i, p)
          W(p) == Remains(x, y, E, lim, i + 1, p)
<1>1. \A p \in 1 .. w :
        x[p] = ShiftedBit(r, poly, w, p) /\ y[p] = ShiftedBit(t, poly, w, p)
  BY ShiftOutRegister
<1>2. \A p \in 1 .. w : r[p] \in {0, 1} /\ t[p] \in {0, 1} /\ poly[p] \in {0, 1}
  BY DEF Register
<1>3. 1 \in 1 .. w /\ w \in 1 .. w
  OBVIOUS
<1> HIDE DEF x, y
<1>4. V(1) <=> r[1] # t[1]
  BY DEF Remains
<1>5. ASSUME NEW p \in 1 .. w, p < w
      PROVE  W(p) <=> (V(p + 1) <=> ~(r[1] # t[1] /\ poly[p] = 1))
  <2>1. p + 1 \in 1 .. w /\ (i + 1) + p = i + (p + 1)
    BY <1>5
  <2>2. (x[p] # y[p]) <=> ((r[p + 1] # t[p + 1]) <=> ~(r[1] # t[1] /\ poly[p] = 1))
    BY <1>1, <1>2, <1>3, <1>5, <2>1 DEF ShiftedBit
  <2> QED BY <2>1, <2>2 DEF Remains
<1>6. W(w) <=> (r[1] # t[1] <=> ~((i + 1) + w \in E))
  <2>1. (x[w] # y[w]) <=> r[1] # t[1]
    BY <1>1, <1>2, <1>3 DEF ShiftedBit
  <2>2. (i + 1) + w > lim
    OBVIOUS
  <2> QED BY <2>1, <2>2 DEF Remains
<1>7. CASE i + 1 < first
  <2>1. i < first /\ i + 1 \notin E
    BY <1>7
  <2>2. \A p \in 1 .. w : V(p) <=> i + p \in E
    BY <2>1 DEF Held
  <2>3. r[1] = t[1]
    BY <1>3, <1>4, <2>1, <2>2
  <2>4. ASSUME NEW p \in 1 .. w PROVE W(p) <=> (i + 1) + p \in E
    <3>1. CASE p < w
      <4>1. p + 1 \in 1 .. w /\ i + (p + 1) = (i + 1) + p
        BY <3>1
      <4> QED BY <1>5, <2>2, <2>3, <3>1, <4>1
    <3>2. CASE p = w
      BY <1>6, <2>3, <3>2
    <3> QED BY <3>1, <3>2
  <2>5. i + 1 >= first - 1 => W(1)
    <3>1. ASSUME i + 1 >= first - 1 PROVE (i + 1) + 1 = first
      BY <1>7, <3>1
    <3> QED BY <1>3, <2>4, <3>1
  <2> QED BY <1>3, <2>4, <2>5 DEF Held, x, y
<1>8. CASE i + 1 >= first
  <2>1. i >= first - 1 /\ ~(i + 1 < first)
    BY <1>8
  <2>2. PICK p \in 1 .. w : V(p)
    BY <2>1 DEF Held
  <2>3. (i + 1) + w \notin E
    <3>1. ~((i + 1) + w < first + w)
      BY <1>8
    <3> QED BY <3>1
  <2>4. CASE V(1)
    BY <1>3, <1>4, <1>6, <2>1, <2>3, <2>4 DEF Held, x, y
  <2>5. CASE ~V(1)
    <3>1. p - 1 \in 1 .. w /\ p - 1 < w /\ (p - 1) + 1 = p
      BY <2>2, <2>5
    <3>2. W(p - 1)
      BY <1>4, <1>5, <2>2, <2>5, <3>1
    <3> QED BY <2>1, <3>1, <3>2 DEF Held, x, y
  <2> QED BY <2>4, <2>5
<1> QED
  BY <1>7, <1>8

LEMMA HeldWithAddByte ==
  ASSUME NEW w \in Nat \ {0}, NEW b \in 1 .. w, NEW poly \in Register(w), poly[w] = 1,
         NEW E \in SUBSET (Nat \ {0}), NEW first \in E,
         \A e \in E : first <= e /\ e < first + w,
         NEW i \in Nat, NEW r \in Register(w), NEW t \in Register(w),
         NEW u \in Register(b), NEW v \in Register(b),
         DifferAt(u, v, b, i, E), Held(r, t, w, E, first, i, i)
  PROVE  Held(AddByte(r, u, poly), AddByte(t, v, poly), w, E, first, i + b, i + b)
<1> DEFINE x == Xor(r, u \o Zeros(Len(r) - Len(u)))
          y == Xor(t, v \o Zeros(Len(t) - Len(v)))
<1>1. x \in Register(w) /\ WithByte(x, r, u, b, w)
  BY ByteIntoRegister
<1>2. y \in Register(w) /\ WithByte(y, t, v, b, w)
  BY ByteIntoRegister
<1>3. b \in Nat /\ Len(u) = b /\ Len(v) = b
  BY Registers
<1>4. AddByte(r, u, poly) = Shifted(x, b, poly) /\ AddByte(t, v, poly) = Shifted(y, b, poly)
  BY <1>3 DEF AddByte
<1> HIDE DEF x, y
<1>5. Held(x, y, w, E, first, i + b, i)
  BY <1>1, <1>2, HeldWithByte
<1>6. PICK s \in [0 .. b -> Register(w)] : Shifts(s, x, b, poly)
  BY <1>1, <1>3, ShiftedRegisters
<1>7. PICK q \in [0 .. b -> Register(w)] : Shifts(q, y, b, poly)
  BY <1>2, <1>3, ShiftedRegisters
<1> DEFINE S == {k \in Nat : k <= b => Held(s[k], q[k], w, E, first, i + b, i + k)}
<1>8. 0 \in S
  BY <1>5, <1>6, <1>7 DEF Shifts
<1>9. ASSUME NEW k \in Nat, k \in S PROVE k + 1 \in S
  <2> SUFFICES ASSUME k + 1 <= b PROVE Held(s[k + 1], q[k + 1], w, E, first, i + b, i + (k + 1))
    OBVIOUS
  <2>1. k \in 0 .. b /\ k + 1 \in 1 .. b /\ (k + 1) - 1 = k
    OBVIOUS
  <2>2. Held(s[k], q[k], w, E, first, i + b, i + k)
    BY <1>9, <2>1
  <2>3. s[k + 1] = ShiftOut(s[k], poly) /\ q[k + 1] = ShiftOut(q[k], poly)
    BY <1>6, <1>7, <2>1, Zenon DEF Shifts
  <2>4. /\ s[k] \in Register(w) /\ q[k] \in Register(w)
        /\ i + b \in Nat /\ i + k \in Nat /\ i + k < i + b /\ i + b <= (i + k) + w
        /\ (i + k) + 1 = i + (k + 1)
    BY <2>1
  <2>5. Held(ShiftOut(s[k], poly), ShiftOut(q[k], poly), w, E, first, i + b, (i + k) + 1)
    BY <2>2, <2>4, HeldWithShift
  <2> QED BY <2>3, <2>4, <2>5
<1> HIDE DEF S
<1>10. Nat \subseteq S
  BY <1>8, <1>9, SetInduction
<1>11. b \in S
  BY <1>3, <1>10
<1> QED
  BY <1>3, <1>4, <1>6, <1>7, <1>11 DEF S, Shifts

\* Two messages of n bytes whose differences span no more bits than the CRC has
\* different CRCs, whatever the polynomial, as long as it has a one at the end.
LEMMA BurstChangesCrc ==
  ASSUME NEW w \in Nat \ {0}, NEW b \in 1 .. w, NEW poly \in Register(w), poly[w] = 1,
         NEW n \in Nat, NEW u \in [1 .. n -> Register(b)], NEW v \in [1 .. n -> Register(b)],
         NEW E \in SUBSET (1 .. n * b), NEW first \in E,
         \A e \in E : first <= e /\ e < first + w,
         \A m \in 1 .. n : DifferAt(u[m], v[m], b, (m - 1) * b, E)
  PROVE  frame_crc_compute(u, poly) # frame_crc_compute(v, poly)
<1>1. PICK c \in [0 .. n -> Register(w)] : Crcs(c, u, n, w, poly)
  BY CrcRegisters
<1>2. PICK d \in [0 .. n -> Register(w)] : Crcs(d, v, n, w, poly)
  BY CrcRegisters
<1>3. E \in SUBSET (Nat \ {0}) /\ b \in Nat
  <2>1. n * b \in Nat
    OBVIOUS
  <2> QED BY <2>1
<1> DEFINE S == {m \in Nat : m <= n => Held(c[m], d[m], w, E, first, m * b, m * b)}
<1>4. 0 \in S
  <2>1. c[0] = d[0] /\ c[0] \in Register(w)
    BY <1>1, <1>2 DEF Register, Crcs
  <2>2. Held(c[0], d[0], w, E, first, 0, 0)
    BY <1>3, <2>1, HeldInitially
  <2>3. 0 * b = 0
    BY <1>3
  <2> QED BY <2>2, <2>3
<1>5. ASSUME NEW m \in Nat, m \in S PROVE m + 1 \in S
  <2> SUFFICES ASSUME m + 1 <= n
               PROVE Held(c[m + 1], d[m + 1], w, E, first, (m + 1) * b, (m + 1) * b)
    OBVIOUS
  <2>1. m \in 0 .. n /\ m + 1 \in 1 .. n /\ (m + 1) - 1 = m
    OBVIOUS
  <2>2. m * b \in Nat /\ (m + 1) * b = m * b + b
    BY <1>3
  <2>3. Held(c[m], d[m], w, E, first, m * b, m * b)
    BY <1>5, <2>1
  <2>4. c[m + 1] = AddByte(c[m], u[m + 1], poly) /\ d[m + 1] = AddByte(d[m], v[m + 1], poly)
    BY <1>1, <1>2, <2>1, Zenon DEF Crcs
  <2>5. /\ c[m] \in Register(w) /\ d[m] \in Register(w)
        /\ u[m + 1] \in Register(b) /\ v[m + 1] \in Register(b)
    BY <2>1
  <2>6. DifferAt(u[m + 1], v[m + 1], b, m * b, E)
    BY <2>1, Zenon
  <2> HIDE DEF S
  <2> DEFINE i == m * b
  <2>7. i \in Nat /\ Held(c[m], d[m], w, E, first, i, i)
    BY <2>2, <2>3
  <2>8. DifferAt(u[m + 1], v[m + 1], b, i, E)
    BY <2>6
  <2> HIDE DEF i
  <2>9. Held(AddByte(c[m], u[m + 1], poly), AddByte(d[m], v[m + 1], poly), w, E, first, i + b, i + b)
    BY <1>3, <2>5, <2>7, <2>8, HeldWithAddByte
  <2> QED BY <2>2, <2>4, <2>9 DEF i
<1> HIDE DEF S
<1>6. Nat \subseteq S
  BY <1>4, <1>5, SetInduction
<1>7. Held(c[n], d[n], w, E, first, n * b, n * b)
  BY <1>6 DEF S
<1>8. n * b \in Nat /\ n * b >= first - 1 /\ \A p \in 1 .. w : n * b + p \notin E
  BY <1>3
<1>9. \E p \in 1 .. w : Remains(c[n], d[n], E, n * b, n * b, p)
  BY <1>7, <1>8 DEF Held
<1>10. \E p \in 1 .. w : c[n][p] # d[n][p]
  BY <1>8, <1>9 DEF Remains
<1> QED
  BY <1>1, <1>2, <1>10 DEF Crcs

-----------------------------------------------------------------------------
(* THE FRAME                                                               *)

LEMMA Sizes ==
  /\ Width \in Nat \ {0} /\ ByteBits \in 1 .. Width
  /\ CrcBytes \in Nat /\ Width = ByteBits * CrcBytes
  /\ Poly \in Register(Width) /\ Poly[Width] = 1
<1>1. /\ Poly \in Seq({0, 1}) /\ Poly # <<>> /\ ByteBits \in Nat \ {0}
      /\ Width % ByteBits = 0 /\ Poly[Width] = 1
  BY FrameAssumption
<1>2. Poly \in Register(Width) /\ Width \in Nat \ {0}
  BY <1>1, Registers, EmptySeq DEF Width
<1>3. ByteBits <= Width
  <2>1. SUFFICES ASSUME Width < ByteBits PROVE FALSE
    BY <1>1, <1>2
  <2>2. Width \in 0 .. ByteBits - 1
    BY <1>1, <1>2, <2>1
  <2>3. Width % ByteBits = Width
    BY <1>1, <2>2, ModSmall
  <2> QED BY <1>1, <1>2, <2>3
<1>4. Width \div ByteBits \in Nat /\ Width = ByteBits * (Width \div ByteBits) + (Width % ByteBits)
  BY <1>1, <1>2
<1> QED
  BY <1>1, <1>2, <1>3, <1>4 DEF CrcBytes

\* Where Memcpy takes its bit i from.
Opposite(i) == Width - ((i - 1) \div ByteBits + 1) * ByteBits + ((i - 1) % ByteBits) + 1

LEMMA OppositeTwice ==
  ASSUME NEW i \in 1 .. Width
  PROVE  Opposite(i) \in 1 .. Width /\ Opposite(Opposite(i)) = i
<1> DEFINE B == ByteBits
          C == CrcBytes
          q == (i - 1) \div B
          s == (i - 1) % B
          d == C - 1 - q
<1>1. B \in Nat \ {0} /\ C \in Nat /\ Width = B * C /\ Width \in Nat
  BY Sizes
<1>2. q \in Int /\ s \in 0 .. B - 1 /\ i - 1 = B * q + s
  BY <1>1
<1> HIDE DEF B, C, q, s
<1>3. q >= 0
  <2>1. SUFFICES ASSUME q <= -1 PROVE FALSE
    BY <1>2
  <2>2. B * q <= B * (-1)
    BY <1>1, <1>2, <2>1
  <2> QED BY <1>1, <1>2, <2>2
<1>4. q <= C - 1
  <2>1. SUFFICES ASSUME q >= C PROVE FALSE
    BY <1>1, <1>2
  <2>2. B * q >= B * C
    BY <1>1, <1>2, <2>1
  <2> QED BY <1>1, <1>2, <2>2
<1>5. d \in Nat /\ d <= C - 1
  BY <1>1, <1>2, <1>3, <1>4
<1>6. Opposite(i) = Width - (q + 1) * B + s + 1
  BY DEF Opposite, B, q, s
<1>7. Opposite(i) - 1 = B * d + s
  <2>1. Width - (q + 1) * B = B * d
    BY <1>1, <1>2
  <2> QED BY <1>1, <1>2, <1>5, <1>6, <2>1
<1>8. B * d >= 0 /\ B * d <= Width - B
  <2>1. B * d <= B * (C - 1)
    BY <1>1, <1>5
  <2>2. B * (C - 1) = B * C - B
    BY <1>1
  <2>3. B * d >= 0
    BY <1>1, <1>5
  <2> QED BY <1>1, <2>1, <2>2, <2>3
<1>9. Opposite(i) \in 1 .. Width
  <2>1. Opposite(i) \in Int
    BY <1>1, <1>2, <1>6
  <2> QED BY <1>1, <1>2, <1>7, <1>8, <2>1
<1>10. (Opposite(i) - 1) % B = s
  <2>1. B \in Nat \ {0} /\ d \in Int /\ s \in 0 .. B - 1
    BY <1>1, <1>2, <1>5
  <2>2. (B * d + s) % B = s
    BY <2>1, ModUnique
  <2> QED BY <1>7, <2>2
<1>11. (Opposite(i) - 1) \div B = d
  <2> DEFINE e == (Opposite(i) - 1) \div B
  <2>1. e \in Int /\ Opposite(i) - 1 = B * e + ((Opposite(i) - 1) % B)
    <3> DEFINE x == Opposite(i) - 1
    <3>1. x \in Int /\ B \in Nat \ {0}
      BY <1>1, <1>9
    <3> HIDE DEF x
    <3>2. x \div B \in Int /\ x = B * (x \div B) + (x % B)
      BY <3>1
    <3> QED BY <3>2 DEF x
  <2> HIDE DEF e
  <2>2. B * e = B * d
    BY <1>1, <1>2, <1>5, <1>7, <1>10, <2>1
  <2>3. e = d
    BY <1>1, <1>5, <2>1, <2>2
  <2> QED BY <2>3 DEF e
<1>12. Opposite(Opposite(i)) = Width - (d + 1) * B + s + 1
  BY <1>10, <1>11 DEF Opposite, B
<1>13. (d + 1) * B = Width - B * q
  BY <1>1, <1>2
<1> QED
  BY <1>1, <1>2, <1>9, <1>12, <1>13

\* The copy to the wire and the copy back: nothing is lost.
LEMMA MemcpyTwice ==
  ASSUME NEW r \in Register(Width)
  PROVE  Memcpy(r) \in Register(Width) /\ Memcpy(Memcpy(r)) = r
<1>1. \A i \in 1 .. Width : Memcpy(r)[i] = r[Opposite(i)]
  BY DEF Memcpy, Opposite
<1>2. \A i \in 1 .. Width : Memcpy(r)[i] \in {0, 1}
  BY <1>1, OppositeTwice DEF Register
<1>3. Memcpy(r) = [i \in 1 .. Width |-> Memcpy(r)[i]]
  BY DEF Memcpy
<1>4. Memcpy(r) \in Register(Width)
  BY <1>2, <1>3 DEF Register
<1>5. \A i \in 1 .. Width : Memcpy(Memcpy(r))[i] = Memcpy(r)[Opposite(i)]
  BY DEF Memcpy, Opposite
<1>6. \A i \in 1 .. Width : Memcpy(Memcpy(r))[i] = r[i]
  BY <1>1, <1>5, OppositeTwice
<1>7. Memcpy(Memcpy(r)) = [i \in 1 .. Width |-> Memcpy(Memcpy(r))[i]]
  BY DEF Memcpy
<1>8. r = [i \in 1 .. Width |-> r[i]]
  BY DEF Register
<1> QED
  BY <1>4, <1>6, <1>7, <1>8

LEMMA Cut ==
  ASSUME NEW N \in Nat, NEW r \in Register(N), NEW a \in 1 .. N + 1, NEW k \in Nat, a + k <= N + 1
  PROVE  /\ SubSeq(r, a, a + k - 1) \in Register(k)
         /\ \A i \in 1 .. k : SubSeq(r, a, a + k - 1)[i] = r[a + i - 1]
<1> DEFINE z == a + k - 1
          s == SubSeq(r, a, z)
<1>1. z \in Int /\ a \in Int /\ \A i \in a .. z : r[i] \in {0, 1}
  BY DEF Register
<1>2. /\ s \in Seq({0, 1}) /\ Len(s) = IF a <= z THEN z - a + 1 ELSE 0
      /\ \A i \in 1 .. z - a + 1 : s[i] = r[a + i - 1]
  <2> HIDE DEF z
  <2> QED BY <1>1, SubSeqProperties
<1>3. Len(s) = k /\ z - a + 1 = k
  BY <1>2
<1> HIDE DEF s
<1>4. s \in Register(k)
  BY <1>2, <1>3, Registers
<1>5. \A i \in 1 .. k : s[i] = r[a + i - 1]
  BY <1>2, <1>3
<1> QED
  BY <1>4, <1>5 DEF s

\* The bits of a buffer that is exchanged, and those before the CRC of n rows.
BufferBits == XferBytes * ByteBits
CoveredBits(n) == Covered(n) * ByteBits

LEMMA Layout ==
  /\ BufferBits \in Nat
  /\ \A n \in 1 .. MaxRows :
       /\ Covered(n) \in Nat \ {0, 1, 2} /\ CoveredBits(n) \in Nat
       /\ CoveredBits(n) + Width <= BufferBits
       /\ (Covered(n) + CrcBytes) * ByteBits = CoveredBits(n) + Width
<1>1. /\ ByteBits \in Nat \ {0} /\ RowBytes \in Nat \ {0} /\ MaxRows \in Nat \ {0}
      /\ CrcBytes \in Nat /\ Width = ByteBits * CrcBytes /\ Width \in Nat
  BY FrameAssumption, Sizes
<1>2. ASSUME NEW n \in Nat
      PROVE  /\ Covered(n) \in Nat \ {0, 1, 2} /\ CoveredBits(n) \in Nat
             /\ (Covered(n) + CrcBytes) * ByteBits = CoveredBits(n) + Width
  <2>1. n * RowBytes \in Nat
    BY <1>1
  <2>2. Covered(n) \in Nat \ {0, 1, 2}
    BY <2>1 DEF Covered, HeaderBytes
  <2> QED BY <1>1, <2>2 DEF CoveredBits
<1>3. BufferBits = CoveredBits(MaxRows) + Width /\ BufferBits \in Nat
  BY <1>1, <1>2 DEF BufferBits, XferBytes
<1>4. ASSUME NEW n \in 1 .. MaxRows PROVE CoveredBits(n) <= CoveredBits(MaxRows)
  <2>1. n * RowBytes <= MaxRows * RowBytes /\ n * RowBytes \in Nat /\ MaxRows * RowBytes \in Nat
    BY <1>1
  <2>2. Covered(n) <= Covered(MaxRows) /\ Covered(n) \in Nat /\ Covered(MaxRows) \in Nat
    BY <2>1 DEF Covered, HeaderBytes
  <2> QED BY <1>1, <2>2 DEF CoveredBits
<1> QED
  BY <1>1, <1>2, <1>3, <1>4

\* The first n bytes of a buffer.
LEMMA FirstBytes ==
  ASSUME NEW N \in Nat, NEW r \in Register(N), NEW n \in Nat, n * ByteBits <= N
  PROVE  /\ Bytes(r, 1, n) \in [1 .. n -> Register(ByteBits)]
         /\ \A m \in 1 .. n : /\ (m - 1) * ByteBits \in Nat
                              /\ \A p \in 1 .. ByteBits :
                                   /\ (m - 1) * ByteBits + p \in 1 .. n * ByteBits
                                   /\ Bytes(r, 1, n)[m][p] = r[(m - 1) * ByteBits + p]
<1>1. ByteBits \in Nat \ {0}
  BY Sizes
<1>2. Bytes(r, 1, n) =
        [m \in 1 .. n |-> SubSeq(r, (m - 1) * ByteBits + 1, m * ByteBits)]
  <2>1. n - 1 + 1 = n /\ \A m \in 1 .. n : 1 + m - 2 = m - 1 /\ 1 + m - 1 = m
    OBVIOUS
  <2> QED BY <2>1 DEF Bytes
<1>3. ASSUME NEW m \in 1 .. n
      PROVE  /\ (m - 1) * ByteBits \in Nat
             /\ Bytes(r, 1, n)[m] \in Register(ByteBits)
             /\ \A p \in 1 .. ByteBits :
                  /\ (m - 1) * ByteBits + p \in 1 .. n * ByteBits
                  /\ Bytes(r, 1, n)[m][p] = r[(m - 1) * ByteBits + p]
  <2> DEFINE a == (m - 1) * ByteBits + 1
  <2>1. /\ (m - 1) * ByteBits \in Nat /\ m * ByteBits = (m - 1) * ByteBits + ByteBits
        /\ m * ByteBits <= n * ByteBits /\ n * ByteBits \in Nat
    BY <1>1
  <2>2. Bytes(r, 1, n)[m] = SubSeq(r, a, a + ByteBits - 1)
    <3>1. m * ByteBits = a + ByteBits - 1
      BY <1>1, <2>1
    <3> QED BY <1>2, <3>1
  <2>3. a \in 1 .. N + 1 /\ a + ByteBits <= N + 1 /\ ByteBits \in Nat
    BY <1>1, <2>1
  <2>4. \A p \in 1 .. ByteBits : a + p - 1 = (m - 1) * ByteBits + p
    BY <1>1, <2>1
  <2>5. \A p \in 1 .. ByteBits : (m - 1) * ByteBits + p \in 1 .. n * ByteBits
    BY <1>1, <2>1
  <2> HIDE DEF a
  <2>6. /\ SubSeq(r, a, a + ByteBits - 1) \in Register(ByteBits)
        /\ \A p \in 1 .. ByteBits : SubSeq(r, a, a + ByteBits - 1)[p] = r[a + p - 1]
    BY <2>3, Cut
  <2> QED BY <2>1, <2>2, <2>4, <2>5, <2>6
<1>4. Bytes(r, 1, n) = [m \in 1 .. n |-> Bytes(r, 1, n)[m]]
  BY <1>2
<1> QED
  BY <1>3, <1>4

\* The CRC that is computed is a register.
LEMMA CrcOfRegister ==
  ASSUME NEW n \in Nat, NEW bytes \in [1 .. n -> Register(ByteBits)]
  PROVE  frame_crc_compute(bytes, Poly) \in Register(Width)
<1>1. PICK c \in [0 .. n -> Register(Width)] : Crcs(c, bytes, n, Width, Poly)
  BY Sizes, CrcRegisters
<1> QED
  BY <1>1 DEF Crcs

\* The CRC depends on the covered bits and on nothing else.
LEMMA SameCrc ==
  ASSUME NEW N \in Nat, NEW M \in Nat, NEW r \in Register(N), NEW t \in Register(M), NEW n \in Nat,
         n * ByteBits <= N, n * ByteBits <= M,
         \A i \in 1 .. n * ByteBits : r[i] = t[i]
  PROVE  Bytes(r, 1, n) = Bytes(t, 1, n)
<1>1. /\ Bytes(r, 1, n) \in [1 .. n -> Register(ByteBits)]
      /\ \A m \in 1 .. n : \A p \in 1 .. ByteBits :
           /\ (m - 1) * ByteBits + p \in 1 .. n * ByteBits
           /\ Bytes(r, 1, n)[m][p] = r[(m - 1) * ByteBits + p]
  BY FirstBytes
<1>2. /\ Bytes(t, 1, n) \in [1 .. n -> Register(ByteBits)]
      /\ \A m \in 1 .. n : \A p \in 1 .. ByteBits :
           Bytes(t, 1, n)[m][p] = t[(m - 1) * ByteBits + p]
  BY FirstBytes
<1>3. ASSUME NEW m \in 1 .. n PROVE Bytes(r, 1, n)[m] = Bytes(t, 1, n)[m]
  <2>1. Bytes(r, 1, n)[m] \in Register(ByteBits) /\ Bytes(t, 1, n)[m] \in Register(ByteBits)
    BY <1>1, <1>2
  <2>2. \A p \in 1 .. ByteBits : Bytes(r, 1, n)[m][p] = Bytes(t, 1, n)[m][p]
    BY <1>1, <1>2
  <2> QED BY <2>1, <2>2, SameRegister
<1> QED
  BY <1>1, <1>2, <1>3

\* The CRC field depends on the bits after them, on each of them.
LEMMA SameField ==
  ASSUME NEW r \in Register(BufferBits), NEW t \in Register(BufferBits), NEW n \in 1 .. MaxRows
  PROVE  /\ CrcField(r, n) \in Register(Width)
         /\ CrcField(r, n) = CrcField(t, n) <=>
              \A i \in CoveredBits(n) + 1 .. CoveredBits(n) + Width : r[i] = t[i]
<1> DEFINE c == CoveredBits(n)
          x == SubSeq(r, c + 1, c + Width)
          y == SubSeq(t, c + 1, c + Width)
<1>1. BufferBits \in Nat /\ c \in Nat /\ Width \in Nat /\ c + Width <= BufferBits
  BY Layout, Sizes
<1> HIDE DEF c
<1>2. /\ (c + 1) + Width - 1 = c + Width /\ c + 1 \in 1 .. BufferBits + 1
      /\ (c + 1) + Width <= BufferBits + 1
  BY <1>1
<1>3. x \in Register(Width) /\ \A i \in 1 .. Width : x[i] = r[(c + 1) + i - 1]
  BY <1>1, <1>2, Cut
<1>4. y \in Register(Width) /\ \A i \in 1 .. Width : y[i] = t[(c + 1) + i - 1]
  BY <1>1, <1>2, Cut
<1>5. CrcField(r, n) = Memcpy(x) /\ CrcField(t, n) = Memcpy(y)
  BY DEF CrcField, c, CoveredBits
<1> HIDE DEF x, y
<1>6. Memcpy(x) = Memcpy(y) <=> x = y
  BY <1>3, <1>4, MemcpyTwice
<1>7. x = y <=> \A i \in 1 .. Width : x[i] = y[i]
  BY <1>3, <1>4, SameRegister
<1>8. ASSUME \A i \in 1 .. Width : x[i] = y[i], NEW j \in c + 1 .. c + Width PROVE r[j] = t[j]
  <2>1. j - c \in 1 .. Width /\ (c + 1) + (j - c) - 1 = j
    BY <1>1
  <2> QED BY <1>3, <1>4, <1>8, <2>1
<1>9. ASSUME \A j \in c + 1 .. c + Width : r[j] = t[j], NEW i \in 1 .. Width PROVE x[i] = y[i]
  <2>1. (c + 1) + i - 1 \in c + 1 .. c + Width
    BY <1>1
  <2> QED BY <1>3, <1>4, <1>9, <2>1
<1>10. Memcpy(x) \in Register(Width)
  BY <1>3, MemcpyTwice
<1> QED
  BY <1>5, <1>6, <1>7, <1>8, <1>9, <1>10 DEF c

\* Buffers that agree up to the end of the CRC hold the same frame.
LEMMA SameFrame ==
  ASSUME NEW r \in Register(BufferBits), NEW t \in Register(BufferBits), NEW n \in 1 .. MaxRows,
         NRows(r) = n, NRows(t) = n,
         \A i \in 1 .. CoveredBits(n) + Width : r[i] = t[i]
  PROVE  Frame(r) = Frame(t)
<1> DEFINE k == CoveredBits(n) + Width
<1>1. /\ BufferBits \in Nat /\ k \in Nat /\ k <= BufferBits
      /\ (Covered(n) + CrcBytes) * ByteBits = k
  BY Layout, Sizes
<1>2. 1 \in 1 .. BufferBits + 1 /\ 1 + k <= BufferBits + 1 /\ 1 + k - 1 = k
  BY <1>1
<1> HIDE DEF k
<1>3. SubSeq(r, 1, k) \in Register(k) /\ \A i \in 1 .. k : SubSeq(r, 1, k)[i] = r[1 + i - 1]
  BY <1>1, <1>2, Cut
<1>4. SubSeq(t, 1, k) \in Register(k) /\ \A i \in 1 .. k : SubSeq(t, 1, k)[i] = t[1 + i - 1]
  BY <1>1, <1>2, Cut
<1>5. \A i \in 1 .. k : 1 + i - 1 = i
  BY <1>1
<1>6. \A i \in 1 .. k : SubSeq(r, 1, k)[i] = SubSeq(t, 1, k)[i]
  BY <1>3, <1>4, <1>5 DEF k
<1>7. SubSeq(r, 1, k) = SubSeq(t, 1, k)
  BY <1>3, <1>4, <1>6, SameRegister
<1> QED
  BY <1>1, <1>7 DEF Frame

-----------------------------------------------------------------------------
(* THE FRAME: THE INDUCTIVE INVARIANT                                      *)

\* The frame as it was sent holds its own CRC.
SentFrame ==
  /\ NRows(tx) \in 1 .. MaxRows
  /\ CrcOf(tx, NRows(tx)) = CrcField(tx, NRows(tx))

\* What was received is what was sent, or differs from it within the length of a
\* CRC.
OneBurst ==
  \/ rx = tx
  \/ \E first \in DOMAIN tx :
       /\ rx[first] # tx[first]
       /\ \A i \in DOMAIN tx : rx[i] # tx[i] => first <= i /\ i < first + Width

\* What a valid frame has been found to be.
FoundValid ==
  /\ NRows(rx) \in 1 .. MaxRows
  /\ SizeExpected(rx, block_rows)
  /\ CrcOf(rx, NRows(rx)) = CrcField(rx, NRows(rx))

FrameInv ==
  /\ stage \in {"sent", "received", "checked"}
  /\ tx \in Register(BufferBits) /\ rx \in Register(BufferBits)
  /\ frame_valid \in BOOLEAN
  /\ SentFrame
  /\ OneBurst
  /\ stage = "checked" /\ frame_valid => FoundValid

\* What the STM32 sends is a frame with its CRC, however many rows it has and
\* whatever is left over behind it.
LEMMA SentIsFrame ==
  ASSUME NEW flags \in Register(ByteBits), NEW n_rows \in Register(ByteBits),
         NEW fill \in LeftOver, Number(n_rows) \in 1 .. MaxRows,
         NEW rows \in Register(Number(n_rows) * RowBytes * ByteBits)
  PROVE  LET buffer == Sent(flags, n_rows, rows, fill)
         IN  /\ buffer \in Register(BufferBits)
             /\ NRows(buffer) = Number(n_rows)
             /\ CrcOf(buffer, Number(n_rows)) = CrcField(buffer, Number(n_rows))
<1> DEFINE n == Number(n_rows)
          c == CoveredBits(n)
          buffer == Sent(flags, n_rows, rows, fill)
          body == Magic \o flags \o n_rows \o rows
          crc == frame_crc_compute(Bytes(body, 1, Covered(n)), Poly)
          frame == body \o Memcpy(crc)
<1>1. /\ ByteBits \in Nat \ {0} /\ RowBytes \in Nat \ {0} /\ Width \in Nat /\ n \in Nat
      /\ Covered(n) \in Nat \ {0, 1, 2} /\ c \in Nat /\ BufferBits \in Nat
      /\ c + Width <= BufferBits
  BY FrameAssumption, Sizes, Layout
<1>2. n * RowBytes * ByteBits \in Nat /\ c = 3 * ByteBits + n * RowBytes * ByteBits
  <2>1. n * RowBytes \in Nat
    BY <1>1
  <2> DEFINE k == n * RowBytes
  <2>2. c = (3 + k) * ByteBits
    BY DEF CoveredBits, Covered, HeaderBytes
  <2> HIDE DEF k
  <2>3. k \in Nat
    BY <2>1 DEF k
  <2>4. k * ByteBits \in Nat /\ (3 + k) * ByteBits = 3 * ByteBits + k * ByteBits
    BY <1>1, <2>3
  <2> QED BY <2>2, <2>4 DEF k
<1>3. Magic \in Register(ByteBits)
  BY FrameAssumption DEF Register
<1> HIDE DEF c
<1>4. PICK head : head = Magic \o flags
  OBVIOUS
<1>5. head \in Register(2 * ByteBits)
  <2>1. head \in Register(ByteBits + ByteBits)
    BY <1>1, <1>3, <1>4, Behind
  <2>2. ByteBits + ByteBits = 2 * ByteBits
    BY <1>1
  <2> QED BY <2>1, <2>2
<1>6. PICK header : header = head \o n_rows
  OBVIOUS
<1>7. header \in Register(3 * ByteBits) /\ \A p \in 1 .. ByteBits : header[2 * ByteBits + p] = n_rows[p]
  <2>1. 2 * ByteBits \in Nat /\ ByteBits \in Nat /\ 2 * ByteBits + ByteBits = 3 * ByteBits
    BY <1>1
  <2>2. /\ header \in Register(2 * ByteBits + ByteBits)
        /\ \A p \in 1 .. ByteBits : header[2 * ByteBits + p] = n_rows[p]
    BY <1>5, <1>6, <2>1, Behind, Zenon
  <2> QED BY <2>1, <2>2
<1>8. body \in Register(c) /\ Len(body) = c
      /\ \A p \in 1 .. ByteBits : body[2 * ByteBits + p] = n_rows[p]
  <2>1. body = header \o rows
    BY <1>4, <1>6
  <2> DEFINE k == n * RowBytes * ByteBits
  <2>2. 3 * ByteBits \in Nat /\ k \in Nat /\ c = 3 * ByteBits + k /\ rows \in Register(k)
    BY <1>1, <1>2
  <2> HIDE DEF k, body
  <2>3. /\ body \in Register(3 * ByteBits + k) /\ Len(body) = 3 * ByteBits + k
        /\ \A i \in 1 .. 3 * ByteBits : body[i] = header[i]
    BY <1>7, <2>1, <2>2, Behind, Zenon
  <2>4. \A p \in 1 .. ByteBits : 2 * ByteBits + p \in 1 .. 3 * ByteBits
    BY <1>1
  <2> QED BY <1>7, <2>2, <2>3, <2>4
<1> HIDE DEF body
<1>9. crc \in Register(Width)
  <2>1. Covered(n) * ByteBits <= c /\ Covered(n) \in Nat
    BY <1>1 DEF c, CoveredBits
  <2>2. Bytes(body, 1, Covered(n)) \in [1 .. Covered(n) -> Register(ByteBits)]
    BY <1>1, <1>8, <2>1, FirstBytes
  <2> QED BY <2>1, <2>2, CrcOfRegister
<1> HIDE DEF crc
<1>10. PICK field : field = Memcpy(crc)
  OBVIOUS
<1>11. field \in Register(Width) /\ Memcpy(field) = crc
  BY <1>9, <1>10, MemcpyTwice
<1>12. buffer = [i \in 1 .. BufferBits |-> IF i <= Len(frame) THEN frame[i] ELSE fill[i]]
  BY DEF Sent, BufferBits, body, crc
<1>13. /\ frame \in Register(c + Width) /\ Len(frame) = c + Width
       /\ \A i \in 1 .. c : frame[i] = body[i]
       /\ \A i \in 1 .. Width : frame[c + i] = field[i]
  <2>1. frame = body \o field
    BY <1>10
  <2>2. /\ body \o field \in Register(c + Width) /\ Len(body \o field) = c + Width
        /\ \A i \in 1 .. c : (body \o field)[i] = body[i]
        /\ \A i \in 1 .. Width : (body \o field)[c + i] = field[i]
    <3>1. c \in Nat /\ Width \in Nat /\ body \in Register(c) /\ field \in Register(Width)
      BY <1>1, <1>8, <1>11
    <3> QED BY <3>1, Behind, Zenon
  <2> QED BY <2>1, <2>2
<1> HIDE DEF frame
<1>14. fill \in Register(BufferBits)
  BY FrameAssumption DEF Register, BufferBits
<1> HIDE DEF buffer
<1>15. buffer \in Register(BufferBits)
  <2>1. \A i \in 1 .. BufferBits : buffer[i] \in {0, 1}
    BY <1>1, <1>12, <1>13, <1>14 DEF Register
  <2> QED BY <1>12, <2>1 DEF Register
<1>16. /\ \A i \in 1 .. c : buffer[i] = body[i]
       /\ \A i \in 1 .. Width : buffer[c + i] = field[i]
  <2>1. \A i \in 1 .. c : i \in 1 .. BufferBits /\ i <= c + Width
    BY <1>1
  <2>2. \A i \in 1 .. Width : c + i \in 1 .. BufferBits /\ c + i <= c + Width
    BY <1>1
  <2> QED BY <1>12, <1>13, <2>1, <2>2
<1>17. CrcOf(buffer, n) = crc
  <2>1. Covered(n) \in Nat /\ Covered(n) * ByteBits = c
    BY <1>1 DEF c, CoveredBits
  <2>2. Bytes(buffer, 1, Covered(n)) = Bytes(body, 1, Covered(n))
    <3>1. /\ Covered(n) * ByteBits <= BufferBits /\ Covered(n) * ByteBits <= c
          /\ \A i \in 1 .. Covered(n) * ByteBits : buffer[i] = body[i]
      BY <1>1, <1>16, <2>1
    <3>2. /\ BufferBits \in Nat /\ c \in Nat /\ Covered(n) \in Nat
          /\ buffer \in Register(BufferBits) /\ body \in Register(c)
      BY <1>1, <1>8, <1>15
    <3> HIDE DEF n
    <3> QED BY <3>1, <3>2, SameCrc, Zenon
  <2> QED BY <2>2 DEF CrcOf, crc
<1>18. CrcField(buffer, n) = crc
  <2> DEFINE x == SubSeq(buffer, c + 1, c + Width)
  <2>1. /\ c + 1 \in 1 .. BufferBits + 1 /\ (c + 1) + Width <= BufferBits + 1
        /\ (c + 1) + Width - 1 = c + Width
        /\ \A i \in 1 .. Width : (c + 1) + i - 1 = c + i
    BY <1>1
  <2>2. x \in Register(Width) /\ \A i \in 1 .. Width : x[i] = buffer[(c + 1) + i - 1]
    BY <1>1, <1>15, <2>1, Cut
  <2> HIDE DEF x
  <2>3. x = field
    <3>1. \A i \in 1 .. Width : x[i] = field[i]
      BY <1>16, <2>1, <2>2
    <3> QED BY <1>11, <2>2, <3>1, SameRegister
  <2>4. CrcField(buffer, n) = Memcpy(x)
    BY DEF CrcField, x, c, CoveredBits
  <2> QED BY <1>11, <2>3, <2>4
<1>19. NRows(buffer) = n
  <2> DEFINE x == SubSeq(buffer, 2 * ByteBits + 1, 3 * ByteBits)
  <2>1. /\ 2 * ByteBits + 1 \in 1 .. BufferBits + 1
        /\ (2 * ByteBits + 1) + ByteBits <= BufferBits + 1
        /\ (2 * ByteBits + 1) + ByteBits - 1 = 3 * ByteBits
        /\ \A p \in 1 .. ByteBits : /\ (2 * ByteBits + 1) + p - 1 = 2 * ByteBits + p
                                    /\ 2 * ByteBits + p \in 1 .. c
    BY <1>1, <1>2
  <2> DEFINE a == 2 * ByteBits + 1
  <2>2. x \in Register(ByteBits) /\ \A p \in 1 .. ByteBits : x[p] = buffer[a + p - 1]
    <3>1. x = SubSeq(buffer, a, a + ByteBits - 1) /\ a \in 1 .. BufferBits + 1
          /\ a + ByteBits <= BufferBits + 1 /\ ByteBits \in Nat
      BY <1>1, <2>1
    <3> HIDE DEF x, a
    <3>2. /\ SubSeq(buffer, a, a + ByteBits - 1) \in Register(ByteBits)
          /\ \A p \in 1 .. ByteBits : SubSeq(buffer, a, a + ByteBits - 1)[p] = buffer[a + p - 1]
      <4>1. /\ BufferBits \in Nat /\ ByteBits \in Nat /\ buffer \in Register(BufferBits)
            /\ a \in 1 .. BufferBits + 1 /\ a + ByteBits <= BufferBits + 1
        BY <1>1, <1>15, <3>1
      <4> QED BY <4>1, Cut, Zenon
    <3> QED BY <3>1, <3>2
  <2>3. \A p \in 1 .. ByteBits : x[p] = n_rows[p]
    BY <1>8, <1>16, <2>1, <2>2
  <2> HIDE DEF x
  <2>4. x = n_rows
    BY <2>2, <2>3, SameRegister
  <2>5. Bytes(buffer, 3, 3)[1] = x
    <3>1. 1 \in 1 .. 3 - 3 + 1 /\ (3 + 1 - 2) * ByteBits + 1 = 2 * ByteBits + 1
          /\ (3 + 1 - 1) * ByteBits = 3 * ByteBits
      BY <1>1
    <3> QED BY <3>1 DEF Bytes, x
  <2> QED BY <2>4, <2>5 DEF NRows
<1> QED
  BY <1>15, <1>17, <1>18, <1>19 DEF buffer

LEMMA FrameInvInit == FrameInit => FrameInv
<1> SUFFICES ASSUME FrameInit PROVE FrameInv
  OBVIOUS
<1>1. PICK flags, n_rows \in [1 .. ByteBits -> {0, 1}], fill \in LeftOver :
        /\ Number(n_rows) \in 1 .. MaxRows
        /\ \E rows \in [1 .. Number(n_rows) * RowBytes * ByteBits -> {0, 1}] :
             tx = Sent(flags, n_rows, rows, fill)
  BY DEF FrameInit
<1>2. PICK rows \in [1 .. Number(n_rows) * RowBytes * ByteBits -> {0, 1}] :
        tx = Sent(flags, n_rows, rows, fill)
  BY <1>1
<1>3. /\ flags \in Register(ByteBits) /\ n_rows \in Register(ByteBits)
      /\ rows \in Register(Number(n_rows) * RowBytes * ByteBits)
  BY DEF Register
<1>4. /\ tx \in Register(BufferBits)
      /\ NRows(tx) = Number(n_rows)
      /\ CrcOf(tx, Number(n_rows)) = CrcField(tx, Number(n_rows))
  BY <1>1, <1>2, <1>3, SentIsFrame
<1>5. SentFrame
  BY <1>1, <1>4 DEF SentFrame
<1>6. stage = "sent" /\ rx = tx /\ frame_valid = FALSE
  BY DEF FrameInit
<1> QED
  BY <1>4, <1>5, <1>6 DEF FrameInv, OneBurst

LEMMA FrameInvStep == FrameInv /\ [FrameNext]_frameVars => FrameInv'
<1> SUFFICES ASSUME FrameInv, [FrameNext]_frameVars PROVE FrameInv'
  OBVIOUS
<1>1. CASE Transfer
  <2>1. stage' = "received" /\ tx' = tx /\ frame_valid' = frame_valid
    BY <1>1 DEF Transfer
  <2>2. SentFrame'
    BY <2>1 DEF FrameInv, SentFrame
  <2>3. rx' \in Register(BufferBits) /\ OneBurst'
    <3>1. CASE rx' = tx
      BY <2>1, <3>1 DEF FrameInv, OneBurst
    <3>2. ASSUME NEW first \in DOMAIN tx, NEW last \in first .. first + Width - 1,
                 NEW inner \in SUBSET (first + 1 .. last - 1), last \in DOMAIN tx,
                 rx' = Burst(first, last, inner)
          PROVE  rx' \in Register(BufferBits) /\ OneBurst'
      <4>1. DOMAIN tx = 1 .. BufferBits /\ BufferBits \in Nat /\ Width \in Nat
            /\ \A i \in DOMAIN tx : tx[i] \in {0, 1}
        BY Layout, Sizes DEF FrameInv, Register
      <4>2. \A i \in DOMAIN tx :
              rx'[i] = IF i \in {first, last} \cup inner THEN 1 - tx[i] ELSE tx[i]
        BY <3>2 DEF Burst
      <4>3. rx' = [i \in DOMAIN tx |-> rx'[i]]
        BY <3>2 DEF Burst
      <4>4. \A i \in DOMAIN tx : rx'[i] \in {0, 1}
        BY <4>1, <4>2
      <4>5. rx' \in Register(BufferBits)
        BY <4>1, <4>3, <4>4 DEF Register
      <4>6. rx'[first] # tx[first]
        BY <4>1, <4>2
      <4>7. \A i \in DOMAIN tx : rx'[i] # tx[i] => first <= i /\ i < first + Width
        BY <4>1, <4>2
      <4> QED BY <2>1, <4>5, <4>6, <4>7 DEF OneBurst
    <3> QED BY <1>1, <3>1, <3>2 DEF Transfer
  <2> QED BY <2>1, <2>2, <2>3 DEF FrameInv
<1>2. CASE Validate
  <2>1. /\ stage' = "checked" /\ tx' = tx /\ rx' = rx
        /\ frame_valid' \in BOOLEAN
    BY <1>2 DEF Validate
  <2>2. SentFrame' /\ OneBurst'
    BY <2>1 DEF FrameInv, SentFrame, OneBurst
  <2>3. frame_valid' => FoundValid'
    BY <1>2, <2>1 DEF Validate, FoundValid
  <2> QED BY <2>1, <2>2, <2>3 DEF FrameInv
<1>3. CASE UNCHANGED frameVars
  BY <1>3 DEF FrameInv, SentFrame, OneBurst, FoundValid, frameVars
<1> QED
  BY <1>1, <1>2, <1>3 DEF FrameNext

\* One burst that does not reach both the covered bits and the CRC, and leaves
\* n_rows as it is, leaves no valid frame but the one that was sent.
LEMMA BurstDetected ==
  ASSUME FrameInv, FoundValid, NRows(rx) = NRows(tx),
         ~(Hit(1, CoveredBits(NRows(tx)))
           /\ Hit(CoveredBits(NRows(tx)) + 1, CoveredBits(NRows(tx)) + Width))
  PROVE  Frame(rx) = Frame(tx)
<1> DEFINE n == NRows(tx)
          c == CoveredBits(n)
<1>1. /\ n \in 1 .. MaxRows /\ NRows(rx) = n
      /\ CrcOf(tx, n) = CrcField(tx, n) /\ CrcOf(rx, n) = CrcField(rx, n)
      /\ rx \in Register(BufferBits) /\ tx \in Register(BufferBits)
  BY DEF FrameInv, SentFrame, FoundValid
<1> HIDE DEF n
<1>2. /\ BufferBits \in Nat /\ Width \in Nat /\ c \in Nat /\ c + Width <= BufferBits
      /\ Covered(n) \in Nat /\ Covered(n) * ByteBits = c /\ ByteBits \in Nat
  BY <1>1, Layout, Sizes DEF CoveredBits
<1>3. ~Hit(1, c) \/ ~Hit(c + 1, c + Width)
  BY DEF n
<1> HIDE DEF c
<1>4. PICK k : k = Covered(n)
  OBVIOUS
<1>5. k \in Nat /\ k * ByteBits = c /\ k * ByteBits <= BufferBits
  BY <1>2, <1>4
<1>6. ~Hit(1, c) => CrcOf(rx, n) = CrcOf(tx, n)
  <2> SUFFICES ASSUME ~Hit(1, c) PROVE CrcOf(rx, n) = CrcOf(tx, n)
    OBVIOUS
  <2>1. \A i \in 1 .. k * ByteBits : rx[i] = tx[i]
    BY <1>5 DEF Hit
  <2>2. Bytes(rx, 1, k) = Bytes(tx, 1, k)
    BY <1>1, <1>2, <1>5, <2>1, SameCrc
  <2> QED BY <1>4, <2>2 DEF CrcOf
<1>7. ASSUME ~Hit(1, c), ~Hit(c + 1, c + Width) PROVE Frame(rx) = Frame(tx)
  <2>1. \A i \in 1 .. c : rx[i] = tx[i]
    BY <1>7 DEF Hit
  <2>2. \A i \in c + 1 .. c + Width : rx[i] = tx[i]
    BY <1>7 DEF Hit
  <2>3. \A i \in 1 .. c + Width : i \in 1 .. c \/ i \in c + 1 .. c + Width
    BY <1>2
  <2>4. \A i \in 1 .. CoveredBits(n) + Width : rx[i] = tx[i]
    BY <2>1, <2>2, <2>3 DEF c
  <2>5. NRows(tx) = n
    BY DEF n
  <2> QED BY <1>1, <2>4, <2>5, SameFrame
<1>8. CrcField(rx, n) = CrcField(tx, n) <=> \A i \in c + 1 .. c + Width : rx[i] = tx[i]
  BY <1>1, SameField DEF c
<1>9. CASE ~Hit(1, c)
  <2>1. \A i \in c + 1 .. c + Width : rx[i] = tx[i]
    BY <1>1, <1>6, <1>8, <1>9
  <2>2. ~Hit(c + 1, c + Width)
    BY <2>1 DEF Hit
  <2> QED BY <1>7, <1>9, <2>2
<1>10. CASE Hit(1, c)
  <2>1. ~Hit(c + 1, c + Width)
    BY <1>3, <1>10
  <2>2. CrcOf(rx, n) = CrcOf(tx, n)
    <3>1. \A i \in c + 1 .. c + Width : rx[i] = tx[i]
      BY <2>1 DEF Hit
    <3> QED BY <1>1, <1>8, <3>1
  <2> DEFINE E == {i \in 1 .. c : rx[i] # tx[i]}
             u == Bytes(rx, 1, k)
             v == Bytes(tx, 1, k)
  <2>3. PICK e \in 1 .. c : rx[e] # tx[e]
    BY <1>10 DEF Hit
  <2>4. DOMAIN tx = 1 .. BufferBits /\ 1 .. c \subseteq DOMAIN tx
    BY <1>1, <1>2 DEF Register
  <2>5. PICK first \in DOMAIN tx :
          /\ rx[first] # tx[first]
          /\ \A i \in DOMAIN tx : rx[i] # tx[i] => first <= i /\ i < first + Width
    BY <2>3 DEF FrameInv, OneBurst
  <2>6. first \in E
    <3>1. first <= e /\ first \in 1 .. BufferBits
      BY <2>3, <2>4, <2>5
    <3>2. first \in 1 .. c
      BY <1>2, <3>1
    <3> QED BY <2>5, <3>2
  <2>7. \A i \in E : first <= i /\ i < first + Width
    BY <2>4, <2>5
  <2> HIDE DEF E
  <2>20. /\ rx \in Register(BufferBits) /\ tx \in Register(BufferBits) /\ BufferBits \in Nat
         /\ k \in Nat /\ k * ByteBits <= BufferBits
    BY <1>1, <1>2, <1>5
  <2>8. /\ u \in [1 .. k -> Register(ByteBits)]
        /\ \A m \in 1 .. k : \A p \in 1 .. ByteBits :
             /\ (m - 1) * ByteBits + p \in 1 .. k * ByteBits
             /\ u[m][p] = rx[(m - 1) * ByteBits + p]
    BY <2>20, FirstBytes
  <2>9. /\ v \in [1 .. k -> Register(ByteBits)]
        /\ \A m \in 1 .. k : \A p \in 1 .. ByteBits : v[m][p] = tx[(m - 1) * ByteBits + p]
    BY <2>20, FirstBytes
  <2> HIDE DEF u, v
  <2>10. \A m \in 1 .. k : DifferAt(u[m], v[m], ByteBits, (m - 1) * ByteBits, E)
    <3> TAKE m \in 1 .. k
    <3>1. ASSUME NEW p \in 1 .. ByteBits
          PROVE  (u[m][p] # v[m][p]) <=> (m - 1) * ByteBits + p \in E
      <4>1. (m - 1) * ByteBits + p \in 1 .. c
        BY <1>5, <2>8
      <4> QED BY <2>8, <2>9, <4>1 DEF E
    <3> QED BY <3>1 DEF DifferAt
  <2>11. E \in SUBSET (1 .. k * ByteBits)
    BY <1>5 DEF E
  <2>12. /\ Width \in Nat \ {0} /\ ByteBits \in 1 .. Width
         /\ Poly \in Register(Width) /\ Poly[Width] = 1
    BY Sizes
  <2>13. frame_crc_compute(u, Poly) # frame_crc_compute(v, Poly)
    <3>1. /\ k \in Nat /\ u \in [1 .. k -> Register(ByteBits)]
          /\ v \in [1 .. k -> Register(ByteBits)]
      BY <1>5, <2>8, <2>9
    <3> QED BY <2>6, <2>7, <2>10, <2>11, <2>12, <3>1, BurstChangesCrc, Zenon
  <2>14. CrcOf(rx, n) = frame_crc_compute(u, Poly) /\ CrcOf(tx, n) = frame_crc_compute(v, Poly)
    BY <1>4 DEF CrcOf, u, v
  <2> QED BY <2>2, <2>13, <2>14
<1> QED
  BY <1>9, <1>10

LEMMA FrameInvRejects == FrameInv => BurstRejected
<1> SUFFICES ASSUME FrameInv, stage = "checked", frame_valid, Frame(rx) # Frame(tx)
             PROVE  \/ /\ NRows(rx) # NRows(tx)
                       /\ block_rows # NRows(tx) \/ ConfigApplied(rx)
                    \/ LET covered == Covered(NRows(tx)) * ByteBits
                       IN  /\ NRows(rx) = NRows(tx)
                           /\ Hit(1, covered) /\ Hit(covered + 1, covered + Width)
  BY DEF BurstRejected
<1>1. FoundValid
  BY DEF FrameInv
<1>2. CASE NRows(rx) # NRows(tx)
  <2>1. NRows(tx) # 0
    BY DEF FrameInv, SentFrame
  <2>2. block_rows # NRows(tx) \/ ConfigApplied(rx)
    BY <1>1, <1>2, <2>1 DEF FoundValid, SizeExpected
  <2> QED BY <1>2, <2>2
<1>3. CASE NRows(rx) = NRows(tx)
  BY <1>1, <1>3, BurstDetected DEF CoveredBits
<1> QED
  BY <1>2, <1>3

\* The frame that was sent is intact, what was received differs from it by one
\* burst, and what was found valid is: for every size of byte, row and CRC.
THEOREM FrameIsChecked == FrameSpec => []FrameInv
<1>1. FrameInit => FrameInv
  BY FrameInvInit
<1>2. FrameInv /\ [FrameNext]_frameVars => FrameInv'
  BY FrameInvStep
<1> QED
  BY <1>1, <1>2, PTL DEF FrameSpec

\* A frame hit by one burst no longer than the CRC is not published for another
\* one, save where BurstRejected says; for every polynomial that has a one at its
\* end.
THEOREM BurstsAreRejected == FrameSpec => []BurstRejected
<1>1. FrameInv => BurstRejected
  BY FrameInvRejects
<1> QED
  BY <1>1, FrameIsChecked, PTL

-----------------------------------------------------------------------------
(* POWERS                                                                  *)

\* X[n] is x^n: a single one as long as it fits, and each power is the one before,
\* shifted out.
Powers(X, w, poly) ==
  /\ X \in [Nat -> Register(w)]
  /\ \A n \in Nat : PowerOfX(n, poly) = X[n]
  /\ \A n \in Nat : n < w => \A p \in 1 .. w : X[n][p] = IF p = w - n THEN 1 ELSE 0
  /\ \A n \in Nat : \A p \in 1 .. w : X[n + 1][p] = ShiftedBit(X[n], poly, w, p)

LEMMA PowersOfX ==
  ASSUME NEW w \in Nat \ {0}, NEW poly \in Register(w)
  PROVE  \E X : Powers(X, w, poly)
<1> DEFINE Low(k) == [i \in 1 .. w |-> IF i = w - k THEN 1 ELSE 0]
          Up(r) == [i \in 1 .. w |-> ((IF i = w THEN 0 ELSE r[i + 1]) + r[1] * poly[i]) % 2]
          Eqn(f) == f = [k \in Nat |-> IF k < w THEN Low(k) ELSE Up(f[k - 1])]
          X == CHOOSE f : Eqn(f)
<1>1. \A k \in Nat : Low(k) \in Register(w)
  BY DEF Register
<1>2. ASSUME NEW r \in Register(w)
      PROVE  Up(r) \in Register(w) /\ \A p \in 1 .. w : Up(r)[p] = ShiftedBit(r, poly, w, p)
  <2>1. ASSUME NEW p \in 1 .. w PROVE Up(r)[p] = ShiftedBit(r, poly, w, p) /\ Up(r)[p] \in {0, 1}
    <3> DEFINE s == IF p = w THEN 0 ELSE r[p + 1]
    <3>1. s \in {0, 1} /\ poly[p] \in {0, 1} /\ r[1] \in {0, 1}
      BY DEF Register
    <3>2. Up(r)[p] = (s + r[1] * poly[p]) % 2
      OBVIOUS
    <3>3. ShiftedBit(r, poly, w, p) = IF r[1] = 1 THEN (IF s = poly[p] THEN 0 ELSE 1) ELSE s
      BY DEF ShiftedBit
    <3> HIDE DEF s
    <3>4. CASE r[1] = 1
      <4>1. r[1] * poly[p] = poly[p]
        BY <3>1, <3>4
      <4> QED BY <3>1, <3>2, <3>3, <3>4, <4>1, XorBit
    <3>5. CASE r[1] = 0
      <4>1. s + r[1] * poly[p] = s + 0
        BY <3>1, <3>5
      <4> QED BY <3>1, <3>2, <3>3, <3>5, <4>1, XorBit
    <3> QED BY <3>1, <3>4, <3>5
  <2> QED BY <2>1 DEF Register
<1> HIDE DEF Low, Up
<1>3. PICK step \in [Nat -> [Register(w) -> Register(w)]] :
        \A k \in Nat, r \in Register(w) : step[k][r] = IF k < w THEN Low(k) ELSE Up(r)
  <2> DEFINE t == [k \in Nat |-> [r \in Register(w) |-> IF k < w THEN Low(k) ELSE Up(r)]]
  <2>1. t \in [Nat -> [Register(w) -> Register(w)]]
    BY <1>1, <1>2
  <2> QED BY <2>1
<1>4. \E f : Eqn(f)
  <2>1. Low(0) \in Register(w)
    BY <1>1
  <2>2. PICK f \in [Nat -> Register(w)] : \A n \in Nat : Goes(f, n, Low(0), step)
    BY <1>3, <2>1, NatRecursion, Zenon
  <2>3. ASSUME NEW k \in Nat PROVE f[k] = IF k < w THEN Low(k) ELSE Up(f[k - 1])
    <3>1. CASE k = 0
      BY <2>2, <3>1 DEF Goes
    <3>2. CASE k # 0
      <4>1. k \in 1 .. k /\ k - 1 \in Nat
        BY <3>2
      <4>2. f[k] = step[k][f[k - 1]]
        BY <2>2, <4>1 DEF Goes
      <4> QED BY <1>3, <4>1, <4>2
    <3> QED BY <3>1, <3>2
  <2>4. Eqn(f)
    BY <2>3
  <2> QED BY <2>4
<1>5. Eqn(X)
  BY <1>4
<1>6. ASSUME NEW n \in Nat PROVE PowerOfX(n, poly) = X[n]
  <2>1. Len(poly) = w
    BY Registers
  <2> QED BY <2>1 DEF PowerOfX, Low, Up
<1> HIDE DEF X
<1>7. X = [k \in Nat |-> X[k]] /\ \A k \in Nat : X[k] = IF k < w THEN Low(k) ELSE Up(X[k - 1])
  BY <1>5
<1>8. X \in [Nat -> Register(w)]
  <2> DEFINE S == {k \in Nat : X[k] \in Register(w)}
  <2>1. 0 \in S
    <3>1. 0 \in Nat /\ 0 < w
      OBVIOUS
    <3>2. X[0] = Low(0) /\ Low(0) \in Register(w)
      BY <1>1, <1>7, <3>1
    <3> QED BY <3>2
  <2>2. ASSUME NEW k \in Nat, k \in S PROVE k + 1 \in S
    <3>1. X[k + 1] = IF k + 1 < w THEN Low(k + 1) ELSE Up(X[k])
      <4>1. k + 1 \in Nat /\ (k + 1) - 1 = k
        OBVIOUS
      <4> QED BY <1>7, <4>1, Zenon
    <3>2. X[k + 1] \in Register(w)
      BY <1>1, <1>2, <2>2, <3>1
    <3> QED BY <3>2
  <2> HIDE DEF S
  <2>3. Nat \subseteq S
    BY <2>1, <2>2, SetInduction
  <2> QED BY <1>7, <2>3 DEF S
<1>9. ASSUME NEW n \in Nat, n < w, NEW p \in 1 .. w PROVE X[n][p] = IF p = w - n THEN 1 ELSE 0
  BY <1>7, <1>9 DEF Low
<1>10. ASSUME NEW n \in Nat, NEW p \in 1 .. w PROVE X[n + 1][p] = ShiftedBit(X[n], poly, w, p)
  <2>1. n + 1 \in Nat /\ (n + 1) - 1 = n
    OBVIOUS
  <2>2. X[n + 1] = IF n + 1 < w THEN Low(n + 1) ELSE Up(X[n])
    BY <1>7, <2>1, Zenon
  <2>3. CASE n + 1 < w
    <3>1. 1 \in 1 .. w /\ n < w /\ 1 # w - n
      BY <2>3
    <3>2. X[n][1] = 0
      BY <1>9, <3>1
    <3>3. ShiftedBit(X[n], poly, w, p) = IF p = w THEN 0 ELSE X[n][p + 1]
      BY <3>2 DEF ShiftedBit
    <3>4. p # w => p + 1 \in 1 .. w
      OBVIOUS
    <3>5. p # w => X[n][p + 1] = IF p + 1 = w - n THEN 1 ELSE 0
      BY <1>9, <3>1, <3>4
    <3>6. X[n + 1][p] = IF p = w - (n + 1) THEN 1 ELSE 0
      BY <1>9, <2>1, <2>3
    <3> QED BY <3>3, <3>5, <3>6
  <2>4. CASE n + 1 >= w
    BY <1>2, <1>8, <2>2, <2>4
  <2> QED BY <2>3, <2>4
<1> QED
  BY <1>6, <1>8, <1>9, <1>10 DEF Powers

-----------------------------------------------------------------------------
(* SUMS OF POWERS                                                          *)

Parity(S) == Cardinality(S) % 2
Either(S, T) == (S \ T) \cup (T \ S)

LEMMA ParityOfEither ==
  ASSUME NEW S, NEW T, IsFiniteSet(S), IsFiniteSet(T)
  PROVE  /\ Parity(S) \in {0, 1} /\ Parity(T) \in {0, 1}
         /\ Parity(Either(S, T)) = IF Parity(S) = Parity(T) THEN 0 ELSE 1
<1> DEFINE a == Cardinality(S)
          b == Cardinality(T)
          c == Cardinality(S \cap T)
<1>1. a \in Nat /\ b \in Nat
  BY FS_CardinalityType
<1>2. c \in Nat
  <2>1. IsFiniteSet(S \cap T)
    BY FS_Subset
  <2> QED BY <2>1, FS_CardinalityType
<1>3. /\ IsFiniteSet(S \ T) /\ Cardinality(S \ T) = a - c
      /\ IsFiniteSet(T \ S) /\ Cardinality(T \ S) = b - c
  <2>1. T \cap S = S \cap T
    OBVIOUS
  <2> QED BY <2>1, FS_Difference
<1>4. Cardinality(Either(S, T)) = (a - c) + (b - c)
  <2>1. (S \ T) \cap (T \ S) = {}
    OBVIOUS
  <2>2. Cardinality((S \ T) \cup (T \ S)) =
          Cardinality(S \ T) + Cardinality(T \ S) - Cardinality((S \ T) \cap (T \ S))
    BY <1>3, FS_Union
  <2> HIDE DEF a, b, c
  <2>3. Cardinality((S \ T) \cap (T \ S)) = 0
    BY <2>1, FS_EmptySet
  <2> QED BY <1>1, <1>2, <1>3, <2>2, <2>3 DEF Either
<1> HIDE DEF a, b, c
<1>5. ((a - c) + (b - c)) % 2 = IF a % 2 = b % 2 THEN 0 ELSE 1
  BY <1>1, <1>2
<1>6. a % 2 \in {0, 1} /\ b % 2 \in {0, 1}
  BY <1>1
<1> QED
  BY <1>4, <1>5, <1>6 DEF Parity, a, b

\* The sum of the powers in S, at p.
SumAt(X, S, p) == Parity({n \in S : X[n][p] = 1})

\* The set of the successors.
Successors(S) == {n + 1 : n \in S}

LEMMA SumOfEither ==
  ASSUME NEW X, NEW p, NEW S, NEW T, IsFiniteSet(S), IsFiniteSet(T)
  PROVE  /\ SumAt(X, S, p) \in {0, 1} /\ SumAt(X, T, p) \in {0, 1}
         /\ SumAt(X, Either(S, T), p) = IF SumAt(X, S, p) = SumAt(X, T, p) THEN 0 ELSE 1
<1> DEFINE A == {n \in S : X[n][p] = 1}
          B == {n \in T : X[n][p] = 1}
<1>1. IsFiniteSet(A) /\ IsFiniteSet(B)
  BY FS_Subset
<1>2. {n \in Either(S, T) : X[n][p] = 1} = Either(A, B)
  BY DEF Either
<1>3. SumAt(X, S, p) = Parity(A) /\ SumAt(X, T, p) = Parity(B)
  BY DEF SumAt
<1>4. SumAt(X, Either(S, T), p) = Parity(Either(A, B))
  BY <1>2 DEF SumAt
<1> HIDE DEF A, B
<1> QED
  BY <1>1, <1>3, <1>4, ParityOfEither

LEMMA ParityOfSuccessors ==
  ASSUME NEW S \in SUBSET Nat, IsFiniteSet(S)
  PROVE  IsFiniteSet(Successors(S)) /\ Parity(Successors(S)) = Parity(S)
<1> DEFINE f == [n \in S |-> n + 1]
<1>1. f \in [S -> Successors(S)]
  BY DEF Successors
<1>2. f \in Injection(S, Successors(S))
  BY <1>1 DEF Injection, IsInjective
<1>3. f \in Surjection(S, Successors(S))
  BY <1>1 DEF Surjection, Successors
<1>4. ExistsBijection(S, Successors(S))
  BY <1>2, <1>3 DEF ExistsBijection, Bijection
<1> QED
  BY <1>4, FS_Bijection DEF Parity

\* To multiply by x is to shift out.
LEMMA SumOfSuccessors ==
  ASSUME NEW w \in Nat \ {0}, NEW poly \in Register(w), NEW X, Powers(X, w, poly),
         NEW S \in SUBSET Nat, IsFiniteSet(S), NEW p \in 1 .. w
  PROVE  SumAt(X, Successors(S), p) =
           LET s == IF p = w THEN 0 ELSE SumAt(X, S, p + 1)
           IN  IF SumAt(X, S, 1) = 1 THEN (IF s = poly[p] THEN 0 ELSE 1) ELSE s
<1> DEFINE A == IF p = w THEN {} ELSE {n \in S : X[n][p + 1] = 1}
          B == IF poly[p] = 1 THEN {n \in S : X[n][1] = 1} ELSE {}
<1>1. IsFiniteSet(A) /\ IsFiniteSet(B)
  <2>1. /\ IsFiniteSet({n \in S : X[n][p + 1] = 1})
        /\ IsFiniteSet({n \in S : X[n][1] = 1})
    BY FS_Subset
  <2> QED BY <2>1, FS_EmptySet
<1>2. {m \in Successors(S) : X[m][p] = 1} = Successors({n \in S : X[n + 1][p] = 1})
  BY DEF Successors
<1>3. {n \in S : X[n + 1][p] = 1} = Either(A, B)
  <2>1. ASSUME NEW n \in S PROVE X[n + 1][p] = 1 <=> n \in Either(A, B)
    <3>1. n \in Nat /\ X[n] \in Register(w)
      BY DEF Powers
    <3>2. X[n + 1][p] = ShiftedBit(X[n], poly, w, p)
      BY <3>1 DEF Powers
    <3>3. n \in A <=> p # w /\ X[n][p + 1] = 1
      OBVIOUS
    <3>4. n \in B <=> poly[p] = 1 /\ X[n][1] = 1
      OBVIOUS
    <3> HIDE DEF A, B
    <3>5. poly[p] \in {0, 1} /\ (p # w => X[n][p + 1] \in {0, 1}) /\ X[n][1] \in {0, 1}
      BY <3>1 DEF Register
    <3>6. ShiftedBit(X[n], poly, w, p) = 1 <=> ((n \in A) <=> ~(n \in B))
      BY <3>3, <3>4, <3>5 DEF ShiftedBit
    <3> QED BY <3>2, <3>6 DEF Either
  <2>2. Either(A, B) \subseteq S
    BY DEF Either
  <2> QED BY <2>1, <2>2
<1>4. Parity(A) = IF p = w THEN 0 ELSE SumAt(X, S, p + 1)
  <2>1. Parity({}) = 0
    BY FS_EmptySet DEF Parity
  <2> QED BY <2>1 DEF SumAt
<1>5. Parity(B) = IF poly[p] = 1 THEN SumAt(X, S, 1) ELSE 0
  <2>1. Parity({}) = 0
    BY FS_EmptySet DEF Parity
  <2> QED BY <2>1 DEF SumAt
<1>6. {n \in S : X[n + 1][p] = 1} \in SUBSET Nat /\ IsFiniteSet({n \in S : X[n + 1][p] = 1})
  BY FS_Subset
<1>7. SumAt(X, Successors(S), p) = Parity(Either(A, B))
  BY <1>2, <1>3, <1>6, ParityOfSuccessors DEF SumAt
<1> HIDE DEF A, B
<1>8. /\ Parity(A) \in {0, 1} /\ Parity(B) \in {0, 1}
      /\ Parity(Either(A, B)) = IF Parity(A) = Parity(B) THEN 0 ELSE 1
  BY <1>1, ParityOfEither
<1>9. SumAt(X, S, 1) \in {0, 1} /\ poly[p] \in {0, 1}
  BY SumOfEither DEF Register
<1> DEFINE s == IF p = w THEN 0 ELSE SumAt(X, S, p + 1)
<1>10. Parity(A) = s
  BY <1>4
<1> HIDE DEF s
<1>11. SumAt(X, Successors(S), p) = IF SumAt(X, S, 1) = 1 THEN (IF s = poly[p] THEN 0 ELSE 1) ELSE s
  BY <1>5, <1>7, <1>8, <1>9, <1>10
<1> QED
  BY <1>11 DEF s

-----------------------------------------------------------------------------
(* THE CRC IS A REMAINDER                                                  *)

\* The exponents that Remainder sums up for the first i bits of m: those of the
\* message, and those of the initial ones.
MessageSet(m, w, i) == {w + i - j : j \in {j \in 1 .. i : m[j] = 1}}
InitialSet(w, i) == {i + j : j \in 0 .. w - 1}

LEMMA ExponentSets ==
  ASSUME NEW w \in Nat \ {0}, NEW m, NEW i \in Nat
  PROVE  /\ MessageSet(m, w, i) \in SUBSET Nat /\ IsFiniteSet(MessageSet(m, w, i))
         /\ \A e \in MessageSet(m, w, i) : e >= w
         /\ InitialSet(w, i) \in SUBSET Nat /\ IsFiniteSet(InitialSet(w, i))
<1>1. /\ MessageSet(m, w, i) \in SUBSET Nat
      /\ \A e \in MessageSet(m, w, i) : e >= w /\ e <= w + i
  BY DEF MessageSet
<1>2. /\ InitialSet(w, i) \in SUBSET Nat
      /\ \A e \in InitialSet(w, i) : e <= w + i
  BY DEF InitialSet
<1>3. w + i \in Nat
  OBVIOUS
<1> QED
  BY <1>1, <1>2, <1>3, FS_BoundedSetOfNaturals

\* One bit more moves them all up by one, and adds w if the bit is set.
LEMMA ExponentsGrow ==
  ASSUME NEW w \in Nat \ {0}, NEW m, NEW i \in Nat
  PROVE  /\ MessageSet(m, w, i + 1) =
              IF m[i + 1] = 1 THEN Either(Successors(MessageSet(m, w, i)), {w})
              ELSE Successors(MessageSet(m, w, i))
         /\ InitialSet(w, i + 1) = Successors(InitialSet(w, i))
<1>1. InitialSet(w, i + 1) = Successors(InitialSet(w, i))
  <2>1. ASSUME NEW e \in InitialSet(w, i + 1) PROVE e \in Successors(InitialSet(w, i))
    <3>1. PICK j \in 0 .. w - 1 : e = (i + 1) + j
      BY DEF InitialSet
    <3>2. e = (i + j) + 1
      BY <3>1
    <3> QED BY <3>2 DEF InitialSet, Successors
  <2>2. ASSUME NEW e \in Successors(InitialSet(w, i)) PROVE e \in InitialSet(w, i + 1)
    <3>1. PICK j \in 0 .. w - 1 : e = (i + j) + 1
      BY DEF InitialSet, Successors
    <3>2. e = (i + 1) + j
      BY <3>1
    <3> QED BY <3>2 DEF InitialSet
  <2> QED BY <2>1, <2>2
<1> DEFINE M == Successors(MessageSet(m, w, i))
<1>2. \A e : e \in M <=> \E j \in 1 .. i : m[j] = 1 /\ e = w + (i + 1) - j
  <2>1. ASSUME NEW e \in M PROVE \E j \in 1 .. i : m[j] = 1 /\ e = w + (i + 1) - j
    <3>1. PICK j \in 1 .. i : m[j] = 1 /\ e = (w + i - j) + 1
      BY DEF MessageSet, Successors
    <3>2. e = w + (i + 1) - j
      BY <3>1
    <3> QED BY <3>1, <3>2
  <2>2. ASSUME NEW e, NEW j \in 1 .. i, m[j] = 1, e = w + (i + 1) - j PROVE e \in M
    <3>1. e = (w + i - j) + 1
      BY <2>2
    <3> QED BY <2>2, <3>1 DEF MessageSet, Successors
  <2> QED BY <2>1, <2>2
<1>3. \A e : e \in MessageSet(m, w, i + 1) <=>
               \E j \in 1 .. i + 1 : m[j] = 1 /\ e = w + (i + 1) - j
  BY DEF MessageSet
<1>4. w \notin M
  <2>1. \A j \in 1 .. i : w # w + (i + 1) - j
    OBVIOUS
  <2> QED BY <1>2, <2>1
<1> HIDE DEF M
<1>5. \A e : e \in MessageSet(m, w, i + 1) <=> (e \in M \/ (m[i + 1] = 1 /\ e = w))
  <2> TAKE e
  <2>1. w + (i + 1) - (i + 1) = w /\ i + 1 \in 1 .. i + 1
    OBVIOUS
  <2>2. \A j \in 1 .. i + 1 : j \in 1 .. i \/ j = i + 1
    OBVIOUS
  <2>3. \A j \in 1 .. i : j \in 1 .. i + 1
    OBVIOUS
  <2>4. ASSUME e \in MessageSet(m, w, i + 1) PROVE e \in M \/ (m[i + 1] = 1 /\ e = w)
    <3>1. PICK j \in 1 .. i + 1 : m[j] = 1 /\ e = w + (i + 1) - j
      BY <1>3, <2>4
    <3>2. CASE j \in 1 .. i
      BY <1>2, <3>1, <3>2
    <3>3. CASE j = i + 1
      BY <2>1, <3>1, <3>3
    <3> QED BY <2>2, <3>2, <3>3
  <2>5. ASSUME e \in M PROVE e \in MessageSet(m, w, i + 1)
    <3>1. PICK j \in 1 .. i : m[j] = 1 /\ e = w + (i + 1) - j
      BY <1>2, <2>5
    <3> QED BY <1>3, <2>3, <3>1
  <2>6. ASSUME m[i + 1] = 1, e = w PROVE e \in MessageSet(m, w, i + 1)
    BY <1>3, <2>1, <2>6
  <2> QED BY <2>4, <2>5, <2>6
<1>6. MessageSet(m, w, i + 1) = IF m[i + 1] = 1 THEN Either(M, {w}) ELSE M
  BY <1>4, <1>5 DEF Either
<1> QED
  BY <1>1, <1>6 DEF M

\* The bit at p when one more bit of a message has been divided.
DividedBit(t, bit, w, poly, p) ==
  LET s == IF p = w THEN 0 ELSE t[p + 1]
  IN  IF t[1] # bit THEN (IF s = poly[p] THEN 0 ELSE 1) ELSE s

\* t[i] is the remainder of the first i bits of m.
Remainders(t, m, k, w, poly) ==
  /\ t \in [0 .. k -> Register(w)]
  /\ \A p \in 1 .. w : t[0][p] = 1
  /\ \A i \in Nat : i < k => \A p \in 1 .. w : t[i + 1][p] = DividedBit(t[i], m[i + 1], w, poly, p)
  /\ Remainder(m, poly) = t[k]

LEMMA RemaindersOfPrefixes ==
  ASSUME NEW w \in Nat \ {0}, NEW poly \in Register(w), NEW k \in Nat, NEW m \in Register(k)
  PROVE  \E t : Remainders(t, m, k, w, poly)
<1>1. PICK X : Powers(X, w, poly)
  BY PowersOfX
<1> DEFINE A(i, p) == SumAt(X, MessageSet(m, w, i), p)
          C(i, p) == SumAt(X, InitialSet(w, i), p)
          t == [i \in 0 .. k |-> [p \in 1 .. w |-> IF A(i, p) = C(i, p) THEN 0 ELSE 1]]
<1>2. t \in [0 .. k -> Register(w)]
  BY DEF Register
<1>3. \A i \in 0 .. k : \A p \in 1 .. w : t[i][p] = IF A(i, p) = C(i, p) THEN 0 ELSE 1
  OBVIOUS
<1>4. \A i \in Nat : \A p \in 1 .. w : A(i, p) \in {0, 1} /\ C(i, p) \in {0, 1}
  BY ExponentSets, SumOfEither
<1>5. \A p \in 1 .. w : t[0][p] = 1
  <2> TAKE p \in 1 .. w
  <2>1. {n \in MessageSet(m, w, 0) : X[n][p] = 1} = {}
    BY DEF MessageSet
  <2>2. A(0, p) = 0
    BY <2>1, FS_EmptySet DEF SumAt, Parity
  <2>3. {n \in InitialSet(w, 0) : X[n][p] = 1} = {w - p}
    <3>1. ASSUME NEW n PROVE n \in InitialSet(w, 0) <=> n \in 0 .. w - 1
      BY DEF InitialSet
    <3>2. ASSUME NEW n \in 0 .. w - 1 PROVE X[n][p] = 1 <=> n = w - p
      <4>1. n \in Nat /\ n < w
        OBVIOUS
      <4>2. X[n][p] = IF p = w - n THEN 1 ELSE 0
        BY <1>1, <4>1 DEF Powers
      <4> QED BY <4>2
    <3>3. w - p \in 0 .. w - 1
      OBVIOUS
    <3> QED BY <3>1, <3>2, <3>3
  <2>4. C(0, p) = 1
    <3>1. Cardinality({w - p}) = 1
      BY FS_Singleton
    <3>2. Cardinality({w - p}) % 2 = 1
      BY <3>1
    <3> QED BY <2>3, <3>2 DEF SumAt, Parity
  <2> QED BY <1>3, <2>2, <2>4
<1>6. ASSUME NEW p \in 1 .. w PROVE SumAt(X, {w}, p) = poly[p]
  <2>1. X[w][p] = poly[p]
    <3>1. w - 1 \in Nat /\ w - 1 < w /\ (w - 1) + 1 = w /\ w - (w - 1) = 1
      OBVIOUS
    <3>2. X[w][p] = ShiftedBit(X[w - 1], poly, w, p)
      BY <1>1, <3>1, Zenon DEF Powers
    <3>3. \A q \in 1 .. w : X[w - 1][q] = IF q = 1 THEN 1 ELSE 0
      BY <1>1, <3>1 DEF Powers
    <3>4. X[w - 1][1] = 1 /\ (p # w => X[w - 1][p + 1] = 0)
      BY <3>3
    <3>5. poly[p] \in {0, 1}
      BY DEF Register
    <3> QED BY <3>2, <3>4, <3>5 DEF ShiftedBit
  <2>2. CASE poly[p] = 1
    <3>1. {n \in {w} : X[n][p] = 1} = {w}
      BY <2>1, <2>2
    <3>2. Cardinality({w}) = 1
      BY FS_Singleton
    <3>3. Cardinality({w}) % 2 = 1
      BY <3>2
    <3> QED BY <2>2, <3>1, <3>3 DEF SumAt, Parity
  <2>3. CASE poly[p] = 0
    <3>1. {n \in {w} : X[n][p] = 1} = {}
      BY <2>1, <2>3
    <3>2. Cardinality({n \in {w} : X[n][p] = 1}) % 2 = 0
      BY <3>1, FS_EmptySet
    <3> QED BY <2>3, <3>2 DEF SumAt, Parity
  <2> QED BY <2>2, <2>3 DEF Register
<1> DEFINE N(f1, f2, p) ==
             LET s == IF p = w THEN 0 ELSE f2
             IN  IF f1 = 1 THEN (IF s = poly[p] THEN 0 ELSE 1) ELSE s
<1>7. ASSUME NEW i \in Nat, NEW p \in 1 .. w
      PROVE  /\ C(i + 1, p) = N(C(i, 1), C(i, p + 1), p)
             /\ A(i + 1, p) = LET a == N(A(i, 1), A(i, p + 1), p)
                              IN  IF m[i + 1] = 1 THEN (IF a = poly[p] THEN 0 ELSE 1) ELSE a
  <2> DEFINE Q == MessageSet(m, w, i)
             I == InitialSet(w, i)
  <2>1. Q \in SUBSET Nat /\ IsFiniteSet(Q) /\ I \in SUBSET Nat /\ IsFiniteSet(I)
    BY ExponentSets
  <2>2. /\ MessageSet(m, w, i + 1) = IF m[i + 1] = 1 THEN Either(Successors(Q), {w}) ELSE Successors(Q)
        /\ InitialSet(w, i + 1) = Successors(I)
    BY ExponentsGrow
  <2> HIDE DEF Q, I
  <2>3. SumAt(X, Successors(Q), p) = N(SumAt(X, Q, 1), SumAt(X, Q, p + 1), p)
    BY <1>1, <2>1, SumOfSuccessors
  <2>4. SumAt(X, Successors(I), p) = N(SumAt(X, I, 1), SumAt(X, I, p + 1), p)
    BY <1>1, <2>1, SumOfSuccessors
  <2>5. IsFiniteSet(Successors(Q)) /\ IsFiniteSet({w})
    BY <2>1, ParityOfSuccessors, FS_Singleton
  <2>6. SumAt(X, Either(Successors(Q), {w}), p) =
          IF SumAt(X, Successors(Q), p) = poly[p] THEN 0 ELSE 1
    BY <1>6, <2>5, SumOfEither
  <2> HIDE DEF N
  <2> QED BY <2>2, <2>3, <2>4, <2>6 DEF Q, I
<1> HIDE DEF A, C, t
<1>8. ASSUME NEW i \in Nat, i < k, NEW p \in 1 .. w
      PROVE  t[i + 1][p] = DividedBit(t[i], m[i + 1], w, poly, p)
  <2>1. i \in 0 .. k /\ i + 1 \in 0 .. k /\ i + 1 \in 1 .. k /\ 1 \in 1 .. w /\ i + 1 \in Nat
    BY <1>8
  <2>2. m[i + 1] \in {0, 1} /\ poly[p] \in {0, 1}
    BY <2>1 DEF Register
  <2>3. /\ t[i + 1][p] = IF A(i + 1, p) = C(i + 1, p) THEN 0 ELSE 1
        /\ t[i][1] = IF A(i, 1) = C(i, 1) THEN 0 ELSE 1
    BY <1>3, <2>1
  <2>4. A(i, 1) \in {0, 1} /\ C(i, 1) \in {0, 1}
    BY <1>4, <2>1
  <2>5. CASE p = w
    BY <1>7, <2>2, <2>3, <2>4, <2>5 DEF DividedBit
  <2>6. CASE p # w
    <3>1. p + 1 \in 1 .. w
      BY <2>6
    <3>2. /\ t[i][p + 1] = IF A(i, p + 1) = C(i, p + 1) THEN 0 ELSE 1
          /\ A(i, p + 1) \in {0, 1} /\ C(i, p + 1) \in {0, 1}
      BY <1>3, <1>4, <2>1, <3>1
    <3> QED BY <1>7, <2>2, <2>3, <2>4, <2>6, <3>2 DEF DividedBit
  <2> QED BY <2>5, <2>6
<1>9. Remainder(m, poly) = t[k]
  <2> DEFINE once == Either(MessageSet(m, w, k), InitialSet(w, k))
  <2>1. Len(poly) = w /\ Len(m) = k /\ DOMAIN m = 1 .. k
    BY Registers DEF Register
  <2>2. Remainder(m, poly) =
          [p \in 1 .. w |-> Cardinality({n \in once : PowerOfX(n, poly)[p] = 1}) % 2]
    BY <2>1 DEF Remainder, Either, MessageSet, InitialSet
  <2>3. once \subseteq Nat
    BY ExponentSets DEF Either
  <2> HIDE DEF once
  <2>4. ASSUME NEW p \in 1 .. w
        PROVE  Cardinality({n \in once : PowerOfX(n, poly)[p] = 1}) % 2 = t[k][p]
    <3>1. {n \in once : PowerOfX(n, poly)[p] = 1} = {n \in once : X[n][p] = 1}
      BY <1>1, <2>3 DEF Powers
    <3>2. SumAt(X, once, p) = IF A(k, p) = C(k, p) THEN 0 ELSE 1
      BY ExponentSets, SumOfEither DEF once, A, C
    <3>3. k \in 0 .. k
      OBVIOUS
    <3> QED BY <1>3, <3>1, <3>2, <3>3 DEF SumAt, Parity
  <2>5. t[k] \in Register(w)
    BY <1>2
  <2>6. t[k] = [p \in 1 .. w |-> t[k][p]]
    BY <2>5 DEF Register
  <2> QED BY <2>2, <2>4, <2>6
<1> QED
  BY <1>2, <1>5, <1>8, <1>9 DEF Remainders

\* Register r holds the remainder t[i] of the first i bits, to which the bits up to
\* lim have been added ahead of time.
Carried(r, t, m, w, lim, i) ==
  \A p \in 1 .. w :
    r[p] = IF i + p <= lim THEN (IF t[i][p] = m[i + p] THEN 0 ELSE 1) ELSE t[i][p]

\* A byte is the bits of m that follow bit i.
ByteOf(byte, b, m, i) == \A p \in 1 .. b : byte[p] = m[i + p]
BytesOf(bytes, n, b, m) == \A j \in 1 .. n : ByteOf(bytes[j], b, m, (j - 1) * b)

LEMMA CarriedWithByte ==
  ASSUME NEW w \in Nat \ {0}, NEW b \in 1 .. w, NEW t, NEW m, NEW i \in Nat,
         NEW r \in Register(w), NEW x \in Register(w), NEW u \in Register(b),
         WithByte(x, r, u, b, w), ByteOf(u, b, m, i), Carried(r, t, m, w, i, i)
  PROVE  Carried(x, t, m, w, i + b, i)
<1> SUFFICES ASSUME NEW p \in 1 .. w
             PROVE  x[p] = IF i + p <= i + b THEN (IF t[i][p] = m[i + p] THEN 0 ELSE 1)
                           ELSE t[i][p]
  BY DEF Carried
<1>1. ~(i + p <= i) /\ (i + p <= i + b <=> p <= b)
  OBVIOUS
<1>2. r[p] = t[i][p]
  BY <1>1 DEF Carried
<1>3. x[p] = IF p <= b THEN (IF r[p] = u[p] THEN 0 ELSE 1) ELSE r[p]
  BY DEF WithByte
<1>4. p <= b => u[p] = m[i + p]
  BY DEF ByteOf
<1> QED
  BY <1>1, <1>2, <1>3, <1>4

LEMMA CarriedWithShift ==
  ASSUME NEW w \in Nat \ {0}, NEW poly \in Register(w), NEW k \in Nat, NEW m \in Register(k),
         NEW t, Remainders(t, m, k, w, poly),
         NEW lim \in Nat, NEW i \in Nat, i < lim, lim <= i + w, lim <= k,
         NEW r \in Register(w), Carried(r, t, m, w, lim, i)
  PROVE  Carried(ShiftOut(r, poly), t, m, w, lim, i + 1)
<1> DEFINE x == ShiftOut(r, poly)
<1> SUFFICES ASSUME NEW p \in 1 .. w
             PROVE  x[p] = IF (i + 1) + p <= lim
                           THEN (IF t[i + 1][p] = m[(i + 1) + p] THEN 0 ELSE 1)
                           ELSE t[i + 1][p]
  BY DEF Carried
<1>1. x[p] = ShiftedBit(r, poly, w, p)
  BY ShiftOutRegister
<1>2. t[i + 1][p] = DividedBit(t[i], m[i + 1], w, poly, p)
  BY DEF Remainders
<1>3. i \in 0 .. k /\ i + 1 \in 1 .. k /\ 1 \in 1 .. w /\ i + 1 <= lim
  OBVIOUS
<1>4. t[i] \in Register(w)
  BY <1>3 DEF Remainders
<1>5. /\ \A q \in 1 .. w : t[i][q] \in {0, 1} /\ poly[q] \in {0, 1}
      /\ \A j \in 1 .. k : m[j] \in {0, 1}
  BY <1>4 DEF Register
<1>6. r[1] = IF t[i][1] = m[i + 1] THEN 0 ELSE 1
  BY <1>3 DEF Carried
<1> HIDE DEF x
<1>7. CASE p = w
  <2>1. ~((i + 1) + p <= lim)
    BY <1>7
  <2>2. x[p] = DividedBit(t[i], m[i + 1], w, poly, p)
    BY <1>1, <1>6, <1>7 DEF ShiftedBit, DividedBit
  <2> QED BY <1>2, <2>1, <2>2
<1>8. CASE p # w
  <2>1. p + 1 \in 1 .. w /\ i + (p + 1) = (i + 1) + p
    BY <1>8
  <2>2. r[p + 1] = IF (i + 1) + p <= lim THEN (IF t[i][p + 1] = m[(i + 1) + p] THEN 0 ELSE 1)
                   ELSE t[i][p + 1]
    BY <2>1 DEF Carried
  <2>3. CASE (i + 1) + p <= lim
    <3>1. m[(i + 1) + p] \in {0, 1}
      <4>1. (i + 1) + p \in 1 .. k
        BY <2>3
      <4> QED BY <1>5, <4>1
    <3>2. t[i][p + 1] \in {0, 1} /\ poly[p] \in {0, 1}
      BY <1>5, <2>1
    <3> QED BY <1>1, <1>2, <1>6, <1>8, <2>2, <2>3, <3>1, <3>2 DEF ShiftedBit, DividedBit
  <2>4. CASE ~((i + 1) + p <= lim)
    BY <1>1, <1>2, <1>6, <1>8, <2>2, <2>4 DEF ShiftedBit, DividedBit
  <2> QED BY <2>3, <2>4
<1> QED
  BY <1>7, <1>8

LEMMA CarriedWithAddByte ==
  ASSUME NEW w \in Nat \ {0}, NEW b \in 1 .. w, NEW poly \in Register(w),
         NEW k \in Nat, NEW m \in Register(k), NEW t, Remainders(t, m, k, w, poly),
         NEW i \in Nat, i + b <= k, NEW r \in Register(w), NEW u \in Register(b),
         ByteOf(u, b, m, i), Carried(r, t, m, w, i, i)
  PROVE  Carried(AddByte(r, u, poly), t, m, w, i + b, i + b)
<1> DEFINE x == Xor(r, u \o Zeros(Len(r) - Len(u)))
<1>1. x \in Register(w) /\ WithByte(x, r, u, b, w)
  BY ByteIntoRegister
<1>2. b \in Nat /\ Len(u) = b
  BY Registers
<1>3. AddByte(r, u, poly) = Shifted(x, b, poly)
  BY <1>2 DEF AddByte
<1> HIDE DEF x
<1>4. Carried(x, t, m, w, i + b, i)
  BY <1>1, CarriedWithByte
<1>5. PICK s \in [0 .. b -> Register(w)] : Shifts(s, x, b, poly)
  BY <1>1, <1>2, ShiftedRegisters
<1> DEFINE S == {j \in Nat : j <= b => Carried(s[j], t, m, w, i + b, i + j)}
<1>6. 0 \in S
  BY <1>4, <1>5 DEF Shifts
<1>7. ASSUME NEW j \in Nat, j \in S PROVE j + 1 \in S
  <2> SUFFICES ASSUME j + 1 <= b PROVE Carried(s[j + 1], t, m, w, i + b, i + (j + 1))
    OBVIOUS
  <2>1. j \in 0 .. b /\ j + 1 \in 1 .. b /\ (j + 1) - 1 = j
    OBVIOUS
  <2>2. Carried(s[j], t, m, w, i + b, i + j)
    BY <1>7, <2>1
  <2>3. s[j + 1] = ShiftOut(s[j], poly)
    BY <1>5, <2>1, Zenon DEF Shifts
  <2>4. /\ s[j] \in Register(w)
        /\ i + b \in Nat /\ i + j \in Nat /\ i + j < i + b /\ i + b <= (i + j) + w
        /\ (i + j) + 1 = i + (j + 1)
    BY <2>1
  <2>5. Carried(ShiftOut(s[j], poly), t, m, w, i + b, (i + j) + 1)
    BY <2>2, <2>4, CarriedWithShift
  <2> QED BY <2>3, <2>4, <2>5
<1> HIDE DEF S
<1>8. Nat \subseteq S
  BY <1>6, <1>7, SetInduction
<1>9. b \in S
  BY <1>2, <1>8
<1> QED
  BY <1>2, <1>3, <1>5, <1>9 DEF S, Shifts

\* frame_crc_compute is the remainder, for every message, polynomial and width.
LEMMA CrcIsTheRemainder ==
  ASSUME NEW w \in Nat \ {0}, NEW b \in 1 .. w, NEW poly \in Register(w),
         NEW n \in Nat, NEW u \in [1 .. n -> Register(b)], NEW m \in Register(n * b),
         BytesOf(u, n, b, m)
  PROVE  frame_crc_compute(u, poly) = Remainder(m, poly)
<1> PICK k : k = n * b
  OBVIOUS
<1>1. k \in Nat /\ b \in Nat /\ m \in Register(k)
  OBVIOUS
<1>2. PICK t : Remainders(t, m, k, w, poly)
  BY <1>1, RemaindersOfPrefixes
<1>3. PICK c \in [0 .. n -> Register(w)] : Crcs(c, u, n, w, poly)
  BY CrcRegisters
<1> DEFINE S == {j \in Nat : j <= n => Carried(c[j], t, m, w, j * b, j * b)}
<1>4. 0 \in S
  <2>1. 0 * b = 0
    BY <1>1
  <2>2. Carried(c[0], t, m, w, 0, 0)
    <3>1. \A p \in 1 .. w : ~(0 + p <= 0) /\ c[0][p] = t[0][p]
      BY <1>2, <1>3 DEF Crcs, Remainders
    <3> QED BY <3>1 DEF Carried
  <2> QED BY <2>1, <2>2
<1>5. ASSUME NEW j \in Nat, j \in S PROVE j + 1 \in S
  <2> SUFFICES ASSUME j + 1 <= n PROVE Carried(c[j + 1], t, m, w, (j + 1) * b, (j + 1) * b)
    OBVIOUS
  <2>1. j \in 0 .. n /\ j + 1 \in 1 .. n /\ (j + 1) - 1 = j
    OBVIOUS
  <2>2. j * b \in Nat /\ (j + 1) * b = j * b + b /\ (j + 1) * b <= k
    BY <1>1
  <2>3. Carried(c[j], t, m, w, j * b, j * b)
    BY <1>5, <2>1
  <2>4. c[j + 1] = AddByte(c[j], u[j + 1], poly)
    BY <1>3, <2>1, Zenon DEF Crcs
  <2>5. c[j] \in Register(w) /\ u[j + 1] \in Register(b)
    BY <2>1
  <2>6. ByteOf(u[j + 1], b, m, j * b)
    BY <2>1, Zenon DEF BytesOf
  <2> HIDE DEF S
  <2> PICK i : i = j * b
    OBVIOUS
  <2>7. /\ i \in Nat /\ i + b <= k /\ Carried(c[j], t, m, w, i, i)
        /\ ByteOf(u[j + 1], b, m, i)
    BY <2>2, <2>3, <2>6
  <2>8. Carried(AddByte(c[j], u[j + 1], poly), t, m, w, i + b, i + b)
    BY <1>1, <1>2, <2>5, <2>7, CarriedWithAddByte
  <2> QED BY <2>2, <2>4, <2>8
<1> HIDE DEF S
<1>6. Nat \subseteq S
  BY <1>4, <1>5, SetInduction
<1>7. Carried(c[n], t, m, w, k, k)
  BY <1>6 DEF S
<1>8. \A p \in 1 .. w : c[n][p] = t[k][p]
  BY <1>1, <1>7 DEF Carried
<1>9. c[n] \in Register(w) /\ t[k] \in Register(w)
  <2>1. n \in 0 .. n /\ k \in 0 .. k
    BY <1>1
  <2> QED BY <1>2, <2>1 DEF Remainders
<1>10. c[n] = t[k]
  BY <1>8, <1>9, SameRegister
<1> QED
  BY <1>2, <1>3, <1>10 DEF Crcs, Remainders

LEMMA CrcOfFirstBytes ==
  ASSUME NEW N \in Nat, NEW r \in Register(N), NEW c \in Nat, c * ByteBits <= N
  PROVE  frame_crc_compute(Bytes(r, 1, c), Poly) = Remainder(SubSeq(r, 1, c * ByteBits), Poly)
<1> DEFINE u == Bytes(r, 1, c)
          m == SubSeq(r, 1, c * ByteBits)
<1>1. /\ Width \in Nat \ {0} /\ ByteBits \in 1 .. Width /\ Poly \in Register(Width)
      /\ c * ByteBits \in Nat
  BY Sizes
<1>2. /\ u \in [1 .. c -> Register(ByteBits)]
      /\ \A j \in 1 .. c : \A p \in 1 .. ByteBits :
           /\ (j - 1) * ByteBits + p \in 1 .. c * ByteBits
           /\ u[j][p] = r[(j - 1) * ByteBits + p]
  BY FirstBytes
<1>3. m \in Register(c * ByteBits) /\ \A i \in 1 .. c * ByteBits : m[i] = r[i]
  <2> PICK k : k = c * ByteBits
    OBVIOUS
  <2>1. /\ k \in Nat /\ 1 \in 1 .. N + 1 /\ 1 + k <= N + 1 /\ 1 + k - 1 = k
        /\ \A i \in 1 .. k : 1 + i - 1 = i
    BY <1>1
  <2>2. /\ SubSeq(r, 1, 1 + k - 1) \in Register(k)
        /\ \A i \in 1 .. k : SubSeq(r, 1, 1 + k - 1)[i] = r[1 + i - 1]
    BY <2>1, Cut
  <2> QED BY <2>1, <2>2
<1> HIDE DEF u, m
<1>4. BytesOf(u, c, ByteBits, m)
  BY <1>2, <1>3 DEF ByteOf, BytesOf
<1>5. frame_crc_compute(u, Poly) = Remainder(m, Poly)
  BY <1>1, <1>2, <1>3, <1>4, CrcIsTheRemainder
<1> QED
  BY <1>5 DEF u, m

\* What FrameCheck computes for a frame is the remainder of its covered bits.
THEOREM CrcsAreRemainders == FrameSpec => []CrcIsRemainder
<1>1. FrameInv => CrcIsRemainder
  <2> SUFFICES ASSUME FrameInv
               PROVE  CrcOf(tx, NRows(tx)) =
                        Remainder(SubSeq(tx, 1, Covered(NRows(tx)) * ByteBits), Poly)
    BY DEF CrcIsRemainder
  <2> PICK n : n = NRows(tx)
    OBVIOUS
  <2>1. n \in 1 .. MaxRows /\ tx \in Register(BufferBits)
    BY DEF FrameInv, SentFrame
  <2>2. BufferBits \in Nat /\ Covered(n) \in Nat /\ Covered(n) * ByteBits <= BufferBits
    BY <2>1, Layout, Sizes DEF CoveredBits
  <2>3. frame_crc_compute(Bytes(tx, 1, Covered(n)), Poly)
          = Remainder(SubSeq(tx, 1, Covered(n) * ByteBits), Poly)
    BY <2>1, <2>2, CrcOfFirstBytes
  <2> QED BY <2>3 DEF CrcOf
<1> QED
  BY <1>1, FrameIsChecked, PTL
=============================================================================
