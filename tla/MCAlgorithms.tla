---------------------------- MODULE MCAlgorithms ----------------------------
(* Inputs for the run of the two algorithms, FrameCheck and JsonString; one *)
(* of them runs, the other is idle.                                         *)
EXTENDS FrameCheck, StringMeaning, SequencesExt

\* x^4 + x + 1 over bytes of two bits.
SmallPoly == <<0, 0, 1, 1>>
SmallMagic == <<0, 1>>
ZerosOrOnes == {[i \in 1 .. XferBytes * ByteBits |-> b] : b \in {0, 1}}

\* The polynomial of the code and the catalogue's check value, the CRC of the
\* nine characters "123456789", 0x0376E6E7.
Bits(n, width) == [i \in 1 .. width |-> (n \div 2 ^ (width - i)) % 2]
MpegPoly == Bits(1217, 16) \o Bits(7607, 16)         \* 0x04C1 1DB7
ASSUME CheckValue ==
  frame_crc_compute([i \in 1 .. 9 |-> Bits(48 + i, 8)], MpegPoly)
    = Bits(886, 16) \o Bits(59111, 16)               \* 0x0376 E6E7

\* At full size too, a burst that reaches from the rows into the CRC may go
\* undetected: to change the last bit before the CRC changes the CRC by the
\* polynomial itself, whose bytes on the wire, B7 1D C1 04, are 31 bits wide with
\* that bit.
ASSUME BurstIntoCrc ==
  Xor(frame_crc_compute(<<Bits(64, 8)>>, MpegPoly), frame_crc_compute(<<Bits(65, 8)>>, MpegPoly))
    = MpegPoly

-----------------------------------------------------------------------------
\* The bytes of \u and a number of four digits.
Hex(n) == LET d(k) == LET x == (n \div k) % 16 IN IF x < 10 THEN 48 + x ELSE 55 + x
          IN  <<92, 117, d(4096), d(256), d(16), d(1)>>

\* Pieces of a literal: the code points at which the encoding and the surrogates
\* begin and end, escapes good and bad, and numbers that are cut off or none.
Pieces ==
  {Hex(n) : n \in {0, 127, 128, 2047, 2048, 55295, 55296, 56319, 56320, 57343, 57344, 65535}}
  \cup {<<97>>, <<92, 110>>, <<92, 92>>, <<92, 34>>, <<92, 120>>, <<34>>,
        <<195, 169>>, <<240, 159, 152, 128>>, <<92, 117, 49, 50>>, <<92, 117, 49, 50, 51, 92, 92>>, <<92, 117, 100, 56, 48, 48>>}

UpTo3 == {FlattenSeq(p) : p \in UNION {[1 .. n -> Pieces] : n \in 0 .. 3}}

\* Closed by a quote, or running into the terminator, or a backslash before it.
Texts == {<<34>> \o t \o e : t \in UpTo3, e \in {<<34>>, <<>>, <<92>>}}

-----------------------------------------------------------------------------
Init ==
  \/ FrameInit /\ StringIdle
  \/ FrameIdle /\ StringInit

Next ==
  \/ FrameNext /\ UNCHANGED stringVars
  \/ StringNext /\ UNCHANGED frameVars

Spec == Init /\ [][Next]_<<frameVars, stringVars>>
=============================================================================
