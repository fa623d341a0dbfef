------------------------------- MODULE Crc32 -------------------------------
(***************************************************************************)
(* CRC-32/MPEG-2 as motor_controller.c computes it, byte by byte, for any  *)
(* width and polynomial, and what it computes: a remainder of polynomials  *)
(* over the field of two elements.  Bits are 0 and 1, the highest first;   *)
(* a byte and the register are sequences of bits.                          *)
(***************************************************************************)
EXTENDS Integers, Sequences, FiniteSets

Zeros(n) == [i \in 1 .. n |-> 0]
Ones(n) == [i \in 1 .. n |-> 1]

Xor(u, v) == [i \in DOMAIN u |-> (u[i] + v[i]) % 2]

ShiftLeft(r) == Append(Tail(r), 0)

\* The inner loop's step, and the register after k of them.
ShiftOut(crc, poly) ==
  IF crc[1] = 1 THEN Xor(ShiftLeft(crc), poly) ELSE ShiftLeft(crc)
Shifted(crc, k, poly) ==
  LET shifted[i \in 0 .. k] == IF i = 0 THEN crc ELSE ShiftOut(shifted[i - 1], poly)
  IN  shifted[k]

\* The outer loop's step: the byte goes into the top of the register.
AddByte(crc, byte, poly) ==
  Shifted(Xor(crc, byte \o Zeros(Len(crc) - Len(byte))), Len(byte), poly)

frame_crc_compute(bytes, poly) ==
  LET crc[n \in 0 .. Len(bytes)] ==
        IF n = 0 THEN Ones(Len(poly)) ELSE AddByte(crc[n - 1], bytes[n], poly)
  IN  crc[Len(bytes)]

-----------------------------------------------------------------------------
\* x^n modulo x^Len(poly) + poly.
PowerOfX(n, poly) ==
  LET w == Len(poly)
      power[k \in Nat] ==
        IF k < w THEN [i \in 1 .. w |-> IF i = w - k THEN 1 ELSE 0]
        ELSE LET r == power[k - 1]
             IN  [i \in 1 .. w |-> ((IF i = w THEN 0 ELSE r[i + 1]) + r[1] * poly[i]) % 2]
  IN  power[n]

\* The remainder of m * x^w + ones * x^k for a message m of k bits, as the sum
\* of the powers in it.
Remainder(bits, poly) ==
  LET w == Len(poly)
      k == Len(bits)
      message == {w + k - i : i \in {j \in DOMAIN bits : bits[j] = 1}}
      initial == {k + j : j \in 0 .. w - 1}
      once    == (message \ initial) \cup (initial \ message)
  IN  [i \in 1 .. w |-> Cardinality({n \in once : PowerOfX(n, poly)[i] = 1}) % 2]
=============================================================================
