----------------------------- MODULE FrameCheck -----------------------------
(***************************************************************************)
(* A data frame on the wire (motor_wire.h) and its validation in the main  *)
(* loop of motor_controller.c, bit by bit and for small sizes: what a      *)
(* burst of errors can do to a frame that the controller accepts.          *)
(*                                                                         *)
(* The exchange always moves the largest frame; what follows a shorter one *)
(* is left over in the STM32's buffer.  The header is reduced to one byte  *)
(* each for magic and version, flags, and n_rows, in the wire's order.     *)
(* The CRC is copied to and from the wire as a uint32_t of a little-endian *)
(* processor: its lowest byte comes first.                                 *)
(***************************************************************************)
EXTENDS Crc32

CONSTANTS
  ByteBits,      \* bits of a byte (8)
  Poly,          \* the polynomial (0x04C11DB7), as wide as the CRC (32)
  RowBytes,      \* sizeof(motor_row_t) (24)
  MaxRows,       \* MOTOR_MAX_ROWS_PER_BLOCK (200)
  Magic,         \* the byte that stands for magic and version
  LeftOver       \* what may be left over in the STM32's buffer

VARIABLES
  stage,         \* of the frame: "none", "sent", "received", "checked"
  tx,            \* the bits the STM32 sends
  rx,            \* the bits the controller receives
  block_rows,    \* active_stm.block_rows; 0 while it is unknown
  frame_valid

frameVars == <<stage, tx, rx, block_rows, frame_valid>>

Width == Len(Poly)
HeaderBytes == 3
CrcBytes == Width \div ByteBits
Covered(n) == HeaderBytes + n * RowBytes
XferBytes == Covered(MaxRows) + CrcBytes

ASSUME FrameAssumption ==
  /\ {ByteBits, RowBytes, MaxRows} \subseteq Nat \ {0}
  /\ Poly \in Seq({0, 1}) /\ Poly # <<>>
  /\ Width % ByteBits = 0 /\ Poly[Width] = 1
  /\ Magic \in [1 .. ByteBits -> {0, 1}]
  /\ LeftOver \subseteq [1 .. XferBytes * ByteBits -> {0, 1}]

\* Bytes from .. to of a buffer, and the number in a byte.
Bytes(buffer, from, to) ==
  [i \in 1 .. to - from + 1 |->
     SubSeq(buffer, (from + i - 2) * ByteBits + 1, (from + i - 1) * ByteBits)]
Number(byte) ==
  LET value[i \in 0 .. ByteBits] == IF i = 0 THEN 0 ELSE 2 * value[i - 1] + byte[i]
  IN  value[ByteBits]

\* The copy between a register and the wire: the bytes in the opposite order.
Memcpy(bits) ==
  [i \in 1 .. Width |->
     bits[Width - ((i - 1) \div ByteBits + 1) * ByteBits + ((i - 1) % ByteBits) + 1]]

\* Fields of a buffer.
HasMagic(buffer) == Bytes(buffer, 1, 1)[1] = Magic
ConfigApplied(buffer) == Bytes(buffer, 2, 2)[1][ByteBits] = 1
NRows(buffer) == Number(Bytes(buffer, 3, 3)[1])

\* Fault: the first byte of the header is left out.
CrcOfRest(buffer, n) == frame_crc_compute(Bytes(buffer, 2, Covered(n)), Poly)

\* The CRC over the header and n rows, and the field that follows them.
CrcOf(buffer, n) == frame_crc_compute(Bytes(buffer, 1, Covered(n)), Poly)
CrcField(buffer, n) ==
  Memcpy(SubSeq(buffer, Covered(n) * ByteBits + 1, Covered(n) * ByteBits + Width))

\* The frame in a buffer, without what follows it.
Frame(buffer) == SubSeq(buffer, 1, (Covered(NRows(buffer)) + CrcBytes) * ByteBits)

\* What the STM32 sends: a frame, and what is left over behind it.
Sent(flags, n_rows, rows, fill) ==
  LET body  == Magic \o flags \o n_rows \o rows
      frame == body \o Memcpy(frame_crc_compute(Bytes(body, 1, Covered(Number(n_rows))), Poly))
  IN  [i \in 1 .. XferBytes * ByteBits |-> IF i <= Len(frame) THEN frame[i] ELSE fill[i]]

FrameInit ==
  /\ stage = "sent"
  /\ \E flags, n_rows \in [1 .. ByteBits -> {0, 1}], fill \in LeftOver :
       /\ Number(n_rows) \in 1 .. MaxRows
       /\ \E rows \in [1 .. Number(n_rows) * RowBytes * ByteBits -> {0, 1}] :
            tx = Sent(flags, n_rows, rows, fill)
  /\ rx = tx
  /\ block_rows = 0 /\ frame_valid = FALSE

FrameIdle ==
  stage = "none" /\ tx = <<>> /\ rx = <<>> /\ block_rows = 0 /\ frame_valid = FALSE

\* A burst: it flips its first and its last bit, and any bits in between.
Burst(first, last, inner) ==
  [i \in DOMAIN tx |-> IF i \in {first, last} \cup inner THEN 1 - tx[i] ELSE tx[i]]

Transfer ==
  /\ stage = "sent" /\ stage' = "received"
  /\ \/ rx' = tx
     \/ \E first \in DOMAIN tx :
          \E last \in first .. first + Width - 1 :
            /\ last \in DOMAIN tx
            /\ \E inner \in SUBSET (first + 1 .. last - 1) : rx' = Burst(first, last, inner)
  /\ UNCHANGED <<tx, block_rows, frame_valid>>

\* Fault: any size will do.
SizeAny(buffer, rows) == TRUE

\* The number of rows is the one in force, unless that is unknown or the frame
\* says that it has just been changed.
SizeExpected(buffer, rows) ==
  rows = 0 \/ NRows(buffer) = rows \/ ConfigApplied(buffer)

\* The validation, up to the CRC.
Validate ==
  /\ stage = "received" /\ stage' = "checked"
  /\ block_rows' \in 0 .. MaxRows
  /\ frame_valid' =
       /\ HasMagic(rx)
       /\ NRows(rx) \in 1 .. MaxRows
       /\ SizeExpected(rx, block_rows')
       /\ Covered(NRows(rx)) + CrcBytes <= XferBytes
       /\ CrcOf(rx, NRows(rx)) = CrcField(rx, NRows(rx))
  /\ UNCHANGED <<tx, rx>>

FrameNext == Transfer \/ Validate

FrameSpec == FrameInit /\ [][FrameNext]_frameVars

-----------------------------------------------------------------------------
(* PROPERTIES                                                              *)

\* frame_crc_compute is the remainder that CRC-32/MPEG-2 is defined as.
CrcIsRemainder ==
  stage = "sent" =>
    CrcOf(tx, NRows(tx)) =
      Remainder(SubSeq(tx, 1, Covered(NRows(tx)) * ByteBits), Poly)

\* The frame has errors in its bits from .. to.
Hit(from, to) == \E i \in from .. to : rx[i] # tx[i]

\* A frame hit by one burst no longer than the CRC is never published for
\* another one, although its own n_rows says where its CRC is: where the size is
\* known, n_rows is checked against it first.  What is left is a burst that
\* changes n_rows while the size is not known, is about to change, or is said to
\* change by a flag in the same burst; and one that reaches both the last row and
\* the CRC, which is not one burst to a CRC whose bytes go out in the other order.
BurstRejected ==
  stage = "checked" /\ frame_valid =>
    \/ Frame(rx) = Frame(tx)
    \/ /\ NRows(rx) # NRows(tx)
       /\ block_rows # NRows(tx) \/ ConfigApplied(rx)
    \/ LET covered == Covered(NRows(tx)) * ByteBits
       IN  /\ NRows(rx) = NRows(tx)
           /\ Hit(1, covered) /\ Hit(covered + 1, covered + Width)
=============================================================================
