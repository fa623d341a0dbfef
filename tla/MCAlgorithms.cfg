CONSTANTS
  ByteBits = 2
  Poly <- SmallPoly
  RowBytes = 2
  MaxRows = 2
  Magic <- SmallMagic
  LeftOver <- ZerosOrOnes
  Literals <- Texts
SPECIFICATION Spec
INVARIANTS
  CrcIsRemainder
  BurstRejected
  OutputFits
  ReadsWithinLiteral
  DecodesLiteral
CHECK_DEADLOCK FALSE
