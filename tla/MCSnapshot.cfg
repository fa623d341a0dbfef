CONSTANTS
  w1 = w1
  w2 = w2
  r1 = r1
  Words <- TwoWords
  Readers <- OneReader
  MaxTries = 3
  MaxRow = 4
  MaxRestarts = 2
SPECIFICATION FairSpec
INVARIANTS
  TypeOK
  NoTornRead
PROPERTIES
  ImplementsAtomicSnapshot
  ReadReturns
