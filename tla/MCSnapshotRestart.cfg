CONSTANTS
  w1 = w1
  w2 = w2
  r1 = r1
  Words <- TwoWords
  Readers <- OneReader
  MaxTries = 2
  MaxRow = 3
  MaxRestarts = 1
SPECIFICATION Spec
INVARIANT ConsistentSnapshot
