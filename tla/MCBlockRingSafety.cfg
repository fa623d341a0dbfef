CONSTANTS
  w1 = w1
  w2 = w2
  Words <- TwoWords
  Depth = 2
  MaxTries = 2
  PosMod = 16
  MaxBlock = 4
  MaxRestarts = 1
SPECIFICATION FairSpec
INVARIANTS
  TypeOK
  EveryPositionCounted
  WholeAndFresh
  DropsAreLosses
PROPERTY
  CursorCatchesUp
CHECK_DEADLOCK FALSE
