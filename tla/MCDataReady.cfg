CONSTANTS
  Pins = {A, B}
  DR_MISS_LIMIT = 2
  IntMax = 3
  MaxFrames = 2
  MaxStarts = 2
  MaxReloads = 1
  MaxPlugs = 1
  MaxNoise = 1
SPECIFICATION FairSpec
INVARIANTS
  TypeOK
  PulsesExplained
PROPERTIES
  FrameIsRead
CHECK_DEADLOCK FALSE
