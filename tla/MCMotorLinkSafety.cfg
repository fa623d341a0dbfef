CONSTANTS
  Payloads <- TwoSizes
  BootPayload <- Boot
  CMD_MAX_RETRIES = 2
  FrameSeqMod = 4
  MaxReloads = 3
  MaxRestarts = 0
SPECIFICATION Spec
INVARIANTS
  TypeOK
  AckedIsRunning
PROPERTIES
  ImplementsSetConfig
