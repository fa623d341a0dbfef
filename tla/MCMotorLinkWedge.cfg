CONSTANTS
  Payloads <- TwoSizes
  BootPayload <- Boot
  CMD_MAX_RETRIES = 2
  FrameSeqMod = 4
  MaxReloads = 2
  MaxRestarts = 0
SPECIFICATION FairSpec
PROPERTY CommandResolves
