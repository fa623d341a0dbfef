CONSTANTS
  Payloads <- OneSize
  BootPayload <- Boot
  CMD_MAX_RETRIES = 2
  FrameSeqMod = 6
  MaxReloads = 1
  MaxRestarts = 1
SPECIFICATION FairSpec
PROPERTIES
  CommandResolves
  AccountingExact
