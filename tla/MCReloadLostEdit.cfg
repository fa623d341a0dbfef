CONSTANTS
  d1 = d1
  d2 = d2
  slow = slow
  fast = fast
  p1 = p1
  p2 = p2
  Devices <- TwoDevices
  Settings <- TwoSettings
  NotConfigured = none
  Unset = unset
  Down = down
  Absent = absent
  Bad = bad
  Configs <- TwoConfigs
  CONFIG_DEFAULTS <- Defaults
  MaxOpenTries = 2
  MaxBadReads = 2
  EditsAnyTime = TRUE
  MaxEdits = 2
  MaxCrashes = 1
SPECIFICATION FairSpec
PROPERTY FileIsLoaded
