---------------------------- MODULE SpiSettings ----------------------------
(* What the SPI fields of pi_config_t can be: those a device is told (mode *)
(* and clock), taken together, and those spi.conf holds (clock, cpha, word *)
(* width, idle insertion), taken together.                                 *)
CONSTANTS
  Settings,        \* the combinations in use
  Unset            \* no setting: spi.conf without a key, a device never told

ASSUME SettingsAssumption == Unset \notin Settings

=============================================================================
