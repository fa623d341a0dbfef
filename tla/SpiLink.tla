------------------------------ MODULE SpiLink ------------------------------
(***************************************************************************)
(* The controller's hold on the SPI device: the descriptor table of        *)
(* rpi_spi.c and the spi_link_t of motor_controller.c above it.            *)
(*                                                                         *)
(* rpi_spi addresses a device by (bus, dev) and opens it on the first use, *)
(* whoever uses it; spi_link_t remembers which one the controller has      *)
(* configured.  The two are kept apart because each call of the table can  *)
(* fail on its own.                                                        *)
(*                                                                         *)
(* What follows are the operations; the components that call them say      *)
(* when.  A transfer or a configuration needs the driver; the caller adds  *)
(* that.                                                                   *)
(***************************************************************************)
EXTENDS SpiSettings

CONSTANTS
  Devices,         \* the (bus, dev) pairs in range of the table
  NotConfigured    \* spi_link_t.configured = false

ASSUME LinkAssumption == NotConfigured \notin Devices

VARIABLES
  fd,              \* spi_device_fd[d] # -1
  setting,         \* what the driver was last told for d (DCMD_SPI_SET_CONFIG)
  spi              \* the device spi_link_t holds configured, if any

linkVars == <<fd, setting, spi>>

\* The initialised table; spi_link_t spi = { .configured = false }.
LinkInit ==
  /\ fd = [d \in Devices |-> FALSE]
  /\ setting = [d \in Devices |-> Unset]
  /\ spi = NotConfigured

\* open_spi_device_fd: a device that is not open yet is opened, or stays closed
\* when open fails.
Opened(d) == fd' = [fd EXCEPT ![d] = TRUE]
OpenFailed(d) == ~fd[d] /\ UNCHANGED fd

\* open_spi, with rpi_spi_configure_device
OpenSpi(pi) ==
  /\ Opened(pi.device)
  /\ setting' = [setting EXCEPT ![pi.device] = pi.told]
  /\ spi' = pi.device

\* open_spi fails: at open, or at the devctl, which leaves the device open.
OpenSpiFails(pi) ==
  /\ Opened(pi.device) \/ OpenFailed(pi.device)
  /\ spi' = NotConfigured
  /\ UNCHANGED setting

\* close_spi, with rpi_spi_cleanup_device.  When close fails the table keeps
\* the descriptor, and the link forgets it all the same.
CloseSpi ==
  /\ spi' = NotConfigured
  /\ UNCHANGED setting
  /\ \/ spi = NotConfigured /\ UNCHANGED fd
     \/ spi # NotConfigured /\ fd' \in {fd, [fd EXCEPT ![spi] = FALSE]}

\* rpi_spi_write_read_data: opens the device if need be, and asks nobody
\* whether it was configured.
Transfer(d) ==
  /\ Opened(d)
  /\ UNCHANGED <<setting, spi>>

TransferFails(d) ==
  /\ Opened(d) \/ OpenFailed(d)
  /\ UNCHANGED <<setting, spi>>

LinkTypeOK ==
  /\ fd \in [Devices -> BOOLEAN]
  /\ setting \in [Devices -> Settings \cup {Unset}]
  /\ spi \in Devices \cup {NotConfigured}

=============================================================================
