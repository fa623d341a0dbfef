------------------------------- MODULE Reload -------------------------------
(***************************************************************************)
(* How a configuration gets from the file into force on the Pi: the start  *)
(* of main, the watcher of the config file, the SPI and pin tiers of       *)
(* handle_reload, and the recovery of the bus in the main loop.  It uses   *)
(* the SPI link (SpiLink) and the spi.conf rewrite (SpiConf).  The STM     *)
(* tier is in MotorLink.                                                   *)
(*                                                                         *)
(* The controller is one thread; what happens between its steps are edits  *)
(* of the file, SIGHUP, failing hardware and the death of the process.  An *)
(* edit replaces the file as a whole and gives it a new mtime.             *)
(***************************************************************************)
EXTENDS Naturals, SpiLink, SpiConf

CONSTANTS
  Configs,         \* configurations a valid file can hold: SPI device, what it
                   \* is told, what spi.conf must say, data-ready pin
  Absent, Bad,     \* no file, and one that config_load_file rejects
  CONFIG_DEFAULTS, \* in force while no file could be loaded
  MaxOpenTries,    \* attempts to reopen the bus in a reload (5)
  MaxBadReads,     \* consecutive SPI errors before the bus is reset (3)
  EditsAnyTime,    \* the file may change while it is being loaded
  MaxEdits,        \* bound: edits of the file
  MaxCrashes       \* bound: deaths of the controller, other than by its own choice

ASSUME ReloadAssumption ==
  /\ \A c \in Configs \cup {CONFIG_DEFAULTS} :
       c.device \in Devices /\ {c.told, c.conf} \subseteq Settings
  /\ Absent \notin Configs /\ Bad \notin Configs
  /\ MaxOpenTries \in Nat \ {0} /\ MaxBadReads \in Nat \ {0}
  /\ EditsAnyTime \in BOOLEAN
  /\ MaxEdits \in Nat /\ MaxCrashes \in Nat

VARIABLES
  \* ---- the file
  file,            \* its configuration, Bad or Absent
  mtime,           \* changes with every edit
  \* ---- the controller
  pc,              \* where main is
  cfg,             \* the running configuration
  loaded_ok,       \* startup_loaded_ok
  next,            \* the configuration being applied
  tries,           \* attempts to reopen
  g_reload,        \* SIGHUP flag
  baseline,        \* mtime the watcher compares with, if it has one
  trigger_on_first,
  bad_read_count,
  \* ---- data-ready
  dr_pin,          \* dataready_t.pin
  armed,           \* pins whose edges the rpi_gpio server reports to us
  \* ---- history
  crashes,
  found            \* the driver that ran when this process started

watchVars == <<baseline, trigger_on_first>>
pinVars == <<dr_pin, armed>>
startVars == <<loaded_ok, crashes, found>>
vars == <<linkVars, confVars, file, mtime, pc, cfg, loaded_ok, next, tries, g_reload,
          baseline, trigger_on_first, bad_read_count, dr_pin, armed, crashes, found>>

NoBaseline == MaxEdits + 1

Pins == {c.pin : c \in Configs \cup {CONFIG_DEFAULTS}}

Init ==
  /\ LinkInit
  /\ ConfInit
  /\ file \in Configs \cup {Bad, Absent}
  /\ mtime = 0
  /\ pc = "down"
  /\ cfg = CONFIG_DEFAULTS
  /\ loaded_ok = FALSE
  /\ next = CONFIG_DEFAULTS
  /\ tries = 0
  /\ g_reload = FALSE
  /\ baseline = NoBaseline
  /\ trigger_on_first = FALSE
  /\ bad_read_count = 0
  /\ dr_pin = CONFIG_DEFAULTS.pin
  /\ armed = {}
  /\ crashes = 0
  /\ found = driver

-----------------------------------------------------------------------------
(* ENVIRONMENT                                                             *)

Edit(content) ==
  /\ mtime < MaxEdits
  /\ EditsAnyTime \/ pc \in {"loop", "down"}
  /\ file' = content
  /\ mtime' = mtime + 1
  /\ UNCHANGED <<linkVars, confVars, pc, cfg, next, tries, g_reload, watchVars,
                 bad_read_count, pinVars, startVars>>

\* SIGHUP between config_install_sighup and the SIG_IGN before the loop; in
\* the loop it is ignored.
Hup ==
  /\ pc \in {"conf", "open", "arm", "watch"}
  /\ g_reload' = TRUE
  /\ UNCHANGED <<linkVars, confVars, file, mtime, pc, cfg, next, tries, watchVars,
                 bad_read_count, pinVars, startVars>>

\* The process is gone, and with it everything it had open or registered.
Gone ==
  /\ pc' = "down"
  /\ step' = "idle"
  /\ fd' = [d \in Devices |-> FALSE]
  /\ spi' = NotConfigured
  /\ armed' = {}
  /\ UNCHANGED <<setting, conf, driver, file, mtime, cfg, next, tries, g_reload,
                 watchVars, bad_read_count, dr_pin, loaded_ok>>

Crash ==
  /\ pc # "down" /\ crashes < MaxCrashes
  /\ crashes' = crashes + 1
  /\ Gone
  /\ UNCHANGED found

-----------------------------------------------------------------------------
(* START of main                                                           *)

Start ==
  /\ pc = "down"
  /\ pc' = "load"
  /\ found' = driver
  /\ g_reload' = FALSE
  /\ baseline' = NoBaseline
  /\ trigger_on_first' = FALSE
  /\ bad_read_count' = 0
  /\ UNCHANGED <<linkVars, confVars, file, mtime, cfg, next, tries, pinVars,
                 loaded_ok, crashes>>

\* config_load_file: every field of the file is in range, or the whole file is
\* rejected.
Loadable == file \in Configs

\* The start goes on with the defaults if there is nothing to load.
Load ==
  /\ pc = "load"
  /\ loaded_ok' = Loadable
  /\ cfg' = IF Loadable THEN file ELSE CONFIG_DEFAULTS
  /\ pc' = "conf"
  /\ ApplyConf
  /\ UNCHANGED <<linkVars, file, mtime, next, tries, g_reload, watchVars,
                 bad_read_count, pinVars, crashes, found>>

\* spi_apply_conf runs; its result is not looked at.
ConfStep ==
  /\ pc = "conf"
  /\ \/ Applying(cfg.conf) /\ UNCHANGED pc
     \/ step = "done" /\ step' = "idle" /\ pc' = "open" /\ UNCHANGED <<conf, driver>>
  /\ UNCHANGED <<linkVars, file, mtime, cfg, next, tries, g_reload, watchVars,
                 bad_read_count, pinVars, startVars>>

\* open_spi; main returns if it fails.
OpenAtStart ==
  /\ pc = "open"
  /\ \/ /\ driver # Down
        /\ OpenSpi(cfg)
        /\ pc' = "arm"
        /\ UNCHANGED <<confVars, file, mtime, cfg, next, tries, g_reload, watchVars,
                       bad_read_count, pinVars, startVars>>
     \/ Gone /\ UNCHANGED <<crashes, found>>

\* dataready_setup; main returns if it fails.
ArmAtStart ==
  /\ pc = "arm"
  /\ \/ /\ dr_pin' = cfg.pin
        /\ armed' = {cfg.pin}
        /\ pc' = "watch"
        /\ UNCHANGED <<linkVars, confVars, file, mtime, cfg, next, tries, g_reload,
                       watchVars, bad_read_count, startVars>>
     \/ Gone /\ UNCHANGED <<crashes, found>>

\* cfg_stat, and cfg_watch_sync: the file on disk becomes the baseline.
Synced == IF file = Absent THEN baseline ELSE mtime

\* The watcher starts from the file as it is, or, on defaults, waits for one.
WatchAtStart ==
  /\ pc = "watch"
  /\ pc' = "loop"
  /\ IF loaded_ok THEN baseline' = Synced /\ UNCHANGED trigger_on_first
                  ELSE trigger_on_first' = TRUE /\ UNCHANGED baseline
  /\ UNCHANGED <<linkVars, confVars, file, mtime, cfg, next, tries, g_reload,
                 bad_read_count, pinVars, startVars>>

Startup == Start \/ Load \/ ConfStep \/ OpenAtStart \/ ArmAtStart \/ WatchAtStart

-----------------------------------------------------------------------------
(* MAIN LOOP: is a reload due?                                             *)

\* Fault: the first sight of the file only sets the baseline.
FiredNotFirst ==
  /\ file # Absent
  /\ baseline # NoBaseline /\ baseline # mtime

\* What cfg_watch_fired returns when it looks at the file.
Fired ==
  /\ file # Absent
  /\ IF baseline = NoBaseline THEN trigger_on_first ELSE baseline # mtime

\* The check at the top of the loop, in a second in which the file is looked at;
\* the first pass is in one, so that no flag is left for the others.
Poll ==
  /\ pc = "loop"
  /\ baseline' = Synced
  /\ trigger_on_first' = (trigger_on_first /\ ~(Fired /\ baseline = NoBaseline))
  /\ g_reload' = FALSE
  /\ pc' = IF Fired \/ g_reload THEN "reload" ELSE "loop"
  /\ UNCHANGED <<linkVars, confVars, file, mtime, cfg, next, tries, bad_read_count,
                 pinVars, startVars>>

-----------------------------------------------------------------------------
(* MAIN LOOP: handle_reload                                                *)

\* config_spi_wire_differs
WireDiffers ==
  \/ next'.device # cfg.device
  \/ next'.told # cfg.told
  \/ next'.conf # cfg.conf

\* A file that cannot be loaded ends the reload, and keeps what is running.
LoadNext ==
  /\ pc = "reload"
  /\ IF Loadable
       THEN next' = file /\ pc' = IF WireDiffers THEN "close" ELSE "pin"
       ELSE pc' = "loop" /\ UNCHANGED next
  /\ UNCHANGED <<linkVars, confVars, file, mtime, cfg, tries, g_reload, watchVars,
                 bad_read_count, pinVars, startVars>>

CloseForReload ==
  /\ pc = "close"
  /\ CloseSpi
  /\ tries' = 0
  /\ pc' = "reopen"
  /\ UNCHANGED <<confVars, file, mtime, cfg, next, g_reload, watchVars,
                 bad_read_count, pinVars, startVars>>

\* Fault: one attempt too many.
SpentOneMore(n) == n > MaxOpenTries

\* ++tries >= 5
Spent(n) == n >= MaxOpenTries

\* Fault: the bus is reopened as it was.
ReopenOld ==
  /\ pc = "reopen"
  /\ \/ driver # Down /\ OpenSpi(cfg) /\ pc' = "pin" /\ UNCHANGED tries
     \/ /\ OpenSpiFails(cfg)
        /\ tries' = tries + 1
        /\ pc' = IF Spent(tries') THEN "pin" ELSE "reopen"
  /\ UNCHANGED <<confVars, file, mtime, cfg, next, g_reload, watchVars,
                 bad_read_count, pinVars, startVars>>

\* while (open_spi(...) != 0): after the last attempt the reload goes on.
Reopen ==
  /\ pc = "reopen"
  /\ \/ driver # Down /\ OpenSpi(next) /\ pc' = "pin" /\ UNCHANGED tries
     \/ /\ OpenSpiFails(next)
        /\ tries' = tries + 1
        /\ pc' = IF Spent(tries') THEN "pin" ELSE "reopen"
  /\ UNCHANGED <<confVars, file, mtime, cfg, next, g_reload, watchVars,
                 bad_read_count, pinVars, startVars>>

\* dataready_repoint, if the pin is another one: d->pin is set before anything
\* can fail, and the old registration is left in place.  Then cfg.pi = next.pi.
PinAndAdopt ==
  /\ pc = "pin"
  /\ dr_pin' = IF next.pin # cfg.pin THEN next.pin ELSE dr_pin
  /\ armed' \in IF next.pin # cfg.pin THEN {armed, armed \cup {next.pin}} ELSE {armed}
  /\ cfg' = next
  /\ pc' = "sync"
  /\ UNCHANGED <<linkVars, confVars, file, mtime, next, tries, g_reload, watchVars,
                 bad_read_count, startVars>>

\* handle_reload returned 0: cfg_watch_sync
SyncAfterReload ==
  /\ pc = "sync"
  /\ pc' = "loop"
  /\ baseline' = Synced
  /\ UNCHANGED <<linkVars, confVars, file, mtime, cfg, next, tries, g_reload,
                 trigger_on_first, bad_read_count, pinVars, startVars>>

HandleReload == LoadNext \/ CloseForReload \/ Reopen \/ PinAndAdopt \/ SyncAfterReload

-----------------------------------------------------------------------------
(* MAIN LOOP: the SPI exchange                                             *)

ExchangeOK ==
  /\ pc = "loop" /\ driver # Down
  /\ Transfer(cfg.device)
  /\ bad_read_count' = 0
  /\ UNCHANGED <<confVars, file, mtime, pc, cfg, next, tries, g_reload, watchVars,
                 pinVars, startVars>>

\* A failed exchange is counted, unless errno happens to say EINTR; the last of
\* MaxBadReads in a row resets the bus.
ExchangeFails ==
  /\ pc = "loop"
  /\ TransferFails(cfg.device)
  /\ bad_read_count' \in {bad_read_count, bad_read_count + 1}
  /\ pc' = IF bad_read_count' >= MaxBadReads THEN "reset" ELSE "loop"
  /\ UNCHANGED <<confVars, file, mtime, cfg, next, tries, g_reload, watchVars,
                 pinVars, startVars>>

CloseForReset ==
  /\ pc = "reset"
  /\ CloseSpi
  /\ bad_read_count' = 0
  /\ pc' = "reset_open"
  /\ UNCHANGED <<confVars, file, mtime, cfg, next, tries, g_reload, watchVars,
                 pinVars, startVars>>

\* One attempt, with the running configuration.
ReopenForReset ==
  /\ pc = "reset_open"
  /\ (driver # Down /\ OpenSpi(cfg)) \/ OpenSpiFails(cfg)
  /\ pc' = "loop"
  /\ UNCHANGED <<confVars, file, mtime, cfg, next, tries, g_reload, watchVars,
                 bad_read_count, pinVars, startVars>>

Exchange == ExchangeOK \/ ExchangeFails \/ CloseForReset \/ ReopenForReset

-----------------------------------------------------------------------------
Environment ==
  \/ \E content \in Configs \cup {Bad, Absent} : Edit(content)
  \/ Hup
  \/ Crash

Next == Environment \/ Startup \/ Poll \/ HandleReload \/ Exchange

Spec == Init /\ [][Next]_vars

\* The thread keeps running, and passes the top of the loop, where it looks at
\* the file, between any two exchanges and resets of the bus.  That the bus
\* cannot be opened is not excluded, nor that main returns.
FairSpec ==
  /\ Spec
  /\ WF_vars(Load \/ ConfStep \/ OpenAtStart \/ ArmAtStart \/ WatchAtStart)
  /\ SF_vars(Poll)
  /\ WF_vars(HandleReload)
  /\ WF_vars(CloseForReset \/ ReopenForReset)

-----------------------------------------------------------------------------
(* PROPERTIES                                                              *)

PCs == {"down", "load", "conf", "open", "arm", "watch", "loop", "reload", "close",
        "reopen", "pin", "sync", "reset", "reset_open"}

\* Every variable keeps its type, and the error count never passes its limit.
TypeOK ==
  /\ LinkTypeOK
  /\ ConfTypeOK
  /\ file \in Configs \cup {Bad, Absent}
  /\ mtime \in 0 .. MaxEdits
  /\ pc \in PCs
  /\ cfg \in Configs \cup {CONFIG_DEFAULTS}
  /\ next \in Configs \cup {CONFIG_DEFAULTS}
  /\ tries \in 0 .. MaxOpenTries
  /\ {loaded_ok, g_reload, trigger_on_first} \subseteq BOOLEAN
  /\ baseline \in 0 .. NoBaseline
  /\ bad_read_count \in 0 .. MaxBadReads
  /\ dr_pin \in Pins
  /\ armed \subseteq Pins
  /\ crashes \in 0 .. MaxCrashes
  /\ found \in Settings \cup {Down}

\* Whenever the loop runs with the bus configured, it is the device of the
\* running configuration, open, and told that configuration's settings: the
\* exchange, which takes its device from cfg, and spi_link_t mean the same one,
\* whatever failed in the reloads and resets before.
LinkMatchesCfg ==
  pc = "loop" /\ spi # NotConfigured =>
    spi = cfg.device /\ fd[spi] /\ setting[spi] = cfg.told

\* The driver is touched for one reason only, that spi.conf was brought to what
\* the configuration wants ("If nothing differs, do nothing", config.c:344), and
\* only with one outcome: if it is not the one this process found, it runs what
\* spi.conf says, or nothing.  Not more can be said: a bounce that was cut short
\* or did not take leaves the old driver beside the new file, for good.
BouncedForConf ==
  driver # found =>
    /\ driver \in {conf, Down}
    /\ pc \in {"conf", "open", "arm", "watch"} => conf = cfg.conf

\* With the watcher on, a valid file that is not changed any more is loaded:
\* after rejected and missing files, starts on defaults, failing reloads.
FileIsLoaded ==
  mtime = MaxEdits /\ Loadable /\ pc = "loop" ~> cfg = file \/ pc = "down"
=============================================================================
