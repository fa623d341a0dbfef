---------------------------- MODULE ReloadProofs ----------------------------
(***************************************************************************)
(* Proofs about Reload, for every set of devices, settings and             *)
(* configurations and all bounds: whenever the main loop runs, the bus is  *)
(* the one of the running configuration, or none, and a driver that is not *)
(* the one the process found runs what spi.conf says.                      *)
(*                                                                         *)
(* Both owe their truth to what holds at the other points of main: which   *)
(* configuration the link belongs to in a start, a reload and a reset, and *)
(* from which step on the driver may be another one.                       *)
(***************************************************************************)
EXTENDS Reload, Integers, TLAPS

-----------------------------------------------------------------------------
(* THE INDUCTIVE INVARIANT                                                 *)

\* The counters are below their limits while more is to be counted.
TypeInv ==
  /\ TypeOK
  /\ pc = "reopen" => tries < MaxOpenTries
  /\ pc \notin {"reset", "down"} => bad_read_count < MaxBadReads

\* What the link holds, if anything, is open, and the device and the settings
\* of configuration c.
Holds(c) ==
  spi # NotConfigured => spi = c.device /\ fd[spi] /\ setting[spi] = c.told

\* The configuration the link belongs to: none before the bus is opened and
\* between a close and the next open; the next one once a reload has reopened
\* it, or has seen that it need not; the running one otherwise.
LinkInv ==
  /\ pc \in {"down", "load", "conf", "open", "reopen", "reset_open"} => spi = NotConfigured
  /\ pc = "pin" => Holds(next)
  /\ pc \in {"arm", "watch", "loop", "reload", "close", "sync", "reset"} => Holds(cfg)

\* A bounce is due.
Bouncing == step \in {"slay", "respawn"}

\* spi.conf is what it is brought to for configuration c.
BroughtTo(c) == conf = c.conf

\* Until the bounce the driver is the one that was found.  The bounce comes after
\* the rewrite, so spi.conf is then what the configuration wants, and stays it
\* until a reload changes the configuration.  main does not get past the open
\* while there is no driver.
DriverInv ==
  /\ step # "idle" => pc = "conf"
  /\ Bouncing => BroughtTo(cfg)
  /\ step \in {"compare", "rewrite"} \/ pc = "load" => driver = found
  /\ BouncedForConf
  /\ driver = Down => pc \in {"down", "load", "conf", "open"}

IInv == TypeInv /\ LinkInv /\ DriverInv

-----------------------------------------------------------------------------
(* THE PARTS: the SPI link and spi.conf                                    *)

\* What the constants are.
LEMMA Constants ==
  /\ \A c \in Configs \cup {CONFIG_DEFAULTS} :
       c.device \in Devices /\ c.told \in Settings /\ c.conf \in Settings /\ c.pin \in Pins
  /\ MaxOpenTries \in Nat \ {0} /\ MaxBadReads \in Nat \ {0}
  /\ MaxEdits \in Nat /\ MaxCrashes \in Nat
  /\ NotConfigured \notin Devices /\ Unset \notin Settings /\ Down \notin Settings
BY ReloadAssumption, LinkAssumption, SettingsAssumption, ConfAssumption DEF Pins

Usable == Configs \cup {CONFIG_DEFAULTS}

\* The initial state satisfies the invariant.
LEMMA InitInv == Init => IInv
<1> SUFFICES ASSUME Init PROVE IInv
  OBVIOUS
<1> USE Constants DEF Init
<1>1. LinkTypeOK
  BY DEF LinkInit, LinkTypeOK
<1>2. ConfTypeOK
  BY DEF ConfInit, ConfTypeOK
<1>3. {loaded_ok, g_reload, trigger_on_first} \subseteq BOOLEAN
  BY Zenon
<1>4. TypeOK
  BY <1>1, <1>2, <1>3 DEF ConfInit, TypeOK, PCs, NoBaseline
<1>5. TypeInv
  BY <1>4 DEF TypeInv
<1>6. LinkInv
  BY DEF LinkInit, LinkInv
<1>7. DriverInv
  BY DEF ConfInit, DriverInv, BouncedForConf, Bouncing, BroughtTo
<1> QED
  BY <1>5, <1>6, <1>7 DEF IInv

\* The operations of the link, and the end of the process, keep its types; after
\* each of them it holds nothing, or what it has just been given.
LEMMA LinkOps ==
  ASSUME LinkTypeOK, NEW c \in Usable
  PROVE  /\ OpenSpi(c) => LinkTypeOK' /\ spi' = c.device /\ fd'[spi'] /\ setting'[spi'] = c.told
         /\ OpenSpiFails(c) => LinkTypeOK' /\ spi' = NotConfigured
         /\ CloseSpi => LinkTypeOK' /\ spi' = NotConfigured
         /\ Transfer(c.device) \/ TransferFails(c.device) =>
              /\ LinkTypeOK' /\ UNCHANGED <<spi, setting>>
              /\ \A d \in Devices : fd[d] => fd'[d]
<1> USE Constants DEF LinkTypeOK, Usable
<1>1. ASSUME OpenSpi(c)
      PROVE  LinkTypeOK' /\ spi' = c.device /\ fd'[spi'] /\ setting'[spi'] = c.told
  <2>1. fd' \in [Devices -> BOOLEAN] /\ fd'[c.device]
    BY <1>1, Zenon DEF OpenSpi, Opened
  <2> QED
    BY <1>1, <2>1 DEF OpenSpi
<1>2. ASSUME OpenSpiFails(c) PROVE LinkTypeOK' /\ spi' = NotConfigured
  <2>1. fd' \in [Devices -> BOOLEAN]
    BY <1>2, Zenon DEF OpenSpiFails, Opened, OpenFailed
  <2> QED
    BY <1>2, <2>1 DEF OpenSpiFails
<1>3. ASSUME CloseSpi PROVE LinkTypeOK' /\ spi' = NotConfigured
  <2>1. fd' \in [Devices -> BOOLEAN]
    BY <1>3, Zenon DEF CloseSpi
  <2> QED
    BY <1>3, <2>1 DEF CloseSpi
<1>4. ASSUME Transfer(c.device) \/ TransferFails(c.device)
      PROVE  /\ LinkTypeOK' /\ UNCHANGED <<spi, setting>>
             /\ \A d \in Devices : fd[d] => fd'[d]
  <2>1. fd' \in [Devices -> BOOLEAN] /\ \A d \in Devices : fd[d] => fd'[d]
    BY <1>4, Zenon DEF Transfer, TransferFails, Opened, OpenFailed
  <2> QED
    BY <1>4, <2>1 DEF Transfer, TransferFails
<1> QED
  BY <1>1, <1>2, <1>3, <1>4

\* A step of spi_apply_conf keeps the types.  It leaves the driver as it was
\* found until the file is what is wanted, and then as it is, or running that, or
\* nothing.
LEMMA ConfOps ==
  ASSUME ConfTypeOK, found \in Settings \cup {Down}, UNCHANGED found,
         NEW want \in Settings, Applying(want),
         Bouncing => conf = want,
         step \in {"compare", "rewrite"} => driver = found,
         driver # found => conf = want /\ driver \in {conf, Down}
  PROVE  /\ ConfTypeOK' /\ step' # "idle"
         /\ (Bouncing => conf = want)'
         /\ (step \in {"compare", "rewrite"} => driver = found)'
         /\ (driver # found => conf = want /\ driver \in {conf, Down})'
<1> USE Constants DEF ConfTypeOK, Bouncing
<1>1. CASE Compare(want)
  BY <1>1 DEF Compare
<1>2. CASE Rewrite(want)
  BY <1>2 DEF Rewrite
<1>3. CASE Slay
  BY <1>3 DEF Slay
<1>4. CASE Respawn
  BY <1>4 DEF Respawn
<1> QED
  BY <1>1, <1>2, <1>3, <1>4 DEF Applying

-----------------------------------------------------------------------------
(* THE STEPS OF MAIN                                                       *)

\* What the environment does, but for a crash, touches neither bus nor driver.
LEMMA EnvironmentStep ==
  ASSUME IInv, Hup \/ \E content \in Configs \cup {Bad, Absent} : Edit(content)
  PROVE  IInv'
<1> USE Constants DEF IInv, TypeInv, TypeOK, linkVars, confVars, watchVars, pinVars, startVars
<1>1. /\ UNCHANGED <<linkVars, confVars, pc, cfg, next, tries, watchVars, bad_read_count,
                     pinVars, startVars>>
      /\ file' \in Configs \cup {Bad, Absent} /\ mtime' \in 0 .. MaxEdits
      /\ g_reload' \in BOOLEAN
  <2>1. g_reload' = TRUE \/ g_reload' = g_reload
    BY DEF Hup, Edit
  <2>2. g_reload' \in BOOLEAN
    BY <2>1, Zenon
  <2> QED
    BY <2>2 DEF Hup, Edit
<1>2. LinkTypeOK' /\ ConfTypeOK'
  BY <1>1 DEF LinkTypeOK, ConfTypeOK
<1>3. TypeInv'
  BY <1>1, <1>2
<1>4. LinkInv' /\ DriverInv'
  BY <1>1 DEF LinkInv, Holds, DriverInv, BouncedForConf, Bouncing, BroughtTo
<1> QED
  BY <1>3, <1>4

\* The end of the process: it holds nothing any more, and leaves the driver and
\* its file as they are.
LEMMA GoneStep ==
  ASSUME IInv, Gone, UNCHANGED <<crashes, found>> \/ Crash
  PROVE  IInv'
<1> USE Constants DEF IInv, TypeInv, TypeOK, Gone, watchVars
<1>1. crashes' \in 0 .. MaxCrashes /\ UNCHANGED found
  BY DEF Crash
<1>2. LinkTypeOK' /\ ConfTypeOK'
  BY DEF LinkTypeOK, ConfTypeOK
<1>3. TypeInv'
  BY <1>1, <1>2 DEF PCs
<1>4. LinkInv'
  BY DEF LinkInv
<1>5. DriverInv'
  BY <1>1 DEF DriverInv, BouncedForConf, Bouncing, BroughtTo
<1> QED
  BY <1>3, <1>4, <1>5

\* From the start of the process to the loop.
LEMMA StartupStep ==
  ASSUME IInv, Startup
  PROVE  IInv'
<1> USE Constants DEF IInv, TypeInv, TypeOK, linkVars, confVars, watchVars, pinVars, startVars
<1>1. CASE Start
  <2>1. LinkTypeOK' /\ ConfTypeOK'
    BY <1>1 DEF Start, LinkTypeOK, ConfTypeOK
  <2>2. g_reload' \in BOOLEAN /\ trigger_on_first' \in BOOLEAN
    BY <1>1, Zenon DEF Start
  <2>3. TypeInv'
    BY <1>1, <2>1, <2>2 DEF Start, ConfTypeOK, PCs, NoBaseline
  <2>4. LinkInv' /\ DriverInv'
    BY <1>1 DEF Start, LinkInv, DriverInv, BouncedForConf, Bouncing, BroughtTo
  <2> QED
    BY <2>3, <2>4
<1>2. CASE Load
  <2>1. LinkTypeOK' /\ ConfTypeOK'
    BY <1>2 DEF Load, ApplyConf, LinkTypeOK, ConfTypeOK
  <2>2. cfg' \in Configs \cup {CONFIG_DEFAULTS} /\ loaded_ok' \in BOOLEAN
    BY <1>2 DEF Load, Loadable
  <2>3. TypeInv'
    BY <1>2, <2>1, <2>2 DEF Load, PCs
  <2>4. LinkInv' /\ DriverInv'
    BY <1>2 DEF Load, ApplyConf, LinkInv, DriverInv, BouncedForConf, Bouncing, BroughtTo
  <2> QED
    BY <2>3, <2>4
<1>3. CASE ConfStep
  <2>1. pc = "conf" /\ UNCHANGED <<linkVars, file, mtime, cfg, next, tries, g_reload,
                                   watchVars, bad_read_count, pinVars, startVars>>
    BY <1>3 DEF ConfStep
  <2>2. ConfTypeOK' /\ pc' \in {"conf", "open"} /\ (step' # "idle" => pc' = "conf") /\ DriverInv'
    <3>1. CASE Applying(cfg.conf) /\ UNCHANGED pc
      <4>1. /\ ConfTypeOK' /\ (Bouncing => conf = cfg.conf)'
            /\ (step \in {"compare", "rewrite"} => driver = found)'
            /\ (driver # found => conf = cfg.conf /\ driver \in {conf, Down})'
        <5>1. /\ Bouncing => conf = cfg.conf
              /\ step \in {"compare", "rewrite"} => driver = found
              /\ driver # found => conf = cfg.conf /\ driver \in {conf, Down}
          BY <2>1 DEF DriverInv, BouncedForConf, BroughtTo
        <5>2. cfg.conf \in Settings /\ cfg' = cfg /\ found' = found
          BY <2>1
        <5> QED
          BY <3>1, <5>1, <5>2, ConfOps
      <4> QED
        BY <2>1, <3>1, <4>1 DEF DriverInv, BouncedForConf, BroughtTo
    <3>2. CASE step = "done" /\ step' = "idle" /\ pc' = "open" /\ UNCHANGED <<conf, driver>>
      BY <2>1, <3>2 DEF ConfTypeOK, DriverInv, BouncedForConf, Bouncing, BroughtTo
    <3> QED
      BY <1>3, <3>1, <3>2 DEF ConfStep
  <2>3. LinkTypeOK'
    BY <2>1 DEF LinkTypeOK
  <2>4. TypeInv'
    BY <2>1, <2>2, <2>3 DEF PCs
  <2>5. LinkInv'
    BY <2>1, <2>2 DEF LinkInv
  <2> QED
    BY <2>2, <2>4, <2>5
<1>4. CASE OpenAtStart
  <2>1. CASE Gone /\ UNCHANGED <<crashes, found>>
    BY <1>4, <2>1, GoneStep DEF OpenAtStart, DriverInv, Bouncing
  <2>2. CASE ~Gone
    <3>1. LinkTypeOK' /\ spi' = cfg.device /\ fd'[spi'] /\ setting'[spi'] = cfg.told
      BY <1>4, <2>2, LinkOps DEF OpenAtStart, Usable
    <3>2. ConfTypeOK'
      BY <1>4, <2>2 DEF OpenAtStart, ConfTypeOK
    <3>3. TypeInv'
      BY <1>4, <2>2, <3>1, <3>2 DEF OpenAtStart, PCs
    <3>4. LinkInv'
      BY <1>4, <2>2, <3>1 DEF OpenAtStart, LinkInv, Holds
    <3>5. DriverInv'
      BY <1>4, <2>2 DEF OpenAtStart, DriverInv, BouncedForConf, Bouncing, BroughtTo
    <3> QED
      BY <3>3, <3>4, <3>5
  <2> QED
    BY <1>4, <2>1, <2>2 DEF OpenAtStart
<1>5. CASE ArmAtStart
  <2>1. CASE Gone /\ UNCHANGED <<crashes, found>>
    BY <1>5, <2>1, GoneStep DEF ArmAtStart, DriverInv, Bouncing
  <2>2. CASE ~Gone
    <3>1. LinkTypeOK' /\ ConfTypeOK'
      BY <1>5, <2>2 DEF ArmAtStart, LinkTypeOK, ConfTypeOK
    <3>2. TypeInv'
      BY <1>5, <2>2, <3>1 DEF ArmAtStart, PCs
    <3>3. LinkInv' /\ DriverInv'
      BY <1>5, <2>2 DEF ArmAtStart, LinkInv, Holds, DriverInv, BouncedForConf, Bouncing, BroughtTo
    <3> QED
      BY <3>2, <3>3
  <2> QED
    BY <1>5, <2>1, <2>2 DEF ArmAtStart
<1>6. CASE WatchAtStart
  <2>1. LinkTypeOK' /\ ConfTypeOK'
    BY <1>6 DEF WatchAtStart, LinkTypeOK, ConfTypeOK
  <2>2. baseline' \in 0 .. NoBaseline /\ trigger_on_first' \in BOOLEAN
    <3>1. trigger_on_first' \in BOOLEAN
      BY <1>6, Zenon DEF WatchAtStart
    <3> QED
      BY <1>6, <3>1 DEF WatchAtStart, Synced, NoBaseline
  <2>3. TypeInv'
    BY <1>6, <2>1, <2>2 DEF WatchAtStart, PCs
  <2>4. LinkInv' /\ DriverInv'
    BY <1>6 DEF WatchAtStart, LinkInv, Holds, DriverInv, BouncedForConf, Bouncing, BroughtTo
  <2> QED
    BY <2>3, <2>4
<1> QED
  BY <1>1, <1>2, <1>3, <1>4, <1>5, <1>6 DEF Startup

\* The check at the top of the loop.
LEMMA PollStep ==
  ASSUME IInv, Poll
  PROVE  IInv'
<1> USE Constants DEF IInv, TypeInv, TypeOK, linkVars, confVars, pinVars, startVars
<1>1. LinkTypeOK' /\ ConfTypeOK'
  BY DEF Poll, LinkTypeOK, ConfTypeOK
<1>2. g_reload' \in BOOLEAN /\ trigger_on_first' \in BOOLEAN
  BY Zenon DEF Poll
<1>3. baseline' \in 0 .. NoBaseline
  BY DEF Poll, Synced, NoBaseline
<1>4. TypeInv'
  BY <1>1, <1>2, <1>3 DEF Poll, PCs
<1>5. LinkInv' /\ DriverInv'
  BY DEF Poll, LinkInv, Holds, DriverInv, BouncedForConf, Bouncing, BroughtTo
<1> QED
  BY <1>4, <1>5

\* A reload takes the link from the running configuration to the next one, and
\* makes that the running one when the link has followed, or has given up.
LEMMA ReloadStep ==
  ASSUME IInv, HandleReload
  PROVE  IInv'
<1> USE Constants DEF IInv, TypeInv, TypeOK, linkVars, confVars, watchVars, pinVars, startVars
<1>1. CASE LoadNext
  <2>1. LinkTypeOK' /\ ConfTypeOK'
    BY <1>1 DEF LoadNext, LinkTypeOK, ConfTypeOK
  <2>2. next' \in Configs \cup {CONFIG_DEFAULTS}
    BY <1>1 DEF LoadNext, Loadable
  <2>3. TypeInv'
    BY <1>1, <2>1, <2>2 DEF LoadNext, PCs
  <2>4. LinkInv'
    BY <1>1 DEF LoadNext, WireDiffers, LinkInv, Holds
  <2>5. DriverInv'
    BY <1>1 DEF LoadNext, DriverInv, BouncedForConf, Bouncing, BroughtTo
  <2> QED
    BY <2>3, <2>4, <2>5
<1>2. CASE CloseForReload
  <2>1. LinkTypeOK' /\ spi' = NotConfigured
    BY <1>2, LinkOps DEF CloseForReload, Usable
  <2>2. ConfTypeOK'
    BY <1>2 DEF CloseForReload, ConfTypeOK
  <2>3. TypeInv'
    BY <1>2, <2>1, <2>2 DEF CloseForReload, PCs
  <2>4. LinkInv'
    BY <1>2, <2>1 DEF CloseForReload, LinkInv, Holds
  <2>5. DriverInv'
    BY <1>2 DEF CloseForReload, DriverInv, BouncedForConf, Bouncing, BroughtTo
  <2> QED
    BY <2>3, <2>4, <2>5
<1>3. CASE Reopen
  <2>1. ConfTypeOK'
    BY <1>3 DEF Reopen, ConfTypeOK
  <2>2. CASE OpenSpi(next) /\ pc' = "pin" /\ UNCHANGED tries
    <3>1. LinkTypeOK' /\ spi' = next.device /\ fd'[spi'] /\ setting'[spi'] = next.told
      BY <2>2, LinkOps DEF Usable
    <3>2. TypeInv'
      BY <1>3, <2>1, <2>2, <3>1 DEF Reopen, PCs
    <3>3. LinkInv'
      BY <1>3, <2>2, <3>1 DEF Reopen, LinkInv, Holds
    <3> QED
      BY <1>3, <2>2, <3>2, <3>3 DEF Reopen, DriverInv, BouncedForConf, Bouncing, BroughtTo
  <2>3. CASE /\ OpenSpiFails(next)
             /\ tries' = tries + 1
             /\ pc' = IF Spent(tries') THEN "pin" ELSE "reopen"
    <3>1. LinkTypeOK' /\ spi' = NotConfigured
      BY <2>3, LinkOps DEF Usable
    <3>2. TypeInv'
      BY <1>3, <2>1, <2>3, <3>1 DEF Reopen, Spent, PCs
    <3>3. LinkInv'
      BY <1>3, <2>3, <3>1 DEF Reopen, LinkInv, Holds
    <3> QED
      BY <1>3, <2>3, <3>2, <3>3 DEF Reopen, DriverInv, BouncedForConf, Bouncing, BroughtTo
  <2> QED
    BY <1>3, <2>2, <2>3 DEF Reopen
<1>4. CASE PinAndAdopt
  <2>1. LinkTypeOK' /\ ConfTypeOK'
    BY <1>4 DEF PinAndAdopt, LinkTypeOK, ConfTypeOK
  <2>2. dr_pin' \in Pins /\ armed' \subseteq Pins
    BY <1>4 DEF PinAndAdopt
  <2>3. TypeInv'
    BY <1>4, <2>1, <2>2 DEF PinAndAdopt, PCs
  <2>4. LinkInv' /\ DriverInv'
    BY <1>4 DEF PinAndAdopt, LinkInv, Holds, DriverInv, BouncedForConf, Bouncing, BroughtTo
  <2> QED
    BY <2>3, <2>4
<1>5. CASE SyncAfterReload
  <2>1. LinkTypeOK' /\ ConfTypeOK'
    BY <1>5 DEF SyncAfterReload, LinkTypeOK, ConfTypeOK
  <2>2. baseline' \in 0 .. NoBaseline
    BY <1>5 DEF SyncAfterReload, Synced, NoBaseline
  <2>3. TypeInv'
    BY <1>5, <2>1, <2>2 DEF SyncAfterReload, PCs
  <2>4. LinkInv' /\ DriverInv'
    BY <1>5 DEF SyncAfterReload, LinkInv, Holds, DriverInv, BouncedForConf, Bouncing, BroughtTo
  <2> QED
    BY <2>3, <2>4
<1> QED
  BY <1>1, <1>2, <1>3, <1>4, <1>5 DEF HandleReload

\* The exchange uses the device the link holds; a reset of the bus reopens it
\* for the running configuration, or leaves it closed.
LEMMA ExchangeStep ==
  ASSUME IInv, Exchange
  PROVE  IInv'
<1> USE Constants DEF IInv, TypeInv, TypeOK, confVars, watchVars, pinVars, startVars
<1>1. ConfTypeOK'
  BY DEF Exchange, ExchangeOK, ExchangeFails, CloseForReset, ReopenForReset, ConfTypeOK
<1>2. DriverInv'
  BY DEF Exchange, ExchangeOK, ExchangeFails, CloseForReset, ReopenForReset, DriverInv,
         BouncedForConf, Bouncing, BroughtTo
<1>3. CASE ExchangeOK \/ ExchangeFails
  <2>1. /\ pc = "loop" /\ pc' \in {"loop", "reset"}
        /\ bad_read_count' \in 0 .. MaxBadReads
        /\ pc' = "loop" => bad_read_count' < MaxBadReads
        /\ UNCHANGED <<file, mtime, cfg, next, tries, g_reload, watchVars, pinVars, startVars>>
    BY <1>3 DEF ExchangeOK, ExchangeFails
  <2>2. /\ LinkTypeOK' /\ UNCHANGED <<spi, setting>>
        /\ \A d \in Devices : fd[d] => fd'[d]
    BY <1>3, LinkOps DEF ExchangeOK, ExchangeFails, Usable
  <2>3. TypeInv'
    BY <1>1, <2>1, <2>2 DEF PCs
  <2>4. LinkInv'
    BY <2>1, <2>2 DEF LinkInv, Holds, LinkTypeOK
  <2> QED
    BY <1>2, <2>3, <2>4
<1>4. CASE CloseForReset
  <2>1. LinkTypeOK' /\ spi' = NotConfigured
    BY <1>4, LinkOps DEF CloseForReset, Usable
  <2>2. TypeInv'
    BY <1>1, <1>4, <2>1 DEF CloseForReset, PCs
  <2>3. LinkInv'
    BY <1>4, <2>1 DEF CloseForReset, LinkInv, Holds
  <2> QED
    BY <1>2, <2>2, <2>3
<1>5. CASE ReopenForReset
  <2>1. /\ LinkTypeOK'
        /\ \/ spi' = NotConfigured
           \/ spi' = cfg.device /\ fd'[spi'] /\ setting'[spi'] = cfg.told
    BY <1>5, LinkOps DEF ReopenForReset, Usable
  <2>2. TypeInv'
    BY <1>1, <1>5, <2>1 DEF ReopenForReset, PCs
  <2>3. LinkInv'
    BY <1>5, <2>1 DEF ReopenForReset, LinkInv, Holds
  <2> QED
    BY <1>2, <2>2, <2>3
<1> QED
  BY <1>3, <1>4, <1>5 DEF Exchange

-----------------------------------------------------------------------------
(* THE THEOREMS                                                            *)

\* The invariant is inductive.
LEMMA InvStep == IInv /\ [Next]_vars => IInv'
<1> SUFFICES ASSUME IInv, [Next]_vars PROVE IInv'
  OBVIOUS
<1>1. CASE Environment
  BY <1>1, EnvironmentStep, GoneStep DEF Environment, Crash
<1>2. CASE Startup
  BY <1>2, StartupStep
<1>3. CASE Poll
  BY <1>3, PollStep
<1>4. CASE HandleReload
  BY <1>4, ReloadStep
<1>5. CASE Exchange
  BY <1>5, ExchangeStep
<1>6. CASE UNCHANGED vars
  BY <1>6 DEF vars, linkVars, confVars, IInv, TypeInv, TypeOK, LinkTypeOK, ConfTypeOK, LinkInv,
              Holds, DriverInv, BouncedForConf, Bouncing, BroughtTo
<1> QED
  BY <1>1, <1>2, <1>3, <1>4, <1>5, <1>6 DEF Next

\* IInv holds in every reachable state; the properties are consequences of it.
THEOREM ReloadInvariant == Spec => []IInv
BY InitInv, InvStep, PTL DEF Spec

\* Every variable keeps its type; neither the attempts to reopen nor the errors
\* in a row are counted past their limits.
THEOREM TypeCorrect == Spec => []TypeOK
<1>1. IInv => TypeOK
  BY DEF IInv, TypeInv
<1> QED
  BY ReloadInvariant, <1>1, PTL

\* In the loop spi_link_t holds nothing, or the open device of the running
\* configuration with that configuration's settings, whatever failed before.
THEOREM LinkFollowsCfg == Spec => []LinkMatchesCfg
<1>1. IInv => LinkMatchesCfg
  BY DEF IInv, LinkInv, Holds, LinkMatchesCfg
<1> QED
  BY ReloadInvariant, <1>1, PTL

\* spi_apply_conf touches the driver only to have it run what spi.conf now says
\* for the configuration that was loaded: any other driver is the one that this
\* process found, wherever an earlier one died and whatever the bounce did.
THEOREM DriverFollowsConf == Spec => []BouncedForConf
<1>1. IInv => BouncedForConf
  BY DEF IInv, DriverInv
<1> QED
  BY ReloadInvariant, <1>1, PTL

=============================================================================
