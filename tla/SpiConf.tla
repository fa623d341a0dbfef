------------------------------ MODULE SpiConf ------------------------------
(***************************************************************************)
(* spi_apply_conf of config.c: bring spi.conf into agreement with a        *)
(* setting and restart spi-dwc if that changed the file.                   *)
(*                                                                         *)
(* The process can die between any two steps.  The file is replaced by     *)
(* rename, so it is the old one or the new one; the keys compared are one  *)
(* setting here, and a file without one of them reads as Unset.            *)
(***************************************************************************)
EXTENDS SpiSettings

CONSTANT Down      \* spi-dwc is not running

ASSUME ConfAssumption == Down \notin Settings

VARIABLES
  conf,            \* what spi.conf says
  driver,          \* what the running spi-dwc was started with
  step             \* "idle", or the next step of spi_apply_conf

confVars == <<conf, driver, step>>

\* The driver was started at boot, if at all, from a file of its own: what it
\* runs has nothing to do with what this one says.
ConfInit ==
  /\ conf \in Settings \cup {Unset}
  /\ driver \in Settings \cup {Down}
  /\ step = "idle"

\* The call.
ApplyConf ==
  /\ step' = "compare"
  /\ UNCHANGED <<conf, driver>>

\* read_current_kv for each key
Differs(want) == conf # want

Compare(want) ==
  /\ step = "compare"
  /\ step' = IF Differs(want) THEN "rewrite" ELSE "done"
  /\ UNCHANGED <<conf, driver>>

\* Fault: the driver is restarted even if the rewrite failed.
RewriteUnchecked(want) ==
  /\ step = "rewrite"
  /\ conf' \in {conf, want}
  /\ step' = "slay"
  /\ UNCHANGED driver

\* rewrite_spi_conf, up to the rename that makes it visible; or its failure.
Rewrite(want) ==
  /\ step = "rewrite"
  /\ \/ conf' = want /\ step' = "slay"
     \/ UNCHANGED conf /\ step' = "done"
  /\ UNCHANGED driver

\* bounce_spi_dwc, first half: slay and a fixed wait.  Whether it found a driver
\* and ended it is not looked at.
Slay ==
  /\ step = "slay"
  /\ driver' \in {driver, Down}
  /\ step' = "respawn"
  /\ UNCHANGED conf

\* bounce_spi_dwc, second half: the shell starts the driver in the background.
\* It comes up, or not, or finds the old one still there; none of it is seen.
Respawn ==
  /\ step = "respawn"
  /\ driver' \in {conf, driver, Down}
  /\ step' = "done"
  /\ UNCHANGED conf

Applying(want) == Compare(want) \/ Rewrite(want) \/ Slay \/ Respawn

ConfTypeOK ==
  /\ conf \in Settings \cup {Unset}
  /\ driver \in Settings \cup {Down}
  /\ step \in {"idle", "compare", "rewrite", "slay", "respawn", "done"}

=============================================================================
