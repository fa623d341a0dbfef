----------------------------- MODULE MotorLink -----------------------------
(***************************************************************************)
(* The SPI link between the QNX controller (the main loop, the command     *)
(* transmitter and the STM tier of the reload driver in motor_controller.c)*)
(* and the STM32 at its other end.                                         *)
(*                                                                         *)
(* Every exchange is full duplex: it reads the frame the STM32 has armed   *)
(* and delivers the SET_CONFIG command in flight, if there is one.  Either *)
(* direction may fail on its own.  The STM32 carries a command out between *)
(* two blocks and reports the result in every later frame header, until a  *)
(* newer command supersedes it.                                            *)
(*                                                                         *)
(* The firmware is not part of the repository.  Its actions say what       *)
(* motor_wire.h and the controller's handling of its frames require of it, *)
(* and leave open what they leave open: when it decides, and how.          *)
(***************************************************************************)
EXTENDS Integers, Sequences

CONSTANTS
  Payloads,         \* config_payload_t values a config file can hold
  BootPayload,      \* what the STM32 runs when it has just started
  CMD_MAX_RETRIES,  \* retry budget of a command (200)
  FrameSeqMod,      \* modulus of frame_header_t.seq (2^32)
  MaxReloads,       \* bound: reloads, each of which may queue a command; it is
                    \* below 2^16, so cmd_seq does not wrap
  MaxRestarts       \* bound: restarts of the controller

ASSUME ConstantsAssumption ==
  /\ Payloads \subseteq [block_rows : Nat \ {0}, sample_rate_hz : Nat \ {0}]
  /\ BootPayload \in Payloads
  /\ CMD_MAX_RETRIES \in Nat \ {0}
  /\ FrameSeqMod \in Nat /\ FrameSeqMod > 3
  /\ MaxReloads \in 0 .. 65535
  /\ MaxRestarts \in Nat

VARIABLES
  \* ---- the controller
  cmd,             \* g_cmd: state, seq, retries_left, payload
  cfg_stm,         \* cfg.stm: the STM tier as last loaded
  active_stm,      \* what the controller believes the STM32 is running
  have_last,       \* last_seq is a baseline for sequence accounting
  last_seq,
  bad_read_count,  \* consecutive failed transfers
  \* ---- the STM32
  stm,             \* cfg (and the cmd_seq it came with), ack (seq, result),
                   \* queue, and of the armed frame: seq, CONFIG_APPLIED
  \* ---- history
  requests,        \* payloads queued in this life of the controller, in order
  reloads,         \* number of reloads
  restarts,        \* number of restarts of the controller
  outcome,         \* how the latest command ended: "none" while it is open
  unread,          \* frames armed since the last accepted one, saturating
  report           \* what the last accepted frame was taken for

ctrlVars == <<cmd, cfg_stm, active_stm, have_last, last_seq, bad_read_count>>
vars == <<cmd, cfg_stm, active_stm, have_last, last_seq, bad_read_count, stm,
          requests, reloads, restarts, outcome, unread, report>>

\* active_stm = {0}: block_rows 0 means that nothing is known yet.
Unknown == [block_rows |-> 0, sample_rate_hz |-> 0]

NoCmd == [seq |-> 0, payload |-> Unknown]
NoReport == [kind |-> "none", lost |-> 0]

Pending == cmd.state = "PENDING"

-----------------------------------------------------------------------------
(* START                                                                   *)

\* cmd_init
CmdInit == [state |-> "IDLE", seq |-> 0, retries_left |-> 0, payload |-> Unknown]

\* The firmware comes up with its own configuration and an armed frame.
StmBoot == [cfg |-> BootPayload, cfg_seq |-> 0, ack |-> [seq |-> 0, result |-> "none"],
            queue |-> NoCmd, seq |-> 0, applied |-> FALSE]

\* The controller starts on whatever its file holds; it queues no command.
Init ==
  /\ cmd = CmdInit
  /\ cfg_stm \in Payloads
  /\ active_stm = Unknown
  /\ have_last = FALSE
  /\ last_seq = 0
  /\ bad_read_count = 0
  /\ stm = StmBoot
  /\ requests = <<>>
  /\ reloads = 0
  /\ restarts = 0
  /\ outcome = "none"
  /\ unread = 1
  /\ report = NoReport

-----------------------------------------------------------------------------
(* CONTROLLER: the STM tier of handle_reload                               *)

\* Fault: the command keeps the number of the one before it.
QueuedSameSeq(p) ==
  [state |-> "PENDING", seq |-> cmd.seq, retries_left |-> CMD_MAX_RETRIES, payload |-> p]

\* cmd_queue_set_config with cmd_build_set_config: a new command supersedes
\* one that is still in flight.
Queued(p) ==
  [state |-> "PENDING", seq |-> cmd.seq + 1, retries_left |-> CMD_MAX_RETRIES,
   payload |-> p]

\* cmd_refresh_after_reinit
Refreshed == IF Pending THEN [cmd EXCEPT !.retries_left = CMD_MAX_RETRIES] ELSE cmd

\* A configuration was loaded.  A change of an SPI wire field reopens the bus
\* first; a command goes out only if the STM tier differs from the last load.
Reload(next, spi_changed) ==
  /\ reloads < MaxReloads
  /\ reloads' = reloads + 1
  /\ have_last' = (have_last /\ ~spi_changed)
  /\ IF next # cfg_stm
       THEN /\ cfg_stm' = next
            /\ cmd' = Queued(next)
            /\ requests' = Append(requests, next)
            /\ outcome' = "none"
       ELSE /\ cmd' = IF spi_changed THEN Refreshed ELSE cmd
            /\ UNCHANGED <<cfg_stm, requests, outcome>>
  /\ UNCHANGED <<active_stm, last_seq, bad_read_count, stm, restarts, unread, report>>

-----------------------------------------------------------------------------
(* CONTROLLER: one exchange of the main loop                               *)

\* The firmware finds the command in its receive buffer and keeps it for the
\* next block boundary.
Delivered ==
  IF Pending THEN [stm EXCEPT !.queue = [seq |-> cmd.seq, payload |-> cmd.payload]]
  ELSE stm

\* The size check, the only one a clean frame can fail: a frame of another
\* size than that of the active configuration must say that it is the first
\* of a new one.
SizeOK ==
  \/ active_stm.block_rows = 0
  \/ stm.cfg.block_rows = active_stm.block_rows
  \/ stm.applied

\* Fault: the budget is not guarded against zero.
CountedUnguarded ==
  [cmd EXCEPT !.retries_left = IF Pending THEN @ - 1 ELSE @]

\* cmd_count_attempt
Counted == [cmd EXCEPT !.retries_left = IF Pending /\ @ > 0 THEN @ - 1 ELSE @]

\* Fault: the echoed cmd_seq is not compared.
ObservedAny ==
  CASE ~Pending                        -> "none"
    [] Pending /\ stm.ack.result = "ok"   -> "acked"
    [] Pending /\ stm.ack.result = "nack" -> "nacked"
    [] OTHER                           -> "none"

\* Fault: a command out of retries is kept.
ObservedNoBudget ==
  CASE ~Pending                    -> "none"
    [] Pending /\ stm.ack.seq # cmd.seq -> "none"
    [] OTHER -> CASE stm.ack.result = "ok"   -> "acked"
                  [] stm.ack.result = "nack" -> "nacked"
                  [] OTHER                   -> "none"

\* cmd_observe: how the frame just accepted ends the command in flight, if it
\* does.  A result for another cmd_seq is not ours; it only makes the command
\* give up once the budget is spent.
Observed ==
  CASE ~Pending -> "none"
    [] Pending /\ stm.ack.seq # cmd.seq ->
         IF Counted.retries_left = 0 THEN "gaveup" ELSE "none"
    [] Pending /\ stm.ack.seq = cmd.seq ->
         CASE stm.ack.result = "ok"   -> "acked"
           [] stm.ack.result = "nack" -> "nacked"
           [] OTHER                   -> "none"

\* Fault: the difference does not wrap.
SeqDiffNoWrap == stm.seq - last_seq

\* (int32_t)(h->seq - last_seq)
SeqDiff ==
  LET d == (stm.seq - last_seq) % FrameSeqMod
  IN  IF 2 * d >= FrameSeqMod THEN d - FrameSeqMod ELSE d

\* Sequence accounting: what the frame is taken for and how many were lost.
Accounted(baseline) ==
  LET Took(kind, lost) == [kind |-> kind, lost |-> lost]
  IN  CASE ~baseline                 -> Took("first", 0)
        [] baseline /\ SeqDiff = 0   -> Took("duplicate", 0)
        [] baseline /\ SeqDiff = 1   -> Took("next", 0)
        [] baseline /\ SeqDiff > 1   -> Took("gap", SeqDiff - 1)
        [] baseline /\ SeqDiff < 0   -> Took("reset", 0)

\* The frame is accepted: the attempt is counted, the header inspected for our
\* result, the sequence number accounted for; then the frame is published
\* unless it is a duplicate.
Accept(delivered) ==
  /\ SizeOK
  /\ stm' = IF delivered THEN Delivered ELSE stm
  /\ cmd' = [Counted EXCEPT !.state = IF Observed = "none" THEN @ ELSE "IDLE"]
  /\ active_stm' = IF Observed = "acked" THEN cmd.payload ELSE active_stm
  /\ outcome' = IF Observed = "none" THEN outcome ELSE Observed
  /\ report' = Accounted(have_last /\ Observed # "acked")
  /\ have_last' = TRUE
  /\ last_seq' = stm.seq
  /\ unread' = 0
  /\ bad_read_count' = 0
  /\ UNCHANGED <<cfg_stm, requests, reloads, restarts>>

\* The frame is not valid: garbled on the wire, or of the wrong size.  The
\* command is not counted as sent, although it may well have arrived.
Reject(delivered) ==
  /\ stm' = IF delivered THEN Delivered ELSE stm
  /\ have_last' = FALSE
  /\ bad_read_count' = 0
  /\ UNCHANGED <<cmd, cfg_stm, active_stm, last_seq, requests, reloads, restarts,
                 outcome, unread, report>>

\* An exchange whose frame arrives unharmed.
CleanExchange == \E delivered \in BOOLEAN :
  Accept(delivered) \/ (~SizeOK /\ Reject(delivered))

\* An exchange whose frame is garbled.
GarbledExchange == \E delivered \in BOOLEAN : Reject(delivered)

\* The transfer itself fails; the third failure in a row reopens the bus.
SpiError ==
  /\ bad_read_count' = IF bad_read_count = 2 THEN 0 ELSE bad_read_count + 1
  /\ have_last' = (have_last /\ bad_read_count < 2)
  /\ UNCHANGED <<cmd, cfg_stm, active_stm, last_seq, stm, requests, reloads, restarts,
                 outcome, unread, report>>

-----------------------------------------------------------------------------
(* CONTROLLER: restart                                                     *)

\* The process is started anew while the STM32 keeps running: g_cmd starts at
\* sequence number 0 again.
CtrlRestart ==
  /\ restarts < MaxRestarts
  /\ restarts' = restarts + 1
  /\ cmd' = CmdInit
  /\ cfg_stm' \in Payloads
  /\ active_stm' = Unknown
  /\ have_last' = FALSE
  /\ last_seq' = 0
  /\ bad_read_count' = 0
  /\ requests' = <<>>
  /\ outcome' = "none"
  /\ report' = NoReport
  /\ UNCHANGED <<stm, reloads, unread>>

-----------------------------------------------------------------------------
(* STM32: a block is complete, and the next frame is armed                 *)

NextSeq == (stm.seq + 1) % FrameSeqMod

StmArms(next) ==
  /\ stm' = [next EXCEPT !.seq = NextSeq]
  /\ unread' = IF unread < FrameSeqMod THEN unread + 1 ELSE unread
  /\ UNCHANGED <<ctrlVars, requests, reloads, restarts, outcome, report>>

\* No command is decided on; work on one that is new may have begun.
StmBlock ==
  \/ StmArms([stm EXCEPT !.applied = FALSE])
  \/ /\ stm.queue # NoCmd /\ stm.queue.seq # stm.ack.seq
     /\ StmArms([stm EXCEPT !.applied = FALSE,
                            !.ack = [seq |-> stm.queue.seq, result |-> "none"]])

\* The queued command is carried out.  One that has been carried out already
\* is acknowledged again; doing it again makes no difference.
StmApply ==
  /\ stm.queue # NoCmd
  /\ \E again \in BOOLEAN :
       /\ stm.ack # [seq |-> stm.queue.seq, result |-> "ok"] => again
       /\ StmArms([stm EXCEPT
            !.cfg     = IF again THEN stm.queue.payload ELSE @,
            !.cfg_seq = IF again THEN stm.queue.seq ELSE @,
            !.applied = again,
            !.ack     = [seq |-> stm.queue.seq, result |-> "ok"],
            !.queue   = NoCmd])

\* The queued command is rejected: out of range, unknown, or damaged on the way.
StmReject ==
  /\ stm.queue # NoCmd
  /\ StmArms([stm EXCEPT !.applied = FALSE,
                         !.ack = [seq |-> stm.queue.seq, result |-> "nack"],
                         !.queue = NoCmd])

StmDecide == StmApply \/ StmReject

-----------------------------------------------------------------------------
Controller ==
  \/ \E next \in Payloads, spi_changed \in BOOLEAN : Reload(next, spi_changed)
  \/ CleanExchange
  \/ GarbledExchange
  \/ SpiError
  \/ CtrlRestart

Next == Controller \/ StmBlock \/ StmDecide

Spec == Init /\ [][Next]_vars

\* The link delivers a frame unharmed again and again, and the firmware decides
\* on a command it has received.  Nothing is assumed of the other direction.
FairSpec == Spec /\ WF_vars(CleanExchange) /\ WF_vars(StmDecide)

-----------------------------------------------------------------------------
(* PROPERTIES                                                              *)

Configs == Payloads \cup {Unknown}

CmdTypeOK ==
  cmd \in [state : {"IDLE", "PENDING"}, seq : 0 .. MaxReloads,
           retries_left : 0 .. CMD_MAX_RETRIES, payload : Configs]

StmTypeOK ==
  stm \in [cfg : Payloads, cfg_seq : 0 .. MaxReloads,
           ack : [seq : 0 .. MaxReloads, result : {"none", "ok", "nack"}],
           queue : [seq : 0 .. MaxReloads, payload : Configs],
           seq : 0 .. FrameSeqMod - 1, applied : BOOLEAN]

\* Every variable keeps its type; the retry budget, an unsigned counter, never
\* goes below zero.
TypeOK ==
  /\ CmdTypeOK
  /\ StmTypeOK
  /\ cfg_stm \in Payloads
  /\ active_stm \in Configs
  /\ have_last \in BOOLEAN
  /\ last_seq \in 0 .. FrameSeqMod - 1
  /\ bad_read_count \in 0 .. 2
  /\ requests \in Seq(Payloads)
  /\ reloads \in 0 .. MaxReloads
  /\ restarts \in 0 .. MaxRestarts
  /\ outcome \in {"none", "acked", "nacked", "gaveup"}
  /\ unread \in 0 .. FrameSeqMod
  /\ report \in [kind : {"none", "first", "duplicate", "next", "gap", "reset"},
                 lost : Nat]

\* When cmd_observe has taken an ACK for its command's, the configuration it
\* made authoritative is the one the STM32 runs, and stays so until the next
\* command: through lost and repeated deliveries, superseded commands and
\* results of former ones.
AckedIsRunning == ~Pending /\ outcome = "acked" => active_stm = stm.cfg

FrameAccepted == \E delivered \in BOOLEAN : Accept(delivered)

\* With a baseline, the sequence accounting counts exactly the frames that the
\* STM32 armed and the controller did not accept, and a frame is held back as a
\* duplicate just when it has been accepted before; across the wrap of seq.
AccountingExact ==
  [][ FrameAccepted /\ have_last /\ Observed # "acked" /\ 2 * unread < FrameSeqMod
        => IF unread = 0 THEN report'.kind = "duplicate"
           ELSE /\ report'.kind \in {"next", "gap"}
                /\ report'.lost = unread - 1 ]_vars

\* A command in flight ends: with a result or, when none comes, with the spent
\* retry budget.
CommandResolves == Pending ~> ~Pending

\* Without restarts the protocol keeps what SetConfig promises.
Abs == INSTANCE SetConfig WITH
  Configs  <- Payloads,
  Boot     <- BootPayload,
  Unknown  <- Unknown,
  asked    <- requests,
  open     <- Pending,
  done     <- stm.cfg_seq,
  running  <- stm.cfg,
  believed <- active_stm

ImplementsSetConfig == Abs!SSpec

=============================================================================
