-------------------------- MODULE MotorLinkProofs --------------------------
(***************************************************************************)
(* Proofs about the SPI link, for every set of payloads, retry budget,     *)
(* modulus of the frame numbers and all bounds: what an ACK establishes,   *)
(* the exactness of the sequence accounting, and the promise of SetConfig. *)
(*                                                                         *)
(* None of them is inductive.  An ACK can be trusted because the STM32     *)
(* never holds, runs or reports a command that was not requested, and      *)
(* never an older one after a newer one; that in turn because commands are *)
(* numbered in the order of the requests, which a restart of the           *)
(* controller breaks.  The accounting is exact because the frame numbers   *)
(* follow the count of unread frames as long as that is below the modulus. *)
(***************************************************************************)
EXTENDS MotorLink, CommonLemmas

-----------------------------------------------------------------------------
(* THE INDUCTIVE INVARIANT                                                 *)

\* The types, and what keeps them: commands are numbered by the reloads that
\* queued them, and only a command that exists has a payload.
TypeInv ==
  /\ TypeOK
  /\ cmd.seq <= reloads
  /\ stm.queue.seq <= reloads
  /\ stm.ack.seq <= reloads
  /\ stm.cfg_seq <= reloads
  /\ Pending => cmd.payload \in Payloads
  /\ stm.queue # NoCmd => stm.queue.payload \in Payloads

\* The controller's command is its latest request.
CmdInv ==
  /\ cmd.seq = Len(requests)
  /\ Pending => cmd.seq # 0
  /\ cmd.seq # 0 => cmd.payload = requests[cmd.seq]

\* What the STM32 holds was requested, and nothing it holds or has reported is
\* overtaken by an older command.
StmInv ==
  /\ stm.queue # NoCmd => /\ stm.queue.seq \in 1 .. cmd.seq
                          /\ stm.queue.payload = requests[stm.queue.seq]
                          /\ stm.cfg_seq <= stm.queue.seq
  /\ stm.ack.seq <= cmd.seq
  /\ stm.cfg_seq <= cmd.seq
  /\ stm.cfg_seq # 0 => stm.cfg = requests[stm.cfg_seq]
  /\ stm.ack.result = "ok" => stm.ack.seq = stm.cfg_seq

\* What an ACK has established stays true.
AckInv ==
  ~Pending /\ outcome = "acked" =>
    /\ cmd.seq # 0
    /\ stm.cfg_seq = cmd.seq
    /\ active_stm = cmd.payload

\* A restarted controller numbers its commands from 0 again, and all of this
\* is lost.
ProtocolInv == restarts = 0 => CmdInv /\ StmInv /\ AckInv

\* With a baseline, the armed frame is as far ahead of it as the STM32 has
\* armed frames since, unless those went round the whole range of seq.
BaselineInv ==
  have_last /\ unread < FrameSeqMod => stm.seq = (last_seq + unread) % FrameSeqMod

IInv == TypeInv /\ ProtocolInv /\ BaselineInv

-----------------------------------------------------------------------------
(* THE PARTS OF A STEP                                                     *)

\* The states of the STM32, as StmTypeOK has them.
StmStates ==
  [cfg : Payloads, cfg_seq : 0 .. MaxReloads,
   ack : [seq : 0 .. MaxReloads, result : {"none", "ok", "nack"}],
   queue : [seq : 0 .. MaxReloads, payload : Configs],
   seq : 0 .. FrameSeqMod - 1, applied : BOOLEAN]

\* What the constants are.
LEMMA Constants ==
  /\ BootPayload \in Payloads
  /\ CMD_MAX_RETRIES \in Nat /\ CMD_MAX_RETRIES > 0
  /\ FrameSeqMod \in Nat /\ FrameSeqMod > 3 /\ FrameSeqMod # 0
  /\ MaxReloads \in Nat
  /\ MaxRestarts \in Nat
BY ConstantsAssumption

\* What an exchange may do to the STM32: the command in flight is in its
\* receive buffer, or nothing happened.
LEMMA DeliveredIs ==
  ASSUME TypeInv
  PROVE  /\ Delivered \in StmStates
         /\ Delivered.cfg = stm.cfg
         /\ Delivered.cfg_seq = stm.cfg_seq
         /\ Delivered.ack = stm.ack
         /\ Delivered.seq = stm.seq
         /\ Delivered.queue = IF Pending THEN [seq |-> cmd.seq, payload |-> cmd.payload]
                              ELSE stm.queue
BY DEF TypeInv, TypeOK, StmTypeOK, CmdTypeOK, Delivered, StmStates

\* Counting an attempt concerns the budget alone, which stays in its range.
LEMMA CountedIs ==
  ASSUME TypeInv
  PROVE  /\ Counted \in [state : {"IDLE", "PENDING"}, seq : 0 .. MaxReloads,
                         retries_left : 0 .. CMD_MAX_RETRIES, payload : Configs]
         /\ Counted.state = cmd.state
         /\ Counted.seq = cmd.seq
         /\ Counted.payload = cmd.payload
<1>1. cmd \in [state : {"IDLE", "PENDING"}, seq : 0 .. MaxReloads,
              retries_left : 0 .. CMD_MAX_RETRIES, payload : Configs]
  BY DEF TypeInv, TypeOK, CmdTypeOK
<1> DEFINE left == IF Pending /\ cmd.retries_left > 0 THEN cmd.retries_left - 1
                   ELSE cmd.retries_left
<1>2. left \in 0 .. CMD_MAX_RETRIES
  BY <1>1, Constants
<1>3. Counted = [cmd EXCEPT !.retries_left = left]
  BY DEF Counted
<1> HIDE DEF left
<1> QED
  BY <1>1, <1>2, <1>3

\* An accepted frame ends the command in flight or leaves it; it ends it with
\* an ACK only if the STM32 reports the ACK of that very command.
LEMMA ObservedIs ==
  ASSUME TypeInv
  PROVE  /\ Observed \in {"none", "acked", "nacked", "gaveup"}
         /\ Observed # "none" => Pending
         /\ Observed = "acked" => stm.ack.seq = cmd.seq /\ stm.ack.result = "ok"
BY DEF TypeInv, TypeOK, StmTypeOK, CmdTypeOK, Observed, Pending

\* The difference of two frame numbers is a number.
LEMMA SeqDiffIsInt ==
  ASSUME TypeInv
  PROVE  SeqDiff \in Int
<1> DEFINE d == (stm.seq - last_seq) % FrameSeqMod
<1>1. stm.seq - last_seq \in Int /\ FrameSeqMod \in Nat \ {0}
  BY Constants DEF TypeInv, TypeOK, StmTypeOK
<1>2. d \in Int
  <2>1. d \in 0 .. FrameSeqMod - 1
    BY <1>1, ModDef, Zenon
  <2> QED
    BY <1>1, <2>1
<1> HIDE DEF d
<1>3. (IF 2 * d >= FrameSeqMod THEN d - FrameSeqMod ELSE d) \in Int
  BY <1>1, <1>2
<1> QED
  BY <1>3 DEF SeqDiff, d

\* The accounting of a frame is a report.
LEMMA AccountedIs ==
  ASSUME TypeInv, NEW baseline \in BOOLEAN
  PROVE  Accounted(baseline) \in
           [kind : {"none", "first", "duplicate", "next", "gap", "reset"}, lost : Nat]
<1>1. SeqDiff \in Int
  BY SeqDiffIsInt
<1>2. CASE ~baseline
  BY <1>2 DEF Accounted
<1>3. CASE baseline
  <2>1. SeqDiff = 0 \/ SeqDiff = 1 \/ SeqDiff > 1 \/ SeqDiff < 0
    BY <1>1
  <2>2. CASE SeqDiff = 0
    BY <1>3, <2>2 DEF Accounted
  <2>3. CASE SeqDiff = 1
    BY <1>3, <2>3 DEF Accounted
  <2>4. CASE SeqDiff > 1
    BY <1>1, <1>3, <2>4 DEF Accounted
  <2>5. CASE SeqDiff < 0
    BY <1>1, <1>3, <2>5 DEF Accounted
  <2> QED
    BY <2>1, <2>2, <2>3, <2>4, <2>5
<1> QED
  BY <1>2, <1>3

-----------------------------------------------------------------------------
(* TYPES                                                                   *)

LEMMA InitInv == Init => IInv
<1> SUFFICES ASSUME Init PROVE IInv
  OBVIOUS
<1> USE DEF Init, CmdInit, StmBoot, NoCmd, Pending
<1>1. TypeInv
  <2>1. CmdTypeOK
    BY Constants DEF CmdTypeOK, Configs
  <2>2. StmTypeOK
    BY Constants DEF StmTypeOK, Configs
  <2>3. active_stm \in Configs /\ requests \in Seq(Payloads)
    BY DEF Configs
  <2>4. /\ last_seq \in 0 .. FrameSeqMod - 1
        /\ unread \in 0 .. FrameSeqMod
        /\ reloads \in 0 .. MaxReloads
        /\ restarts \in 0 .. MaxRestarts
        /\ bad_read_count \in 0 .. 2
    BY Constants
  <2>5. TypeOK
    BY <2>1, <2>2, <2>3, <2>4 DEF TypeOK, NoReport
  <2> QED
    BY <2>5 DEF TypeInv
<1>2. ProtocolInv
  BY DEF ProtocolInv, CmdInv, StmInv, AckInv
<1>3. BaselineInv
  <2>1. ~have_last
    OBVIOUS
  <2> QED
    BY <2>1 DEF BaselineInv
<1> QED
  BY <1>1, <1>2, <1>3 DEF IInv

\* A queued command is a reload that changed the STM tier.
LEMMA TypeReload ==
  ASSUME TypeInv, NEW next \in Payloads, NEW spi_changed \in BOOLEAN,
         Reload(next, spi_changed)
  PROVE  TypeInv'
<1> USE DEF TypeInv, TypeOK, Reload
<1>1. reloads' = reloads + 1 /\ reloads' \in 0 .. MaxReloads
  BY Constants
<1>2. have_last' \in BOOLEAN
  BY Zenon
<1>3. UNCHANGED <<active_stm, last_seq, bad_read_count, stm, restarts, unread, report>>
  OBVIOUS
<1>4. StmTypeOK' /\ stm'.queue.seq <= reloads' /\ stm'.ack.seq <= reloads'
      /\ stm'.cfg_seq <= reloads' /\ (stm'.queue # NoCmd => stm'.queue.payload \in Payloads)
  BY <1>1, <1>3 DEF StmTypeOK
<1>5. CASE next # cfg_stm
  <2>1. /\ cmd' = Queued(next)
        /\ cfg_stm' = next
        /\ requests' = Append(requests, next)
        /\ outcome' = "none"
    BY <1>5
  <2>2. cmd.seq + 1 \in 0 .. MaxReloads /\ cmd.seq + 1 <= reloads'
    BY <1>1, Constants DEF CmdTypeOK
  <2>3. CmdTypeOK' /\ cmd'.seq <= reloads' /\ cmd'.payload \in Payloads
    BY <2>1, <2>2, Constants DEF CmdTypeOK, Queued, Configs
  <2>4. requests' \in Seq(Payloads)
    BY <2>1
  <2> QED
    BY <1>1, <1>2, <1>3, <1>4, <2>1, <2>3, <2>4 DEF Configs
<1>6. CASE next = cfg_stm
  <2>1. cmd' = (IF spi_changed THEN Refreshed ELSE cmd) /\ UNCHANGED <<cfg_stm, requests, outcome>>
    BY <1>6
  <2>2. cmd' = cmd \/ cmd' = [cmd EXCEPT !.retries_left = CMD_MAX_RETRIES]
    BY <2>1 DEF Refreshed
  <2>3. CMD_MAX_RETRIES \in 0 .. CMD_MAX_RETRIES
    BY Constants
  <2>4. /\ CmdTypeOK'
        /\ cmd'.state = cmd.state /\ cmd'.seq = cmd.seq /\ cmd'.payload = cmd.payload
    BY <2>2, <2>3 DEF CmdTypeOK
  <2>5. cmd'.seq <= reloads' /\ (Pending' => cmd'.payload \in Payloads)
    BY <1>1, <2>4 DEF CmdTypeOK, Pending
  <2> QED
    BY <1>1, <1>2, <1>3, <1>4, <2>1, <2>4, <2>5 DEF Configs
<1> QED
  BY <1>5, <1>6

\* A frame is accepted.
LEMMA TypeAccept ==
  ASSUME TypeInv, NEW delivered \in BOOLEAN, Accept(delivered)
  PROVE  TypeInv'
<1> USE DEF TypeInv, TypeOK, Accept
<1>1. /\ stm' = stm \/ stm' = Delivered
      /\ StmTypeOK' /\ stm'.queue.seq <= reloads /\ stm'.ack.seq <= reloads
      /\ stm'.cfg_seq <= reloads
      /\ stm'.queue # NoCmd => stm'.queue.payload \in Payloads
  BY DeliveredIs DEF StmTypeOK, StmStates
<1>2. CmdTypeOK' /\ cmd'.seq <= reloads /\ (Pending' => cmd'.payload \in Payloads)
  BY CountedIs, ObservedIs DEF CmdTypeOK, Pending
<1>3. active_stm' \in Configs
  BY DEF CmdTypeOK
<1>4. outcome' \in {"none", "acked", "nacked", "gaveup"}
  BY ObservedIs
<1>5. report' \in [kind : {"none", "first", "duplicate", "next", "gap", "reset"}, lost : Nat]
  <2>1. (have_last /\ Observed # "acked") \in BOOLEAN
    BY Zenon
  <2> QED
    BY <2>1, AccountedIs, Zenon
<1>6. last_seq' \in 0 .. FrameSeqMod - 1 /\ unread' \in 0 .. FrameSeqMod /\ bad_read_count' \in 0 .. 2
  BY Constants DEF StmTypeOK
<1>7. have_last' \in BOOLEAN
  BY Zenon
<1>8. UNCHANGED <<cfg_stm, requests, reloads, restarts>>
  OBVIOUS
<1> QED
  BY <1>1, <1>2, <1>3, <1>4, <1>5, <1>6, <1>7, <1>8

\* A frame is rejected.
LEMMA TypeRejected ==
  ASSUME TypeInv, NEW delivered \in BOOLEAN, Reject(delivered)
  PROVE  TypeInv'
<1> USE DEF TypeInv, TypeOK, Reject
<1>1. /\ StmTypeOK' /\ stm'.queue.seq <= reloads /\ stm'.ack.seq <= reloads
      /\ stm'.cfg_seq <= reloads
      /\ stm'.queue # NoCmd => stm'.queue.payload \in Payloads
  BY DeliveredIs DEF StmTypeOK, StmStates
<1>2. have_last' \in BOOLEAN
  BY Zenon
<1> QED
  BY <1>1, <1>2 DEF CmdTypeOK, Pending

\* What the STM32 arms next keeps the types if all but its number has them.
LEMMA TypeArms ==
  ASSUME TypeInv,
         NEW next \in StmStates,
         next.queue.seq <= reloads, next.ack.seq <= reloads, next.cfg_seq <= reloads,
         next.queue # NoCmd => next.queue.payload \in Payloads,
         StmArms(next)
  PROVE  TypeInv'
<1> USE DEF TypeInv, TypeOK, StmArms
<1>1. NextSeq \in 0 .. FrameSeqMod - 1
  <2>1. stm.seq + 1 \in Int /\ FrameSeqMod \in Nat \ {0}
    BY Constants DEF StmTypeOK
  <2> QED
    BY <2>1, ModDef, Zenon DEF NextSeq
<1>2. stm' = [next EXCEPT !.seq = NextSeq]
  OBVIOUS
<1>3. StmTypeOK' /\ stm'.queue.seq <= reloads /\ stm'.ack.seq <= reloads
      /\ stm'.cfg_seq <= reloads /\ (stm'.queue # NoCmd => stm'.queue.payload \in Payloads)
  BY <1>1, <1>2 DEF StmTypeOK, StmStates
<1>4. unread' \in 0 .. FrameSeqMod
  BY Constants
<1> QED
  BY <1>3, <1>4 DEF ctrlVars, CmdTypeOK, Pending

\* The STM32 arms a frame.
LEMMA TypeStm == ASSUME TypeInv, StmBlock \/ StmDecide PROVE TypeInv'
<1> USE DEF TypeInv, TypeOK, StmTypeOK, StmStates
<1>1. CASE StmArms([stm EXCEPT !.applied = FALSE])
  <2> DEFINE next == [stm EXCEPT !.applied = FALSE]
  <2>1. next \in StmStates
    OBVIOUS
  <2>2. next.queue = stm.queue /\ next.ack = stm.ack /\ next.cfg_seq = stm.cfg_seq
    OBVIOUS
  <2> HIDE DEF next
  <2>3. StmArms(next)
    BY <1>1 DEF next
  <2> QED
    BY <2>1, <2>2, <2>3, TypeArms
<1>2. CASE StmArms([stm EXCEPT !.applied = FALSE,
                               !.ack = [seq |-> stm.queue.seq, result |-> "none"]])
  <2> DEFINE next == [stm EXCEPT !.applied = FALSE,
                                 !.ack = [seq |-> stm.queue.seq, result |-> "none"]]
  <2>1. next \in StmStates
    OBVIOUS
  <2>2. next.queue = stm.queue /\ next.ack.seq = stm.queue.seq /\ next.cfg_seq = stm.cfg_seq
    OBVIOUS
  <2> HIDE DEF next
  <2>3. StmArms(next)
    BY <1>2 DEF next
  <2> QED
    BY <2>1, <2>2, <2>3, TypeArms
<1>3. CASE StmApply
  <2>1. PICK again \in BOOLEAN :
          StmArms([stm EXCEPT
            !.cfg     = IF again THEN stm.queue.payload ELSE @,
            !.cfg_seq = IF again THEN stm.queue.seq ELSE @,
            !.applied = again,
            !.ack     = [seq |-> stm.queue.seq, result |-> "ok"],
            !.queue   = NoCmd])
    BY <1>3 DEF StmApply
  <2> DEFINE next == [stm EXCEPT
                        !.cfg     = IF again THEN stm.queue.payload ELSE @,
                        !.cfg_seq = IF again THEN stm.queue.seq ELSE @,
                        !.applied = again,
                        !.ack     = [seq |-> stm.queue.seq, result |-> "ok"],
                        !.queue   = NoCmd]
  <2>2. stm.queue.payload \in Payloads
    BY <1>3 DEF StmApply
  <2>3. NoCmd \in [seq : 0 .. MaxReloads, payload : Configs] /\ NoCmd.seq = 0
    BY Constants DEF NoCmd, Configs
  <2>4. next \in StmStates
    BY <2>2, <2>3
  <2>5. /\ next.queue = NoCmd /\ next.ack.seq = stm.queue.seq
        /\ next.cfg_seq = stm.queue.seq \/ next.cfg_seq = stm.cfg_seq
    OBVIOUS
  <2> HIDE DEF next
  <2>6. StmArms(next)
    BY <2>1 DEF next
  <2> QED
    BY <2>3, <2>4, <2>5, <2>6, TypeArms
<1>4. CASE StmReject
  <2> DEFINE next == [stm EXCEPT !.applied = FALSE,
                                 !.ack = [seq |-> stm.queue.seq, result |-> "nack"],
                                 !.queue = NoCmd]
  <2>1. NoCmd \in [seq : 0 .. MaxReloads, payload : Configs] /\ NoCmd.seq = 0
    BY Constants DEF NoCmd, Configs
  <2>2. next \in StmStates
    BY <2>1
  <2>3. next.queue = NoCmd /\ next.ack.seq = stm.queue.seq /\ next.cfg_seq = stm.cfg_seq
    OBVIOUS
  <2> HIDE DEF next
  <2>4. StmArms(next)
    BY <1>4 DEF StmReject, next
  <2> QED
    BY <2>1, <2>2, <2>3, <2>4, TypeArms
<1> QED
  BY <1>1, <1>2, <1>3, <1>4 DEF StmBlock, StmDecide

\* No step leaves the types.
LEMMA TypeStep == ASSUME TypeInv, [Next]_vars PROVE TypeInv'
<1>1. ASSUME NEW next \in Payloads, NEW spi_changed \in BOOLEAN, Reload(next, spi_changed)
      PROVE  TypeInv'
  BY <1>1, TypeReload
<1>2. CASE CleanExchange
  BY <1>2, TypeAccept, TypeRejected DEF CleanExchange
<1>3. CASE GarbledExchange
  BY <1>3, TypeRejected DEF GarbledExchange
<1>4. CASE SpiError
  <2> USE <1>4 DEF SpiError, TypeInv, TypeOK
  <2>1. have_last' \in BOOLEAN
    BY Zenon
  <2>2. bad_read_count' \in 0 .. 2
    OBVIOUS
  <2> QED
    BY <2>1, <2>2 DEF CmdTypeOK, StmTypeOK, Pending
<1>5. CASE CtrlRestart
  <2> USE <1>5 DEF CtrlRestart, TypeInv, TypeOK
  <2>1. CmdTypeOK' /\ ~Pending' /\ cmd'.seq = 0
    BY Constants DEF CmdTypeOK, CmdInit, Configs, Pending
  <2>2. have_last' \in BOOLEAN
    BY Zenon
  <2>3. /\ last_seq' \in 0 .. FrameSeqMod - 1 /\ restarts' \in 0 .. MaxRestarts
        /\ bad_read_count' \in 0 .. 2 /\ requests' \in Seq(Payloads)
        /\ active_stm' \in Configs
    BY Constants DEF Configs
  <2>4. cfg_stm' \in Payloads /\ UNCHANGED <<stm, reloads, unread>>
    OBVIOUS
  <2>5. outcome' \in {"none", "acked", "nacked", "gaveup"}
        /\ report' \in [kind : {"none", "first", "duplicate", "next", "gap", "reset"}, lost : Nat]
    BY DEF NoReport
  <2> QED
    BY <2>1, <2>2, <2>3, <2>4, <2>5 DEF StmTypeOK
<1>6. CASE StmBlock \/ StmDecide
  BY <1>6, TypeStm
<1>7. CASE UNCHANGED vars
  BY <1>7 DEF vars, TypeInv, TypeOK, CmdTypeOK, StmTypeOK, Pending
<1> QED
  BY <1>1, <1>2, <1>3, <1>4, <1>5, <1>6, <1>7 DEF Next, Controller

-----------------------------------------------------------------------------
(* THE PROTOCOL                                                            *)

Protocol == CmdInv /\ StmInv /\ AckInv

\* A new request is the latest one; what the STM32 holds are older ones.
LEMMA ProtocolReload ==
  ASSUME TypeInv, Protocol, NEW next \in Payloads, NEW spi_changed \in BOOLEAN,
         Reload(next, spi_changed)
  PROVE  Protocol'
<1> USE DEF Reload, Protocol
<1>1. UNCHANGED <<active_stm, stm>>
  OBVIOUS
<1>2. /\ cmd.seq \in Nat /\ requests \in Seq(Payloads)
      /\ stm.queue.seq \in Nat /\ stm.cfg_seq \in Nat /\ stm.ack.seq \in Nat
  BY DEF TypeInv, TypeOK, CmdTypeOK, StmTypeOK
<1>3. CASE next # cfg_stm
  <2>1. /\ cmd'.seq = cmd.seq + 1 /\ cmd'.payload = next /\ cmd'.state = "PENDING"
        /\ requests' = Append(requests, next)
    BY <1>3 DEF Queued
  <2>2. \A i \in 1 .. Len(requests) : requests'[i] = requests[i]
    BY <1>2, <2>1
  <2>3. CmdInv'
    BY <1>2, <2>1 DEF CmdInv
  <2>4. StmInv'
    BY <1>1, <1>2, <2>1, <2>2 DEF StmInv, CmdInv
  <2>5. AckInv'
    BY <2>1 DEF AckInv, Pending
  <2> QED
    BY <2>3, <2>4, <2>5
<1>4. CASE next = cfg_stm
  <2>1. cmd' = cmd \/ cmd' = [cmd EXCEPT !.retries_left = CMD_MAX_RETRIES]
    BY <1>4 DEF Refreshed
  <2>2. cmd'.seq = cmd.seq /\ cmd'.payload = cmd.payload /\ cmd'.state = cmd.state
    BY <2>1 DEF TypeInv, TypeOK, CmdTypeOK
  <2>3. UNCHANGED <<requests, outcome>>
    BY <1>4
  <2> QED
    BY <1>1, <2>2, <2>3 DEF CmdInv, StmInv, AckInv, Pending
<1> QED
  BY <1>3, <1>4

\* A delivered command is the latest request.
LEMMA ProtocolDelivered ==
  ASSUME TypeInv, CmdInv, StmInv, stm' = stm \/ stm' = Delivered,
         cmd'.seq = cmd.seq, requests' = requests
  PROVE  StmInv'
<1>1. /\ stm'.cfg = stm.cfg /\ stm'.cfg_seq = stm.cfg_seq /\ stm'.ack = stm.ack
      /\ \/ stm'.queue = stm.queue
         \/ Pending /\ stm'.queue = [seq |-> cmd.seq, payload |-> cmd.payload]
  BY DeliveredIs
<1>2. cmd.seq \in Nat /\ stm.cfg_seq \in Nat
  BY DEF TypeInv, TypeOK, CmdTypeOK, StmTypeOK
<1>3. Pending => /\ cmd.seq \in 1 .. cmd.seq
                 /\ cmd.payload = requests[cmd.seq]
                 /\ stm.cfg_seq <= cmd.seq
  BY <1>2 DEF CmdInv, StmInv
<1> QED
  BY <1>1, <1>3 DEF StmInv

\* An ACK is believed only when it is that of the latest request.
LEMMA ProtocolAccept ==
  ASSUME TypeInv, Protocol, NEW delivered \in BOOLEAN, Accept(delivered)
  PROVE  Protocol'
<1> USE DEF Accept, Protocol
<1>1. /\ cmd'.seq = cmd.seq /\ cmd'.payload = cmd.payload
      /\ cmd'.state = IF Observed = "none" THEN cmd.state ELSE "IDLE"
      /\ requests' = requests
  BY CountedIs
<1>2. stm' = stm \/ stm' = Delivered
  OBVIOUS
<1>3. CmdInv'
  BY <1>1 DEF CmdInv, Pending
<1>4. StmInv'
  BY <1>1, <1>2, ProtocolDelivered
<1>5. AckInv'
  <2>1. stm'.cfg_seq = stm.cfg_seq
    BY <1>2, DeliveredIs
  <2>2. CASE Observed = "none"
    BY <1>1, <2>1, <2>2 DEF AckInv, Pending
  <2>3. CASE Observed = "acked"
    BY <1>1, <2>1, <2>3, ObservedIs DEF AckInv, StmInv, CmdInv, Pending
  <2>4. CASE Observed \notin {"none", "acked"}
    BY <2>4 DEF AckInv
  <2> QED
    BY <2>2, <2>3, <2>4
<1> QED
  BY <1>3, <1>4, <1>5

\* A rejected frame may still have delivered the command.
LEMMA ProtocolRejected ==
  ASSUME TypeInv, Protocol, NEW delivered \in BOOLEAN, Reject(delivered)
  PROVE  Protocol'
<1> USE DEF Reject, Protocol
<1>1. /\ stm' = stm \/ stm' = Delivered
      /\ UNCHANGED <<cmd, requests, active_stm, outcome>>
  OBVIOUS
<1>2. StmInv'
  BY <1>1, ProtocolDelivered
<1>3. CmdInv' /\ AckInv'
  BY <1>1, DeliveredIs DEF CmdInv, AckInv, Pending
<1> QED
  BY <1>2, <1>3

\* What the STM32 decides on is a request no older than any it carried out.
LEMMA ProtocolStm ==
  ASSUME TypeInv, Protocol, StmBlock \/ StmDecide
  PROVE  Protocol'
<1> USE DEF Protocol, StmArms, TypeInv, TypeOK, StmTypeOK, CmdTypeOK
<1>1. UNCHANGED <<cmd, requests, active_stm, outcome>>
  BY DEF StmBlock, StmDecide, StmApply, StmReject, ctrlVars
<1>2. CmdInv'
  BY <1>1 DEF CmdInv, Pending
<1>3. CASE StmBlock
  <2>1. /\ stm'.queue = stm.queue /\ stm'.cfg = stm.cfg /\ stm'.cfg_seq = stm.cfg_seq
        /\ \/ stm'.ack = stm.ack
           \/ stm.queue # NoCmd /\ stm'.ack = [seq |-> stm.queue.seq, result |-> "none"]
    BY <1>3 DEF StmBlock
  <2> QED
    BY <1>1, <1>2, <2>1 DEF StmInv, AckInv, Pending
<1>4. CASE StmApply
  <2>1. /\ stm.queue # NoCmd
        /\ stm'.queue = NoCmd
        /\ stm'.ack = [seq |-> stm.queue.seq, result |-> "ok"]
        /\ \/ stm'.cfg = stm.queue.payload /\ stm'.cfg_seq = stm.queue.seq
           \/ stm'.cfg = stm.cfg /\ stm'.cfg_seq = stm.cfg_seq /\ stm'.ack = stm.ack
    BY <1>4 DEF StmApply
  <2>2. StmInv'
    BY <1>1, <2>1 DEF StmInv
  <2>3. AckInv'
    BY <1>1, <2>1 DEF StmInv, AckInv, Pending
  <2> QED
    BY <1>2, <2>2, <2>3
<1>5. CASE StmReject
  <2>1. /\ stm.queue # NoCmd
        /\ stm'.queue = NoCmd /\ stm'.cfg = stm.cfg /\ stm'.cfg_seq = stm.cfg_seq
        /\ stm'.ack = [seq |-> stm.queue.seq, result |-> "nack"]
    BY <1>5 DEF StmReject
  <2> QED
    BY <1>1, <1>2, <2>1 DEF StmInv, AckInv, Pending
<1> QED
  BY <1>3, <1>4, <1>5 DEF StmDecide

\* The protocol survives every step until the controller is restarted.
LEMMA ProtocolStep ==
  ASSUME TypeInv, ProtocolInv, [Next]_vars
  PROVE  ProtocolInv'
<1> SUFFICES ASSUME restarts' = 0 PROVE Protocol'
  BY DEF ProtocolInv, Protocol
<1>1. restarts \in Nat
  BY DEF TypeInv, TypeOK
<1>2. restarts = 0 => Protocol
  BY DEF ProtocolInv, Protocol
<1>3. ASSUME NEW next \in Payloads, NEW spi_changed \in BOOLEAN, Reload(next, spi_changed)
      PROVE  Protocol'
  BY <1>2, <1>3, ProtocolReload DEF Reload
<1>4. ASSUME NEW delivered \in BOOLEAN, Accept(delivered) PROVE Protocol'
  BY <1>2, <1>4, ProtocolAccept DEF Accept
<1>5. ASSUME NEW delivered \in BOOLEAN, Reject(delivered) PROVE Protocol'
  BY <1>2, <1>5, ProtocolRejected DEF Reject
<1>6. CASE SpiError
  BY <1>2, <1>6 DEF SpiError, Protocol, CmdInv, StmInv, AckInv, Pending
<1>7. CASE CtrlRestart
  BY <1>1, <1>7 DEF CtrlRestart
<1>8. CASE StmBlock \/ StmDecide
  <2>1. restarts = 0
    BY <1>8 DEF StmBlock, StmDecide, StmApply, StmReject, StmArms
  <2> QED
    BY <1>2, <1>8, <2>1, ProtocolStm
<1>9. CASE UNCHANGED vars
  BY <1>2, <1>9 DEF vars, Protocol, CmdInv, StmInv, AckInv, Pending
<1> QED
  BY <1>3, <1>4, <1>5, <1>6, <1>7, <1>8, <1>9
     DEF Next, Controller, CleanExchange, GarbledExchange

-----------------------------------------------------------------------------
(* THE SEQUENCE ACCOUNTING                                                 *)

\* Arming a frame moves its number and the count of unread frames on together.
LEMMA BaselineArms ==
  ASSUME TypeInv, BaselineInv, stm'.seq = NextSeq,
         unread' = IF unread < FrameSeqMod THEN unread + 1 ELSE unread,
         UNCHANGED <<have_last, last_seq>>
  PROVE  BaselineInv'
<1> SUFFICES ASSUME have_last, unread' < FrameSeqMod
             PROVE  stm'.seq = (last_seq + unread') % FrameSeqMod
  BY DEF BaselineInv
<1>1. /\ unread \in Int /\ last_seq \in Int /\ FrameSeqMod \in Nat \ {0}
      /\ last_seq + unread \in Int /\ 1 \in Int
  BY Constants DEF TypeInv, TypeOK
<1>2. unread < FrameSeqMod /\ unread' = unread + 1
  BY <1>1, Constants
<1>3. stm.seq = (last_seq + unread) % FrameSeqMod
  BY <1>2 DEF BaselineInv
<1>4. (1 + ((last_seq + unread) % FrameSeqMod)) % FrameSeqMod
        = (1 + (last_seq + unread)) % FrameSeqMod
  BY <1>1, ModAdd, Zenon
<1>5. stm.seq \in Int
  BY DEF TypeInv, TypeOK, StmTypeOK
<1>6. stm.seq + 1 = 1 + stm.seq /\ last_seq + unread' = 1 + (last_seq + unread)
  BY <1>1, <1>2, <1>5
<1>7. NextSeq = (1 + stm.seq) % FrameSeqMod
  BY <1>6, Zenon DEF NextSeq
<1> QED
  BY <1>3, <1>4, <1>6, <1>7, Zenon

\* No step breaks the relation of baseline, armed frame and unread frames.
LEMMA BaselineStep ==
  ASSUME TypeInv, BaselineInv, [Next]_vars
  PROVE  BaselineInv'
<1>1. ASSUME NEW next \in Payloads, NEW spi_changed \in BOOLEAN, Reload(next, spi_changed)
      PROVE  BaselineInv'
  BY <1>1 DEF Reload, BaselineInv
<1>2. ASSUME NEW delivered \in BOOLEAN, Accept(delivered) PROVE BaselineInv'
  <2>1. last_seq' = stm.seq /\ unread' = 0 /\ stm'.seq = stm.seq
    BY <1>2, DeliveredIs DEF Accept
  <2>2. stm.seq \in 0 .. FrameSeqMod - 1 /\ FrameSeqMod \in Nat \ {0}
    BY Constants DEF TypeInv, TypeOK, StmTypeOK
  <2>3. stm.seq % FrameSeqMod = stm.seq
    BY <2>2, ModSmall, Zenon
  <2>4. last_seq' + unread' = stm.seq
    BY <2>1, <2>2
  <2> QED
    BY <2>1, <2>3, <2>4, Zenon DEF BaselineInv
<1>3. ASSUME NEW delivered \in BOOLEAN, Reject(delivered) PROVE BaselineInv'
  BY <1>3 DEF Reject, BaselineInv
<1>4. CASE SpiError
  BY <1>4 DEF SpiError, BaselineInv
<1>5. CASE CtrlRestart
  BY <1>5 DEF CtrlRestart, BaselineInv
<1>6. CASE StmBlock \/ StmDecide
  <2>1. stm'.seq = NextSeq
    BY <1>6 DEF StmBlock, StmDecide, StmApply, StmReject, StmArms, TypeInv, TypeOK, StmTypeOK
  <2>2. /\ unread' = IF unread < FrameSeqMod THEN unread + 1 ELSE unread
        /\ UNCHANGED <<have_last, last_seq>>
    BY <1>6 DEF StmBlock, StmDecide, StmApply, StmReject, StmArms, ctrlVars
  <2> QED
    BY <2>1, <2>2, BaselineArms
<1>7. CASE UNCHANGED vars
  BY <1>7 DEF vars, BaselineInv
<1> QED
  BY <1>1, <1>2, <1>3, <1>4, <1>5, <1>6, <1>7
     DEF Next, Controller, CleanExchange, GarbledExchange

\* With a baseline and fewer than half the range unread, the signed difference
\* of the numbers is the number of unread frames.
LEMMA SeqDiffIsUnread ==
  ASSUME TypeInv, BaselineInv, have_last, 2 * unread < FrameSeqMod
  PROVE  SeqDiff = unread
<1>1. /\ unread \in Nat /\ last_seq \in Int /\ FrameSeqMod \in Nat \ {0}
      /\ stm.seq \in Int /\ last_seq + unread \in Int /\ 0 - last_seq \in Int
  BY Constants DEF TypeInv, TypeOK, StmTypeOK
<1>2. stm.seq = (last_seq + unread) % FrameSeqMod
  BY <1>1 DEF BaselineInv
<1>3. ((0 - last_seq) + ((last_seq + unread) % FrameSeqMod)) % FrameSeqMod
        = ((0 - last_seq) + (last_seq + unread)) % FrameSeqMod
  BY <1>1, ModAdd, Zenon
<1>4. (0 - last_seq) + (last_seq + unread) = unread /\ (0 - last_seq) + stm.seq = stm.seq - last_seq
  BY <1>1
<1>5. unread \in 0 .. FrameSeqMod - 1
  BY <1>1
<1>6. unread % FrameSeqMod = unread
  BY <1>1, <1>5, ModSmall, Zenon
<1> DEFINE d == (stm.seq - last_seq) % FrameSeqMod
<1>7. d = unread
  BY <1>2, <1>3, <1>4, <1>6, Zenon
<1> HIDE DEF d
<1>8. (IF 2 * d >= FrameSeqMod THEN d - FrameSeqMod ELSE d) = unread
  BY <1>1, <1>7
<1> QED
  BY <1>8 DEF SeqDiff, d

\* What the last accepted frame is taken for is what became of the frames.
LEMMA AcceptCounts ==
  ASSUME TypeInv, BaselineInv, NEW delivered \in BOOLEAN, Accept(delivered),
         have_last, Observed # "acked", 2 * unread < FrameSeqMod
  PROVE  IF unread = 0 THEN report'.kind = "duplicate"
         ELSE report'.kind \in {"next", "gap"} /\ report'.lost = unread - 1
<1>1. SeqDiff = unread /\ unread \in Nat
  BY SeqDiffIsUnread DEF TypeInv, TypeOK
<1>2. report' = Accounted(TRUE)
  BY DEF Accept
<1>3. CASE unread = 0
  BY <1>1, <1>2, <1>3 DEF Accounted
<1>4. CASE unread = 1
  BY <1>1, <1>2, <1>4 DEF Accounted
<1>5. CASE unread > 1
  BY <1>1, <1>2, <1>5 DEF Accounted
<1> QED
  BY <1>1, <1>3, <1>4, <1>5

-----------------------------------------------------------------------------
(* THE THEOREMS                                                            *)

\* IInv holds in every reachable state, restarts of the controller included.
THEOREM LinkInvariant == Spec => []IInv
<1>1. IInv /\ [Next]_vars => IInv'
  BY TypeStep, ProtocolStep, BaselineStep DEF IInv
<1> QED
  BY InitInv, <1>1, PTL DEF Spec

\* Every variable keeps its type; the retry budget never goes below zero.
THEOREM TypeCorrect == Spec => []TypeOK
<1>1. IInv => TypeOK
  BY DEF IInv, TypeInv
<1> QED
  BY LinkInvariant, <1>1, PTL

\* As long as the controller has not been restarted, the configuration it took
\* from an ACK is the one the STM32 runs, until the next command.
THEOREM AckIsTrue == Spec => [](restarts = 0 => AckedIsRunning)
<1>1. IInv => (restarts = 0 => AckedIsRunning)
  BY DEF IInv, ProtocolInv, CmdInv, StmInv, AckInv, AckedIsRunning
<1> QED
  BY LinkInvariant, <1>1, PTL

\* In every behaviour, restarts included, the accounting of an accepted frame
\* counts exactly the frames that were armed and not accepted since the last,
\* if those are fewer than half the range of seq.
THEOREM LossesAreCounted == Spec => AccountingExact
<1> DEFINE Exact ==
      FrameAccepted /\ have_last /\ Observed # "acked" /\ 2 * unread < FrameSeqMod
        => IF unread = 0 THEN report'.kind = "duplicate"
           ELSE /\ report'.kind \in {"next", "gap"}
                /\ report'.lost = unread - 1
<1>1. IInv => Exact
  BY AcceptCounts DEF IInv, FrameAccepted
<1> HIDE DEF Exact
<1>2. []IInv => [][Exact]_vars
  BY <1>1, PTL
<1> QED
  BY LinkInvariant, <1>2, PTL DEF AccountingExact, Exact

-----------------------------------------------------------------------------
(* THE REFINEMENT: MotorLink implements SetConfig until a restart          *)

\* A new request, or nothing.
LEMMA RefineReload ==
  ASSUME TypeInv, NEW next \in Payloads, NEW spi_changed \in BOOLEAN,
         Reload(next, spi_changed)
  PROVE  Abs!SNext \/ UNCHANGED Abs!svars
<1> USE DEF Reload
<1>1. UNCHANGED <<active_stm, stm>>
  OBVIOUS
<1>2. CASE next # cfg_stm
  <2>1. requests' = Append(requests, next) /\ cmd'.state = "PENDING"
    BY <1>2 DEF Queued
  <2>2. Abs!Request(next)
    BY <1>1, <2>1 DEF Abs!Request, Pending
  <2> QED
    BY <2>2 DEF Abs!SNext
<1>3. CASE next = cfg_stm
  <2>1. cmd' = cmd \/ cmd' = [cmd EXCEPT !.retries_left = CMD_MAX_RETRIES]
    BY <1>3 DEF Refreshed
  <2>2. cmd'.state = cmd.state /\ UNCHANGED requests
    BY <1>3, <2>1 DEF TypeInv, TypeOK, CmdTypeOK
  <2> QED
    BY <1>1, <2>2 DEF Abs!svars, Pending
<1> QED
  BY <1>2, <1>3

\* The command is concluded, abandoned or left as it is.
LEMMA RefineAccept ==
  ASSUME TypeInv, Protocol, NEW delivered \in BOOLEAN, Accept(delivered)
  PROVE  Abs!SNext \/ UNCHANGED Abs!svars
<1> USE DEF Accept
<1>1. /\ cmd'.state = IF Observed = "none" THEN cmd.state ELSE "IDLE"
      /\ UNCHANGED requests
  BY CountedIs
<1>2. stm'.cfg = stm.cfg /\ stm'.cfg_seq = stm.cfg_seq
  BY DeliveredIs
<1>3. CASE Observed = "none"
  BY <1>1, <1>2, <1>3 DEF Abs!svars, Pending
<1>4. CASE Observed = "acked"
  <2>1. Pending /\ ~Pending'
    BY <1>1, <1>4, ObservedIs DEF Pending
  <2>2. stm.cfg_seq = Len(requests) /\ cmd.payload = requests[Len(requests)]
    BY <1>4, <2>1, ObservedIs DEF Protocol, CmdInv, StmInv
  <2>3. active_stm' = cmd.payload
    BY <1>4
  <2>4. Abs!Conclude
    BY <1>1, <1>2, <2>1, <2>2, <2>3 DEF Abs!Conclude
  <2> QED
    BY <2>4 DEF Abs!SNext
<1>5. CASE Observed \notin {"none", "acked"}
  <2>1. Pending /\ ~Pending'
    BY <1>1, <1>5, ObservedIs DEF Pending
  <2>2. Abs!Abandon
    BY <1>1, <1>2, <1>5, <2>1 DEF Abs!Abandon
  <2> QED
    BY <2>2 DEF Abs!SNext
<1> QED
  BY <1>3, <1>4, <1>5

\* The STM32 carries out a newer request, repeats one, or does nothing.
LEMMA RefineStm ==
  ASSUME TypeInv, Protocol, StmBlock \/ StmDecide
  PROVE  Abs!SNext \/ UNCHANGED Abs!svars
<1> USE DEF StmArms, TypeInv, TypeOK, StmTypeOK, CmdTypeOK
<1>1. UNCHANGED <<cmd, requests, active_stm>>
  BY DEF StmBlock, StmDecide, StmApply, StmReject, ctrlVars
<1>2. CASE stm'.cfg = stm.cfg /\ stm'.cfg_seq = stm.cfg_seq
  BY <1>1, <1>2 DEF Abs!svars, Pending
<1>3. CASE ~(stm'.cfg = stm.cfg /\ stm'.cfg_seq = stm.cfg_seq)
  <2>1. /\ stm.queue # NoCmd
        /\ stm'.cfg = stm.queue.payload /\ stm'.cfg_seq = stm.queue.seq
    BY <1>3 DEF StmBlock, StmDecide, StmApply, StmReject
  <2>2. /\ stm.queue.seq \in 1 .. Len(requests)
        /\ stm.queue.payload = requests[stm.queue.seq]
        /\ stm.cfg_seq <= stm.queue.seq
    BY <2>1 DEF Protocol, CmdInv, StmInv
  <2>3. CASE stm.queue.seq = stm.cfg_seq
    BY <1>3, <2>1, <2>2, <2>3 DEF Protocol, StmInv
  <2>4. CASE stm.queue.seq > stm.cfg_seq
    <3>1. Abs!CarryOut(stm.queue.seq)
      BY <1>1, <2>1, <2>2, <2>4 DEF Abs!CarryOut, Pending
    <3> QED
      BY <2>2, <3>1 DEF Abs!SNext
  <2> QED
    BY <2>2, <2>3, <2>4
<1> QED
  BY <1>2, <1>3

\* Every step before a restart is one of SetConfig, or none.
LEMMA RefineStep ==
  ASSUME IInv, [Next]_vars, restarts = 0, restarts' = 0
  PROVE  [Abs!SNext]_(Abs!svars)
<1>1. TypeInv /\ Protocol
  BY DEF IInv, ProtocolInv, Protocol
<1>2. ASSUME NEW next \in Payloads, NEW spi_changed \in BOOLEAN, Reload(next, spi_changed)
      PROVE  Abs!SNext \/ UNCHANGED Abs!svars
  BY <1>1, <1>2, RefineReload
<1>3. ASSUME NEW delivered \in BOOLEAN, Accept(delivered)
      PROVE  Abs!SNext \/ UNCHANGED Abs!svars
  BY <1>1, <1>3, RefineAccept
<1>4. ASSUME NEW delivered \in BOOLEAN, Reject(delivered)
      PROVE  UNCHANGED Abs!svars
  <2>1. stm'.cfg = stm.cfg /\ stm'.cfg_seq = stm.cfg_seq
    BY <1>1, <1>4, DeliveredIs DEF Reject
  <2> QED
    BY <1>4, <2>1 DEF Reject, Abs!svars, Pending
<1>5. CASE SpiError
  BY <1>5 DEF SpiError, Abs!svars, Pending
<1>6. CASE CtrlRestart
  BY <1>6 DEF CtrlRestart
<1>7. CASE StmBlock \/ StmDecide
  BY <1>1, <1>7, RefineStm
<1>8. CASE UNCHANGED vars
  BY <1>8 DEF vars, Abs!svars, Pending
<1> QED
  BY <1>2, <1>3, <1>4, <1>5, <1>6, <1>7, <1>8
     DEF Next, Controller, CleanExchange, GarbledExchange

\* As long as the controller is not restarted, the link keeps the promise of
\* SetConfig: requests are carried out in order, none older after a newer one,
\* and a configuration is believed only when it is that of the latest request
\* and the STM32 has carried it out.
THEOREM LinkImplementsSetConfig == Spec /\ [](restarts = 0) => ImplementsSetConfig
<1>1. Init => Abs!SInit
  BY DEF Init, CmdInit, StmBoot, Pending, Abs!SInit
<1>2. IInv /\ [Next]_vars /\ restarts = 0 /\ (restarts = 0)' => [Abs!SNext]_(Abs!svars)
  BY RefineStep
<1> QED
  BY LinkInvariant, <1>1, <1>2, PTL DEF Spec, ImplementsSetConfig, Abs!SSpec

=============================================================================
