----------------------------- MODULE BlockRing -----------------------------
(***************************************************************************)
(* The block ring of motor_shm.h and its consumer, the drain loop of       *)
(* motor_monitor.c.                                                        *)
(*                                                                         *)
(* The producer writes every block into slot write_pos % depth under the   *)
(* seqlock of the slot and then advances write_pos.  A consumer has a read *)
(* position of its own and no way to slow the producer down: it may be     *)
(* lapped between two passes, and in the middle of a copy.                 *)
(*                                                                         *)
(* Every access to shared memory is a step of its own; the words of a slot *)
(* are stored and loaded in any order between the accesses to its seqlock. *)
(* A word holds the number of the block it was written from, counted from  *)
(* 1 over all lives of the producer; 0 is zeroed memory.  Positions are    *)
(* unsigned: the monitor's arithmetic on them is modulo PosMod (2^64).     *)
(*                                                                         *)
(* The module follows one shared-memory object, from its creation.  A      *)
(* process that starts initialises what it finds, store by store and in    *)
(* any order, since none of these stores is ordered; a monitor may attach  *)
(* as soon as it sees the magic.  An orderly exit unlinks the object: no   *)
(* process opens it again, and the monitor is left alone with it.          *)
(***************************************************************************)
EXTENDS Integers, FiniteSets

CONSTANTS
  Words,        \* the words of a slot (shm_block_t)
  Depth,        \* number of slots (MOTOR_RING_DEPTH, 16)
  MaxTries,     \* attempts of one motor_ring_read_slot call (64)
  PosMod,       \* modulus of a position (2^64)
  MaxBlock,     \* bound: blocks published in a behaviour
  MaxRestarts   \* bound: restarts of a crashed producer

ASSUME ConstantsAssumption ==
  /\ Words # {}
  /\ Depth \in Nat \ {0}
  /\ MaxTries \in Nat \ {0}
  /\ MaxBlock \in Nat
  /\ MaxRestarts \in Nat
  /\ PosMod \in Nat /\ PosMod > MaxBlock + Depth

VARIABLES
  \* ---- the shared ring, and the producer's progress
  write_pos,    \* committed blocks
  seq,          \* seqlock of each slot
  slots,        \* words of each slot
  magic,        \* the header is there: motor_shm_region_valid
  depth,        \* ring.depth
  linked,       \* the object still has its name
  up,           \* the producer process is running
  stage,        \* "init", "idle", "words", "advance": where the producer is
  toInit,       \* fields motor_shm_region_init has still to store
  toReset,      \* slots whose seqlock it has still to reset
  toWrite,      \* words it has still to store
  block,        \* blocks handed to motor_ring_publish so far
  \* ---- history: the life of the region
  epoch,        \* times write_pos was initialised
  base,         \* value of block when it last was
  \* ---- the monitor
  mpc,          \* "off", "sync", "drain", "try", "copy", "taken", "missed"
  read_pos,     \* its cursor
  wp,           \* write_pos as last loaded
  seen,         \* blocks_seen
  drops,        \* drops
  tries,        \* attempts of the call under way
  s1,           \* seqlock at the start of the attempt
  toRead,       \* words not yet copied
  out,          \* blk, the copy
  start,        \* history: cursor at attach
  life          \* history: epoch at attach

objectVars == <<magic, depth, linked, toInit, toReset>>
ringVars == <<write_pos, seq, slots, up, stage, toWrite, block, epoch, base,
              objectVars>>
callVars == <<tries, s1, toRead, out>>
cursorVars == <<read_pos, wp, seen, drops, start, life>>
vars == <<write_pos, seq, slots, up, stage, toWrite, block, epoch, base,
          magic, depth, linked, toInit, toReset,
          mpc, tries, s1, toRead, out, read_pos, wp, seen, drops, start, life>>

Slots == 0 .. Depth - 1
Slot(pos) == pos % Depth
Odd(n) == n % 2 = 1

\* Difference of two uint64_t positions.
Minus(a, b) == (a - b) % PosMod

-----------------------------------------------------------------------------
Init ==
  /\ write_pos = 0
  /\ seq = [i \in Slots |-> 0]
  /\ slots = [i \in Slots |-> [w \in Words |-> 0]]
  /\ magic = FALSE
  /\ depth = 0
  /\ linked = TRUE
  /\ up = FALSE
  /\ stage = "idle"
  /\ toInit = {}
  /\ toReset = {}
  /\ toWrite = {}
  /\ block = 0
  /\ epoch = 0
  /\ base = 0
  /\ mpc = "off"
  /\ tries = 0
  /\ s1 = 0
  /\ toRead = {}
  /\ out = [w \in Words |-> 0]
  /\ read_pos = 0
  /\ wp = 0
  /\ seen = 0
  /\ drops = 0
  /\ start = 0
  /\ life = 0

-----------------------------------------------------------------------------
(* PRODUCER: motor_ring_publish                                            *)

\* The slot of write_pos is marked as being written.
PublishBegin ==
  /\ up /\ stage = "idle" /\ block < MaxBlock
  /\ seq' = [seq EXCEPT ![Slot(write_pos)] = @ + 1]
  /\ stage' = "words"
  /\ toWrite' = Words
  /\ block' = block + 1
  /\ UNCHANGED <<write_pos, slots, up, epoch, base, objectVars, mpc, callVars, cursorVars>>

PublishWord(w) ==
  /\ up /\ stage = "words" /\ w \in toWrite
  /\ slots' = [slots EXCEPT ![Slot(write_pos)][w] = block]
  /\ toWrite' = toWrite \ {w}
  /\ UNCHANGED <<write_pos, seq, up, stage, block, epoch, base,
                 objectVars, mpc, callVars, cursorVars>>

\* The slot is stable again; nobody looks for the block yet.
PublishCommit ==
  /\ up /\ stage = "words" /\ toWrite = {}
  /\ seq' = [seq EXCEPT ![Slot(write_pos)] = @ + 1]
  /\ stage' = "advance"
  /\ UNCHANGED <<write_pos, slots, up, toWrite, block, epoch, base,
                 objectVars, mpc, callVars, cursorVars>>

\* The block is published.
PublishAdvance ==
  /\ up /\ stage = "advance"
  /\ write_pos' = write_pos + 1
  /\ stage' = "idle"
  /\ UNCHANGED <<seq, slots, up, toWrite, block, epoch, base,
                 objectVars, mpc, callVars, cursorVars>>

-----------------------------------------------------------------------------
(* PRODUCER: the life of the object                                        *)

\* shm_setup maps the object, or creates it in zeroed memory.  A store of
\* motor_shm_region_init that writes what is there already is left out.
Start ==
  /\ ~up /\ linked /\ epoch <= MaxRestarts
  /\ up' = TRUE
  /\ stage' = "init"
  /\ toInit' = {"write_pos"} \cup (IF magic THEN {} ELSE {"magic"})
                            \cup (IF depth = Depth THEN {} ELSE {"depth"})
  /\ toReset' = {i \in Slots : seq[i] # 0}
  /\ toWrite' = {}
  /\ UNCHANGED <<write_pos, seq, slots, block, epoch, base, magic, depth, linked,
                 mpc, callVars, cursorVars>>

\* A field of the header or of the ring.
InitField(f) ==
  /\ up /\ stage = "init" /\ f \in toInit
  /\ toInit' = toInit \ {f}
  /\ magic' = (magic \/ f = "magic")
  /\ depth' = IF f = "depth" THEN Depth ELSE depth
  /\ IF f = "write_pos"
       THEN write_pos' = 0 /\ epoch' = epoch + 1 /\ base' = block
       ELSE UNCHANGED <<write_pos, epoch, base>>
  /\ UNCHANGED <<seq, slots, up, stage, toWrite, toReset, block, linked,
                 mpc, callVars, cursorVars>>

\* The seqlock of a slot; its block stays.
ResetSlot(i) ==
  /\ up /\ stage = "init" /\ i \in toReset
  /\ seq' = [seq EXCEPT ![i] = 0]
  /\ toReset' = toReset \ {i}
  /\ UNCHANGED <<write_pos, slots, up, stage, toWrite, toInit, block, epoch, base,
                 magic, depth, linked, mpc, callVars, cursorVars>>

InitDone ==
  /\ up /\ stage = "init" /\ toInit = {} /\ toReset = {}
  /\ stage' = "idle"
  /\ UNCHANGED <<write_pos, seq, slots, up, toWrite, block, epoch, base, objectVars,
                 mpc, callVars, cursorVars>>

\* The process dies where it stands; the object keeps its contents.
Crash ==
  /\ up
  /\ up' = FALSE
  /\ UNCHANGED <<write_pos, seq, slots, stage, toWrite, block, epoch, base, objectVars,
                 mpc, callVars, cursorVars>>

\* The process ends in good order and removes the name of the object.
Exit ==
  /\ up /\ stage = "idle"
  /\ up' = FALSE
  /\ linked' = FALSE
  /\ UNCHANGED <<write_pos, seq, slots, stage, toWrite, block, epoch, base,
                 magic, depth, toInit, toReset, mpc, callVars, cursorVars>>

-----------------------------------------------------------------------------
(* MONITOR: the drain loop                                                 *)

\* The object is there and valid: consume the ring from "now".
Attach ==
  /\ mpc = "off" /\ linked /\ magic
  /\ mpc' = "sync"
  /\ read_pos' = write_pos
  /\ start' = write_pos
  /\ life' = epoch
  /\ UNCHANGED <<wp, seen, drops, callVars, ringVars>>

\* Fault: the whole distance is counted, the depth still to be read included.
LapLossWhole(behind) == behind

\* Blocks a lapped cursor lost: (wp - read_pos) - depth
LapLoss(behind) == behind - depth

\* A pass begins: load write_pos, and skip what the producer has lapped.
Sync ==
  /\ mpc = "sync"
  /\ mpc' = "drain"
  /\ wp' = write_pos
  /\ LET behind == Minus(write_pos, read_pos) IN
     IF behind > depth
       THEN /\ drops' = (drops + LapLoss(behind)) % PosMod
            /\ read_pos' = Minus(write_pos, depth)
       ELSE UNCHANGED <<drops, read_pos>>
  /\ UNCHANGED <<seen, start, life, callVars, ringVars>>

\* while (read_pos < wp): call motor_ring_read_slot, or end the pass.
Drain ==
  /\ mpc = "drain"
  /\ mpc' = IF read_pos < wp THEN "try" ELSE "sync"
  /\ tries' = 0
  /\ UNCHANGED <<s1, toRead, out, cursorVars, ringVars>>

-----------------------------------------------------------------------------
(* MONITOR: motor_ring_read_slot                                           *)

\* Fault: one attempt too many is made.
MayTryMore == tries <= MaxTries

\* tries < 64
MayTry == tries < MaxTries

\* Fault: an attempt on an odd seqlock is not counted.
LoadSeqUncounted ==
  /\ mpc = "try" /\ MayTry
  /\ s1' = seq[Slot(read_pos)]
  /\ IF Odd(s1') THEN UNCHANGED <<tries, mpc, toRead>>
     ELSE /\ mpc' = "copy"
          /\ toRead' = Words
          /\ UNCHANGED tries
  /\ UNCHANGED <<out, cursorVars, ringVars>>

\* s1 is loaded; an odd value burns the attempt.
LoadSeq ==
  /\ mpc = "try" /\ MayTry
  /\ s1' = seq[Slot(read_pos)]
  /\ IF Odd(s1')
       THEN /\ tries' = tries + 1
            /\ UNCHANGED <<mpc, toRead>>
       ELSE /\ mpc' = "copy"
            /\ toRead' = Words
            /\ UNCHANGED tries
  /\ UNCHANGED <<out, cursorVars, ringVars>>

LoadWord(w) ==
  /\ mpc = "copy" /\ w \in toRead
  /\ out' = [out EXCEPT ![w] = slots[Slot(read_pos)][w]]
  /\ toRead' = toRead \ {w}
  /\ UNCHANGED <<mpc, tries, s1, cursorVars, ringVars>>

\* Fault: any even seqlock is taken for the one the attempt started with.
SameVersionEvenOnly == ~Odd(seq[Slot(read_pos)])

\* s1 == s2
SameVersion == seq[Slot(read_pos)] = s1

\* s2 is loaded behind every word and compared: return true, or try again.
CheckSeq ==
  /\ mpc = "copy" /\ toRead = {}
  /\ IF SameVersion
       THEN /\ mpc' = "taken"
            /\ UNCHANGED tries
       ELSE /\ mpc' = "try"
            /\ tries' = tries + 1
  /\ UNCHANGED <<s1, toRead, out, cursorVars, ringVars>>

\* The attempts are used up: return false.
GiveUp ==
  /\ mpc = "try" /\ ~MayTry
  /\ mpc' = "missed"
  /\ UNCHANGED <<callVars, cursorVars, ringVars>>

\* The call returned true: blocks_seen++, read_pos++.
CountSeen ==
  /\ mpc = "taken"
  /\ mpc' = "drain"
  /\ seen' = seen + 1
  /\ read_pos' = read_pos + 1
  /\ UNCHANGED <<wp, drops, start, life, callVars, ringVars>>

\* Fault: the cursor stays on the block that could not be read.
CountDropStay ==
  /\ mpc = "missed"
  /\ mpc' = "drain"
  /\ drops' = (drops + 1) % PosMod
  /\ UNCHANGED <<wp, seen, read_pos, start, life, callVars, ringVars>>

\* The call returned false: drops++, read_pos++.
CountDrop ==
  /\ mpc = "missed"
  /\ mpc' = "drain"
  /\ drops' = (drops + 1) % PosMod
  /\ read_pos' = read_pos + 1
  /\ UNCHANGED <<wp, seen, start, life, callVars, ringVars>>

-----------------------------------------------------------------------------
Producer ==
  \/ PublishBegin
  \/ \E w \in Words : PublishWord(w)
  \/ PublishCommit
  \/ PublishAdvance
  \/ Start
  \/ \E f \in {"magic", "depth", "write_pos"} : InitField(f)
  \/ \E i \in Slots : ResetSlot(i)
  \/ InitDone
  \/ Crash
  \/ Exit

Monitor ==
  \/ Attach
  \/ Sync
  \/ Drain
  \/ LoadSeq
  \/ \E w \in Words : LoadWord(w)
  \/ CheckSeq
  \/ GiveUp
  \/ CountSeen
  \/ CountDrop

Next == Producer \/ Monitor

Spec == Init /\ [][Next]_vars

\* The monitor's process keeps running; the producer may stop for ever.
FairSpec == Spec /\ WF_vars(Monitor)

-----------------------------------------------------------------------------
(* PROPERTIES                                                              *)

RingTypeOK ==
  /\ write_pos \in Nat
  /\ seq \in [Slots -> Nat]
  /\ slots \in [Slots -> [Words -> Nat]]
  /\ up \in BOOLEAN
  /\ magic \in BOOLEAN
  /\ depth \in {0, Depth}
  /\ linked \in BOOLEAN
  /\ stage \in {"init", "idle", "words", "advance"}
  /\ toInit \subseteq {"magic", "depth", "write_pos"}
  /\ toReset \subseteq Slots
  /\ toWrite \subseteq Words
  /\ block \in Nat
  /\ epoch \in Nat
  /\ base \in Nat

MonitorTypeOK ==
  /\ mpc \in {"off", "sync", "drain", "try", "copy", "taken", "missed"}
  /\ tries \in 0 .. MaxTries
  /\ s1 \in Nat
  /\ toRead \subseteq Words
  /\ out \in [Words -> Nat]
  /\ read_pos \in 0 .. PosMod - 1
  /\ wp \in Nat
  /\ seen \in Nat
  /\ drops \in 0 .. PosMod - 1
  /\ start \in Nat
  /\ life \in Nat

\* Every variable keeps its type: the cursor and the drop count are uint64_t
\* values even when the producer restarted behind the monitor's back.
TypeOK == RingTypeOK /\ MonitorTypeOK

\* The monitor took its cursor from this life of the object: write_pos has been
\* initialised before it attached, and is not about to be once more.  Seqlocks of
\* the former life may still be there.
SameLife == life = epoch /\ "write_pos" \notin toInit

\* Blocks published in this life, the one being written included.
Begun == block - base

\* When motor_ring_read_slot returns true, the copy is one whole block; it is
\* one that belongs into this slot and is no older than the one asked for: a
\* reader never gets what the ring held a lap ago.  A restart behind the
\* monitor's back voids it, because the cursor is then one of the former life.
WholeAndFresh ==
  mpc = "taken" /\ SameLife =>
    \E pos \in read_pos .. Begun - 1 :
      /\ Slot(pos) = Slot(read_pos)
      /\ \A w \in Words : out[w] - base = pos + 1

\* Every position the cursor has passed was counted once, as seen or as
\* dropped; also modulo 2^64, when a restart made the cursor jump.
EveryPositionCounted == (seen + drops) % PosMod = Minus(read_pos, start)

\* A position whose block the producer has begun to overwrite.
Overwritten(pos) == pos + Depth < Begun

\* A drop is counted only for a block the producer really took away: neither
\* the lap arithmetic nor the 64 attempts ever report a loss that was not one.
DropsAreLosses ==
  SameLife =>
    drops <= Cardinality({pos \in start .. read_pos - 1 : Overwritten(pos)})

\* The cursor passes every published block, whether or not the producer still
\* runs: one that died inside a slot costs a drop, not the monitor.  Only a
\* restart, which takes the block back, excuses it.
CursorCatchesUp ==
  \A n \in 0 .. MaxBlock - 1 :
    mpc # "off" /\ write_pos > n ~> read_pos > n \/ write_pos <= n

=============================================================================
