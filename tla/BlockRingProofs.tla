-------------------------- MODULE BlockRingProofs --------------------------
(***************************************************************************)
(* The safety of the block ring and its drain loop for every depth, number *)
(* of words, of attempts, of blocks and of restarts: what the monitor      *)
(* takes is whole and fresh, what it counts as dropped was lost, and it    *)
(* counts every position once.                                             *)
(*                                                                         *)
(* None of the three is inductive.  IInv says, part by part, how the       *)
(* producer's progress, the seqlocks and the slots belong together at      *)
(* every step of a publish and of an initialisation, where a monitor of    *)
(* the same life stands with respect to them, and what an attempt under    *)
(* way knows.                                                              *)
(***************************************************************************)
EXTENDS BlockRing, CommonLemmas, FiniteSetTheorems

-----------------------------------------------------------------------------
(* THE INDUCTIVE INVARIANT                                                 *)

TypeInv ==
  /\ RingTypeOK
  /\ MonitorTypeOK
  /\ mpc = "copy" => MayTry

\* What the producer has still to do belongs to its stage; a ring without a
\* depth has never been used.
StageInv ==
  /\ stage # "init" => toInit = {} /\ toReset = {}
  /\ stage # "words" => toWrite = {}
  /\ depth # Depth => /\ write_pos = 0
                      /\ up => stage = "init"
                      /\ stage = "init" => "depth" \in toInit

\* write_pos counts the blocks of this life, but for one that is being written.
\* Before write_pos is initialised these are the blocks of the former life.
PosInv ==
  /\ base <= block /\ block <= MaxBlock
  /\ write_pos <= Begun /\ Begun <= write_pos + 1
  /\ stage = "idle" => Begun = write_pos
  /\ stage \in {"words", "advance"} => Begun = write_pos + 1
  /\ stage = "init" /\ "write_pos" \notin toInit => Begun = 0

\* Once the initialisation is over a seqlock is odd just while its slot is
\* being written.
SeqInv ==
  IF stage = "init" THEN \A i \in Slots \ toReset : seq[i] = 0
  ELSE \A i \in Slots : Odd(seq[i]) <=> stage = "words" /\ i = Slot(write_pos)

\* Each of the last Depth blocks of this life is in its slot, except for the
\* words of the last one that have still to be stored.
SlotInv ==
  "write_pos" \notin toInit =>
    \A pos \in 0 .. Begun - 1 : Begun <= pos + Depth =>
      \A w \in Words :
        \/ pos = write_pos /\ w \in toWrite
        \/ slots[Slot(pos)][w] = base + pos + 1

RingInv == StageInv /\ PosInv /\ SeqInv /\ SlotInv

Reading == mpc \in {"try", "copy", "taken", "missed"}

\* The monitor is attached, and still in the life of the object it attached in.
Attached == mpc # "off" /\ SameLife

\* Where the cursor is: below the write_pos last loaded while a slot is being
\* read; in the same life never ahead of the producer, and every position it
\* has passed is counted without any wrap-around.
CursorInv ==
  /\ life <= epoch
  /\ wp <= MaxBlock
  /\ mpc = "off" => seen = 0 /\ drops = 0
  /\ Reading => read_pos < wp
  /\ Attached => /\ start <= read_pos /\ read_pos <= write_pos
                 /\ seen + drops = read_pos - start
                 /\ mpc # "sync" => wp <= write_pos

\* An attempt of the same life that is copying started on an even version, not
\* ahead of the slot's.  While the versions agree it has copied what is in the
\* slot; once they differ, or an attempt has failed, the block asked for is
\* being overwritten or is gone.
AttemptInv ==
  /\ mpc = "copy" => ~Odd(s1)
  /\ mpc = "copy" /\ SameLife =>
       /\ s1 <= seq[Slot(read_pos)]
       /\ IF SameVersion
            THEN \A w \in Words \ toRead : out[w] = slots[Slot(read_pos)][w]
            ELSE Overwritten(read_pos)
  /\ mpc = "missed" \/ (mpc = "try" /\ tries > 0) =>
       (SameLife => Overwritten(read_pos))

\* The drops of this life fit below the blocks that are gone.
DropInv == Attached /\ drops > 0 => start + drops + Depth <= Begun

IInv ==
  /\ TypeInv
  /\ RingInv
  /\ CursorInv
  /\ AttemptInv
  /\ WholeAndFresh
  /\ EveryPositionCounted
  /\ DropInv

-----------------------------------------------------------------------------
(* SLOTS AND POSITIONS                                                     *)

LEMMA Constants ==
  /\ Depth \in Nat \ {0} /\ MaxTries \in Nat \ {0} /\ MaxBlock \in Nat
  /\ PosMod \in Nat \ {0} /\ MaxBlock + Depth < PosMod
BY ConstantsAssumption

\* Every position has a slot.
LEMMA SlotType == \A pos \in Nat : Slot(pos) \in Slots
BY Constants, ModDef DEF Slot, Slots

\* Positions that share a slot are at least a lap apart.
LEMMA SlotApart ==
  ASSUME NEW a \in Nat, NEW b \in Nat, Slot(a) = Slot(b), a < b
  PROVE  a + Depth <= b
<1>1. a \in Int /\ b \in Int /\ a % Depth = b % Depth
  BY DEF Slot
<1> QED
  BY <1>1, Constants, ModApart, Zenon

\* Some position of the last lap shares the slot of a given one.
LEMMA LastInSlot ==
  ASSUME NEW a \in Nat, NEW b \in Nat, a < b
  PROVE  \E pos \in a .. b - 1 : Slot(pos) = Slot(a) /\ b <= pos + Depth
BY Constants, ModLast DEF Slot

\* The distance of two positions that have not wrapped, and of any two.
LEMMA MinusType == \A a, b \in Int : Minus(a, b) \in 0 .. PosMod - 1
BY Constants, ModDef DEF Minus

LEMMA MinusExact ==
  ASSUME NEW a \in Nat, NEW b \in Nat, b <= a, a <= MaxBlock
  PROVE  Minus(a, b) = a - b
<1>1. a - b \in 0 .. PosMod - 1
  BY Constants
<1> QED
  BY <1>1, Constants, ModSmall DEF Minus

-----------------------------------------------------------------------------
\* The initial state satisfies the invariant.
LEMMA InitInv == Init => IInv
<1> SUFFICES ASSUME Init PROVE IInv
  OBVIOUS
<1> USE Constants DEF Init
<1>1. RingTypeOK
  <2>1. up \in BOOLEAN /\ magic \in BOOLEAN /\ linked \in BOOLEAN
    BY Zenon
  <2> QED
    BY <2>1 DEF RingTypeOK
<1>2. MonitorTypeOK
  BY DEF MonitorTypeOK
<1>3. TypeInv
  BY <1>1, <1>2 DEF TypeInv
<1>4. StageInv /\ PosInv
  BY DEF StageInv, PosInv, Begun
<1>5. SeqInv /\ SlotInv
  BY DEF SeqInv, SlotInv, Odd, Begun
<1>6. CursorInv /\ AttemptInv /\ DropInv /\ WholeAndFresh
  BY DEF CursorInv, AttemptInv, DropInv, WholeAndFresh, Reading, Attached
<1>7. EveryPositionCounted
  BY DEF EveryPositionCounted, Minus
<1> QED
  BY <1>3, <1>4, <1>5, <1>6, <1>7 DEF IInv, RingInv

-----------------------------------------------------------------------------
(* THE PRODUCER AND ITS RING                                               *)

\* A step of the monitor writes nothing shared, and one of the producer leaves
\* the monitor's state alone.
LEMMA Separation ==
  /\ Monitor \/ UNCHANGED vars => UNCHANGED ringVars
  /\ Producer => UNCHANGED <<mpc, callVars, cursorVars>>
<1>1. Monitor => UNCHANGED ringVars
  BY DEF Monitor, Attach, Sync, Drain, LoadSeq, LoadWord, CheckSeq, GiveUp, CountSeen,
         CountDrop
<1>2. UNCHANGED vars => UNCHANGED ringVars
  BY DEF vars, ringVars, objectVars
<1>3. Producer => UNCHANGED <<mpc, callVars, cursorVars>>
  BY DEF Producer, PublishBegin, PublishWord, PublishCommit, PublishAdvance, Start,
         InitField, ResetSlot, InitDone, Crash, Exit
<1> QED
  BY <1>1, <1>2, <1>3

\* The producer keeps the types of what it shares.
LEMMA RingTypeStep ==
  ASSUME RingTypeOK, Producer
  PROVE  RingTypeOK'
<1> USE Constants, SlotType DEF RingTypeOK, objectVars
<1>1. CASE PublishBegin
  BY <1>1 DEF PublishBegin
<1>2. ASSUME NEW w \in Words, PublishWord(w) PROVE RingTypeOK'
  BY <1>2 DEF PublishWord
<1>3. CASE PublishCommit
  BY <1>3 DEF PublishCommit
<1>4. CASE PublishAdvance
  BY <1>4 DEF PublishAdvance
<1>5. CASE Start
  <2>1. up' \in BOOLEAN
    BY <1>5, Zenon DEF Start
  <2>2. toInit' \subseteq {"magic", "depth", "write_pos"}
    BY <1>5 DEF Start
  <2> QED
    BY <1>5, <2>1, <2>2 DEF Start
<1>6. ASSUME NEW f \in {"magic", "depth", "write_pos"}, InitField(f) PROVE RingTypeOK'
  <2>1. magic' \in BOOLEAN
    BY <1>6, Zenon DEF InitField
  <2>2. write_pos' \in Nat /\ epoch' \in Nat /\ base' \in Nat
    BY <1>6 DEF InitField
  <2>3. depth' \in {0, Depth}
    BY <1>6 DEF InitField
  <2> QED
    BY <1>6, <2>1, <2>2, <2>3 DEF InitField
<1>7. ASSUME NEW i \in Slots, ResetSlot(i) PROVE RingTypeOK'
  BY <1>7 DEF ResetSlot
<1>8. CASE InitDone
  BY <1>8 DEF InitDone
<1>9. CASE Crash
  BY <1>9 DEF Crash
<1>10. CASE Exit
  <2>1. up' \in BOOLEAN /\ linked' \in BOOLEAN
    BY <1>10, Zenon DEF Exit
  <2> QED
    BY <1>10, <2>1 DEF Exit
<1> QED
  BY <1>1, <1>2, <1>3, <1>4, <1>5, <1>6, <1>7, <1>8, <1>9, <1>10 DEF Producer

\* The number of blocks of this life is a natural number.
LEMMA BegunType == RingTypeOK /\ PosInv => Begun \in Nat
BY DEF RingTypeOK, PosInv, Begun

\* A seqlock alternates between odd and even.
LEMMA NextParity == \A n \in Nat : Odd(n + 1) <=> ~Odd(n)
BY DEF Odd

\* A publish, from the slot marked to the block published.
LEMMA PublishStep ==
  ASSUME RingTypeOK, RingInv,
         \/ PublishBegin
         \/ \E w \in Words : PublishWord(w)
         \/ PublishCommit
         \/ PublishAdvance
  PROVE  RingInv'
<1> USE Constants, SlotType DEF RingTypeOK, RingInv, objectVars
<1>1. StageInv'
  BY DEF PublishBegin, PublishWord, PublishCommit, PublishAdvance, StageInv
<1>2. PosInv'
  BY DEF PublishBegin, PublishWord, PublishCommit, PublishAdvance, PosInv, Begun
<1>3. SeqInv'
  <2>1. CASE PublishBegin
    BY <2>1, NextParity DEF PublishBegin, SeqInv
  <2>2. ASSUME NEW w \in Words, PublishWord(w) PROVE SeqInv'
    BY <2>2 DEF PublishWord, SeqInv
  <2>3. CASE PublishCommit
    BY <2>3, NextParity DEF PublishCommit, SeqInv
  <2>4. CASE PublishAdvance
    BY <2>4 DEF PublishAdvance, SeqInv
  <2> QED
    BY <2>1, <2>2, <2>3, <2>4
<1>4. SlotInv'
  <2>1. CASE PublishBegin
    BY <2>1, BegunType DEF PublishBegin, SlotInv, PosInv, Begun
  <2>2. ASSUME NEW v \in Words, PublishWord(v) PROVE SlotInv'
    <3>1. write_pos = Begun - 1 /\ block = base + write_pos + 1
      BY <2>2, BegunType DEF PublishWord, PosInv, Begun
    <3>2. SUFFICES ASSUME "write_pos" \notin toInit, NEW pos \in 0 .. Begun - 1,
                          Begun <= pos + Depth, NEW w \in Words
                   PROVE  \/ pos = write_pos /\ w \in toWrite'
                          \/ slots'[Slot(pos)][w] = base + pos + 1
      BY <2>2 DEF PublishWord, SlotInv, Begun
    <3>3. Begun \in Nat /\ pos \in Nat /\ slots \in [Slots -> [Words -> Nat]] /\ Slot(pos) \in Slots
      BY <3>2, BegunType
    <3>4. CASE pos = write_pos
      BY <2>2, <3>1, <3>2, <3>3, <3>4 DEF PublishWord, SlotInv
    <3>5. CASE pos # write_pos
      <4>1. pos < write_pos /\ ~(pos + Depth <= write_pos)
        BY <3>1, <3>2, <3>3, <3>5
      <4>2. Slot(pos) # Slot(write_pos)
        BY <3>3, <4>1, SlotApart
      <4>3. slots'[Slot(pos)] = slots[Slot(pos)]
        BY <2>2, <3>3, <4>2 DEF PublishWord
      <4> QED
        BY <3>2, <3>5, <4>3 DEF SlotInv
    <3> QED
      BY <3>4, <3>5
  <2>3. CASE PublishCommit
    BY <2>3, BegunType DEF PublishCommit, SlotInv, Begun
  <2>4. CASE PublishAdvance
    BY <2>4, BegunType DEF PublishAdvance, SlotInv, StageInv, Begun
  <2> QED
    BY <2>1, <2>2, <2>3, <2>4
<1> QED
  BY <1>1, <1>2, <1>3, <1>4

\* The life of the object: start, initialisation in any order, crash, exit.
LEMMA LifeStep ==
  ASSUME RingTypeOK, RingInv,
         \/ Start
         \/ \E f \in {"magic", "depth", "write_pos"} : InitField(f)
         \/ \E i \in Slots : ResetSlot(i)
         \/ InitDone \/ Crash \/ Exit
  PROVE  RingInv'
<1> USE Constants, SlotType DEF RingTypeOK, RingInv, objectVars
<1>1. CASE Start
  BY <1>1 DEF Start, StageInv, PosInv, SeqInv, SlotInv, Begun
<1>2. ASSUME NEW f \in {"magic", "depth", "write_pos"}, InitField(f) PROVE RingInv'
  <2>1. StageInv'
    BY <1>2 DEF InitField, StageInv
  <2>2. PosInv'
    BY <1>2 DEF InitField, PosInv, Begun
  <2>3. SeqInv'
    BY <1>2 DEF InitField, SeqInv
  <2>4. SlotInv'
    <3>1. CASE f = "write_pos"
      BY <1>2, <3>1 DEF InitField, SlotInv, Begun
    <3>2. CASE f # "write_pos" /\ "write_pos" \in toInit
      BY <1>2, <3>2 DEF InitField, SlotInv
    <3>3. CASE f # "write_pos" /\ "write_pos" \notin toInit
      BY <1>2, <3>3 DEF InitField, SlotInv, PosInv, Begun
    <3> QED
      BY <3>1, <3>2, <3>3
  <2> QED
    BY <2>1, <2>2, <2>3, <2>4
<1>3. ASSUME NEW i \in Slots, ResetSlot(i) PROVE RingInv'
  BY <1>3 DEF ResetSlot, StageInv, PosInv, SeqInv, SlotInv, Begun
<1>4. CASE InitDone
  BY <1>4 DEF InitDone, StageInv, PosInv, SeqInv, SlotInv, Begun, Odd
<1>5. CASE Crash
  BY <1>5 DEF Crash, StageInv, PosInv, SeqInv, SlotInv, Begun
<1>6. CASE Exit
  BY <1>6 DEF Exit, StageInv, PosInv, SeqInv, SlotInv, Begun
<1> QED
  BY <1>1, <1>2, <1>3, <1>4, <1>5, <1>6

-----------------------------------------------------------------------------
(* THE MONITOR UNDER THE PRODUCER                                          *)

\* A step of the producer that leaves a monitor in its life: the positions grow,
\* and of the slots only that of write_pos changes, together with its seqlock.
LEMMA SameLifeStep ==
  ASSUME RingTypeOK, MonitorTypeOK, RingInv, CursorInv, Producer, SameLife'
  PROVE  /\ SameLife
         /\ base' = base
         /\ write_pos <= write_pos'
         /\ Begun <= Begun'
<1> USE DEF RingTypeOK, MonitorTypeOK, RingInv, objectVars, cursorVars, CursorInv, SameLife,
            Begun
<1>1. life' = life
  BY Separation
<1>2. CASE \/ PublishBegin \/ \E w \in Words : PublishWord(w)
           \/ PublishCommit \/ PublishAdvance
  BY <1>1, <1>2 DEF PublishBegin, PublishWord, PublishCommit, PublishAdvance
<1>3. CASE Start \/ InitDone \/ Crash \/ Exit \/ \E i \in Slots : ResetSlot(i)
  BY <1>1, <1>3 DEF Start, InitDone, Crash, Exit, ResetSlot, StageInv
<1>4. ASSUME NEW f \in {"magic", "depth", "write_pos"}, InitField(f)
      PROVE  /\ SameLife /\ base' = base /\ write_pos <= write_pos' /\ Begun <= Begun'
  BY <1>1, <1>4 DEF InitField
<1> QED
  BY <1>2, <1>3, <1>4 DEF Producer

\* What the producer does to a slot that a monitor of the same life reads from:
\* nothing, or its seqlock moves on and the block asked for is overwritten.
LEMMA SlotUnderProducer ==
  ASSUME RingTypeOK, MonitorTypeOK, RingInv, CursorInv, Producer, SameLife',
         Reading, Attached, Slot(read_pos) \in Slots
  PROVE  \/ UNCHANGED <<seq[Slot(read_pos)], slots[Slot(read_pos)]>>
         \/ /\ Odd(seq[Slot(read_pos)])
            /\ UNCHANGED seq[Slot(read_pos)]
         \/ /\ seq'[Slot(read_pos)] = seq[Slot(read_pos)] + 1
            /\ Overwritten(read_pos)'
<1> USE DEF RingTypeOK, MonitorTypeOK, objectVars
<1>1. read_pos \in Nat /\ read_pos < write_pos /\ SameLife
  BY DEF CursorInv, Reading, Attached
<1>2. stage # "init"
  BY <1>1, BegunType DEF RingInv, PosInv, SameLife
<1>3. Slot(read_pos) = Slot(write_pos) => read_pos + Depth <= write_pos
  BY <1>1, SlotApart
<1>4. read_pos' = read_pos
  BY Separation DEF cursorVars
<1>5. CASE PublishBegin
  BY <1>3, <1>4, <1>5, Constants, SlotType DEF PublishBegin, Overwritten, RingInv, PosInv, Begun
<1>6. ASSUME NEW w \in Words, PublishWord(w)
      PROVE  \/ UNCHANGED <<seq[Slot(read_pos)], slots[Slot(read_pos)]>>
             \/ /\ Odd(seq[Slot(read_pos)])
                /\ UNCHANGED seq[Slot(read_pos)]
  BY <1>4, <1>6 DEF PublishWord, RingInv, SeqInv
<1>7. CASE PublishCommit
  BY <1>3, <1>4, <1>7, Constants, SlotType DEF PublishCommit, Overwritten, RingInv, PosInv, Begun
<1>8. CASE PublishAdvance
  BY <1>4, <1>8 DEF PublishAdvance
<1>9. CASE Start \/ InitDone \/ Crash \/ Exit
  BY <1>4, <1>9 DEF Start, InitDone, Crash, Exit
<1>10. ~(\E f \in {"magic", "depth", "write_pos"} : InitField(f))
       /\ ~(\E i \in Slots : ResetSlot(i))
  BY <1>2 DEF InitField, ResetSlot
<1> QED
  BY <1>5, <1>6, <1>7, <1>8, <1>9, <1>10 DEF Producer

\* The cursor of the monitor stands where it did; nothing of it depends on more
\* of the producer than that its positions grow.
LEMMA CursorUnderProducer ==
  ASSUME RingTypeOK, MonitorTypeOK, RingInv, CursorInv, DropInv, EveryPositionCounted,
         WholeAndFresh, Producer
  PROVE  CursorInv' /\ DropInv' /\ EveryPositionCounted' /\ WholeAndFresh'
<1> USE Separation DEF RingTypeOK, MonitorTypeOK, cursorVars, callVars
<1>1. UNCHANGED <<mpc, read_pos, wp, seen, drops, start, life, out>>
  OBVIOUS
<1>2. life <= epoch'
  BY DEF CursorInv, Producer, PublishBegin, PublishWord, PublishCommit, PublishAdvance,
         Start, InitField, ResetSlot, InitDone, Crash, Exit
<1>3. CursorInv'
  <2>1. SameLife' => SameLife /\ write_pos <= write_pos'
    BY SameLifeStep
  <2>2. write_pos' \in Nat
    BY RingTypeStep
  <2> QED
    BY <1>1, <1>2, <2>1, <2>2 DEF CursorInv, Attached, Reading
<1>4. DropInv'
  <2>1. ASSUME SameLife' PROVE Begun \in Int /\ Begun' \in Int /\ Begun <= Begun'
    BY <2>1, RingTypeStep, SameLifeStep DEF Begun
  <2> QED
    BY <1>1, <2>1, Constants, SameLifeStep DEF DropInv, Attached
<1>5. EveryPositionCounted'
  BY <1>1 DEF EveryPositionCounted, Minus
<1>6. WholeAndFresh'
  <2>1. ASSUME SameLife' PROVE Begun \in Int /\ Begun' \in Int /\ Begun <= Begun'
    BY <2>1, RingTypeStep, SameLifeStep DEF Begun
  <2> QED
    BY <1>1, <2>1, SameLifeStep DEF WholeAndFresh
<1> QED
  BY <1>3, <1>4, <1>5, <1>6

\* An attempt under way stays sound: the only thing that can happen to it is that
\* its block is overwritten, and then the seqlock has moved on for good.
LEMMA AttemptUnderProducer ==
  ASSUME RingTypeOK, MonitorTypeOK, RingInv, CursorInv, AttemptInv, Producer
  PROVE  AttemptInv'
<1> USE DEF RingTypeOK, MonitorTypeOK
<1>1. UNCHANGED <<mpc, tries, s1, toRead, out, read_pos>>
  BY Separation DEF callVars, cursorVars
<1>2. ASSUME SameLife', Overwritten(read_pos) PROVE Overwritten(read_pos)'
  BY <1>1, <1>2, SameLifeStep, RingTypeStep, Constants DEF Overwritten, Begun
<1>3. ASSUME mpc = "copy", SameLife'
      PROVE  /\ s1 <= seq'[Slot(read_pos)]
             /\ IF SameVersion'
                  THEN \A w \in Words \ toRead : out[w] = slots'[Slot(read_pos)][w]
                  ELSE Overwritten(read_pos)'
  <2> DEFINE i == Slot(read_pos)
  <2>1. SameLife /\ Attached /\ Reading /\ i \in Slots
    BY <1>3, SameLifeStep, SlotType DEF Attached, Reading
  <2>2. /\ ~Odd(s1) /\ s1 <= seq[i]
        /\ IF s1 = seq[i] THEN \A w \in Words \ toRead : out[w] = slots[i][w]
           ELSE Overwritten(read_pos)
    BY <1>3, <2>1 DEF AttemptInv, SameVersion
  <2>3. SameVersion' <=> seq'[i] = s1
    BY <1>1 DEF SameVersion
  <2>4. CASE UNCHANGED <<seq[i], slots[i]>>
    BY <1>1, <1>2, <1>3, <2>2, <2>3, <2>4
  <2>5. CASE Odd(seq[i]) /\ UNCHANGED seq[i]
    BY <1>1, <1>2, <1>3, <2>2, <2>3, <2>5
  <2>6. CASE seq'[i] = seq[i] + 1 /\ Overwritten(read_pos)'
    BY <2>1, <2>2, <2>3, <2>6
  <2> QED
    BY <1>1, <1>3, <2>1, <2>4, <2>5, <2>6, SlotUnderProducer
<1>4. SameLife' => SameLife
  BY SameLifeStep
<1> QED
  BY <1>1, <1>2, <1>3, <1>4 DEF AttemptInv

-----------------------------------------------------------------------------
(* THE MONITOR'S OWN STEPS                                                 *)

\* The monitor keeps its types; the loop bound of a call is what keeps tries in
\* its range, and wp what keeps read_pos below the modulus.
LEMMA MonitorTypeStep ==
  ASSUME TypeInv, RingInv, CursorInv, Monitor
  PROVE  MonitorTypeOK' /\ (mpc = "copy" => MayTry)'
<1> USE Constants DEF TypeInv, RingTypeOK, MonitorTypeOK, MayTry, callVars, cursorVars
<1>1. write_pos \in 0 .. PosMod - 1
  BY DEF RingInv, PosInv, Begun
<1>2. CASE Attach
  BY <1>1, <1>2 DEF Attach
<1>3. CASE Sync
  <2>1. (Minus(write_pos, read_pos) > depth) \in BOOLEAN
    OBVIOUS
  <2>2. drops' \in 0 .. PosMod - 1 /\ read_pos' \in 0 .. PosMod - 1
    <3>1. CASE Minus(write_pos, read_pos) > depth
      <4> DEFINE lost == LapLoss(Minus(write_pos, read_pos))
      <4>1. depth \in Int /\ write_pos \in Int /\ read_pos \in Int
        OBVIOUS
      <4>2. drops + lost \in Int
        <5>1. Minus(write_pos, read_pos) \in Int
          BY <4>1, MinusType
        <5> QED
          BY <4>1, <5>1 DEF LapLoss
      <4>3. drops' = (drops + lost) % PosMod /\ read_pos' = Minus(write_pos, depth)
        BY <1>3, <3>1 DEF Sync
      <4> HIDE DEF lost
      <4>4. (drops + lost) % PosMod \in 0 .. PosMod - 1
        BY <4>2, ModDef
      <4> QED
        BY <4>1, <4>3, <4>4, MinusType
    <3>2. CASE ~(Minus(write_pos, read_pos) > depth)
      BY <1>3, <3>2 DEF Sync
    <3> QED
      BY <3>1, <3>2
  <2> QED
    BY <1>3, <2>2 DEF Sync
<1>4. CASE Drain
  BY <1>4 DEF Drain
<1>5. CASE LoadSeq
  <2>1. s1' \in Nat
    BY <1>5, SlotType DEF LoadSeq
  <2>2. CASE Odd(s1')
    BY <1>5, <2>1, <2>2 DEF LoadSeq
  <2>3. CASE ~Odd(s1')
    BY <1>5, <2>1, <2>3 DEF LoadSeq
  <2> QED
    BY <2>2, <2>3
<1>6. ASSUME NEW w \in Words, LoadWord(w) PROVE MonitorTypeOK' /\ (mpc = "copy" => MayTry)'
  <2>1. slots[Slot(read_pos)][w] \in Nat
    BY SlotType
  <2> QED
    BY <1>6, <2>1 DEF LoadWord
<1>7. CASE CheckSeq
  <2>1. CASE SameVersion
    BY <1>7, <2>1 DEF CheckSeq
  <2>2. CASE ~SameVersion
    BY <1>7, <2>2 DEF CheckSeq
  <2> QED
    BY <2>1, <2>2
<1>8. CASE GiveUp
  BY <1>8 DEF GiveUp
<1>9. CASE CountSeen
  BY <1>9 DEF CountSeen, CursorInv, Reading
<1>10. CASE CountDrop
  <2>1. drops' \in 0 .. PosMod - 1
    <3>1. drops + 1 \in Int
      OBVIOUS
    <3> QED
      BY <1>10, <3>1, ModDef DEF CountDrop
  <2> QED
    BY <1>10, <2>1 DEF CountDrop, CursorInv, Reading
<1> QED
  BY <1>2, <1>3, <1>4, <1>5, <1>6, <1>7, <1>8, <1>9, <1>10 DEF Monitor

\* What a pass finds when it begins, in the life the monitor attached in: the
\* distance is exact, and a cursor that was lapped skips to the oldest block.
LEMMA SyncExact ==
  ASSUME TypeInv, RingInv, CursorInv, DropInv, Sync, SameLife
  PROVE  /\ read_pos <= read_pos' /\ read_pos' <= write_pos
         /\ seen + drops' = read_pos' - start
         /\ drops' # drops => start + drops' + Depth <= Begun
<1> USE Constants DEF TypeInv, RingTypeOK, MonitorTypeOK
<1>1. /\ write_pos <= MaxBlock /\ write_pos <= Begun
      /\ start <= read_pos /\ read_pos <= write_pos
      /\ seen + drops = read_pos - start
  BY DEF Sync, RingInv, PosInv, CursorInv, Attached, Begun
<1>2. Minus(write_pos, read_pos) = write_pos - read_pos
  BY <1>1, MinusExact
<1>3. CASE write_pos - read_pos > depth
  <2>1. depth = Depth
    BY <1>1, <1>3 DEF RingInv, StageInv
  <2>2. read_pos' = Minus(write_pos, Depth)
        /\ drops' = (drops + (write_pos - read_pos - Depth)) % PosMod
    BY <1>2, <1>3, <2>1 DEF Sync, LapLoss
  <2>3. read_pos' = write_pos - Depth
    BY <1>1, <1>3, <2>1, <2>2, MinusExact
  <2>4. drops + (write_pos - read_pos - Depth) \in 0 .. PosMod - 1
    BY <1>1, <1>3, <2>1
  <2>5. drops' = drops + (write_pos - read_pos - Depth)
    BY <2>2, <2>4, ModSmall
  <2>6. Begun \in Nat
    BY BegunType DEF RingInv
  <2> QED
    BY <1>1, <1>3, <2>1, <2>3, <2>5, <2>6
<1>4. CASE ~(write_pos - read_pos > depth)
  BY <1>1, <1>2, <1>4 DEF Sync
<1> QED
  BY <1>3, <1>4

\* The cursor in the life the monitor attached in.
LEMMA CursorStep ==
  ASSUME TypeInv, RingInv, CursorInv, AttemptInv, DropInv, Monitor
  PROVE  CursorInv' /\ DropInv'
<1> USE Constants DEF TypeInv, RingTypeOK, MonitorTypeOK, callVars, cursorVars
<1>1. /\ write_pos \in Nat /\ write_pos <= MaxBlock /\ write_pos <= Begun
      /\ Begun \in Nat /\ Begun' = Begun /\ UNCHANGED <<write_pos, epoch, toInit>>
  BY Separation, BegunType DEF RingInv, PosInv, Begun, ringVars, objectVars
<1>2. SameLife' <=> life' = epoch /\ "write_pos" \notin toInit
  BY <1>1 DEF SameLife
<1>3. CASE Attach
  BY <1>1, <1>2, <1>3 DEF Attach, CursorInv, DropInv, Attached, Reading
<1>4. CASE Sync
  <2>1. /\ mpc = "sync" /\ mpc' = "drain" /\ wp' = write_pos
        /\ UNCHANGED <<seen, start, life>>
    BY <1>4 DEF Sync
  <2>2. SameLife' => SameLife
    BY <1>2, <2>1 DEF SameLife
  <2>3. SameLife => /\ read_pos <= read_pos' /\ read_pos' <= write_pos
                    /\ seen + drops' = read_pos' - start
                    /\ drops' # drops => start + drops' + Depth <= Begun
    BY <1>4, SyncExact
  <2>4. read_pos' \in Nat /\ drops' \in Nat
    BY MonitorTypeStep DEF Monitor
  <2>5. CursorInv'
    <3>1. SameLife' => start <= read_pos
      BY <2>1, <2>2 DEF CursorInv, Attached
    <3>2. life' <= epoch' /\ wp' <= MaxBlock /\ ~Reading' /\ mpc' # "off"
      BY <1>1, <2>1 DEF CursorInv, Reading
    <3>3. SameLife' => /\ start' <= read_pos' /\ read_pos' <= write_pos'
                       /\ seen' + drops' = read_pos' - start'
                       /\ wp' <= write_pos'
      BY <1>1, <2>1, <2>2, <2>3, <2>4, <3>1
    <3> QED
      BY <3>2, <3>3 DEF CursorInv, Attached
  <2>6. DropInv'
    BY <1>1, <2>1, <2>2, <2>3, <2>4 DEF DropInv, Attached
  <2> QED
    BY <2>5, <2>6
<1>5. CASE \/ Drain \/ LoadSeq \/ CheckSeq \/ GiveUp \/ \E w \in Words : LoadWord(w)
  <2>1. /\ UNCHANGED cursorVars
        /\ mpc' = "off" <=> mpc = "off"
        /\ mpc' = "sync" => mpc = "drain"
        /\ Reading' => Reading \/ read_pos < wp
        /\ mpc # "off" /\ mpc # "sync"
    BY <1>5 DEF Drain, LoadSeq, LoadWord, CheckSeq, GiveUp, Reading
  <2> QED
    BY <1>1, <1>2, <2>1 DEF CursorInv, DropInv, Attached, SameLife
<1>6. CASE CountSeen
  <2>1. CursorInv'
    BY <1>1, <1>2, <1>6 DEF CountSeen, CursorInv, Attached, Reading, SameLife
  <2>2. DropInv'
    BY <1>1, <1>2, <1>6 DEF CountSeen, DropInv, Attached, SameLife
  <2> QED
    BY <2>1, <2>2
<1>7. CASE CountDrop
  <2>1. SameLife => drops' = drops + 1
    <3>1. SameLife => drops + 1 \in 0 .. PosMod - 1
      BY <1>1, <1>7 DEF CountDrop, CursorInv, Attached, Reading
    <3> QED
      BY <1>7, <3>1, ModSmall DEF CountDrop
  <2>2. SameLife' => SameLife
    BY <1>2, <1>7 DEF CountDrop, SameLife
  <2>3. drops' \in Nat
    BY <1>7, MonitorTypeStep DEF Monitor
  <2>4. CursorInv'
    <3>1. /\ mpc = "missed" /\ mpc' = "drain" /\ read_pos' = read_pos + 1
          /\ UNCHANGED <<wp, seen, start, life>>
      BY <1>7 DEF CountDrop
    <3>2. Reading /\ (SameLife => Attached)
      BY <3>1 DEF Reading, Attached
    <3>3. life' <= epoch' /\ wp' <= MaxBlock /\ ~Reading' /\ mpc' # "off"
      BY <1>1, <3>1 DEF CursorInv, Reading
    <3>4. SameLife => /\ start <= read_pos /\ read_pos < wp /\ wp <= write_pos
                      /\ seen + drops = read_pos - start
      BY <3>1, <3>2 DEF CursorInv, Attached
    <3>5. SameLife' => /\ start' <= read_pos' /\ read_pos' <= write_pos'
                       /\ seen' + drops' = read_pos' - start'
                       /\ wp' <= write_pos'
      BY <1>1, <2>1, <2>2, <2>3, <3>1, <3>4
    <3> QED
      BY <3>3, <3>5 DEF CursorInv, Attached
  <2>5. SameLife => read_pos + Depth < Begun
    BY <1>7 DEF CountDrop, AttemptInv, Overwritten
  <2>6. DropInv'
    BY <1>1, <1>7, <2>1, <2>2, <2>5 DEF CountDrop, DropInv, CursorInv, Attached
  <2> QED
    BY <2>4, <2>6
<1> QED
  BY <1>3, <1>4, <1>5, <1>6, <1>7 DEF Monitor

\* Every step of the monitor that moves the cursor counts what it passes.
LEMMA CountStep ==
  ASSUME TypeInv, RingInv, CursorInv, EveryPositionCounted, Monitor
  PROVE  EveryPositionCounted'
<1> USE Constants DEF TypeInv, RingTypeOK, MonitorTypeOK, callVars, cursorVars
<1> DEFINE M == PosMod
<1>1. (seen + drops) % M = (read_pos - start) % M
  BY DEF EveryPositionCounted, Minus
<1>2. ASSUME (seen' + drops') % M = (read_pos' - start') % M PROVE EveryPositionCounted'
  BY <1>2 DEF EveryPositionCounted, Minus
<1>3. \A c \in Int : (c + (seen + drops)) % M = (c + (read_pos - start)) % M
  <2> TAKE c \in Int
  <2>1. seen + drops \in Int /\ read_pos - start \in Int /\ M \in Nat \ {0}
    OBVIOUS
  <2> QED
    BY <1>1, <2>1, ModCongruent, Zenon
<1>4. CASE Attach
  <2>1. EveryPositionCounted' <=> (seen + drops) % M = (write_pos - write_pos) % M
    BY <1>4 DEF Attach, EveryPositionCounted, Minus
  <2> QED
    BY <1>4, <2>1 DEF Attach, CursorInv
<1>5. CASE Sync
  <2> DEFINE behind == Minus(write_pos, read_pos)
  <2>1. CASE ~(behind > depth)
    BY <1>1, <1>2, <1>5, <2>1 DEF Sync
  <2>2. CASE behind > depth
    <3> DEFINE d == write_pos - read_pos
               c == d - depth
    <3>1. d \in Int /\ c \in Int /\ depth \in Int /\ behind \in Int
      BY MinusType
    <3>2. /\ drops' = (drops + (behind - depth)) % M
          /\ read_pos' = (write_pos - depth) % M
          /\ behind = d % M
          /\ UNCHANGED <<seen, start>>
      BY <1>5, <2>2 DEF Sync, LapLoss, Minus
    <3>3. (seen + drops') % M = (c + (seen + drops)) % M
      <4>1. (seen + drops') % M = (seen + (drops + (behind - depth))) % M
        <5>1. drops + (behind - depth) \in Int /\ seen \in Int
          BY <3>1
        <5> QED
          BY <3>2, <5>1, ModAdd
      <4>2. seen + (drops + (behind - depth)) = (seen + drops - depth) + behind
        BY <3>1
      <4>3. ((seen + drops - depth) + behind) % M = ((seen + drops - depth) + d) % M
        <5>1. seen + drops - depth \in Int /\ M \in Nat \ {0}
          BY <3>1
        <5>2. ((seen + drops - depth) + (d % M)) % M = ((seen + drops - depth) + d) % M
          BY <3>1, <5>1, ModAdd, Zenon
        <5> QED
          BY <3>2, <5>2, Zenon
      <4>4. (seen + drops - depth) + d = c + (seen + drops)
        BY <3>1
      <4> QED
        BY <4>1, <4>2, <4>3, <4>4
    <3>4. (read_pos' - start') % M = (c + (read_pos - start)) % M
      <4>1. -start \in Int /\ write_pos - depth \in Int
        BY <3>1
      <4>2. (-start + ((write_pos - depth) % M)) % M = (-start + (write_pos - depth)) % M
        BY <4>1, ModAdd
      <4>3. (write_pos - depth) % M \in Int
        BY <4>1, ModDef
      <4>4. read_pos' - start' = -start + ((write_pos - depth) % M)
        BY <3>2, <4>3
      <4>5. -start + (write_pos - depth) = c + (read_pos - start)
        BY <3>1
      <4> QED
        BY <4>2, <4>4, <4>5
    <3>5. (c + (seen + drops)) % M = (c + (read_pos - start)) % M
      BY <1>3, <3>1, Zenon
    <3>6. (seen' + drops') % M = (seen + drops') % M
      BY <3>2
    <3>7. (seen' + drops') % M = (read_pos' - start') % M
      BY <3>3, <3>4, <3>5, <3>6, Zenon
    <3> QED
      BY <1>2, <3>7, Zenon
  <2> QED
    BY <2>1, <2>2
<1>6. CASE \/ Drain \/ LoadSeq \/ CheckSeq \/ GiveUp \/ \E w \in Words : LoadWord(w)
  <2>1. UNCHANGED cursorVars
    BY <1>6 DEF Drain, LoadSeq, LoadWord, CheckSeq, GiveUp
  <2> QED
    BY <2>1 DEF EveryPositionCounted, Minus
<1>7. CASE CountSeen
  <2>1. /\ seen' + drops' = 1 + (seen + drops)
        /\ read_pos' - start' = 1 + (read_pos - start)
    BY <1>7 DEF CountSeen
  <2> QED
    BY <1>2, <1>3, <2>1
<1>8. CASE CountDrop
  <2>1. /\ drops' = (drops + 1) % M /\ seen' = seen
        /\ read_pos' - start' = 1 + (read_pos - start)
    BY <1>8 DEF CountDrop
  <2>2. (seen + ((drops + 1) % M)) % M = (seen + (drops + 1)) % M
    <3>1. seen \in Int /\ drops + 1 \in Int /\ M \in Nat \ {0}
      OBVIOUS
    <3> QED
      BY <3>1, ModAdd, Zenon
  <2>3. seen + (drops + 1) = 1 + (seen + drops)
    OBVIOUS
  <2> QED
    BY <1>2, <1>3, <2>1, <2>2, <2>3
<1> QED
  BY <1>4, <1>5, <1>6, <1>7, <1>8 DEF Monitor

-----------------------------------------------------------------------------
(* ATTEMPTS AND COPIES                                                     *)

\* A seqlock that is odd in the slot of a position the producer has passed is odd
\* because the slot is being written again, a lap later or more.
LEMMA OddIsOverwritten ==
  ASSUME TypeInv, RingInv, CursorInv, Reading, Attached, Odd(seq[Slot(read_pos)])
  PROVE  Overwritten(read_pos)
<1> USE Constants DEF TypeInv, RingTypeOK, MonitorTypeOK, RingInv
<1>1. read_pos \in Nat /\ read_pos < write_pos /\ SameLife
  BY DEF CursorInv, Reading, Attached
<1>2. Begun \in Nat /\ stage # "init"
  BY <1>1, BegunType DEF PosInv, SameLife
<1>3. stage = "words" /\ Slot(read_pos) = Slot(write_pos)
  BY <1>1, <1>2, SlotType DEF SeqInv
<1>4. read_pos + Depth <= write_pos
  BY <1>1, <1>3, SlotApart
<1> QED
  BY <1>2, <1>3, <1>4 DEF PosInv, Overwritten

\* A slot on an even version holds one block: the last one of this life that
\* belongs into it, which is no older than any position the monitor asks for.
LEMMA StableSlot ==
  ASSUME TypeInv, RingInv, CursorInv, Reading, Attached, ~Odd(seq[Slot(read_pos)])
  PROVE  \E pos \in read_pos .. Begun - 1 :
           /\ Slot(pos) = Slot(read_pos)
           /\ \A w \in Words : slots[Slot(read_pos)][w] = base + pos + 1
<1> USE Constants DEF TypeInv, RingTypeOK, MonitorTypeOK, RingInv
<1>1. read_pos \in Nat /\ read_pos < write_pos /\ "write_pos" \notin toInit
  BY DEF CursorInv, Reading, Attached, SameLife
<1>2. Begun \in Nat /\ read_pos < Begun /\ stage # "init"
  BY <1>1, BegunType DEF PosInv
<1>3. PICK pos \in read_pos .. Begun - 1 :
        Slot(pos) = Slot(read_pos) /\ Begun <= pos + Depth
  BY <1>1, <1>2, LastInSlot
<1>4. ~(stage = "words" /\ Slot(pos) = Slot(write_pos))
  BY <1>1, <1>2, <1>3, SlotType DEF SeqInv
<1>5. \A w \in Words : slots[Slot(pos)][w] = base + pos + 1
  <2>1. pos \in 0 .. Begun - 1
    BY <1>1, <1>2, <1>3
  <2>2. ~(pos = write_pos /\ toWrite # {})
    BY <1>4 DEF StageInv
  <2> QED
    BY <1>1, <1>3, <2>1, <2>2 DEF SlotInv
<1> QED
  BY <1>3, <1>5

\* Every step of an attempt keeps what it knows; only the final check turns it
\* into a result, and it has seen every word copied under one version.
LEMMA AttemptStep ==
  ASSUME TypeInv, RingInv, CursorInv, AttemptInv, WholeAndFresh, Monitor
  PROVE  AttemptInv' /\ WholeAndFresh'
<1> USE Constants, SlotType DEF TypeInv, RingTypeOK, MonitorTypeOK, callVars, cursorVars
<1>1. UNCHANGED <<seq, slots, epoch, toInit, block, base>>
  BY Separation DEF ringVars, objectVars
<1>2. CASE Attach \/ Sync \/ Drain \/ CountSeen \/ CountDrop
  BY <1>2 DEF Attach, Sync, Drain, CountSeen, CountDrop, AttemptInv, WholeAndFresh
<1>3. CASE LoadSeq
  <2>1. UNCHANGED <<read_pos, wp, life, start, out>> /\ mpc = "try"
    BY <1>3 DEF LoadSeq
  <2>2. s1' = seq[Slot(read_pos)] /\ Slot(read_pos) \in Slots
    BY <1>3 DEF LoadSeq
  <2>3. CASE Odd(s1')
    <3>1. SameLife => Overwritten(read_pos)
      BY <2>1, <2>2, <2>3, OddIsOverwritten DEF Reading, Attached
    <3> QED
      BY <1>1, <1>3, <2>1, <2>3, <3>1
         DEF LoadSeq, AttemptInv, WholeAndFresh, SameLife, Overwritten, Begun
  <2>4. CASE ~Odd(s1')
    BY <1>1, <1>3, <2>1, <2>2, <2>4 DEF LoadSeq, AttemptInv, WholeAndFresh, SameVersion
  <2> QED
    BY <2>3, <2>4
<1>4. ASSUME NEW w \in Words, LoadWord(w) PROVE AttemptInv' /\ WholeAndFresh'
  BY <1>1, <1>4
     DEF LoadWord, AttemptInv, WholeAndFresh, SameVersion, SameLife, Overwritten, Begun
<1>5. CASE CheckSeq
  <2>1. /\ mpc = "copy" /\ toRead = {}
        /\ UNCHANGED <<s1, toRead, out, read_pos, wp, life, start>>
    BY <1>5 DEF CheckSeq
  <2>2. CASE SameVersion
    <3>1. mpc' = "taken"
      BY <1>5, <2>2 DEF CheckSeq
    <3>2. AttemptInv'
      BY <3>1 DEF AttemptInv
    <3>3. ASSUME SameLife
          PROVE  \E pos \in read_pos .. Begun - 1 :
                   /\ Slot(pos) = Slot(read_pos)
                   /\ \A w \in Words : out[w] = base + pos + 1
      <4>1. ~Odd(seq[Slot(read_pos)]) /\ Reading /\ Attached
        BY <2>1, <2>2, <3>3 DEF AttemptInv, SameVersion, Reading, Attached
      <4>2. \A w \in Words : out[w] = slots[Slot(read_pos)][w]
        BY <2>1, <2>2, <3>3 DEF AttemptInv
      <4> QED
        BY <4>1, <4>2, StableSlot
    <3>4. WholeAndFresh'
      BY <1>1, <2>1, <3>3 DEF WholeAndFresh, SameLife, Begun
    <3> QED
      BY <3>2, <3>4
  <2>3. CASE ~SameVersion
    BY <1>1, <1>5, <2>1, <2>3
       DEF CheckSeq, AttemptInv, WholeAndFresh, SameLife, Overwritten, Begun
  <2> QED
    BY <2>2, <2>3
<1>6. CASE GiveUp
  BY <1>1, <1>6
     DEF GiveUp, MayTry, AttemptInv, WholeAndFresh, SameLife, Overwritten, Begun
<1> QED
  BY <1>2, <1>3, <1>4, <1>5, <1>6 DEF Monitor

-----------------------------------------------------------------------------
(* THE THEOREMS                                                            *)

\* The invariant is inductive.
LEMMA InvStep == IInv /\ [Next]_vars => IInv'
<1> SUFFICES ASSUME IInv, [Next]_vars PROVE IInv'
  OBVIOUS
<1> USE DEF IInv
<1>1. CASE Producer
  <2>1. UNCHANGED <<mpc, tries, s1, toRead, out, read_pos, wp, seen, drops, start, life>>
    BY <1>1, Separation DEF callVars, cursorVars
  <2>2. TypeInv'
    BY <1>1, <2>1, RingTypeStep DEF TypeInv, MonitorTypeOK, MayTry
  <2>3. RingInv'
    BY <1>1, PublishStep, LifeStep DEF Producer, TypeInv
  <2> QED
    BY <1>1, <2>2, <2>3, CursorUnderProducer, AttemptUnderProducer DEF TypeInv, RingInv
<1>2. CASE Monitor
  <2>1. UNCHANGED ringVars
    BY <1>2, Separation
  <2>2. RingTypeOK' /\ RingInv'
    BY <2>1 DEF ringVars, objectVars, TypeInv, RingTypeOK, RingInv, StageInv, PosInv,
                SeqInv, SlotInv, Begun
  <2> QED
    BY <1>2, <2>2, MonitorTypeStep, CursorStep, CountStep, AttemptStep DEF TypeInv
<1>3. CASE UNCHANGED vars
  BY <1>3 DEF vars, TypeInv, RingTypeOK, MonitorTypeOK, MayTry, RingInv, StageInv, PosInv,
              SeqInv, SlotInv, CursorInv, AttemptInv, DropInv, WholeAndFresh, Attached,
              Reading, EveryPositionCounted, SameLife, SameVersion, Overwritten, Begun
<1> QED
  BY <1>1, <1>2, <1>3 DEF Next

\* IInv holds in every reachable state; each property below is a part of it.
THEOREM RingInvariant == Spec => []IInv
BY InitInv, InvStep, PTL DEF Spec

\* Every variable keeps its type; the cursor and the drop count stay uint64_t
\* values, and no call overruns the loop bound of motor_ring_read_slot.
THEOREM TypeCorrect == Spec => []TypeOK
<1>1. IInv => TypeOK
  BY DEF IInv, TypeInv, TypeOK
<1> QED
  BY RingInvariant, <1>1, PTL

\* What motor_ring_read_slot hands out is one whole block, of the slot asked for
\* and not of a lap before, however often the producer laps the monitor.
THEOREM ReadsAreWholeAndFresh == Spec => []WholeAndFresh
<1>1. IInv => WholeAndFresh
  BY DEF IInv
<1> QED
  BY RingInvariant, <1>1, PTL

\* Every position the cursor passes is counted once, modulo 2^64 also when a
\* restart of the producer makes the cursor jump.
THEOREM CountingIsExact == Spec => []EveryPositionCounted
<1>1. IInv => EveryPositionCounted
  BY DEF IInv
<1> QED
  BY RingInvariant, <1>1, PTL

\* The drops fit between the cursor's start and the blocks that are gone.
LEMMA DropsCount == IInv => DropsAreLosses
<1> SUFFICES ASSUME IInv, SameLife
             PROVE  drops <= Cardinality({pos \in start .. read_pos - 1 : Overwritten(pos)})
  BY DEF DropsAreLosses
<1> DEFINE Lost == {pos \in start .. read_pos - 1 : Overwritten(pos)}
           Last == start + drops - 1
<1> USE DEF IInv, TypeInv, RingTypeOK, MonitorTypeOK
<1>1. IsFiniteSet(Lost) /\ Cardinality(Lost) \in Nat
  <2>1. IsFiniteSet(start .. read_pos - 1)
    BY FS_Interval
  <2>2. Lost \in SUBSET (start .. read_pos - 1)
    OBVIOUS
  <2>3. IsFiniteSet(Lost)
    BY <2>1, <2>2, FS_Subset
  <2> QED
    BY <2>3, FS_CardinalityType
<1>2. CASE drops = 0
  BY <1>1, <1>2
<1>3. CASE drops > 0
  <2>1. Attached
    BY <1>3 DEF Attached, CursorInv
  <2>2. Last <= read_pos - 1 /\ Last + Depth < Begun /\ Begun \in Int
    BY <1>3, <2>1, Constants DEF CursorInv, DropInv, Begun
  <2>3. start .. Last \in SUBSET Lost
    BY <2>2, Constants DEF Overwritten
  <2>4. Cardinality(start .. Last) = drops
    BY <1>3, FS_Interval
  <2>5. Cardinality(start .. Last) <= Cardinality(Lost)
    BY <1>1, <2>3, FS_Subset
  <2> QED
    BY <2>4, <2>5
<1> QED
  BY <1>2, <1>3

\* A drop is counted only for a block the producer has begun to overwrite.
THEOREM DropsWereLost == Spec => []DropsAreLosses
BY RingInvariant, DropsCount, PTL

=============================================================================
