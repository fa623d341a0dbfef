------------------------------ MODULE Snapshot ------------------------------
(***************************************************************************)
(* The seqlock snapshot of motor_shm.h: one producer overwrites the latest *)
(* row in place, any number of consumers copy it without blocking it.      *)
(*                                                                         *)
(* Every access to the shared memory is a step of its own.  The payload    *)
(* (row, producer_seq, timestamp, flags) is a set of words that the        *)
(* compiler and the CPU may write and read in any order; the fences of the *)
(* code only order the payload accesses against those of seqlock, which is *)
(* exactly what the order of the steps below keeps.  A word holds the      *)
(* number of the row it was written from, 0 being the zeroed memory of a   *)
(* fresh region.                                                           *)
(*                                                                         *)
(* The producer process may die at any point (SIGKILL, power is not lost:  *)
(* the shm object survives, because only an orderly exit unlinks it) and a *)
(* new one re-initialises the region under the readers' feet.              *)
(***************************************************************************)
EXTENDS Integers

CONSTANTS
  Words,        \* the payload words of shm_snapshot_t
  Readers,      \* the consumers
  MaxTries,     \* attempts of one motor_snapshot_read call (64 in the code)
  MaxRow,       \* bound: rows published in a behaviour
  MaxRestarts   \* bound: restarts of a crashed producer

ASSUME ConstantsAssumption ==
  /\ Words # {}
  /\ MaxTries \in Nat \ {0}
  /\ MaxRow \in Nat
  /\ MaxRestarts \in Nat

VARIABLES
  \* ---- the shared region, and the producer's progress
  seqlock,      \* even = stable, odd = write in progress
  payload,      \* the payload words
  up,           \* the producer process is running
  writing,      \* it is inside motor_snapshot_publish
  toWrite,      \* the words it has still to store
  row,          \* rows handed to motor_snapshot_publish so far
  \* ---- history: the life of the region
  epoch,        \* number of re-initialisations
  base,         \* value of row when the region was last initialised
  \* ---- the readers
  pc,           \* "idle", "try", "copy", "ok", "failed"
  tries,        \* attempts used
  s1,           \* seqlock at the start of the attempt
  toRead,       \* words not yet copied
  out,          \* the caller's copy
  readEpoch     \* history: epoch in which the attempt loaded s1

producerVars == <<seqlock, payload, up, writing, toWrite, row, epoch, base>>
readerVars == <<pc, tries, s1, toRead, out, readEpoch>>
vars == <<seqlock, payload, up, writing, toWrite, row, epoch, base,
          pc, tries, s1, toRead, out, readEpoch>>

Odd(n) == n % 2 = 1

-----------------------------------------------------------------------------
(* A fresh object: ftruncate zeroes it, motor_shm_region_init stores 0.    *)
Init ==
  /\ seqlock = 0
  /\ payload = [w \in Words |-> 0]
  /\ up = TRUE
  /\ writing = FALSE
  /\ toWrite = {}
  /\ row = 0
  /\ epoch = 0
  /\ base = 0
  /\ pc = [r \in Readers |-> "idle"]
  /\ tries = [r \in Readers |-> 0]
  /\ s1 = [r \in Readers |-> 0]
  /\ toRead = [r \in Readers |-> {}]
  /\ out = [r \in Readers |-> [w \in Words |-> 0]]
  /\ readEpoch = [r \in Readers |-> 0]

-----------------------------------------------------------------------------
(* PRODUCER: motor_snapshot_publish                                        *)

\* Fault: the seqlock is left even while the payload is rewritten.
PublishBeginUnmarked ==
  /\ up /\ ~writing /\ row < MaxRow
  /\ seqlock' = seqlock
  /\ writing' = TRUE
  /\ toWrite' = Words
  /\ row' = row + 1
  /\ UNCHANGED <<payload, up, epoch, base, readerVars>>

\* s0 + 1: the snapshot is marked as being written.
PublishBegin ==
  /\ up /\ ~writing /\ row < MaxRow
  /\ seqlock' = seqlock + 1
  /\ writing' = TRUE
  /\ toWrite' = Words
  /\ row' = row + 1
  /\ UNCHANGED <<payload, up, epoch, base, readerVars>>

\* One word of the payload is stored.
PublishWord(w) ==
  /\ up /\ writing /\ w \in toWrite
  /\ payload' = [payload EXCEPT ![w] = row]
  /\ toWrite' = toWrite \ {w}
  /\ UNCHANGED <<seqlock, up, writing, row, epoch, base, readerVars>>

\* s0 + 2: the fence before it keeps it behind every payload store.
PublishCommit ==
  /\ up /\ writing /\ toWrite = {}
  /\ seqlock' = seqlock + 1
  /\ writing' = FALSE
  /\ UNCHANGED <<payload, up, toWrite, row, epoch, base, readerVars>>

-----------------------------------------------------------------------------
(* PRODUCER: death and rebirth                                             *)

\* The process dies where it stands; the object keeps its contents.
Crash ==
  /\ up
  /\ up' = FALSE
  /\ UNCHANGED <<seqlock, payload, writing, toWrite, row, epoch, base,
                 readerVars>>

\* A new process: shm_open finds the old object and motor_shm_region_init
\* resets seqlock; nothing touches the payload.
Restart ==
  /\ ~up /\ epoch < MaxRestarts
  /\ up' = TRUE
  /\ seqlock' = 0
  /\ writing' = FALSE
  /\ toWrite' = {}
  /\ epoch' = epoch + 1
  /\ base' = row
  /\ UNCHANGED <<payload, row, readerVars>>

-----------------------------------------------------------------------------
(* CONSUMER: motor_snapshot_read                                           *)

\* The call.
ReadCall(r) ==
  /\ pc[r] = "idle"
  /\ pc' = [pc EXCEPT ![r] = "try"]
  /\ tries' = [tries EXCEPT ![r] = 0]
  /\ UNCHANGED <<s1, toRead, out, readEpoch, producerVars>>

\* Fault: one attempt too many is made.
MayTryMore(r) == tries[r] <= MaxTries

\* tries < 64
MayTry(r) == tries[r] < MaxTries

\* Fault: an attempt on an odd seqlock is not counted.
LoadSeqUncounted(r) ==
  /\ pc[r] = "try" /\ MayTry(r)
  /\ s1' = [s1 EXCEPT ![r] = seqlock]
  /\ readEpoch' = [readEpoch EXCEPT ![r] = epoch]
  /\ IF Odd(seqlock) THEN UNCHANGED <<tries, pc, toRead>>
     ELSE /\ pc' = [pc EXCEPT ![r] = "copy"]
          /\ toRead' = [toRead EXCEPT ![r] = Words]
          /\ UNCHANGED tries
  /\ UNCHANGED <<out, producerVars>>

\* s1 is loaded; an odd value burns the attempt.
LoadSeq(r) ==
  /\ pc[r] = "try" /\ MayTry(r)
  /\ s1' = [s1 EXCEPT ![r] = seqlock]
  /\ readEpoch' = [readEpoch EXCEPT ![r] = epoch]
  /\ IF Odd(seqlock)
       THEN /\ tries' = [tries EXCEPT ![r] = @ + 1]
            /\ UNCHANGED <<pc, toRead>>
       ELSE /\ pc' = [pc EXCEPT ![r] = "copy"]
            /\ toRead' = [toRead EXCEPT ![r] = Words]
            /\ UNCHANGED tries
  /\ UNCHANGED <<out, producerVars>>

\* One word is copied into the caller's buffer.
LoadWord(r, w) ==
  /\ pc[r] = "copy" /\ w \in toRead[r]
  /\ out' = [out EXCEPT ![r][w] = payload[w]]
  /\ toRead' = [toRead EXCEPT ![r] = @ \ {w}]
  /\ UNCHANGED <<pc, tries, s1, readEpoch, producerVars>>

\* Fault: any even seqlock is taken for the one the attempt started with.
SameVersionEvenOnly(r) == ~Odd(seqlock)

\* s1 == s2
SameVersion(r) == seqlock = s1[r]

\* s2 is loaded behind every payload load and compared.
CheckSeq(r) ==
  /\ pc[r] = "copy" /\ toRead[r] = {}
  /\ IF SameVersion(r)
       THEN /\ pc' = [pc EXCEPT ![r] = "ok"]
            /\ UNCHANGED tries
       ELSE /\ pc' = [pc EXCEPT ![r] = "try"]
            /\ tries' = [tries EXCEPT ![r] = @ + 1]
  /\ UNCHANGED <<s1, toRead, out, readEpoch, producerVars>>

\* The attempts are used up: return false.
GiveUp(r) ==
  /\ pc[r] = "try" /\ ~MayTry(r)
  /\ pc' = [pc EXCEPT ![r] = "failed"]
  /\ UNCHANGED <<tries, s1, toRead, out, readEpoch, producerVars>>

\* The caller goes on; a later call starts afresh.
Return(r) ==
  /\ pc[r] \in {"ok", "failed"}
  /\ pc' = [pc EXCEPT ![r] = "idle"]
  /\ UNCHANGED <<tries, s1, toRead, out, readEpoch, producerVars>>

-----------------------------------------------------------------------------
Producer ==
  \/ PublishBegin
  \/ \E w \in Words : PublishWord(w)
  \/ PublishCommit
  \/ Crash
  \/ Restart

Attempt(r) ==
  \/ LoadSeq(r)
  \/ \E w \in Words : LoadWord(r, w)
  \/ CheckSeq(r)
  \/ GiveUp(r)

Reader(r) == ReadCall(r) \/ Attempt(r) \/ Return(r)

Next == Producer \/ \E r \in Readers : Reader(r)

Spec == Init /\ [][Next]_vars

\* A consumer is a thread of its own process: nothing stops it inside a call.
\* Nothing is assumed of the producer, which may stop for ever at any point.
FairSpec == Spec /\ \A r \in Readers : WF_vars(Attempt(r))

-----------------------------------------------------------------------------
(* PROPERTIES                                                              *)

RegionTypeOK ==
  /\ seqlock \in Nat
  /\ payload \in [Words -> Nat]
  /\ up \in BOOLEAN
  /\ writing \in BOOLEAN
  /\ toWrite \subseteq Words
  /\ row \in Nat
  /\ epoch \in Nat
  /\ base \in Nat

ReaderTypeOK ==
  /\ pc \in [Readers -> {"idle", "try", "copy", "ok", "failed"}]
  /\ tries \in [Readers -> 0 .. MaxTries]
  /\ s1 \in [Readers -> Nat]
  /\ toRead \in [Readers -> SUBSET Words]
  /\ out \in [Readers -> [Words -> Nat]]
  /\ readEpoch \in [Readers -> Nat]

\* Every variable keeps its type; in particular a call never counts more than
\* MaxTries attempts, so its loop bound is never overrun.
TypeOK == RegionTypeOK /\ ReaderTypeOK

\* The attempt of r started on a row that this life of the region published
\* (or, in the first life, on the zeroed memory) and no restart came since.
Sheltered(r) == readEpoch[r] = epoch /\ (s1[r] # 0 \/ epoch = 0)

\* When motor_snapshot_read returns true, every word of the caller's copy is
\* of one row, the one whose commit stored s1 -- unless the producer crashed
\* and re-initialised the region during the attempt, or has published nothing
\* since it did (motor_snapshot_read, the s1 == s2 test).
NoTornRead ==
  \A r \in Readers :
    pc[r] = "ok" /\ Sheltered(r) => \A w \in Words : 2 * (out[r][w] - base) = s1[r]

\* What the code says of every call that returns true, "consistent snapshot":
\* all the words are of one row.  A crash in the middle of a publish and the
\* restart that resets seqlock to an even value break it.
ConsistentSnapshot ==
  \A r \in Readers :
    pc[r] = "ok" => \A v, w \in Words : out[r][v] = out[r][w]

\* A call returns, whatever the producer does, even when it died with seqlock
\* odd (the 64 attempts of motor_snapshot_read).
ReadReturns ==
  \A r \in Readers : pc[r] = "try" ~> pc[r] \in {"ok", "failed"}

\* The row a call holds: while it runs, the row of the version it started its
\* attempt on; once it has returned true, the row its copy really is of, and a
\* number no row has if the words of the copy are of several rows.
Held(r) ==
  IF pc[r] # "ok" THEN s1[r] \div 2
  ELSE LET rowsHeld == {out[r][w] : w \in Words}
       IN  CHOOSE n \in rowsHeld \cup {MaxRow + 1} :
             rowsHeld = {n} \/ (n = MaxRow + 1 /\ \A m \in rowsHeld : rowsHeld # {m})

\* Until a restart the seqlock implements the atomic register: the register
\* changes when s0 + 2 is stored, a call looks at it when it loads s1, and what
\* motor_snapshot_read hands out is one whole row that was the latest one at
\* that moment.  The producer may die, even half way through a row.
Abs == INSTANCE AtomicSnapshot WITH
  latest <- IF writing THEN row - 1 ELSE row,
  call   <- [r \in Readers |-> IF pc[r] \in {"try", "copy"} THEN "busy" ELSE pc[r]],
  seen   <- [r \in Readers |-> Held(r)]

ImplementsAtomicSnapshot == Abs!AInit /\ [][epoch' = 0 => Abs!ANext]_(Abs!avars)

=============================================================================
