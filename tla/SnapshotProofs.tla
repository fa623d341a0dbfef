--------------------------- MODULE SnapshotProofs ---------------------------
(***************************************************************************)
(* The safety of the seqlock snapshot for every number of words, readers,  *)
(* attempts, rows and restarts.                                            *)
(*                                                                         *)
(* NoTornRead is not inductive: that the words of a finished copy are of   *)
(* one row follows from what the attempt knew about each word while it was *)
(* copying, and that from how the shared region looks between two commits. *)
(* IInv says both, part by part.                                           *)
(***************************************************************************)
EXTENDS Snapshot, TLAPS

-----------------------------------------------------------------------------
(* THE INDUCTIVE INVARIANT                                                 *)

\* The types, and that an attempt under way is one of the MaxTries: without
\* it TypeOK alone is not inductive.
TypeInv ==
  /\ RegionTypeOK
  /\ ReaderTypeOK
  /\ \A r \in Readers : pc[r] = "copy" => MayTry(r)

\* seqlock counts the rows of this life of the region, two steps to a row.
VersionInv ==
  /\ base <= row
  /\ IF writing THEN /\ row > base
                     /\ seqlock = 2 * (row - base) - 1
                ELSE /\ toWrite = {}
                     /\ seqlock = 2 * (row - base)

\* A word that is not waiting to be stored holds the latest row, except for
\* what an earlier life left behind.
PayloadInv ==
  row # base \/ epoch = 0 => \A w \in Words \ toWrite : payload[w] = row

\* An attempt that is copying started on an even version, not ahead of the
\* region's; while the versions agree, the words it has copied are of that row.
CopyInv(r) ==
  /\ readEpoch[r] <= epoch
  /\ pc[r] = "copy" => ~Odd(s1[r])
  /\ pc[r] = "copy" /\ readEpoch[r] = epoch => s1[r] <= seqlock
  /\ pc[r] = "copy" /\ Sheltered(r) /\ s1[r] = seqlock
       => \A w \in Words \ toRead[r] : 2 * (out[r][w] - base) = s1[r]

IInv ==
  /\ TypeInv
  /\ VersionInv
  /\ PayloadInv
  /\ \A r \in Readers : CopyInv(r)
  /\ NoTornRead

-----------------------------------------------------------------------------
\* The parity of seqlock tells whether a publish is in progress.
LEMMA OddIsWriting ==
  ASSUME NEW n \in Int
  PROVE  /\ Odd(2 * n - 1)
         /\ ~Odd(2 * n)
BY DEF Odd

\* The initial state satisfies the invariant.
LEMMA InitInv == Init => IInv
<1> SUFFICES ASSUME Init PROVE IInv
  OBVIOUS
<1> USE DEF Init
<1>1. TypeInv
  <2>1. RegionTypeOK
    BY DEF RegionTypeOK
  <2>2. ReaderTypeOK
    <3>1. 0 \in 0 .. MaxTries
      BY ConstantsAssumption
    <3> QED
      BY <3>1 DEF ReaderTypeOK
  <2>3. \A r \in Readers : pc[r] = "copy" => MayTry(r)
    OBVIOUS
  <2> QED
    BY <2>1, <2>2, <2>3 DEF TypeInv
<1>2. VersionInv /\ PayloadInv
  BY DEF VersionInv, PayloadInv
<1>3. \A r \in Readers : CopyInv(r)
  BY DEF CopyInv
<1>4. NoTornRead
  BY DEF NoTornRead
<1> QED
  BY <1>1, <1>2, <1>3, <1>4 DEF IInv

-----------------------------------------------------------------------------
(* TYPES                                                                   *)

\* No step leaves the types; the loop bound of a call is what keeps tries in
\* its range.
LEMMA TypeStep == TypeInv /\ [Next]_vars => TypeInv'
<1> SUFFICES ASSUME TypeInv, [Next]_vars PROVE TypeInv'
  OBVIOUS
<1> USE DEF TypeInv, producerVars, readerVars
<1> DEFINE MayTryAll == \A r \in Readers : pc[r] = "copy" => MayTry(r)
<1>1. CASE UNCHANGED readerVars /\ Producer
  <2>1. RegionTypeOK'
    <3>1. CASE PublishBegin
      BY <3>1 DEF PublishBegin, RegionTypeOK
    <3>2. ASSUME NEW w \in Words, PublishWord(w) PROVE RegionTypeOK'
      BY <3>2 DEF PublishWord, RegionTypeOK
    <3>3. CASE PublishCommit
      <4>1. writing' \in BOOLEAN
        BY <3>3 DEF PublishCommit
      <4> QED
        BY <3>3, <4>1 DEF PublishCommit, RegionTypeOK
    <3>4. CASE Crash
      BY <3>4 DEF Crash, RegionTypeOK
    <3>5. CASE Restart
      <4>1. up' \in BOOLEAN /\ writing' \in BOOLEAN
        BY <3>5 DEF Restart
      <4> QED
        BY <3>5, <4>1 DEF Restart, RegionTypeOK
    <3> QED
      BY <1>1, <3>1, <3>2, <3>3, <3>4, <3>5 DEF Producer
  <2>2. ReaderTypeOK' /\ MayTryAll'
    BY <1>1 DEF ReaderTypeOK, MayTry
  <2> QED
    BY <2>1, <2>2
<1>2. ASSUME NEW r \in Readers, Reader(r) PROVE TypeInv'
  <2>1. RegionTypeOK'
    BY <1>2 DEF Reader, Attempt, ReadCall, LoadSeq, LoadWord, CheckSeq, GiveUp,
                Return, RegionTypeOK
  <2>2. ReaderTypeOK' /\ MayTryAll'
    <3> USE ConstantsAssumption DEF ReaderTypeOK, RegionTypeOK, MayTry
    <3>1. CASE ReadCall(r)
      BY <3>1 DEF ReadCall
    <3>2. CASE LoadSeq(r)
      <4>1. CASE Odd(seqlock)
        <5>1. tries[r] + 1 \in 0 .. MaxTries
          BY <3>2 DEF LoadSeq
        <5> QED
          BY <3>2, <4>1, <5>1 DEF LoadSeq
      <4>2. CASE ~Odd(seqlock)
        BY <3>2, <4>2 DEF LoadSeq
      <4> QED
        BY <4>1, <4>2
    <3>3. ASSUME NEW w \in Words, LoadWord(r, w)
          PROVE  ReaderTypeOK' /\ MayTryAll'
      BY <3>3 DEF LoadWord
    <3>4. CASE CheckSeq(r)
      <4>1. tries[r] + 1 \in 0 .. MaxTries
        BY <3>4 DEF CheckSeq
      <4>2. CASE SameVersion(r)
        BY <3>4, <4>2 DEF CheckSeq
      <4>3. CASE ~SameVersion(r)
        BY <3>4, <4>1, <4>3 DEF CheckSeq
      <4> QED
        BY <4>2, <4>3
    <3>5. CASE GiveUp(r)
      BY <3>5 DEF GiveUp
    <3>6. CASE Return(r)
      BY <3>6 DEF Return
    <3> QED
      BY <1>2, <3>1, <3>2, <3>3, <3>4, <3>5, <3>6 DEF Reader, Attempt
  <2> QED
    BY <2>1, <2>2
<1>3. CASE UNCHANGED vars
  BY <1>3 DEF vars, RegionTypeOK, ReaderTypeOK, MayTry
<1>4. Producer => UNCHANGED readerVars
  BY DEF Producer, PublishBegin, PublishWord, PublishCommit, Crash, Restart
<1> QED
  BY <1>1, <1>2, <1>3, <1>4 DEF Next

\* Every variable keeps its type in every behaviour; in particular no call
\* overruns the loop bound of motor_snapshot_read.
THEOREM TypeCorrect == Spec => []TypeOK
<1>1. Init => TypeInv
  BY InitInv DEF IInv
<1>2. TypeInv /\ [Next]_vars => TypeInv'
  BY TypeStep
<1>3. TypeInv => TypeOK
  BY DEF TypeInv, TypeOK
<1> QED
  BY <1>1, <1>2, <1>3, PTL DEF Spec

-----------------------------------------------------------------------------
(* THE REGION                                                              *)

\* No step of the producer or of a reader breaks what is known of the region.
LEMMA RegionStep ==
  TypeInv /\ VersionInv /\ PayloadInv /\ [Next]_vars => VersionInv' /\ PayloadInv'
<1> SUFFICES ASSUME TypeInv, VersionInv, PayloadInv, [Next]_vars
             PROVE  VersionInv' /\ PayloadInv'
  OBVIOUS
<1> USE DEF TypeInv, RegionTypeOK, VersionInv, PayloadInv
<1>1. CASE PublishBegin
  BY <1>1 DEF PublishBegin
<1>2. ASSUME NEW w \in Words, PublishWord(w) PROVE VersionInv' /\ PayloadInv'
  BY <1>2 DEF PublishWord
<1>3. CASE PublishCommit
  BY <1>3 DEF PublishCommit
<1>4. CASE Crash
  BY <1>4 DEF Crash
<1>5. CASE Restart
  BY <1>5 DEF Restart
<1>6. CASE UNCHANGED producerVars
  BY <1>6 DEF producerVars
<1>7. (\E r \in Readers : Reader(r)) \/ UNCHANGED vars => UNCHANGED producerVars
  BY DEF Reader, Attempt, ReadCall, LoadSeq, LoadWord, CheckSeq, GiveUp, Return,
         producerVars, vars
<1> QED
  BY <1>1, <1>2, <1>3, <1>4, <1>5, <1>6, <1>7 DEF Next, Producer

\* While the version is even, the region holds the row of that version.
LEMMA StableRow ==
  ASSUME TypeInv, VersionInv, PayloadInv, ~Odd(seqlock),
         seqlock # 0 \/ epoch = 0, NEW w \in Words
  PROVE  2 * (payload[w] - base) = seqlock
<1>1. ~writing
  <2>1. row - base \in Int
    BY DEF TypeInv, RegionTypeOK
  <2>2. Odd(2 * (row - base) - 1)
    BY <2>1, OddIsWriting
  <2> QED
    BY <2>2 DEF VersionInv
<1>2. toWrite = {} /\ seqlock = 2 * (row - base)
  BY <1>1 DEF VersionInv
<1>3. row # base \/ epoch = 0
  BY <1>2 DEF TypeInv, RegionTypeOK
<1> QED
  BY <1>2, <1>3 DEF PayloadInv

-----------------------------------------------------------------------------
(* THE READERS                                                             *)

\* A step of the producer moves the version away from every attempt that is
\* copying, or leaves version and row alone.
LEMMA CopyUnderProducer ==
  ASSUME TypeInv, VersionInv, Producer, UNCHANGED readerVars,
         NEW r \in Readers, CopyInv(r)
  PROVE  CopyInv(r)'
<1> USE DEF TypeInv, RegionTypeOK, ReaderTypeOK, VersionInv, CopyInv, Sheltered,
            readerVars
<1>1. CASE PublishBegin
  BY <1>1 DEF PublishBegin
<1>2. ASSUME NEW w \in Words, PublishWord(w) PROVE CopyInv(r)'
  BY <1>2 DEF PublishWord
<1>3. CASE PublishCommit
  BY <1>3 DEF PublishCommit
<1>4. CASE Crash
  BY <1>4 DEF Crash
<1>5. CASE Restart
  BY <1>5 DEF Restart
<1> QED
  BY <1>1, <1>2, <1>3, <1>4, <1>5 DEF Producer

\* A step of a reader keeps its own attempt sound.
LEMMA CopyUnderReader ==
  ASSUME TypeInv, VersionInv, PayloadInv, NEW r \in Readers, Reader(r), CopyInv(r)
  PROVE  CopyInv(r)'
<1> USE DEF TypeInv, ReaderTypeOK, CopyInv, producerVars
<1>1. CASE ReadCall(r)
  BY <1>1 DEF ReadCall
<1>2. CASE LoadSeq(r)
  BY <1>2 DEF LoadSeq, RegionTypeOK
<1>3. ASSUME NEW w \in Words, LoadWord(r, w) PROVE CopyInv(r)'
  <2>1. Sheltered(r) /\ s1[r] = seqlock => 2 * (payload[w] - base) = s1[r]
    BY <1>3, StableRow DEF LoadWord, Sheltered
  <2>2. /\ out[r]' = [out[r] EXCEPT ![w] = payload[w]]
        /\ toRead[r]' = toRead[r] \ {w}
        /\ UNCHANGED <<pc, s1, readEpoch, seqlock, epoch, base>>
    BY <1>3 DEF LoadWord
  <2>3. Sheltered(r)' <=> Sheltered(r)
    BY <2>2 DEF Sheltered
  <2> QED
    BY <2>1, <2>2, <2>3
<1>4. CASE CheckSeq(r)
  BY <1>4 DEF CheckSeq
<1>5. CASE GiveUp(r)
  BY <1>5 DEF GiveUp
<1>6. CASE Return(r)
  BY <1>6 DEF Return
<1> QED
  BY <1>1, <1>2, <1>3, <1>4, <1>5, <1>6 DEF Reader, Attempt

\* A step of one reader touches no other.
LEMMA OtherReader ==
  ASSUME TypeInv, NEW r \in Readers, Reader(r), NEW q \in Readers \ {r}
  PROVE  /\ UNCHANGED <<pc[q], s1[q], toRead[q], out[q], readEpoch[q]>>
         /\ UNCHANGED <<seqlock, epoch, base>>
BY DEF TypeInv, ReaderTypeOK, Reader, Attempt, ReadCall, LoadSeq, LoadWord, CheckSeq,
       GiveUp, Return, producerVars

\* Only the final check turns an attempt into a result, and it has seen every
\* word copied under one version.
LEMMA TornStep ==
  ASSUME TypeInv, VersionInv, \A r \in Readers : CopyInv(r), NoTornRead, [Next]_vars
  PROVE  NoTornRead'
<1> USE DEF NoTornRead, Sheltered, TypeInv, RegionTypeOK, ReaderTypeOK
<1>1. CASE Producer
  <2>1. UNCHANGED readerVars
    BY <1>1 DEF Producer, PublishBegin, PublishWord, PublishCommit, Crash, Restart
  <2>2. (UNCHANGED <<epoch, base>>) \/ epoch' = epoch + 1
    BY <1>1 DEF Producer, PublishBegin, PublishWord, PublishCommit, Crash, Restart
  <2> QED
    BY <2>1, <2>2 DEF readerVars, CopyInv
<1>2. ASSUME NEW r \in Readers, Reader(r) PROVE NoTornRead'
  <2>1. ASSUME NEW q \in Readers \ {r}, (pc[q] = "ok" /\ Sheltered(q))',
               NEW w \in Words
        PROVE  (2 * (out[q][w] - base) = s1[q])'
    BY <1>2, <2>1, OtherReader
  <2>2. ASSUME (pc[r] = "ok" /\ Sheltered(r))', NEW w \in Words
        PROVE  (2 * (out[r][w] - base) = s1[r])'
    <3>1. CheckSeq(r)
      BY <1>2, <2>2 DEF Reader, Attempt, ReadCall, LoadSeq, LoadWord, GiveUp, Return
    <3>2. SameVersion(r) /\ pc[r] = "copy" /\ toRead[r] = {}
      BY <2>2, <3>1 DEF CheckSeq
    <3>3. UNCHANGED <<s1, out, readEpoch, seqlock, epoch, base>>
      BY <3>1 DEF CheckSeq, producerVars
    <3> QED
      BY <2>2, <3>2, <3>3 DEF SameVersion, CopyInv
  <2> QED
    BY <2>1, <2>2
<1>3. CASE UNCHANGED vars
  BY <1>3 DEF vars
<1> QED
  BY <1>1, <1>2, <1>3 DEF Next

\* The invariant is inductive.
LEMMA InvStep == IInv /\ [Next]_vars => IInv'
<1> SUFFICES ASSUME IInv, [Next]_vars PROVE IInv'
  OBVIOUS
<1> USE DEF IInv
<1>1. TypeInv'
  BY TypeStep
<1>2. VersionInv' /\ PayloadInv'
  BY RegionStep
<1>3. ASSUME NEW q \in Readers PROVE CopyInv(q)'
  <2>1. CASE Producer
    <3>1. UNCHANGED readerVars
      BY <2>1 DEF Producer, PublishBegin, PublishWord, PublishCommit, Crash, Restart
    <3> QED
      BY <2>1, <3>1, CopyUnderProducer
  <2>2. CASE Reader(q)
    BY <2>2, CopyUnderReader
  <2>3. ASSUME NEW r \in Readers, r # q, Reader(r) PROVE CopyInv(q)'
    BY <2>3, OtherReader DEF CopyInv, Sheltered
  <2>4. CASE UNCHANGED vars
    BY <2>4 DEF vars, CopyInv, Sheltered
  <2> QED
    BY <2>1, <2>2, <2>3, <2>4 DEF Next
<1>4. NoTornRead'
  BY TornStep
<1> QED
  BY <1>1, <1>2, <1>3, <1>4

\* A call of motor_snapshot_read that returns true hands out one whole row,
\* the one of the version it read under, in every behaviour in which its
\* attempt is not cut in two by a restart of the producer.
THEOREM ReadsAreWhole == Spec => []NoTornRead
<1>1. IInv => NoTornRead
  BY DEF IInv
<1> QED
  BY InitInv, InvStep, <1>1, PTL DEF Spec

-----------------------------------------------------------------------------
(* THE REFINEMENT: Snapshot implements AtomicSnapshot until a restart      *)

\* The first life counts its rows from 0, and there are no more than MaxRow.
LifeInv == (epoch = 0 => base = 0) /\ row <= MaxRow

\* What a step may do to epoch, base and row.
LEMMA LifeStep ==
  ASSUME TypeInv, LifeInv, [Next]_vars
  PROVE  LifeInv' /\ (epoch' = 0 => epoch = 0)
<1> USE DEF TypeInv, RegionTypeOK, LifeInv
<1>1. CASE PublishBegin
  BY <1>1, ConstantsAssumption DEF PublishBegin
<1>2. CASE Restart
  BY <1>2 DEF Restart
<1>3. CASE UNCHANGED <<row, epoch, base>>
  BY <1>3
<1>4. Next => PublishBegin \/ Restart \/ UNCHANGED <<row, epoch, base>>
  BY DEF Next, Producer, PublishWord, PublishCommit, Crash, Reader, Attempt, ReadCall,
         LoadSeq, LoadWord, CheckSeq, GiveUp, Return, producerVars
<1> QED
  BY <1>1, <1>2, <1>3, <1>4 DEF vars

\* Until a restart a call holds the row of the version it started on, also when
\* it has returned true: its copy is whole.
LEMMA HeldIs ==
  IInv /\ LifeInv /\ epoch = 0 => \A r \in Readers : Held(r) = s1[r] \div 2
<1> SUFFICES ASSUME IInv, LifeInv, epoch = 0, NEW r \in Readers
             PROVE  Held(r) = s1[r] \div 2
  OBVIOUS
<1> USE DEF IInv, TypeInv, RegionTypeOK, ReaderTypeOK
<1>1. CASE pc[r] # "ok"
  BY <1>1 DEF Held
<1>2. CASE pc[r] = "ok"
  <2> DEFINE n == s1[r] \div 2
             rowsHeld == {out[r][w] : w \in Words}
  <2>1. Sheltered(r)
    BY DEF CopyInv, Sheltered
  <2>2. \A w \in Words : 2 * out[r][w] = s1[r] /\ out[r][w] \in Nat
    BY <1>2, <2>1 DEF NoTornRead, LifeInv
  <2>3. \A w \in Words : out[r][w] = n
    <3>1. ASSUME NEW x \in Nat PROVE (2 * x) \div 2 = x
      OBVIOUS
    <3> QED
      BY <2>2, <3>1
  <2>4. rowsHeld = {n}
    BY <2>3, ConstantsAssumption
  <2> HIDE DEF n, rowsHeld
  <2>5. \A k \in rowsHeld \cup {MaxRow + 1} :
          rowsHeld = {k} \/ (k = MaxRow + 1 /\ \A m \in rowsHeld : rowsHeld # {m})
            <=> k = n
    BY <2>4
  <2>6. n \in rowsHeld \cup {MaxRow + 1}
    BY <2>4
  <2>7. (CHOOSE k \in rowsHeld \cup {MaxRow + 1} :
           rowsHeld = {k} \/ (k = MaxRow + 1 /\ \A m \in rowsHeld : rowsHeld # {m})) = n
    BY <2>5, <2>6
  <2> QED
    BY <1>2, <2>7 DEF Held, n, rowsHeld
<1> QED
  BY <1>1, <1>2

\* In the first life seqlock tells which row is the latest.
LEMMA LatestIs ==
  ASSUME IInv, LifeInv, epoch = 0
  PROVE  seqlock \div 2 = IF writing THEN row - 1 ELSE row
<1>1. row \in Nat /\ base = 0 /\ seqlock = IF writing THEN 2 * row - 1 ELSE 2 * row
  BY DEF IInv, TypeInv, RegionTypeOK, VersionInv, LifeInv
<1> QED
  BY <1>1

\* The rows the calls hold move only when a call loads s1.
LEMMA RefineProducer ==
  ASSUME IInv, LifeInv, Producer, epoch = 0, epoch' = 0,
         \A r \in Readers : Held(r) = s1[r] \div 2,
         \A r \in Readers : Held(r)' = s1'[r] \div 2
  PROVE  Abs!ANext \/ UNCHANGED Abs!avars
<1> USE DEF IInv, TypeInv, RegionTypeOK
<1>1. UNCHANGED readerVars
  BY DEF Producer, PublishBegin, PublishWord, PublishCommit, Crash, Restart
<1>2. UNCHANGED <<[r \in Readers |-> IF pc[r] \in {"try", "copy"} THEN "busy" ELSE pc[r]],
                  [r \in Readers |-> Held(r)]>>
  <2>1. \A r \in Readers : Held(r)' = Held(r)
    BY <1>1 DEF readerVars
  <2> QED
    BY <1>1, <2>1 DEF readerVars
<1>3. CASE PublishCommit
  <2>1. row > base /\ row <= MaxRow /\ row \in Nat
    BY <1>3 DEF PublishCommit, VersionInv, LifeInv
  <2>2. Abs!Publish
    BY <1>2, <1>3, <2>1, ConstantsAssumption DEF PublishCommit, Abs!Publish
  <2> QED
    BY <2>2 DEF Abs!ANext
<1>4. CASE ~PublishCommit
  <2>1. UNCHANGED (IF writing THEN row - 1 ELSE row)
    BY <1>4 DEF Producer, PublishBegin, PublishWord, Crash, Restart
  <2> QED
    BY <1>2, <2>1 DEF Abs!avars
<1> QED
  BY <1>3, <1>4

\* A step of a reader is one of the abstract reader's, or none.
LEMMA RefineReader ==
  ASSUME IInv, LifeInv, epoch = 0, NEW r \in Readers, Reader(r),
         \A q \in Readers : Held(q) = s1[q] \div 2,
         \A q \in Readers : Held(q)' = s1'[q] \div 2
  PROVE  Abs!ANext \/ UNCHANGED Abs!avars
<1> DEFINE call == [q \in Readers |-> IF pc[q] \in {"try", "copy"} THEN "busy" ELSE pc[q]]
           held == [q \in Readers |-> Held(q)]
           latest == IF writing THEN row - 1 ELSE row
<1> USE DEF IInv, TypeInv, ReaderTypeOK
<1>1. UNCHANGED latest
  BY DEF Reader, Attempt, ReadCall, LoadSeq, LoadWord, CheckSeq, GiveUp, Return,
         producerVars
<1>2. UNCHANGED s1 => UNCHANGED held
  OBVIOUS
<1>3. CASE ReadCall(r)
  <2>1. call[r] = "idle" /\ call' = [call EXCEPT ![r] = "busy"] /\ UNCHANGED s1
    BY <1>3 DEF ReadCall
  <2>2. Abs!Begin(r)
    BY <1>1, <1>2, <2>1 DEF Abs!Begin
  <2> QED
    BY <2>2 DEF Abs!ANext
<1>4. CASE LoadSeq(r)
  <2>1. call[r] = "busy" /\ UNCHANGED call
    BY <1>4 DEF LoadSeq
  <2>2. s1' = [s1 EXCEPT ![r] = seqlock]
    BY <1>4 DEF LoadSeq
  <2>3. held' = [held EXCEPT ![r] = latest]
    BY <2>2, LatestIs
  <2>4. Abs!Look(r)
    BY <1>1, <2>1, <2>3 DEF Abs!Look
  <2> QED
    BY <2>4 DEF Abs!ANext
<1>5. CASE \E w \in Words : LoadWord(r, w)
  <2>1. UNCHANGED call /\ UNCHANGED s1
    BY <1>5 DEF LoadWord
  <2> QED
    BY <1>1, <1>2, <2>1 DEF Abs!avars
<1>6. CASE CheckSeq(r)
  <2>1. call[r] = "busy" /\ UNCHANGED s1
    BY <1>6 DEF CheckSeq
  <2>2. CASE SameVersion(r)
    <3>1. call' = [call EXCEPT ![r] = "ok"]
      BY <1>6, <2>2 DEF CheckSeq
    <3>2. Abs!Finish(r)
      BY <1>1, <1>2, <2>1, <3>1 DEF Abs!Finish
    <3> QED
      BY <3>2 DEF Abs!ANext
  <2>3. CASE ~SameVersion(r)
    <3>1. UNCHANGED call
      BY <1>6, <2>3 DEF CheckSeq
    <3> QED
      BY <1>1, <1>2, <2>1, <3>1 DEF Abs!avars
  <2> QED
    BY <2>2, <2>3
<1>7. CASE GiveUp(r)
  <2>1. call[r] = "busy" /\ call' = [call EXCEPT ![r] = "failed"] /\ UNCHANGED s1
    BY <1>7 DEF GiveUp
  <2>2. Abs!Finish(r)
    BY <1>1, <1>2, <2>1 DEF Abs!Finish
  <2> QED
    BY <2>2 DEF Abs!ANext
<1>8. CASE Return(r)
  <2>1. call[r] \in {"ok", "failed"} /\ call' = [call EXCEPT ![r] = "idle"] /\ UNCHANGED s1
    BY <1>8 DEF Return
  <2>2. Abs!Release(r)
    BY <1>1, <1>2, <2>1 DEF Abs!Release
  <2> QED
    BY <2>2 DEF Abs!ANext
<1> QED
  BY <1>3, <1>4, <1>5, <1>6, <1>7, <1>8 DEF Reader, Attempt

\* Until a restart the seqlock implements the atomic register, for every number
\* of words and readers: a successful motor_snapshot_read returns one whole row,
\* the latest one at the moment it loaded s1, also when the producer dies half
\* way through the next.
THEOREM SnapshotIsAtomic == Spec => ImplementsAtomicSnapshot
<1>1. Init => Abs!AInit /\ LifeInv
  <2> SUFFICES ASSUME Init PROVE Abs!AInit /\ LifeInv
    OBVIOUS
  <2>1. \A r \in Readers : Held(r) = 0
    BY DEF Init, Held
  <2> QED
    BY <2>1, ConstantsAssumption DEF Init, Abs!AInit, LifeInv
<1>2. IInv /\ LifeInv /\ [Next]_vars => LifeInv'
  BY LifeStep DEF IInv
<1>3. (IInv /\ LifeInv /\ epoch = 0 => \A r \in Readers : Held(r) = s1[r] \div 2)'
  BY HeldIs, PTL
<1>4. IInv /\ LifeInv /\ [Next]_vars /\ IInv' /\ LifeInv'
        => [epoch' = 0 => Abs!ANext]_(Abs!avars)
  <2> SUFFICES ASSUME IInv, LifeInv, [Next]_vars, IInv', LifeInv', epoch' = 0
               PROVE  Abs!ANext \/ UNCHANGED Abs!avars
    OBVIOUS
  <2>1. epoch = 0
    BY LifeStep DEF IInv
  <2>2. \A r \in Readers : Held(r) = s1[r] \div 2
    BY <2>1, HeldIs
  <2>3. \A r \in Readers : Held(r)' = s1'[r] \div 2
    BY <1>3
  <2>4. CASE Producer
    BY <2>1, <2>2, <2>3, <2>4, RefineProducer
  <2>5. ASSUME NEW r \in Readers, Reader(r) PROVE Abs!ANext \/ UNCHANGED Abs!avars
    BY <2>1, <2>2, <2>3, <2>5, RefineReader
  <2>6. CASE UNCHANGED vars
    BY <2>6 DEF vars, Abs!avars, Held
  <2> QED
    BY <2>4, <2>5, <2>6 DEF Next
<1> QED
  BY InitInv, InvStep, <1>1, <1>2, <1>4, PTL DEF Spec, ImplementsAtomicSnapshot

=============================================================================
