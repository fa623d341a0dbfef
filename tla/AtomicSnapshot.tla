--------------------------- MODULE AtomicSnapshot ---------------------------
(***************************************************************************)
(* What the snapshot half of the shared-memory region promises, without    *)
(* saying how: a register that holds the latest row, written atomically,   *)
(* and readers whose successful call returns one whole row that was the    *)
(* latest one at some moment of the call.  A call may also fail, and then  *)
(* promises nothing.                                                       *)
(***************************************************************************)
EXTENDS Naturals

CONSTANTS Readers,   \* the consumers (the Qt dashboard, motor_monitor)
          MaxRow     \* bound on the number of published rows

VARIABLES latest,    \* number of the latest published row; 0 = none yet
          call,      \* state of each reader's call
          seen       \* the row the call holds

avars == <<latest, call, seen>>

CallStates == {"idle", "busy", "ok", "failed"}

AInit ==
  /\ latest = 0
  /\ call = [r \in Readers |-> "idle"]
  /\ seen = [r \in Readers |-> 0]

\* A new row becomes the latest one, in one step.
Publish ==
  /\ latest < MaxRow
  /\ latest' = latest + 1
  /\ UNCHANGED <<call, seen>>

\* A reader starts a call.
Begin(r) ==
  /\ call[r] = "idle"
  /\ call' = [call EXCEPT ![r] = "busy"]
  /\ UNCHANGED <<latest, seen>>

\* The reader looks at the register; it may look again before it returns.
Look(r) ==
  /\ call[r] = "busy"
  /\ seen' = [seen EXCEPT ![r] = latest]
  /\ UNCHANGED <<latest, call>>

\* The call returns the row it looked at last, or fails.
Finish(r) ==
  /\ call[r] = "busy"
  /\ \E outcome \in {"ok", "failed"} : call' = [call EXCEPT ![r] = outcome]
  /\ UNCHANGED <<latest, seen>>

\* The caller is done with the result.
Release(r) ==
  /\ call[r] \in {"ok", "failed"}
  /\ call' = [call EXCEPT ![r] = "idle"]
  /\ UNCHANGED <<latest, seen>>

ANext ==
  \/ Publish
  \/ \E r \in Readers : Begin(r) \/ Look(r) \/ Finish(r) \/ Release(r)

ASpec == AInit /\ [][ANext]_avars

=============================================================================
