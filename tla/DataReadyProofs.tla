-------------------------- MODULE DataReadyProofs --------------------------
(***************************************************************************)
(* Proofs about DataReady, for every set of pins, miss limit and bound:    *)
(* its variables keep their types, and every pulse whose exchange finds no *)
(* frame is explained.                                                     *)
(*                                                                         *)
(* PulsesExplained is not inductive: an exchange that answers a pulse and  *)
(* finds no frame takes from credit, and what lets it do so is known when  *)
(* the wait returns.  The invariant keeps that: while an exchange is due   *)
(* that answers a pulse, the pulse is still counted.  It does not need to  *)
(* know what the level of the line means.                                  *)
(***************************************************************************)
EXTENDS DataReady, TLAPS

\* The exchange under way has taken a pulse from the channel.
Owed == IF pc = "exchange" /\ by = "pulse" THEN 1 ELSE 0

Explained == pending + Owed <= credit + (IF armed THEN 1 ELSE 0)

Types ==
  /\ GpioTypeOK
  /\ pc \in {"off", "channel", "attach", "setup", "pull", "event", "wait",
             "exchange", "teardown"}
  /\ pin \in Pins /\ wire \in Pins
  /\ chid \in BOOLEAN /\ coid \in BOOLEAN /\ reloading \in BOOLEAN
  /\ armed \in BOOLEAN /\ high \in BOOLEAN
  /\ misses \in IntMin .. IntMax
  /\ by \in {"pulse", "level"}
  /\ pending \in Nat /\ credit \in Int
  /\ frames \in 0 .. MaxFrames /\ plugs \in 0 .. MaxPlugs /\ noise \in 0 .. MaxNoise
  /\ starts \in Nat /\ reloads \in Nat

\* No pulse comes from nothing.
PulsesBounded == pending <= frames + plugs + noise

IInv == Types /\ PulsesBounded /\ Explained
-----------------------------------------------------------------------------
LEMMA Bounds ==
  /\ DR_MISS_LIMIT \in Nat /\ IntMax \in Nat
  /\ MaxFrames \in Nat /\ MaxPlugs \in Nat /\ MaxNoise \in Nat
BY DataReadyAssumption

\* The initial state satisfies the invariant.
LEMMA InvInit == Init => IInv
<1> SUFFICES ASSUME Init PROVE IInv
  OBVIOUS
<1>1. GpioTypeOK
  BY DEF Init, GpioInit, GpioTypeOK
<1>2. /\ chid \in BOOLEAN /\ coid \in BOOLEAN /\ reloading \in BOOLEAN
      /\ armed \in BOOLEAN /\ high \in BOOLEAN
  BY Zenon DEF Init
<1>3. Types
  BY Bounds, <1>1, <1>2 DEF Init, Types, IntMin
<1>4. PulsesBounded /\ Explained
  BY DEF Init, PulsesBounded, Explained, Owed
<1> QED
  BY <1>3, <1>4 DEF IInv

\* A timeout leaves misses an int, also when it wraps around.
LEMMA MissedIsInt == misses \in IntMin .. IntMax => Missed \in IntMin .. IntMax
BY Bounds DEF Missed, IntMin

\* The calls of the client keep the types of its state.
LEMMA GpioTypes ==
  ASSUME GpioTypeOK, pin \in Pins,
         \/ GpioFresh \/ GpioSetup \/ GpioSetupPull(pin) \/ GpioAddEvent(pin)
         \/ GpioInput \/ GpioFails \/ GpioCleanup \/ UNCHANGED gpioVars
  PROVE  GpioTypeOK'
BY DEF GpioTypeOK, GpioFresh, GpioSetup, GpioSetupPull, GpioAddEvent, GpioInput,
       GpioFails, GpioCleanup, gpioVars, Connects

\* Start, reload and end of the controller: no pulse is sent and no exchange
\* begins or ends.
LEMMA LifeStep ==
  ASSUME IInv,
         \/ CreateChannel \/ AttachChannel \/ Arm \/ Teardown \/ Stop
         \/ \E p \in Pins : Start(p) \/ Reload(p)
  PROVE  IInv'
<1> USE DEF IInv, Types, Goto, lineVars, boundVars, IntMin
<1>1. GpioTypeOK'
  <2>1. \/ GpioFresh \/ GpioSetup \/ GpioSetupPull(pin) \/ GpioAddEvent(pin)
        \/ GpioFails \/ GpioCleanup \/ UNCHANGED gpioVars
    BY DEF CreateChannel, AttachChannel, Arm, Teardown, Stop, Start, Reload, Repoint
  <2> QED
    BY <2>1, GpioTypes
<1>2. /\ pc # "exchange" /\ pc' # "exchange"
      /\ pending' = pending \/ pending' = 0
      /\ UNCHANGED <<by, wire, armed, high, frames, plugs, noise, credit>>
  BY DEF CreateChannel, AttachChannel, Arm, ArmFailed, Teardown, Stop, Start, Reload, Repoint
<1>3. Types'
  <2>1. /\ pc' \in {"off", "channel", "attach", "setup", "pull", "event", "wait",
                    "exchange", "teardown"}
        /\ chid' \in BOOLEAN /\ coid' \in BOOLEAN /\ reloading' \in BOOLEAN
    BY DEF CreateChannel, AttachChannel, Arm, ArmFailed, Teardown, Stop, Start, Reload, Repoint
  <2>2. /\ pin' \in Pins /\ misses' \in IntMin .. IntMax
        /\ starts' \in Nat /\ reloads' \in Nat
    BY Bounds DEF CreateChannel, AttachChannel, Arm, Teardown, Stop, Start, Reload, Repoint
  <2> QED
    BY <1>1, <1>2, <2>1, <2>2
<1>4. PulsesBounded' /\ Explained'
  BY <1>2 DEF PulsesBounded, Explained, Owed
<1> QED
  BY <1>3, <1>4

\* The wait and the exchange.
LEMMA WaitStep ==
  ASSUME IInv,
         \/ WaitPulse \/ WaitLevel \/ WaitFloating \/ WaitTimeout
         \/ Exchange \/ ExchangeFails
  PROVE  IInv'
<1> USE DEF IInv, Types, PulsesBounded, Explained, Owed, Goto, lineVars, boundVars
<1>1. GpioTypeOK'
  <2>1. GpioInput \/ GpioFails \/ UNCHANGED gpioVars
    BY DEF WaitPulse, WaitLevel, WaitFloating, WaitTimeout, Exchange, ExchangeFails
  <2> QED
    BY <2>1, GpioTypes
<1>2. misses' \in IntMin .. IntMax
  BY MissedIsInt, Bounds
     DEF WaitPulse, WaitLevel, WaitFloating, WaitTimeout, Exchange, ExchangeFails, IntMin
<1>3. CASE WaitPulse
  BY <1>1, <1>2, <1>3 DEF WaitPulse
<1>4. CASE WaitLevel
  BY <1>1, <1>2, <1>4 DEF WaitLevel, LineHigh
<1>5. CASE WaitFloating
  BY <1>1, <1>2, <1>5, Bounds DEF WaitFloating
<1>6. CASE WaitTimeout
  BY <1>1, <1>2, <1>6 DEF WaitTimeout
<1>7. CASE Exchange
  <2>1. armed' \in BOOLEAN /\ armed' = FALSE
    BY <1>7, Zenon DEF Exchange
  <2>2. credit' \in Int /\ pending <= credit'
    BY <1>7 DEF Exchange
  <2> QED
    BY <1>1, <1>2, <1>7, <2>1, <2>2 DEF Exchange
<1>8. CASE ExchangeFails
  BY <1>1, <1>2, <1>8 DEF ExchangeFails
<1> QED
  BY <1>3, <1>4, <1>5, <1>6, <1>7, <1>8

\* The line: an edge sends at most one pulse.
LEMMA LineStep ==
  ASSUME IInv, StmArms \/ StmLowers \/ \E p \in Pins : Plug(p) \/ Noise(p)
  PROVE  IInv'
<1> USE Bounds DEF IInv, Types, PulsesBounded, Explained, Owed, ctrlVars
<1>1. UNCHANGED gpioVars
  BY DEF StmArms, StmLowers, Plug, Noise
<1>2. GpioTypeOK'
  BY <1>1, GpioTypes
<1>3. CASE StmArms
  BY <1>2, <1>3 DEF StmArms, Edge
<1>4. ASSUME NEW p \in Pins, Plug(p) PROVE IInv'
  BY <1>2, <1>4 DEF Plug, Edge
<1>5. ASSUME NEW p \in Pins, Noise(p) PROVE IInv'
  BY <1>2, <1>5 DEF Noise
<1>6. CASE StmLowers
  BY <1>2, <1>6 DEF StmLowers, Fall, boundVars
<1> QED
  BY <1>3, <1>4, <1>5, <1>6

\* The invariant is inductive.
LEMMA InvStep == IInv /\ [Next]_vars => IInv'
<1> SUFFICES ASSUME IInv, [Next]_vars PROVE IInv'
  OBVIOUS
<1>1. CASE UNCHANGED vars
  BY <1>1 DEF vars, gpioVars, ctrlVars, lineVars, boundVars, IInv, Types, PulsesBounded,
              Explained, Owed, GpioTypeOK
<1> QED
  BY <1>1, LifeStep, WaitStep, LineStep DEF Next, Controller

\* Every variable keeps its type; in particular misses stays an int, and no more
\* pulses queue up in the channel than there were edges (dataready_wait).
THEOREM TypeCorrect == Spec => []TypeOK
<1>1. IInv => TypeOK
  BY Bounds DEF IInv, Types, PulsesBounded, TypeOK
<1> QED
  BY InvInit, InvStep, <1>1, PTL DEF Spec

\* Every pulse whose exchange finds no frame, or will find none, has its own
\* explanation, whatever pulses are missed, late or left over, however long the
\* line stays high and wherever it is plugged in (dataready_wait,
\* dataready_repoint).
THEOREM PulsesAreExplained == Spec => []PulsesExplained
<1>1. IInv => PulsesExplained
  BY DEF IInv, Types, Explained, Owed, PulsesExplained
<1> QED
  BY InvInit, InvStep, <1>1, PTL DEF Spec
=============================================================================
