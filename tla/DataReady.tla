----------------------------- MODULE DataReady -----------------------------
(***************************************************************************)
(* The data-ready line: how the controller (dataready_* and the main loop  *)
(* of motor_controller.c) learns that the STM32 has armed a frame.         *)
(*                                                                         *)
(* Arming raises the line, which stays high for the transfer and some time *)
(* after it and dips, at the latest, before the next frame.  The driver    *)
(* sends a pulse to the controller's channel for a rising edge on a        *)
(* watched pin.  dataready_wait takes the pulse, or times out; after       *)
(* DR_MISS_LIMIT timeouts in a row it reads the level of the configured    *)
(* pin and takes a high one, which may be stale, for a missed edge.        *)
(* Either way one exchange follows.  A reload may move the subscription to *)
(* another pin, step by step, and each step may fail.                      *)
(*                                                                         *)
(* The edge may be missed, its pulse may arrive after the wait has timed   *)
(* out, the line may be plugged into another pin at any time, and a pin    *)
(* that is neither wired nor pulled down floats.                           *)
(***************************************************************************)
EXTENDS Integers, GpioClient

CONSTANTS
  DR_MISS_LIMIT,   \* timeouts in a row before the level is read (2)
  IntMax,          \* largest int (2^31 - 1); misses wraps around past it
  MaxFrames,       \* bound: frames armed
  MaxStarts,       \* bound: starts of the controller
  MaxReloads,      \* bound: reloads that move the pin
  MaxPlugs,        \* bound: times the line is plugged into another pin
  MaxNoise         \* bound: edges and high levels of a floating pin

ASSUME DataReadyAssumption ==
  /\ DR_MISS_LIMIT \in Nat \ {0}
  /\ IntMax \in Nat /\ IntMax >= DR_MISS_LIMIT
  /\ {MaxFrames, MaxStarts, MaxReloads, MaxPlugs, MaxNoise} \subseteq Nat

VARIABLES
  \* ---- the controller
  pc,              \* the call it is about to make
  pin,             \* d->pin; cfg.pi.dataready_pin is the same
  chid, coid,      \* the channel and the connection to it exist
  reloading,       \* the pin is being armed for a reload, not for a start
  misses,          \* static of dataready_wait
  by,              \* what the exchange under way answers: "pulse" or "level"
  \* ---- the line
  wire,            \* the pin the line is plugged into
  armed,           \* the STM32 has armed a frame that was not read yet
  high,            \* level of the line
  pending,         \* pulses sent for edges and not received yet
  \* ---- history
  frames, starts, reloads, plugs, noise,
  credit           \* events that explain a pulse without a frame, less the
                   \* exchanges that answered such a pulse; see PulsesExplained

ctrlVars == <<pc, pin, chid, coid, reloading, misses, by>>
lineVars == <<wire, armed, high, pending>>
boundVars == <<frames, starts, reloads, plugs, noise>>
vars == <<gpioVars, ctrlVars, lineVars, boundVars, credit>>

IntMin == -IntMax - 1

Init ==
  /\ GpioInit
  /\ pc = "off" /\ pin \in Pins
  /\ chid = FALSE /\ coid = FALSE /\ reloading = FALSE
  /\ misses = 0 /\ by = "pulse"
  /\ wire \in Pins /\ armed = FALSE /\ high = FALSE /\ pending = 0
  /\ frames = 0 /\ starts = 0 /\ reloads = 0 /\ plugs = 0 /\ noise = 0
  /\ credit = 0

-----------------------------------------------------------------------------
(* START, RELOAD AND END                                                   *)

Goto(label) == pc' = label

\* A new process comes to dataready_setup with the pin of its file.
Start(p) ==
  /\ pc = "off" /\ starts < MaxStarts
  /\ Goto("channel")
  /\ GpioFresh
  /\ pin' = p /\ misses' = 0 /\ reloading' = FALSE
  /\ starts' = starts + 1
  /\ UNCHANGED <<chid, coid, by, lineVars, frames, reloads, plugs, noise, credit>>

CreateChannel ==
  /\ pc = "channel"
  /\ \/ chid' = TRUE /\ Goto("attach")
     \/ chid' = chid /\ Goto("teardown")
  /\ UNCHANGED <<gpioVars, pin, coid, reloading, misses, by, lineVars,
                 boundVars, credit>>

AttachChannel ==
  /\ pc = "attach"
  /\ \/ coid' = TRUE /\ Goto("setup")
     \/ coid' = coid /\ Goto("teardown")
  /\ UNCHANGED <<gpioVars, pin, chid, reloading, misses, by, lineVars,
                 boundVars, credit>>

\* A failed step of dataready_arm_pin ends a start; a running loop goes on.
ArmFailed == Goto(IF reloading THEN "wait" ELSE "teardown")

\* dataready_arm_pin, call by call.  A pull-down that fails is only warned about.
Arm ==
  /\ \/ /\ pc = "setup"
        /\ \/ GpioSetup /\ Goto("pull")
           \/ GpioFails /\ ArmFailed
     \/ /\ pc = "pull"
        /\ GpioSetupPull(pin) \/ GpioFails
        /\ Goto("event")
     \/ /\ pc = "event"
        /\ \/ GpioAddEvent(pin) /\ Goto("wait")
           \/ GpioFails /\ ArmFailed
  /\ UNCHANGED <<pin, chid, coid, reloading, misses, by, lineVars,
                 boundVars, credit>>

\* Fault: the subscription is torn down and set up afresh.
RepointAfresh(p) ==
  /\ GpioCleanup
  /\ pin' = p /\ reloading' = TRUE
  /\ Goto("setup")

\* dataready_repoint: the pin is taken over before anything is armed, the
\* channel and the connection stay, and so does the registration of the old pin.
Repoint(p) ==
  /\ UNCHANGED gpioVars
  /\ pin' = p /\ reloading' = TRUE
  /\ Goto("setup")

\* handle_reload at the top of the loop, with a file that names another pin.
Reload(p) ==
  /\ pc = "wait" /\ p # pin /\ reloads < MaxReloads
  /\ Repoint(p)
  /\ reloads' = reloads + 1
  /\ UNCHANGED <<chid, coid, misses, by, lineVars, frames, starts, plugs, noise,
                 credit>>

\* The loop is told to stop.
Stop ==
  /\ pc = "wait"
  /\ Goto("teardown")
  /\ UNCHANGED <<gpioVars, pin, chid, coid, reloading, misses, by, lineVars,
                 boundVars, credit>>

\* dataready_teardown, after which the process exits.
Teardown ==
  /\ pc = "teardown"
  /\ GpioCleanup
  /\ chid' = FALSE /\ coid' = FALSE
  /\ pending' = 0
  /\ Goto("off")
  /\ UNCHANGED <<pin, reloading, misses, by, wire, armed, high, boundVars, credit>>

-----------------------------------------------------------------------------
(* THE WAIT                                                                *)

\* Fault: an int without an end.
MissedUnbounded == misses + 1

\* ++misses, which nothing resets while the line stays low.
Missed == IF misses = IntMax THEN IntMin ELSE misses + 1

LevelDue == Missed >= DR_MISS_LIMIT

\* The level of the configured pin is the line's, if the line is there.
LineHigh == pin = wire /\ high

Floats(p) == p # wire /\ p \notin pulled

\* MsgReceivePulse returns a pulse.
WaitPulse ==
  /\ pc = "wait" /\ chid
  /\ pending > 0 /\ pending' = pending - 1
  /\ misses' = 0 /\ by' = "pulse"
  /\ Goto("exchange")
  /\ UNCHANGED <<gpioVars, pin, chid, coid, reloading, wire, armed, high, boundVars,
                 credit>>

\* The timer wins, though a pulse may be on its way, and the level is high: of a
\* frame that is there, or still of the last one.
WaitLevel ==
  /\ pc = "wait" /\ LevelDue
  /\ GpioInput /\ LineHigh
  /\ misses' = 0 /\ by' = "level"
  /\ Goto("exchange")
  /\ UNCHANGED <<pin, chid, coid, reloading, lineVars, boundVars, credit>>

\* The same on a pin that floats.
WaitFloating ==
  /\ pc = "wait" /\ LevelDue /\ noise < MaxNoise
  /\ GpioInput /\ Floats(pin)
  /\ misses' = 0 /\ by' = "level"
  /\ Goto("exchange")
  /\ noise' = noise + 1
  /\ UNCHANGED <<pin, chid, coid, reloading, lineVars, frames, starts, reloads,
                 plugs, credit>>

\* The timer wins and the level is not due, low, or cannot be read.
WaitTimeout ==
  /\ pc = "wait"
  /\ misses' = Missed
  /\ \/ ~LevelDue /\ UNCHANGED gpioVars
     \/ LevelDue /\ ~LineHigh /\ GpioInput
     \/ LevelDue /\ GpioFails
  /\ UNCHANGED <<pc, pin, chid, coid, reloading, by, lineVars, boundVars, credit>>

\* The exchange takes the armed frame (shifted, if it was armed only meanwhile),
\* or finds none.  The line stays as it is.
Exchange ==
  /\ pc = "exchange" /\ Goto("wait")
  /\ armed' = FALSE
  /\ credit' = CASE armed /\ by = "level"  -> credit + 1
               [] ~armed /\ by = "pulse" -> credit - 1
               [] OTHER                  -> credit
  /\ UNCHANGED <<gpioVars, pin, chid, coid, reloading, misses, by, wire, high,
                 pending, boundVars>>

\* The transfer fails before the STM32 has sent its frame.
ExchangeFails ==
  /\ pc = "exchange" /\ Goto("wait")
  /\ UNCHANGED <<gpioVars, pin, chid, coid, reloading, misses, by, lineVars,
                 boundVars, credit>>

-----------------------------------------------------------------------------
(* THE LINE                                                                *)

\* A rising edge on pin p; the driver may miss it.
Edge(p) ==
  \/ p \in watched /\ pending' = pending + 1
  \/ pending' = pending

\* Fault: the subscription is for both edges.
FallSeen(p) ==
  \/ p \in watched /\ pending' = pending + 1
  \/ pending' = pending

\* A falling edge on pin p, which nothing is subscribed to.
Fall(p) == pending' = pending

\* Some time after the transfer the line goes low.
StmLowers ==
  /\ high /\ ~armed
  /\ high' = FALSE /\ Fall(wire)
  /\ UNCHANGED <<gpioVars, ctrlVars, wire, armed, boundVars, credit>>

\* The STM32 arms a frame: the line rises, after a dip if it is still high.
StmArms ==
  /\ frames < MaxFrames /\ frames' = frames + 1
  /\ armed' = TRUE /\ high' = TRUE /\ Edge(wire)
  /\ credit' = IF armed THEN credit + 1 ELSE credit
  /\ UNCHANGED <<gpioVars, ctrlVars, wire, starts, reloads, plugs, noise>>

\* The line is plugged into another pin, which rises if the line is high.
Plug(p) ==
  /\ p # wire /\ plugs < MaxPlugs
  /\ wire' = p
  /\ IF high THEN Edge(p) ELSE pending' = pending
  /\ plugs' = plugs + 1 /\ credit' = credit + 1
  /\ UNCHANGED <<gpioVars, ctrlVars, armed, high, frames, starts, reloads, noise>>

\* A floating pin picks up an edge.
Noise(p) ==
  /\ Floats(p) /\ p \in watched /\ noise < MaxNoise
  /\ pending' = pending + 1
  /\ noise' = noise + 1 /\ credit' = credit + 1
  /\ UNCHANGED <<gpioVars, ctrlVars, wire, armed, high, frames, starts, reloads, plugs>>

-----------------------------------------------------------------------------
Controller ==
  \/ CreateChannel \/ AttachChannel \/ Arm \/ Teardown
  \/ WaitPulse \/ WaitLevel \/ WaitFloating \/ WaitTimeout
  \/ Exchange \/ ExchangeFails

Next ==
  \/ Controller
  \/ Stop
  \/ \E p \in Pins : Start(p) \/ Reload(p) \/ Plug(p) \/ Noise(p)
  \/ StmArms \/ StmLowers

Spec == Init /\ [][Next]_vars

\* The controller keeps running its loop.  It is not unlucky for ever: a pulse
\* in its channel is received, the level is read, and a transfer goes through,
\* if each is tried again and again.
Fairness ==
  /\ WF_vars(Controller)
  /\ SF_vars(WaitPulse) /\ SF_vars(WaitLevel) /\ SF_vars(Exchange)

FairSpec == Spec /\ Fairness

-----------------------------------------------------------------------------
(* PROPERTIES                                                              *)

\* Every variable has its type; misses stays an int.
TypeOK ==
  /\ GpioTypeOK
  /\ pc \in {"off", "channel", "attach", "setup", "pull", "event", "wait",
             "exchange", "teardown"}
  /\ pin \in Pins /\ wire \in Pins
  /\ {chid, coid, reloading, armed, high} \subseteq BOOLEAN
  /\ misses \in IntMin .. IntMax
  /\ by \in {"pulse", "level"}
  /\ pending \in 0 .. (MaxFrames + MaxPlugs + MaxNoise)
  /\ {frames, starts, reloads, plugs, noise} \subseteq Nat
  /\ credit \in Int

\* "The edge is unambiguous: one pulse per armed frame" (motor_controller.c:341),
\* while the level may be that of a frame already read.  The level fallback makes
\* pulses ambiguous too: that of a frame read by its level is still to come.  No
\* more goes wrong than that: a pulse whose exchange finds no frame is paid for by
\* a frame read by its level, one replaced before it was read, the line being
\* moved, or a floating pin; only the pulse of the armed frame needs nothing.
PulsesExplained == pending <= credit + (IF armed THEN 1 ELSE 0)

\* A frame does not wait for ever while the controller runs if the line is on
\* the configured pin, even if its edge was missed, or if its pulse is in the
\* channel, even if the line is still on the old pin of a failed re-point.
FrameIsRead ==
  ~<>[](armed /\ pc # "off" /\ (pin = wire \/ pending > 0))
=============================================================================
