----------------------------- MODULE SetConfig -----------------------------
(***************************************************************************)
(* What the command protocol between the controller and the STM32          *)
(* promises, without frames, retries or sequence numbers.  Requests are    *)
(* numbered in the order they are made.  The STM32 carries out each of     *)
(* them at most once and never an older one after a newer one.  The        *)
(* controller takes a configuration for the running one only when it is    *)
(* that of its latest request and the STM32 has carried that request out.  *)
(***************************************************************************)
EXTENDS Naturals, Sequences

CONSTANTS Configs,   \* what can be requested
          Boot,      \* what the STM32 starts with
          Unknown    \* what the controller believes before the first answer

VARIABLES asked,     \* the requests, in order
          open,      \* the latest request has not been concluded
          done,      \* number of the latest request carried out; 0 = none
          running,   \* configuration the STM32 runs
          believed   \* configuration the controller takes for the running one

svars == <<asked, open, done, running, believed>>

SInit ==
  /\ asked = <<>>
  /\ open = FALSE
  /\ done = 0
  /\ running = Boot
  /\ believed = Unknown

\* The controller asks for a configuration, and forgets an earlier request.
Request(c) ==
  /\ asked' = Append(asked, c)
  /\ open' = TRUE
  /\ UNCHANGED <<done, running, believed>>

\* The STM32 carries out a request that is newer than the last one it did.
CarryOut(k) ==
  /\ k > done
  /\ done' = k
  /\ running' = asked[k]
  /\ UNCHANGED <<asked, open, believed>>

\* The controller learns that its latest request has been carried out.
Conclude ==
  /\ open
  /\ done = Len(asked)
  /\ open' = FALSE
  /\ believed' = asked[Len(asked)]
  /\ UNCHANGED <<asked, done, running>>

\* The controller stops asking; it learns nothing.
Abandon ==
  /\ open
  /\ open' = FALSE
  /\ UNCHANGED <<asked, done, running, believed>>

SNext ==
  \/ \E c \in Configs : Request(c)
  \/ \E k \in 1 .. Len(asked) : CarryOut(k)
  \/ Conclude
  \/ Abandon

SSpec == SInit /\ [][SNext]_svars

=============================================================================
