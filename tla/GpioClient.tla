----------------------------- MODULE GpioClient -----------------------------
(***************************************************************************)
(* The client of the GPIO resource manager (rpi_gpio.c) as far as the      *)
(* controller uses it: one connection, opened on first use, and the state  *)
(* its messages leave in the driver.                                       *)
(*                                                                         *)
(* rpi_gpio_cleanup closes the descriptor without forgetting it.  Every    *)
(* later call takes the closed descriptor for a connection, sends on it    *)
(* and fails: the client never connects again.                             *)
(***************************************************************************)
CONSTANT Pins     \* GPIO lines a config file can name as the data-ready pin

VARIABLES
  gpio_fd,        \* "none" (-1), "open", or "closed": closed, but not -1
  pulled,         \* driver: lines with the pull-down enabled
  watched         \* driver: lines whose rising edge sends a pulse

gpioVars == <<gpio_fd, pulled, watched>>

GpioTypeOK ==
  /\ gpio_fd \in {"none", "open", "closed"}
  /\ pulled \subseteq Pins
  /\ watched \subseteq Pins

\* The descriptor of a process that has made no call.  The pulls stay as an
\* earlier process left them; its events ended with its connection.
GpioFresh == gpio_fd' = "none" /\ watched' = {} /\ UNCHANGED pulled

GpioInit == gpio_fd = "none" /\ pulled = {} /\ watched = {}

\* gpio_msg_connect opens the connection or finds one; a message goes through
\* only on a descriptor that is not closed.
Connects == gpio_fd # "closed" /\ gpio_fd' = "open"

\* rpi_gpio_setup: the line becomes an input, as it is after a reset.
GpioSetup == Connects /\ UNCHANGED <<pulled, watched>>

\* rpi_gpio_setup_pull: sets the line up once more, then enables the pull-down.
GpioSetupPull(p) ==
  Connects /\ pulled' = pulled \cup {p} /\ UNCHANGED watched

\* rpi_gpio_add_event_detect: registers the pulse, then asks for it.
GpioAddEvent(p) ==
  Connects /\ watched' = watched \cup {p} /\ UNCHANGED pulled

\* rpi_gpio_input: any outcome but an error needs the connection.
GpioInput == Connects /\ UNCHANGED <<pulled, watched>>

\* Any call of these that fails: it could not connect, or it connected and a
\* message failed.
GpioFails ==
  /\ \/ gpio_fd' = gpio_fd
     \/ gpio_fd = "none" /\ gpio_fd' = "open"
  /\ UNCHANGED <<pulled, watched>>

\* rpi_gpio_cleanup; the driver drops the events of a connection that closes.
GpioCleanup ==
  /\ gpio_fd' = IF gpio_fd = "none" THEN "none" ELSE "closed"
  /\ watched' = {}
  /\ UNCHANGED pulled
=============================================================================
