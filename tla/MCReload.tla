------------------------------ MODULE MCReload ------------------------------
(* Configurations for the runs of Reload.                                  *)
EXTENDS Reload, TLC

CONSTANTS d1, d2, slow, fast, p1, p2

TwoDevices == {d1, d2}
TwoSettings == {slow, fast}

Cfg(d, t, c, p) == [device |-> d, told |-> t, conf |-> c, pin |-> p]

Defaults == Cfg(d1, slow, slow, p1)

\* Another spi.conf for the same device, and another device with another mode
\* and another pin.
TwoConfigs == {Cfg(d1, slow, fast, p1), Cfg(d2, fast, slow, p2)}

=============================================================================
