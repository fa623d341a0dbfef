---------------------------- MODULE MCBlockRing ----------------------------
(* Model values for the runs of BlockRing.                                 *)
EXTENDS BlockRing, TLC

CONSTANTS w1, w2

TwoWords == {w1, w2}

=============================================================================
