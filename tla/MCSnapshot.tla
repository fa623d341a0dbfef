----------------------------- MODULE MCSnapshot -----------------------------
(* Model values for the runs of Snapshot.                                  *)
EXTENDS Snapshot, TLC

CONSTANTS w1, w2, r1

\* Readers only read: one of them meets everything the producer can do.
OneReader == {r1}

TwoWords == {w1, w2}

=============================================================================
