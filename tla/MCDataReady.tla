---------------------------- MODULE MCDataReady ----------------------------
(* Two pins for the run of DataReady.                                      *)
EXTENDS DataReady
=============================================================================
