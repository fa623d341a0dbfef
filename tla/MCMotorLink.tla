---------------------------- MODULE MCMotorLink ----------------------------
(* Payloads for the runs of MotorLink.                                     *)
EXTENDS MotorLink, TLC

P(rows, rate) == [block_rows |-> rows, sample_rate_hz |-> rate]

Boot == P(1, 1)

\* The block size changes with the configuration.
TwoSizes == {P(1, 1), P(2, 1)}

\* Only the rate changes.
OneSize == {P(1, 1), P(1, 2)}

=============================================================================
