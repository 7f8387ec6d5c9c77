---------------------------- MODULE MCConversion ----------------------------
(* Instances of Conversion for TLC.                                          *)
EXTENDS Conversion, TLC

CONSTANTS aria, eva, e1, e2

(* Each driver lists bundles of its own ...                                  *)
TwoDrivers == (aria :> {e1}) @@ (eva :> {e2})
(* ... or one driver lists them all.                                         *)
OneDriver == [d \in Driver |-> Episode]

CronModes == {[skip_if_done |-> TRUE, dry |-> FALSE]}
AllModes == Mode
=============================================================================
