---------------------------- MODULE MCMpsBatches ----------------------------
(* Instances of MpsBatches for TLC.                                          *)
EXTENDS MpsBatches, TLC

CONSTANTS r1, r2, r3, hand, slam

Sorted2 == <<r1, r2>>
Sorted3 == <<r1, r2, r3>>
Unit == [r \in Recording |-> 1]
Growing == (r1 :> 1) @@ (r2 :> 1) @@ (r3 :> 2)

(* run_mps.sh; run_mps_retry.sh; by hand, with the report's filter on.       *)
Nightly == [features |-> Feature, retry_failed |-> TRUE,
            include_failed |-> TRUE, clean |-> TRUE]
Retry == [Nightly EXCEPT !.clean = FALSE]
ByHand == [Retry EXCEPT !.include_failed = FALSE, !.retry_failed = FALSE]
NightlyOnly == {Nightly}
WithoutClean == {Retry, ByHand} \cup {[ByHand EXCEPT !.features = {f}] : f \in Feature}
=============================================================================
