--------------------------- MODULE MCScalePipeline ---------------------------
(* Two tasks; the list names one twice, as a CSV may.                        *)
EXTENDS ScalePipeline

CONSTANTS t1, t2

(* Of the task that is named twice Scale has anything or nothing, and the    *)
(* other is good.                                                            *)
OtherGood == {[t \in {t1, t2} |-> IF t = t1 THEN kind ELSE "good"] : kind \in Source}
OneTwice == {<<t1, t2, t1>>}
=============================================================================
