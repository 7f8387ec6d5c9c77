-------------------------- MODULE MCScaleConversion --------------------------
(* Instances of ScaleConversion for TLC.                                     *)
EXTENDS ScaleConversion

CONSTANTS grasp, place, none

MCFrame(left, error, idle, goal) ==
  [left |-> left, right |-> "seen", error |-> error, idle |-> idle, goal |-> goal]

(* A good frame of each goal, a left hand that is only missing, both hands   *)
(* marked wrong, and an idle frame.                                          *)
MCFrames ==
  {MCFrame("seen", {}, FALSE, grasp), MCFrame("seen", {}, FALSE, place),
   MCFrame("missing", {}, FALSE, none), MCFrame("missing", {"left", "right"}, FALSE, grasp),
   MCFrame("seen", {}, TRUE, place)}

MCActive == {{"left"}, {"left", "right"}}
=============================================================================
