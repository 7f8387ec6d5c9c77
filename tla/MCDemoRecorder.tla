---------------------------- MODULE MCDemoRecorder ---------------------------
(* One arm, one camera, and samples with at most one button or B and X.      *)
EXTENDS DemoRecorder

MCSamples ==
  [buttons : {{}, {"A"}, {"B"}, {"X"}, {"Y"}, {"B", "X"}},
   trigger : {t \in [Hands -> Levels] : t.left # "half"}]
=============================================================================
