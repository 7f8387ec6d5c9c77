---------------------------- MODULE MCEpisodeSync ----------------------------
(* Instances of EpisodeSync for TLC.                                         *)
EXTENDS EpisodeSync, TLC

CONSTANTS p1, p2

(* random.Random(42) and a ratio of 0.2: the first of one name, the second   *)
(* of two, the second of three.                                              *)
Seed42 == <<{1}, {2}, {2}>>

(* The processes are alike.                                                  *)
Alike == Permutations(Process)

TwoEpisodes == 1..2
=============================================================================
