--------------------------- MODULE MCEpisodeStore ----------------------------
(* Instances of EpisodeStore for TLC.                                        *)
EXTENDS EpisodeStore

CONSTANTS actions, camera

(* Frames with both keys, with actions alone and with none.                  *)
F(a, c) == [k \in Key |-> IF k = actions THEN a ELSE c]
SomeFrames == {F(1, 1), F(2, 2), F(2, 0), F(0, 0)}

(* Two spans that overlap, and one without a frame.                          *)
SomeSpans == <<<<1, 3>>, <<2, 4>>, <<2, 2>>>>

Horizons == {1, 3}
=============================================================================
