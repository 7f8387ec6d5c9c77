---------------------------- MODULE MCRingBuffer -----------------------------
(* Instances of RingBuffer for TLC.                                          *)
EXTENDS RingBuffer

CONSTANTS motion, button, r1
=============================================================================
