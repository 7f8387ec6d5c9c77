----------------------------- MODULE EpisodeLog ------------------------------
(***************************************************************************)
(* What an episode store promises to those who read it: the frames that    *)
(* the writer was given, in order and all of them, or nothing.  A frame    *)
(* may leave keys out; about those nothing is promised.                    *)
(***************************************************************************)
EXTENDS Naturals, Sequences

CONSTANTS
  Key,     \* the keys of an episode: actions, camera images, ...
  Value    \* the values a key can have

VARIABLES
  log,      \* the frames given so far
  episode   \* the frames a reader finds, <<>> while there is no episode

Blank == 0
Frame == [Key -> Value \cup {Blank}]
Given(f) == {k \in Key : f[k] # Blank}

Init == log = <<>> /\ episode = <<>>

(* A new episode replaces what was there; its frames may come all at once.   *)
Begin == log' \in Seq(Frame) /\ episode' = <<>>

Extend ==
  /\ log' \in Seq(Frame) /\ Len(log) <= Len(log')
  /\ \A i \in 1..Len(log) : log'[i] = log[i]
  /\ episode = <<>> /\ UNCHANGED episode

Agrees(e, l) ==
  /\ DOMAIN e = 1..Len(l)
  /\ \A i \in 1..Len(l) : \A k \in Given(l[i]) : e[i][k] = l[i][k]

Publish ==
  /\ log # <<>> /\ episode = <<>>
  /\ Agrees(episode', log)
  /\ UNCHANGED log

Next == Begin \/ Extend \/ Publish

Spec == Init /\ [][Next]_<<log, episode>>
=============================================================================
