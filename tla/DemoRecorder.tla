----------------------------- MODULE DemoRecorder ----------------------------
(***************************************************************************)
(* collect_demo.py: a loop that reads the controllers, moves the arms      *)
(* whose trigger is engaged, and records a demonstration between two       *)
(* presses of B, while the threads of the cameras replace their images.    *)
(* An image is what has_stuck_frames compares, its checksum; of a command  *)
(* we keep the recording that it was computed in.  A sample that cannot be *)
(* read changes nothing and has no action.                                 *)
(***************************************************************************)
EXTENDS Integers, Sequences, FiniteSets

CONSTANTS
  Arms,      \* arms_list
  Cameras,   \* camera_res
  Images,    \* the checksums of images
  Nothing,   \* None: no image yet, or no option
  Samples,   \* what read_vr_controller may return
  AutoStart, \* values of --auto-episode-start
  Lengths,   \* values of --episode-length
  Threshold, \* of has_stuck_frames
  MaxRows,   \* bound: rows of a recording
  MaxTakes   \* bound: recordings started

Hands == {"left", "right"}
Buttons == {"A", "B", "X", "Y"}
Levels == {"released", "half", "pressed"}  \* up to 0.2, between, from 0.8

Sample == [buttons : SUBSET Buttons, trigger : [Hands -> Levels]]

ASSUME RecorderAssumption ==
  /\ Arms \subseteq Hands /\ Samples \subseteq Sample
  /\ Nothing \notin Images \cup Nat
  /\ AutoStart \subseteq Nat \cup {Nothing}
  /\ Lengths \subseteq (Nat \ {0}) \cup {Nothing}
  /\ Threshold \in Nat \ {0} /\ MaxRows \in Nat /\ MaxTakes \in Nat

VARIABLES
  pc,         \* waiting for "images" or an "id", in the "loop", or "ended"
  latest,     \* latest[c]: the image that camera c's thread holds
  auto,       \* auto_episode_id
  length,     \* episode_length
  episode,    \* episode_id
  collecting, \* collecting_data
  rows,       \* demo_data
  steps,      \* steps_in_episode
  bar,        \* pbar is not None
  up,         \* the buttons that prev_vr_data saw up; none if it is None
  engaged,    \* l_engaged, r_engaged
  frame,      \* the zero frames: "none", or captured before or after homing
  kept,       \* prev_cmd_joint, prev_cmd_eepose: the take they are of, or 0
  files,      \* the demonstrations on the disk: the take in each file, or 0
  take,       \* history: the number of recordings started
  lifted,     \* history: B was seen up since it last started or stopped one
  carried     \* history: the arms that were engaged when they went home

options == <<auto, length, episode>>
recording == <<collecting, rows, steps, bar, take>>
control == <<up, engaged, frame, kept, lifted, carried>>
vars == <<pc, latest, options, recording, control, files>>

(* The ids of the recordings: counted from the one given, or asked for.      *)
Ids ==
  (1..MaxTakes) \cup {a + n : a \in AutoStart \ {Nothing}, n \in 0..(MaxTakes - 1)}

Blank == 0          \* zeros, in an image or a command
State == 0 - 1      \* the state of the arm instead of a command

Init ==
  /\ pc = "images"
  /\ latest = [c \in Cameras |-> Nothing]
  /\ auto \in AutoStart /\ length \in Lengths /\ episode = 0
  /\ collecting = FALSE /\ rows = <<>> /\ steps = 0 /\ bar = FALSE
  /\ up = {}
  /\ engaged = [h \in Hands |-> FALSE]
  /\ frame = [a \in Arms |-> "none"]
  /\ kept = [a \in Arms |-> 0]
  /\ files = [id \in Ids |-> 0]
  /\ take = 0 /\ lifted = FALSE /\ carried = {}
-----------------------------------------------------------------------------
(* The thread of a camera: _latest_image is replaced, never removed.         *)
CaptureLoop(c) ==
  /\ pc # "ended"
  /\ \E i \in Images : latest' = [latest EXCEPT ![c] = i]
  /\ UNCHANGED <<pc, options, recording, control, files>>

(* Mutant: does not wait for the images.                                     *)
WaitForNothing ==
  /\ pc = "images"
  /\ pc' = "id"
  /\ UNCHANGED <<latest, options, recording, control, files>>

WaitForImages ==
  /\ pc = "images"
  /\ \A c \in Cameras : latest[c] # Nothing
  /\ pc' = "id"
  /\ UNCHANGED <<latest, options, recording, control, files>>

(* A round of the outer loop: the id, asked for or counted, and new data.    *)
NextEpisode ==
  /\ pc = "id"
  /\ episode' \in IF auto = Nothing THEN Ids ELSE {auto}
  /\ pc' = "loop"
  /\ collecting' = FALSE /\ rows' = <<>> /\ steps' = 0 /\ bar' = FALSE
  /\ UNCHANGED <<latest, auto, length, take, control, files>>
-----------------------------------------------------------------------------
(* As many repetitions as the threshold, one after the other; again[j] is    *)
(* consecutive after row j.                                                  *)
HasStuckFrames(data, c) ==
  LET again[j \in 0..Len(data)] ==
        IF j > 1 /\ data[j].image[c] # Nothing /\ data[j].image[c] = data[j - 1].image[c]
        THEN again[j - 1] + 1 ELSE 0
  IN  \E j \in DOMAIN data : again[j] >= Threshold

(* The array of images that save_demo writes: frames without an image do     *)
(* not take an index, and the end stays empty.                               *)
WrittenImages(data, c) ==
  LET At(i, n) == /\ data[i].image[c] # Nothing
                  /\ n = Cardinality({j \in 1..i : data[j].image[c] # Nothing})
  IN  [n \in DOMAIN data |->
         IF \E i \in DOMAIN data : At(i, n)
         THEN data[CHOOSE i \in DOMAIN data : At(i, n)].image[c] ELSE Blank]

SaveDemo(data) ==
  files' = IF \E c \in Cameras : HasStuckFrames(data, c)
           THEN files ELSE [files EXCEPT ![episode] = take']

(* auto_episode_id, counted if there is one.                                 *)
Counted(id) == IF id = Nothing THEN Nothing ELSE id + 1
-----------------------------------------------------------------------------
(* What a sample does, in the order of the loop's body.                      *)
Edge(s, b) == b \in s.buttons \cap up

Starts(s) == Edge(s, "B") /\ ~ collecting

Discards(s) == Edge(s, "X") \/ "Y" \in s.buttons

Homes(s) == Starts(s) \/ "Y" \in s.buttons

Collects(s) == (collecting \/ Starts(s)) /\ ~ Discards(s)

Data(s) == IF Starts(s) \/ Discards(s) THEN <<>> ELSE rows

Take(s) == IF Starts(s) THEN take + 1 ELSE take

Bar(s) == bar \/ (Starts(s) /\ length # Nothing)

Steps(s) ==
  IF (Starts(s) /\ length # Nothing) \/ (Discards(s) /\ Bar(s)) THEN 0 ELSE steps

(* Mutant: the commands of the last recording are not forgotten.             *)
KeptAcross(s) == kept

Kept(s) == IF Starts(s) THEN [a \in Arms |-> 0] ELSE kept

(* update_engagement: with hysteresis.                                       *)
Engages(s, h) ==
  s.trigger[h] = "pressed" \/ (engaged[h] /\ s.trigger[h] # "released")

Rises(s, h) == Engages(s, h) /\ ~ engaged[h]

Captured(s) ==
  [a \in Arms |-> IF Rises(s, a) THEN "current"
                  ELSE IF Homes(s) /\ frame[a] = "current" THEN "past"
                  ELSE frame[a]]

Records(s) == Collects(s) /\ \E h \in Hands : Engages(s, h)

(* The row of this step; solved: the arms whose inverse kinematics succeed.  *)
Row(s, solved) ==
  [image |-> latest,
   cmd |-> [a \in Arms |-> IF Engages(s, a)
                           THEN IF a \in solved THEN Take(s) ELSE Blank
                           ELSE IF Kept(s)[a] # 0 THEN Kept(s)[a] ELSE State]]

LengthReached(s) ==
  /\ Records(s) /\ length # Nothing /\ Bar(s)
  /\ Steps(s) + 1 >= length

Bounded(s) ==
  /\ Starts(s) => take < MaxTakes
  /\ Records(s) => Len(Data(s)) < MaxRows
-----------------------------------------------------------------------------
(* Mutant: the previous sample is not forgotten.                             *)
EndEpisodeOnly ==
  /\ SaveDemo(rows')
  /\ auto' = Counted(auto)
  /\ pc' = "id" /\ collecting' = FALSE /\ bar' = FALSE
  /\ up' = up

(* The end of a recording, saved or not: no sample is the previous one.      *)
EndEpisode ==
  /\ SaveDemo(rows')
  /\ auto' = Counted(auto)
  /\ pc' = "id" /\ collecting' = FALSE /\ bar' = FALSE
  /\ up' = {}

(* A data set of no rows cannot have the chunks of one row that save_demo    *)
(* asks for, one data set for each camera.                                   *)
Unsavable == rows = <<>> /\ Cameras # {}

(* Mutant: the triggers are read before the buttons, the frames after.       *)
SaveByButtonEngaging(s) ==
  /\ pc = "loop" /\ Edge(s, "B") /\ collecting /\ ~ Unsavable
  /\ engaged' = [h \in Hands |-> Engages(s, h)]
  /\ lifted' = FALSE
  /\ UNCHANGED <<latest, length, episode, rows, steps, take, frame, kept, carried>>
  /\ EndEpisode

(* B is pressed while recording.                                             *)
SaveByButton(s) ==
  /\ pc = "loop" /\ Edge(s, "B") /\ collecting /\ ~ Unsavable
  /\ lifted' = FALSE
  /\ UNCHANGED <<latest, length, episode, rows, steps, take, engaged, frame, kept, carried>>
  /\ EndEpisode

(* B is pressed before the first row: save_demo opens the file, which        *)
(* empties it, and raises, and nothing catches that.                         *)
SaveNothing(s) ==
  /\ pc = "loop" /\ Edge(s, "B") /\ collecting /\ Unsavable
  /\ files' = [files EXCEPT ![episode] = 0]
  /\ pc' = "ended" /\ collecting' = FALSE /\ bar' = FALSE
  /\ UNCHANGED <<latest, options, rows, steps, take, control>>

(* A ends the process, whatever B, X or Y did in the same sample.            *)
Return(s) ==
  /\ pc = "loop" /\ "A" \in s.buttons
  /\ ~ (Edge(s, "B") /\ collecting)
  /\ pc' = "ended"
  /\ UNCHANGED <<latest, options, recording, control, files>>

(* The rest of the loop's body, which moves the arms and records a row.      *)
Move(s, solved) ==
  /\ pc = "loop" /\ "A" \notin s.buttons
  /\ ~ (Edge(s, "B") /\ collecting)
  /\ Bounded(s)
  /\ take' = Take(s)
  /\ rows' = IF Records(s) THEN Append(Data(s), Row(s, solved)) ELSE Data(s)
  /\ steps' = IF Records(s) /\ length # Nothing /\ Bar(s) THEN Steps(s) + 1 ELSE Steps(s)
  /\ engaged' = [h \in Hands |-> Engages(s, h)]
  /\ frame' = Captured(s)
  /\ kept' = [a \in Arms |-> IF Engages(s, a) /\ a \in solved /\ Collects(s)
                             THEN Take(s) ELSE Kept(s)[a]]
  /\ carried' = {a \in Arms : /\ Engages(s, a) /\ ~ Rises(s, a)
                              /\ a \in carried \/ Homes(s)}
  /\ lifted' = ("B" \notin s.buttons \/ (lifted /\ ~ Starts(s)))
  /\ UNCHANGED <<latest, length, episode>>

GoOn(s, solved) ==
  /\ Move(s, solved)
  /\ ~ LengthReached(s)
  /\ collecting' = Collects(s) /\ bar' = Bar(s)
  /\ up' = Buttons \ s.buttons
  /\ UNCHANGED <<pc, auto, files>>

StopAtLength(s, solved) ==
  /\ Move(s, solved)
  /\ LengthReached(s)
  /\ EndEpisode

Next ==
  \/ \E c \in Cameras : CaptureLoop(c)
  \/ WaitForImages
  \/ NextEpisode
  \/ \E s \in Samples :
       \/ SaveByButton(s) \/ SaveNothing(s)
       \/ Return(s)
       \/ \E solved \in SUBSET Arms : GoOn(s, solved) \/ StopAtLength(s, solved)

Spec == Init /\ [][Next]_vars
-----------------------------------------------------------------------------
(* A recording holds the commands of this recording only, and an arm that    *)
(* was moved in it is never described by its state again: a trigger that is  *)
(* let go repeats the last command (prev_cmd_joint, prev_cmd_eepose).        *)
CommandsOfThisTake ==
  collecting =>
    \A a \in Arms : \A j \in DOMAIN rows :
      /\ rows[j].cmd[a] \in {take, Blank, State}
      /\ rows[j].cmd[a] = State => \A i \in 1..j : rows[i].cmd[a] # take

(* An engaged arm moves relative to frames that were captured when it was    *)
(* engaged, and since the robot last went home, unless its trigger was held  *)
(* while the robot went home (vr_frame_zero_se3, set_home).                  *)
FramesExplained ==
  \A a \in Arms : engaged[a] => frame[a] = "current" \/ (frame[a] = "past" /\ a \in carried)

(* A camera is stuck if more than Threshold images in a row are the same     *)
(* (the docstring of has_stuck_frames, collect_demo.py:476).                 *)
Stuck(data) ==
  \E c \in Cameras : \E i \in 1..(Len(data) - Threshold) :
    \A j \in i..(i + Threshold) : data[j].image[c] = data[i].image[c]

(* What a file says of step i is what happened at step i.  A recording that  *)
(* ends is saved whole, with its images at the indices of their rows,        *)
(* although images and actions are written by different rules (save_demo),   *)
(* no longer than the length asked for, and, if ids are counted, to a file   *)
(* that no other was saved to; but if a camera was stuck, nothing is.  No    *)
(* other step touches a file, except that a recording which is stopped       *)
(* before its first row empties the one it would have gone to, and ends the  *)
(* process.                                                                  *)
SavedAsRecorded ==
  [][IF pc = "loop" /\ pc' = "id"
     THEN /\ length # Nothing => Len(rows') \in 0..length
          /\ Cameras # {} => rows' # <<>>
          /\ IF Stuck(rows') THEN files' = files
             ELSE /\ files' = [files EXCEPT ![episode] = take']
                  /\ auto # Nothing => files[episode] = 0
                  /\ \A c \in Cameras : \A i \in DOMAIN rows' :
                       WrittenImages(rows', c)[i] = rows'[i].image[c]
     ELSE files' = files \/ (/\ collecting /\ rows = <<>> /\ pc' = "ended"
                             /\ files' = [files EXCEPT ![episode] = 0])]_vars

(* One press of B does one thing: between any two starts and stops by it, it *)
(* was seen up, whatever branches forget or keep the previous sample.        *)
OnePressOneThing ==
  [][take' # take \/ (collecting /\ ~ collecting' /\ pc' # pc /\ rows' = rows) => lifted]_vars
=============================================================================
