-------------------------- MODULE DemoRecorderProofs --------------------------
(***************************************************************************)
(* Theorems about DemoRecorder, for every set of arms, cameras, images and *)
(* samples, every episode length, threshold and first id: what a recording *)
(* holds is of this recording, arms move relative to frames that are       *)
(* explained, a press of B does one thing, and what is saved is what was   *)
(* recorded.                                                               *)
(***************************************************************************)
EXTENDS DemoRecorder, FiniteSetTheorems, WellFoundedInduction, NaturalsInduction, TLAPS

RowType == [image : [Cameras -> Images], cmd : [Arms -> Nat \cup {State}]]
Frame == {"none", "current", "past"}

TypeOK ==
  /\ pc \in {"images", "id", "loop", "ended"}
  /\ latest \in [Cameras -> Images \cup {Nothing}]
  /\ auto \in Nat \cup {Nothing} /\ length \in (Nat \ {0}) \cup {Nothing} /\ episode \in Nat
  /\ collecting \in BOOLEAN /\ rows \in Seq(RowType) /\ steps \in Nat /\ bar \in BOOLEAN
  /\ up \subseteq Buttons /\ engaged \in [Hands -> BOOLEAN] /\ frame \in [Arms -> Frame]
  /\ kept \in [Arms -> Nat] /\ files \in [Ids -> Nat]
  /\ take \in 0..MaxTakes /\ lifted \in BOOLEAN /\ carried \subseteq Arms

(* The loop has an image of every camera.                                    *)
Seen == pc # "images" => latest \in [Cameras -> Images]

(* A recording that is going on was started, and its bar counts its rows.    *)
Going ==
  collecting =>
    /\ take # 0 /\ pc \in {"loop", "ended"}
    /\ length # Nothing => bar /\ steps = Len(rows) /\ steps < length

(* An arm without a command to repeat has not been moved in this recording.  *)
Remembered ==
  collecting => \A a \in Arms :
    /\ kept[a] \in {0, take}
    /\ kept[a] = 0 => \A j \in DOMAIN rows : rows[j].cmd[a] # take

(* Ids are counted with the recordings, and the next ones are unused.        *)
Counting ==
  auto # Nothing =>
    /\ pc = "loop" => episode = auto
    /\ \A id \in Ids : id >= auto => files[id] = 0
    /\ \E a \in AutoStart \ {Nothing} :
         a <= auto /\ auto <= a + take /\ (collecting => auto < a + take)

(* B counts as up only if it was seen up since it last did something.        *)
Lifted == "B" \in up => lifted

RecInv ==
  /\ TypeOK /\ Seen /\ Going /\ Remembered /\ CommandsOfThisTake
  /\ Counting /\ Lifted /\ FramesExplained

(* A file is free for the recording going on.                                *)
NextIsFree == collecting /\ pc = "loop" /\ auto # Nothing => episode \in Ids /\ files[episode] = 0
-----------------------------------------------------------------------------
LEMMA Constants ==
  /\ Arms \subseteq Hands /\ Threshold \in Nat \ {0} /\ MaxTakes \in Nat
  /\ Nothing \notin Nat /\ Nothing \notin Images /\ State \notin Nat /\ Blank = 0
  /\ \A a \in AutoStart \ {Nothing} : a \in Nat
  /\ \A s \in Samples : s.buttons \subseteq Buttons
BY RecorderAssumption DEF RecorderAssumption, Sample, State, Blank

(* The ids that counting reaches.                                            *)
LEMMA IdsCounted ==
  ASSUME NEW a \in AutoStart \ {Nothing}, NEW id \in Nat, a <= id, id < a + MaxTakes
  PROVE  id \in Ids
<1>1. a \in Nat BY Constants
<1>2. id - a \in 0..(MaxTakes - 1) /\ id = a + (id - a) BY <1>1, Constants
<1> QED BY <1>2 DEF Ids

LEMMA IdsTypes == Ids \subseteq Nat
<1>1. ASSUME NEW a \in AutoStart \ {Nothing}, NEW n \in 0..(MaxTakes - 1) PROVE a + n \in Nat
  BY Constants
<1> QED BY <1>1, Constants DEF Ids

LEMMA InitHolds == Init => RecInv
<1> SUFFICES ASSUME Init PROVE RecInv OBVIOUS
<1>1. TypeOK
  <2>1. auto \in Nat \cup {Nothing} /\ length \in (Nat \ {0}) \cup {Nothing}
    BY RecorderAssumption DEF Init, RecorderAssumption
  <2>2. rows \in Seq(RowType) /\ frame \in [Arms -> Frame] /\ kept \in [Arms -> Nat]
        /\ files \in [Ids -> Nat] /\ engaged \in [Hands -> BOOLEAN]
        /\ latest \in [Cameras -> Images \cup {Nothing}] /\ take \in 0..MaxTakes
    BY Constants DEF Init, Frame
  <2> QED BY <2>1, <2>2 DEF Init, TypeOK
<1>2. Seen /\ Going /\ Remembered /\ CommandsOfThisTake /\ Lifted /\ FramesExplained
  BY Constants DEF Init, Seen, Going, Remembered, CommandsOfThisTake, Lifted, FramesExplained
<1>3. Counting
  BY Constants DEF Init, Counting
<1> QED BY <1>1, <1>2, <1>3 DEF RecInv

(* The samples' parts are of their types.                                    *)
LEMMA SampleTypes ==
  ASSUME TypeOK, Seen, pc = "loop", NEW s \in Samples, NEW solved \in SUBSET Arms
  PROVE  /\ Starts(s) \in BOOLEAN /\ Collects(s) \in BOOLEAN /\ Records(s) \in BOOLEAN
         /\ Bar(s) \in BOOLEAN /\ Steps(s) \in Nat /\ Data(s) \in Seq(RowType)
         /\ Take(s) \in Nat
         /\ Kept(s) \in [Arms -> Nat] /\ Captured(s) \in [Arms -> Frame]
         /\ \A h \in Hands : Engages(s, h) \in BOOLEAN
         /\ Row(s, solved) \in RowType
<1>1. /\ Starts(s) \in BOOLEAN /\ Collects(s) \in BOOLEAN /\ Records(s) \in BOOLEAN
      /\ Bar(s) \in BOOLEAN
  BY DEF TypeOK, Starts, Edge, Collects, Discards, Records, Bar
<1>2. Steps(s) \in Nat /\ Take(s) \in Nat BY DEF TypeOK, Steps, Take
<1>3. Data(s) \in Seq(RowType) BY DEF TypeOK, Data
<1>4. Kept(s) \in [Arms -> Nat] BY DEF TypeOK, Kept
<1>5. Captured(s) \in [Arms -> Frame] BY DEF TypeOK, Captured, Frame
<1>6. \A h \in Hands : Engages(s, h) \in BOOLEAN BY DEF TypeOK, Engages
<1>7. Row(s, solved) \in RowType
  <2>1. latest \in [Cameras -> Images] BY DEF Seen
  <2>2. \A a \in Arms : (IF Engages(s, a)
                         THEN IF a \in solved THEN Take(s) ELSE Blank
                         ELSE IF Kept(s)[a] # 0 THEN Kept(s)[a] ELSE State) \in Nat \cup {State}
    BY <1>2, <1>4, Constants
  <2> QED BY <2>1, <2>2 DEF Row, RowType
<1> QED BY <1>1, <1>2, <1>3, <1>4, <1>5, <1>6, <1>7

LEMMA MoveTypes ==
  ASSUME TypeOK, Seen, NEW s \in Samples, NEW solved \in SUBSET Arms, Move(s, solved)
  PROVE  /\ take' \in 0..MaxTakes /\ rows' \in Seq(RowType) /\ steps' \in Nat
         /\ engaged' \in [Hands -> BOOLEAN] /\ frame' \in [Arms -> Frame]
         /\ kept' \in [Arms -> Nat] /\ carried' \subseteq Arms /\ lifted' \in BOOLEAN
         /\ UNCHANGED <<latest, length, episode>>
<1>0. pc = "loop" BY DEF Move
<1>1. take' \in 0..MaxTakes
  <2>1. take' = Take(s) /\ (Starts(s) => take < MaxTakes) BY DEF Move, Bounded
  <2> QED BY <2>1, Constants DEF Take, TypeOK
<1>2. rows' \in Seq(RowType)
  <2>1. rows' \in {Append(Data(s), Row(s, solved)), Data(s)} BY DEF Move
  <2>2. Data(s) \in Seq(RowType) /\ Row(s, solved) \in RowType BY <1>0, SampleTypes
  <2> QED BY <2>1, <2>2
<1>3. steps' \in Nat
  <2>1. steps' \in {Steps(s) + 1, Steps(s)} BY DEF Move
  <2>2. Steps(s) \in Nat BY <1>0, SampleTypes
  <2> QED BY <2>1, <2>2
<1>4. engaged' \in [Hands -> BOOLEAN] /\ frame' \in [Arms -> Frame]
  <2>1. engaged' = [h \in Hands |-> Engages(s, h)] /\ frame' = Captured(s) BY DEF Move
  <2> QED BY <1>0, <2>1, SampleTypes
<1>5. kept' \in [Arms -> Nat]
  <2>1. kept' = [a \in Arms |-> IF Engages(s, a) /\ a \in solved /\ Collects(s)
                                THEN Take(s) ELSE Kept(s)[a]]
    BY DEF Move
  <2>2. Take(s) \in Nat /\ Kept(s) \in [Arms -> Nat] BY <1>0, SampleTypes
  <2> QED BY <2>1, <2>2
<1>6. carried' \subseteq Arms /\ lifted' \in BOOLEAN /\ UNCHANGED <<latest, length, episode>>
  BY <1>0, SampleTypes DEF Move
<1> QED BY <1>1, <1>2, <1>3, <1>4, <1>5, <1>6

(* A file takes the number of the recording, or nothing changes.             *)
LEMMA EndTypes ==
  ASSUME TypeOK, EndEpisode, take' \in Nat
  PROVE  /\ files' \in [Ids -> Nat] /\ auto' \in Nat \cup {Nothing}
         /\ pc' = "id" /\ collecting' = FALSE /\ bar' = FALSE /\ up' = {}
         /\ \A id \in Ids : id # episode => files'[id] = files[id]
<1>1. files' \in {files, [files EXCEPT ![episode] = take']} BY DEF EndEpisode, SaveDemo
<1>2. auto' \in Nat \cup {Nothing} BY DEF EndEpisode, Counted, TypeOK
<1>3. files \in [Ids -> Nat] BY DEF TypeOK
<1> QED BY <1>1, <1>2, <1>3 DEF EndEpisode

LEMMA TypeNext == ASSUME TypeOK, Seen, [Next]_vars PROVE TypeOK'
<1>1. CASE \E c \in Cameras : CaptureLoop(c)
  BY <1>1 DEF CaptureLoop, TypeOK, options, recording, control
<1>2. CASE WaitForImages
  BY <1>2 DEF WaitForImages, TypeOK, options, recording, control
<1>3. CASE NextEpisode
  <2>1. episode' \in Nat
    BY <1>3, IdsTypes DEF NextEpisode, TypeOK
  <2>2. rows' \in Seq(RowType) BY <1>3 DEF NextEpisode
  <2> QED BY <1>3, <2>1, <2>2 DEF NextEpisode, TypeOK, control
<1>4. ASSUME NEW s \in Samples, SaveByButton(s) PROVE TypeOK'
  <2>1. EndEpisode /\ lifted' = FALSE
        /\ UNCHANGED <<latest, length, episode, rows, steps, take, engaged, frame, kept, carried>>
    BY <1>4 DEF SaveByButton
  <2>2. take' \in Nat BY <2>1 DEF TypeOK
  <2> QED BY <2>1, <2>2, EndTypes DEF TypeOK
<1>5. ASSUME NEW s \in Samples, Return(s) PROVE TypeOK'
  BY <1>5 DEF Return, TypeOK, options, recording, control
<1>6. ASSUME NEW s \in Samples, NEW solved \in SUBSET Arms, GoOn(s, solved) PROVE TypeOK'
  <2>1. Move(s, solved) /\ collecting' = Collects(s) /\ bar' = Bar(s)
        /\ up' = Buttons \ s.buttons /\ UNCHANGED <<pc, auto, files>> /\ pc = "loop"
    BY <1>6 DEF GoOn, Move
  <2>2. collecting' \in BOOLEAN /\ bar' \in BOOLEAN BY <2>1, SampleTypes
  <2> QED BY <2>1, <2>2, MoveTypes DEF TypeOK
<1>7. ASSUME NEW s \in Samples, NEW solved \in SUBSET Arms, StopAtLength(s, solved) PROVE TypeOK'
  <2>1. Move(s, solved) /\ EndEpisode BY <1>7 DEF StopAtLength
  <2>2. take' \in Nat BY <2>1, MoveTypes
  <2> QED BY <2>1, <2>2, MoveTypes, EndTypes DEF TypeOK
<1>8. ASSUME NEW s \in Samples, SaveNothing(s) PROVE TypeOK'
  BY <1>8 DEF SaveNothing, TypeOK, options, control
<1>9. CASE UNCHANGED vars
  BY <1>9 DEF vars, TypeOK, options, recording, control
<1> QED BY <1>1, <1>2, <1>3, <1>4, <1>5, <1>6, <1>7, <1>8, <1>9 DEF Next
-----------------------------------------------------------------------------
LEMMA SeenNext == ASSUME TypeOK, Seen, [Next]_vars PROVE Seen'
<1>1. CASE \E c \in Cameras : CaptureLoop(c)
  BY <1>1 DEF CaptureLoop, TypeOK, Seen
<1>2. CASE WaitForImages
  <2>1. \A c \in Cameras : latest[c] \in Images BY <1>2 DEF WaitForImages, TypeOK
  <2>2. latest \in [Cameras -> Images] BY <2>1 DEF TypeOK
  <2> QED BY <1>2, <2>2 DEF WaitForImages, Seen
<1>3. CASE ~ WaitForImages /\ ~ (\E c \in Cameras : CaptureLoop(c))
  <2>1. latest' = latest /\ (pc' # "images" => pc # "images")
    BY <1>3 DEF Next, vars, NextEpisode, SaveByButton, SaveNothing, EndEpisode, Return, GoOn,
                StopAtLength, Move
  <2> QED BY <2>1 DEF Seen
<1> QED BY <1>1, <1>2, <1>3

(* Steps that leave the recording and the controls alone.                    *)
LEMMA QuietHolds ==
  ASSUME RecInv, UNCHANGED <<options, recording, control, files>>,
         pc' = pc \/ (pc = "images" /\ pc' = "id") \/ (pc = "loop" /\ pc' = "ended")
  PROVE  Going' /\ Remembered' /\ CommandsOfThisTake' /\ Counting' /\ Lifted' /\ FramesExplained'
<1>1. Going' BY DEF RecInv, Going, options, recording
<1>2. Remembered' /\ CommandsOfThisTake'
  BY DEF RecInv, Remembered, CommandsOfThisTake, recording, control
<1>3. Counting' BY DEF RecInv, Counting, options, recording
<1>4. Lifted' /\ FramesExplained' BY DEF RecInv, Lifted, FramesExplained, control
<1> QED BY <1>1, <1>2, <1>3, <1>4

(* When a recording ends, no other has begun.                                *)
LEMMA EndHolds ==
  ASSUME RecInv, TypeOK', EndEpisode, pc = "loop", UNCHANGED episode,
         take' \in take..(take + 1), collecting \/ take' = take + 1
  PROVE  Going' /\ Remembered' /\ CommandsOfThisTake' /\ Counting' /\ Lifted'
<1>1. take' \in Nat BY DEF RecInv, TypeOK
<1>2. /\ pc' = "id" /\ collecting' = FALSE /\ up' = {}
      /\ auto' = Counted(auto) /\ \A id \in Ids : id # episode => files'[id] = files[id]
  BY <1>1, EndTypes DEF EndEpisode, RecInv
<1>3. Counting'
  <2> SUFFICES ASSUME auto' # Nothing PROVE Counting' BY DEF Counting
  <2>1. auto # Nothing /\ auto \in Nat /\ auto' = auto + 1 /\ episode = auto
    BY <1>2, Constants DEF Counted, RecInv, Counting, TypeOK
  <2>2. \A id \in Ids : id >= auto' => files'[id] = 0
    BY <1>2, <2>1, IdsTypes DEF RecInv, Counting
  <2>3. PICK a \in Nat : /\ a \in AutoStart \ {Nothing} /\ a <= auto /\ auto <= a + take
                         /\ (collecting => auto < a + take)
    BY <2>1, Constants DEF RecInv, Counting
  <2>4. take \in Nat /\ take' \in Nat /\ take <= take' BY DEF RecInv, TypeOK
  <2>5. a <= auto' /\ auto' <= a + take'
    <3>1. CASE collecting
      <4>1. auto < a + take /\ a <= auto BY <2>3, <3>1
      <4>2. \A x, y, z \in Nat : x < a + y /\ a <= x /\ y <= z => a <= x + 1 /\ x + 1 <= a + z
        OBVIOUS
      <4> QED BY <2>1, <2>4, <4>1, <4>2
    <3>2. CASE take' = take + 1 BY <2>1, <2>3, <2>4, <3>2
    <3> QED BY <3>1, <3>2
  <2> QED BY <1>2, <2>2, <2>3, <2>5 DEF Counting
<1> QED BY <1>2, <1>3 DEF Going, Remembered, CommandsOfThisTake, Lifted

(* What a step of the loop's body does to an arm's frame.                    *)
LEMMA MoveFrames ==
  ASSUME RecInv, NEW s \in Samples, NEW solved \in SUBSET Arms, Move(s, solved)
  PROVE  FramesExplained'
<1> SUFFICES ASSUME NEW a \in Arms, engaged'[a]
             PROVE  frame'[a] = "current" \/ (frame'[a] = "past" /\ a \in carried')
  BY DEF FramesExplained
<1>1. a \in Hands BY Constants
<1>2. engaged' = [h \in Hands |-> Engages(s, h)] /\ frame' = Captured(s)
      /\ carried' = {b \in Arms : Engages(s, b) /\ ~ Rises(s, b) /\ (b \in carried \/ Homes(s))}
  BY DEF Move
<1>3. Engages(s, a) BY <1>1, <1>2
<1>4. CASE Rises(s, a) BY <1>2, <1>4 DEF Captured
<1>5. CASE ~ Rises(s, a)
  <2>1. engaged[a] BY <1>3, <1>5 DEF Rises
  <2>2. frame[a] = "current" \/ (frame[a] = "past" /\ a \in carried)
    BY <2>1 DEF RecInv, FramesExplained
  <2>3. frame'[a] = IF Homes(s) /\ frame[a] = "current" THEN "past" ELSE frame[a]
    BY <1>2, <1>5 DEF Captured
  <2> QED BY <1>2, <1>3, <1>5, <2>2, <2>3
<1> QED BY <1>4, <1>5

(* A row's command is one of this recording, and is remembered.              *)
LEMMA MoveCommands ==
  ASSUME RecInv, NEW s \in Samples, NEW solved \in SUBSET Arms, GoOn(s, solved)
  PROVE  Remembered' /\ CommandsOfThisTake'
<1> SUFFICES ASSUME collecting' = TRUE, NEW a \in Arms
             PROVE  /\ kept'[a] \in {0, take'}
                    /\ kept'[a] = 0 => \A j \in DOMAIN rows' : rows'[j].cmd[a] # take'
                    /\ \A j \in DOMAIN rows' :
                         /\ rows'[j].cmd[a] \in {take', Blank, State}
                         /\ rows'[j].cmd[a] = State => \A i \in 1..j : rows'[i].cmd[a] # take'
  <2>1. collecting' \in BOOLEAN BY TypeNext DEF RecInv, Next, TypeOK
  <2> QED BY <2>1 DEF Remembered, CommandsOfThisTake
<1>1. /\ pc = "loop" /\ Collects(s) = TRUE /\ take' = Take(s)
      /\ rows' = IF Records(s) THEN Append(Data(s), Row(s, solved)) ELSE Data(s)
      /\ kept'[a] = IF Engages(s, a) /\ a \in solved /\ Collects(s) THEN Take(s) ELSE Kept(s)[a]
  BY DEF GoOn, Move
<1>2. Data(s) \in Seq(RowType) /\ Row(s, solved) \in RowType BY <1>1, SampleTypes DEF RecInv
<1> DEFINE k == Kept(s)[a]
<1>3. Take(s) \in Nat \ {0} /\ k \in {0, Take(s)} /\ Take(s) # State
  <2>1. CASE Starts(s)
    BY <2>1, Constants DEF RecInv, TypeOK, Take, Kept
  <2>2. CASE ~ Starts(s)
    <3>1. collecting BY <1>1, <2>2 DEF Collects
    <3>2. take # 0 /\ take \in Nat /\ kept[a] \in {0, take}
      BY <3>1 DEF RecInv, TypeOK, Going, Remembered
    <3> QED BY <2>2, <3>2, Constants DEF Take, Kept
  <2> QED BY <2>1, <2>2
<1>4. \A j \in 1..Len(Data(s)) :
        /\ Data(s)[j].cmd[a] \in {Take(s), Blank, State}
        /\ Data(s)[j].cmd[a] = State => \A i \in 1..j : Data(s)[i].cmd[a] # Take(s)
        /\ k = 0 => Data(s)[j].cmd[a] # Take(s)
  <2>1. CASE Starts(s) BY <2>1 DEF Data
  <2>2. CASE ~ Starts(s)
    <3>1. collecting /\ Data(s) = rows /\ Take(s) = take /\ k = kept[a]
      BY <1>1, <2>2 DEF Collects, Data, Take, Kept
    <3>2. DOMAIN rows = 1..Len(rows) BY DEF RecInv, TypeOK
    <3> QED BY <3>1, <3>2 DEF RecInv, Remembered, CommandsOfThisTake
  <2> QED BY <2>1, <2>2
<1>5. Row(s, solved).cmd[a] = IF Engages(s, a) THEN IF a \in solved THEN Take(s) ELSE Blank
                              ELSE IF k # 0 THEN k ELSE State
  BY DEF Row
<1>6. CASE ~ Records(s)
  <2>1. rows' = Data(s) /\ DOMAIN Data(s) = 1..Len(Data(s)) BY <1>1, <1>2, <1>6
  <2> HIDE DEF k
  <2> QED BY <1>1, <1>3, <1>4, <2>1 DEF k
<1>7. CASE Records(s)
  <2> DEFINE n == Len(Data(s))
             c == Row(s, solved).cmd[a]
  <2>1. /\ n \in Nat /\ DOMAIN rows' = 1..(n + 1) /\ rows'[n + 1] = Row(s, solved)
        /\ \A j \in 1..n : rows'[j] = Data(s)[j]
    BY <1>1, <1>2, <1>7
  <2>2. c \in {Take(s), Blank, State} /\ (c = State => k = 0 /\ c # Take(s))
    BY <1>3, <1>5, Constants
  <2>3. kept'[a] \in {0, Take(s)} /\ (kept'[a] = 0 => k = 0 /\ c # Take(s))
    BY <1>1, <1>3, <1>5, Constants
  <2>4. ASSUME NEW j \in 1..(n + 1)
        PROVE  /\ rows'[j].cmd[a] \in {Take(s), Blank, State}
               /\ rows'[j].cmd[a] = State => \A i \in 1..j : rows'[i].cmd[a] # Take(s)
               /\ kept'[a] = 0 => rows'[j].cmd[a] # Take(s)
    <3>1. CASE j \in 1..n
      <4>1. \A i \in 1..j : i \in 1..n BY <2>1, <3>1
      <4> HIDE DEF k, n, c
      <4> QED BY <1>4, <2>1, <2>3, <3>1, <4>1 DEF n
    <3>2. CASE j = n + 1
      <4>1. \A i \in 1..j : i \in 1..n \/ i = j BY <2>1, <3>2
      <4>2. rows'[j].cmd[a] = c BY <2>1, <3>2
      <4> HIDE DEF k, n, c
      <4> QED BY <1>4, <2>1, <2>2, <2>3, <4>1, <4>2 DEF n
    <3> QED BY <2>1, <3>1, <3>2
  <2> QED BY <1>1, <2>1, <2>3, <2>4
<1> QED BY <1>6, <1>7

(* Going on with a recording, its bar counts the row.                        *)
LEMMA MoveGoing ==
  ASSUME RecInv, NEW s \in Samples, NEW solved \in SUBSET Arms, Move(s, solved), Collects(s)
  PROVE  /\ take' # 0
         /\ length # Nothing =>
              /\ Bar(s) /\ steps' = Len(rows')
              /\ steps' = Len(Data(s)) + (IF Records(s) THEN 1 ELSE 0)
              /\ Len(Data(s)) < length /\ Steps(s) = Len(Data(s))
<1>1. /\ pc = "loop" /\ take' = Take(s)
      /\ rows' = IF Records(s) THEN Append(Data(s), Row(s, solved)) ELSE Data(s)
      /\ steps' = IF Records(s) /\ length # Nothing /\ Bar(s) THEN Steps(s) + 1 ELSE Steps(s)
  BY DEF Move
<1>2. Data(s) \in Seq(RowType) /\ Row(s, solved) \in RowType /\ Steps(s) \in Nat
  BY <1>1, SampleTypes DEF RecInv
<1>3. CASE Starts(s)
  <2>1. take' # 0 BY <1>1, <1>3 DEF Take, RecInv, TypeOK
  <2>2. Data(s) = <<>> /\ (length # Nothing => Bar(s) /\ Steps(s) = 0 /\ 0 < length)
    BY <1>3 DEF Data, Bar, Steps, RecInv, TypeOK
  <2> QED BY <1>1, <1>2, <2>1, <2>2
<1>4. CASE ~ Starts(s)
  <2>1. collecting /\ ~ Discards(s) BY <1>4 DEF Collects
  <2>2. take' # 0 BY <1>1, <1>4, <2>1 DEF Take, RecInv, Going
  <2>3. Data(s) = rows
        /\ (length # Nothing => Bar(s) /\ Steps(s) = Len(rows) /\ Len(rows) < length)
    BY <1>4, <2>1 DEF Data, Bar, Steps, RecInv, Going
  <2> QED BY <1>1, <1>2, <2>2, <2>3
<1> QED BY <1>3, <1>4

LEMMA GoOnHolds ==
  ASSUME RecInv, NEW s \in Samples, NEW solved \in SUBSET Arms, GoOn(s, solved)
  PROVE  Going' /\ Counting' /\ Lifted'
<1>1. /\ Move(s, solved) /\ ~ LengthReached(s) /\ collecting' = Collects(s) /\ bar' = Bar(s)
      /\ up' = Buttons \ s.buttons /\ UNCHANGED <<pc, auto, files>>
      /\ pc = "loop" /\ UNCHANGED <<episode, length>> /\ take' = Take(s)
      /\ lifted' = ("B" \notin s.buttons \/ (lifted /\ ~ Starts(s)))
      /\ (Starts(s) => take < MaxTakes)
  BY DEF GoOn, Move, Bounded
<1>2. Going'
  <2> SUFFICES ASSUME Collects(s)
               PROVE  take' # 0 /\ (length # Nothing => bar' /\ steps' = Len(rows') /\ steps' < length)
    BY <1>1 DEF Going
  <2>1. /\ take' # 0
        /\ length # Nothing =>
              /\ Bar(s) /\ steps' = Len(rows')
              /\ steps' = Len(Data(s)) + (IF Records(s) THEN 1 ELSE 0)
              /\ Len(Data(s)) < length /\ Steps(s) = Len(Data(s))
    BY <1>1, MoveGoing
  <2>2. ASSUME length # Nothing PROVE steps' < length
    <3>1. length \in Nat /\ Steps(s) \in Nat BY <1>1, <2>2, SampleTypes DEF RecInv, TypeOK
    <3>2. Records(s) => ~ (Steps(s) + 1 >= length) BY <1>1, <2>1, <2>2 DEF LengthReached
    <3>3. CASE Records(s) BY <2>1, <2>2, <3>1, <3>2, <3>3
    <3>4. CASE ~ Records(s) BY <2>1, <2>2, <3>1, <3>4
    <3> QED BY <3>3, <3>4
  <2> QED BY <1>1, <2>1, <2>2
<1>3. Counting'
  <2> SUFFICES ASSUME auto # Nothing PROVE Counting' BY <1>1 DEF Counting
  <2>1. PICK a \in AutoStart \ {Nothing} :
          a <= auto /\ auto <= a + take /\ (collecting => auto < a + take)
    BY DEF RecInv, Counting
  <2>2. a \in Nat /\ take \in Nat /\ auto \in Nat BY Constants DEF RecInv, TypeOK
  <2>3. auto <= a + take' /\ (Collects(s) => auto < a + take')
    <3>1. CASE Starts(s)
      <4>1. take' = take + 1 BY <1>1, <3>1 DEF Take
      <4> QED BY <2>1, <2>2, <4>1
    <3>2. CASE ~ Starts(s)
      <4>1. take' = take /\ (Collects(s) => collecting) BY <1>1, <3>2 DEF Take, Collects
      <4> QED BY <2>1, <4>1
    <3> QED BY <3>1, <3>2
  <2> QED BY <1>1, <2>1, <2>3 DEF RecInv, Counting
<1>4. Lifted'
  BY <1>1 DEF Lifted
<1> QED BY <1>2, <1>3, <1>4

LEMMA RecNext == RecInv /\ [Next]_vars => RecInv'
<1> SUFFICES ASSUME RecInv, [Next]_vars PROVE RecInv' OBVIOUS
<1>0. TypeOK' /\ Seen' BY TypeNext, SeenNext DEF RecInv
<1>1. CASE \/ \E c \in Cameras : CaptureLoop(c)
           \/ WaitForImages
           \/ \E s \in Samples : Return(s)
           \/ UNCHANGED vars
  <2>1. UNCHANGED <<options, recording, control, files>>
        /\ (pc' = pc \/ (pc = "images" /\ pc' = "id") \/ (pc = "loop" /\ pc' = "ended"))
    BY <1>1 DEF CaptureLoop, WaitForImages, Return, vars
  <2> QED BY <1>0, <2>1, QuietHolds DEF RecInv
<1>2. CASE NextEpisode
  <2>1. /\ pc = "id" /\ pc' = "loop" /\ collecting' = FALSE
        /\ UNCHANGED <<auto, length, take, up, engaged, frame, kept, lifted, carried, files>>
        /\ (auto # Nothing => episode' = auto)
    BY <1>2 DEF NextEpisode, control
  <2>2. Counting' BY <2>1 DEF RecInv, Counting
  <2>3. Going' /\ Remembered' /\ CommandsOfThisTake' BY <2>1 DEF Going, Remembered, CommandsOfThisTake
  <2>4. Lifted' /\ FramesExplained' BY <2>1 DEF RecInv, Lifted, FramesExplained
  <2> QED BY <1>0, <2>2, <2>3, <2>4 DEF RecInv
<1>3. ASSUME NEW s \in Samples, SaveByButton(s) PROVE RecInv'
  <2>1. /\ pc = "loop" /\ collecting /\ EndEpisode
        /\ UNCHANGED <<episode, take, engaged, frame, carried>>
    BY <1>3 DEF SaveByButton
  <2>2. take' \in take..(take + 1) BY <2>1 DEF RecInv, TypeOK
  <2>3. FramesExplained' BY <2>1 DEF RecInv, FramesExplained
  <2> QED BY <1>0, <2>1, <2>2, <2>3, EndHolds DEF RecInv
<1>4. ASSUME NEW s \in Samples, NEW solved \in SUBSET Arms, GoOn(s, solved) PROVE RecInv'
  <2>1. FramesExplained' BY <1>4, MoveFrames DEF GoOn
  <2> QED BY <1>0, <1>4, <2>1, MoveCommands, GoOnHolds DEF RecInv
<1>5. ASSUME NEW s \in Samples, NEW solved \in SUBSET Arms, StopAtLength(s, solved) PROVE RecInv'
  <2>1. Move(s, solved) /\ LengthReached(s) /\ EndEpisode /\ pc = "loop" /\ UNCHANGED episode
        /\ take' = Take(s)
    BY <1>5 DEF StopAtLength, Move
  <2>2. take' \in take..(take + 1) /\ (collecting \/ take' = take + 1)
    BY <2>1 DEF Take, LengthReached, Records, Collects, RecInv, TypeOK
  <2>3. FramesExplained' BY <2>1, MoveFrames
  <2> QED BY <1>0, <2>1, <2>2, <2>3, EndHolds DEF RecInv
<1>6. ASSUME NEW s \in Samples, SaveNothing(s) PROVE RecInv'
  <2>1. /\ pc = "loop" /\ pc' = "ended" /\ collecting' = FALSE
        /\ files' = [files EXCEPT ![episode] = 0]
        /\ UNCHANGED <<auto, take, up, engaged, frame, lifted, carried>>
    BY <1>6 DEF SaveNothing, options, control
  <2>2. \A id \in Ids : files[id] = 0 => files'[id] = 0 BY <2>1 DEF RecInv, TypeOK
  <2>3. Counting' BY <2>1, <2>2 DEF RecInv, Counting
  <2>4. Going' /\ Remembered' /\ CommandsOfThisTake' BY <2>1 DEF Going, Remembered, CommandsOfThisTake
  <2>5. Lifted' /\ FramesExplained' BY <2>1 DEF RecInv, Lifted, FramesExplained
  <2> QED BY <1>0, <2>3, <2>4, <2>5 DEF RecInv
<1> QED BY <1>1, <1>2, <1>3, <1>4, <1>5, <1>6 DEF Next

LEMMA RecorderHolds == Spec => []RecInv
BY InitHolds, RecNext, PTL DEF Spec

(* Variables keep their types.                                               *)
THEOREM RecorderTypeCorrect == Spec => []TypeOK
<1>1. RecInv => TypeOK BY DEF RecInv
<1> QED BY <1>1, RecorderHolds, PTL

(* A recording holds commands of this recording only, and an arm that moved  *)
(* in it repeats its last command.                                           *)
THEOREM CommandsAreOfTheTake == Spec => []CommandsOfThisTake
<1>1. RecInv => CommandsOfThisTake BY DEF RecInv
<1> QED BY <1>1, RecorderHolds, PTL

(* An engaged arm moves relative to frames that were captured since the      *)
(* robot last went home, unless its trigger was held meanwhile.              *)
THEOREM FramesAreExplained == Spec => []FramesExplained
<1>1. RecInv => FramesExplained BY DEF RecInv
<1> QED BY <1>1, RecorderHolds, PTL

(* Between any two starts and stops by it, B was seen up.                    *)
THEOREM PressesDoOneThing == Spec => OnePressOneThing
<1> DEFINE Ended == collecting /\ ~ collecting' /\ pc' # pc /\ rows' = rows
           P == take' # take \/ Ended => lifted
<1>1. RecInv /\ [Next]_vars => [P]_vars
  <2> SUFFICES ASSUME RecInv, Next, take' # take \/ Ended
               PROVE  lifted
    OBVIOUS
  <2>1. ASSUME NEW s \in Samples, Edge(s, "B") PROVE lifted
    BY <2>1 DEF Edge, RecInv, Lifted
  <2>2. CASE \E s \in Samples : SaveByButton(s) \/ SaveNothing(s)
    BY <2>1, <2>2 DEF SaveByButton, SaveNothing
  <2>3. ASSUME NEW s \in Samples, NEW solved \in SUBSET Arms, Move(s, solved), take' # take
        PROVE  lifted
    BY <2>1, <2>3 DEF Move, Take, Starts
  <2>4. ASSUME NEW s \in Samples, NEW solved \in SUBSET Arms, StopAtLength(s, solved), rows' = rows
        PROVE  lifted
    <3>1. Records(s) /\ Collects(s) /\ pc = "loop" /\ rows' = Append(Data(s), Row(s, solved))
      BY <2>4 DEF StopAtLength, LengthReached, Records, Move
    <3>2. Starts(s)
      <4> SUFFICES ASSUME ~ Starts(s) PROVE FALSE OBVIOUS
      <4>1. Data(s) = rows /\ rows \in Seq(RowType) BY <3>1 DEF Collects, Data, RecInv, TypeOK
      <4>2. Len(rows') = Len(rows) + 1 BY <3>1, <4>1, SampleTypes DEF RecInv
      <4> QED BY <2>4, <4>1, <4>2
    <3> QED BY <2>1, <3>2 DEF Starts
  <2>5. CASE \/ \E c \in Cameras : CaptureLoop(c)
             \/ WaitForImages \/ NextEpisode
             \/ \E s \in Samples : Return(s)
    BY <2>5 DEF CaptureLoop, WaitForImages, NextEpisode, Return, recording, RecInv, Going
  <2>6. CASE \E s \in Samples : \E solved \in SUBSET Arms : GoOn(s, solved)
    BY <2>3, <2>6 DEF GoOn
  <2>7. CASE \E s \in Samples : \E solved \in SUBSET Arms : StopAtLength(s, solved)
    BY <2>3, <2>4, <2>7 DEF StopAtLength
  <2> QED BY <2>2, <2>5, <2>6, <2>7 DEF Next
<1> QED BY <1>1, RecorderHolds, PTL DEF Spec, OnePressOneThing
-----------------------------------------------------------------------------
(* Induction over the natural numbers, for a set of them.                    *)
LessNat == {p \in Nat \X Nat : p[1] < p[2]}

LEMMA NatWF == IsWellFoundedOn(LessNat, Nat)
<1>1. LessNat = OpToRel(<, Nat) BY DEF OpToRel, LessNat
<1> QED BY <1>1, NatLessThanWellFounded

LEMMA Least == ASSUME NEW T \in SUBSET Nat, T # {} PROVE \E x \in T : \A y \in T : x <= y
<1>1. PICK x \in T : \A y \in T : ~ (<<y, x>> \in LessNat) BY NatWF, WFMin
<1>2. ASSUME NEW y \in T PROVE x <= y
  <2>1. <<y, x>> \in Nat \X Nat /\ <<y, x>>[1] = y /\ <<y, x>>[2] = x OBVIOUS
  <2>2. ~ (y < x) BY <1>1, <2>1 DEF LessNat
  <2>3. y \in Nat /\ x \in Nat OBVIOUS
  <2> QED BY <2>2, <2>3
<1> QED BY <1>2

LEMMA NatInd ==
  ASSUME NEW S, 0 \in S, \A n \in Nat : n \in S => n + 1 \in S PROVE \A n \in Nat : n \in S
<1> SUFFICES ASSUME Nat \ S # {} PROVE FALSE OBVIOUS
<1>1. PICK x \in Nat \ S : \A y \in Nat \ S : x <= y BY Least
<1>2. x # 0 /\ x - 1 \in Nat OBVIOUS
<1>3. x - 1 \in S BY <1>1, <1>2
<1> QED BY <1>2, <1>3

(* Counting repetitions: t[j] is the number of values right before g[j] that *)
(* are the same.                                                             *)
Repeats(t, g, n) == t = [j \in 0..n |-> IF j > 1 /\ g[j] = g[j - 1] THEN t[j - 1] + 1 ELSE 0]

LEMMA RepeatsExist ==
  ASSUME NEW g, NEW n \in Nat PROVE \E t \in [0..n -> Nat] : Repeats(t, g, n)
<1> DEFINE S == {m \in Nat : \E t \in [0..m -> Nat] : Repeats(t, g, m)}
<1>1. 0 \in S
  <2> DEFINE t == [j \in 0..0 |-> 0]
  <2>1. t \in [0..0 -> Nat] /\ Repeats(t, g, 0) BY DEF Repeats
  <2> QED BY <2>1
<1>2. ASSUME NEW m \in Nat, m \in S PROVE m + 1 \in S
  <2>1. PICK t \in [0..m -> Nat] : Repeats(t, g, m) BY <1>2
  <2> DEFINE v == IF m + 1 > 1 /\ g[m + 1] = g[m] THEN t[m] + 1 ELSE 0
             u == [j \in 0..(m + 1) |-> IF j = m + 1 THEN v ELSE t[j]]
  <2>2. v \in Nat OBVIOUS
  <2>3. u \in [0..(m + 1) -> Nat] BY <2>2
  <2>4. \A j \in 0..(m + 1) : u[j] = IF j > 1 /\ g[j] = g[j - 1] THEN u[j - 1] + 1 ELSE 0
    BY <2>1 DEF Repeats
  <2>5. Repeats(u, g, m + 1) BY <2>3, <2>4 DEF Repeats
  <2> QED BY <2>3, <2>5
<1> HIDE DEF S
<1>3. \A m \in Nat : m \in S BY <1>1, <1>2, NatInd
<1> QED BY <1>3 DEF S

(* They are the same, and the value before them, if any, is another.         *)
LEMMA RepeatsAre ==
  ASSUME NEW g, NEW n \in Nat, NEW t, Repeats(t, g, n)
  PROVE  \A j \in 1..n :
           /\ t[j] \in 0..(j - 1)
           /\ \A k \in (j - t[j])..j : g[k] = g[j]
           /\ t[j] = j - 1 \/ g[j - t[j] - 1] # g[j]
<1> DEFINE P(j) == /\ t[j] \in 0..(j - 1)
                   /\ \A k \in (j - t[j])..j : g[k] = g[j]
                   /\ t[j] = j - 1 \/ g[j - t[j] - 1] # g[j]
           S == {j \in Nat : j \in 1..n => P(j)}
<1>0. \A j \in 0..n : t[j] = IF j > 1 /\ g[j] = g[j - 1] THEN t[j - 1] + 1 ELSE 0
  BY DEF Repeats
<1>1. 0 \in S OBVIOUS
<1>2. ASSUME NEW j \in Nat, j \in S PROVE j + 1 \in S
  <2> SUFFICES ASSUME j + 1 \in 1..n PROVE P(j + 1) OBVIOUS
  <2>1. t[j + 1] = IF j + 1 > 1 /\ g[j + 1] = g[j] THEN t[j] + 1 ELSE 0 BY <1>0
  <2>2. CASE j >= 1 /\ g[j + 1] = g[j]
    <3>1. P(j) BY <1>2, <2>2
    <3>2. t[j + 1] = t[j] + 1 /\ t[j] \in 0..(j - 1) BY <2>1, <2>2, <3>1
    <3>3. t[j + 1] \in 0..((j + 1) - 1) BY <3>2
    <3>4. ASSUME NEW k \in ((j + 1) - t[j + 1])..(j + 1) PROVE g[k] = g[j + 1]
      <4>1. k \in (j - t[j])..j \/ k = j + 1 BY <3>2
      <4> QED BY <2>2, <3>1, <4>1
    <3>5. t[j + 1] = (j + 1) - 1 \/ g[(j + 1) - t[j + 1] - 1] # g[j + 1]
      <4>1. (j + 1) - t[j + 1] - 1 = j - t[j] - 1 BY <3>2
      <4> QED BY <2>2, <3>1, <3>2, <4>1
    <3> QED BY <3>3, <3>4, <3>5
  <2>3. CASE ~ (j >= 1 /\ g[j + 1] = g[j])
    <3>1. t[j + 1] = 0 BY <2>1, <2>3
    <3>2. \A k \in ((j + 1) - 0)..(j + 1) : k = j + 1 OBVIOUS
    <3>3. (j + 1) - 0 - 1 = j /\ (j = 0 \/ g[j] # g[j + 1]) BY <2>3
    <3> QED BY <3>1, <3>2, <3>3
  <2> QED BY <2>2, <2>3
<1> HIDE DEF S
<1>3. \A j \in Nat : j \in S BY <1>1, <1>2, NatInd
<1> QED BY <1>3 DEF S

(* So many repetitions are reached where a window of equal values ends.      *)
LEMMA RepeatsWindow ==
  ASSUME NEW g, NEW n \in Nat, NEW m \in Nat \ {0}, NEW t, Repeats(t, g, n)
  PROVE  (\E j \in 1..n : t[j] >= m) <=>
           \E i \in 1..(n - m) : \A j \in i..(i + m) : g[j] = g[i]
<1>1. \A j \in 1..n : /\ t[j] \in 0..(j - 1)
                      /\ \A k \in (j - t[j])..j : g[k] = g[j]
                      /\ t[j] = j - 1 \/ g[j - t[j] - 1] # g[j]
  BY RepeatsAre
<1>2. ASSUME NEW j \in 1..n, t[j] >= m
      PROVE  \E i \in 1..(n - m) : \A k \in i..(i + m) : g[k] = g[i]
  <2>1. t[j] \in 0..(j - 1) /\ \A k \in (j - t[j])..j : g[k] = g[j] BY <1>1
  <2>2. j - m \in 1..(n - m) /\ (j - m) + m = j BY <1>2, <2>1
  <2>3. \A k \in (j - m)..j : g[k] = g[j] BY <1>2, <2>1
  <2>4. \A k \in (j - m)..((j - m) + m) : g[k] = g[j - m] BY <2>2, <2>3
  <2> QED BY <2>2, <2>4
<1>3. ASSUME NEW i \in 1..(n - m), \A k \in i..(i + m) : g[k] = g[i]
      PROVE  t[i + m] >= m
  <2> DEFINE j == i + m
  <2>1. j \in 1..n OBVIOUS
  <2>2. t[j] \in 0..(j - 1) /\ (t[j] = j - 1 \/ g[j - t[j] - 1] # g[j]) BY <1>1, <2>1
  <2> SUFFICES ASSUME ~ (t[j] >= m) PROVE FALSE OBVIOUS
  <2>3. t[j] # j - 1 /\ j - t[j] - 1 \in i..(i + m) /\ j \in i..(i + m) BY <2>2
  <2>4. g[j - t[j] - 1] = g[i] /\ g[j] = g[i] BY <1>3, <2>3
  <2> QED BY <2>2, <2>3, <2>4
<1>4. \A i \in 1..(n - m) : i + m \in 1..n OBVIOUS
<1> QED BY <1>2, <1>3, <1>4

LEMMA StuckFrames ==
  ASSUME NEW data \in Seq(RowType), NEW c \in Cameras
  PROVE  HasStuckFrames(data, c) <=>
           \E i \in 1..(Len(data) - Threshold) :
             \A j \in i..(i + Threshold) : data[j].image[c] = data[i].image[c]
<1> DEFINE n == Len(data)
           g == [j \in 1..n |-> data[j].image[c]]
<1>1. n \in Nat /\ DOMAIN data = 1..n /\ Threshold \in Nat \ {0} BY Constants
<1>2. \A j \in 1..n : g[j] = data[j].image[c] /\ data[j].image[c] # Nothing
  <2> SUFFICES ASSUME NEW j \in 1..n PROVE data[j].image[c] # Nothing OBVIOUS
  <2>1. data[j] \in RowType OBVIOUS
  <2>2. data[j].image[c] \in Images BY <2>1 DEF RowType
  <2> QED BY <2>2, Constants
<1> HIDE DEF g, n
<1>3. \A t : t = [j \in 0..n |->
                    IF j > 1 /\ data[j].image[c] # Nothing /\ data[j].image[c] = data[j - 1].image[c]
                    THEN t[j - 1] + 1 ELSE 0]
        <=> Repeats(t, g, n)
  <2>1. ASSUME NEW j \in 0..n
        PROVE  (j > 1 /\ data[j].image[c] # Nothing /\ data[j].image[c] = data[j - 1].image[c])
                 <=> (j > 1 /\ g[j] = g[j - 1])
    <3>1. CASE j > 1
      <4>1. j \in 1..n /\ j - 1 \in 1..n BY <1>1, <3>1
      <4> QED BY <1>2, <4>1
    <3> QED BY <3>1
  <2> QED BY <2>1 DEF Repeats
<1> DEFINE again == CHOOSE t : t = [j \in 0..Len(data) |->
             IF j > 1 /\ data[j].image[c] # Nothing /\ data[j].image[c] = data[j - 1].image[c]
             THEN t[j - 1] + 1 ELSE 0]
<1>4. HasStuckFrames(data, c) <=> \E j \in DOMAIN data : again[j] >= Threshold
  BY DEF HasStuckFrames
<1>5. Repeats(again, g, n)
  <2>1. PICK t : Repeats(t, g, n) BY <1>1, RepeatsExist
  <2>2. \E u : u = [j \in 0..Len(data) |->
             IF j > 1 /\ data[j].image[c] # Nothing /\ data[j].image[c] = data[j - 1].image[c]
             THEN u[j - 1] + 1 ELSE 0]
    BY <1>3, <2>1 DEF n
  <2> QED BY <1>3, <2>2 DEF n
<1> HIDE DEF again
<1>6. HasStuckFrames(data, c) <=>
        \E i \in 1..(n - Threshold) : \A j \in i..(i + Threshold) : g[j] = g[i]
  BY <1>1, <1>4, <1>5, RepeatsWindow
<1>7. \A i \in 1..(n - Threshold) : \A j \in i..(i + Threshold) : i \in 1..n /\ j \in 1..n
  BY <1>1
<1> QED BY <1>2, <1>6, <1>7 DEF n

(* Images are written at the indices of their rows.                          *)
LEMMA ImagesWritten ==
  ASSUME NEW data \in Seq(RowType), NEW c \in Cameras, NEW n \in DOMAIN data
  PROVE  WrittenImages(data, c)[n] = data[n].image[c]
<1> DEFINE At(i, m) == /\ data[i].image[c] # Nothing
                       /\ m = Cardinality({j \in 1..i : data[j].image[c] # Nothing})
<1>1. Len(data) \in Nat /\ DOMAIN data = 1..Len(data) OBVIOUS
<1>2. \A j \in 1..Len(data) : data[j].image[c] # Nothing
  <2> SUFFICES ASSUME NEW j \in 1..Len(data) PROVE data[j].image[c] # Nothing OBVIOUS
  <2>1. data[j] \in RowType OBVIOUS
  <2>2. data[j].image[c] \in Images BY <2>1 DEF RowType
  <2> QED BY <2>2, Constants
<1>3. ASSUME NEW i \in DOMAIN data, NEW m PROVE At(i, m) <=> m = i
  <2>1. {j \in 1..i : data[j].image[c] # Nothing} = 1..i BY <1>1, <1>2
  <2>2. Cardinality(1..i) = i
    <3>1. i \in Nat /\ 1 <= i BY <1>1
    <3> QED BY <3>1, FS_Interval
  <2> QED BY <1>1, <1>2, <2>1, <2>2
<1> HIDE DEF At
<1>4. WrittenImages(data, c)[n] =
        IF \E i \in DOMAIN data : At(i, n)
        THEN data[CHOOSE i \in DOMAIN data : At(i, n)].image[c] ELSE Blank
  BY DEF WrittenImages, At
<1>5. (CHOOSE i \in DOMAIN data : At(i, n)) = n BY <1>3
<1> QED BY <1>3, <1>4, <1>5

(* What the recorder saves is what happened: the rows of the recording, no   *)
(* more than asked for, images at the indices of their rows, in a file of    *)
(* its own if ids are counted; nothing if a camera was stuck.  A recording   *)
(* stopped before its first row empties its file and ends the process.       *)
THEOREM SavedIsRecorded == Spec => SavedAsRecorded
<1> DEFINE Saved == /\ length # Nothing => Len(rows') \in 0..length
                    /\ Cameras # {} => rows' # <<>>
                    /\ IF Stuck(rows') THEN files' = files
                       ELSE /\ files' = [files EXCEPT ![episode] = take']
                            /\ auto # Nothing => files[episode] = 0
                            /\ \A c \in Cameras : \A i \in DOMAIN rows' :
                                 WrittenImages(rows', c)[i] = rows'[i].image[c]
           Other == files' = files \/ (/\ collecting /\ rows = <<>> /\ pc' = "ended"
                                       /\ files' = [files EXCEPT ![episode] = 0])
           P == IF pc = "loop" /\ pc' = "id" THEN Saved ELSE Other
<1>1. ASSUME Next, ~ (pc = "loop" /\ pc' = "id") PROVE Other
  <2>1. CASE \E s \in Samples : SaveNothing(s) BY <2>1 DEF SaveNothing, Unsavable
  <2>2. CASE ~ \E s \in Samples : SaveNothing(s)
    BY <1>1, <2>2 DEF Next, CaptureLoop, WaitForImages, NextEpisode, Return, GoOn, SaveByButton,
                      StopAtLength, Move, EndEpisode
  <2> QED BY <2>1, <2>2
<1>2. ASSUME RecInv, RecInv', Next, pc = "loop", pc' = "id" PROVE Saved
  <2>1. PICK s \in Samples :
          SaveByButton(s) \/ \E solved \in SUBSET Arms : StopAtLength(s, solved)
    BY <1>2 DEF Next, CaptureLoop, WaitForImages, NextEpisode, Return, GoOn, SaveNothing
  <2>2. EndEpisode BY <1>2, <2>1 DEF SaveByButton, StopAtLength
  <2>3. rows' \in Seq(RowType) BY <1>2 DEF RecInv, TypeOK
  <2>4. ASSUME length # Nothing PROVE Len(rows') \in 0..length
    <3>0. length \in Nat BY <1>2, <2>4 DEF RecInv, TypeOK
    <3>1. CASE SaveByButton(s)
      <4>1. collecting /\ rows' = rows /\ Len(rows') \in Nat BY <2>3, <3>1 DEF SaveByButton
      <4> QED BY <1>2, <2>4, <3>0, <4>1 DEF RecInv, Going
    <3>2. ASSUME NEW solved \in SUBSET Arms, StopAtLength(s, solved) PROVE Len(rows') \in 0..length
      <4>1. Move(s, solved) /\ Collects(s) BY <3>2 DEF StopAtLength, LengthReached, Records
      <4>2. /\ steps' = Len(rows') /\ Len(Data(s)) < length
            /\ steps' = Len(Data(s)) + (IF Records(s) THEN 1 ELSE 0)
        BY <1>2, <2>4, <4>1, MoveGoing
      <4>3. Len(Data(s)) \in Nat BY <1>2, SampleTypes DEF RecInv
      <4> QED BY <3>0, <4>2, <4>3
    <3> QED BY <2>1, <3>1, <3>2
  <2>5. Stuck(rows') <=> \E c \in Cameras : HasStuckFrames(rows', c)
    BY <2>3, StuckFrames DEF Stuck
  <2>6. files' = IF Stuck(rows') THEN files ELSE [files EXCEPT ![episode] = take']
    BY <2>2, <2>5 DEF EndEpisode, SaveDemo
  <2>7. ASSUME auto # Nothing PROVE files[episode] = 0
    <3>1. episode = auto /\ \A id \in Ids : id >= auto => files[id] = 0
      BY <1>2, <2>7 DEF RecInv, Counting
    <3>2. PICK a \in AutoStart \ {Nothing} :
            a <= auto /\ auto <= a + take /\ (collecting => auto < a + take)
      BY <1>2, <2>7 DEF RecInv, Counting
    <3>3. a \in Nat /\ take \in Nat /\ auto \in Nat /\ take <= MaxTakes /\ MaxTakes \in Nat
      BY <1>2, <2>7, Constants DEF RecInv, TypeOK
    <3>4. auto < a + MaxTakes
      <4>1. CASE collecting
        <5>1. auto < a + take BY <3>2, <4>1
        <5> QED BY <3>3, <5>1
      <4>2. CASE ~ collecting
        <5>1. take < MaxTakes
          BY <1>2, <2>1, <4>2 DEF SaveByButton, StopAtLength, Move, Bounded, LengthReached, Records,
                                  Collects
        <5> QED BY <3>2, <3>3, <5>1
      <4> QED BY <4>1, <4>2
    <3>5. auto \in Ids BY <3>2, <3>3, <3>4, IdsCounted
    <3>6. auto >= auto BY <3>3
    <3> QED BY <3>1, <3>5, <3>6
  <2>8. \A c \in Cameras : \A i \in DOMAIN rows' :
          WrittenImages(rows', c)[i] = rows'[i].image[c]
    BY <2>3, ImagesWritten
  <2>9. ASSUME Cameras # {} PROVE rows' # <<>>
    <3>1. CASE SaveByButton(s) BY <2>9, <3>1 DEF SaveByButton, Unsavable
    <3>2. ASSUME NEW solved \in SUBSET Arms, StopAtLength(s, solved) PROVE rows' # <<>>
      <4>1. rows' = Append(Data(s), Row(s, solved)) BY <3>2 DEF StopAtLength, LengthReached, Move
      <4>2. Data(s) \in Seq(RowType) BY <1>2, SampleTypes DEF RecInv
      <4> QED BY <4>1, <4>2
    <3> QED BY <2>1, <3>1, <3>2
  <2> QED BY <2>4, <2>6, <2>7, <2>8, <2>9
<1>3. RecInv /\ RecInv' /\ [Next]_vars => [P]_vars
  <2> HIDE DEF Saved, Other
  <2> QED BY <1>1, <1>2
<1> QED BY <1>3, RecorderHolds, PTL DEF Spec, SavedAsRecorded
=============================================================================
