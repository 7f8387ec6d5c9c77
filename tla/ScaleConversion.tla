--------------------------- MODULE ScaleConversion ---------------------------
(***************************************************************************)
(* convert_task_to_zarr: one recording of Scale becomes Zarr episodes.     *)
(* Frames whose hand tracking is marked wrong lose the marked hands, short *)
(* gaps of a hand are interpolated, unusable frames are dropped, and what  *)
(* remains is cut into sub-episodes with the spans of their sub-goals.     *)
(* The numbers of a hand are abstracted to where they come from.           *)
(***************************************************************************)
EXTENDS Integers, Sequences

CONSTANTS
  Frame,      \* the frames of recordings: records with the fields left and
              \*   right ("seen" or "missing"), error (the hands marked wrong),
              \*   idle (BOOLEAN) and goal
  NoGoal,     \* the goal of a frame that has no sub-goal
  Active,     \* the hands of "Hand Used": sets of them
  MaxFrames,  \* bound: length of a recording
  MaxGap,     \* --max-interp-gap
  Context,    \* the frames looked at on each side of a gap
  MinFrames,  \* MIN_EPISODE_FRAMES
  SubLength   \* SUB_EPISODE_LENGTH

ASSUME ScaleAssumption ==
  /\ \A f \in Frame : /\ f.left \in {"seen", "missing"} /\ f.right \in {"seen", "missing"}
                      /\ f.error \subseteq {"left", "right"} /\ f.idle \in BOOLEAN
  /\ MaxFrames \in Nat /\ MaxGap \in Nat /\ Context \in Nat
  /\ MinFrames \in Nat \ {0} /\ SubLength \in Nat /\ SubLength >= MinFrames
  /\ Active \subseteq SUBSET {"left", "right"}

VARIABLES
  stage,    \* where the conversion is
  frames,   \* the recording
  active,   \* the hands that its task uses
  video,    \* the number of frames of the video
  numbers,  \* numbers[h][i]: what hand h has at frame i
  hand,     \* the hand whose gaps are being filled
  gaps,     \* its gaps that are still to be looked at
  plan,     \* the sub-episodes still to be written, as <<first, last>>
  episodes  \* the episodes written

vars == <<stage, frames, active, video, numbers, hand, gaps, plan, episodes>>

Hands == {"left", "right"}
Indices == 1..Len(frames)
-----------------------------------------------------------------------------
(* The maximal stretches of TRUE, as <<first, last>>, in one pass.           *)
Runs(flags) ==
  LET step(acc, i) ==
        IF flags[i]
        THEN [acc EXCEPT !.open = IF acc.open = 0 THEN i ELSE acc.open]
        ELSE IF acc.open = 0 THEN acc
        ELSE [open |-> 0, runs |-> Append(acc.runs, <<acc.open, i - 1>>)]
      pass[i \in 0..Len(flags)] ==
        IF i = 0 THEN [open |-> 0, runs |-> <<>>] ELSE step(pass[i - 1], i)
      end == pass[Len(flags)]
  IN  IF end.open = 0 THEN end.runs ELSE Append(end.runs, <<end.open, Len(flags)>>)

Length(run) == run[2] - run[1] + 1

FindGaps(h, nums) == Runs([i \in Indices |-> nums[h][i] = "missing"])

(* The frames that the spline is laid through.                               *)
Anchors(h, gap) ==
  {i \in Indices : /\ i >= gap[1] - Context /\ i <= gap[2] + Context
                   /\ numbers[h][i] # "missing"
                   /\ i \notin gap[1]..gap[2]}

(* _akima_interpolate_keypoints: it gives up on less than three anchors and  *)
(* on one that is not a number.                                              *)
Interpolable(h, gap) ==
  /\ \E i, j, k \in Anchors(h, gap) : i < j /\ j < k
  /\ \A i \in Anchors(h, gap) : numbers[h][i] # "nan"

(* Mutant: the length of the gap is taken without its last frame.            *)
FillableOffByOne(h, gap) == gap[2] - gap[1] <= MaxGap /\ Interpolable(h, gap)

Fillable(h, gap) == Length(gap) <= MaxGap /\ Interpolable(h, gap)

(* The spline is not extrapolated: before the first and after the last       *)
(* anchor it is not a number, which no velocity exceeds (_velocity_check).   *)
AtEdge(h, gap) == \/ \A i \in Anchors(h, gap) : i > gap[2]
                  \/ \A i \in Anchors(h, gap) : i < gap[1]
-----------------------------------------------------------------------------
(* _build_validity_mask, after the interpolation.                            *)

(* Mutant: only errors of both hands count.                                  *)
UsableIfOneHand(i) ==
  /\ ~ frames[i].idle
  /\ i <= video
  /\ ~ \A h \in Hands : h \in frames[i].error \cap active /\ numbers[h][i] = "missing"

Usable(i) ==
  /\ ~ frames[i].idle
  /\ i <= video
  /\ \A h \in frames[i].error \cap active : numbers[h][i] # "missing"

(* The pieces of at most SubLength frames, the last one if it is long        *)
(* enough: one is cut off after the other.                                   *)
Pieces(run) ==
  LET step(acc) ==
        LET piece == <<acc.next, IF acc.next + SubLength - 1 <= run[2]
                                 THEN acc.next + SubLength - 1 ELSE run[2]>>
        IN  [next |-> acc.next + SubLength,
             cut |-> IF Length(piece) >= MinFrames THEN Append(acc.cut, piece) ELSE acc.cut]
      pass[n \in 0..Length(run)] ==
        IF n = 0 THEN [next |-> run[1], cut |-> <<>>]
        ELSE IF pass[n - 1].next > run[2] THEN pass[n - 1] ELSE step(pass[n - 1])
  IN  pass[Length(run)].cut

(* Mutant: the flag that ends a run at its last frame is forgotten.          *)
SubEpisodesOpen ==
  LET runs == Runs([i \in Indices |-> Usable(i)])
      pass[n \in 0..Len(runs)] ==
        IF n = 0 THEN <<>>
        ELSE pass[n - 1] \o (IF Length(runs[n]) >= MinFrames /\ runs[n][2] < Len(frames)
                             THEN Pieces(runs[n]) ELSE <<>>)
  IN  pass[Len(runs)]

(* _contiguous_runs and the split of the runs.                               *)
SubEpisodes ==
  LET runs == Runs([i \in Indices |-> Usable(i)])
      pass[n \in 0..Len(runs)] ==
        IF n = 0 THEN <<>>
        ELSE pass[n - 1] \o (IF Length(runs[n]) >= MinFrames THEN Pieces(runs[n]) ELSE <<>>)
  IN  pass[Len(runs)]
-----------------------------------------------------------------------------
(* The rows so far after a frame of an episode, its frame 0 first.           *)
GoalPass(sub) ==
  LET goal(n) == frames[sub[1] + n].goal
      step(acc, n) ==
        IF goal(n) = acc.goal THEN acc
        ELSE [goal |-> goal(n), start |-> n,
              rows |-> IF acc.goal = NoGoal THEN acc.rows
                       ELSE Append(acc.rows, <<acc.goal, acc.start, n - 1>>)]
      pass[n \in 0..Length(sub)] ==
        IF n = 0 THEN [goal |-> NoGoal, start |-> 0, rows |-> <<>>]
        ELSE step(pass[n - 1], n - 1)
  IN  pass[Length(sub)]

(* Mutant: the last goal of an episode is not closed.                        *)
LanguageAnnotationsOpen(sub) == GoalPass(sub).rows

(* _build_language_annotations: rows <<goal, first, last>>, counted from the *)
(* episode's frame 0, both ends included.                                    *)
LanguageAnnotations(sub) ==
  LET end == GoalPass(sub)
  IN  IF end.goal = NoGoal THEN end.rows
      ELSE Append(end.rows, <<end.goal, end.start, Length(sub) - 1>>)

(* _annotation_text_for_frame of the reader of episodes: start_idx <=        *)
(* frame_idx < end_idx.                                                      *)
AnnotationTexts(rows, f) ==
  {rows[m][1] : m \in {m \in DOMAIN rows : rows[m][2] <= f /\ f < rows[m][3]}}
-----------------------------------------------------------------------------
Init ==
  /\ stage = "loaded"
  /\ frames \in UNION {[1..m -> Frame] : m \in 0..MaxFrames}
  /\ active \in Active
  /\ video \in {Len(frames), Len(frames) - 1}
  /\ numbers = [h \in Hands |-> [i \in Indices |-> frames[i][h]]]
  /\ hand = "left" /\ gaps = <<>> /\ plan = <<>> /\ episodes = <<>>

TooFewFrames ==
  /\ stage = "loaded" /\ Len(frames) < MinFrames
  /\ stage' = "failed"
  /\ UNCHANGED <<frames, active, video, numbers, hand, gaps, plan, episodes>>

(* _nullify_tracking_errors, called by interpolate_hand_gaps, which a limit  *)
(* of zero turns off.                                                        *)
Nullify ==
  /\ stage = "loaded" /\ Len(frames) >= MinFrames
  /\ IF MaxGap = 0
     THEN stage' = "filter" /\ UNCHANGED <<numbers, gaps>>
     ELSE LET nums == [h \in Hands |-> [i \in Indices |->
                         IF h \in frames[i].error THEN "missing" ELSE numbers[h][i]]]
          IN  /\ stage' = "fill"
              /\ numbers' = nums
              /\ gaps' = FindGaps("left", nums)
  /\ UNCHANGED <<frames, active, video, hand, plan, episodes>>

(* The values of a gap: interpolated, or not numbers at the recording's edge.*)
FillGap ==
  /\ stage = "fill" /\ gaps # <<>>
  /\ gaps' = Tail(gaps)
  /\ LET gap == Head(gaps)
         value == IF AtEdge(hand, gap) THEN "nan" ELSE "filled"
     IN  /\ Fillable(hand, gap)
         /\ numbers' = [numbers EXCEPT ![hand] =
                          [i \in Indices |-> IF i \in gap[1]..gap[2] THEN value
                                             ELSE numbers[hand][i]]]
  /\ UNCHANGED <<stage, frames, active, video, hand, plan, episodes>>

(* A gap too long, without anchors, or across which the hand moves too fast. *)
LeaveGap ==
  /\ stage = "fill" /\ gaps # <<>>
  /\ Fillable(hand, Head(gaps)) => ~ AtEdge(hand, Head(gaps))
  /\ gaps' = Tail(gaps)
  /\ UNCHANGED <<stage, frames, active, video, numbers, hand, plan, episodes>>

NextHand ==
  /\ stage = "fill" /\ gaps = <<>>
  /\ IF hand = "left"
     THEN /\ hand' = "right" /\ gaps' = FindGaps("right", numbers)
          /\ UNCHANGED stage
     ELSE stage' = "filter" /\ UNCHANGED <<hand, gaps>>
  /\ UNCHANGED <<frames, active, video, numbers, plan, episodes>>

(* A recording without a usable run raises.                                  *)
Filter ==
  /\ stage = "filter"
  /\ plan' = SubEpisodes
  /\ stage' = IF SubEpisodes = <<>> THEN "failed" ELSE "write"
  /\ UNCHANGED <<frames, active, video, numbers, hand, gaps, episodes>>

WriteEpisode ==
  /\ stage = "write" /\ plan # <<>>
  /\ episodes' = Append(episodes, [run |-> Head(plan),
                                   rows |-> LanguageAnnotations(Head(plan))])
  /\ plan' = Tail(plan)
  /\ UNCHANGED <<stage, frames, active, video, numbers, hand, gaps>>

Finish ==
  /\ stage = "write" /\ plan = <<>>
  /\ stage' = "done"
  /\ UNCHANGED <<frames, active, video, numbers, hand, gaps, plan, episodes>>

Next == TooFewFrames \/ Nullify \/ FillGap \/ LeaveGap \/ NextHand \/ Filter
        \/ WriteEpisode \/ Finish

Spec == Init /\ [][Next]_vars
-----------------------------------------------------------------------------
Written == UNION {episodes[n].run[1]..episodes[n].run[2] : n \in DOMAIN episodes}

(* An episode has the frames of one stretch of the recording, in the order   *)
(* of the recording and in no other episode, between MinFrames and SubLength *)
(* of them, all usable; and a usable frame that is in no episode lies in a   *)
(* stretch too short to be one (_contiguous_runs, sub_episode_plans).        *)
EpisodesTile ==
  stage = "done" =>
    /\ \A n \in DOMAIN episodes :
         /\ Length(episodes[n].run) \in MinFrames..SubLength
         /\ \A i \in episodes[n].run[1]..episodes[n].run[2] : Usable(i)
         /\ n > 1 => episodes[n].run[1] > episodes[n - 1].run[2]
    /\ \A i \in Indices : i + MinFrames - 1 <= Len(frames) =>
         \E j \in i..(i + MinFrames - 1) : j \in Written \/ ~ Usable(j)

(* A hand that is used and was marked wrong has other values in an episode,  *)
(* over a gap no longer than the limit: interpolated numbers, or, in a gap   *)
(* at the recording's edge only, what is not a number.  Only a hand that     *)
(* nobody marked is written without values (the module's docstring).  A      *)
(* limit of zero turns the repair off.                                       *)
HandsExplained ==
  stage = "done" =>
    \A i \in Written, h \in active :
      /\ numbers[h][i] = "missing" => h \notin frames[i].error
      /\ numbers[h][i] # "missing" /\ h \in frames[i].error =>
           /\ numbers[h][i] \in {"filled", "nan"}
           /\ \A a \in 1..i : i <= a + MaxGap /\ a + MaxGap <= Len(frames) =>
                \E j \in a..(a + MaxGap) : numbers[h][j] \notin {"filled", "nan"}
      /\ numbers[h][i] = "nan" => \/ \A j \in 1..i : numbers[h][j] = "nan"
                                  \/ \A j \in i..Len(frames) : numbers[h][j] = "nan"

(* A frame of an episode is read with its own sub-goal and no other, if the  *)
(* frame after it has that goal too; the last frame of every span, and so    *)
(* every span of one frame, is read without: the writer's ends are           *)
(* inclusive, and the reader takes spans as half-open.                       *)
GoalsRead ==
  \A n \in DOMAIN episodes :
    LET run == episodes[n].run
    IN  \A i \in run[1]..run[2] :
          AnnotationTexts(episodes[n].rows, i - run[1]) =
            IF i < run[2] /\ frames[i + 1].goal = frames[i].goal
            THEN {frames[i].goal} \ {NoGoal} ELSE {}

(* Frames that tracking got wrong and interpolation did not repair are       *)
(* dropped (the module's docstring, sfs_to_egoverse_zarr.py:22).             *)
UnrepairedAreDropped ==
  \A i \in Written : \A h \in frames[i].error \cap active :
    numbers[h][i] \in {"seen", "filled"}
=============================================================================
