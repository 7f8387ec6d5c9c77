---------------------------- MODULE EpisodeStore -----------------------------
(***************************************************************************)
(* A store after its writer: the jobs that put language annotations into a *)
(* published store (language_process/) and the data loader that takes      *)
(* samples from it (ZarrDataset), a window of actions, an image and the    *)
(* annotations at a frame.  Frames are counted from 1.                     *)
(***************************************************************************)
EXTENDS ZarrWriter

CONSTANTS
  Horizon,   \* the horizons of the windows
  Spans,     \* the annotations: sequence of spans [start, end)
  MaxJobs    \* bound: annotation jobs

(* Clips are drawn on the frames of the video; they may be empty.            *)
ASSUME StoreAssumption ==
  /\ Horizon \subseteq Nat \ {0}
  /\ Spans \in Seq((Nat \ {0}) \X Nat)
  /\ MaxJobs \in Nat

VARIABLES
  job,        \* what the annotation job is doing
  overwrite,  \* the option of the job
  jobDied,    \* history: a job died before it was done
  sampling,   \* what the data loader is doing
  idx,        \* the frame it tries
  attempts,   \* its failed tries
  jobs

jobVars == <<job, overwrite, jobDied, jobs>>
loader == <<sampling, idx, attempts>>
storeVars == <<vars, jobVars, loader>>
-----------------------------------------------------------------------------
InitStore ==
  /\ Init
  /\ job = "none" /\ overwrite = FALSE /\ jobDied = FALSE /\ jobs = 0
  /\ sampling = "idle" /\ idx = 0 /\ attempts = 0

(* Others have a copy of the store only once it is published.                *)
WriterStep ==
  /\ job = "none" /\ sampling = "idle"
  /\ Next
  /\ jobDied' = FALSE
  /\ UNCHANGED <<job, overwrite, jobs, loader>>

Annotates(after) ==
  /\ annotations' = after
  /\ UNCHANGED <<keys, length, data, meta, pc, handle, given, spilled, bounds, loader>>
-----------------------------------------------------------------------------
(* An annotation job, process_episode.                                       *)

StartJob(o) ==
  /\ meta # 0 /\ pc = "idle" /\ job = "none" /\ jobs < MaxJobs
  /\ jobs' = jobs + 1
  /\ overwrite' = o
  /\ job' = "check"
  /\ UNCHANGED <<vars, jobDied, loader>>

(* Without --overwrite an episode that has the key is skipped.               *)
SkipIfPresent ==
  /\ job = "check"
  /\ job' = IF ~overwrite /\ annotations # "missing" THEN "none" ELSE "remove"
  /\ UNCHANGED <<vars, overwrite, jobDied, jobs, loader>>

(* append_annotations(mode="w") removes the array.                           *)
RemoveKey ==
  /\ job = "remove"
  /\ job' = "create"
  /\ Annotates("missing")
  /\ UNCHANGED <<overwrite, jobDied, jobs>>

(* Mutant: the array is made with the entries still to come.                 *)
CreateArrayOnly ==
  /\ job = "create"
  /\ Annotates("empty") \/ Annotates("blank")
  /\ job' = "none"
  /\ UNCHANGED <<overwrite, jobDied, jobs>>

(* It is created again, for no entry or with entries that are stored next.   *)
CreateArray ==
  /\ job = "create"
  /\ \/ Annotates("empty") /\ job' = "none"
     \/ Annotates("blank") /\ job' = "fill"
  /\ UNCHANGED <<overwrite, jobDied, jobs>>

StoreEntries ==
  /\ job = "fill"
  /\ Annotates("full")
  /\ job' = "none"
  /\ UNCHANGED <<overwrite, jobDied, jobs>>

JobDies ==
  /\ job # "none" /\ faults < MaxFaults
  /\ faults' = faults + 1
  /\ job' = "none" /\ jobDied' = TRUE
  /\ UNCHANGED <<store, pc, handle, given, spilled, opens, overwrite, jobs, loader>>

Job ==
  \/ \E o \in BOOLEAN : StartJob(o)
  \/ SkipIfPresent \/ RemoveKey \/ CreateArray \/ StoreEntries \/ JobDies
-----------------------------------------------------------------------------
(* ZarrDataset.__getitem__.                                                  *)

(* An image that was never written is no JPEG.                               *)
Decodes(i) == \A k \in keys \cap Image : data[k][i] # 0

Sample(i) ==
  /\ meta # 0 /\ pc = "idle" /\ sampling = "idle"
  /\ sampling' = "try" /\ idx' = i /\ attempts' = 0
  /\ UNCHANGED <<vars, jobVars>>

(* get_fallback_idx counts the failures, and takes any other frame of the    *)
(* episode, also one that has failed before.                                 *)
OutOfTries == attempts + 1 >= meta \/ {i \in 1..meta : i # idx} = {}

(* Mutant: the tries are not counted.                                        *)
TryFrameUncounted ==
  /\ sampling = "try"
  /\ \/ Decodes(idx) /\ sampling' = "sample" /\ UNCHANGED idx
     \/ ~Decodes(idx) /\ idx' \in (1..meta) \ {idx} /\ UNCHANGED sampling
  /\ UNCHANGED <<vars, jobVars, attempts>>

(* Annotations that are gone or blank are an error, and an image that cannot *)
(* be decoded makes the loader try another frame; which comes first is the   *)
(* order of the keys.                                                        *)
TryFrame ==
  /\ sampling = "try"
  /\ \/ /\ annotations \in {"missing", "blank"}
        /\ sampling' = "error" /\ UNCHANGED <<idx, attempts>>
     \/ /\ annotations \in {"empty", "full"} /\ Decodes(idx)
        /\ sampling' = "sample" /\ UNCHANGED <<idx, attempts>>
     \/ /\ ~Decodes(idx) /\ OutOfTries
        /\ sampling' = "exhausted" /\ UNCHANGED <<idx, attempts>>
     \/ /\ ~Decodes(idx) /\ ~OutOfTries
        /\ idx' \in (1..meta) \ {idx} /\ attempts' = attempts + 1
        /\ UNCHANGED sampling
  /\ UNCHANGED <<vars, jobVars>>

Deliver ==
  /\ sampling \in {"sample", "exhausted", "error"}
  /\ sampling' = "idle" /\ idx' = 0 /\ attempts' = 0
  /\ UNCHANGED <<vars, jobVars>>

Loader == (\E i \in 1..meta : Sample(i)) \/ TryFrame \/ Deliver
-----------------------------------------------------------------------------
(* Windows and annotations, as functions of a frame.                         *)

(* The texts of a frame: the spans around it, half-open.                     *)
TextSpans(i) == {n \in DOMAIN Spans : Spans[n][1] <= i /\ i < Spans[n][2]}

Smaller(m, n) == IF m < n THEN m ELSE n

(* Mutant: the window may run into the padding of the array.                 *)
ChunkEndOfArray(k, i, h) == Smaller(i + h, length[k] + 1)

(* ZarrDataset._chunk_end_idx: the first frame after the window.             *)
ChunkEnd(k, i, h) == Smaller(i + h, meta + 1)

(* Mutant: the window reaches to the end of the span, inclusive.             *)
CutoffInclusive(k, i, h) ==
  IF TextSpans(i) = {} THEN ChunkEnd(k, i, h)
  ELSE LET last == CHOOSE n \in TextSpans(i) : \A m \in TextSpans(i) : m <= n
       IN Smaller(ChunkEnd(k, i, h), Spans[last][2] + 1)

(* ZarrAnnotationCutoffDataset: a later annotation in the list wins.         *)
CutoffEnd(k, i, h) ==
  IF TextSpans(i) = {} THEN ChunkEnd(k, i, h)
  ELSE LET last == CHOOSE n \in TextSpans(i) : \A m \in TextSpans(i) : m <= n
       IN Smaller(ChunkEnd(k, i, h), Spans[last][2])

(* What is read, filled up to the horizon with the last value.               *)
Window(k, i, end, h) ==
  [j \in 1..h |-> data[k][Smaller(i + j - 1, end - 1)]]
-----------------------------------------------------------------------------
NextStore == WriterStep \/ Job \/ Loader

(* The loop of __getitem__ does not wait for anything.                       *)
StoreSpec == InitStore /\ [][NextStore]_storeVars /\ WF_storeVars(TryFrame)
-----------------------------------------------------------------------------
(* A published store has whole annotations, except while a job replaces them *)
(* and after one that died in between: the array is removed before the new   *)
(* one exists (append_annotations).                                          *)
AnnotationsExplained ==
  meta # 0 => annotations \in {"empty", "full"} \/ job # "none" \/ jobDied

(* A job that is not told to overwrite leaves every store as it is, also one *)
(* that was never annotated: the writer has made the array that the job      *)
(* takes for annotations.  Only what a job that died has removed is written. *)
PlainJobsSkip ==
  [][annotations' # annotations /\ job # "none" /\ ~overwrite => jobDied]_storeVars

(* A window shows the frames that were written from its start on and repeats *)
(* the last; it never shows the padding of the array (_chunk_end_idx,        *)
(* _pad_sequences).                                                          *)
WindowsStayInside ==
  meta # 0 => \A k \in keys, i \in 1..meta, h \in Horizon :
    LET w == Window(k, i, ChunkEnd(k, i, h), h)
    IN \A j \in 1..h : LET seen == given[Smaller(i + j - 1, meta)]
                       IN k \in Given(seen) => w[j] = seen[k]

(* A window of actions that starts inside annotations ends with one of those *)
(* whose text the sample carries, or with the episode or its horizon, and is *)
(* never empty (_annotation_text_for_frame and _build_frame_to_ann_end).     *)
CutoffMatchesText ==
  meta # 0 => \A k \in keys, i \in 1..meta, h \in Horizon :
    LET end == CutoffEnd(k, i, h)
    IN /\ i < end
       /\ TextSpans(i) # {} => \E n \in TextSpans(i) : end <= Spans[n][2]
       /\ end < ChunkEnd(k, i, h) => \E n \in TextSpans(i) : end = Spans[n][2]

(* Looking for a frame that can be decoded comes to an end.                  *)
SamplingEnds == sampling = "try" ~> sampling # "try"

(* A sample is given up only if at least two frames, or the only one, cannot *)
(* be decoded; that every frame is bad, as the error says, is not needed,    *)
(* since a frame can be drawn again (get_fallback_idx).                      *)
ExhaustedExplained ==
  sampling = "exhausted" =>
    \E i \in 1..meta : ~Decodes(i) /\ (meta = 1 \/ \E j \in 1..meta \ {i} : ~Decodes(j))
=============================================================================
