----------------------------- MODULE ZarrWriter ------------------------------
(***************************************************************************)
(* The writer of episode stores (zarr_writer.py).  A store is a directory  *)
(* with one array per key, an array of annotations and the attributes of   *)
(* the group, its metadata.  write() gets whole arrays; write_incremental  *)
(* gets frames, one or several at a time, into arrays that were allocated  *)
(* for a given number of frames or that grow.  Every call may fail, and    *)
(* the process may die between two steps.                                  *)
(***************************************************************************)
EXTENDS Naturals, Sequences

CONSTANTS
  Key,             \* the keys of the episodes
  Image,           \* the keys that hold images
  Value,           \* the values of a key
  Frames,          \* the frames that callers give; 0 stands for no value
  ChunkTimesteps,  \* frames per chunk
  MaxFrames,       \* bound: frames of an episode
  MaxBatch,        \* bound: frames of one add_frames call
  MaxOpens,        \* bound: episodes begun
  MaxFaults        \* bound: calls that fail and processes that die

ASSUME WriterAssumption ==
  /\ Image \subseteq Key
  /\ Value \subseteq Nat \ {0}
  /\ Frames \subseteq [Key -> Value \cup {0}]
  /\ ChunkTimesteps \in Nat \ {0}
  /\ MaxFrames \in Nat /\ MaxBatch \in Nat /\ MaxOpens \in Nat /\ MaxFaults \in Nat

VARIABLES
  keys,         \* the arrays that exist
  length,       \* length[k]: the number of cells of the array
  data,         \* data[k][i]: the cells
  annotations,  \* the array of annotations
  meta,         \* total_frames of the metadata, 0 without metadata
  pc,           \* what the writer is doing
  total,        \* the number of frames announced, 0 if unknown
  initialized,  \* the arrays of this episode have been created
  capacity,     \* cells the handle believes its growing arrays have
  cursor,       \* frames written
  pending,      \* the arrays the present step has still to treat
  given,        \* history: the frames that calls took over
  spilled,      \* history: the cells <<k, i>> written by calls that failed
  opens, faults

store == <<keys, length, data, annotations, meta>>
handle == <<total, initialized, capacity, cursor, pending>>
bounds == <<opens, faults>>
vars == <<store, pc, handle, given, spilled, bounds>>
-----------------------------------------------------------------------------
Cell == Value \cup {0}
Index == 1..(2 * (MaxFrames + ChunkTimesteps))
NoCells == [k \in Key |-> [i \in Index |-> 0]]

(* What the annotations array can be: not there, there without entries,      *)
(* created with its entries still to be stored, or complete.                 *)
Annotations == {"missing", "empty", "blank", "full"}
PC == {"idle", "body", "close", "bulk", "meta"}

Log == INSTANCE EpisodeLog WITH log <- given,
         episode <- [i \in 1..meta |-> [k \in Key |-> data[k][i]]]

Given(f) == {k \in Key : f[k] # 0}

(* The frames of one call: they have the same keys.  add_frames without      *)
(* arrays returns at once, add_frame without arrays counts a frame.          *)
Batch(n) ==
  {b \in UNION {[1..m -> Frames] : m \in 1..n} :
     /\ \A i \in DOMAIN b : Given(b[i]) = Given(b[1])
     /\ Given(b[1]) = {} => Len(b) = 1}

Larger(m, n) == IF m > n THEN m ELSE n

(* The frame count rounded up to whole chunks.                               *)
PaddedFrames(n) ==
  IF n % ChunkTimesteps = 0 THEN n ELSE n + (ChunkTimesteps - (n % ChunkTimesteps))

Init ==
  /\ keys = {} /\ length = [k \in Key |-> 0] /\ data = NoCells
  /\ annotations = "missing" /\ meta = 0
  /\ pc = "idle"
  /\ total = 0 /\ initialized = FALSE /\ capacity = 0 /\ cursor = 0 /\ pending = {}
  /\ given = <<>> /\ spilled = {}
  /\ opens = 0 /\ faults = 0
-----------------------------------------------------------------------------
(* Opening: zarr.open(mode="w") erases what was at the path.                 *)

(* Mutant: the group is opened with mode "a".                                *)
AttributesOnly ==
  /\ meta' = 0 /\ annotations' = "missing" /\ spilled' = {}
  /\ opens < MaxOpens /\ opens' = opens + 1
  /\ UNCHANGED <<keys, length, data>>

EraseStore ==
  /\ opens < MaxOpens /\ opens' = opens + 1
  /\ keys' = {} /\ length' = [k \in Key |-> 0] /\ data' = NoCells
  /\ annotations' = "missing" /\ meta' = 0
  /\ spilled' = {}

(* write_incremental(n); n = 0 stands for an unknown number.                 *)
Enter(n) ==
  /\ pc = "idle"
  /\ EraseStore
  /\ pc' = "body"
  /\ total' = n /\ initialized' = FALSE /\ capacity' = n /\ cursor' = 0 /\ pending' = {}
  /\ given' = <<>>
  /\ UNCHANGED faults

(* write(arrays of equal length).                                            *)
Write(b) ==
  /\ pc = "idle"
  /\ Given(b[1]) # {}
  /\ EraseStore
  /\ pc' = "bulk"
  /\ total' = Len(b) /\ cursor' = Len(b) /\ pending' = Given(b[1])
  /\ initialized' = TRUE /\ capacity' = Len(b)
  /\ given' = b
  /\ UNCHANGED faults

(* One array is written, padded with zeros or with the last image.           *)
WriteArray(k) ==
  /\ pc = "bulk" /\ k \in pending
  /\ pending' = pending \ {k}
  /\ keys' = keys \cup {k}
  /\ length' = [length EXCEPT ![k] = PaddedFrames(total)]
  /\ data' = [data EXCEPT ![k] =
       [i \in Index |-> IF i <= total THEN given[i][k]
                        ELSE IF k \in Image /\ i <= PaddedFrames(total)
                             THEN given[total][k] ELSE 0]]
  /\ UNCHANGED <<annotations, meta, pc, total, initialized, capacity, cursor, given,
                 spilled, bounds>>
-----------------------------------------------------------------------------
(* add_frame and add_frames.                                                 *)

(* The first frame decides which arrays there are.                           *)
Schema(ks) == IF initialized THEN keys ELSE ks

InitialCapacity == IF initialized THEN capacity ELSE Larger(1, ChunkTimesteps)

Grown(end) ==
  IF end <= InitialCapacity THEN InitialCapacity ELSE Larger(end, 2 * InitialCapacity)

Fits(end) == total = 0 \/ end <= total

(* Mutant: an announced length is allocated without the padding, and arrays  *)
(* that grow get the frames of one chunk more.                               *)
RoomByChunks(ks, end) ==
  /\ initialized' = TRUE
  /\ keys' = Schema(ks)
  /\ capacity' = IF total = 0 THEN InitialCapacity + ChunkTimesteps ELSE capacity
  /\ length' = [k \in Key |->
       IF initialized THEN length[k] ELSE IF total = 0 THEN InitialCapacity ELSE total]

(* _init_arrays for the first call, then _ensure_capacity: arrays that grow  *)
(* are resized together, by doubling.                                        *)
MakeRoom(ks, end) ==
  /\ initialized' = TRUE
  /\ keys' = Schema(ks)
  /\ capacity' = IF total = 0 THEN Grown(end) ELSE capacity
  /\ length' = [k \in Key |->
       IF k \notin Schema(ks) THEN 0
       ELSE IF total = 0 THEN Grown(end) ELSE PaddedFrames(total)]

(* The cells cursor+1 .. cursor+Len(b) of the arrays of ks, so far as they   *)
(* exist.                                                                    *)
Put(ks, b) ==
  data' = [k \in Key |-> [i \in Index |->
             IF k \in ks /\ cursor < i /\ i <= cursor + Len(b) /\ i <= length'[k]
             THEN b[i - cursor][k] ELSE data[k][i]]]

AddFrames(b) ==
  /\ pc = "body"
  /\ cursor + Len(b) <= MaxFrames
  /\ Fits(cursor + Len(b)) /\ Given(b[1]) \subseteq Schema(Given(b[1]))
  /\ MakeRoom(Given(b[1]), cursor + Len(b))
  /\ Put(Given(b[1]), b)
  /\ cursor' = cursor + Len(b)
  /\ given' = given \o b
  /\ UNCHANGED <<annotations, meta, pc, total, pending, spilled, bounds>>

(* Arrays are written one after the other, the images last.  A key that has  *)
(* no array, a value of another shape or an image that cannot be encoded     *)
(* raises when its turn comes, more frames than announced raise before the   *)
(* first; the cursor stays.  The caller lets the exception leave the with    *)
(* block, or goes on with the next frame.                                    *)
AddRaises(b, done) ==
  /\ pc = "body" /\ faults < MaxFaults
  /\ cursor + Len(b) <= MaxFrames
  /\ done \subseteq Schema(Given(b[1]))
  /\ IF Fits(cursor + Len(b)) THEN done # Given(b[1]) ELSE done = {}
  /\ done \cap Image # {} => Given(b[1]) \ Image \subseteq done
  /\ faults' = faults + 1
  /\ MakeRoom(Given(b[1]), cursor + Len(b))
  /\ Put(done, b)
  /\ spilled' = spilled \cup (done \X ((cursor + 1)..(cursor + Len(b))))
  /\ pc' \in {"body", "idle"}
  /\ UNCHANGED <<annotations, meta, total, cursor, pending, given, opens>>
-----------------------------------------------------------------------------
(* __exit__: counts are checked, then growing arrays are trimmed or images   *)
(* padded, one array after the other.                                        *)

CountIsRight == cursor # 0 /\ (total # 0 => cursor = total)

(* Mutant: only the numeric arrays are trimmed.                              *)
NumericOnly == IF total = 0 THEN keys \ Image ELSE {}

ToFinish ==
  IF total = 0 THEN keys
  ELSE IF PaddedFrames(total) > total THEN keys \cap Image ELSE {}

Exit ==
  /\ pc = "body"
  /\ IF CountIsRight
     THEN pc' = "close" /\ pending' = ToFinish
     ELSE pc' = "idle" /\ UNCHANGED pending
  /\ UNCHANGED <<store, total, initialized, capacity, cursor, given, spilled, bounds>>

Trim(k) ==
  /\ total = 0
  /\ length' = [length EXCEPT ![k] = cursor]
  /\ UNCHANGED data

Pad(k) ==
  /\ total # 0
  /\ data' = [data EXCEPT ![k] = [i \in Index |->
                IF total < i /\ i <= PaddedFrames(total) THEN data[k][total] ELSE data[k][i]]]
  /\ UNCHANGED length

Finish(k) ==
  /\ pc = "close" /\ k \in pending
  /\ pending' = pending \ {k}
  /\ Trim(k) \/ Pad(k)
  /\ UNCHANGED <<keys, annotations, meta, pc, total, initialized, capacity, cursor, given,
                 spilled, bounds>>

(* Mutant: the array is created only if there are annotations.               *)
AnnotateIfAny ==
  /\ pc \in {"close", "bulk"} /\ pending = {}
  /\ annotations' \in {"missing", "full"}
  /\ pc' = "meta"
  /\ UNCHANGED <<keys, length, data, meta, handle, given, spilled, bounds>>

(* The annotations array is created also when there are no annotations.      *)
Annotate ==
  /\ pc \in {"close", "bulk"} /\ pending = {}
  /\ annotations' \in {"empty", "full"}
  /\ pc' = "meta"
  /\ UNCHANGED <<keys, length, data, meta, handle, given, spilled, bounds>>

(* The metadata comes last.                                                  *)
WriteMetadata ==
  /\ pc = "meta"
  /\ meta' = cursor
  /\ pc' = "idle"
  /\ UNCHANGED <<keys, length, data, annotations, handle, given, spilled, bounds>>

(* An error of the file system, an exception of the caller, a killed worker. *)
Die ==
  /\ pc # "idle" /\ faults < MaxFaults
  /\ faults' = faults + 1
  /\ pc' = "idle"
  /\ UNCHANGED <<store, handle, given, spilled, opens>>
-----------------------------------------------------------------------------
Begin ==
  \/ \E n \in 0..MaxFrames : Enter(n)
  \/ \E b \in Batch(MaxFrames) : Write(b)

Add ==
  \E b \in Batch(MaxBatch) :
    \/ AddFrames(b)
    \/ \E done \in SUBSET Given(b[1]) : AddRaises(b, done)

Close ==
  \/ Exit
  \/ \E k \in Key : WriteArray(k) \/ Finish(k)
  \/ Annotate
  \/ WriteMetadata

Next == Begin \/ Add \/ Close \/ Die

Spec == Init /\ [][Next]_vars
-----------------------------------------------------------------------------
TypeOK ==
  /\ keys \subseteq Key
  /\ length \in [Key -> Nat]
  /\ data \in [Key -> [Index -> Cell]]
  /\ annotations \in Annotations
  /\ meta \in 0..MaxFrames
  /\ pc \in PC
  /\ total \in 0..MaxFrames /\ initialized \in BOOLEAN
  /\ capacity \in Nat /\ cursor \in 0..MaxFrames
  /\ pending \subseteq Key
  /\ given \in Seq([Key -> Cell])
  /\ spilled \subseteq Key \X Nat
  /\ opens \in 0..MaxOpens /\ faults \in 0..MaxFaults

(* A store with metadata holds every frame that the calls took over, in      *)
(* order, and no store without all of them has metadata: whatever calls      *)
(* failed in between, wherever the process died, and although arrays grow,   *)
(* are trimmed and padded one by one (_IncrementalHandle, ZarrWriter.write). *)
Promise == Log!Spec

(* The arrays of a published episode have one length, which covers its       *)
(* frames, and is not longer than whole chunks (_ensure_capacity, the trim   *)
(* in __exit__, padded_frames).                                              *)
ArraysAligned ==
  meta # 0 => \A k \in keys : /\ meta <= length[k] /\ length[k] <= PaddedFrames(meta)
                              /\ \A l \in keys : length[k] = length[l]

(* A key that a frame left out reads as the fill value, never as a value of  *)
(* the episode that was at this path before or of another frame.  The one    *)
(* exception: a call that failed half-way wrote the cell, and the frame that *)
(* took its place did not (add_frame, the cursor after an exception).        *)
BlankExplained ==
  meta # 0 => \A i \in 1..meta, k \in keys :
    data[k][i] = 0 \/ k \in Given(given[i]) \/ <<k, i>> \in spilled
=============================================================================
