--------------------------- MODULE ConversionProofs ---------------------------
(* Theorems about Conversion, for every set of episodes and drivers, every   *)
(* number of launches, edits and Ray retries.                                *)
EXTENDS Conversion, TLAPS

(* The records the actions build are of their types.                         *)
LEMMA RecordTypes ==
  /\ NewRow \in Row /\ NoMode \in Mode
  /\ NotHeld \in [episode : Episode \cup {NoEpisode}, row : Row]
  /\ NoTask \in Task
  /\ \A size \in {"small", "big"} : Submitted(size) \in Task
<1>1. NewRow \in Row /\ NoMode \in Mode
  BY DEF NewRow, Row, Error, NoMode, Mode
<1>2. NotHeld \in [episode : Episode \cup {NoEpisode}, row : Row]
  BY <1>1 DEF NotHeld
<1>3. NoTask \in Task
  BY ConversionAssumption DEF ConversionAssumption, NoTask, Task, Stage, Result, Mp4
<1>4. \A size \in {"small", "big"} : Submitted(size) \in Task
  BY <1>3 DEF Submitted, Task, Stage
<1> QED BY <1>1, <1>2, <1>3, <1>4

LEMMA OutcomeType == \A row \in Row, t \in Task : Outcome(row, t) \in Row
<1> SUFFICES ASSUME NEW row \in Row, NEW t \in Task PROVE Outcome(row, t) \in Row
  OBVIOUS
<1>1. /\ (t.result = "frames") \in BOOLEAN
      /\ (IF t.result # "frames" THEN ""
          ELSE IF t.mp4 = "file" THEN "key" ELSE "None") \in {"", "key", "None"}
      /\ (CASE t.result = "frames" -> "" [] t.result = "-2" -> "Upload Failed"
            [] t.result = "-1" -> "Zero Frames"
            [] OTHER -> "Conversion Failed Unhandled Error") \in Error
  BY DEF Error
<1> QED BY <1>1 DEF Outcome, Row

LEMMA RowTypes ==
  ASSUME NEW row \in Row
  PROVE  /\ MarkedFailed(row) \in Row
         /\ [row EXCEPT !.is_deleted = TRUE] \in Row
         /\ Unprocessed(row) \in Row
<1>1. MarkedFailed(row) \in Row BY DEF MarkedFailed, Row, Error
<1>2. [row EXCEPT !.is_deleted = TRUE] \in Row BY DEF Row
<1>3. Unprocessed(row) \in Row BY DEF Unprocessed, Row, Error
<1> QED BY <1>1, <1>2, <1>3

LEMMA TypeInit == Init => TypeOK
<1> SUFFICES ASSUME Init PROVE TypeOK OBVIOUS
<1>1. PICK published \in SUBSET Episode :
        /\ sql = [e \in Episode |->
                    IF e \in published
                    THEN [NewRow EXCEPT !.zarr_processed_path = TRUE, !.zarr_mp4_path = "key"]
                    ELSE NewRow]
        /\ store = [e \in Episode |-> IF e \in published THEN Object ELSE {}]
        /\ video = published
  BY DEF Init
<1>2. sql \in [Episode -> Row]
  <2>1. [NewRow EXCEPT !.zarr_processed_path = TRUE, !.zarr_mp4_path = "key"] \in Row
    BY DEF NewRow, Row, Error
  <2> QED BY <1>1, <2>1, RecordTypes
<1>3. store \in [Episode -> SUBSET Object]
  BY <1>1
<1> QED BY <1>1, <1>2, <1>3, RecordTypes DEF Init, TypeOK

LEMMA TypeSetTask ==
  ASSUME TypeOK, NEW d \in Driver, NEW e \in Episode, NEW t \in Task
  PROVE  [task EXCEPT ![d][e] = t] \in [Driver -> [Episode -> Task]]
BY DEF TypeOK

(* A step of the driver keeps the types.                                     *)
LEMMA TypeDriver ==
  ASSUME TypeOK, NEW d \in Driver,
         \/ \E m \in LaunchModes, wanted \in SUBSET Bundles[d] : Launch(d, m, wanted)
         \/ DriverStep(d) \/ DriverCrash(d)
  PROVE  TypeOK'
<1> USE DEF TypeOK
<1>1. CASE \E m \in LaunchModes, wanted \in SUBSET Bundles[d] : Launch(d, m, wanted)
  BY <1>1, ConversionAssumption DEF ConversionAssumption, Launch, tables, bucket
<1>2. CASE Submitting(d)
  BY <1>2, RecordTypes, TypeSetTask DEF Submitting, SubmitConvert, tables, bucket
<1>3. CASE \E e \in Episode : RayWait(d, e)
  <2>1. PICK e \in Episode : RayWait(d, e) BY <1>3
  <2>2. /\ task' \in [Driver -> [Episode -> Task]] /\ orphaned' \subseteq Episode
        /\ held' \in [Driver -> [episode : Episode \cup {NoEpisode}, row : Row]]
    <3>1. CASE e \in rows
      <4>1. [episode |-> e, row |-> sql[e]] \in [episode : Episode \cup {NoEpisode}, row : Row]
        OBVIOUS
      <4>2. held' = [held EXCEPT ![d] = [episode |-> e, row |-> sql[e]]]
        BY <2>1, <3>1 DEF RayWait
      <4>3. held' \in [Driver -> [episode : Episode \cup {NoEpisode}, row : Row]]
        BY <4>1, <4>2
      <4>4. task' = task /\ orphaned' = orphaned BY <2>1, <3>1 DEF RayWait
      <4> QED BY <4>3, <4>4
    <3>2. CASE e \notin rows 
      <4>1. task' = [task EXCEPT ![d][e] = NoTask] /\ held' = held
        BY <2>1, <3>2 DEF RayWait
      <4>2. orphaned' = orphaned \cup {e} BY <2>1, <3>2 DEF RayWait
      <4> QED BY <4>1, <4>2, RecordTypes, TypeSetTask
    <3> QED BY <3>1, <3>2
  <2> QED BY <2>1, <2>2 DEF RayWait, tables, bucket
<1>4. CASE RecordResult(d)
  <2> DEFINE e == held[d].episode
  <2>1. e \in Episode /\ task[d][e] \in Task /\ held[d].row \in Row
    BY <1>4 DEF RecordResult
  <2>2. task' \in [Driver -> [Episode -> Task]] /\ sql' \in [Episode -> Row]
    BY <1>4, <2>1, RecordTypes, OutcomeType, TypeSetTask DEF RecordResult, Release, UpdateEpisode
  <2> QED BY <1>4, <2>1, <2>2, RecordTypes DEF RecordResult, Release, bucket
<1>5. CASE RetryOnBig(d)
  <2>1. held[d].episode \in Episode BY <1>5 DEF RetryOnBig
  <2> QED BY <1>5, <2>1, RecordTypes, TypeSetTask DEF RetryOnBig, tables, bucket
<1>6. CASE MarkFailed(d)
  <2> DEFINE e == held[d].episode
  <2>1. e \in Episode /\ held[d].row \in Row
    BY <1>6 DEF MarkFailed
  <2>2. task' \in [Driver -> [Episode -> Task]] /\ sql' \in [Episode -> Row]
    BY <1>6, <2>1, RecordTypes, RowTypes, TypeSetTask DEF MarkFailed, Release, UpdateEpisode
  <2> QED BY <1>6, <2>1, <2>2, RecordTypes DEF MarkFailed, Release, bucket
<1>7. CASE MarkFailedFails(d)
  <2>1. held[d].episode \in Episode BY <1>7 DEF MarkFailedFails
  <2> QED BY <1>7, <2>1, RecordTypes, TypeSetTask DEF MarkFailedFails, Release, tables, bucket
<1>8. CASE Return(d)
  BY <1>8, RecordTypes DEF Return, tables, bucket
<1>9. CASE DriverCrash(d)
  BY <1>9, RecordTypes DEF DriverCrash, InFlight, tables, bucket
<1> QED
  BY <1>1, <1>2, <1>3, <1>4, <1>5, <1>6, <1>7, <1>8, <1>9 DEF DriverStep, Collect

(* A step of a worker changes nothing but its task and the bucket.           *)
LEMMA TypeWorker ==
  ASSUME TypeOK, NEW d \in Driver, NEW e \in Episode, WorkerStep(d, e)
  PROVE  TypeOK'
<1> DEFINE t == task[d][e]
<1>1. t \in Task BY DEF TypeOK
<1>2. \A stage \in Stage : [t EXCEPT !.stage = stage] \in Task
  BY <1>1 DEF Task
<1>3. \A result \in Result : [Submitted(t.size) EXCEPT !.stage = "done", !.result = result] \in Task
  BY <1>1, RecordTypes DEF Task, Stage
<1> USE TypeSetTask DEF TypeOK, WorkerOnly, tables, driver, bucket
<1>4. CASE ConversionFails(d, e)
  BY <1>4, <1>3 DEF ConversionFails, Returns, SetTask, Result
<1>5. CASE ZarrJob(d, e)
  <2>1. PICK r \in {"frames", "0", "-1"}, mp4 \in Mp4 :
          SetTask(d, e, [t EXCEPT !.stage = "cleanup", !.result = r, !.mp4 = mp4])
    BY <1>5, "file" \in Mp4 DEF ZarrJob, Mp4
  <2>2. [t EXCEPT !.stage = "cleanup", !.result = r, !.mp4 = mp4] \in Task
    BY <1>1 DEF Task, Stage, Result
  <2>3. task' \in [Driver -> [Episode -> Task]]
    BY <2>1, <2>2 DEF SetTask
  <2> QED BY <1>5, <2>3 DEF ZarrJob
<1>6. CASE DeleteS3Prefix(d, e)
  <2>1. PICK left \in SUBSET store[e] :
          /\ store' = [store EXCEPT ![e] = left]
          /\ IF left # {} THEN UNCHANGED task
             ELSE Advance(d, e, IF t.mp4 = "None" THEN "upload zarr.json" ELSE "cleanup mp4")
    BY <1>6 DEF DeleteS3Prefix
  <2>2. store' \in [Episode -> SUBSET Object] BY <2>1
  <2>3. task' \in [Driver -> [Episode -> Task]]
    <3>1. CASE left # {} BY <2>1, <3>1
    <3>2. CASE left = {}
      <4> DEFINE stage == IF t.mp4 = "None" THEN "upload zarr.json" ELSE "cleanup mp4"
      <4>1. [t EXCEPT !.stage = stage] \in Task BY <1>2 DEF Stage
      <4>2. SetTask(d, e, [t EXCEPT !.stage = stage]) BY <2>1, <3>2 DEF Advance
      <4> QED BY <4>1, <4>2 DEF SetTask
    <3> QED BY <3>1, <3>2
  <2> QED BY <1>6, <2>2, <2>3 DEF DeleteS3Prefix
<1>7. CASE DeleteS3Key(d, e)
  BY <1>7, <1>2 DEF DeleteS3Key, Advance, SetTask, Stage
<1>8. CASE UploadZarrJson(d, e)
  BY <1>8, <1>2 DEF UploadZarrJson, Advance, SetTask, Stage, Object
<1>9. CASE UploadChunks(d, e)
  BY <1>9, <1>2 DEF UploadChunks, Advance, SetTask, Stage, Object
<1>10. CASE UploadMp4(d, e)
  BY <1>10, <1>2 DEF UploadMp4, Advance, SetTask, Stage
<1>11. CASE UploadFails(d, e)
  BY <1>11, <1>3 DEF UploadFails, Returns, SetTask, Result
<1>12. CASE WorkerDies(d, e)
  <2>1. ASSUME t.tries < RayRetries
        PROVE  [Submitted(t.size) EXCEPT !.tries = t.tries + 1] \in Task
    <3>1. t.size \in {"small", "big"} /\ t.tries + 1 \in 0..RayRetries
      BY <1>1, <2>1, ConversionAssumption DEF ConversionAssumption, Task
    <3>2. Submitted(t.size) \in Task BY <3>1, RecordTypes
    <3> QED BY <3>1, <3>2 DEF Task
  <2>2. task' \in [Driver -> [Episode -> Task]]
    <3>1. CASE /\ t.tries < RayRetries
               /\ SetTask(d, e, [Submitted(t.size) EXCEPT !.tries = t.tries + 1])
      BY <3>1, <2>1 DEF SetTask
    <3>2. CASE \E raised \in {"oom", "crash"} : Returns(d, e, raised)
      <4>1. PICK raised \in Result : Returns(d, e, raised) BY <3>2 DEF Result
      <4> QED BY <4>1, <1>3 DEF Returns, SetTask
    <3> QED BY <1>12, <3>1, <3>2 DEF WorkerDies
  <2> QED BY <1>12, <2>2 DEF WorkerDies
<1> QED
  BY <1>4, <1>5, <1>6, <1>7, <1>8, <1>9, <1>10, <1>11, <1>12 DEF WorkerStep

LEMMA TypeOperator ==
  ASSUME TypeOK, OperatorStep
  PROVE  TypeOK'
<1> USE DEF TypeOK, Edit, driver, bucket
<1>1. PICK e \in Episode : \/ ResetProcessedPath(e) \/ MarkDeleted(e)
                           \/ DeleteEpisodes(e) \/ AddEpisode(e)
  BY DEF OperatorStep
<1>2. CASE ResetProcessedPath(e)
  <2>1. Unprocessed(sql[e]) \in Row BY RowTypes
  <2>2. sql' = [sql EXCEPT ![e] = Unprocessed(sql[e])] BY <1>2 DEF ResetProcessedPath
  <2>3. sql' \in [Episode -> Row] BY <2>1, <2>2
  <2> QED BY <1>2, <2>3 DEF ResetProcessedPath
<1>3. CASE MarkDeleted(e)
  <2>1. [sql[e] EXCEPT !.is_deleted = TRUE] \in Row BY RowTypes
  <2>2. sql' = [sql EXCEPT ![e] = [sql[e] EXCEPT !.is_deleted = TRUE]]
    BY <1>3 DEF MarkDeleted
  <2> QED BY <1>3, <2>1, <2>2 DEF MarkDeleted
<1>4. CASE DeleteEpisodes(e)
  <2>1. sql' \in [Episode -> Row] BY <1>4, RecordTypes DEF DeleteEpisodes
  <2> QED BY <1>4, <2>1 DEF DeleteEpisodes
<1>5. CASE AddEpisode(e)
  BY <1>5 DEF AddEpisode
<1> QED BY <1>1, <1>2, <1>3, <1>4, <1>5

LEMMA TypeNext == TypeOK /\ [Next]_vars => TypeOK'
<1> SUFFICES ASSUME TypeOK, [Next]_vars PROVE TypeOK' OBVIOUS
<1>1. CASE UNCHANGED vars
  BY <1>1 DEF TypeOK, vars, tables, bucket, driver
<1>2. CASE Next
  BY <1>2, TypeDriver, TypeWorker, TypeOperator DEF Next
<1> QED BY <1>1, <1>2

(* The rows, the bucket, the drivers and their tasks keep their types.       *)
THEOREM TypeCorrect == Spec => []TypeOK
BY TypeInit, TypeNext, PTL DEF Spec
-----------------------------------------------------------------------------
(* What holds of the tasks whatever the command lines: a task that exists is *)
(* in flight with one driver, and one that reports frames has uploaded the   *)
(* whole store.                                                              *)
TaskInv == TypeOK /\ Bookkeeping /\ UploadsWhole

(* UploadsWhole at one task. *)
WholeOnce(c, f) ==
  /\ task[c][f].stage = "upload chunks" => "zarr.json" \in store[f]
  /\ \/ task[c][f].stage = "upload mp4"
     \/ task[c][f].stage = "done" /\ task[c][f].result = "frames"
     => store[f] = Object

LEMMA WholeUpload == UploadsWhole <=> \A c \in Driver, f \in Episode : WholeOnce(c, f)
  BY DEF UploadsWhole, WholeOnce, Complete

LEMMA TaskInit == Init => TaskInv
<1> SUFFICES ASSUME Init PROVE TaskInv OBVIOUS
<1>1. Bookkeeping
  BY DEF Init, Bookkeeping, InFlight, NotHeld, NoTask
<1>2. UploadsWhole
  BY DEF Init, UploadsWhole, NoTask
<1> QED BY <1>1, <1>2, TypeInit DEF TaskInv

(* A worker's step changes its own task and the objects of its own episode,  *)
(* and reports frames only after the last chunk.                             *)
LEMMA WorkerFrame ==
  ASSUME TypeOK, UploadsWhole, NEW d \in Driver, NEW e \in Episode, WorkerStep(d, e)
  PROVE  /\ task[d][e].stage \notin {"none", "done"}
         /\ WorkerOnly
         /\ \A f \in Episode \ {e} : store'[f] = store[f]
         /\ \E t : /\ task' = [task EXCEPT ![d][e] = t]
                   /\ t.stage = "upload chunks" => "zarr.json" \in store'[e]
                   /\ t.stage = "upload mp4" \/ (t.stage = "done" /\ t.result = "frames")
                        => store'[e] = Object
<1> DEFINE t0 == task[d][e]
<1>0. t0 \in Task /\ store[e] \subseteq Object BY DEF TypeOK
<1>1. CASE ConversionFails(d, e)
  <2> DEFINE t == [Submitted(t0.size) EXCEPT !.stage = "done", !.result = "-1"]
  <2>1. t.stage = "done" /\ t.result = "-1" BY DEF Submitted, NoTask
  <2>2. task' = [task EXCEPT ![d][e] = t] BY <1>1 DEF ConversionFails, Returns, SetTask
  <2> QED BY <1>1, <2>1, <2>2 DEF ConversionFails, bucket
<1>2. CASE ZarrJob(d, e)
  <2>1. PICK r \in {"frames", "0", "-1"}, mp4 \in Mp4 :
          SetTask(d, e, [t0 EXCEPT !.stage = "cleanup", !.result = r, !.mp4 = mp4])
    BY <1>2, "file" \in Mp4 DEF ZarrJob, Mp4
  <2> DEFINE t == [t0 EXCEPT !.stage = "cleanup", !.result = r, !.mp4 = mp4]
  <2>2. t.stage = "cleanup" BY <1>0 DEF Task
  <2> HIDE DEF t
  <2> QED BY <1>2, <2>1, <2>2 DEF ZarrJob, SetTask, bucket, t
<1>3. CASE DeleteS3Prefix(d, e)
  <2>1. PICK left \in SUBSET store[e] :
          /\ store' = [store EXCEPT ![e] = left]
          /\ IF left # {} THEN UNCHANGED task
             ELSE Advance(d, e, IF t0.mp4 = "None" THEN "upload zarr.json" ELSE "cleanup mp4")
    BY <1>3 DEF DeleteS3Prefix
  <2>2. \E t : /\ task' = [task EXCEPT ![d][e] = t]
               /\ t.stage \in {"cleanup", "cleanup mp4", "upload zarr.json"}
    <3>1. CASE left # {}
      <4>1. task = [task EXCEPT ![d][e] = t0] BY DEF TypeOK
      <4> QED BY <1>3, <2>1, <3>1, <4>1 DEF DeleteS3Prefix
    <3>2. CASE left = {}
      <4> DEFINE stage == IF t0.mp4 = "None" THEN "upload zarr.json" ELSE "cleanup mp4"
      <4>1. task' = [task EXCEPT ![d][e] = [t0 EXCEPT !.stage = stage]]
        BY <2>1, <3>2 DEF Advance, SetTask
      <4>2. [t0 EXCEPT !.stage = stage].stage = stage BY <1>0 DEF Task
      <4>3. stage \in {"cleanup mp4", "upload zarr.json"} OBVIOUS
      <4> HIDE DEF stage
      <4> QED BY <4>1, <4>2, <4>3
    <3> QED BY <3>1, <3>2
  <2>3. \A f \in Episode \ {e} : store'[f] = store[f] BY <2>1 DEF TypeOK
  <2> QED BY <1>3, <2>2, <2>3 DEF DeleteS3Prefix
<1>4. CASE DeleteS3Key(d, e)
  <2> DEFINE t == [t0 EXCEPT !.stage = "upload zarr.json"]
  <2>1. t.stage = "upload zarr.json" BY <1>0 DEF Task
  <2>2. task' = [task EXCEPT ![d][e] = t] BY <1>4 DEF DeleteS3Key, Advance, SetTask
  <2> QED BY <1>4, <2>1, <2>2 DEF DeleteS3Key
<1>5. CASE UploadZarrJson(d, e)
  <2> DEFINE t == [t0 EXCEPT !.stage = "upload chunks"]
  <2>1. t.stage = "upload chunks" BY <1>0 DEF Task
  <2>2. task' = [task EXCEPT ![d][e] = t] BY <1>5 DEF UploadZarrJson, Advance, SetTask
  <2>3. /\ "zarr.json" \in store'[e]
        /\ \A f \in Episode \ {e} : store'[f] = store[f]
    BY <1>5 DEF UploadZarrJson, TypeOK
  <2> QED BY <1>5, <2>1, <2>2, <2>3 DEF UploadZarrJson
<1>6. CASE UploadChunks(d, e)
  <2> DEFINE t == [t0 EXCEPT !.stage = IF t0.mp4 = "None" THEN "done" ELSE "upload mp4"]
  <2>1. t.stage # "upload chunks" BY <1>0 DEF Task
  <2>2. task' = [task EXCEPT ![d][e] = t] BY <1>6 DEF UploadChunks, Advance, SetTask
  <2>3. "zarr.json" \in store[e] BY <1>6 DEF UploadChunks, UploadsWhole
  <2>4. /\ store'[e] = Object
        /\ \A f \in Episode \ {e} : store'[f] = store[f]
    <3>1. store' = [store EXCEPT ![e] = store[e] \cup {"chunks"}] BY <1>6 DEF UploadChunks
    <3>2. store[e] \cup {"chunks"} = Object BY <1>0, <2>3 DEF Object
    <3> QED BY <3>1, <3>2 DEF TypeOK
  <2> HIDE DEF t
  <2> QED BY <1>6, <2>1, <2>2, <2>4 DEF UploadChunks
<1>7. CASE UploadMp4(d, e)
  <2> DEFINE t == [t0 EXCEPT !.stage = "done"]
  <2>1. t.stage = "done" BY <1>0 DEF Task
  <2>2. task' = [task EXCEPT ![d][e] = t] BY <1>7 DEF UploadMp4, Advance, SetTask
  <2>3. store[e] = Object BY <1>7 DEF UploadMp4, UploadsWhole, Complete
  <2> QED BY <1>7, <2>1, <2>2, <2>3 DEF UploadMp4
<1>8. CASE UploadFails(d, e)
  <2> DEFINE t == [Submitted(t0.size) EXCEPT !.stage = "done", !.result = "-2"]
  <2>1. t.stage = "done" /\ t.result = "-2" BY DEF Submitted, NoTask
  <2>2. task' = [task EXCEPT ![d][e] = t] BY <1>8 DEF UploadFails, Returns, SetTask
  <2> QED BY <1>8, <2>1, <2>2 DEF UploadFails, bucket
<1>9. CASE WorkerDies(d, e)
  <2>1. CASE SetTask(d, e, [Submitted(t0.size) EXCEPT !.tries = t0.tries + 1])
    <3> DEFINE t == [Submitted(t0.size) EXCEPT !.tries = t0.tries + 1]
    <3>1. t.stage = "queued" BY DEF Submitted, NoTask
    <3>2. task' = [task EXCEPT ![d][e] = t] BY <2>1 DEF SetTask
    <3> QED BY <1>9, <3>1, <3>2 DEF WorkerDies, bucket
  <2>2. CASE \E raised \in {"oom", "crash"} : Returns(d, e, raised)
    <3>1. PICK raised \in {"oom", "crash"} : Returns(d, e, raised) BY <2>2
    <3> DEFINE t == [Submitted(t0.size) EXCEPT !.stage = "done", !.result = raised]
    <3>2. t.stage = "done" /\ t.result # "frames" BY DEF Submitted, NoTask
    <3>3. task' = [task EXCEPT ![d][e] = t] BY <3>1 DEF Returns, SetTask
    <3> QED BY <1>9, <3>2, <3>3 DEF WorkerDies, bucket
  <2> QED BY <1>9, <2>1, <2>2 DEF WorkerDies
<1> QED
  BY <1>1, <1>2, <1>3, <1>4, <1>5, <1>6, <1>7, <1>8, <1>9 DEF WorkerStep

(* A worker's step keeps it: no other driver converts the worker's episode.  *)
LEMMA TaskWorker ==
  ASSUME TaskInv, NEW d \in Driver, NEW e \in Episode, WorkerStep(d, e)
  PROVE  TaskInv'
<1> USE DEF TaskInv
<1>1. PICK t : /\ task' = [task EXCEPT ![d][e] = t]
               /\ t.stage = "upload chunks" => "zarr.json" \in store'[e]
               /\ t.stage = "upload mp4" \/ (t.stage = "done" /\ t.result = "frames")
                    => store'[e] = Object
  BY WorkerFrame
<1>2. /\ task[d][e].stage \notin {"none", "done"}
      /\ \A f \in Episode \ {e} : store'[f] = store[f]
      /\ WorkerOnly
  BY WorkerFrame
<1>3. e \in InFlight(d) /\ e \in Bundles[d]
  BY <1>2 DEF Bookkeeping
<1>4. \A c \in Driver \ {d} : task[c][e].stage = "none"
  BY <1>3, ConversionAssumption DEF Bookkeeping, ConversionAssumption
<1>5. \A c \in Driver, f \in Episode : <<c, f>> # <<d, e>> => task'[c][f] = task[c][f]
  BY <1>1 DEF TypeOK
<1>6. task'[d][e] = t BY <1>1 DEF TypeOK
<1>7. /\ rows' = rows /\ sql' = sql /\ pc' = pc /\ todo' = todo
      /\ pending' = pending /\ held' = held
      /\ \A c \in Driver : InFlight(c)' = InFlight(c)
  BY <1>2 DEF WorkerOnly, tables, driver, InFlight
<1>8. Bookkeeping'
  <2> SUFFICES ASSUME NEW c \in Driver
      PROVE /\ pc[c] = "idle" => todo[c] = {} /\ pending[c] = {} /\ held[c].episode = NoEpisode
            /\ todo[c] \cap InFlight(c) = {} /\ held[c].episode \notin pending[c]
            /\ todo[c] \cup InFlight(c) \subseteq Bundles[c]
            /\ \A f \in Episode : task'[c][f].stage # "none" => f \in InFlight(c)
            /\ held[c].episode # NoEpisode => task'[c][held[c].episode].stage = "done"
    BY <1>7 DEF Bookkeeping
  <2>1. ASSUME NEW f \in Episode, task'[c][f].stage # "none" PROVE f \in InFlight(c)
    BY <1>3, <1>5, <2>1 DEF Bookkeeping
  <2>2. held[c].episode # NoEpisode => <<c, held[c].episode>> # <<d, e>>
    BY <1>2 DEF Bookkeeping
  <2>3. held[c].episode # NoEpisode => held[c].episode \in Episode
    BY DEF TypeOK
  <2> QED BY <1>5, <2>1, <2>2, <2>3 DEF Bookkeeping
<1>9. UploadsWhole'
  <2> SUFFICES ASSUME NEW c \in Driver, NEW f \in Episode
      PROVE /\ task'[c][f].stage = "upload chunks" => "zarr.json" \in store'[f]
            /\ \/ task'[c][f].stage = "upload mp4"
               \/ task'[c][f].stage = "done" /\ task'[c][f].result = "frames"
               => store'[f] = Object
    BY DEF UploadsWhole, Complete
  <2>1. CASE c = d /\ f = e BY <1>1, <1>6, <2>1
  <2>2. CASE c # d /\ f = e BY <1>4, <1>5, <2>2
  <2>3. CASE f # e
    <3>1. store'[f] = store[f] /\ task'[c][f] = task[c][f] BY <1>2, <1>5, <2>3
    <3>2. WholeOnce(c, f) BY WholeUpload
    <3> QED BY <3>1, <3>2 DEF WholeOnce
  <2> QED BY <2>1, <2>2, <2>3
<1> QED BY <1>8, <1>9, TypeWorker

(* A driver that lets go of the row it holds keeps it.                       *)
LEMMA TaskRelease ==
  ASSUME TaskInv, NEW d \in Driver, NEW e \in Episode, e = held[d].episode,
         Release(d, e), UNCHANGED <<pc, todo, pending, store>>
  PROVE  /\ Bookkeeping' /\ UploadsWhole'
         /\ InFlight(d)' = InFlight(d) \ {e} /\ held'[d].episode = NoEpisode
         /\ \A c \in Driver \ {d} : InFlight(c)' = InFlight(c) /\ held'[c] = held[c]
<1> USE DEF TaskInv
<1>1. /\ held' = [held EXCEPT ![d] = NotHeld] /\ NotHeld.episode = NoEpisode
      /\ task' = [task EXCEPT ![d][e] = NoTask] /\ NoTask.stage = "none"
  BY DEF Release, NotHeld, NoTask
<1>2. NoEpisode \notin Episode /\ \A c \in Driver \ {d} : Bundles[c] \cap Bundles[d] = {}
  BY ConversionAssumption DEF ConversionAssumption
<1>3. /\ InFlight(d)' = InFlight(d) \ {e} /\ InFlight(d)' = pending[d]
      /\ \A c \in Driver \ {d} : InFlight(c)' = InFlight(c)
  BY <1>1, <1>2 DEF InFlight, TypeOK, Bookkeeping
<1>4. /\ task'[d][e].stage = "none"
      /\ \A c \in Driver, f \in Episode : <<c, f>> # <<d, e>> => task'[c][f] = task[c][f]
  BY <1>1 DEF TypeOK
<1>5. /\ e \in InFlight(d) /\ e \in Bundles[d] /\ e \notin todo[d]
      /\ \A c \in Driver \ {d} : e \notin todo[c] \cup InFlight(c)
  BY <1>2 DEF InFlight, Bookkeeping
<1>6. \A c \in Driver : /\ held[c].episode # NoEpisode => held[c].episode \in Episode
                        /\ todo[c] \cup InFlight(c) \subseteq Episode
  BY DEF TypeOK, InFlight
<1>7. Bookkeeping'
  <2> SUFFICES ASSUME NEW c \in Driver
      PROVE /\ pc[c] = "idle" => todo[c] = {} /\ pending[c] = {} /\ held'[c].episode = NoEpisode
            /\ todo[c] \cap InFlight(c)' = {} /\ held'[c].episode \notin pending[c]
            /\ todo[c] \cup InFlight(c)' \subseteq Bundles[c]
            /\ \A f \in Episode : task'[c][f].stage # "none" => f \in InFlight(c)'
            /\ held'[c].episode # NoEpisode => task'[c][held'[c].episode].stage = "done"
    BY DEF Bookkeeping
  <2>1. CASE c = d
    <3>1. held'[d] = NotHeld /\ NoEpisode \notin pending[d] BY <1>1, <1>2 DEF TypeOK
    <3> QED BY <1>1, <1>3, <1>4, <2>1, <3>1 DEF Bookkeeping
  <2>2. CASE c # d
    <3>1. held'[c] = held[c] BY <1>1, <2>2 DEF TypeOK
    <3> QED BY <1>3, <1>4, <1>6, <2>2, <3>1 DEF Bookkeeping
  <2> QED BY <2>1, <2>2
<1>8. UploadsWhole'
  <2> SUFFICES ASSUME NEW c \in Driver, NEW f \in Episode
      PROVE /\ task'[c][f].stage = "upload chunks" => "zarr.json" \in store[f]
            /\ \/ task'[c][f].stage = "upload mp4"
               \/ task'[c][f].stage = "done" /\ task'[c][f].result = "frames"
               => store[f] = Object
    BY DEF UploadsWhole, Complete
  <2>1. CASE <<c, f>> = <<d, e>> BY <1>4, <2>1
  <2>2. CASE <<c, f>> # <<d, e>>
    <3>1. task'[c][f] = task[c][f] BY <1>4, <2>2
    <3> QED BY <3>1 DEF UploadsWhole, Complete
  <2> QED BY <2>1, <2>2
<1>9. held'[d].episode = NoEpisode /\ \A c \in Driver \ {d} : held'[c] = held[c]
  BY <1>1 DEF TypeOK
<1> QED BY <1>3, <1>7, <1>8, <1>9

(* So does a driver whose process ends, of its own or by a crash.            *)
LEMMA TaskStop ==
  ASSUME TaskInv, NEW d \in Driver,
         UNCHANGED store,
         todo'[d] = {}, pending'[d] = {}, held'[d].episode = NoEpisode,
         \A e \in Episode : task'[d][e] = NoTask,
         \A c \in Driver \ {d} :
           /\ todo'[c] = todo[c] /\ pending'[c] = pending[c] /\ held'[c] = held[c]
           /\ pc'[c] = pc[c] /\ task'[c] = task[c]
  PROVE  /\ Bookkeeping' /\ UploadsWhole'
         /\ InFlight(d)' = {} /\ \A c \in Driver \ {d} : InFlight(c)' = InFlight(c)
<1> USE DEF TaskInv
<1>1. NoTask.stage = "none" /\ NoEpisode \notin Episode
  BY ConversionAssumption DEF NoTask, ConversionAssumption
<1>2. InFlight(d)' = {} /\ \A c \in Driver \ {d} : InFlight(c)' = InFlight(c)
  BY DEF InFlight
<1>3. Bookkeeping'
  <2> SUFFICES ASSUME NEW c \in Driver
      PROVE /\ pc'[c] = "idle" => todo'[c] = {} /\ pending'[c] = {} /\ held'[c].episode = NoEpisode
            /\ todo'[c] \cap InFlight(c)' = {} /\ held'[c].episode \notin pending'[c]
            /\ todo'[c] \cup InFlight(c)' \subseteq Bundles[c]
            /\ \A f \in Episode : task'[c][f].stage # "none" => f \in InFlight(c)'
            /\ held'[c].episode # NoEpisode => task'[c][held'[c].episode].stage = "done"
    BY DEF Bookkeeping
  <2>1. CASE c = d BY <1>1, <1>2, <2>1
  <2>2. CASE c # d BY <1>2, <2>2 DEF Bookkeeping
  <2> QED BY <2>1, <2>2
<1>4. UploadsWhole'
  <2> SUFFICES ASSUME NEW c \in Driver, NEW f \in Episode
      PROVE /\ task'[c][f].stage = "upload chunks" => "zarr.json" \in store[f]
            /\ \/ task'[c][f].stage = "upload mp4"
               \/ task'[c][f].stage = "done" /\ task'[c][f].result = "frames"
               => store[f] = Object
    BY DEF UploadsWhole, Complete
  <2>1. CASE c = d BY <1>1, <2>1
  <2>2. CASE c # d
    <3>1. task'[c][f] = task[c][f] BY <2>2
    <3>2. WholeOnce(c, f) BY WholeUpload
    <3> QED BY <3>1, <3>2 DEF WholeOnce
  <2> QED BY <2>1, <2>2
<1> QED BY <1>2, <1>3, <1>4

LEMMA TaskLaunch ==
  ASSUME TaskInv, NEW d \in Driver, NEW m \in LaunchModes, NEW wanted \in SUBSET Bundles[d],
         Launch(d, m, wanted)
  PROVE  /\ Bookkeeping' /\ UploadsWhole'
         /\ InFlight(d) = {} /\ \A c \in Driver : InFlight(c)' = InFlight(c)
<1> USE DEF TaskInv
<1>1. /\ todo' = [todo EXCEPT ![d] = {e \in wanted \cap rows : Eligible(sql[e], m)}]
      /\ pc' = [pc EXCEPT ![d] = "running"]
      /\ store' = store /\ task' = task /\ held' = held /\ pending' = pending
      /\ pc[d] = "idle"
  BY DEF Launch, bucket
<1>2. InFlight(d) = {}
  BY <1>1 DEF Bookkeeping, InFlight, NotHeld
<1>3. \A e \in todo'[d] : e \in Bundles[d]
  BY <1>1 DEF TypeOK
<1>4. \A c \in Driver : InFlight(c)' = InFlight(c) BY <1>1 DEF InFlight
<1>5. Bookkeeping' BY <1>1, <1>2, <1>3, <1>4 DEF Bookkeeping, TypeOK
<1>6. UploadsWhole' BY <1>1 DEF UploadsWhole, Complete
<1> QED BY <1>2, <1>4, <1>5, <1>6

(* What a running driver does to the rows and to the other drivers: it       *)
(* writes the row that it holds, with the deletion mark that it read and a   *)
(* path only for a whole store, or it writes none, and then what it drops is *)
(* an orphan or has no row.                                                  *)
Writes(d) ==
  LET e == held[d].episode IN
  /\ e \in rows /\ e \in InFlight(d)
  /\ orphaned' = orphaned \ {e} /\ InFlight(d)' = InFlight(d) \ {e}
  /\ \E row \in Row : /\ sql' = [sql EXCEPT ![e] = row]
                      /\ row.is_deleted = held[d].row.is_deleted
                      /\ row.zarr_processed_path => Complete(e)

Keeps(d) ==
  /\ sql' = sql /\ orphaned \subseteq orphaned'
  /\ \A e \in InFlight(d) \ InFlight(d)' : e \in orphaned' \/ e \notin rows

Holds(d) ==
  \/ held'[d] = held[d] \/ held'[d].episode = NoEpisode
  \/ \E e \in rows : held'[d] = [episode |-> e, row |-> sql[e]]

Moves(d) ==
  /\ UNCHANGED <<rows, store, marked>>
  /\ todo'[d] \subseteq todo[d]
  /\ todo'[d] \cup InFlight(d)' \subseteq todo[d] \cup InFlight(d)
  /\ \A c \in Driver \ {d} :
       todo'[c] = todo[c] /\ InFlight(c)' = InFlight(c) /\ held'[c] = held[c]
  /\ Writes(d) \/ Keeps(d)
  /\ Holds(d)

(* The driver writes the row that it holds, if the row still exists.         *)
LEMMA RecordMoves ==
  ASSUME TaskInv, NEW d \in Driver, NEW e \in Episode, e = held[d].episode,
         NEW row \in Row, row.is_deleted = held[d].row.is_deleted,
         row.zarr_processed_path => Complete(e),
         Release(d, e), UpdateEpisode(e, row),
         orphaned' = IF e \in rows THEN orphaned \ {e} ELSE orphaned,
         UNCHANGED <<pc, todo, pending, store, rows, marked>>
  PROVE  Bookkeeping' /\ UploadsWhole' /\ Moves(d)
<1>1. /\ Bookkeeping' /\ UploadsWhole'
      /\ InFlight(d)' = InFlight(d) \ {e} /\ held'[d].episode = NoEpisode
      /\ \A c \in Driver \ {d} : InFlight(c)' = InFlight(c) /\ held'[c] = held[c]
  BY TaskRelease
<1>2. e \in InFlight(d) BY ConversionAssumption DEF InFlight, ConversionAssumption
<1>3. CASE e \in rows
  <2>1. sql' = [sql EXCEPT ![e] = row] BY <1>3 DEF UpdateEpisode
  <2>2. orphaned' = orphaned \ {e} BY <1>3
  <2>3. Writes(d) BY <1>1, <1>2, <1>3, <2>1, <2>2 DEF Writes
  <2> QED BY <1>1, <2>3 DEF Moves, Holds
<1>4. CASE e \notin rows
  <2>1. Keeps(d) BY <1>1, <1>4 DEF Keeps, UpdateEpisode
  <2> QED BY <1>1, <2>1 DEF Moves, Holds
<1> QED BY <1>3, <1>4

LEMMA TaskDriver ==
  ASSUME TaskInv, NEW d \in Driver, DriverStep(d) \/ DriverCrash(d)
  PROVE  Bookkeeping' /\ UploadsWhole' /\ Moves(d)
<1> USE DEF TaskInv
<1>0. /\ held[d].episode \in Episode \cup {NoEpisode} /\ NoEpisode \notin Episode
      /\ \A c \in Driver : InFlight(c) \subseteq Episode /\ todo[c] \subseteq Episode
      /\ \A c \in Driver \ {d} : Bundles[c] \cap Bundles[d] = {}
  BY ConversionAssumption DEF ConversionAssumption, TypeOK, InFlight
<1>1. CASE Submitting(d)
  <2>1. PICK e \in Episode : SubmitConvert(d, e) BY <1>1 DEF Submitting
  <2>2. /\ e \in todo[d]
        /\ todo' = [todo EXCEPT ![d] = todo[d] \ {e}]
        /\ pending' = [pending EXCEPT ![d] = pending[d] \cup {e}]
        /\ task' = [task EXCEPT ![d][e] = Submitted("small")]
        /\ rows' = rows /\ sql' = sql /\ store' = store /\ held' = held /\ pc' = pc
        /\ orphaned' = orphaned /\ marked' = marked
    BY <2>1 DEF SubmitConvert, tables, bucket
  <2>3. Submitted("small").stage = "queued" BY DEF Submitted, NoTask
  <2>4. /\ InFlight(d)' = InFlight(d) \cup {e}
        /\ \A c \in Driver \ {d} : InFlight(c)' = InFlight(c)
    BY <2>2 DEF InFlight, TypeOK
  <2>5. /\ task'[d][e].stage = "queued"
        /\ \A c \in Driver, f \in Episode : <<c, f>> # <<d, e>> => task'[c][f] = task[c][f]
    BY <2>2, <2>3 DEF TypeOK
  <2>6. held[d].episode # e BY <1>0, <2>2 DEF Bookkeeping, InFlight
  <2>7. Bookkeeping'
    <3> SUFFICES ASSUME NEW c \in Driver
        PROVE /\ pc[c] = "idle" => todo'[c] = {} /\ pending'[c] = {} /\ held[c].episode = NoEpisode
              /\ todo'[c] \cap InFlight(c)' = {} /\ held[c].episode \notin pending'[c]
              /\ todo'[c] \cup InFlight(c)' \subseteq Bundles[c]
              /\ \A f \in Episode : task'[c][f].stage # "none" => f \in InFlight(c)'
              /\ held[c].episode # NoEpisode => task'[c][held[c].episode].stage = "done"
      BY <2>2 DEF Bookkeeping
    <3>1. CASE c = d
      <4>1. pc[d] # "idle" BY <2>2 DEF Bookkeeping
      <4>2. held[d].episode # NoEpisode => held[d].episode \in Episode BY <1>0
      <4> QED BY <2>2, <2>4, <2>5, <2>6, <3>1, <4>1, <4>2 DEF Bookkeeping, TypeOK
    <3>2. CASE c # d
      <4>1. held[c].episode # NoEpisode => held[c].episode \in Episode BY DEF TypeOK
      <4> QED BY <2>2, <2>4, <2>5, <3>2, <4>1 DEF Bookkeeping, TypeOK
    <3> QED BY <3>1, <3>2
  <2>8. UploadsWhole'
    <3> SUFFICES ASSUME NEW c \in Driver, NEW f \in Episode PROVE WholeOnce(c, f)'
      BY DEF UploadsWhole, WholeOnce, Complete
    <3>1. CASE c = d /\ f = e BY <2>5, <3>1 DEF WholeOnce
    <3>2. CASE <<c, f>> # <<d, e>>
      <4>1. task'[c][f] = task[c][f] BY <2>5, <3>2
      <4>2. WholeOnce(c, f) BY WholeUpload
      <4> QED BY <2>2, <4>1, <4>2 DEF WholeOnce
    <3> QED BY <3>1, <3>2
  <2>9. Moves(d)
    <3>1. /\ todo'[d] = todo[d] \ {e}
          /\ \A c \in Driver \ {d} : todo'[c] = todo[c]
      BY <2>2 DEF TypeOK
    <3> QED BY <2>2, <2>4, <3>1 DEF Moves, Keeps, Holds
  <2> QED BY <2>7, <2>8, <2>9
<1>2. CASE \E e \in Episode : RayWait(d, e)
  <2>1. PICK e \in Episode : RayWait(d, e) BY <1>2
  <2>2. /\ e \in pending[d] /\ task[d][e].stage = "done" /\ held[d].episode = NoEpisode
        /\ pending' = [pending EXCEPT ![d] = pending[d] \ {e}]
        /\ pc[d] = "running"
        /\ rows' = rows /\ sql' = sql /\ store' = store /\ todo' = todo /\ pc' = pc
        /\ marked' = marked
    BY <2>1 DEF RayWait, Collecting, tables, bucket
  <2>3. \A c \in Driver : held[c].episode # NoEpisode => held[c].episode \in Episode
    BY DEF TypeOK
  <2>4. CASE e \in rows
    <3> DEFINE h == [episode |-> e, row |-> sql[e]]
    <3>1. /\ held' = [held EXCEPT ![d] = h] /\ task' = task /\ orphaned' = orphaned
          /\ h.episode = e
      BY <2>1, <2>4 DEF RayWait
    <3>2. held'[d] = h BY <3>1 DEF TypeOK
    <3>3. \E f \in rows : held'[d] = [episode |-> f, row |-> sql[f]] BY <2>4, <3>2
    <3> HIDE DEF h
    <3>4. \A c \in Driver : InFlight(c)' = InFlight(c)
      BY <1>0, <2>2, <3>1 DEF InFlight, TypeOK
    <3>5. held'[d].episode = e /\ e \notin pending'[d] BY <2>2, <3>1 DEF TypeOK
    <3>6. \A c \in Driver \ {d} : held'[c] = held[c] /\ pending'[c] = pending[c]
      BY <2>2, <3>1 DEF TypeOK
    <3>7. Bookkeeping'
      BY <2>2, <3>1, <3>4, <3>5, <3>6 DEF Bookkeeping
    <3>8. UploadsWhole' BY <2>2, <3>1 DEF UploadsWhole, Complete
    <3>9. Moves(d)
      BY <2>2, <3>1, <3>3, <3>4, <3>6 DEF Moves, Keeps, Holds
    <3> QED BY <3>7, <3>8, <3>9
  <2>5. CASE e \notin rows
    <3>1. /\ held' = held /\ task' = [task EXCEPT ![d][e] = NoTask] /\ NoTask.stage = "none"
          /\ orphaned' = orphaned \cup {e}
      BY <2>1, <2>5 DEF RayWait, NoTask
    <3>2. /\ InFlight(d)' = InFlight(d) \ {e}
          /\ \A c \in Driver \ {d} : InFlight(c)' = InFlight(c) /\ pending'[c] = pending[c]
      BY <1>0, <2>2, <3>1 DEF InFlight, TypeOK
    <3>3. /\ task'[d][e].stage = "none"
          /\ \A c \in Driver, f \in Episode : <<c, f>> # <<d, e>> => task'[c][f] = task[c][f]
      BY <3>1 DEF TypeOK
    <3>4. Bookkeeping'
      <4>1. \A c \in Driver, f \in Episode : task'[c][f].stage # "none" => f \in InFlight(c)'
        BY <3>2, <3>3 DEF Bookkeeping
      <4>2. \A c \in Driver : held[c].episode # NoEpisode =>
              task'[c][held[c].episode] = task[c][held[c].episode]
        BY <2>2, <2>3, <3>3
      <4>3. pending'[d] = pending[d] \ {e} BY <2>2 DEF TypeOK
      <4> QED BY <2>2, <3>1, <3>2, <4>1, <4>2, <4>3 DEF Bookkeeping
    <3>5. UploadsWhole'
      <4>1. store' = store BY <2>2
      <4>2. ASSUME NEW c \in Driver, NEW f \in Episode, task'[c][f].stage # "none"
            PROVE  task'[c][f] = task[c][f]
        BY <3>3, <4>2
      <4>3. \A f : Complete(f)' <=> Complete(f) BY <4>1 DEF Complete
      <4> QED BY <4>1, <4>2, <4>3 DEF UploadsWhole
    <3>6. Moves(d)
      BY <2>2, <3>1, <3>2 DEF Moves, Keeps, Holds
    <3> QED BY <3>4, <3>5, <3>6
  <2> QED BY <2>4, <2>5
<1>3. CASE RecordResult(d)
  <2> DEFINE e == held[d].episode
             row == Outcome(held[d].row, task[d][e])
  <2>1. /\ e \in Episode /\ Release(d, e) /\ UpdateEpisode(e, row)
        /\ orphaned' = IF e \in rows THEN orphaned \ {e} ELSE orphaned
        /\ UNCHANGED <<pc, todo, pending, store, rows, marked>>
    BY <1>0, <1>3 DEF RecordResult, bucket
  <2>2. row \in Row /\ row.is_deleted = held[d].row.is_deleted
    <3>1. held[d].row \in Row /\ task[d][e] \in Task BY <2>1 DEF TypeOK
    <3>2. row.is_deleted = held[d].row.is_deleted BY <3>1 DEF Outcome, Row
    <3> QED BY <3>1, <3>2, OutcomeType
  <2>3. row.zarr_processed_path => Complete(e)
    <3>1. held[d].row \in Row BY DEF TypeOK
    <3>2. row.zarr_processed_path => task[d][e].result = "frames" BY <3>1 DEF Outcome, Row
    <3>3. task[d][e].result = "frames" => Complete(e)
      BY <1>0, <2>1 DEF Bookkeeping, UploadsWhole
    <3> QED BY <3>2, <3>3
  <2>4. UpdateEpisode(e, row) /\ e = held[d].episode BY <2>1
  <2> HIDE DEF e, row
  <2> QED BY <2>1, <2>2, <2>3, <2>4, RecordMoves
<1>4. CASE RetryOnBig(d)
  <2> DEFINE e == held[d].episode
  <2>1. /\ e \in Episode
        /\ pending' = [pending EXCEPT ![d] = pending[d] \cup {e}]
        /\ task' = [task EXCEPT ![d][e] = Submitted("big")]
        /\ held' = [held EXCEPT ![d] = NotHeld]
        /\ sql' = sql /\ rows' = rows /\ store' = store /\ todo' = todo /\ pc' = pc
        /\ orphaned' = orphaned /\ marked' = marked
    BY <1>0, <1>4 DEF RetryOnBig, tables, bucket
  <2>2. Submitted("big").stage = "queued" /\ NotHeld.episode = NoEpisode /\ e # NoEpisode
    BY <1>0, <2>1 DEF Submitted, NoTask, NotHeld
  <2> HIDE DEF e
  <2>3. \A c \in Driver : InFlight(c)' = InFlight(c)
    BY <2>1, <2>2, <1>0 DEF InFlight, TypeOK, e
  <2>4. /\ task'[d][e].stage = "queued"
        /\ \A c \in Driver, f \in Episode : <<c, f>> # <<d, e>> => task'[c][f] = task[c][f]
    BY <2>1, <2>2 DEF TypeOK
  <2>5. \A c \in Driver \ {d} : held'[c] = held[c] /\ pending'[c] = pending[c]
    BY <2>1 DEF TypeOK
  <2>6. held'[d].episode = NoEpisode /\ NoEpisode \notin pending'[d] /\ pc[d] # "idle"
    BY <1>0, <2>1, <2>2 DEF TypeOK, Bookkeeping, e
  <2>7. e \in InFlight(d) BY <2>2 DEF InFlight, e
  <2>8. \A c \in Driver : held[c].episode # NoEpisode => held[c].episode \in Episode
    BY DEF TypeOK
  <2>9. Bookkeeping'
    BY <2>1, <2>3, <2>4, <2>5, <2>6, <2>7, <2>8 DEF Bookkeeping
  <2>10. UploadsWhole'
    <3> SUFFICES ASSUME NEW c \in Driver, NEW f \in Episode PROVE WholeOnce(c, f)'
      BY DEF UploadsWhole, WholeOnce, Complete
    <3>1. CASE c = d /\ f = e BY <2>4, <3>1 DEF WholeOnce
    <3>2. CASE <<c, f>> # <<d, e>>
      <4>1. task'[c][f] = task[c][f] BY <2>4, <3>2
      <4>2. WholeOnce(c, f) BY WholeUpload
      <4> QED BY <2>1, <4>1, <4>2 DEF WholeOnce
    <3> QED BY <3>1, <3>2
  <2>11. Moves(d)
    BY <2>1, <2>3, <2>5, <2>6 DEF Moves, Keeps, Holds
  <2> QED BY <2>9, <2>10, <2>11
<1>5. CASE MarkFailed(d)
  <2> DEFINE e == held[d].episode
             row == MarkedFailed(held[d].row)
  <2>1. /\ e \in Episode /\ Release(d, e) /\ UpdateEpisode(e, row)
        /\ orphaned' = IF e \in rows THEN orphaned \ {e} ELSE orphaned
        /\ UNCHANGED <<pc, todo, pending, store, rows, marked>>
    BY <1>0, <1>5 DEF MarkFailed, bucket
  <2>2. row \in Row /\ row.is_deleted = held[d].row.is_deleted /\ ~row.zarr_processed_path
    <3>1. held[d].row \in Row BY <2>1 DEF TypeOK
    <3> QED BY <3>1, RowTypes DEF MarkedFailed, Row
  <2>3. UpdateEpisode(e, row) /\ e = held[d].episode BY <2>1
  <2> HIDE DEF e, row
  <2> QED BY <2>1, <2>2, <2>3, RecordMoves
<1>6. CASE MarkFailedFails(d)
  <2> DEFINE e == held[d].episode
  <2>1. /\ e \in Episode /\ Release(d, e) /\ sql' = sql /\ orphaned' = orphaned \cup {e}
        /\ UNCHANGED <<pc, todo, pending, store, rows, marked>>
    BY <1>0, <1>6 DEF MarkFailedFails, tables, bucket
  <2>2. e = held[d].episode OBVIOUS
  <2> HIDE DEF e
  <2>3. /\ Bookkeeping' /\ UploadsWhole'
        /\ InFlight(d)' = InFlight(d) \ {e} /\ held'[d].episode = NoEpisode
        /\ \A c \in Driver \ {d} : InFlight(c)' = InFlight(c) /\ held'[c] = held[c]
    BY <2>1, <2>2, TaskRelease
  <2>4. Moves(d) BY <2>1, <2>3 DEF Moves, Keeps, Holds
  <2> QED BY <2>3, <2>4
<1>7. ASSUME Return(d) \/ DriverCrash(d)
      PROVE  Bookkeeping' /\ UploadsWhole' /\ Moves(d)
  <2>1. /\ UNCHANGED <<rows, sql, store, marked>>
        /\ todo'[d] = {} /\ pending'[d] = {} /\ held'[d].episode = NoEpisode
        /\ \A e \in Episode : task'[d][e] = NoTask
        /\ \A c \in Driver \ {d} :
             /\ todo'[c] = todo[c] /\ pending'[c] = pending[c] /\ held'[c] = held[c]
             /\ pc'[c] = pc[c] /\ task'[c] = task[c]
    BY <1>7 DEF Return, DriverCrash, NotHeld, tables, bucket, TypeOK
  <2>2. orphaned' = orphaned \cup InFlight(d)
    BY <1>7 DEF Return, DriverCrash, InFlight
  <2>3. /\ Bookkeeping' /\ UploadsWhole'
        /\ InFlight(d)' = {} /\ \A c \in Driver \ {d} : InFlight(c)' = InFlight(c)
    BY <2>1, TaskStop
  <2>4. Moves(d) BY <2>1, <2>2, <2>3 DEF Moves, Keeps, Holds
  <2> QED BY <2>3, <2>4
<1> QED
  BY <1>1, <1>2, <1>3, <1>4, <1>5, <1>6, <1>7 DEF DriverStep, Collect

(* What an operator does to each row, and to the marks set while nobody held *)
(* the row; the bucket, the drivers and their tasks stay.                    *)
LEMMA OperatorFrame ==
  ASSUME TypeOK, OperatorStep
  PROVE  /\ UNCHANGED <<store, pc, todo, pending, held, task, orphaned>>
         /\ \A f \in Episode :
              /\ sql'[f].zarr_processed_path => sql[f].zarr_processed_path
              /\ sql'[f].zarr_processing_error \in {"", sql[f].zarr_processing_error}
              /\ f \in marked' =>
                   \/ f \in marked /\ (sql[f].is_deleted => sql'[f].is_deleted)
                   \/ sql'[f].is_deleted /\ \A d \in Driver : held[d].episode # f
              /\ f \notin rows' => sql'[f] = NewRow \/ (f \notin rows /\ sql'[f] = sql[f])
<1> USE DEF TypeOK
<1>1. PICK e \in Episode : \/ ResetProcessedPath(e) \/ MarkDeleted(e)
                           \/ DeleteEpisodes(e) \/ AddEpisode(e)
  BY DEF OperatorStep
<1>2. UNCHANGED <<store, pc, todo, pending, held, task, orphaned>>
  BY <1>1 DEF ResetProcessedPath, MarkDeleted, DeleteEpisodes, AddEpisode, Edit, bucket, driver
<1>3. \A row \in Row :
        /\ ~Unprocessed(row).zarr_processed_path /\ Unprocessed(row).zarr_processing_error = ""
        /\ Unprocessed(row).is_deleted = row.is_deleted
  BY DEF Unprocessed, Row
<1>4. CASE ResetProcessedPath(e)
  <2>1. /\ sql' = [sql EXCEPT ![e] = Unprocessed(sql[e])] /\ e \in rows
        /\ rows' = rows /\ marked' = marked
    BY <1>4 DEF ResetProcessedPath
  <2>2. sql'[e] = Unprocessed(sql[e]) /\ \A f \in Episode \ {e} : sql'[f] = sql[f]
    BY <2>1
  <2> QED BY <1>2, <1>3, <2>1, <2>2
<1>5. CASE MarkDeleted(e)
  <2>1. /\ sql' = [sql EXCEPT ![e] = [sql[e] EXCEPT !.is_deleted = TRUE]] /\ e \in rows
        /\ rows' = rows /\ ~sql[e].is_deleted
        /\ marked' = marked \/ (marked' = marked \cup {e} /\ \A d \in Driver : held[d].episode # e)
    BY <1>5 DEF MarkDeleted
  <2>2. sql[e] \in Row BY <2>1
  <2>3. sql'[e] = [sql[e] EXCEPT !.is_deleted = TRUE] /\ \A f \in Episode \ {e} : sql'[f] = sql[f]
    BY <2>1
  <2>4. /\ sql'[e].is_deleted /\ sql'[e].zarr_processed_path = sql[e].zarr_processed_path
        /\ sql'[e].zarr_processing_error = sql[e].zarr_processing_error
    BY <2>2, <2>3 DEF Row
  <2> QED BY <1>2, <2>1, <2>3, <2>4
<1>6. CASE DeleteEpisodes(e)
  <2>1. /\ sql' = [sql EXCEPT ![e] = NewRow] /\ rows' = rows \ {e} /\ marked' = marked \ {e}
    BY <1>6 DEF DeleteEpisodes
  <2>2. ~NewRow.zarr_processed_path /\ NewRow.zarr_processing_error = "" BY DEF NewRow
  <2>3. sql'[e] = NewRow /\ \A f \in Episode \ {e} : sql'[f] = sql[f] BY <2>1
  <2> QED BY <1>2, <2>1, <2>2, <2>3
<1>7. CASE AddEpisode(e)
  BY <1>2, <1>7 DEF AddEpisode
<1> QED BY <1>1, <1>4, <1>5, <1>6, <1>7

LEMMA TaskOperator ==
  ASSUME TaskInv, OperatorStep
  PROVE  /\ Bookkeeping' /\ UploadsWhole'
         /\ \A c \in Driver : InFlight(c)' = InFlight(c)
<1>1. UNCHANGED <<store, pc, todo, pending, held, task>> BY OperatorFrame DEF TaskInv
<1>2. \A c \in Driver : InFlight(c)' = InFlight(c) BY <1>1 DEF InFlight
<1>3. Bookkeeping' BY <1>1, <1>2 DEF TaskInv, Bookkeeping
<1>4. UploadsWhole' BY <1>1 DEF TaskInv, UploadsWhole, Complete
<1> QED BY <1>2, <1>3, <1>4

LEMMA TaskNext == TaskInv /\ [Next]_vars => TaskInv'
<1> SUFFICES ASSUME TaskInv, [Next]_vars PROVE TaskInv' OBVIOUS
<1>1. TypeOK' BY TypeNext DEF TaskInv
<1>2. CASE UNCHANGED vars
  <2>1. UNCHANGED <<store, task, pc, todo, pending, held>>
    BY <1>2 DEF vars, bucket, driver
  <2>2. Bookkeeping' BY <2>1 DEF TaskInv, Bookkeeping, InFlight
  <2>3. UploadsWhole' BY <2>1 DEF TaskInv, UploadsWhole, Complete
  <2> QED BY <1>1, <2>2, <2>3 DEF TaskInv
<1>3. CASE Next
  BY <1>1, <1>3, TaskWorker, TaskLaunch, TaskDriver, TaskOperator DEF Next, TaskInv
<1> QED BY <1>2, <1>3

(* Whatever the command lines, operators and crashes: a driver's             *)
(* dictionaries are disjoint and hold bundles of its own, a task that exists *)
(* is in flight with its driver, and one that reports frames has uploaded    *)
(* the whole store.                                                          *)
THEOREM TasksAccounted == Spec => []TaskInv
BY TaskInit, TaskNext, PTL DEF Spec
-----------------------------------------------------------------------------
(* Reprocessing: any launch may take up an episode that is published, and    *)
(* then its row names a store that a task is taking apart.                   *)

(* An episode without a row has no path either.                              *)
Absent == \A e \in Episode \ rows : sql[e] = NewRow

DanglingInv == TaskInv /\ Absent /\ DanglingExplained

LEMMA DanglingInit == Init => Absent /\ DanglingExplained
<1> SUFFICES ASSUME Init PROVE Absent /\ DanglingExplained OBVIOUS
<1>1. PICK published \in SUBSET Episode :
        /\ sql = [e \in Episode |->
                    IF e \in published
                    THEN [NewRow EXCEPT !.zarr_processed_path = TRUE, !.zarr_mp4_path = "key"]
                    ELSE NewRow]
        /\ store = [e \in Episode |-> IF e \in published THEN Object ELSE {}]
  BY DEF Init
<1>2. Absent BY DEF Init, Absent
<1>3. ~NewRow.zarr_processed_path BY DEF NewRow
<1>4. DanglingExplained BY <1>1, <1>3 DEF DanglingExplained, Complete
<1> QED BY <1>2, <1>4

(* A worker takes a store apart only while its driver has the episode in     *)
(* flight.                                                                   *)
LEMMA DanglingWorker ==
  ASSUME DanglingInv, NEW d \in Driver, NEW e \in Episode, WorkerStep(d, e)
  PROVE  Absent' /\ DanglingExplained'
<1>1. /\ task[d][e].stage # "none"
      /\ \A f \in Episode \ {e} : store'[f] = store[f]
      /\ WorkerOnly
  BY WorkerFrame DEF DanglingInv, TaskInv
<1>2. e \in InFlight(d) BY <1>1 DEF DanglingInv, TaskInv, Bookkeeping
<1>3. /\ UNCHANGED <<rows, sql, orphaned>>
      /\ \A c \in Driver : InFlight(c)' = InFlight(c)
  BY <1>1 DEF WorkerOnly, tables, driver, InFlight
<1>4. Absent' BY <1>3 DEF DanglingInv, Absent
<1>5. DanglingExplained'
  <2> SUFFICES ASSUME NEW f \in Episode, sql[f].zarr_processed_path, store'[f] # Object
      PROVE  f \in orphaned \/ \E c \in Driver : f \in InFlight(c)
    BY <1>3 DEF DanglingExplained, Complete
  <2>1. CASE f = e BY <1>2, <2>1
  <2>2. CASE f # e BY <1>1, <2>2 DEF DanglingInv, DanglingExplained, Complete
  <2> QED BY <2>1, <2>2
<1> QED BY <1>4, <1>5

(* A driver that stops having an episode in flight writes its row, gives it  *)
(* a path only if the store is whole, or leaves an orphan.                   *)
LEMMA DanglingDriver ==
  ASSUME DanglingInv, NEW d \in Driver, Moves(d)
  PROVE  Absent' /\ DanglingExplained'
<1> USE DEF DanglingInv, TaskInv
<1>1. /\ rows' = rows /\ store' = store
      /\ \A c \in Driver \ {d} : InFlight(c)' = InFlight(c)
  BY DEF Moves
<1>2. CASE Writes(d)
  <2> DEFINE e == held[d].episode
  <2>1. PICK row \in Row : /\ sql' = [sql EXCEPT ![e] = row]
                           /\ row.zarr_processed_path => Complete(e)
    BY <1>2 DEF Writes
  <2>2. e \in rows /\ orphaned' = orphaned \ {e} /\ InFlight(d)' = InFlight(d) \ {e}
    BY <1>2 DEF Writes
  <2> HIDE DEF e
  <2>3. sql'[e] = row /\ \A f \in Episode \ {e} : sql'[f] = sql[f]
    BY <2>1, <2>2 DEF TypeOK
  <2>4. Absent' BY <1>1, <2>2, <2>3 DEF Absent
  <2>5. DanglingExplained'
    <3> SUFFICES ASSUME NEW f \in Episode, sql'[f].zarr_processed_path, ~Complete(f)
        PROVE  f \in orphaned' \/ \E c \in Driver : f \in InFlight(c)'
      BY <1>1 DEF DanglingExplained, Complete
    <3>1. f # e /\ sql[f].zarr_processed_path BY <2>1, <2>3
    <3>2. f \in orphaned \/ \E c \in Driver : f \in InFlight(c) BY <3>1 DEF DanglingExplained
    <3> QED BY <1>1, <2>2, <3>1, <3>2
  <2> QED BY <2>4, <2>5
<1>3. CASE Keeps(d)
  <2>1. /\ sql' = sql /\ orphaned \subseteq orphaned'
        /\ \A e \in InFlight(d) \ InFlight(d)' : e \in orphaned' \/ e \notin rows
    BY <1>3 DEF Keeps
  <2>2. Absent' BY <1>1, <2>1 DEF Absent
  <2>3. DanglingExplained'
    <3> SUFFICES ASSUME NEW f \in Episode, sql[f].zarr_processed_path, ~Complete(f)
        PROVE  f \in orphaned' \/ \E c \in Driver : f \in InFlight(c)'
      BY <1>1, <2>1 DEF DanglingExplained, Complete
    <3>1. f \in orphaned \/ \E c \in Driver : f \in InFlight(c) BY DEF DanglingExplained
    <3>2. ~NewRow.zarr_processed_path BY DEF NewRow
    <3>3. f \in rows BY <3>2 DEF Absent
    <3> QED BY <1>1, <2>1, <3>1, <3>3
  <2> QED BY <2>2, <2>3
<1> QED BY <1>2, <1>3 DEF Moves

LEMMA DanglingNext == DanglingInv /\ [Next]_vars => DanglingInv'
<1> SUFFICES ASSUME DanglingInv, [Next]_vars PROVE Absent' /\ DanglingExplained'
  BY TaskNext DEF DanglingInv
<1>1. ASSUME UNCHANGED <<rows, sql, store, orphaned>>,
             \A c \in Driver : InFlight(c)' = InFlight(c)
      PROVE  Absent' /\ DanglingExplained'
  BY <1>1 DEF DanglingInv, Absent, DanglingExplained, Complete
<1>2. CASE UNCHANGED vars
  BY <1>1, <1>2 DEF vars, tables, bucket, driver, InFlight
<1>3. ASSUME NEW d \in Driver, NEW m \in LaunchModes, NEW wanted \in SUBSET Bundles[d],
             Launch(d, m, wanted)
      PROVE  Absent' /\ DanglingExplained'
  BY <1>1, <1>3 DEF Launch, tables, bucket, InFlight
<1>4. ASSUME NEW d \in Driver, DriverStep(d) \/ DriverCrash(d)
      PROVE  Absent' /\ DanglingExplained'
  BY <1>4, TaskDriver, DanglingDriver DEF DanglingInv
<1>5. CASE OperatorStep
  <2>1. /\ UNCHANGED <<store, orphaned>>
        /\ \A f \in Episode :
             /\ sql'[f].zarr_processed_path => sql[f].zarr_processed_path
             /\ f \notin rows' => sql'[f] = NewRow \/ (f \notin rows /\ sql'[f] = sql[f])
    BY <1>5, OperatorFrame DEF DanglingInv, TaskInv
  <2>2. \A c \in Driver : InFlight(c)' = InFlight(c) BY <1>5, TaskOperator DEF DanglingInv
  <2>3. Absent' BY <2>1 DEF DanglingInv, Absent
  <2>4. DanglingExplained' BY <2>1, <2>2 DEF DanglingInv, DanglingExplained, Complete
  <2> QED BY <2>3, <2>4
<1> QED BY <1>2, <1>3, <1>4, <1>5, DanglingWorker DEF Next

(* With reprocessing, dry runs, operators' edits and crashes: a row names an *)
(* incomplete store only while a driver has the episode in flight, or after  *)
(* the outcome of its last attempt was lost.                                 *)
THEOREM DanglingIsExplained == Spec => []DanglingExplained
<1>1. Init => DanglingInv BY TaskInit, DanglingInit DEF DanglingInv
<1>2. DanglingInv => DanglingExplained BY DEF DanglingInv
<1> QED BY <1>1, <1>2, DanglingNext, PTL DEF Spec
-----------------------------------------------------------------------------
(* A driver that holds a marked row has read the mark.                       *)
HeldMarked == \A d \in Driver : held[d].episode \in marked => held[d].row.is_deleted

DeletionInv == TaskInv /\ HeldMarked /\ DeletionSticks

LEMMA DeletionDriver ==
  ASSUME DeletionInv, NEW d \in Driver, Moves(d)
  PROVE  HeldMarked' /\ DeletionSticks'
<1> USE DEF DeletionInv, TaskInv
<1>1. marked' = marked /\ \A c \in Driver \ {d} : held'[c] = held[c]
  BY DEF Moves
<1>2. DeletionSticks'
  <2>1. CASE Writes(d)
    <3>1. PICK row \in Row : /\ sql' = [sql EXCEPT ![held[d].episode] = row]
                             /\ row.is_deleted = held[d].row.is_deleted
      BY <2>1 DEF Writes
    <3> SUFFICES ASSUME NEW f \in marked PROVE sql'[f].is_deleted
      BY <1>1 DEF DeletionSticks
    <3>2. CASE f = held[d].episode
      BY <3>1, <3>2 DEF HeldMarked, TypeOK
    <3>3. CASE f # held[d].episode
      BY <3>1, <3>3 DEF DeletionSticks, TypeOK
    <3> QED BY <3>2, <3>3
  <2>2. CASE Keeps(d) BY <1>1, <2>2 DEF Keeps, DeletionSticks
  <2> QED BY <2>1, <2>2 DEF Moves
<1>3. HeldMarked'
  <2>1. NoEpisode \notin marked BY ConversionAssumption DEF ConversionAssumption, TypeOK
  <2>2. held'[d].episode \in marked => held'[d].row.is_deleted
    <3>1. CASE held'[d] = held[d] BY <3>1 DEF HeldMarked
    <3>2. CASE held'[d].episode = NoEpisode BY <2>1, <3>2
    <3>3. CASE \E e \in rows : held'[d] = [episode |-> e, row |-> sql[e]]
      <4>1. PICK e \in rows : held'[d] = [episode |-> e, row |-> sql[e]] BY <3>3
      <4>2. held'[d].episode = e /\ held'[d].row = sql[e] BY <4>1
      <4> QED BY <4>2 DEF DeletionSticks
    <3> QED BY <3>1, <3>2, <3>3 DEF Moves, Holds
  <2> QED BY <1>1, <2>2 DEF HeldMarked
<1> QED BY <1>2, <1>3

LEMMA DeletionNext == DeletionInv /\ [Next]_vars => DeletionInv'
<1> SUFFICES ASSUME DeletionInv, [Next]_vars PROVE HeldMarked' /\ DeletionSticks'
  BY TaskNext DEF DeletionInv
<1>1. ASSUME UNCHANGED <<sql, held, marked>> PROVE HeldMarked' /\ DeletionSticks'
  BY <1>1 DEF DeletionInv, HeldMarked, DeletionSticks
<1>2. CASE UNCHANGED vars
  BY <1>1, <1>2 DEF vars, tables, driver
<1>3. ASSUME NEW d \in Driver, NEW m \in LaunchModes, NEW wanted \in SUBSET Bundles[d],
             Launch(d, m, wanted)
      PROVE  HeldMarked' /\ DeletionSticks'
  BY <1>1, <1>3 DEF Launch, tables
<1>4. ASSUME NEW d \in Driver, DriverStep(d) \/ DriverCrash(d)
      PROVE  HeldMarked' /\ DeletionSticks'
  BY <1>4, TaskDriver, DeletionDriver DEF DeletionInv
<1>5. ASSUME NEW d \in Driver, NEW e \in Episode, WorkerStep(d, e)
      PROVE  HeldMarked' /\ DeletionSticks'
  <2>1. WorkerOnly BY <1>5, WorkerFrame DEF DeletionInv, TaskInv
  <2> QED BY <1>1, <2>1 DEF WorkerOnly, tables, driver
<1>6. CASE OperatorStep
  <2>1. /\ held' = held
        /\ \A f \in Episode : f \in marked' =>
             \/ f \in marked /\ (sql[f].is_deleted => sql'[f].is_deleted)
             \/ sql'[f].is_deleted /\ \A d \in Driver : held[d].episode # f
    BY <1>6, OperatorFrame DEF DeletionInv, TaskInv
  <2>2. marked' \subseteq Episode BY TypeNext DEF DeletionInv, TaskInv, TypeOK
  <2> QED BY <2>1, <2>2 DEF DeletionInv, HeldMarked, DeletionSticks
<1> QED BY <1>2, <1>3, <1>4, <1>5, <1>6 DEF Next

(* A deletion mark that was set while no driver held the row is never undone *)
(* by a driver's update of all its columns.                                  *)
THEOREM DeletionsStick == Spec => []DeletionSticks
<1>1. Init => DeletionInv
  <2>1. Init => HeldMarked /\ DeletionSticks BY DEF Init, HeldMarked, DeletionSticks
  <2> QED BY <2>1, TaskInit DEF DeletionInv
<1>2. DeletionInv => DeletionSticks BY DEF DeletionInv
<1> QED BY <1>1, <1>2, DeletionNext, PTL DEF Spec
-----------------------------------------------------------------------------
(* What a driver has still to submit carries no error, although it was       *)
(* judged by an old snapshot of the table.                                   *)
TodoClean == \A d \in Driver : \A e \in todo[d] : sql[e].zarr_processing_error = ""

ErrorInv == TaskInv /\ TodoClean

LEMMA ErrorNext == ErrorInv /\ [Next]_vars => ErrorInv'
<1> SUFFICES ASSUME ErrorInv, [Next]_vars PROVE TodoClean'
  BY TaskNext DEF ErrorInv
<1> USE DEF ErrorInv, TaskInv
<1>1. \A c \in Driver : todo[c] \subseteq Episode BY DEF TypeOK
<1>2. ASSUME UNCHANGED <<sql, todo>> PROVE TodoClean'
  BY <1>2 DEF TodoClean
<1>3. CASE UNCHANGED vars
  BY <1>2, <1>3 DEF vars, tables, driver
<1>4. ASSUME NEW d \in Driver, NEW m \in LaunchModes, NEW wanted \in SUBSET Bundles[d],
             Launch(d, m, wanted)
      PROVE  TodoClean'
  <2>1. /\ todo' = [todo EXCEPT ![d] = {e \in wanted \cap rows : Eligible(sql[e], m)}]
        /\ sql' = sql
    BY <1>4 DEF Launch, tables
  <2>2. \A e \in todo'[d] : sql[e].zarr_processing_error = "" BY <2>1 DEF TypeOK, Eligible
  <2> QED BY <2>1, <2>2 DEF TodoClean, TypeOK
<1>5. ASSUME NEW d \in Driver, DriverStep(d) \/ DriverCrash(d)
      PROVE  TodoClean'
  <2>1. Moves(d) BY <1>5, TaskDriver
  <2>2. \A c \in Driver : todo'[c] \subseteq todo[c] BY <2>1 DEF Moves
  <2>3. CASE Writes(d)
    <3>1. PICK row \in Row : sql' = [sql EXCEPT ![held[d].episode] = row]
      BY <2>3 DEF Writes
    <3>2. held[d].episode \in InFlight(d) BY <2>3 DEF Writes
    <3>3. \A c \in Driver : held[d].episode \notin todo[c]
      BY <3>2, ConversionAssumption DEF ConversionAssumption, Bookkeeping
    <3> QED BY <1>1, <2>2, <3>1, <3>3 DEF TodoClean, TypeOK
  <2>4. CASE Keeps(d) BY <2>2, <2>4 DEF Keeps, TodoClean
  <2> QED BY <2>1, <2>3, <2>4 DEF Moves
<1>6. ASSUME NEW d \in Driver, NEW e \in Episode, WorkerStep(d, e)
      PROVE  TodoClean'
  <2>1. WorkerOnly BY <1>6, WorkerFrame
  <2> QED BY <1>2, <2>1 DEF WorkerOnly, tables, driver
<1>7. CASE OperatorStep
  <2>1. /\ todo' = todo
        /\ \A f \in Episode : sql'[f].zarr_processing_error \in {"", sql[f].zarr_processing_error}
    BY <1>7, OperatorFrame
  <2> QED BY <1>1, <2>1 DEF TodoClean
<1> QED BY <1>3, <1>4, <1>5, <1>6, <1>7 DEF Next

(* No driver submits a bundle whose row carries an error at that moment.     *)
THEOREM ErrorsStaySticky == Spec => ErrorsAreSticky
<1> DEFINE Clean == \A d \in Driver, e \in Episode :
                      e \in todo[d] /\ e \in pending'[d] => sql[e].zarr_processing_error = ""
<1>1. Init => ErrorInv
  <2>1. Init => TodoClean BY DEF Init, TodoClean
  <2> QED BY <2>1, TaskInit DEF ErrorInv
<1>2. ErrorInv /\ [Next]_vars => [Clean]_vars BY DEF ErrorInv, TodoClean
<1> QED BY <1>1, <1>2, ErrorNext, PTL DEF Spec, ErrorsAreSticky
-----------------------------------------------------------------------------
(* What the nightly drivers promise the readers of the table: when every     *)
(* launch has --skip-if-done, a row that names a Zarr store names a complete *)
(* one, and nothing touches a store while a row names it.                    *)
SkipIfDone == \A m \in LaunchModes : m.skip_if_done

LEMMA PublishInit == Init => PublishInv
<1> SUFFICES ASSUME Init PROVE PublishInv OBVIOUS
<1>1. Unpublished
  BY DEF Init, Unpublished, InFlight, NotHeld
<1>2. PublishedComplete
  <2> SUFFICES ASSUME NEW e \in Episode, sql[e].zarr_processed_path PROVE store[e] = Object
    BY DEF PublishedComplete, Complete
  <2>1. PICK published \in SUBSET Episode :
          /\ sql = [f \in Episode |->
                IF f \in published
                THEN [NewRow EXCEPT !.zarr_processed_path = TRUE, !.zarr_mp4_path = "key"]
                ELSE NewRow]
          /\ store = [f \in Episode |-> IF f \in published THEN Object ELSE {}]
    BY DEF Init
  <2>2. e \in published BY <2>1 DEF NewRow
  <2> QED BY <2>1, <2>2
<1> QED BY <1>1, <1>2, TaskInit DEF PublishInv, TaskInv

(* A driver takes up only what is not published, and gives a path only to    *)
(* what it lets go of.                                                       *)
LEMMA PublishDriver ==
  ASSUME PublishInv, NEW d \in Driver, Moves(d)
  PROVE  Unpublished' /\ PublishedComplete'
<1> USE DEF PublishInv
<1>1. /\ store' = store
      /\ \A c \in Driver \ {d} : todo'[c] = todo[c] /\ InFlight(c)' = InFlight(c)
      /\ todo'[d] \subseteq todo[d]
      /\ todo'[d] \cup InFlight(d)' \subseteq todo[d] \cup InFlight(d)
  BY DEF Moves
<1>2. \A c \in Driver : todo'[c] \cup InFlight(c)' \subseteq todo[c] \cup InFlight(c)
  BY <1>1
<1>3. CASE Writes(d)
  <2> DEFINE e == held[d].episode
  <2>1. PICK row \in Row : /\ sql' = [sql EXCEPT ![e] = row]
                           /\ row.zarr_processed_path => Complete(e)
    BY <1>3 DEF Writes
  <2>2. e \in InFlight(d) /\ InFlight(d)' = InFlight(d) \ {e} BY <1>3 DEF Writes
  <2>3. \A c \in Driver : e \notin todo'[c] \cup InFlight(c)'
    <3>1. \A c \in Driver \ {d} : e \notin todo[c] \cup InFlight(c)
      BY <2>2, ConversionAssumption DEF ConversionAssumption, Bookkeeping
    <3>2. e \notin todo[d] BY <2>2 DEF Bookkeeping
    <3> QED BY <1>1, <2>2, <3>1, <3>2
  <2> HIDE DEF e
  <2>4. \A f \in Episode : f # e => sql'[f] = sql[f] BY <2>1 DEF TypeOK
  <2>5. e \in Episode => sql'[e] = row BY <2>1 DEF TypeOK
  <2>6. Unpublished'
    <3> SUFFICES ASSUME NEW c \in Driver, NEW f \in todo'[c] \cup InFlight(c)'
        PROVE  ~sql'[f].zarr_processed_path
      BY DEF Unpublished
    <3>1. f \in todo[c] \cup InFlight(c) /\ f # e BY <1>2, <2>3
    <3>2. f \in Episode BY <3>1, ConversionAssumption DEF ConversionAssumption, Bookkeeping
    <3> QED BY <2>4, <3>1, <3>2 DEF Unpublished
  <2>7. PublishedComplete' BY <1>1, <2>1, <2>4, <2>5 DEF PublishedComplete, Complete
  <2> QED BY <2>6, <2>7
<1>4. CASE Keeps(d)
  BY <1>1, <1>2, <1>4 DEF Keeps, Unpublished, PublishedComplete, Complete
<1> QED BY <1>3, <1>4 DEF Moves

LEMMA PublishNext ==
  ASSUME SkipIfDone PROVE PublishInv /\ [Next]_vars => PublishInv'
<1> SUFFICES ASSUME PublishInv, [Next]_vars PROVE Unpublished' /\ PublishedComplete'
  BY TaskNext DEF PublishInv, TaskInv
<1>0. TaskInv BY DEF PublishInv, TaskInv
<1>1. CASE UNCHANGED vars
  BY <1>1 DEF vars, tables, bucket, driver, PublishInv, Unpublished, InFlight,
     PublishedComplete, Complete
<1>2. ASSUME NEW d \in Driver, NEW m \in LaunchModes, NEW wanted \in SUBSET Bundles[d],
             Launch(d, m, wanted)
      PROVE  Unpublished' /\ PublishedComplete'
  <2>1. /\ todo' = [todo EXCEPT ![d] = {e \in wanted \cap rows : Eligible(sql[e], m)}]
        /\ sql' = sql /\ store' = store
    BY <1>2 DEF Launch, tables, bucket
  <2>2. InFlight(d) = {} /\ \A c \in Driver : InFlight(c)' = InFlight(c)
    BY <1>0, <1>2, TaskLaunch
  <2>3. \A e \in todo'[d] : ~sql[e].zarr_processed_path
    BY <2>1 DEF PublishInv, TypeOK, Eligible, SkipIfDone
  <2>4. Unpublished' BY <2>1, <2>2, <2>3 DEF PublishInv, Unpublished, TypeOK
  <2>5. PublishedComplete' BY <2>1 DEF PublishInv, PublishedComplete, Complete
  <2> QED BY <2>4, <2>5
<1>3. ASSUME NEW d \in Driver, DriverStep(d) \/ DriverCrash(d)
      PROVE  Unpublished' /\ PublishedComplete'
  BY <1>0, <1>3, TaskDriver, PublishDriver
<1>4. ASSUME NEW d \in Driver, NEW e \in Episode, WorkerStep(d, e)
      PROVE  Unpublished' /\ PublishedComplete'
  <2>1. /\ task[d][e].stage # "none" /\ WorkerOnly
        /\ \A f \in Episode \ {e} : store'[f] = store[f]
    BY <1>4, WorkerFrame DEF PublishInv
  <2>2. ~sql[e].zarr_processed_path
    BY <2>1 DEF PublishInv, Bookkeeping, Unpublished
  <2>3. sql' = sql /\ todo' = todo /\ \A c \in Driver : InFlight(c)' = InFlight(c)
    BY <2>1 DEF WorkerOnly, tables, driver, InFlight
  <2>4. Unpublished' BY <2>3 DEF PublishInv, Unpublished
  <2>5. PublishedComplete' BY <2>1, <2>2, <2>3 DEF PublishInv, PublishedComplete, Complete
  <2> QED BY <2>4, <2>5
<1>5. CASE OperatorStep
  <2>1. /\ UNCHANGED <<store, todo>>
        /\ \A f \in Episode : sql'[f].zarr_processed_path => sql[f].zarr_processed_path
        /\ \A c \in Driver : InFlight(c)' = InFlight(c)
    BY <1>0, <1>5, OperatorFrame, TaskOperator DEF PublishInv
  <2>2. \A c \in Driver : todo[c] \cup InFlight(c) \subseteq Episode
    BY ConversionAssumption DEF ConversionAssumption, PublishInv, Bookkeeping
  <2>3. Unpublished' BY <2>1, <2>2 DEF PublishInv, Unpublished
  <2>4. PublishedComplete' BY <2>1 DEF PublishInv, PublishedComplete, Complete
  <2> QED BY <2>3, <2>4
<1> QED BY <1>1, <1>2, <1>3, <1>4, <1>5 DEF Next

(* The inductive invariant behind the next two theorems: what is in flight   *)
(* or about to be is unpublished, and frames mean a whole upload.            *)
THEOREM Published == ASSUME SkipIfDone PROVE Spec => []PublishInv
<1>1. Init => PublishInv BY PublishInit
<1>2. PublishInv /\ [Next]_vars => PublishInv' BY PublishNext
<1> QED BY <1>1, <1>2, PTL DEF Spec

(* A row that names a Zarr store names a whole one, whatever crashes.        *)
THEOREM PublishedAreComplete == ASSUME SkipIfDone PROVE Spec => []PublishedComplete
<1>1. PublishInv => PublishedComplete BY DEF PublishInv
<1> QED BY <1>1, Published, PTL

(* While a row names a store, no step changes an object of the store.        *)
THEOREM PublishedAreFrozen == ASSUME SkipIfDone PROVE Spec => PublishedFrozen
<1> DEFINE Frozen == \A e \in Episode : sql[e].zarr_processed_path => store'[e] = store[e]
<1>1. PublishInv /\ [Next]_vars => [Frozen]_vars
  <2> SUFFICES ASSUME PublishInv, Next PROVE Frozen OBVIOUS
  <2>1. CASE \E d \in Driver, e \in Episode : WorkerStep(d, e)
    <3>1. PICK d \in Driver, e \in Episode : WorkerStep(d, e) BY <2>1
    <3>2. /\ task[d][e].stage # "none"
          /\ \A f \in Episode \ {e} : store'[f] = store[f]
      BY <3>1, WorkerFrame DEF PublishInv
    <3>3. ~sql[e].zarr_processed_path
      BY <3>2 DEF PublishInv, Bookkeeping, Unpublished
    <3> QED BY <3>2, <3>3
  <2>2. CASE \E d \in Driver :
               \/ \E m \in LaunchModes, wanted \in SUBSET Bundles[d] : Launch(d, m, wanted)
               \/ DriverStep(d) \/ DriverCrash(d)
    BY <2>2 DEF Launch, DriverStep, Submitting, SubmitConvert, Collect, RayWait, RecordResult,
       RetryOnBig, MarkFailed, MarkFailedFails, Return, DriverCrash, bucket
  <2>3. CASE OperatorStep
    BY <2>3 DEF OperatorStep, ResetProcessedPath, MarkDeleted, DeleteEpisodes, AddEpisode,
       Edit, bucket
  <2> QED BY <2>1, <2>2, <2>3 DEF Next
<1> QED BY <1>1, Published, PTL DEF Spec, PublishedFrozen
=============================================================================
