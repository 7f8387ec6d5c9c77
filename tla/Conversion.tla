------------------------------ MODULE Conversion ------------------------------
(***************************************************************************)
(* The raw-to-Zarr conversion system of EgoVerse.                          *)
(*                                                                         *)
(* A driver (run_conversion.py, launch) reads the episode table once,      *)
(* decides which raw bundles to convert, submits one Ray task per bundle   *)
(* and collects the results, writing each outcome back to the SQL row.  A  *)
(* task (ray_helper.py, convert_one_bundle) runs on some worker: it        *)
(* converts the bundle, deletes the episode's previous remote objects and  *)
(* uploads the new ones.  The SQL row and the objects in the R2 bucket are *)
(* two stores that no transaction covers; drivers, workers and operators   *)
(* change them concurrently, and drivers and workers can die at any point. *)
(***************************************************************************)
EXTENDS Naturals

CONSTANTS
  Episode,        \* the episode hashes
  Driver,         \* the conversion drivers, one per embodiment
  Bundles,        \* Bundles[d]: the episodes whose raw bundles driver d lists
  PreviewOptional,\* the drivers whose conversion may end without a preview
  LaunchModes,    \* the command lines: records [skip_if_done, dry]
  RayRetries,     \* times Ray itself re-executes a task whose worker died
  MaxLaunches,    \* bound: launches of all drivers together
  MaxEdits,       \* bound: operator edits of the episode table
  NoEpisode       \* "this driver holds no row"

Mode == [skip_if_done : BOOLEAN, dry : BOOLEAN]

(* The aria and the eva driver list different raw prefixes, so no episode is *)
(* in two drivers' bundles.                                                  *)
ASSUME ConversionAssumption ==
  /\ NoEpisode \notin Episode
  /\ Bundles \in [Driver -> SUBSET Episode]
  /\ \A c, d \in Driver : c # d => Bundles[c] \cap Bundles[d] = {}
  /\ PreviewOptional \subseteq Driver
  /\ LaunchModes \subseteq Mode
  /\ RayRetries \in Nat /\ MaxLaunches \in Nat /\ MaxEdits \in Nat

VARIABLES
  rows,      \* the episodes that have a row in app.episodes
  sql,       \* the row of each episode
  store,     \* the objects of the episode's Zarr store in the bucket
  video,     \* the episodes whose preview MP4 is in the bucket
  pc,        \* is the driver's process running?
  mode,      \* its command line
  todo,      \* bundles it will still submit, judged by its table snapshot
  pending,   \* its `pending` dictionary: tasks submitted and not yet popped
  held,      \* the popped task's episode and the row read for it
  task,      \* task[d][e]: the Ray task of driver d for episode e
  orphaned,  \* history: the last attempt's outcome never reached the row
  marked,    \* history: rows marked deleted while no driver held them
  launches, edits

tables == <<rows, sql>>
bucket == <<store, video>>
driver == <<pc, mode, todo, pending, held>>
vars == <<tables, bucket, driver, task, orphaned, marked, launches, edits>>
-----------------------------------------------------------------------------
(* zarr.json sits in the root of the store and os.walk is top-down, so it is *)
(* uploaded before any array chunk.                                          *)
Object == {"zarr.json", "chunks"}
Complete(e) == store[e] = Object

Error == {"", "Upload Failed", "Zero Frames",
          "Conversion Failed Unhandled Error", "exception"}
Row == [zarr_processed_path : BOOLEAN, zarr_mp4_path : {"", "key", "None"},
        zarr_processing_error : Error, is_deleted : BOOLEAN]
NewRow == [zarr_processed_path |-> FALSE, zarr_mp4_path |-> "",
           zarr_processing_error |-> "", is_deleted |-> FALSE]

(* A task's life.  Its result is the frame count convert_one_bundle returns  *)
(* ("frames" is any positive count, "0", "-1", "-2") or the exception that   *)
(* ray.get raises in the driver.                                             *)
Stage == {"none", "queued", "cleanup", "cleanup mp4", "upload zarr.json",
          "upload chunks", "upload mp4", "done"}
Result == {"frames", "0", "-1", "-2", "oom", "crash"}
Mp4 == {"file", "lost", "None"}
Task == [stage : Stage, size : {"small", "big"}, tries : 0..RayRetries,
         result : Result, mp4 : Mp4]
NoTask == [stage |-> "none", size |-> "small", tries |-> 0,
           result |-> "-1", mp4 |-> "file"]
Submitted(size) == [NoTask EXCEPT !.stage = "queued", !.size = size]

NotHeld == [episode |-> NoEpisode, row |-> NewRow]
InFlight(d) == pending[d] \cup ({held[d].episode} \ {NoEpisode})
NoMode == [skip_if_done |-> TRUE, dry |-> FALSE]

Init ==
  /\ rows = Episode
  /\ \E published \in SUBSET Episode :
       /\ sql = [e \in Episode |->
                   IF e \in published
                   THEN [NewRow EXCEPT !.zarr_processed_path = TRUE, !.zarr_mp4_path = "key"]
                   ELSE NewRow]
       /\ store = [e \in Episode |-> IF e \in published THEN Object ELSE {}]
       /\ video = published
  /\ pc = [d \in Driver |-> "idle"]
  /\ mode = [d \in Driver |-> NoMode]
  /\ todo = [d \in Driver |-> {}]
  /\ pending = [d \in Driver |-> {}]
  /\ held = [d \in Driver |-> NotHeld]
  /\ task = [d \in Driver |-> [e \in Episode |-> NoTask]]
  /\ orphaned = {} /\ marked = {}
  /\ launches = 0 /\ edits = 0
-----------------------------------------------------------------------------
(* The driver.                                                               *)

(* Mutants: launch() forgets one of its skips.                               *)
EligibleThoughDone(row, m) == row.zarr_processing_error = "" /\ ~row.is_deleted
EligibleThoughFailed(row, m) ==
  (m.skip_if_done => ~row.zarr_processed_path) /\ ~row.is_deleted

(* The skips of launch(), in terms of one row of its table snapshot.         *)
Eligible(row, m) ==
  /\ m.skip_if_done => ~row.zarr_processed_path
  /\ row.zarr_processing_error = ""
  /\ ~row.is_deleted

(* launch() reads the table once and judges every listed bundle by that      *)
(* snapshot; `wanted` is what the raw listing and --episode-hash leave.      *)
Launch(d, m, wanted) ==
  /\ pc[d] = "idle" /\ launches < MaxLaunches
  /\ launches' = launches + 1
  /\ pc' = [pc EXCEPT ![d] = "running"]
  /\ mode' = [mode EXCEPT ![d] = m]
  /\ todo' = [todo EXCEPT ![d] = {e \in wanted \cap rows : Eligible(sql[e], m)}]
  /\ UNCHANGED <<tables, bucket, pending, held, task, orphaned, marked, edits>>

SubmitConvert(d, e) ==
  /\ e \in todo[d]
  /\ todo' = [todo EXCEPT ![d] = @ \ {e}]
  /\ pending' = [pending EXCEPT ![d] = @ \cup {e}]
  /\ task' = [task EXCEPT ![d][e] = Submitted("small")]
  /\ UNCHANGED <<tables, bucket, pc, mode, held, orphaned, marked, launches, edits>>

Collecting(d) == pc[d] = "running" /\ todo[d] = {} /\ ~mode[d].dry

(* Mutant: the row is the one of the snapshot, taken before any mark.        *)
RayWaitOnSnapshot(d, e) ==
  /\ Collecting(d) /\ held[d].episode = NoEpisode
  /\ e \in pending[d] /\ task[d][e].stage = "done"
  /\ pending' = [pending EXCEPT ![d] = @ \ {e}]
  /\ held' = [held EXCEPT ![d] = [episode |-> e,
                                  row |-> [sql[e] EXCEPT !.is_deleted = FALSE]]]
  /\ UNCHANGED <<tables, bucket, pc, mode, todo, task, orphaned, marked, launches, edits>>

(* ray.wait returns one finished task; the driver pops it and re-reads the   *)
(* row.  A row that disappeared meanwhile drops the result.                  *)
RayWait(d, e) ==
  /\ Collecting(d) /\ held[d].episode = NoEpisode
  /\ e \in pending[d] /\ task[d][e].stage = "done"
  /\ pending' = [pending EXCEPT ![d] = @ \ {e}]
  /\ IF e \in rows
     THEN /\ held' = [held EXCEPT ![d] = [episode |-> e, row |-> sql[e]]]
          /\ UNCHANGED <<task, orphaned>>
     ELSE /\ task' = [task EXCEPT ![d][e] = NoTask]
          /\ orphaned' = orphaned \cup {e}
          /\ UNCHANGED held
  /\ UNCHANGED <<tables, bucket, pc, mode, todo, marked, launches, edits>>

(* Mutants: a failed upload counts as a success; a failure keeps the path.   *)
OutcomeUploadUnchecked(row, t) ==
  [row EXCEPT !.zarr_processed_path = t.result \in {"frames", "-2"}]
OutcomeKeepingPath(row, t) ==
  [row EXCEPT !.zarr_processed_path = @ \/ t.result = "frames",
              !.zarr_processing_error = IF t.result = "frames" THEN "" ELSE "Upload Failed"]

(* The row the driver writes for a result that ray.get returned.             *)
Outcome(row, t) ==
  LET ok == t.result = "frames"
  IN [row EXCEPT !.zarr_processed_path = ok,
                 !.zarr_mp4_path = IF ~ok THEN ""
                                   ELSE IF t.mp4 = "file" THEN "key" ELSE "None",
                 !.zarr_processing_error = CASE ok -> ""
                                             [] t.result = "-2" -> "Upload Failed"
                                             [] t.result = "-1" -> "Zero Frames"
                                             [] OTHER -> "Conversion Failed Unhandled Error"]

(* The row written for a task that raised, or whose first UPDATE did.        *)
MarkedFailed(row) ==
  [row EXCEPT !.zarr_processed_path = FALSE, !.zarr_mp4_path = "",
              !.zarr_processing_error = "exception"]

Raised(t) == t.result \in {"oom", "crash"}

(* update_episode writes every column of the row the driver holds; a row     *)
(* that no longer exists matches no WHERE clause and nothing happens.        *)
UpdateEpisode(e, row) ==
  sql' = IF e \in rows THEN [sql EXCEPT ![e] = row] ELSE sql

(* The episode is done with: its task is forgotten and no row is held.       *)
Release(d, e) ==
  /\ held' = [held EXCEPT ![d] = NotHeld]
  /\ task' = [task EXCEPT ![d][e] = NoTask]

(* ray.get returned and the row was updated.                                 *)
RecordResult(d) ==
  LET e == held[d].episode IN
  /\ e # NoEpisode /\ ~Raised(task[d][e])
  /\ UpdateEpisode(e, Outcome(held[d].row, task[d][e]))
  /\ orphaned' = IF e \in rows THEN orphaned \ {e} ELSE orphaned
  /\ Release(d, e)
  /\ UNCHANGED <<rows, bucket, pc, mode, todo, pending, marked, launches, edits>>

(* Mutant: the retry is submitted with the small size again.                 *)
RetryOnSmall(d) ==
  LET e == held[d].episode IN
  /\ e # NoEpisode /\ task[d][e].size = "small" /\ task[d][e].result # "crash"
  /\ pending' = [pending EXCEPT ![d] = @ \cup {e}]
  /\ task' = [task EXCEPT ![d][e] = Submitted("small")]
  /\ held' = [held EXCEPT ![d] = NotHeld]
  /\ UNCHANGED <<tables, bucket, pc, mode, todo, orphaned, marked, launches, edits>>

(* The except branch taken for an out-of-memory error on the small size:     *)
(* the bundle is submitted again on the big one.  _is_oom_exception looks    *)
(* for "oom" in the exception's text, and a failed UPDATE's text quotes the  *)
(* row ("bedroom"), so a database error may take this branch too.            *)
RetryOnBig(d) ==
  LET e == held[d].episode IN
  /\ e # NoEpisode /\ task[d][e].size = "small"
  /\ task[d][e].result # "crash"
  /\ pending' = [pending EXCEPT ![d] = @ \cup {e}]
  /\ task' = [task EXCEPT ![d][e] = Submitted("big")]
  /\ held' = [held EXCEPT ![d] = NotHeld]
  /\ UNCHANGED <<tables, bucket, pc, mode, todo, orphaned, marked, launches, edits>>

(* The except branch otherwise, for an exception of ray.get or of the first  *)
(* UPDATE: the row is marked failed.                                         *)
MarkFailed(d) ==
  LET e == held[d].episode IN
  /\ e # NoEpisode
  /\ task[d][e].result = "oom" => task[d][e].size = "big"
  /\ UpdateEpisode(e, MarkedFailed(held[d].row))
  /\ orphaned' = IF e \in rows THEN orphaned \ {e} ELSE orphaned
  /\ Release(d, e)
  /\ UNCHANGED <<rows, bucket, pc, mode, todo, pending, marked, launches, edits>>

(* The UPDATE of the except branch fails as well; the driver only logs it.   *)
MarkFailedFails(d) ==
  LET e == held[d].episode IN
  /\ e # NoEpisode
  /\ task[d][e].result = "oom" => task[d][e].size = "big"
  /\ orphaned' = orphaned \cup {e}
  /\ Release(d, e)
  /\ UNCHANGED <<tables, bucket, pc, mode, todo, pending, marked, launches, edits>>

(* Nothing is pending any more, or this is a dry run, whose submitted tasks  *)
(* are abandoned: launch() returns, and Ray kills the job's tasks.           *)
Return(d) ==
  /\ pc[d] = "running" /\ todo[d] = {} /\ held[d].episode = NoEpisode
  /\ mode[d].dry \/ pending[d] = {}
  /\ pc' = [pc EXCEPT ![d] = "idle"]
  /\ mode' = [mode EXCEPT ![d] = NoMode]
  /\ pending' = [pending EXCEPT ![d] = {}]
  /\ task' = [task EXCEPT ![d] = [e \in Episode |-> NoTask]]
  /\ orphaned' = orphaned \cup pending[d]
  /\ UNCHANGED <<tables, bucket, todo, held, marked, launches, edits>>

(* The driver's process dies; Ray kills the tasks of its job.                *)
DriverCrash(d) ==
  /\ pc[d] = "running"
  /\ pc' = [pc EXCEPT ![d] = "idle"]
  /\ mode' = [mode EXCEPT ![d] = NoMode]
  /\ todo' = [todo EXCEPT ![d] = {}]
  /\ pending' = [pending EXCEPT ![d] = {}]
  /\ held' = [held EXCEPT ![d] = NotHeld]
  /\ task' = [task EXCEPT ![d] = [e \in Episode |-> NoTask]]
  /\ orphaned' = orphaned \cup InFlight(d)
  /\ UNCHANGED <<tables, bucket, marked, launches, edits>>
-----------------------------------------------------------------------------
(* The task: convert_one_bundle of AriaRay and EvaRay.                       *)

SetTask(d, e, t) == task' = [task EXCEPT ![d][e] = t]
Advance(d, e, stage) == SetTask(d, e, [task[d][e] EXCEPT !.stage = stage])
Returns(d, e, result) ==
  SetTask(d, e, [Submitted(task[d][e].size) EXCEPT !.stage = "done", !.result = result])

WorkerOnly == UNCHANGED <<tables, driver, orphaned, marked, launches, edits>>

(* The raw files do not download or the conversion raises: -1.               *)
ConversionFails(d, e) ==
  /\ task[d][e].stage = "queued"
  /\ Returns(d, e, "-1")
  /\ WorkerOnly /\ UNCHANGED bucket

(* The Zarr store is on the worker's disk; its metadata gives the frame      *)
(* count (-1 when it cannot be read).  An eva episode without a front camera *)
(* has no preview, and a failing eva preview writer only warns; aria's       *)
(* preview is made or the conversion fails.                                  *)
ZarrJob(d, e) ==
  /\ task[d][e].stage = "queued"
  /\ \E frames \in {"frames", "0", "-1"},
        mp4 \in IF d \in PreviewOptional THEN Mp4 ELSE {"file"} :
       SetTask(d, e, [task[d][e] EXCEPT !.stage = "cleanup",
                                        !.result = frames, !.mp4 = mp4])
  /\ WorkerOnly /\ UNCHANGED bucket

(* _cleanup_existing_processed_outputs deletes the old store, a batch of     *)
(* keys at a time, then the old preview if there will be a new one.          *)
DeleteS3Prefix(d, e) ==
  /\ task[d][e].stage = "cleanup"
  /\ \E left \in SUBSET store[e] :
       /\ store' = [store EXCEPT ![e] = left]
       /\ IF left # {} THEN UNCHANGED task
          ELSE Advance(d, e, IF task[d][e].mp4 = "None" THEN "upload zarr.json"
                             ELSE "cleanup mp4")
  /\ WorkerOnly /\ UNCHANGED video

DeleteS3Key(d, e) ==
  /\ task[d][e].stage = "cleanup mp4"
  /\ video' = video \ {e}
  /\ Advance(d, e, "upload zarr.json")
  /\ WorkerOnly /\ UNCHANGED store

UploadZarrJson(d, e) ==
  /\ task[d][e].stage = "upload zarr.json"
  /\ store' = [store EXCEPT ![e] = @ \cup {"zarr.json"}]
  /\ Advance(d, e, "upload chunks")
  /\ WorkerOnly /\ UNCHANGED video

UploadChunks(d, e) ==
  /\ task[d][e].stage = "upload chunks"
  /\ store' = [store EXCEPT ![e] = @ \cup {"chunks"}]
  /\ Advance(d, e, IF task[d][e].mp4 = "None" THEN "done" ELSE "upload mp4")
  /\ WorkerOnly /\ UNCHANGED video

UploadMp4(d, e) ==
  /\ task[d][e].stage = "upload mp4" /\ task[d][e].mp4 = "file"
  /\ video' = video \cup {e}
  /\ Advance(d, e, "done")
  /\ WorkerOnly /\ UNCHANGED store

(* Any S3 call of the cleanup and of the uploads can raise (a preview that   *)
(* was never written always does): -2.                                       *)
UploadFails(d, e) ==
  /\ task[d][e].stage \in {"cleanup", "cleanup mp4", "upload zarr.json",
                           "upload chunks", "upload mp4"}
  /\ Returns(d, e, "-2")
  /\ WorkerOnly /\ UNCHANGED bucket

(* The worker process is killed.  Ray runs the task again from its start     *)
(* while it has retries left, and then raises in the driver.                 *)
WorkerDies(d, e) ==
  /\ task[d][e].stage \notin {"none", "done"}
  /\ \/ /\ task[d][e].tries < RayRetries
        /\ SetTask(d, e, [Submitted(task[d][e].size) EXCEPT !.tries = task[d][e].tries + 1])
     \/ \E raised \in {"oom", "crash"} : Returns(d, e, raised)
  /\ WorkerOnly /\ UNCHANGED bucket
-----------------------------------------------------------------------------
(* Operators edit the table with the helpers of aws_sql.py.                  *)

Edit ==
  /\ edits < MaxEdits /\ edits' = edits + 1
  /\ UNCHANGED <<bucket, driver, task, launches>>

Unprocessed(row) ==
  [row EXCEPT !.zarr_processed_path = FALSE, !.zarr_mp4_path = "",
              !.zarr_processing_error = ""]

ResetProcessedPath(e) ==
  /\ Edit /\ e \in rows
  /\ sql' = [sql EXCEPT ![e] = Unprocessed(@)]
  /\ UNCHANGED <<rows, orphaned, marked>>

MarkDeleted(e) ==
  /\ Edit /\ e \in rows /\ ~sql[e].is_deleted
  /\ sql' = [sql EXCEPT ![e].is_deleted = TRUE]
  /\ marked' = IF \E d \in Driver : held[d].episode = e
                   THEN marked ELSE marked \cup {e}
  /\ UNCHANGED <<rows, orphaned>>

DeleteEpisodes(e) ==
  /\ Edit /\ e \in rows
  /\ rows' = rows \ {e}
  /\ sql' = [sql EXCEPT ![e] = NewRow]
  /\ marked' = marked \ {e}
  /\ UNCHANGED orphaned

AddEpisode(e) ==
  /\ Edit /\ e \notin rows
  /\ rows' = rows \cup {e}
  /\ UNCHANGED <<sql, orphaned, marked>>
-----------------------------------------------------------------------------
Submitting(d) == \E e \in Episode : SubmitConvert(d, e)
Collect(d) ==
  \/ \E e \in Episode : RayWait(d, e)
  \/ RecordResult(d) \/ RetryOnBig(d) \/ MarkFailed(d) \/ MarkFailedFails(d)
DriverStep(d) == Submitting(d) \/ Collect(d) \/ Return(d)

WorkerStep(d, e) ==
  \/ ConversionFails(d, e) \/ ZarrJob(d, e)
  \/ DeleteS3Prefix(d, e) \/ DeleteS3Key(d, e)
  \/ UploadZarrJson(d, e) \/ UploadChunks(d, e) \/ UploadMp4(d, e)
  \/ UploadFails(d, e) \/ WorkerDies(d, e)

OperatorStep ==
  \E e \in Episode : \/ ResetProcessedPath(e) \/ MarkDeleted(e)
                     \/ DeleteEpisodes(e) \/ AddEpisode(e)

Next ==
  \/ \E d \in Driver :
       \/ \E m \in LaunchModes, wanted \in SUBSET Bundles[d] : Launch(d, m, wanted)
       \/ DriverStep(d)
       \/ DriverCrash(d)
       \/ \E e \in Episode : WorkerStep(d, e)
  \/ OperatorStep

Spec == Init /\ [][Next]_vars

(* A driver process that is alive keeps running its loops, and Ray keeps     *)
(* executing the tasks it was given.  Nothing obliges anybody to launch a    *)
(* driver, to edit the table or to crash.                                    *)
Fairness == \A d \in Driver :
  /\ WF_vars(DriverStep(d))
  /\ \A e \in Episode : WF_vars(WorkerStep(d, e))

FairSpec == Spec /\ Fairness
-----------------------------------------------------------------------------
(* Properties.                                                               *)

TypeOK ==
  /\ rows \subseteq Episode /\ sql \in [Episode -> Row]
  /\ store \in [Episode -> SUBSET Object] /\ video \subseteq Episode
  /\ pc \in [Driver -> {"idle", "running"}] /\ mode \in [Driver -> Mode]
  /\ todo \in [Driver -> SUBSET Episode] /\ pending \in [Driver -> SUBSET Episode]
  /\ held \in [Driver -> [episode : Episode \cup {NoEpisode}, row : Row]]
  /\ task \in [Driver -> [Episode -> Task]]
  /\ orphaned \subseteq Episode /\ marked \subseteq Episode
  /\ launches \in Nat /\ edits \in Nat

(* A row that names a Zarr store names a whole one, whatever crashes: what   *)
(* the nightly `--skip-if-done` drivers promise the readers of the table.    *)
PublishedComplete == \A e \in Episode : sql[e].zarr_processed_path => Complete(e)

(* Why it holds, as an inductive invariant.  A driver's dictionaries are     *)
(* disjoint and of its own bundles, and a task that exists is in flight ...  *)
Bookkeeping == \A d \in Driver :
  /\ pc[d] = "idle" => todo[d] = {} /\ pending[d] = {} /\ held[d].episode = NoEpisode
  /\ todo[d] \cap InFlight(d) = {} /\ held[d].episode \notin pending[d]
  /\ todo[d] \cup InFlight(d) \subseteq Bundles[d]
  /\ \A e \in Episode : task[d][e].stage # "none" => e \in InFlight(d)
  /\ held[d].episode # NoEpisode => task[d][held[d].episode].stage = "done"

(* ... nothing a driver is about to convert, or converts, is published ...   *)
Unpublished == \A d \in Driver : \A e \in todo[d] \cup InFlight(d) :
  ~sql[e].zarr_processed_path

(* ... and a task that reports frames has uploaded the whole store.          *)
UploadsWhole == \A d \in Driver, e \in Episode :
  LET t == task[d][e] IN
  /\ t.stage = "upload chunks" => "zarr.json" \in store[e]
  /\ t.stage = "upload mp4" \/ (t.stage = "done" /\ t.result = "frames") => Complete(e)

PublishInv ==
  TypeOK /\ Bookkeeping /\ Unpublished /\ UploadsWhole /\ PublishedComplete

(* While a row names a store, no `--skip-if-done` driver's task deletes or   *)
(* overwrites an object of it, so a reader that found the row can download.  *)
PublishedFrozen ==
  [][\A e \in Episode : sql[e].zarr_processed_path => store'[e] = store[e]]_vars

(* With reprocessing and dry runs as well, a row may name an incomplete      *)
(* store only while a driver still has the episode in flight, or after the   *)
(* outcome of its last attempt was lost with a driver or a failed UPDATE.    *)
DanglingExplained ==
  \A e \in Episode :
    sql[e].zarr_processed_path /\ ~Complete(e) =>
      e \in orphaned \/ \E d \in Driver : e \in InFlight(d)

(* update_episode rewrites all columns; because the driver re-reads the row  *)
(* when the task has finished, a deletion mark set during the conversion is  *)
(* not undone by it (only one set in the instants between the read and the   *)
(* write can be).                                                            *)
DeletionSticks == \A e \in marked : sql[e].is_deleted

(* No driver submits a bundle whose row carries an error, however old its    *)
(* snapshot of the table: a failure is retried after an operator's reset     *)
(* only.                                                                     *)
ErrorsAreSticky ==
  [][\A d \in Driver, e \in Episode :
       e \in todo[d] /\ e \in pending'[d] => sql[e].zarr_processing_error = ""]_vars

(* The collecting loop comes to an end: every launch drains its pending      *)
(* tasks, through worker deaths, out-of-memory retries and failed UPDATEs.   *)
LaunchEnds == \A d \in Driver : pc[d] = "running" ~> pc[d] = "idle"
=============================================================================
