# EgoVerse in TLA+

EgoVerse records egocentric demonstrations (Project Aria glasses, the Eva robot,
Scale and Mecka data), brings them into one Zarr format in an object store,
keeps track of them in a SQL table and trains policies from them. This directory
holds TLA+ models of the parts of the code that run concurrently, survive crashes
or share state, the TLC configurations that check them, and TLAPS proofs.

## 1. Inventory

| Component | Code | State it keeps | Operations | What makes it correct |
|---|---|---|---|---|
| Conversion driver | `egomimic/scripts/run_conversion.py` | `pending` dictionary, table snapshot, the row being handled | `launch`: snapshot, skip, submit, wait, retry, record | a row names a store only if the store is whole; errors and deletion marks stick; every launch ends |
| Conversion task | `egomimic/scripts/ray_helper.py` | worker's scratch directory, objects of one remote prefix | `iter_bundles`, `convert_one_bundle` | a task that reports frames has uploaded everything |
| Episode table | `egomimic/utils/aws/aws_sql.py` | `app.episodes` | add, update, read one, read all, delete, reset | no transaction spans a read and the write that follows it |
| Object-store helpers | `egomimic/utils/aws/aws_data_utils.py` | bucket objects | sync, delete prefix, upload directory | nothing is atomic beyond one object |
| MPS batch processor | `egomimic/scripts/mps_process/s3_parallel_processor.py`, `clean_mps.py`, `run_mps.sh` | batch directories, local and remote report, feature folders in the bucket | plan, prefetch, run the tool, upload, validate, report, clean up | each batch sees its recordings only, bounded disk, no lost work, convergence |
| Zarr converters | `eva_process/eva_to_zarr.py`, `aria_process/aria_to_zarr.py` | local store | convert one recording | numeric |
| Zarr writer | `egomimic/rldb/zarr/zarr_writer.py` | cursor, capacity, arrays | write; enter, add_frame, add_frames, exit; annotate | a store with metadata holds all frames that were given, in order, in arrays of one length |
| Episode cache and resolver | `egomimic/rldb/zarr/zarr_dataset_multi.py`, `rldb/filters.py` | local directory of episodes | filter, sync, load | what is loaded is whole and matches the filter |
| Dataset access | `egomimic/rldb/zarr/zarr_dataset_multi.py` (`ZarrDataset`) | one open store, the tries of a sample | sample a frame: window, image, annotations | windows show frames only, the search for a readable frame ends |
| Language annotation tools | `egomimic/scripts/language_process/` | the annotations array of a store | skip, remove, create, fill | a published store always has whole annotations |
| Demonstration recorder | `egomimic/robot/collect_demo.py` | demo buffers, previous controller sample, episode number | button edges, engagement, record, save | rows of all arrays belong to one time step and one recording, a press does one thing |
| Shared-memory ring buffer, queue | `robot/eva/stanford_repo/python/shared_memory/` | counters, slots, time-stamps | put, get, get_last_k, clear | no torn read, FIFO |
| Worker guardrails | `egomimic/utils/aws/budget_guardrails/` | state file of last activity | list nodes, judge, terminate | the head is spared, idle workers end |
| Scale pipeline | `external/scale/scripts/sfs_zarr_pipeline.py`, `scale_api.py` | download directories, output folders, table, bucket | check the table, download, convert, upload, register | a registered task has a whole folder of its own, every task is registered in the end |
| Scale conversion | `external/scale/scripts/sfs_to_egoverse_zarr.py`, `sfs_data.py` | frames of one recording, its hands | nullify, interpolate, filter, cut, annotate | episodes tile the usable frames, hands and goals are true to the recording |
| Raw ingestion and upload | `utils/aws/add_raw_data_to_table.py`, `scripts/data_upload/` | table, bucket, list of uploaded files | register, upload, verify, delete local | nothing local is deleted unverified |
| Rollout, training, policies, transforms, legacy LeRobot converters, vendored code | see `PROJECT.json` | numeric | | not modelled |

How they interact: the uploader puts raw bundles into the bucket and rows into the
table; the MPS processor adds feature folders beside the Aria recordings, every
night; the Aria and the Eva driver list the raw prefixes, convert what the table
says is still to do on Ray workers, replace the episode's objects in the bucket
and write the row; the Scale pipeline registers its own rows and folders;
converters produce their stores with the Zarr writer; training jobs read the table,
sync the stores it names and load them, and annotation jobs write into such local
copies. The table and the bucket are the state that all share, and no transaction
covers both. On a robot, processes of one host share memory.

Hard behaviours: the driver's snapshot is hours old when it is used; tasks finish in
any order; a worker, a driver or the MPS host may die between any two object-store
calls; Ray re-executes tasks; updates write whole rows; two threads share the MPS
disk; errors of reads are taken for absence; a file that exists is taken for a
file that is whole; a reader copies from memory that a writer is writing; spans are
counted with and without their ends. `PROJECT.json` lists each hazard at
its line, with the property that covers it or the reason none does.

## 2. Modules

| Module | What it models |
|---|---|
| `Conversion` | driver, task, episode table and bucket (`run_conversion.py`, `ray_helper.py`, `aws_sql.py`, `aws_data_utils.py`) |
| `ConversionProofs` | type correctness, what holds of the tasks whatever the command lines, the theorems about reprocessing, marks and errors, and those about published stores |
| `MCConversion` | constants for the runs of `Conversion` |
| `MpsBatches` | the MPS processor and `clean_mps.py` |
| `MpsBatchesProofs` | type correctness, the inductive invariant of `MpsBatches`, the safety theorems, and the sums of batches |
| `MCMpsBatches` | constants for the runs of `MpsBatches` |
| `EpisodeSync` | the resolver, `s5cmd` and the split of the names, by several processes on one directory (`zarr_dataset_multi.py`, `filters.py`) |
| `EpisodeSyncProofs` | type correctness, the inductive invariant and the safety theorems of `EpisodeSync` |
| `MCEpisodeSync` | constants for the runs of `EpisodeSync` |
| `EpisodeLog` | what a store promises its readers: the frames the writer was given, all of them and in order, or no episode |
| `ZarrWriter` | the writer (`zarr_writer.py`), which implements `EpisodeLog` |
| `EpisodeStore` | a store after its writer: annotation jobs and samples (`language_process/`, `ZarrDataset`); extends `ZarrWriter` |
| `ZarrWriterProofs` | the refinement, and the safety properties of `ZarrWriter` and `EpisodeStore` |
| `MCEpisodeStore` | constants for the run of `EpisodeStore` |
| `RingBuffer` | the ring buffer in shared memory with its one writer and its readers (`shared_memory_ring_buffer.py`, `spacemouse_shared_memory.py`) |
| `RingBufferProofs` | types, no torn reads, no waiting writer |
| `MCRingBuffer` | constants for the run of `RingBuffer` |
| `ScaleConversion` | one recording of Scale becomes episodes (`sfs_to_egoverse_zarr.py`, `sfs_data.py`) |
| `ScaleConversionProofs` | what the passes over flags, runs and goals compute, and the safety theorems of `ScaleConversion` |
| `MCScaleConversion` | constants for the runs of `ScaleConversion` |
| `ScalePipeline` | lists of tasks: download, convert, upload, register (`sfs_zarr_pipeline.py`, `scale_api.py`) |
| `ScalePipelineProofs` | the inductive invariant and the safety theorems of `ScalePipeline` |
| `MCScalePipeline` | constants for the run of `ScalePipeline` |
| `DemoRecorder` | `collect_demo.py`: buttons, engagement, recording, saving |
| `DemoRecorderProofs` | the inductive invariant and the theorems of `DemoRecorder` |
| `MCDemoRecorder` | constants for the run of `DemoRecorder` |

### Conversion

A variable or action per piece of code:

- `rows`, `sql`: the table. A row keeps whether a processed path is set, the
  preview path as `""`, `"key"` or `"None"`, the error text as the value of the
  branch that wrote it, and the deletion mark. Other columns are left out.
- `store`, `video`: an episode's objects. A store is `zarr.json` and its chunks;
  a partly uploaded set of chunks counts as no chunks.
- `todo`, `pending`, `held`: what `launch()` will still submit by its snapshot, its
  dictionary of submitted tasks, and the popped task with the row read for it. The
  step between `RayWait` and `RecordResult` is where a concurrent edit is lost.
- `task`: one Ray task per driver and episode. Its `stage` is the next call of
  `convert_one_bundle`; each S3 call is a step, and `UploadFails` and `WorkerDies`
  can happen at each.
- `Launch`, `SubmitConvert`, `RayWait`, `RecordResult`, `RetryOnBig`, `MarkFailed`,
  `MarkFailedFails`, `Return`, `DriverCrash` follow `launch()` from top to bottom.
  `RetryOnBig` includes the retry of a failed UPDATE whose text contains `oom`.
- `ResetProcessedPath`, `MarkDeleted`, `DeleteEpisodes`, `AddEpisode` are operators
  using the helpers of `aws_sql.py` (the mark is set by hand in the table).
- `orphaned` and `marked` are history variables: episodes whose last outcome was
  lost, and rows marked deleted while no driver held them.

Assumptions: a failed UPDATE has no effect; Ray kills the tasks of a dead driver;
`flock` in the cron entries gives one driver process per embodiment; the raw
prefixes of the embodiments give disjoint bundles; a successful
`delete_objects` call deletes all the keys it was given.

### MpsBatches

- `remote`: per recording and feature, the verdict of `summary.json` (`MISSING`
  also stands for a summary of another version, which the tool is assumed to
  recompute) and whether the other files are there.
- `disk[k]`: the directory `batch_k`; `Absent` is a recording that is not there.
- `fetch`: the download worker; `fetch.next` is the recording it downloads next.
- `pc`, `i`: the main thread inside `process_batch_no_download` for batch `i`.
- `report`, `known`: the report in the bucket and the one in the local directory.
- `Launch` is the listing and filtering part of `main()`, with `clean_mps.py` before it
  when the command line is that of `run_mps.sh`; `misread` is a recording whose
  summaries could not be read and were taken for missing. `CleanInterrupted` is a
  deletion of a folder that stops half-way.
- `CreateBatches` is one round of the loop of `create_batches`, with `need` its list
  of files and `filled` its `current_size`; the last batch of `plan` is its
  `current_batch`. `StartBatches` begins the loop of `main()`.
- `RunAriaMps` is both passes of the external tool: it leaves finished features
  alone, retries failed ones when told to, and at most one feature goes wrong per
  fault.
- `UploadFile` takes the recordings in order and the files of a folder in any
  order; `UploadFails` is the repeated upload of the `except` branch.
- `Crash` keeps the local disk or loses it (another host).

Left out: `--force`, `--max-batches`, `--dry-run`, failed size queries (counted as
size zero by the code), and two recordings of one base name in different folders.

### EpisodeSync

- `rows`, `bucket`, `latest`: the table, and per episode and file the version in the
  store. `zarr.json` and the chunks (as one file) are told apart because opening a
  store needs only the first. `Publish`, `MarkDeleted`, `Replace` and `Upload` are the
  rest of the system; a replaced store is deleted first and uploaded in order.
- `present`, `copy`: the local directories and the versions of their files. An
  episode is present as soon as it has a directory (`_episode_already_present`).
- `pc`, `split`: where the process is in `resolve()`, and for which dataset: `train`,
  then `valid` (the order of `trainHydra.py`), or `sync_only` for `sync_s3.py`.
- `listed`, `lines`, `copying`, `erred`: the filter's answer, the batch file of
  `s5cmd run`, the files of each line still to copy, and whether a line failed, which
  raises (`check=True`) when all are done.
- `indexing`, `names`: `_load_zarr_datasets` opens the directories in their sorted
  order; one that cannot be opened is logged and left out.
- `Choose` is `split_dataset_names` with the assertion of `MultiDataset`: names are
  sorted and shuffled with seed 42, so the held-out ones depend on their places and
  number only. `HeldOut` is a constant that gives the places.
- `torn` is a history variable: episodes one of whose copies was cut short, or was
  made while the store was being replaced. `BrokenExplained` says that these and
  running copies are the only causes of a broken directory.

Assumptions about `s5cmd`: a line lists source and target once and copies what
differs, it makes the episode's directory before the first file arrives, each file
appears at once, and it ends with the job. The presence test and the listing of
the directory are each one step. Left out: the further resolution that computes
normalization statistics, `LocalEpisodeResolver`, `debug`, the modes `total` and
`percent`, and what the predicates of a filter compute (`Wanted`).

### EpisodeLog, ZarrWriter and EpisodeStore

- `keys`, `length`, `data`, `annotations`, `meta`: the store. `meta` is `total_frames` of
  the metadata, without which no reader opens a store. A value is a number, and 0
  is the fill value; images and numeric arrays differ in when they are written and
  how they are padded.
- `pc` and the handle's `total`, `initialized`, `capacity`, `cursor` are those of
  `_IncrementalHandle`; `pending` is what is left of the loop over arrays that is
  under way. `write()` goes through `Write` and `WriteArray`, an incremental episode
  through `Enter`, `AddFrames` or `AddRaises`, `Exit` and `Finish`; both end with
  `Annotate` and `WriteMetadata`.
- `AddRaises` is a call that wrote some of its arrays and raised; the caller's `with`
  block ends or it goes on with the next frame. `Die` is everything that ends a
  writer between two steps.
- `given` and `spilled` are history variables: the frames that calls took over, and
  the cells that failed calls wrote. `Promise` maps `given` to the `log` of `EpisodeLog` and
  what a reader of the first `meta` cells sees to its `episode`.
- `EpisodeStore` adds a job (`job`, `overwrite`) and a data loader (`sampling`, `idx`,
  `attempts`), which see a store only when it is published. `StartJob`,
  `SkipIfPresent`, `RemoveKey`, `CreateArray`, `StoreEntries` are `process_episode` with
  `append_annotations(mode="w")`; `TryFrame` is one round of the loop in `__getitem__`.
- `ChunkEnd`, `CutoffEnd`, `TextSpans` and `Window` are pure: index arithmetic of samples.
  Frames are counted from 1, so an end is exclusive as in the code.

Left out: `write()` of arrays without frames, an image of a wrong rank in the very
first frame (which fails half-way through creating the arrays), shards and chunks as files,
the `features` entry of the metadata, and `mode="a"`, which no caller uses.

### RingBuffer

- `clock` counts ticks of `time.monotonic()`, which may pass between any two
  steps. `slots`, `stamps`, `count` are the shared arrays, time-stamps and counter;
  a slot holds, per array, the number of the item written last.
- The one writer (`putting`, `unwritten`, `wake`) writes array by array, then the
  stamp, then the counter. `BeginPut` is the test of the stamp; it starts only
  `Period` after the last put returned, as `Spacemouse.run` sleeps after a put, except
  for its very first one.
- A reader loads the counter, copies the cells of its items in any order, and
  raises if that took longer than the budget. `wrong` is what it has copied of another
  item.
- `SpareSlots` is the rounded up `frequency * budget * 1.5`.

Assumptions: one writer; a cell of an array is copied and written as a whole, so
that torn means a mixture of items across arrays or slots; memory is seen in program
order; `get()` comes after the ready event, that is, after the first put. `clear()`,
`put(wait=False)` and `SharedMemoryQueue` have no caller and are left out. The pacing
of the writer matters: without it TLC finds a torn read, because the writer sleeps by the stamp it read
before a long put. No such caller exists.

### ScaleConversion

- `frames`, `active`, `video`: a recording, the hands of its task and the length of
  its video. A frame says of each hand whether it was tracked, which hands were
  marked wrong, whether it is idle, and its sub-goal.
- `numbers`: where the keypoints of a hand come from: `seen`, `missing`, `filled` by
  interpolation, or `nan`. `Nullify`, `FillGap`, `LeaveGap`, `NextHand` are
  `interpolate_hand_gaps`, gap by gap, since a filled gap is an anchor of the next.
- `Filter`, `WriteEpisode`, `Finish` are the mask, the runs, the plan of
  sub-episodes and the loop that writes them with their rows of sub-goals.
- `AnnotationTexts` is the other side of these rows: what the reader of episodes
  (`_annotation_text_for_frame`) finds for a frame. `GoalsRead` joins the two.

The velocities decide nondeterministically whether a gap is filled (`LeaveGap`),
except at an edge, where no velocity is compared. Assumption about SciPy: a spline is
not a number outside its anchors, and an anchor that is none makes it raise. Decoding
drops no frame. A hand that is missing and that nobody marked is written as
zeros; the code's comments say so too.

### ScalePipeline

- `source`: what Scale has of each task, which never changes: enough for an episode
  (`good`), no response under that id, no left video (or no scene, which fails at the
  same place), no poses, or no stretch of frames
  that is long enough (the end of the video included). Where it is not `good`,
  `convert_task_to_zarr` raises in every run, each kind at its place in
  `ConversionFails`, and the table says nothing of the task.
- `rows`, `folders`: the table, and the output folders, each with its task, what is
  in the bucket, and whether frames are missing at its end. A folder is named by
  its time of creation and never used again.
- `file`: the download directories; a file is `none`, `empty`, `cut` or `whole`. `Open`,
  `WriteSome`, `Close` are `download_file_in_chunks`; two jobs of one task share the
  directory, and `Write` ends with the `rmtree` of it. A job whose file another job
  has truncated (`spoiled`) does not make it whole: its later bytes are there, the
  earlier ones are not.
- `list`, `job`: the task list of the running process and a job per entry that the
  table did not exclude. `Launch` is everything up to the pool, `Start` a free
  worker. The other steps of a job follow `run_task`.
- `disturbed` and `reopened` are history variables: tasks with a broken download
  of a video or with two jobs, and tasks reset or marked under a running job.

The options are `--upload-s3 --register-sql`. The SQL check of all tasks is one step;
nobody else writes rows meanwhile but by hand. `AskFails` is a call to the API that
fails; the code does not repeat it. `Readable` is external: what a decoder
makes of a cut video is its choice, an error or a shorter one. Left out:
`--limit`, the progress file, the local output folders.

### DemoRecorder

- `pc` is where `collect_demo` stands: waiting for the first images, for an episode id, in
  the inner loop, or ended. `latest` is what the thread of each camera holds; it
  changes between any two steps (`CaptureLoop`) and never goes back to `None`.
- A step of the loop takes a sample: the buttons, and a trigger per hand that is
  `released`, `half` or `pressed`, the two thresholds of the hysteresis. `SaveByButton`,
  `Return`, `GoOn` and `StopAtLength` are the ways out of the loop's body; what B, X
  and Y do on the way is in the operators from `Edge` to `Row`, in the code's order.
- `up` stands for the previous sample: the buttons it saw up. A sample with A ends
  the process, so that the empty set can only mean `None`.
- Of a command, a row keeps the recording it was computed in, or that it is the
  arm's state or zeros; of an image its checksum; a file keeps the recording in it.
- `take`, `lifted` and `carried` are history variables.

`SaveNothing` is B before the first row of a recording: HDF5 refuses a data set of no
rows whose chunks hold one, so `save_demo` raises after it has emptied the file, and the
process ends. A sample that cannot be read changes nothing and has no action. Left out: poses
and the motion itself, calibration, and the other exceptions of `save_demo` (a full disk),
which end the process too. Of two cameras, both threads run alike; `get_obs` is one step.

## 3. Runs

| Run | Instance | Properties | What it shows |
|---|---|---|---|
| `conversion_cron` | two drivers, an episode each, `--skip-if-done`, 2 launches, 1 edit | `PublishInv`, `PublishedComplete`, `PublishedFrozen` | the nightly system never lets a row name a store that is not whole, and never touches a store that a row names; the invariant of the proofs is inductive in fact |
| `conversion_manual` | one driver and episode, every command line, 1 Ray retry, 3 launches, 2 edits, fair | `DanglingExplained`, `DeletionSticks`, `ErrorsAreSticky`, `LaunchEnds` | what remains true with reprocessing and dry runs, and that a launch always ends; that errors are left alone is seen for one driver here, and proved for any number of them and of stale snapshots |
| `mps_nightly` | two recordings of two features, one per batch, 2 faults, fair | `DiskBound`, `CompleteStays`, `Converges` | the nightly run under crashes, failed prefetches, failed uploads and misread summaries |
| `mps_manual` | three recordings of sizes 1, 1, 2, target 2, runs without cleaning, 2 faults | `ReportTruth`, `BatchesFit`, `BatchesPartition`, `BatchReady`, `MpsInv` | batches of several recordings, left-over directories, the report; the invariant of the proofs |
| `episodes_shared` | two processes, two episodes, 2 starts, 1 edit, 1 fault, symmetric processes | `SyncInv`, `BrokenExplained`, `LeakExplained`, `SettledStays` | what a broken directory, or an episode in both splits, can be blamed on; a settled directory never changes; the invariant of the proofs |
| `episodes_ranks` | as before, no edit and no fault | `IndexedAreWhole` (violated) | a rank opens what another rank is still copying |
| `episode_store` | a numeric and an image key, up to 3 frames, chunks of 2, batches of 2, 2 episodes at one path, 1 fault, 1 job, overlapping annotations, horizons 1 and 3 | `Promise`, `ArraysAligned`, `BlankExplained`, `AnnotationsExplained`, `PlainJobsSkip`, `WindowsStayInside`, `CutoffMatchesText`, `SamplingEnds` | the writer implements `EpisodeLog` in both modes; blanks and lost annotations are explained, and the search of a sample ends; windows and cutoffs are right |
| `ring` | two arrays, `get_max_k` 2, budget 2 ticks, period 1 tick, 6 puts, one reader | `ReadsWhole`, `RateSustained` | five slots suffice: reads are whole and the writer never sleeps in `put` |
| `scale_conversion` | all recordings of up to 6 of 5 kinds of frames, gap limit 1, context 3, episodes of 2 to 3 frames, one or both hands | `EpisodesTile`, `HandsExplained`, `GoalsRead` | the algorithms against what they are for, over every such recording, and the rows of sub-goals as the reader reads them |
| `scale_edge` | as before | `UnrepairedAreDropped` (violated) | a gap at the edge is filled with values that are no numbers |
| `scale_pipeline` | two tasks, one good and one of any source and twice in the list, two workers, 7 folders, 1 fault, 1 edit of the latter, fair | `RegisteredWhole`, `ShortExplained`, `MarksStick`, `Converges` | rows, folders and marks through kills, failed calls and repeated runs, and that a task whose data is good gets registered or has a broken file in its way, whatever becomes of the other |
| `demo_recorder` | one arm, both hands, one camera with two images, threshold 1, 2 recordings of up to 3 rows, with and without a length of 2 and counted ids | `CommandsOfThisTake`, `FramesExplained`, `SavedAsRecorded`, `OnePressOneThing` | whatever the operator presses and holds, images stay with their steps and commands with their recording, zero frames go stale only under a held trigger, and each press does one thing |

Bounds. An episode's fate depends on its own row, objects and task, and on the
driver's dictionaries, which treat episodes alike; two episodes of two drivers
show every interference between drivers, and one episode with three launches shows a
first conversion, a reprocessing of it and a third attempt after either was
interrupted. Two edits are enough for a mark or deletion and its undoing.
`RayRetries` of one reaches both outcomes of a dead worker. Two MPS batches are
what prefetching needs, three recordings of two sizes give batches of one and of
two, and two faults give a failure and a failure of what repairs it. Two
processes on one directory overlap in every way two can, in their presence tests,
copies and openings, and a process that was killed starts again; a second episode
lets one line be copied while the other waits. `HeldOut` has the values that seed 42
and the ratio 0.2 give for one, two and three names. Every counter with a bound (`MaxLaunches`,
`MaxEdits`, `MaxStarts`, `MaxFaults`) only limits how often the environment acts.

Three frames and chunks of two make an episode that ends inside a chunk, at its end, and one
that outgrows its first allocation; a second episode at the path shows what the first
leaves behind. Two arrays and two items are what a read can mix; six puts go
around five slots, and the clock goes on for a budget after the last put begins.
Six frames hold a gap with anchors on both sides, at each edge, two gaps that
share anchors, two runs, and a run cut in two. In `scale_pipeline` a task that is
listed twice has two jobs at a time, which share its directory; one fault leaves a
download in pieces or a row unwritten, one edit sets a mark or takes a path away. The
task of one job is always good: another kind of it would only take up a worker, as the
twice listed one of that kind does, and the rows of the two do not meet. Seven
folders are more than these can make necessary: at that bound a job would stop
for good, which `Converges` and the check for deadlock would report.

Two recordings show what one leaves to the next; three rows hold a repeated image
and one after it, and the length of two is reached before that bound. Samples have
at most one button, or B and X, and the left trigger is never half pressed.

Runs do not check for deadlock, except `scale_pipeline`, whose process can
always be started again: elsewhere, when the bounds are used up, the system may stop.

Fairness. `Conversion`: a live driver keeps executing its loops and Ray keeps
executing the tasks it was given (weak fairness of `DriverStep` and of each
task). Nothing obliges anybody to launch, to edit or to fail. `MpsBatches`: cron
starts the processor again (weak fairness of `Launch`), and the two threads go on
as long as they can. `EpisodeSync` states safety only and has no fairness: a
resolver waits for nothing but its own `s5cmd`. `EpisodeStore`: the loop of
`__getitem__` runs on (weak fairness of `TryFrame`). `ScalePipeline`: the operator runs
every list again and again (strong fairness of `Launch`, which is possible only between
runs), and some job that can go on does (weak fairness of all job steps together).
`RingBuffer`, `ScaleConversion` and `DemoRecorder` state safety only. No assumption promises that a call succeeds; only the
number of faults is bounded.

## 4. Proofs

`ConversionProofs` proves `TypeCorrect`, `Spec => []TypeOK`, from
`ConversionAssumption` alone; one lemma for the driver, the task and the
operators each.

For any command lines it proves `TasksAccounted`: every task in flight is in its
driver's dictionary (`Bookkeeping`) and has the stages behind it that its stage
says (`UploadsWhole`). On it rest the theorems about reprocessing.
`DanglingIsExplained` needs that whoever leaves a store in pieces under a row is in
flight or noted in `orphaned`, and that a row recorded anew is recorded for a
whole store. `DeletionsStick` needs that a row held for an update was read
with the mark, if the episode is marked (`HeldMarked`), and `ErrorsStaySticky` that what is still to
be submitted has no error in the table, though the snapshot is hours old: no
other driver can have written one, because their bundles are disjoint.

Under `SkipIfDone` (every command line used has `--skip-if-done`) it proves
`Published`, `PublishedAreComplete` and `PublishedAreFrozen`.
`PublishedComplete` is not inductive by itself: that a task may delete a store
without harm needs that the row of an episode in flight names no store
(`Unpublished`), which needs that snapshots, dictionaries and held rows of the
drivers are disjoint and within their own bundles (`Bookkeeping`), and that a
result of positive frames is recorded for a whole store needs that the stages
upload in order (`UploadsWhole`). `PublishInv` is the conjunction; each action
is shown to preserve each part it can disturb. `PublishedFrozen` then follows: a
step that changes a store is a step of a task, its episode is in flight, and so
its row names no store.

`MpsBatchesProofs` proves `MpsInvariant`, the inductive
`TypeOK /\ MpsInv`, from `MpsAssumption` (sizes are naturals, `Sorted` lists each
recording once, `Absent` is no folder), and from it `MpsTypeCorrect`,
`BatchesAreReady`, `DiskIsBounded`, `BatchesArePartition` and `CompletedStay`.
`BatchReady` is not inductive by itself: the directory is complete when the
tool starts because the worker fills it in order from an empty one (`Fetched`),
and nobody else touches it because the worker is at `i` while the main thread
waits and at `i + 1` while it works (`Schedule`). `CompleteStays` needs that an upload
never replaces a finished summary by another one: a directory in use is never
behind the bucket (`InSync`). That survives the upload of a batch while the next
one is being fetched only because no recording is in two batches
(`BatchesPartition`). `ReportIsTrue` adds that no command line cleans
(`NoCleaning`): `clean_mps.py` removes folders the report still calls `OK`.
`BatchesDoFit` says that batches of several recordings fit the target size. The
code keeps a running `current_size`; that it is the sum over the batch under
construction is the invariant (`FitInv`), and that a sum grows by the size of what is
appended is shown by induction over the partial sums (`TotalGrows`).

`EpisodeSyncProofs` proves `SyncInvariant`, the inductive `TypeOK /\ CopyInv /\
NamesInv`, from `SyncAssumption`, and from it `SyncTypeCorrect`, `BrokenAreExplained`,
`LeaksAreExplained` and `SettledStay`. `BrokenExplained` is not inductive by itself: that
a directory is whole when the last of several overlapping copies ends needs that
each of its files is up to date or still on the list of one of them
(`FilesUnderWay`); a process that sees a half-filled directory copies only what it
found missing, and the rest is in the hands of the others. `LeakExplained` follows
from the way the two resolutions relate: what was opened stays readable
(`OpenedStayReadable`, no action removes a local file), was in the first list
(`OpenedAreListed`), and is opened again if it is in the second (`OpenedAgain`); equal
sets of names then have equal places. `SettledStays` needs the types and that a
process plans to fetch only what it found missing.

`ZarrWriterProofs` proves `WriterKeepsPromise`, that the writer implements `EpisodeLog`, from
`WriterAssumption` and `StoreAssumption`: each step maps to `Begin`, `Extend`, `Publish` or a
stutter. Publishing needs that every cell below the cursor holds what its frame gave,
as soon as its array is written, while arrays grow, are trimmed and are padded, and that nothing
is published before the loop over the arrays is done; the lengths of the arrays
and the handle's idea of them agree throughout. The same invariant gives
`ArraysStayAligned` and, with `spilled`, `BlanksAreExplained`; jobs and loader do not touch
what it speaks of. `AnnotationsAreExplained`, `PlainJobsOnlyRepair` and `GivingUpIsExplained` have
short invariants about the job and the tries (a loader that has failed before
has seen another bad frame). `WindowsShowFrames` is index arithmetic on the invariant.
`CutoffsMatchTexts` rests on `LastSpan`: of the spans that contain a frame there is a last
one, whose end is what the table of ends keeps for the frame, since a later span
overwrites an earlier one.

`RingBufferProofs` proves `RingTypeOK`, `ReadsAreWhole` and `PutsNeverWait` from
`RingAssumption`, for any arrays, readers, `get_max_k`, budget and period. A read is whole
because the item that a slot will be given next is at least a budget younger than
the stamp that the writer compared, `get_max_k` items further; stamps grow with
the items, so the writer reaches no slot of a reader before its budget is over,
after which the read raises. The writer never waits because between an item and
the one that replaces it lie as many periods as there are spare slots, and these
last for at least one and a half budgets; the first two puts, which are not
paced, are what part of the margin is for.

`ScalePipelineProofs` proves `PipelineInvariant` from `PipelineAssumption`, and from it
`RowsLeadToWholeFolders`, `MissingEndsAreExplained` and `MarksAreKept`. `RegisteredWhole`
needs that a job which uploads or registers has a folder of its own task, and has
it whole in the bucket before it registers (`FolderInv`). `ShortExplained` needs to
know which videos can be cut: one that is not complete is open in a job of its
task, or its task is in `disturbed` (`VideoInv`, with `FetchInv`: only a job that fetches
has open files, and `PairInv`: two jobs of one task at once are noted); and so what a
job may have counted or put in a folder (`ShortInv`); that a file was truncated under a
job also means that its task had two (`SpoiledInv`). `MarksStick` needs that only a
row that was reset has no path, and that a task whose row is marked while a job
of it is in flight has been reset since (`MarkInv`).

`ScaleConversionProofs` proves, from `ScaleAssumption`, `ConversionTypeCorrect`,
`EpisodesDoTile`, `GoalsAreRead` and `HandsAreExplained`, for recordings of any
length. Each recursive pass is shown to exist (`RecursionExists`) and to keep an
invariant of its own: what is open and what is closed after i flags (`FlagInv`),
where the next cut begins (`CutInv`), what the runs so far contributed (`SplitInv`), which goal
the rows so far left open (`GoalInv`). So the runs are the maximal stretches, the pieces of
a run leave out only a tail, and the rows of an episode are closed where the goal
changes (`Ended`), which with the reader's comparison gives the frames that have a text
(`ReadBack`). `Planned` then says that the episodes written and those still planned
are together the sub-episodes. `HandsExplained` needs that the gaps still to
be looked at end at frames that were seen (`GapsOpen`): a window longer than the
limit that reaches over a filled gap has such a frame at its end (`FilledShort`); and what is
no number reaches to an end of the recording (`NansEdged`, `EdgeGap`). The
theorem has the hypothesis `MaxGap # 0`: the limit is 15 by default, and
`--max-interp-gap 0` turns off the interpolation together with the removal of the
hands that were marked wrong, so that they are written as they are.

`DemoRecorderProofs` proves from `RecorderAssumption` that `RecInv` is inductive, and from it
`RecorderTypeCorrect`, `CommandsAreOfTheTake`, `FramesAreExplained`, `PressesDoOneThing` and
`SavedIsRecorded`. An arm without a command to repeat has not been moved in this
recording (`Remembered`), so its state may stand for a command; a recording that is
going on was started, and its bar counts its rows (`Going`), so the length asked for
is not exceeded, and a recording of no rows ends the process and not the recording; B
counts as up only if it was seen up since it last did something
(`Lifted`); and counted ids from the present one on are unused (`Counting`). What
`has_stuck_frames` computes by counting repeats is shown, by induction over the
rows, to be the existence of a window of equal images (`StuckFrames`).

Induction. The induction theorems of the library take a predicate as a parameter, which the
provers cannot instantiate. The proofs use the library's well-foundedness of the naturals
instead: a set of naturals that is not empty has a least element (`Least`), so a set
that contains 0 and every successor contains all (`NatInd`). What a recursive
function computes is then proved by showing that such a set contains every
argument. The recursions of the models are written as functions for this reason.

The assumptions on constants are those the code justifies: the fields of a frame
have the values that the loader gives them, clips of annotations are drawn on
the frames of the video (the end of a span is at least 1, and spans may be empty),
and a missing image is neither an image nor a number.

The proofs hold for any number of episodes, drivers, launches, edits and Ray
retries, for any recordings, features, sizes and faults, for any number of
processes, episodes and any `HeldOut`, and for the constants named above. TLC alone checks
liveness (`LaunchEnds`, both `Converges`, `SamplingEnds`), which needs fairness and ENABLED,
and finds the two violations. Every invariant and every action property of the passing
runs is also a theorem. The runs leave out the type invariants and
`ExhaustedExplained`, which are proved for every value of the constants.

## 5. Findings and observations

Two runs expect a violation:

1. `episodes_ranks`: the resolver "syncs S3 paths to local_root before indexing"
   (`zarr_dataset_multi.py:330`), but a directory that another rank is filling, or a
   kill left behind, counts as present. It is opened if its metadata is there.
2. `scale_edge`: frames whose tracking error was not repaired are said to be dropped
   (`sfs_to_egoverse_zarr.py:22`), but a short gap at the first or last frame of a
   recording is filled with values that are no numbers, passes the velocity check and is kept.

Observations that passing runs state exactly, so that a change of either side breaks them:

- The Scale converter ends the rows of sub-goals with their last frame
  (`sfs_to_egoverse_zarr.py:486`), the reader takes that for the first frame after
  (`zarr_dataset_multi.py:998`, `1150`): the last frame of every span, and every span of one
  frame, is read without its text. `GoalsRead` says that these frames have none and that
  all others have their own.
- A task of which Scale has no response, no left video or no poses, or whose frames do not
  make a run of the least length, fails in every run (`sfs_to_egoverse_zarr.py:535`, `544`,
  `568`, `631`), after being downloaded again where its files were removed; neither the
  table nor the exit code keeps it apart from one that will work next time. `Converges`
  speaks of the other tasks only.
- A recording that B stops before its first row (no controller was engaged) raises in
  `save_demo` (`collect_demo.py:569`): the file is left without a recording, also where it
  held one, the id is not counted, and the process ends. `SavedAsRecorded` names the case.
- Training and validation sets are split from two resolutions; a row marked deleted between
  them moves the places, and an episode is trained on and held out. `LeakExplained`
  says that nothing else does.

Observations made while modelling, which no run checks:

- `convert_one_bundle` returns `str(mp4_path)` (`ray_helper.py:657`) although `mp4_path`
  is `None` without a preview; the documented value is `''` (`ray_helper.py:285`).
- The MPS filter is documented to skip features known to have failed
  (`s3_parallel_processor.py:615`), but it can only skip recordings.
- The bucket is called the source of truth (`s3_parallel_processor.py:612`), but an
  upload interrupted by a crash leaves a summary that says success beside missing files, and only the
  summary is ever read.
- The writer creates an `annotations` array for every episode
  (`zarr_writer.py:322`, `405`), so annotation jobs without `--overwrite` skip all of
  them; only what a job that died has removed is written (`PlainJobsSkip`). Until then readers
  of that store raise.
- "Entire episode bad" is raised also when a good frame exists
  (`zarr_dataset_multi.py:158`): frames that failed may be drawn again. A frame added
  without its image is such a frame.
- A video shorter than its scene is a warning only (`sfs_to_egoverse_zarr.py:605`), so a
  cut download may become a shorter recording, registered for good.
- A file of a download that exists is not fetched again (`scale_api.py:107`); an empty scene or an
  unreadable cut video blocks its task until somebody removes it.
- A registration that fails is logged `ok` and the exit code is 0
  (`sfs_zarr_pipeline.py:447`); the next run converts into a new folder and leaves the
  old one behind.
- `--delete-local` without `--upload-s3` deletes conversions that were never uploaded
  (`sfs_zarr_pipeline.py:221`).
- An arm whose trigger is held while the robot goes home (B or Y) keeps the zero frames
  of before, so that it is sent back from home to where the hand points
  (`collect_demo.py:724`, `767`, `790`). `FramesExplained` says that nothing else lets frames go stale.
- When the inverse kinematics fail while recording, the arm's part of the row stays zeros,
  its observed joints included, and the row is recorded (`collect_demo.py:832`).
- Rows are recorded while either controller is engaged, also one whose arm is not collected
  (`collect_demo.py:902`).
- A recording that is dropped for a stuck camera is announced as saved, and its id is
  counted (`collect_demo.py:712`, `718`, `719`); Y drops a recording as X does.
- A press of B in the sample after a recording stopped by its length is swallowed: the
  previous sample is forgotten.

## 6. Plan

Done: `Conversion`, `MpsBatches`, `EpisodeSync`, `EpisodeLog` with `ZarrWriter` and
`EpisodeStore`, `RingBuffer`, `ScaleConversion`, `ScalePipeline`, `DemoRecorder`, each with the
theorems of its safety properties. Left, in this order:

1. The composition of `Conversion` with `MpsBatches` (readiness of Aria bundles, cleaning
   of folders that conversions read) and with `EpisodeSync` (a reader that copies a
   store while rows change).
2. An abstract specification of the Scale conversion (which frames an episode may have,
   chosen freely) that `ScaleConversion` implements.
3. `Guardrails` (idle and uptime limits against a state file) and raw ingestion.

## 7. Not modelled

Rollout, training, policies, transforms, and the Zarr converters of Aria and Eva are numeric
code around libraries: their discrete state is a loop index, and what could be wrong with
the numbers is out of reach of a model checker. The legacy LeRobot converters are superseded
by the Zarr path. Vendored code (`external/lerobot`, `external/rpl_vision_utils`, the AWS
command line) belongs to others. The guardrails, raw ingestion and the uploader have
protocols worth modelling and are in the plan.
