---------------------------- MODULE ScalePipeline ----------------------------
(***************************************************************************)
(* sfs_zarr_pipeline.py with --upload-s3 --register-sql.  The process      *)
(* takes a list of tasks, leaves out those whose row has a path, and lets  *)
(* a pool of workers download, convert, upload and register the rest.  A   *)
(* download directory is named by its task and outlives a failed job; the  *)
(* folder of a conversion is named by its time and used once, so folders   *)
(* are numbered here.  What a conversion writes is in ScaleConversion.     *)
(***************************************************************************)
EXTENDS Integers, FiniteSets, Sequences

CONSTANTS
  Task,         \* Scale task ids
  Sources,      \* what Scale may have of them, see Source
  Lists,        \* the task lists given on the command line
  Workers,      \* --workers
  MaxFolders,   \* bound: conversions that get as far as a folder
  MaxFaults,    \* bound: calls that fail, and kills of the process
  MaxEdits,     \* bound: changes of the table by hand
  Edited        \* bound: the tasks whose rows they change

(* What Scale has of a task is good for an episode, or it is not: no task or *)
(* no response under that id, no left video in the response, no poses in the *)
(* scene, or no stretch of frames that is long enough.                       *)
Source == {"good", "unanswered", "unseen", "unposed", "unusable"}

ASSUME PipelineAssumption ==
  /\ Lists \subseteq Seq(Task) /\ Sources \subseteq [Task -> Source] /\ Edited \subseteq Task
  /\ Workers \in Nat /\ MaxFolders \in Nat /\ MaxFaults \in Nat /\ MaxEdits \in Nat

VARIABLES
  source,    \* what Scale has of each task
  rows,      \* the table: whether the row exists, its path, its deletion mark
  file,      \* file[t][f]: how much of the file is in the download directory
  folders,   \* the conversions: their task, whether frames are missing at the
             \*   end, and how much of them is in the bucket
  list,      \* the task list of the running process
  job,       \* the state of each
  faults, edits,
  disturbed, \* history: tasks whose video was cut off, or that had two jobs
  reopened   \* history: tasks reset, or marked while a job for them ran

vars == <<source, rows, file, folders, list, job, faults, edits, disturbed, reopened>>
-----------------------------------------------------------------------------
(* The SFS scene stands for itself and the annotations: they are treated     *)
(* alike.  The right camera is downloaded and never read.                    *)
File == {"scene", "video"}
Nothing == [f \in File |-> "none"]
NoPath == 0
NoRow == [exists |-> FALSE, path |-> NoPath, deleted |-> FALSE]
Entries == 1..Len(list)

(* A job fetches the files in todo, has those in open under its pen, those   *)
(* in spoiled since before another job truncated them, and has had its scene *)
(* fetched again when again holds.                                           *)
Job(pc) == [pc |-> pc, todo |-> {}, open |-> {}, spoiled |-> {}, again |-> FALSE,
            short |-> FALSE, folder |-> NoPath]
Over == {"skipped", "ok", "failed"}
Active(i) == job[i].pc \notin Over \cup {"queued"}
InFlight(t) == \E i \in Entries : list[i] = t /\ job[i].pc \notin Over
Idle == \A i \in Entries : job[i].pc \in Over

Init ==
  /\ source \in Sources
  /\ rows = [t \in Task |-> NoRow] /\ file = [t \in Task |-> Nothing]
  /\ folders = <<>> /\ list = <<>> /\ job = <<>>
  /\ faults = 0 /\ edits = 0 /\ disturbed = {} /\ reopened = {}

Fault == faults < MaxFaults /\ faults' = faults + 1
Goto(i, pc) == job' = [job EXCEPT ![i].pc = pc]
Finish(i, pc) == job' = [job EXCEPT ![i] = Job(pc)]
-----------------------------------------------------------------------------
(* Mutant: a task that is marked deleted counts as one to be done.           *)
ProcessedUnlessDeleted(t) == rows[t].exists /\ rows[t].path # NoPath /\ ~rows[t].deleted

(* The table is asked about every task once, before the first job starts.    *)
Processed(t) == rows[t].exists /\ rows[t].path # NoPath

Launch(l) ==
  /\ Idle
  /\ list' = l
  /\ job' = [i \in 1..Len(l) |->
               Job(IF Processed(l[i]) THEN "skipped" ELSE "queued")]
  /\ UNCHANGED <<source, rows, file, folders, faults, edits, disturbed, reopened>>

(* A file that exists is not fetched, however much of it there is.           *)
Missing(t) == {f \in File : file[t][f] = "none"}

Begins(i) ==
  /\ job[i].pc = "queued" /\ \A j \in Entries : j < i => job[j].pc # "queued"
  /\ Cardinality({j \in Entries : Active(j)}) < Workers

(* The response to a task names the files it has.                            *)
Offered(t) == IF source[t] = "unseen" THEN File \ {"video"} ELSE File

Start(i) ==
  /\ Begins(i) /\ source[list[i]] # "unanswered"
  /\ job' = [job EXCEPT ![i].pc = "fetch",
                        ![i].todo = Missing(list[i]) \cap Offered(list[i])]
  /\ disturbed' = IF \E j \in Entries : Active(j) /\ list[j] = list[i]
                  THEN disturbed \cup {list[i]} ELSE disturbed
  /\ UNCHANGED <<source, rows, file, folders, list, faults, edits, reopened>>

(* get_simple_response_dict_egocentric: a call that fails is not repeated.   *)
AskFails(i) ==
  /\ Fault /\ Begins(i) /\ Finish(i, "failed")
  /\ UNCHANGED <<source, rows, file, folders, list, edits, disturbed, reopened>>

(* download_file_in_chunks: the request, the truncating open, the chunks.    *)
Open(i, f) ==
  /\ f \in job[i].todo
  /\ job' = [j \in Entries |->
               IF j = i THEN [job[i] EXCEPT !.todo = @ \ {f}, !.open = @ \cup {f}]
               ELSE IF list[j] = list[i] /\ f \in job[j].open
                    THEN [job[j] EXCEPT !.spoiled = @ \cup {f}]
               ELSE job[j]]
  /\ file' = [file EXCEPT ![list[i]][f] = "empty"]
  /\ UNCHANGED <<source, rows, folders, list, faults, edits, disturbed, reopened>>

WriteSome(i, f) ==
  /\ f \in job[i].open /\ file[list[i]][f] = "empty"
  /\ file' = [file EXCEPT ![list[i]][f] = "cut"]
  /\ UNCHANGED <<source, rows, folders, list, job, faults, edits, disturbed, reopened>>

(* The last to open a file writes all of it.  A job whose file was truncated *)
(* in the meantime goes on where it was, and completes no one else's file.   *)
Close(i, f) ==
  /\ f \in job[i].open
  /\ job' = [job EXCEPT ![i].open = @ \ {f}, ![i].spoiled = @ \ {f}]
  /\ file' = [file EXCEPT ![list[i]][f] =
                IF f \in job[i].spoiled /\ @ # "whole" THEN "cut" ELSE "whole"]
  /\ UNCHANGED <<source, rows, folders, list, faults, edits, disturbed, reopened>>

(* A request that fails and a connection that breaks are only printed.       *)
FetchFails(i, f) ==
  /\ Fault /\ f \in job[i].todo \cup job[i].open
  /\ job' = [job EXCEPT ![i].todo = @ \ {f}, ![i].open = @ \ {f}, ![i].spoiled = @ \ {f}]
  /\ disturbed' = IF f = "video" /\ f \in job[i].open
                  THEN disturbed \cup {list[i]} ELSE disturbed
  /\ UNCHANGED <<source, rows, file, folders, list, edits, reopened>>
-----------------------------------------------------------------------------
(* Mutant: the downloads are begun and not waited for.                       *)
FetchedUnawaited(i) == job[i].pc = "fetch" /\ job[i].todo = {}

(* convert_task_to_zarr after the download.  Without a video it gives up at  *)
(* once, and where the scene is empty; a scene that does not load is removed *)
(* and fetched once more.                                                    *)
Fetched(i) == job[i].pc = "fetch" /\ job[i].todo = {} /\ job[i].open = {}
NothingToLoad(t) == source[t] = "unseen" \/ file[t]["scene"] \in {"none", "empty"}
Loads(t) == file[t]["scene"] = "whole" /\ source[t] # "unposed"

(* Mutant: the scene that does not load is not removed.                      *)
RefetchKept(i) ==
  /\ Fetched(i) /\ ~job[i].again /\ ~NothingToLoad(list[i]) /\ ~Loads(list[i])
  /\ job' = [job EXCEPT ![i].again = TRUE, ![i].todo = Missing(list[i])]
  /\ UNCHANGED <<source, rows, file, folders, list, faults, edits, disturbed, reopened>>

(* Another job of the task that was writing the scene has lost it.           *)
Refetch(i) ==
  /\ Fetched(i) /\ ~job[i].again /\ ~NothingToLoad(list[i]) /\ ~Loads(list[i])
  /\ file' = [file EXCEPT ![list[i]]["scene"] = "none"]
  /\ job' = [j \in Entries |->
               IF j = i THEN [job[i] EXCEPT !.again = TRUE,
                                            !.todo = Missing(list[i]) \cup {"scene"}]
               ELSE IF list[j] = list[i]
                    THEN [job[j] EXCEPT !.open = @ \ {"scene"}, !.spoiled = @ \ {"scene"}]
               ELSE job[j]]
  /\ UNCHANGED <<source, rows, folders, list, faults, edits, disturbed, reopened>>

(* What the decoder makes of a video that stops early depends on the         *)
(* container: it cannot open it, or it finds the frames before the cut.      *)
Readable(t, short) ==
  \/ file[t]["video"] = "whole" /\ ~short
  \/ file[t]["video"] = "cut" /\ short

Load(i) ==
  /\ Fetched(i) /\ ~NothingToLoad(list[i]) /\ Loads(list[i]) /\ source[list[i]] # "unusable"
  /\ \E short \in BOOLEAN :
       /\ Readable(list[i], short)
       /\ job' = [job EXCEPT ![i].pc = "write", ![i].short = short]
  /\ UNCHANGED <<source, rows, file, folders, list, faults, edits, disturbed, reopened>>

(* The frames are read from the video again, the download directory is       *)
(* removed, and with it the files that a second job of the task was writing. *)
Write(i) ==
  /\ job[i].pc = "write" /\ Len(folders) < MaxFolders
  /\ \E short \in BOOLEAN :
       /\ Readable(list[i], short)
       /\ folders' = Append(folders, [task |-> list[i], short |-> job[i].short \/ short,
                                      bucket |-> "none"])
  /\ file' = [file EXCEPT ![list[i]] = Nothing]
  /\ job' = [j \in Entries |->
               IF j = i THEN [job[i] EXCEPT !.pc = "upload", !.folder = Len(folders) + 1]
               ELSE IF list[j] = list[i]
                    THEN [job[j] EXCEPT !.todo = {}, !.open = {}, !.spoiled = {}]
               ELSE job[j]]
  /\ UNCHANGED <<source, rows, list, faults, edits, disturbed, reopened>>

(* The task has no response, or its files are of no use, now or ever.        *)
ConversionFails(i) ==
  /\ \/ Begins(i) /\ source[list[i]] = "unanswered"
     \/ Fetched(i) /\ NothingToLoad(list[i])
     \/ Fetched(i) /\ ~Loads(list[i]) /\ job[i].again
     \/ /\ Fetched(i) /\ Loads(list[i])
        /\ source[list[i]] = "unusable" \/ file[list[i]]["video"] # "whole"
     \/ job[i].pc = "write" /\ file[list[i]]["video"] # "whole"
  /\ Finish(i, "failed")
  /\ UNCHANGED <<source, rows, file, folders, list, faults, edits, disturbed, reopened>>
-----------------------------------------------------------------------------
(* aws s3 sync; its return code is read.                                     *)
BeginUpload(i) ==
  /\ job[i].pc = "upload" /\ folders[job[i].folder].bucket = "none"
  /\ folders' = [folders EXCEPT ![job[i].folder].bucket = "partial"]
  /\ UNCHANGED <<source, rows, file, list, job, faults, edits, disturbed, reopened>>

EndUpload(i) ==
  /\ job[i].pc = "upload" /\ folders[job[i].folder].bucket = "partial"
  /\ folders' = [folders EXCEPT ![job[i].folder].bucket = "whole"]
  /\ Goto(i, "register")
  /\ UNCHANGED <<source, rows, file, list, faults, edits, disturbed, reopened>>

(* Mutant: the return code is not read.                                      *)
UploadFailsUnread(i) ==
  /\ Fault /\ job[i].pc = "upload" /\ Goto(i, "register")
  /\ UNCHANGED <<source, rows, file, folders, list, edits, disturbed, reopened>>

UploadFails(i) ==
  /\ Fault /\ job[i].pc = "upload" /\ Finish(i, "failed")
  /\ UNCHANGED <<source, rows, file, folders, list, edits, disturbed, reopened>>

(* register_in_sql: an INSERT, and an UPDATE of the whole row where there is *)
(* one.  When both fail, or the INSERT fails and there is no row, the table  *)
(* stays as it is and the task is logged as ok all the same.                 *)
RegisteredRow(i) == [exists |-> TRUE, path |-> job[i].folder, deleted |-> FALSE]

Register(i) ==
  /\ job[i].pc = "register" /\ Finish(i, "ok")
  /\ rows' = [rows EXCEPT ![list[i]] = RegisteredRow(i)]
  /\ UNCHANGED <<source, file, folders, list, faults, edits, disturbed, reopened>>

RegisterFails(i) ==
  /\ Fault /\ job[i].pc = "register" /\ Finish(i, "ok")
  /\ UNCHANGED <<source, rows, file, folders, list, edits, disturbed, reopened>>

(* The process is killed; files and bucket stay as they are.                 *)
Kill ==
  /\ Fault /\ ~Idle /\ list' = <<>> /\ job' = <<>>
  /\ disturbed' = disturbed \cup {list[i] : i \in {j \in Entries : "video" \in job[j].open}}
  /\ UNCHANGED <<source, rows, file, folders, edits, reopened>>

(* By hand: the deletion mark, and reset_processed_path.                     *)
Edit(t) == t \in Edited /\ edits < MaxEdits /\ edits' = edits + 1

MarkDeleted(t) ==
  /\ Edit(t) /\ rows[t].exists /\ rows' = [rows EXCEPT ![t].deleted = TRUE]
  /\ reopened' = IF InFlight(t) THEN reopened \cup {t} ELSE reopened
  /\ UNCHANGED <<source, file, folders, list, job, faults, disturbed>>

ResetProcessedPath(t) ==
  /\ Edit(t) /\ Processed(t) /\ rows' = [rows EXCEPT ![t].path = NoPath]
  /\ reopened' = reopened \cup {t}
  /\ UNCHANGED <<source, file, folders, list, job, faults, disturbed>>

JobStep(i) ==
  \/ Start(i) \/ Refetch(i) \/ Load(i) \/ Write(i) \/ ConversionFails(i)
  \/ BeginUpload(i) \/ EndUpload(i) \/ Register(i)
  \/ \E f \in File : Open(i, f) \/ WriteSome(i, f) \/ Close(i, f)

Next ==
  \/ \E l \in Lists : Launch(l)
  \/ \E i \in Entries :
       \/ JobStep(i) \/ AskFails(i) \/ UploadFails(i) \/ RegisterFails(i)
       \/ \E f \in File : FetchFails(i, f)
  \/ Kill
  \/ \E t \in Task : MarkDeleted(t) \/ ResetProcessedPath(t)

(* The operator runs every list again and again, and a job that can go on    *)
(* does; nothing is said about faults.                                       *)
Fairness ==
  /\ \A l \in Lists : SF_vars(Launch(l))
  /\ WF_vars(\E i \in Entries : JobStep(i))

Spec == Init /\ [][Next]_vars
FairSpec == Spec /\ Fairness
-----------------------------------------------------------------------------
FileState == {"none", "empty", "cut", "whole"}
PC == {"queued", "fetch", "write", "upload", "register"} \cup Over
Rows == [exists : BOOLEAN, path : 0..MaxFolders, deleted : BOOLEAN]
Jobs == [pc : PC, todo : SUBSET File, open : SUBSET File, spoiled : SUBSET File,
         again : BOOLEAN, short : BOOLEAN, folder : 0..MaxFolders]
Folders == [task : Task, short : BOOLEAN, bucket : {"none", "partial", "whole"}]

(* The types, and the entries of the list and their jobs go together.        *)
TypeOK ==
  /\ source \in [Task -> Source]
  /\ rows \in [Task -> Rows] /\ file \in [Task -> [File -> FileState]]
  /\ folders \in Seq(Folders) /\ Len(folders) <= MaxFolders
  /\ list \in Seq(Task) /\ job \in [Entries -> Jobs]
  /\ faults \in 0..MaxFaults /\ edits \in 0..MaxEdits
  /\ disturbed \subseteq Task /\ reopened \subseteq Task

(* A row leads to a folder that is complete in the bucket and holds its own  *)
(* task, whatever was killed, repeated or run twice.                         *)
RegisteredWhole ==
  \A t \in Task : rows[t].path # NoPath =>
    /\ rows[t].path \in 1..Len(folders)
    /\ folders[rows[t].path].task = t
    /\ folders[rows[t].path].bucket = "whole"

(* The end of a recording is missing from a registered conversion only where *)
(* its video was cut off while it was fetched, by an error or by the end of  *)
(* the process, or where two jobs for one task shared the file.              *)
ShortExplained ==
  \A t \in Task : rows[t].path # NoPath /\ folders[rows[t].path].short => t \in disturbed

(* A deletion mark is lost only where the path was reset or where it was set *)
(* while a job for its task was on its way to write the whole row.           *)
MarksStick ==
  [][\A t \in Task : rows[t].deleted /\ ~rows'[t].deleted => t \in reopened]_vars

(* Every task of which Scale has what it takes gets registered, however the  *)
(* others fail, or a file that nothing replaces is in its way: an empty      *)
(* scene, or a video that ends early.                                        *)
Stuck(t) == file[t]["scene"] = "empty" \/ file[t]["video"] \in {"empty", "cut"}
Converges ==
  \A t \in Task : <>[](source[t] = "good" => Processed(t) \/ Stuck(t))
=============================================================================
