------------------------------ MODULE MpsBatches ------------------------------
(***************************************************************************)
(* The MPS batch processor (s3_parallel_processor.py, started every night  *)
(* by run_mps.sh): it plans batches of recordings whose machine perception *)
(* features are missing in the bucket, downloads one batch ahead of the    *)
(* one it processes, runs the aria_mps tool on a batch's directory,        *)
(* uploads what the tool wrote, validates it in the bucket and keeps a     *)
(* report of failures there.                                               *)
(*                                                                         *)
(* Two threads share the local disk: the main one and a download worker.   *)
(***************************************************************************)
EXTENDS Naturals, Sequences, FiniteSets

CONSTANTS
  Recording,    \* the .vrs keys found under the prefix
  Feature,      \* HAND_TRACKING, SLAM, EYE_GAZE
  Sorted,       \* the recordings in the order of sort_by_depth
  Size,         \* Size[r]: the size of the .vrs file
  TargetSize,   \* --target-size-gb
  Commands,     \* the command lines used
  MaxFaults,    \* bound: failures of the tool, of S3 calls and of the host
  Absent        \* "not on the disk"

(* A feature's folder: the verdict of its summary.json ("MISSING" also       *)
(* stands for a summary of another version) and whether all its other files  *)
(* are there.                                                                *)
Verdict == {"MISSING", "FAILED", "OK"}
Folder == [verdict : Verdict, data : BOOLEAN]

Command == [features : SUBSET Feature, retry_failed : BOOLEAN,
            include_failed : BOOLEAN, clean : BOOLEAN]

ASSUME MpsAssumption ==
  /\ Sorted \in Seq(Recording) /\ {Sorted[j] : j \in 1..Len(Sorted)} = Recording
  /\ \A j, k \in 1..Len(Sorted) : Sorted[j] = Sorted[k] => j = k
  /\ Size \in [Recording -> Nat] /\ TargetSize \in Nat /\ MaxFaults \in Nat
  /\ Commands \subseteq Command
  /\ Absent \notin [Feature -> Folder]

VARIABLES
  remote,     \* remote[r][f]: the feature's folder in the bucket
  report,     \* recordings_status.json in the bucket
  known,      \* recordings_status.json in the local directory
  disk,       \* disk[k]: the directory batch_k, by recording
  cmd,        \* the command line of this run
  need,       \* files_to_process, while the batches are made
  plan,       \* the batches; while they are made, the last is current_batch
  filled,     \* current_size, while the batches are made
  pc, i,      \* the main thread, and the recording or batch it is at
  fetch,      \* the download worker
  sent,       \* files of batch i uploaded by this call of upload_batch_results
  stale,      \* history: directories that existed when the run began
  faults

planning == <<need, filled>>
vars == <<remote, report, known, disk, cmd, need, plan, filled, pc, i,
          fetch, sent, stale, faults>>
-----------------------------------------------------------------------------
NoFolder == [verdict |-> "MISSING", data |-> FALSE]
NoFolders == [f \in Feature |-> NoFolder]
Exists(r, f) == remote[r][f] # NoFolder

Index == 1..Len(Sorted)
EmptyDir == [r \in Recording |-> Absent]
Batch(k) == {plan[k][j] : j \in 1..Len(plan[k])}

Idle == [features |-> {}, retry_failed |-> FALSE, include_failed |-> FALSE, clean |-> FALSE]
NoFetch == [batch |-> 0, state |-> "none", next |-> 1]
Fetch(k) == [batch |-> k, state |-> "clear", next |-> 1]

Init ==
  /\ \E ok \in SUBSET (Recording \X Feature) :
       remote = [r \in Recording |-> [f \in Feature |->
                   IF <<r, f>> \in ok THEN [verdict |-> "OK", data |-> TRUE] ELSE NoFolder]]
  /\ report = [r \in Recording |-> [f \in Feature |-> "none"]]
  /\ known = report
  /\ disk = [k \in Index |-> EmptyDir]
  /\ cmd = Idle /\ need = {} /\ plan = <<>> /\ filled = 0 /\ pc = "idle" /\ i = 0
  /\ fetch = NoFetch /\ sent = {} /\ stale = {} /\ faults = 0

Fault == faults < MaxFaults /\ faults' = faults + 1
NoFault == UNCHANGED faults
-----------------------------------------------------------------------------
(* Planning.                                                                 *)

(* run_mps.sh first runs clean_mps.py, which removes every MPS folder that   *)
(* lacks the directory of a feature.                                         *)
Cleaned(r) ==
  IF \A f \in Feature : Exists(r, f) THEN remote[r] ELSE NoFolders

(* load_failed_recordings_from_s3.                                           *)
KnownFailed(c, r) ==
  IF c.include_failed THEN {} ELSE {f \in Feature : report[r][f] \in {"MISSING", "FAILED"}}

(* Mutant: any summary counts, a failed one too.                             *)
FeaturesNeededIfMissing(c, folders, r, misread) ==
  {f \in c.features : r \in misread \/ folders[r][f].verdict = "MISSING"}

(* read_json turns every error into "there is no summary"; `misread` is the  *)
(* recording whose summaries were misread.                                   *)
FeaturesNeeded(c, folders, r, misread) ==
  {f \in c.features : r \in misread \/ folders[r][f].verdict # "OK"}

(* filter_files_needing_processing.                                          *)
NeedProcessing(c, folders, misread) ==
  {r \in Recording : FeaturesNeeded(c, folders, r, misread) \ KnownFailed(c, r) # {}}

Launch(c) ==
  /\ pc = "idle"
  /\ \E misread \in {{}} \cup {{r} : r \in Recording} :
       LET folders == [r \in Recording |-> IF c.clean THEN Cleaned(r) ELSE remote[r]]
           needed == NeedProcessing(c, folders, misread)
       IN /\ IF misread = {} THEN NoFault ELSE Fault
          /\ remote' = folders
          /\ IF needed = {} THEN UNCHANGED <<cmd, need, pc, i, stale>>
             ELSE /\ cmd' = c /\ need' = needed /\ pc' = "plan" /\ i' = 1
                  /\ stale' = {k \in Index : disk[k] # EmptyDir}
  /\ UNCHANGED <<report, known, disk, plan, filled, fetch, sent>>

(* clean_mps.py is interrupted while it deletes a recording's folder.        *)
CleanInterrupted ==
  /\ pc = "idle" /\ (\E c \in Commands : c.clean) /\ Fault
  /\ \E r \in Recording, f \in Feature :
       /\ Cleaned(r) # remote[r]
       /\ \E left \in {NoFolder, [remote[r][f] EXCEPT !.data = FALSE],
                       [remote[r][f] EXCEPT !.verdict = "MISSING"]} :
            remote' = [remote EXCEPT ![r][f] = left]
  /\ UNCHANGED <<report, known, disk, cmd, planning, plan, pc, i, fetch, sent, stale>>

(* Mutant: the size of the recording to add is forgotten.                    *)
CreateBatchesWithoutItsSize ==
  /\ pc = "plan" /\ i <= Len(Sorted)
  /\ LET r == Sorted[i]
         new == plan = <<>> \/ filled >= TargetSize
     IN IF r \notin need THEN UNCHANGED <<plan, filled>>
        ELSE IF new THEN plan' = Append(plan, <<r>>) /\ filled' = Size[r]
        ELSE /\ plan' = [plan EXCEPT ![Len(plan)] = Append(@, r)]
             /\ filled' = filled + Size[r]
  /\ i' = i + 1
  /\ UNCHANGED <<remote, report, known, disk, cmd, need, pc, fetch, sent, stale, faults>>

(* Mutant: the recording that does not fit any more is in no batch.          *)
CreateBatchesSkippingOne ==
  /\ pc = "plan" /\ i <= Len(Sorted)
  /\ LET r == Sorted[i]
         new == plan = <<>> \/ filled + Size[r] > TargetSize
     IN IF r \notin need THEN UNCHANGED <<plan, filled>>
        ELSE IF plan = <<>> THEN plan' = <<<<r>>>> /\ filled' = Size[r]
        ELSE IF new THEN plan' = Append(plan, <<>>) /\ filled' = 0
        ELSE /\ plan' = [plan EXCEPT ![Len(plan)] = Append(@, r)]
             /\ filled' = filled + Size[r]
  /\ i' = i + 1
  /\ UNCHANGED <<remote, report, known, disk, cmd, need, pc, fetch, sent, stale, faults>>

(* One round of the loop of create_batches, over the keys sorted by depth.   *)
CreateBatches ==
  /\ pc = "plan" /\ i <= Len(Sorted)
  /\ LET r == Sorted[i]
         new == plan = <<>> \/ filled + Size[r] > TargetSize
     IN IF r \notin need THEN UNCHANGED <<plan, filled>>
        ELSE IF new THEN plan' = Append(plan, <<r>>) /\ filled' = Size[r]
        ELSE /\ plan' = [plan EXCEPT ![Len(plan)] = Append(@, r)]
             /\ filled' = filled + Size[r]
  /\ i' = i + 1
  /\ UNCHANGED <<remote, report, known, disk, cmd, need, pc, fetch, sent, stale, faults>>

(* The plan is made; the first batch is downloaded.                          *)
StartBatches ==
  /\ pc = "plan" /\ i > Len(Sorted)
  /\ pc' = "await" /\ i' = 1 /\ fetch' = Fetch(1)
  /\ need' = {} /\ filled' = 0
  /\ UNCHANGED <<remote, report, known, disk, cmd, plan, sent, stale, faults>>
-----------------------------------------------------------------------------
(* Downloading, in the main thread for the first batch and in the worker for *)
(* the others.                                                               *)

(* Mutant: what an interrupted run left in the directory stays there.        *)
ClearDirectoryKeepsFiles ==
  /\ fetch.state = "clear"
  /\ fetch' = [fetch EXCEPT !.state = "running"]
  /\ UNCHANGED <<remote, report, known, disk, cmd, planning, plan, pc, i, sent, stale, faults>>

(* download_batch starts from an empty directory.                            *)
ClearDirectory ==
  /\ fetch.state = "clear"
  /\ disk' = [disk EXCEPT ![fetch.batch] = EmptyDir]
  /\ fetch' = [fetch EXCEPT !.state = "running"]
  /\ UNCHANGED <<remote, report, known, cmd, planning, plan, pc, i, sent, stale, faults>>

(* Mutant: the MPS folder of a recording is not downloaded.                  *)
DownloadRecordingAlone ==
  LET keys == plan[fetch.batch]
      j == fetch.next
  IN
  /\ fetch.state = "running"
  /\ disk' = [disk EXCEPT ![fetch.batch][keys[j]] = NoFolders]
  /\ fetch' = [fetch EXCEPT !.state = IF j = Len(keys) THEN "done" ELSE "running",
                            !.next = j + 1]
  /\ UNCHANGED <<remote, report, known, cmd, planning, plan, pc, i, sent, stale, faults>>

(* The next .vrs file of the batch, and its MPS folder if there is one.      *)
DownloadRecording ==
  LET keys == plan[fetch.batch]
      j == fetch.next
  IN
  /\ fetch.state = "running"
  /\ disk' = [disk EXCEPT ![fetch.batch][keys[j]] = remote[keys[j]]]
  /\ fetch' = [fetch EXCEPT !.state = IF j = Len(keys) THEN "done" ELSE "running",
                            !.next = j + 1]
  /\ UNCHANGED <<remote, report, known, cmd, planning, plan, pc, i, sent, stale, faults>>

DownloadFails ==
  /\ fetch.state = "running"
  /\ fetch' = [fetch EXCEPT !.state = "failed"]
  /\ Fault
  /\ UNCHANGED <<remote, report, known, disk, cmd, planning, plan, pc, i, sent, stale>>
-----------------------------------------------------------------------------
(* The main thread.                                                          *)

(* The loop of main() ends, normally or by an exception.                     *)
EndRun ==
  /\ pc' = "idle" /\ i' = 0 /\ cmd' = Idle /\ plan' = <<>>
  /\ need' = {} /\ filled' = 0
  /\ fetch' = NoFetch /\ sent' = {} /\ stale' = {}

(* The current batch is on disk: the download of the next one is submitted   *)
(* to the worker.                                                            *)
Downloaded ==
  /\ pc = "await" /\ fetch.batch = i /\ fetch.state = "done"
  /\ pc' = "mps"
  /\ fetch' = IF i < Len(plan) THEN Fetch(i + 1) ELSE NoFetch
  /\ UNCHANGED <<remote, report, known, disk, cmd, planning, plan, i, sent, stale, faults>>

(* .result() raises what the download raised: the whole run is over, the     *)
(* directory stays.                                                          *)
DownloadRaises ==
  /\ pc = "await" /\ fetch.batch = i /\ fetch.state = "failed"
  /\ EndRun
  /\ UNCHANGED <<remote, report, known, disk, faults>>

(* aria_mps works on what is missing, and on what failed when told to retry. *)
Attempts(c, f, folder) ==
  f \in c.features /\ (folder.verdict = "MISSING" \/ (folder.verdict = "FAILED" /\ c.retry_failed))

(* run_aria_mps: every feature it attempts is computed, or the tool reports  *)
(* a failure, or stops without a summary, or writes nothing.  Its exit code  *)
(* is only logged.                                                           *)
Computed == [verdict |-> "OK", data |-> TRUE]
AfterMps(r, wrong, failed) ==
  IF disk[i][r] = Absent THEN Absent
  ELSE [f \in Feature |->
         IF ~Attempts(cmd, f, disk[i][r][f]) THEN disk[i][r][f]
         ELSE IF <<r, f>> \in wrong THEN failed
         ELSE Computed]

Mishaps == {{}} \cup {{<<r, f>>} : r \in Batch(i), f \in cmd.features}
RunAriaMps ==
  /\ pc = "mps"
  /\ \E wrong \in Mishaps, failed \in [verdict : {"FAILED", "MISSING"}, data : BOOLEAN] :
       /\ disk' = [disk EXCEPT ![i] = [r \in Recording |-> AfterMps(r, wrong, failed)]]
       /\ IF wrong = {} THEN NoFault ELSE Fault
  /\ pc' = "upload" /\ sent' = {}
  /\ UNCHANGED <<remote, report, known, cmd, planning, plan, i, fetch, stale>>

(* The tool cannot be started, or the local report cannot be written: the    *)
(* except branch uploads what there is.                                      *)
BatchRaises ==
  /\ pc \in {"mps", "validate"} /\ Fault
  /\ pc' = "reupload" /\ sent' = {}
  /\ UNCHANGED <<remote, report, known, disk, cmd, planning, plan, i, fetch, stale>>

(* The files of batch i that upload_folder walks over.                       *)
OnDisk(r, f, part) ==
  /\ disk[i][r] # Absent
  /\ IF part = "data" THEN disk[i][r][f].data ELSE disk[i][r][f].verdict # "MISSING"
Files ==
  {file \in Batch(i) \X Feature \X {"summary", "data"} : OnDisk(file[1], file[2], file[3])}

Uploading == pc \in {"upload", "reupload"}

(* The recordings in the order of the batch; os.walk gives the files of a    *)
(* recording's folder in any order.                                          *)
UploadFile(j, f, part) ==
  LET r == plan[i][j] IN
  /\ Uploading /\ j <= Len(plan[i]) /\ <<r, f, part>> \in Files \ sent
  /\ \A file \in Files \ sent : \A l \in 1..(j - 1) : file[1] # plan[i][l]
  /\ remote' = IF part = "data" THEN [remote EXCEPT ![r][f].data = TRUE]
               ELSE [remote EXCEPT ![r][f].verdict = disk[i][r][f].verdict]
  /\ sent' = sent \cup {<<r, f, part>>}
  /\ UNCHANGED <<report, known, disk, cmd, planning, plan, pc, i, fetch, stale, faults>>

(* An upload raises: the except branch tries all of them once more, and      *)
(* swallows a second failure.                                                *)
UploadFails ==
  /\ Uploading /\ Files \ sent # {} /\ Fault
  /\ pc' = IF pc = "upload" THEN "reupload" ELSE "cleanup"
  /\ sent' = {}
  /\ UNCHANGED <<remote, report, known, disk, cmd, planning, plan, i, fetch, stale>>

UploadEnds ==
  /\ Uploading /\ Files \subseteq sent
  /\ pc' = IF pc = "upload" THEN "validate" ELSE "cleanup"
  /\ sent' = {}
  /\ UNCHANGED <<remote, report, known, disk, cmd, planning, plan, i, fetch, stale, faults>>

(* Mutant: a summary that cannot be read counts as a success.                *)
ValidateTrusting ==
  /\ pc = "validate"
  /\ \E misread \in {{}} \cup {{r} : r \in Batch(i)} :
       /\ known' = [r \in Recording |-> [f \in Feature |->
            IF r \notin Batch(i) \/ f \notin cmd.features THEN known[r][f]
            ELSE IF r \in misread THEN "OK" ELSE remote[r][f].verdict]]
       /\ IF misread = {} THEN NoFault ELSE Fault
  /\ pc' = "report"
  /\ UNCHANGED <<remote, report, disk, cmd, planning, plan, i, fetch, sent, stale>>

(* validate_batch_results and write_recordings_status_report: the verdicts   *)
(* read back from the bucket are merged into the local report.               *)
Validate ==
  /\ pc = "validate"
  /\ \E misread \in {{}} \cup {{r} : r \in Batch(i)} :
       /\ known' = [r \in Recording |-> [f \in Feature |->
            IF r \notin Batch(i) \/ f \notin cmd.features THEN known[r][f]
            ELSE IF r \in misread THEN "MISSING" ELSE remote[r][f].verdict]]
       /\ IF misread = {} THEN NoFault ELSE Fault
  /\ pc' = "report"
  /\ UNCHANGED <<remote, report, disk, cmd, planning, plan, i, fetch, sent, stale>>

(* The bucket's report is replaced by the local one; a failure is logged.    *)
UploadReport ==
  /\ pc = "report"
  /\ \/ report' = known /\ NoFault
     \/ report' = report /\ Fault
  /\ pc' = "cleanup"
  /\ UNCHANGED <<remote, known, disk, cmd, planning, plan, i, fetch, sent, stale>>

(* Mutant: the directory of a processed batch is kept.                       *)
CleanUpKeepsFiles ==
  /\ pc = "cleanup"
  /\ IF i < Len(plan)
     THEN /\ pc' = "await" /\ i' = i + 1
          /\ UNCHANGED <<cmd, planning, plan, fetch, sent, stale>>
     ELSE EndRun
  /\ UNCHANGED <<remote, report, known, disk, faults>>

(* The finally branch removes the directory; the next batch, or the end.     *)
CleanUp ==
  /\ pc = "cleanup"
  /\ disk' = [disk EXCEPT ![i] = EmptyDir]
  /\ IF i < Len(plan)
     THEN /\ pc' = "await" /\ i' = i + 1
          /\ UNCHANGED <<cmd, planning, plan, fetch, sent, stale>>
     ELSE EndRun
  /\ UNCHANGED <<remote, report, known, faults>>

(* The process is killed; the disk stays, or is that of another machine.     *)
Crash ==
  /\ pc # "idle" /\ Fault
  /\ EndRun
  /\ \/ UNCHANGED <<disk, known>>
     \/ /\ disk' = [k \in Index |-> EmptyDir]
        /\ known' = [r \in Recording |-> [f \in Feature |-> "none"]]
  /\ UNCHANGED <<remote, report>>
-----------------------------------------------------------------------------
Downloader ==
  ClearDirectory \/ DownloadRecording \/ DownloadFails

Main ==
  \/ CreateBatches \/ StartBatches
  \/ Downloaded \/ DownloadRaises
  \/ RunAriaMps \/ BatchRaises
  \/ \E j \in Index, f \in Feature, part \in {"summary", "data"} : UploadFile(j, f, part)
  \/ UploadFails \/ UploadEnds \/ Validate \/ UploadReport \/ CleanUp

Next == (\E c \in Commands : Launch(c)) \/ CleanInterrupted \/ Downloader \/ Main \/ Crash

Spec == Init /\ [][Next]_vars

(* cron starts the processor every night, and threads that can run do.       *)
Fairness ==
  /\ WF_vars(\E c \in Commands : Launch(c))
  /\ WF_vars(Downloader) /\ WF_vars(Main)

FairSpec == Spec /\ Fairness
-----------------------------------------------------------------------------
(* Properties.                                                               *)

TypeOK ==
  /\ remote \in [Recording -> [Feature -> Folder]]
  /\ report \in [Recording -> [Feature -> Verdict \cup {"none"}]]
  /\ known \in [Recording -> [Feature -> Verdict \cup {"none"}]]
  /\ disk \in [Index -> [Recording -> [Feature -> Folder] \cup {Absent}]]
  /\ cmd \in Command /\ need \subseteq Recording /\ filled \in Nat
  /\ plan \in Seq(Seq(Recording)) /\ i \in Nat
  /\ pc \in {"idle", "plan", "await", "mps", "upload", "reupload", "validate", "report", "cleanup"}
  /\ fetch \in [batch : 0..Len(plan), next : Nat,
               state : {"none", "clear", "running", "done", "failed"}]
  /\ sent \subseteq Recording \X Feature \X {"summary", "data"}
  /\ stale \subseteq Index /\ faults \in 0..MaxFaults

Working == pc \notin {"idle", "plan", "await"}

(* aria_mps never works on a directory that is still being downloaded, or    *)
(* that holds recordings of another run: until the batch is cleaned up, its  *)
(* directory holds its recordings and nothing else.                          *)
BatchReady ==
  Working => \A r \in Recording : disk[i][r] # Absent <=> r \in Batch(i)

(* The disk holds at most the batch being processed and the one prefetched,  *)
(* besides what an earlier, interrupted run left behind.                     *)
DiskBound ==
  pc # "idle" => \A k \in Index : disk[k] # EmptyDir =>
                   k \in stale \/ (pc # "plan" /\ k \in {i, i + 1})

(* create_batches puts every recording that needs processing at one place of *)
(* one batch, and no other recording, and makes no empty batch.              *)
BatchesPartition ==
  /\ \A k \in 1..Len(plan) : plan[k] # <<>>
  /\ \A k, l \in 1..Len(plan) : \A a \in 1..Len(plan[k]), b \in 1..Len(plan[l]) :
       plan[k][a] = plan[l][b] => k = l /\ a = b
  /\ pc = "plan" => \A j \in Index :
       (\E k \in 1..Len(plan) : Sorted[j] \in Batch(k)) <=> j < i /\ Sorted[j] \in need

(* What the recordings of a batch take on the disk.                          *)
Total(s) ==
  LET total[j \in 0..Len(s)] == IF j = 0 THEN 0 ELSE total[j - 1] + Size[s[j]]
  IN  total[Len(s)]

(* No batch of several recordings exceeds the target size (create_batches).  *)
BatchesFit == \A k \in 1..Len(plan) : Len(plan[k]) = 1 \/ Total(plan[k]) <= TargetSize

(* A recording with all its features computed stays so, whatever fails and   *)
(* whatever is misread, cleaned and uploaded again.                          *)
Complete(r) == \A f \in Feature : remote[r][f].verdict = "OK"
CompleteStays == [][\A r \in Recording : Complete(r) => Complete(r)']_vars

(* The main thread is in the batch that is on disk, or awaits it; the worker *)
(* is one batch ahead while there is one.                                    *)
Schedule ==
  /\ pc = "idle" => plan = <<>> /\ fetch = NoFetch
  /\ pc = "plan" => need # {} /\ fetch = NoFetch /\ i \in 1..(Len(Sorted) + 1) /\ Len(plan) < i
  /\ pc \notin {"idle", "plan"} => i \in 1..Len(plan) /\ Len(plan) <= Len(Sorted)
  /\ pc = "await" => fetch.batch = i /\ fetch.state # "none"
  /\ Working => IF i < Len(plan) THEN fetch.batch = i + 1 /\ fetch.state # "none"
                ELSE fetch = NoFetch

(* The directory being downloaded holds the first recordings of its batch.   *)
Fetched ==
  /\ fetch.state = "clear" => fetch.next = 1
  /\ fetch.state = "running" => fetch.next \in 1..Len(plan[fetch.batch])
  /\ fetch.state = "done" => fetch.next = Len(plan[fetch.batch]) + 1
  /\ fetch.state \in {"running", "done"} => \A r \in Recording :
       disk[fetch.batch][r] # Absent <=> \E l \in 1..(fetch.next - 1) : plan[fetch.batch][l] = r

(* A feature that is finished in the bucket is finished in the directories   *)
(* in use: what the upload replaces it with is finished too.                 *)
UpToDate(k) ==
  \A r \in Recording, f \in Feature :
    disk[k][r] # Absent /\ remote[r][f].verdict = "OK" => disk[k][r][f].verdict = "OK"
InSync ==
  /\ Working => UpToDate(i)
  /\ fetch.state \in {"running", "done"} => UpToDate(fetch.batch)

(* The directories in use belong to the plan and are never behind the        *)
(* bucket, with two threads, crashes and left-over directories; the          *)
(* inductive invariant of the proofs.                                        *)
MpsInv ==
  Schedule /\ BatchesPartition /\ Fetched /\ BatchReady /\ DiskBound /\ InSync

(* The report in the bucket calls a feature OK only if its summary in the    *)
(* bucket is.                                                                *)
ReportTruth ==
  \A r \in Recording, f \in Feature : report[r][f] = "OK" => remote[r][f].verdict = "OK"

(* Once failures stop, the nightly runs bring every recording to completion. *)
Converges == <>[](\A r \in Recording : Complete(r))
=============================================================================
