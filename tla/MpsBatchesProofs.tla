--------------------------- MODULE MpsBatchesProofs ---------------------------
(* Theorems about MpsBatches, for every set of recordings and features,      *)
(* every sizes, every target size and every number of faults: the types, the *)
(* inductive invariant and what follows from it (what the tool sees, what    *)
(* the disk holds, that finished recordings stay finished, that the report   *)
(* claims nothing the bucket does not hold), and the size of the batches.    *)
EXTENDS MpsBatches, WellFoundedInduction, NaturalsInduction, TLAPS

Dir == [Recording -> [Feature -> Folder] \cup {Absent}]
Pc == {"idle", "plan", "await", "mps", "upload", "reupload", "validate", "report",
       "cleanup"}
FetchState == {"none", "clear", "running", "done", "failed"}

(* The records the actions build are of their types.                         *)
LEMMA FolderTypes ==
  /\ NoFolder \in Folder /\ Computed \in Folder /\ NoFolders \in [Feature -> Folder]
  /\ EmptyDir \in Dir /\ Idle \in Command
BY DEF NoFolder, Computed, NoFolders, Folder, Verdict, EmptyDir, Dir, Idle, Command

LEMMA FolderUpdates ==
  \A x \in Folder : /\ [x EXCEPT !.data = FALSE] \in Folder
                    /\ [x EXCEPT !.verdict = "MISSING"] \in Folder
BY DEF Folder, Verdict

LEMMA FetchTypes ==
  /\ NoFetch = [batch |-> 0, state |-> "none", next |-> 1]
  /\ \A k \in Nat : Fetch(k) = [batch |-> k, state |-> "clear", next |-> 1]
BY DEF NoFetch, Fetch

LEMMA SortedTypes ==
  /\ Len(Sorted) \in Nat /\ \A j \in Index : Sorted[j] \in Recording
  /\ \A r \in Recording : \E j \in Index : Sorted[j] = r
<1>1. Sorted \in Seq(Recording) /\ {Sorted[j] : j \in Index} = Recording
  BY MpsAssumption DEF MpsAssumption, Index
<1>2. Len(Sorted) \in Nat /\ \A j \in Index : Sorted[j] \in Recording BY <1>1 DEF Index
<1>3. \A r \in Recording : \E j \in Index : Sorted[j] = r BY <1>1
<1> QED BY <1>2, <1>3

LEMMA TypeInit == Init => TypeOK
<1> SUFFICES ASSUME Init PROVE TypeOK OBVIOUS
<1>1. remote \in [Recording -> [Feature -> Folder]]
  BY FolderTypes DEF Init, Folder, Verdict
<1>2. disk \in [Index -> Dir] BY FolderTypes DEF Init
<1>3. plan \in Seq(Seq(Recording)) /\ Len(plan) = 0 BY DEF Init
<1>4. fetch \in [batch : 0..Len(plan), next : Nat, state : FetchState]
  BY <1>3, FetchTypes DEF Init, FetchState
<1> QED BY <1>1, <1>2, <1>3, <1>4, FolderTypes, MpsAssumption
        DEF Init, TypeOK, Dir, FetchState, MpsAssumption

(* A run that ends leaves nothing but the disk and the bucket.               *)
LEMMA TypeEndRun ==
  ASSUME EndRun
  PROVE  /\ cmd' \in Command /\ need' \subseteq Recording /\ filled' \in Nat
         /\ plan' \in Seq(Seq(Recording)) /\ i' \in Nat /\ pc' = "idle"
         /\ fetch' \in [batch : 0..Len(plan'), next : Nat, state : FetchState]
         /\ sent' = {} /\ stale' = {}
BY FolderTypes, FetchTypes DEF EndRun, FetchState

LEMMA TypeFaults == ASSUME TypeOK, Fault \/ NoFault PROVE faults' \in 0..MaxFaults
BY MpsAssumption DEF MpsAssumption, TypeOK, Fault, NoFault

(* There is something to do when the plan is made.                           *)
LEMMA SomeBatch ==
  ASSUME TypeOK, Schedule, BatchesPartition, StartBatches PROVE plan # <<>>
<1>1. PICK r \in need : TRUE BY DEF StartBatches, Schedule
<1>2. PICK j \in Index : Sorted[j] = r BY <1>1, SortedTypes DEF TypeOK
<1>3. j < i BY <1>2, SortedTypes DEF StartBatches, Schedule, Index
<1>4. \E k \in 1..Len(plan) : r \in Batch(k)
  BY <1>1, <1>2, <1>3 DEF BatchesPartition, StartBatches
<1> QED BY <1>4

LEMMA TypePlanning ==
  ASSUME TypeOK, Schedule, BatchesPartition,
         \/ \E c \in Commands : Launch(c)
         \/ CleanInterrupted \/ CreateBatches \/ StartBatches
  PROVE  TypeOK'
<1> USE DEF TypeOK
<1>1. CASE \E c \in Commands : Launch(c)
  <2>1. PICK c \in Commands : Launch(c) BY <1>1
  <2>5. PICK misread \in {{}} \cup {{r} : r \in Recording} :
          LET folders == [r \in Recording |-> IF c.clean THEN Cleaned(r) ELSE remote[r]]
              needed == NeedProcessing(c, folders, misread)
          IN /\ IF misread = {} THEN NoFault ELSE Fault
             /\ remote' = folders
             /\ IF needed = {} THEN UNCHANGED <<cmd, need, pc, i, stale>>
                ELSE /\ cmd' = c /\ need' = needed /\ pc' = "plan" /\ i' = 1
                     /\ stale' = {k \in Index : disk[k] # EmptyDir}
    BY <2>1 DEF Launch
  <2>6. UNCHANGED <<report, known, disk, plan, filled, fetch, sent>> BY <2>1 DEF Launch
  <2>2. faults' \in 0..MaxFaults BY <2>5, TypeFaults
  <2>3. remote' \in [Recording -> [Feature -> Folder]]
    BY <2>5, FolderTypes DEF Cleaned
  <2>4. c \in Command BY MpsAssumption DEF MpsAssumption
  <2> QED BY <2>2, <2>3, <2>4, <2>5, <2>6 DEF NeedProcessing
<1>2. CASE CleanInterrupted
  <2>1. faults' \in 0..MaxFaults BY <1>2, TypeFaults DEF CleanInterrupted
  <2>2. PICK r \in Recording, f \in Feature :
          \E left \in {NoFolder, [remote[r][f] EXCEPT !.data = FALSE],
                       [remote[r][f] EXCEPT !.verdict = "MISSING"]} :
            remote' = [remote EXCEPT ![r][f] = left]
    BY <1>2 DEF CleanInterrupted
  <2>3. remote[r][f] \in Folder OBVIOUS
  <2>4. {NoFolder, [remote[r][f] EXCEPT !.data = FALSE],
         [remote[r][f] EXCEPT !.verdict = "MISSING"]} \subseteq Folder
    BY <2>3, FolderTypes, FolderUpdates
  <2>5. PICK left \in Folder : remote' = [remote EXCEPT ![r][f] = left] BY <2>2, <2>4
  <2>6. remote' \in [Recording -> [Feature -> Folder]] BY <2>5
  <2> QED BY <1>2, <2>1, <2>6 DEF CleanInterrupted, planning
<1>3. CASE CreateBatches
  <2> DEFINE r == Sorted[i]
  <2>5. i \in Index /\ pc = "plan" /\ i' = i + 1
        /\ UNCHANGED <<remote, report, known, disk, cmd, need, pc, fetch, sent, stale, faults>>
    BY <1>3, SortedTypes DEF CreateBatches, Schedule, Index
  <2>1. i \in Index /\ r \in Recording /\ Size[r] \in Nat
    BY <2>5, SortedTypes, MpsAssumption DEF MpsAssumption
  <2>2. CASE r \notin need
    BY <1>3, <2>1, <2>2 DEF CreateBatches
  <2>3. CASE plan' = Append(plan, <<r>>) /\ filled' = Size[r]
    <3>1. plan' \in Seq(Seq(Recording)) /\ Len(plan') = Len(plan) + 1
      BY <2>1, <2>3
    <3> QED BY <2>1, <2>3, <2>5, <3>1
  <2>4. CASE /\ plan # <<>> /\ plan' = [plan EXCEPT ![Len(plan)] = Append(@, r)]
             /\ filled' = filled + Size[r]
    <3>1. Len(plan) \in 1..Len(plan) BY <2>4
    <3>2. plan[Len(plan)] \in Seq(Recording) BY <3>1
    <3>3. Append(plan[Len(plan)], r) \in Seq(Recording) BY <3>2, <2>1
    <3>4. plan' \in Seq(Seq(Recording)) /\ Len(plan') = Len(plan)
      BY <2>4, <3>1, <3>3
    <3>5. filled' \in Nat
      <4>1. filled \in Nat OBVIOUS
      <4>2. filled' = filled + Size[r] BY <2>4
      <4> HIDE DEF r
      <4> QED BY <2>1, <4>1, <4>2
    <3> QED BY <2>5, <3>4, <3>5
  <2> QED BY <1>3, <2>2, <2>3, <2>4 DEF CreateBatches
<1>4. CASE StartBatches
  <2>1. plan # <<>> BY <1>4, SomeBatch
  <2>2. Len(plan) \in Nat /\ Len(plan) # 0 BY <2>1
  <2>3. fetch' \in [batch : 0..Len(plan'), next : Nat, state : FetchState]
    BY <1>4, <2>2, FetchTypes DEF StartBatches, FetchState
  <2> QED BY <1>4, <2>3 DEF StartBatches, FetchState
<1> QED BY <1>1, <1>2, <1>3, <1>4

(* Where the two threads are in the plan.                                    *)
LEMMA InPlan ==
  ASSUME TypeOK, Schedule
  PROVE  /\ pc \notin {"idle", "plan"} =>
              i \in 1..Len(plan) /\ i \in Index /\ plan[i] \in Seq(Recording)
              /\ Batch(i) \subseteq Recording
         /\ fetch.state # "none" =>
              /\ pc \notin {"idle", "plan"} /\ fetch.batch \in {i, i + 1}
              /\ fetch.batch \in 1..Len(plan) /\ fetch.batch \in Index
              /\ plan[fetch.batch] \in Seq(Recording)
<1>1. ASSUME NEW k \in 1..Len(plan), pc \notin {"idle", "plan"}
      PROVE  k \in Index /\ plan[k] \in Seq(Recording) /\ Batch(k) \subseteq Recording
  <2>1. plan \in Seq(Seq(Recording)) BY DEF TypeOK
  <2>2. plan[k] \in Seq(Recording) BY <2>1
  <2>3. Batch(k) \subseteq Recording BY <2>2 DEF Batch
  <2>4. Len(plan) <= Len(Sorted) /\ Len(plan) \in Nat /\ Len(Sorted) \in Nat
    BY <1>1, <2>1, SortedTypes DEF Schedule
  <2>5. k \in Index BY <2>4 DEF Index
  <2> QED BY <2>2, <2>3, <2>5
<1>2. ASSUME fetch.state # "none"
      PROVE  pc \notin {"idle", "plan"} /\ fetch.batch \in {i, i + 1} /\ fetch.batch \in 1..Len(plan)
  <2>1. pc \notin {"idle", "plan"} BY <1>2, FetchTypes DEF Schedule
  <2>2. i \in 1..Len(plan) /\ Len(plan) \in Nat BY <2>1 DEF Schedule, TypeOK
  <2>3. CASE pc = "await" BY <2>2, <2>3 DEF Schedule
  <2>4. CASE pc # "await"
    <3>1. i < Len(plan) /\ fetch.batch = i + 1
      BY <1>2, <2>1, <2>4, FetchTypes DEF Schedule, Working
    <3> QED BY <2>1, <2>2, <3>1
  <2> QED BY <2>1, <2>3, <2>4
<1>3. pc \notin {"idle", "plan"} => i \in 1..Len(plan) BY DEF Schedule
<1> QED BY <1>1, <1>2, <1>3

LEMMA TypeDownloader == ASSUME TypeOK, Schedule, Fetched, Downloader PROVE TypeOK'
<1> DEFINE b == fetch.batch
<1>1. b \in Index /\ plan[b] \in Seq(Recording)
  BY InPlan DEF Downloader, ClearDirectory, DownloadRecording, DownloadFails
<1>2. fetch \in [batch : 0..Len(plan), next : Nat, state : FetchState] BY DEF TypeOK, FetchState
<1>3. CASE ClearDirectory
  <2>1. disk' \in [Index -> Dir] BY <1>3, FolderTypes DEF ClearDirectory, TypeOK, Dir
  <2>2. fetch' \in [batch : 0..Len(plan), next : Nat, state : FetchState]
    BY <1>2, <1>3 DEF ClearDirectory, FetchState
  <2> QED BY <1>3, <2>1, <2>2 DEF ClearDirectory, TypeOK, planning, Dir, FetchState
<1>4. CASE DownloadRecording
  <2> DEFINE r == plan[b][fetch.next]
  <2>1. r \in Recording BY <1>1, <1>4 DEF DownloadRecording, Fetched
  <2>2. disk' = [disk EXCEPT ![b][r] = remote[r]] BY <1>4 DEF DownloadRecording
  <2>3. remote[r] \in [Feature -> Folder] BY <2>1 DEF TypeOK
  <2>4. disk' \in [Index -> Dir]
    <3>1. disk \in [Index -> Dir] BY DEF TypeOK, Dir
    <3>2. [disk[b] EXCEPT ![r] = remote[r]] \in Dir BY <1>1, <2>1, <2>3, <3>1 DEF Dir
    <3> QED BY <1>1, <2>2, <3>1, <3>2
  <2>5. fetch' \in [batch : 0..Len(plan), next : Nat, state : FetchState]
    <3> DEFINE state == IF fetch.next = Len(plan[b]) THEN "done" ELSE "running"
    <3>1. fetch' = [fetch EXCEPT !.state = state, !.next = fetch.next + 1]
      BY <1>4 DEF DownloadRecording
    <3>2. state \in FetchState /\ fetch.next + 1 \in Nat BY <1>2 DEF FetchState
    <3> HIDE DEF state
    <3> QED BY <1>2, <3>1, <3>2
  <2> QED BY <1>4, <2>4, <2>5 DEF DownloadRecording, TypeOK, planning, Dir, FetchState
<1>5. CASE DownloadFails
  <2>1. faults' \in 0..MaxFaults BY <1>5, TypeFaults DEF DownloadFails
  <2>2. fetch' \in [batch : 0..Len(plan), next : Nat, state : FetchState]
    BY <1>2, <1>5 DEF DownloadFails, FetchState
  <2> QED BY <1>5, <2>1, <2>2 DEF DownloadFails, TypeOK, planning, FetchState
<1> QED BY <1>3, <1>4, <1>5 DEF Downloader

(* What aria_mps leaves is a directory.                                      *)
LEMMA AfterMpsTypes ==
  ASSUME TypeOK, i \in Index, NEW r \in Recording, NEW wrong, NEW failed \in Folder
  PROVE  AfterMps(r, wrong, failed) \in [Feature -> Folder] \cup {Absent}
<1>1. disk[i][r] \in [Feature -> Folder] \cup {Absent} BY DEF TypeOK
<1>2. CASE disk[i][r] = Absent BY <1>2 DEF AfterMps
<1>3. CASE disk[i][r] # Absent
  <2>1. \A f \in Feature : disk[i][r][f] \in Folder BY <1>1, <1>3
  <2> QED BY <1>3, <2>1, FolderTypes DEF AfterMps
<1> QED BY <1>2, <1>3

LEMMA TypeMain ==
  ASSUME TypeOK, Schedule, BatchesPartition, Main PROVE TypeOK'
<1>1. CASE CreateBatches \/ StartBatches BY <1>1, TypePlanning
<1>2. CASE Downloaded
  <2>1. fetch' \in [batch : 0..Len(plan), next : Nat, state : FetchState]
    <3>1. pc \notin {"idle", "plan"} BY <1>2 DEF Downloaded
    <3>2. i \in Nat /\ Len(plan) \in Nat BY DEF TypeOK
    <3>3. CASE i < Len(plan)
      BY <1>2, <3>2, <3>3, FetchTypes DEF Downloaded, FetchState
    <3>4. CASE ~(i < Len(plan))
      BY <1>2, <3>2, <3>4, FetchTypes DEF Downloaded, FetchState
    <3> QED BY <3>3, <3>4
  <2> QED BY <1>2, <2>1 DEF Downloaded, TypeOK, planning, FetchState
<1>3. CASE DownloadRaises
  BY <1>3, TypeEndRun DEF DownloadRaises, TypeOK, FetchState
<1>4. CASE RunAriaMps
  <2>1. PICK wrong \in Mishaps, failed \in [verdict : {"FAILED", "MISSING"}, data : BOOLEAN] :
          /\ disk' = [disk EXCEPT ![i] = [r \in Recording |-> AfterMps(r, wrong, failed)]]
          /\ IF wrong = {} THEN NoFault ELSE Fault
    BY <1>4 DEF RunAriaMps
  <2>2. faults' \in 0..MaxFaults BY <2>1, TypeFaults
  <2>3. i \in Index BY <1>4, InPlan DEF RunAriaMps
  <2>4. failed \in Folder BY DEF Folder, Verdict
  <2>5. disk' \in [Index -> Dir]
    <3> DEFINE new == [r \in Recording |-> AfterMps(r, wrong, failed)]
    <3>1. new \in Dir BY <2>3, <2>4, AfterMpsTypes DEF Dir
    <3>2. disk \in [Index -> Dir] /\ disk' = [disk EXCEPT ![i] = new] BY <2>1 DEF TypeOK, Dir
    <3> HIDE DEF new
    <3> QED BY <2>3, <3>1, <3>2
  <2> QED BY <1>4, <2>2, <2>5 DEF RunAriaMps, TypeOK, planning, Dir
<1>5. CASE BatchRaises
  <2>1. faults' \in 0..MaxFaults BY <1>5, TypeFaults DEF BatchRaises
  <2> QED BY <1>5, <2>1 DEF BatchRaises, TypeOK, planning
<1>6. CASE \E j \in Index, f \in Feature, part \in {"summary", "data"} : UploadFile(j, f, part)
  <2>1. PICK j \in Index, f \in Feature, part \in {"summary", "data"} : UploadFile(j, f, part)
    BY <1>6
  <2> DEFINE r == plan[i][j]
  <2>2. /\ r \in Recording /\ i \in Index /\ <<r, f, part>> \in Files
        /\ remote' = IF part = "data" THEN [remote EXCEPT ![r][f].data = TRUE]
                     ELSE [remote EXCEPT ![r][f].verdict = disk[i][r][f].verdict]
        /\ sent' = sent \cup {<<r, f, part>>}
        /\ UNCHANGED <<report, known, disk, cmd, planning, plan, pc, i, fetch, stale, faults>>
    <3>1. pc \notin {"idle", "plan"} BY <2>1 DEF UploadFile, Uploading
    <3>2. <<r, f, part>> \in Files /\ i \in Index BY <2>1, <3>1, InPlan DEF UploadFile
    <3>3. r \in Recording BY <3>1, <3>2, InPlan DEF Files
    <3> QED BY <2>1, <3>2, <3>3 DEF UploadFile
  <2>3. disk[i][r] \in [Feature -> Folder] BY <2>2 DEF Files, OnDisk, TypeOK
  <2>4. remote[r][f] \in Folder /\ disk[i][r][f] \in Folder BY <2>2, <2>3 DEF TypeOK
  <2>5. PICK g \in Folder : remote' = [remote EXCEPT ![r][f] = g]
    <3>1. [remote[r][f] EXCEPT !.data = TRUE] \in Folder
          /\ [remote[r][f] EXCEPT !.verdict = disk[i][r][f].verdict] \in Folder
      BY <2>4 DEF Folder
    <3> QED BY <2>2, <3>1
  <2>6. remote' \in [Recording -> [Feature -> Folder]] BY <2>5 DEF TypeOK
  <2>7. sent' \subseteq Recording \X Feature \X {"summary", "data"} BY <2>2 DEF TypeOK
  <2> QED BY <2>2, <2>6, <2>7 DEF TypeOK, planning
<1>7. CASE UploadFails
  <2>1. faults' \in 0..MaxFaults BY <1>7, TypeFaults DEF UploadFails
  <2> QED BY <1>7, <2>1 DEF UploadFails, TypeOK, planning
<1>8. CASE UploadEnds BY <1>8 DEF UploadEnds, TypeOK, planning
<1>9. CASE Validate
  <2>1. PICK misread \in {{}} \cup {{r} : r \in Batch(i)} :
       /\ known' = [r \in Recording |-> [f \in Feature |->
            IF r \notin Batch(i) \/ f \notin cmd.features THEN known[r][f]
            ELSE IF r \in misread THEN "MISSING" ELSE remote[r][f].verdict]]
       /\ IF misread = {} THEN NoFault ELSE Fault
    BY <1>9 DEF Validate
  <2>2. faults' \in 0..MaxFaults BY <2>1, TypeFaults
  <2>3. known' \in [Recording -> [Feature -> Verdict \cup {"none"}]]
    <3>1. \A r \in Recording, f \in Feature :
            /\ known[r][f] \in Verdict \cup {"none"}
            /\ remote[r][f].verdict \in Verdict \cup {"none"}
      BY DEF TypeOK, Folder
    <3>2. "MISSING" \in Verdict \cup {"none"} BY DEF Verdict
    <3> QED BY <2>1, <3>1, <3>2
  <2> QED BY <1>9, <2>2, <2>3 DEF Validate, TypeOK, planning
<1>10. CASE UploadReport
  <2>1. faults' \in 0..MaxFaults BY <1>10, TypeFaults DEF UploadReport
  <2> QED BY <1>10, <2>1 DEF UploadReport, TypeOK, planning
<1>11. CASE CleanUp
  <2>1. disk' \in [Index -> Dir] BY <1>11, FolderTypes DEF CleanUp, TypeOK, Dir
  <2>2. CASE i < Len(plan)
    BY <1>11, <2>1, <2>2 DEF CleanUp, TypeOK, planning, Dir
  <2>3. CASE ~(i < Len(plan))
    BY <1>11, <2>1, <2>3, TypeEndRun DEF CleanUp, TypeOK, Dir, FetchState
  <2> QED BY <2>2, <2>3
<1> QED BY <1>1, <1>2, <1>3, <1>4, <1>5, <1>6, <1>7, <1>8, <1>9, <1>10, <1>11 DEF Main

LEMMA TypeCrash == ASSUME TypeOK, Crash PROVE TypeOK'
<1>1. faults' \in 0..MaxFaults BY TypeFaults DEF Crash
<1>2. disk' \in [Index -> Dir] BY FolderTypes DEF Crash, TypeOK, Dir
<1>3. known' \in [Recording -> [Feature -> Verdict \cup {"none"}]] BY DEF Crash, TypeOK
<1> QED BY <1>1, <1>2, <1>3, TypeEndRun DEF Crash, TypeOK, Dir, FetchState

(* The types are kept by every step of a state in which the invariant holds. *)
LEMMA TypeNext ==
  ASSUME TypeOK, Schedule, BatchesPartition, Fetched, [Next]_vars PROVE TypeOK'
<1>1. CASE UNCHANGED vars BY <1>1 DEF vars, planning, TypeOK
<1>2. CASE Next
  BY <1>2, TypePlanning, TypeDownloader, TypeMain, TypeCrash DEF Next
<1> QED BY <1>1, <1>2

(* A run that ends leaves no plan and no download.                           *)
LEMMA EndRunInv ==
  ASSUME EndRun
  PROVE  Schedule' /\ BatchesPartition' /\ Fetched' /\ BatchReady' /\ DiskBound' /\ InSync'
<1>1. pc' = "idle" /\ plan' = <<>> /\ fetch' = NoFetch BY DEF EndRun
<1>2. ~Working' BY <1>1 DEF Working
<1>3. fetch'.state = "none" BY <1>1, FetchTypes
<1>4. Schedule' BY <1>1, <1>2 DEF Schedule
<1>5. BatchesPartition' BY <1>1 DEF BatchesPartition
<1>6. Fetched' BY <1>3 DEF Fetched
<1>7. BatchReady' /\ DiskBound' /\ InSync' BY <1>1, <1>2, <1>3 DEF BatchReady, DiskBound, InSync
<1> QED BY <1>4, <1>5, <1>6, <1>7

LEMMA MpsInit == Init => TypeOK /\ MpsInv
<1> SUFFICES ASSUME Init PROVE MpsInv BY TypeInit
<1>1. pc = "idle" /\ plan = <<>> /\ fetch = NoFetch BY DEF Init
<1>2. ~Working BY <1>1 DEF Working
<1>3. fetch.state = "none" BY <1>1, FetchTypes
<1>4. Schedule BY <1>1, <1>2 DEF Schedule
<1>5. BatchesPartition BY <1>1 DEF BatchesPartition
<1>6. Fetched BY <1>3 DEF Fetched
<1>7. BatchReady /\ DiskBound /\ InSync BY <1>1, <1>2, <1>3 DEF BatchReady, DiskBound, InSync
<1> QED BY <1>4, <1>5, <1>6, <1>7 DEF MpsInv

(* Steps inside process_batch_no_download that leave the disk alone.         *)
LEMMA QuietInv ==
  ASSUME MpsInv, Working, Working', UNCHANGED <<need, plan, i, fetch, disk, stale>>
  PROVE  /\ Schedule' /\ BatchesPartition' /\ Fetched' /\ BatchReady' /\ DiskBound'
         /\ remote' = remote => InSync'
<1>1. Schedule' BY DEF MpsInv, Schedule, Working
<1>2. BatchesPartition' BY DEF MpsInv, BatchesPartition, Working, Batch
<1>3. Fetched' BY DEF MpsInv, Fetched
<1>4. BatchReady' BY DEF MpsInv, BatchReady, Batch
<1>5. DiskBound' BY DEF MpsInv, DiskBound, Working
<1>6. remote' = remote => InSync' BY DEF MpsInv, InSync, UpToDate
<1> QED BY <1>1, <1>2, <1>3, <1>4, <1>5, <1>6

LEMMA LaunchInv ==
  ASSUME TypeOK, MpsInv, (\E c \in Commands : Launch(c)) \/ CleanInterrupted
  PROVE  MpsInv'
<1>1. pc = "idle" /\ plan = <<>> /\ fetch = NoFetch /\ fetch.state = "none"
  BY FetchTypes DEF Launch, CleanInterrupted, MpsInv, Schedule
<1>2. /\ UNCHANGED <<disk, plan, fetch>>
      /\ \/ pc' = "idle"
         \/ pc' = "plan" /\ i' = 1 /\ need' # {} /\ stale' = {k \in Index : disk[k] # EmptyDir}
  BY <1>1 DEF Launch, CleanInterrupted, planning
<1>3. ~Working' BY <1>2 DEF Working
<1>4. Len(plan) = 0 BY <1>1
<1>5. Schedule' BY <1>1, <1>2, <1>3, <1>4, SortedTypes DEF Schedule
<1>6. BatchesPartition' BY <1>2, <1>4 DEF BatchesPartition, Index
<1>7. Fetched' BY <1>1, <1>2 DEF Fetched
<1>8. BatchReady' /\ InSync' BY <1>1, <1>2, <1>3 DEF BatchReady, InSync
<1>9. DiskBound' BY <1>2 DEF DiskBound
<1> QED BY <1>5, <1>6, <1>7, <1>8, <1>9 DEF MpsInv

(* The recording at hand is in no batch yet.                                 *)
LEMMA NotYet ==
  ASSUME BatchesPartition, pc = "plan", i \in Index
  PROVE  \A k \in 1..Len(plan) : \A a \in 1..Len(plan[k]) : plan[k][a] # Sorted[i]
<1>1. (\E k \in 1..Len(plan) : Sorted[i] \in Batch(k)) <=> i < i /\ Sorted[i] \in need
  BY DEF BatchesPartition
<1>2. ~(i < i) BY SortedTypes DEF Index
<1>3. ~(\E k \in 1..Len(plan) : Sorted[i] \in Batch(k)) BY <1>1, <1>2
<1> QED BY <1>3 DEF Batch

(* No recording is at two places.                                            *)
LEMMA Apart ==
  ASSUME BatchesPartition, NEW k \in 1..Len(plan), NEW l \in 1..Len(plan),
         NEW a \in 1..Len(plan[k]), NEW b \in 1..Len(plan[l]), plan[k][a] = plan[l][b]
  PROVE  k = l /\ a = b
BY DEF BatchesPartition

(* A plan with one more recording at a place of its own is still a partition *)
(* of what needs processing.                                                 *)
LEMMA OneMore ==
  ASSUME TypeOK, BatchesPartition, pc = "plan", i \in Index, Sorted[i] \in need,
         i' = i + 1, pc' = pc, need' = need, plan' \in Seq(Seq(Recording)),
         NEW k0 \in 1..Len(plan'), NEW a0 \in 1..Len(plan'[k0]), plan'[k0][a0] = Sorted[i],
         \A k \in 1..Len(plan') : plan'[k] # <<>>,
         \A k \in 1..Len(plan') : \A a \in 1..Len(plan'[k]) : k # k0 \/ a # a0 =>
           k \in 1..Len(plan) /\ a \in 1..Len(plan[k]) /\ plan'[k][a] = plan[k][a],
         \A k \in 1..Len(plan) : \A a \in 1..Len(plan[k]) :
           k \in 1..Len(plan') /\ a \in 1..Len(plan'[k]) /\ plan'[k][a] = plan[k][a]
  PROVE  BatchesPartition'
<1>1. \A k \in 1..Len(plan) : \A a \in 1..Len(plan[k]) : plan[k][a] # Sorted[i]
  BY NotYet
<1>2. ASSUME NEW k \in 1..Len(plan'), NEW l \in 1..Len(plan'),
             NEW a \in 1..Len(plan'[k]), NEW b \in 1..Len(plan'[l]),
             plan'[k][a] = plan'[l][b]
      PROVE  k = l /\ a = b
  <2>1. CASE k = k0 /\ a = a0
    <3>1. plan'[l][b] = Sorted[i] BY <1>2, <2>1
    <3>2. ASSUME l # k0 \/ b # a0 PROVE FALSE
      <4>1. l \in 1..Len(plan) /\ b \in 1..Len(plan[l]) /\ plan'[l][b] = plan[l][b]
        BY <3>2
      <4> QED BY <1>1, <3>1, <4>1
    <3> QED BY <2>1, <3>2
  <2>2. CASE l = k0 /\ b = a0
    <3>1. plan'[k][a] = Sorted[i] BY <1>2, <2>2
    <3>2. ASSUME k # k0 \/ a # a0 PROVE FALSE
      <4>1. k \in 1..Len(plan) /\ a \in 1..Len(plan[k]) /\ plan'[k][a] = plan[k][a]
        BY <3>2
      <4> QED BY <1>1, <3>1, <4>1
    <3> QED BY <2>2, <3>2
  <2>3. CASE (k # k0 \/ a # a0) /\ (l # k0 \/ b # a0)
    <3>1. /\ k \in 1..Len(plan) /\ a \in 1..Len(plan[k]) /\ plan'[k][a] = plan[k][a]
          /\ l \in 1..Len(plan) /\ b \in 1..Len(plan[l]) /\ plan'[l][b] = plan[l][b]
      BY <2>3
    <3>2. plan[k][a] = plan[l][b] BY <1>2, <3>1
    <3> QED BY <3>1, <3>2, Apart, SMTT(30)
  <2> QED BY <2>1, <2>2, <2>3
<1>3. ASSUME NEW j \in Index
      PROVE  (\E k \in 1..Len(plan') : Sorted[j] \in Batch(k)') <=> j < i' /\ Sorted[j] \in need'
  <2>1. CASE j = i
    <3>1. Sorted[j] \in Batch(k0)' BY <2>1 DEF Batch
    <3>2. j < i' BY <2>1, SortedTypes DEF Index
    <3> QED BY <2>1, <3>1, <3>2
  <2>2. CASE j # i
    <3>1. Sorted[j] # Sorted[i] BY <2>2, MpsAssumption DEF MpsAssumption, Index
    <3>2. j < i' <=> j < i BY <2>2, SortedTypes DEF Index
    <3>3. (\E k \in 1..Len(plan) : Sorted[j] \in Batch(k)) <=> j < i /\ Sorted[j] \in need
      BY DEF BatchesPartition
    <3>4. ASSUME NEW k \in 1..Len(plan), Sorted[j] \in Batch(k)
          PROVE  \E l \in 1..Len(plan') : Sorted[j] \in Batch(l)'
      <4>1. PICK a \in 1..Len(plan[k]) : plan[k][a] = Sorted[j] BY <3>4 DEF Batch
      <4>2. k \in 1..Len(plan') /\ a \in 1..Len(plan'[k]) /\ plan'[k][a] = Sorted[j] BY <4>1
      <4>3. Sorted[j] \in Batch(k)' BY <4>2 DEF Batch
      <4> QED BY <4>2, <4>3
    <3>5. ASSUME NEW k \in 1..Len(plan'), Sorted[j] \in Batch(k)'
          PROVE  \E l \in 1..Len(plan) : Sorted[j] \in Batch(l)
      <4>1. PICK a \in 1..Len(plan'[k]) : plan'[k][a] = Sorted[j] BY <3>5 DEF Batch
      <4>2. k # k0 \/ a # a0 BY <3>1, <4>1
      <4>3. k \in 1..Len(plan) /\ a \in 1..Len(plan[k]) /\ plan[k][a] = Sorted[j] BY <4>1, <4>2
      <4>4. Sorted[j] \in Batch(k) BY <4>3 DEF Batch
      <4> QED BY <4>3, <4>4
    <3> QED BY <3>2, <3>3, <3>4, <3>5
  <2> QED BY <2>1, <2>2
<1> QED BY <1>2, <1>3 DEF BatchesPartition

LEMMA CreateBatchesInv == ASSUME TypeOK, MpsInv, CreateBatches PROVE MpsInv'
<1> DEFINE r == Sorted[i]
<1>0. Schedule /\ BatchesPartition /\ DiskBound BY DEF MpsInv
<1>1. /\ pc = "plan" /\ pc' = "plan" /\ i \in Index /\ i' = i + 1 /\ fetch = NoFetch
      /\ UNCHANGED <<remote, report, known, disk, cmd, need, pc, fetch, sent, stale, faults>>
      /\ Len(plan) < i
  BY <1>0, SortedTypes DEF CreateBatches, Schedule, Index
<1>2. r \in Recording /\ plan \in Seq(Seq(Recording)) /\ Len(plan) \in Nat
  BY <1>1, SortedTypes DEF TypeOK
<1>3. ~Working' /\ fetch'.state = "none" BY <1>1, FetchTypes DEF Working
<1>4. Fetched' /\ BatchReady' /\ InSync' BY <1>3 DEF Fetched, BatchReady, InSync
<1>5. DiskBound' BY <1>0, <1>1 DEF DiskBound
<1>6. BatchesPartition' /\ Len(plan') <= Len(plan) + 1 /\ Len(plan') \in Nat
  <2>1. CASE r \notin need
    <3>1. plan' = plan BY <2>1 DEF CreateBatches
    <3>2. \A j \in Index : j < i' /\ Sorted[j] \in need' <=> j < i /\ Sorted[j] \in need
      BY <1>1, <2>1 DEF Index
    <3> QED BY <1>0, <1>1, <1>2, <3>1, <3>2 DEF BatchesPartition, Batch
  <2>2. CASE r \in need /\ plan' = Append(plan, <<r>>)
    <3> DEFINE k0 == Len(plan) + 1
    <3>1. <<r>> \in Seq(Recording) /\ Len(<<r>>) = 1 /\ <<r>>[1] = r BY <1>2
    <3>2. /\ plan' \in Seq(Seq(Recording)) /\ Len(plan') = k0 /\ plan'[k0] = <<r>>
          /\ \A k \in 1..Len(plan) : plan'[k] = plan[k]
      BY <1>2, <2>2, <3>1
    <3>3. k0 \in 1..Len(plan') /\ 1 \in 1..Len(plan'[k0]) /\ plan'[k0][1] = Sorted[i]
      BY <1>2, <3>1, <3>2
    <3>4. \A k \in 1..Len(plan') : plan'[k] # <<>>
      <4>1. plan'[k0] # <<>> BY <3>1, <3>2
      <4>2. \A k \in 1..Len(plan') : k = k0 \/ k \in 1..Len(plan) BY <1>2, <3>2
      <4> QED BY <1>0, <3>2, <4>1, <4>2 DEF BatchesPartition
    <3>5. \A k \in 1..Len(plan') : \A a \in 1..Len(plan'[k]) : k # k0 \/ a # 1 =>
            k \in 1..Len(plan) /\ a \in 1..Len(plan[k]) /\ plan'[k][a] = plan[k][a]
      <4>1. \A k \in 1..Len(plan') : k = k0 \/ k \in 1..Len(plan) BY <1>2, <3>2
      <4>2. \A a \in 1..Len(plan'[k0]) : a = 1 BY <3>1, <3>2
      <4> QED BY <3>2, <4>1, <4>2
    <3>6. \A k \in 1..Len(plan) : \A a \in 1..Len(plan[k]) :
            k \in 1..Len(plan') /\ a \in 1..Len(plan'[k]) /\ plan'[k][a] = plan[k][a]
      BY <1>2, <3>2
    <3>7. BatchesPartition'
      BY SMTT(30), <1>0, <1>1, <2>2, <3>2, <3>3, <3>4, <3>5, <3>6, OneMore
    <3> QED BY <1>2, <3>2, <3>7
  <2>3. CASE /\ r \in need /\ plan # <<>>
             /\ plan' = [plan EXCEPT ![Len(plan)] = Append(@, r)]
    <3> DEFINE k0 == Len(plan)
               a0 == Len(plan[k0]) + 1
    <3>1. k0 \in 1..Len(plan) /\ plan[k0] \in Seq(Recording) /\ Len(plan[k0]) \in Nat
      BY <1>2, <2>3
    <3>2. /\ Append(plan[k0], r) \in Seq(Recording) /\ Len(Append(plan[k0], r)) = a0
          /\ Append(plan[k0], r)[a0] = r
          /\ \A a \in 1..Len(plan[k0]) : Append(plan[k0], r)[a] = plan[k0][a]
      BY <1>2, <3>1
    <3>3. /\ plan' \in Seq(Seq(Recording)) /\ Len(plan') = k0
          /\ plan'[k0] = Append(plan[k0], r)
          /\ \A k \in 1..Len(plan) : k # k0 => plan'[k] = plan[k]
      BY <1>2, <2>3, <3>1, <3>2
    <3>4. k0 \in 1..Len(plan') /\ a0 \in 1..Len(plan'[k0]) /\ plan'[k0][a0] = Sorted[i]
      BY <3>1, <3>2, <3>3
    <3>5. \A k \in 1..Len(plan') : plan'[k] # <<>>
      <4>1. Len(plan'[k0]) # 0 BY <3>1, <3>2, <3>3
      <4>2. plan'[k0] # <<>> BY <4>1
      <4> QED BY <1>0, <3>3, <4>2 DEF BatchesPartition
    <3>6. \A k \in 1..Len(plan') : \A a \in 1..Len(plan'[k]) : k # k0 \/ a # a0 =>
            k \in 1..Len(plan) /\ a \in 1..Len(plan[k]) /\ plan'[k][a] = plan[k][a]
      <4>1. \A a \in 1..Len(plan'[k0]) : a = a0 \/ a \in 1..Len(plan[k0]) BY <3>1, <3>2, <3>3
      <4>2. \A a \in 1..Len(plan[k0]) : plan'[k0][a] = plan[k0][a] BY <3>2, <3>3
      <4>3. Len(plan') = Len(plan) BY <3>3
      <4> HIDE DEF k0, a0
      <4> SUFFICES ASSUME NEW k \in 1..Len(plan'), NEW a \in 1..Len(plan'[k]), k # k0 \/ a # a0
                   PROVE  /\ k \in 1..Len(plan) /\ a \in 1..Len(plan[k])
                          /\ plan'[k][a] = plan[k][a]
        OBVIOUS
      <4>4. k \in 1..Len(plan) BY <4>3
      <4>5. CASE k = k0 BY <4>1, <4>2, <4>4, <4>5
      <4>6. CASE k # k0 BY <3>3, <4>4, <4>6
      <4> QED BY <4>4, <4>5, <4>6
    <3>7. \A k \in 1..Len(plan) : \A a \in 1..Len(plan[k]) :
            k \in 1..Len(plan') /\ a \in 1..Len(plan'[k]) /\ plan'[k][a] = plan[k][a]
      <4>1. Len(plan') = Len(plan) BY <3>3
      <4>2. 1..Len(plan[k0]) \subseteq 1..Len(plan'[k0]) BY <3>1, <3>2, <3>3
      <4>3. \A a \in 1..Len(plan[k0]) : plan'[k0][a] = plan[k0][a] BY <3>2, <3>3
      <4> HIDE DEF k0, a0
      <4> QED BY <3>3, <4>1, <4>2, <4>3
    <3>8. BatchesPartition'
      <4>1. Sorted[i] \in need BY <2>3
      <4>2. plan' \in Seq(Seq(Recording)) BY <3>3
      <4>3. i' = i + 1 /\ pc' = pc /\ need' = need /\ i \in Index /\ pc = "plan" BY <1>1
      <4> HIDE DEF k0, a0
      <4> QED BY <1>0, <3>4, <3>5, <3>6, <3>7, <4>1, <4>2, <4>3, OneMore
    <3> QED BY <1>2, <3>3, <3>8
  <2> QED BY <2>1, <2>2, <2>3 DEF CreateBatches
<1>7. Schedule'
  <2>1. need' # {} BY <1>0, <1>1 DEF Schedule
  <2>2. i' \in 1..(Len(Sorted) + 1) /\ Len(plan') < i'
    BY <1>1, <1>2, <1>6, SortedTypes DEF Index
  <2> QED BY <1>1, <1>3, <2>1, <2>2 DEF Schedule
<1> QED BY <1>4, <1>5, <1>6, <1>7 DEF MpsInv

LEMMA StartBatchesInv == ASSUME TypeOK, MpsInv, StartBatches PROVE MpsInv'
<1>1. /\ pc = "plan" /\ pc' = "await" /\ i' = 1 /\ fetch' = Fetch(1)
      /\ UNCHANGED <<disk, plan, stale>>
  BY DEF StartBatches
<1>2. fetch'.batch = 1 /\ fetch'.state = "clear" /\ fetch'.next = 1 BY <1>1, FetchTypes
<1>3. Len(plan) \in Nat /\ Len(plan) # 0 /\ Len(plan) <= Len(Sorted)
  <2>1. plan # <<>> BY SomeBatch DEF MpsInv
  <2>2. i <= Len(Sorted) + 1 /\ i \in Nat /\ Len(plan) < i
    BY <1>1, SortedTypes DEF MpsInv, Schedule
  <2>3. plan \in Seq(Seq(Recording)) BY DEF TypeOK
  <2> QED BY <2>1, <2>2, <2>3, SortedTypes
<1>4. ~Working' BY <1>1 DEF Working
<1>5. Schedule' BY <1>1, <1>2, <1>3, <1>4 DEF Schedule
<1>6. BatchesPartition' BY <1>1 DEF MpsInv, BatchesPartition, Batch
<1>7. Fetched' /\ BatchReady' /\ InSync' BY <1>2, <1>4 DEF Fetched, BatchReady, InSync
<1>8. DiskBound' BY <1>1 DEF MpsInv, DiskBound
<1> QED BY <1>5, <1>6, <1>7, <1>8 DEF MpsInv

(* The worker downloads into a directory that the main thread does not use.  *)
LEMMA DownloaderInv == ASSUME TypeOK, MpsInv, Downloader PROVE MpsInv'
<1> DEFINE b == fetch.batch
<1>0. Schedule /\ BatchesPartition /\ Fetched /\ BatchReady /\ DiskBound /\ InSync BY DEF MpsInv
<1>1. /\ UNCHANGED <<remote, need, plan, pc, i, stale>>
      /\ fetch.state \in {"clear", "running"}
  BY DEF Downloader, ClearDirectory, DownloadRecording, DownloadFails, planning
<1>2. /\ pc \notin {"idle", "plan"} /\ b \in 1..Len(plan) /\ b \in Index /\ b \in {i, i + 1}
      /\ plan[b] \in Seq(Recording) /\ i \in Nat
  BY <1>0, <1>1, InPlan DEF TypeOK
<1>3. Working => b = i + 1 /\ b # i
  BY <1>0, <1>1, <1>2, FetchTypes DEF Schedule, Working
<1>4. fetch \in [batch : 0..Len(plan), next : Nat, state : FetchState] BY DEF TypeOK, FetchState
<1>5. disk \in [Index -> Dir] /\ remote \in [Recording -> [Feature -> Folder]] BY DEF TypeOK, Dir
<1>6. /\ fetch'.batch = b /\ fetch'.state \in {"running", "done", "failed"}
      /\ \A k \in Index : k # b => disk'[k] = disk[k]
      /\ Fetched'
      /\ fetch'.state \in {"running", "done"} => UpToDate(b)'
  <2>1. CASE ClearDirectory
    <3>1. fetch' = [fetch EXCEPT !.state = "running"] /\ disk' = [disk EXCEPT ![b] = EmptyDir]
          /\ fetch.state = "clear"
      BY <2>1 DEF ClearDirectory
    <3>2. fetch'.batch = b /\ fetch'.state = "running" /\ fetch'.next = 1
      BY <1>0, <1>4, <3>1 DEF Fetched
    <3>3. disk'[b] = EmptyDir /\ \A k \in Index : k # b => disk'[k] = disk[k]
      BY <1>2, <1>5, <3>1
    <3>4. \A q \in Recording : disk'[b][q] = Absent BY <3>3 DEF EmptyDir
    <3>5. 1 \in 1..Len(plan[b]) BY <1>0, <1>2 DEF BatchesPartition
    <3>6. Fetched' BY <1>1, <3>2, <3>4, <3>5 DEF Fetched
    <3> QED BY <3>2, <3>3, <3>4, <3>6 DEF UpToDate
  <2>2. CASE DownloadRecording
    <3> DEFINE n == fetch.next
               r == plan[b][n]
               state == IF n = Len(plan[b]) THEN "done" ELSE "running"
    <3>1. /\ fetch.state = "running" /\ disk' = [disk EXCEPT ![b][r] = remote[r]]
          /\ fetch' = [fetch EXCEPT !.state = state, !.next = n + 1]
      BY <2>2 DEF DownloadRecording
    <3>2. n \in 1..Len(plan[b]) /\ r \in Recording /\ Len(plan[b]) \in Nat
      BY <1>0, <1>2, <3>1 DEF Fetched
    <3>3. fetch'.batch = b /\ fetch'.state = state /\ fetch'.next = n + 1
      BY <1>4, <3>1
    <3>4. /\ \A k \in Index : k # b => disk'[k] = disk[k]
          /\ \A q \in Recording : disk'[b][q] = IF q = r THEN remote[r] ELSE disk[b][q]
      BY <1>2, <1>5, <3>1, <3>2 DEF Dir
    <3>5. remote[r] # Absent
      BY <1>5, <3>2, MpsAssumption DEF MpsAssumption
    <3>6. \A q \in Recording : disk[b][q] # Absent <=> \E l \in 1..(n - 1) : plan[b][l] = q
      BY <1>0, <3>1 DEF Fetched
    <3>7. 1..n = (1..(n - 1)) \cup {n} BY <3>2
    <3>8. \A q \in Recording : disk'[b][q] # Absent <=> \E l \in 1..n : plan[b][l] = q
      BY <3>4, <3>5, <3>6, <3>7
    <3>9. Fetched'
      <4>1. state \in {"done", "running"}
            /\ (state = "running" => n + 1 \in 1..Len(plan[b]))
            /\ (state = "done" => n + 1 = Len(plan[b]) + 1)
        BY <3>2
      <4>2. (n + 1) - 1 = n BY <3>2
      <4> HIDE DEF n, b, state
      <4> QED BY <1>1, <3>3, <3>8, <4>1, <4>2 DEF Fetched
    <3>10. UpToDate(b)' BY <1>0, <1>1, <3>1, <3>4 DEF InSync, UpToDate
    <3> QED BY <3>3, <3>4, <3>9, <3>10
  <2>3. CASE DownloadFails
    <3>1. fetch' = [fetch EXCEPT !.state = "failed"] /\ disk' = disk BY <2>3 DEF DownloadFails
    <3>2. fetch'.batch = b /\ fetch'.state = "failed" BY <1>4, <3>1
    <3> QED BY <3>1, <3>2 DEF Fetched
  <2> QED BY <2>1, <2>2, <2>3 DEF Downloader
<1>7. Working => disk'[i] = disk[i] BY <1>0, <1>2, <1>3, <1>6, InPlan DEF Working
<1>8. Schedule'
  <2>1. ~Working \/ i < Len(plan)
    BY <1>0, <1>1, FetchTypes DEF Schedule
  <2> QED BY <1>0, <1>1, <1>2, <1>3, <1>6, <2>1 DEF Schedule, Working
<1>9. BatchesPartition' BY <1>0, <1>1 DEF BatchesPartition, Batch
<1>10. BatchReady' BY <1>0, <1>1, <1>7 DEF BatchReady, Batch, Working
<1>11. DiskBound' BY <1>0, <1>1, <1>2, <1>6 DEF DiskBound
<1>12. InSync'
  <2>1. Working' => UpToDate(i)' BY <1>0, <1>1, <1>7 DEF InSync, UpToDate, Working
  <2> QED BY <1>6, <2>1 DEF InSync
<1> QED BY <1>6, <1>8, <1>9, <1>10, <1>11, <1>12 DEF MpsInv

(* The tool starts on a directory that is completely downloaded.             *)
LEMMA DownloadedInv == ASSUME TypeOK, MpsInv, Downloaded PROVE MpsInv'
<1>0. Schedule /\ BatchesPartition /\ Fetched /\ DiskBound /\ InSync BY DEF MpsInv
<1>1. /\ pc = "await" /\ pc' = "mps" /\ fetch.batch = i /\ fetch.state = "done"
      /\ fetch' = (IF i < Len(plan) THEN Fetch(i + 1) ELSE NoFetch)
      /\ UNCHANGED <<remote, disk, need, plan, i, stale>>
  BY DEF Downloaded, planning
<1>2. i \in 1..Len(plan) /\ i \in Nat /\ Len(plan[i]) \in Nat
  BY <1>0, <1>1, InPlan DEF TypeOK
<1>3. IF i < Len(plan) THEN fetch'.batch = i + 1 /\ fetch'.state = "clear" /\ fetch'.next = 1
      ELSE fetch' = NoFetch /\ fetch'.state = "none"
  BY <1>1, <1>2, FetchTypes
<1>4. fetch'.state \in {"clear", "none"} BY <1>3
<1>5. Schedule' BY <1>0, <1>1, <1>2, <1>3 DEF Schedule, Working
<1>6. BatchesPartition' BY <1>0, <1>1 DEF BatchesPartition, Batch
<1>7. Fetched' BY <1>3, <1>4 DEF Fetched
<1>8. BatchReady'
  <2>1. \A r \in Recording : disk[i][r] # Absent <=> \E l \in 1..(fetch.next - 1) : plan[i][l] = r
    BY <1>0, <1>1 DEF Fetched
  <2>2. fetch.next - 1 = Len(plan[i]) BY <1>0, <1>1, <1>2 DEF Fetched
  <2>3. \A r \in Recording : disk[i][r] # Absent <=> r \in Batch(i) BY <2>1, <2>2 DEF Batch
  <2> QED BY <1>1, <2>3 DEF BatchReady, Batch
<1>9. DiskBound' BY <1>0, <1>1 DEF DiskBound
<1>10. InSync' BY <1>0, <1>1, <1>4 DEF InSync, UpToDate
<1> QED BY <1>5, <1>6, <1>7, <1>8, <1>9, <1>10 DEF MpsInv

(* The tool keeps the recordings of the directory and what is finished.      *)
LEMMA RunAriaMpsInv == ASSUME TypeOK, MpsInv, RunAriaMps PROVE MpsInv'
<1>0. Schedule /\ BatchesPartition /\ Fetched /\ BatchReady /\ DiskBound /\ InSync BY DEF MpsInv
<1>1. /\ pc = "mps" /\ pc' = "upload"
      /\ UNCHANGED <<remote, need, plan, i, fetch, stale>>
  BY DEF RunAriaMps, planning
<1>2. PICK wrong \in Mishaps, failed \in [verdict : {"FAILED", "MISSING"}, data : BOOLEAN] :
        disk' = [disk EXCEPT ![i] = [r \in Recording |-> AfterMps(r, wrong, failed)]]
  BY DEF RunAriaMps
<1>3. i \in Index /\ i \in Nat /\ disk \in [Index -> Dir]
  BY <1>0, <1>1, InPlan DEF TypeOK, Dir
<1>4. /\ \A r \in Recording : disk'[i][r] = AfterMps(r, wrong, failed)
      /\ \A k \in Index : k # i => disk'[k] = disk[k]
  BY <1>2, <1>3
<1>5. Working /\ Working' BY <1>1 DEF Working
<1>6. fetch.state # "none" => fetch.batch \in Index /\ fetch.batch # i
  BY <1>0, <1>3, <1>5, InPlan, FetchTypes DEF Schedule
<1>7. \A r \in Recording : disk'[i][r] # Absent <=> disk[i][r] # Absent
  <2> SUFFICES ASSUME NEW r \in Recording PROVE disk'[i][r] # Absent <=> disk[i][r] # Absent
    OBVIOUS
  <2>1. CASE disk[i][r] = Absent BY <1>4, <2>1 DEF AfterMps
  <2>2. CASE disk[i][r] # Absent
    <3>1. failed \in Folder BY DEF Folder, Verdict
    <3>2. \A f \in Feature : disk[i][r][f] \in Folder BY <1>3, <2>2 DEF Dir
    <3>3. AfterMps(r, wrong, failed) \in [Feature -> Folder]
      BY <2>2, <3>1, <3>2, FolderTypes DEF AfterMps
    <3> QED BY <1>4, <2>2, <3>3, MpsAssumption DEF MpsAssumption
  <2> QED BY <2>1, <2>2
<1>8. UpToDate(i)'
  <2> SUFFICES ASSUME NEW r \in Recording, NEW f \in Feature, disk'[i][r] # Absent,
                      remote[r][f].verdict = "OK"
               PROVE  disk'[i][r][f].verdict = "OK"
    BY <1>1 DEF UpToDate
  <2>1. disk[i][r] # Absent /\ disk[i][r][f].verdict = "OK"
    BY <1>0, <1>5, <1>7 DEF InSync, UpToDate
  <2>2. ~Attempts(cmd, f, disk[i][r][f]) BY <2>1 DEF Attempts
  <2>3. AfterMps(r, wrong, failed)[f] = disk[i][r][f] BY <2>1, <2>2 DEF AfterMps
  <2> QED BY <1>4, <2>1, <2>3
<1>9. Schedule' BY <1>0, <1>1, <1>5 DEF Schedule, Working
<1>10. BatchesPartition' BY <1>0, <1>1 DEF BatchesPartition, Batch
<1>11. Fetched' BY <1>0, <1>1, <1>4, <1>6 DEF Fetched
<1>12. BatchReady' BY <1>0, <1>1, <1>5, <1>7 DEF BatchReady, Batch
<1>13. DiskBound' BY <1>0, <1>1, <1>4 DEF DiskBound
<1>14. InSync' BY <1>0, <1>1, <1>4, <1>6, <1>8 DEF InSync, UpToDate
<1> QED BY <1>9, <1>10, <1>11, <1>12, <1>13, <1>14 DEF MpsInv

(* What an upload does to the bucket: the file is one of the batch's         *)
(* directory, and a summary takes the directory's verdict.                   *)
LEMMA UploadEffect ==
  ASSUME TypeOK, MpsInv, NEW j \in Index, NEW f \in Feature, NEW part \in {"summary", "data"},
         UploadFile(j, f, part)
  PROVE  LET r == plan[i][j]
         IN /\ r \in Batch(i) /\ r \in Recording /\ Working /\ disk[i][r] # Absent
            /\ \A q \in Recording, g \in Feature :
                 \/ remote'[q][g].verdict = remote[q][g].verdict
                 \/ q = r /\ g = f /\ remote'[q][g].verdict = disk[i][r][f].verdict
<1> DEFINE r == plan[i][j]
<1>1. Working /\ pc \notin {"idle", "plan"} BY DEF UploadFile, Uploading, Working
<1>2. <<r, f, part>> \in Files BY DEF UploadFile
<1>3. r \in Batch(i) /\ r \in Recording /\ disk[i][r] # Absent
  BY <1>1, <1>2, InPlan DEF MpsInv, Files, OnDisk
<1>4. remote' = IF part = "data" THEN [remote EXCEPT ![r][f].data = TRUE]
                ELSE [remote EXCEPT ![r][f].verdict = disk[i][r][f].verdict]
  BY DEF UploadFile
<1>5. remote \in [Recording -> [Feature -> Folder]] BY DEF TypeOK
<1>6. ASSUME NEW q \in Recording, NEW g \in Feature
      PROVE  \/ remote'[q][g].verdict = remote[q][g].verdict
             \/ q = r /\ g = f /\ remote'[q][g].verdict = disk[i][r][f].verdict
  <2>1. remote[q][g] \in Folder /\ remote[r][f] \in Folder BY <1>3, <1>5
  <2>2. CASE part = "data"
    BY <1>3, <1>4, <1>5, <2>1, <2>2 DEF Folder
  <2>3. CASE part # "data"
    BY <1>3, <1>4, <1>5, <2>1, <2>3 DEF Folder
  <2> QED BY <2>2, <2>3
<1> QED BY <1>1, <1>3, <1>6

LEMMA UploadInv ==
  ASSUME TypeOK, MpsInv, NEW j \in Index, NEW f \in Feature, NEW part \in {"summary", "data"},
         UploadFile(j, f, part)
  PROVE  MpsInv'
<1> DEFINE r == plan[i][j]
<1>0. Schedule /\ BatchesPartition /\ Fetched /\ BatchReady /\ InSync BY DEF MpsInv
<1>1. UNCHANGED <<pc, need, plan, i, fetch, disk, stale>> BY DEF UploadFile, planning
<1>2. /\ r \in Batch(i) /\ r \in Recording /\ Working /\ disk[i][r] # Absent
      /\ \A q \in Recording, g \in Feature :
           \/ remote'[q][g].verdict = remote[q][g].verdict
           \/ q = r /\ g = f /\ remote'[q][g].verdict = disk[i][r][f].verdict
  BY UploadEffect
<1>3. Working' BY <1>1, <1>2 DEF Working
<1>4. UpToDate(i)' BY <1>0, <1>1, <1>2 DEF InSync, UpToDate
<1>5. ASSUME fetch.state \in {"running", "done"} PROVE UpToDate(fetch.batch)'
  <2> DEFINE b == fetch.batch
  <2>1. b \in 1..Len(plan) /\ i \in 1..Len(plan) /\ b # i
    BY <1>0, <1>2, <1>5, InPlan, FetchTypes DEF Schedule, Working, TypeOK
  <2>2. r \notin Batch(b)
    <3>1. ASSUME NEW m \in 1..Len(plan[i]), NEW n \in 1..Len(plan[b])
          PROVE  plan[i][m] # plan[b][n]
      BY <1>0, <2>1 DEF BatchesPartition
    <3> HIDE DEF b, r
    <3>2. PICK m \in 1..Len(plan[i]) : r = plan[i][m] BY <1>2 DEF Batch
    <3> QED BY <3>1, <3>2 DEF Batch
  <2>3. disk[b][r] = Absent
    <3>1. disk[b][r] # Absent => \E l \in 1..(fetch.next - 1) : plan[b][l] = r
      BY <1>0, <1>2, <1>5 DEF Fetched
    <3>2. fetch.next - 1 \in 0..Len(plan[b])
      <4>1. plan[b] \in Seq(Recording) BY <1>0, <1>5, InPlan
      <4>2. Len(plan[b]) \in Nat BY <4>1
      <4> QED BY <1>0, <1>5, <4>2 DEF Fetched
    <3> QED BY <2>2, <3>1, <3>2 DEF Batch
  <2> HIDE DEF b, r
  <2>4. UpToDate(b) BY <1>0, <1>5 DEF InSync, b
  <2>5. UpToDate(b)' BY <1>1, <1>2, <2>3, <2>4 DEF UpToDate, b
  <2> QED BY <2>5 DEF b
<1>6. InSync' BY <1>1, <1>4, <1>5 DEF InSync
<1> QED BY <1>1, <1>2, <1>3, <1>6, QuietInv DEF MpsInv

(* The next batch is on disk, or being fetched, when one is removed.         *)
LEMMA CleanUpInv == ASSUME TypeOK, MpsInv, CleanUp PROVE MpsInv'
<1>0. Schedule /\ BatchesPartition /\ Fetched /\ DiskBound /\ InSync BY DEF MpsInv
<1>1. pc = "cleanup" /\ disk' = [disk EXCEPT ![i] = EmptyDir] /\ remote' = remote BY DEF CleanUp
<1>2. CASE ~(i < Len(plan))
  <2>1. EndRun BY <1>2 DEF CleanUp
  <2> QED BY <2>1, EndRunInv DEF MpsInv
<1>3. CASE i < Len(plan)
  <2>1. pc' = "await" /\ i' = i + 1 /\ UNCHANGED <<need, plan, fetch, stale>>
    BY <1>3 DEF CleanUp, planning
  <2>2. i \in 1..Len(plan) /\ i \in Index /\ i \in Nat /\ Len(plan) \in Nat
        /\ disk \in [Index -> Dir]
    BY <1>0, <1>1, InPlan DEF TypeOK, Dir
  <2>3. Working /\ ~Working' BY <1>1, <2>1 DEF Working
  <2>4. fetch.batch = i + 1 /\ fetch.state # "none" /\ fetch.batch \in Index
    BY <1>0, <1>3, <2>3, InPlan DEF Schedule
  <2>5. /\ disk'[i] = EmptyDir
        /\ \A k \in Index : k # i => disk'[k] = disk[k]
    BY <1>1, <2>2
  <2>6. disk'[fetch.batch] = disk[fetch.batch] BY <2>2, <2>4, <2>5
  <2>7. Schedule' BY <1>0, <1>1, <1>3, <2>1, <2>2, <2>3, <2>4 DEF Schedule
  <2>8. BatchesPartition' BY <1>0, <2>1 DEF BatchesPartition, Batch
  <2>9. Fetched' BY <1>0, <2>1, <2>6 DEF Fetched
  <2>10. BatchReady' BY <2>3 DEF BatchReady
  <2>11. DiskBound'
    <3> SUFFICES ASSUME NEW k \in Index, disk'[k] # EmptyDir
                 PROVE  k \in stale' \/ (pc' # "plan" /\ k \in {i', i' + 1})
      BY DEF DiskBound
    <3>1. k # i /\ disk[k] # EmptyDir BY <2>5
    <3> QED BY <1>0, <1>1, <2>1, <3>1 DEF DiskBound
  <2>12. InSync' BY <1>0, <1>1, <2>1, <2>3, <2>6 DEF InSync, UpToDate
  <2> QED BY <2>7, <2>8, <2>9, <2>10, <2>11, <2>12 DEF MpsInv
<1> QED BY <1>2, <1>3

LEMMA MpsNext == TypeOK /\ MpsInv /\ [Next]_vars => (TypeOK /\ MpsInv)'
<1> SUFFICES ASSUME TypeOK, MpsInv, [Next]_vars PROVE TypeOK' /\ MpsInv' OBVIOUS
<1>1. TypeOK' BY TypeNext DEF MpsInv
<1>2. CASE UNCHANGED vars
  BY <1>1, <1>2 DEF vars, planning, MpsInv, Schedule, BatchesPartition, Fetched, BatchReady, DiskBound,
     InSync, UpToDate, Working, Batch
<1>3. CASE (\E c \in Commands : Launch(c)) \/ CleanInterrupted BY <1>1, <1>3, LaunchInv
<1>4. CASE Downloader BY <1>1, <1>4, DownloaderInv
<1>5. CASE Crash BY <1>1, <1>5, EndRunInv DEF Crash, MpsInv
<1>6. CASE Main
  <2>1. CASE BatchRaises \/ UploadFails \/ UploadEnds \/ Validate \/ UploadReport
    <3>1. Working /\ Working' /\ UNCHANGED <<remote, need, plan, i, fetch, disk, stale>>
      BY <2>1 DEF BatchRaises, UploadFails, UploadEnds, Validate, UploadReport, Uploading,
         Working, planning
    <3> QED BY <1>1, <3>1, QuietInv DEF MpsInv
  <2>2. CASE \E j \in Index, f \in Feature, part \in {"summary", "data"} : UploadFile(j, f, part)
    BY <1>1, <2>2, UploadInv
  <2>3. CASE DownloadRaises BY <1>1, <2>3, EndRunInv DEF DownloadRaises, MpsInv
  <2> QED BY <1>1, <1>6, <2>1, <2>2, <2>3, CreateBatchesInv, StartBatchesInv, DownloadedInv,
          RunAriaMpsInv, CleanUpInv DEF Main
<1> QED BY <1>1, <1>2, <1>3, <1>4, <1>5, <1>6 DEF Next

(* The directories in use belong to the plan and are never behind the        *)
(* bucket, whatever fails or crashes; the types hold with it.                *)
THEOREM MpsInvariant == Spec => [](TypeOK /\ MpsInv)
BY MpsInit, MpsNext, PTL DEF Spec

(* Variables keep their types; the download worker stays inside the plan.    *)
THEOREM MpsTypeCorrect == Spec => []TypeOK
BY MpsInvariant, PTL

(* aria_mps sees exactly the recordings of its batch.                        *)
THEOREM BatchesAreReady == Spec => []BatchReady
<1>1. MpsInv => BatchReady BY DEF MpsInv
<1> QED BY <1>1, MpsInvariant, PTL

(* Two batches at most are on the disk, besides what an earlier run left.    *)
THEOREM DiskIsBounded == Spec => []DiskBound
<1>1. MpsInv => DiskBound BY DEF MpsInv
<1> QED BY <1>1, MpsInvariant, PTL

(* create_batches partitions what needs processing.                          *)
THEOREM BatchesArePartition == Spec => []BatchesPartition
<1>1. MpsInv => BatchesPartition BY DEF MpsInv
<1> QED BY <1>1, MpsInvariant, PTL

(* A finished feature stays finished in every step but cleaning.             *)
LEMMA FinishedStays ==
  ASSUME TypeOK, MpsInv, [Next]_vars,
         ~(\E c \in Commands : Launch(c)), ~CleanInterrupted,
         NEW r \in Recording, NEW f \in Feature, remote[r][f].verdict = "OK"
  PROVE  remote'[r][f].verdict = "OK"
<1>1. CASE \E j \in Index, g \in Feature, part \in {"summary", "data"} : UploadFile(j, g, part)
  <2>1. PICK j \in Index, g \in Feature, part \in {"summary", "data"} : UploadFile(j, g, part)
    BY <1>1
  <2> DEFINE q == plan[i][j]
  <2>2. /\ Working /\ disk[i][q] # Absent /\ q \in Recording
        /\ \/ remote'[r][f].verdict = remote[r][f].verdict
           \/ r = q /\ f = g /\ remote'[r][f].verdict = disk[i][q][g].verdict
    BY <2>1, UploadEffect
  <2>3. r = q => disk[i][q][f].verdict = "OK" BY <2>2 DEF MpsInv, InSync, UpToDate
  <2> QED BY <2>2, <2>3
<1>2. CASE ~(\E j \in Index, g \in Feature, part \in {"summary", "data"} : UploadFile(j, g, part))
  <2>1. remote' = remote
    BY <1>2 DEF Next, vars, Downloader, Main, ClearDirectory, DownloadRecording, DownloadFails,
       CreateBatches, StartBatches, Downloaded, DownloadRaises, RunAriaMps, BatchRaises,
       UploadFails, UploadEnds, Validate, UploadReport, CleanUp, Crash
  <2> QED BY <2>1
<1> QED BY <1>1, <1>2

LEMMA CleaningSpares ==
  ASSUME TypeOK, NEW r \in Recording, Complete(r),
         (\E c \in Commands : Launch(c)) \/ CleanInterrupted
  PROVE  remote'[r] = remote[r]
<1>1. Cleaned(r) = remote[r]
  <2>1. \A f \in Feature : Exists(r, f) BY DEF Complete, Exists, NoFolder
  <2> QED BY <2>1 DEF Cleaned
<1>2. CASE \E c \in Commands : Launch(c)
  <2>1. PICK c \in Commands :
          remote' = [q \in Recording |-> IF c.clean THEN Cleaned(q) ELSE remote[q]]
    BY <1>2 DEF Launch
  <2> QED BY <1>1, <2>1
<1>3. CASE CleanInterrupted
  <2>1. PICK q \in Recording, f \in Feature :
          /\ Cleaned(q) # remote[q]
          /\ \E left : remote' = [remote EXCEPT ![q][f] = left]
    BY <1>3 DEF CleanInterrupted
  <2>2. q # r BY <1>1, <2>1
  <2> QED BY <2>1, <2>2 DEF TypeOK
<1> QED BY <1>2, <1>3

(* A recording whose features are all computed stays so, cleaned or not.     *)
THEOREM CompletedStay == Spec => CompleteStays
<1> DEFINE Stays == \A r \in Recording : Complete(r) => Complete(r)'
<1>1. TypeOK /\ MpsInv /\ [Next]_vars => [Stays]_vars
  <2> SUFFICES ASSUME TypeOK, MpsInv, [Next]_vars, NEW r \in Recording, Complete(r)
               PROVE  Complete(r)'
    OBVIOUS
  <2>1. CASE (\E c \in Commands : Launch(c)) \/ CleanInterrupted
    BY <2>1, CleaningSpares DEF Complete
  <2>2. CASE ~((\E c \in Commands : Launch(c)) \/ CleanInterrupted)
    BY <2>2, FinishedStays DEF Complete
  <2> QED BY <2>1, <2>2
<1> QED BY <1>1, MpsInvariant, PTL DEF Spec, CompleteStays

(* Command lines other than that of run_mps.sh.                              *)
NoCleaning == \A c \in Commands : ~c.clean

(* The local report claims no more than the bucket's does.                   *)
ReportsTruth ==
  \A r \in Recording, f \in Feature :
    report[r][f] = "OK" \/ known[r][f] = "OK" => remote[r][f].verdict = "OK"

LEMMA TruthNext ==
  ASSUME NoCleaning
  PROVE  TypeOK /\ MpsInv /\ ReportsTruth /\ [Next]_vars => ReportsTruth'
<1> SUFFICES ASSUME TypeOK, MpsInv, ReportsTruth, [Next]_vars,
                    NEW r \in Recording, NEW f \in Feature,
                    report'[r][f] = "OK" \/ known'[r][f] = "OK"
             PROVE  remote'[r][f].verdict = "OK"
  BY DEF ReportsTruth
<1>1. ~CleanInterrupted BY DEF NoCleaning, CleanInterrupted
<1>2. CASE \E c \in Commands : Launch(c)
  <2>1. UNCHANGED <<report, known>> BY <1>2 DEF Launch
  <2>2. remote' = [q \in Recording |-> remote[q]] BY <1>2 DEF Launch, NoCleaning
  <2> QED BY <2>1, <2>2 DEF ReportsTruth
<1>3. CASE ~(\E c \in Commands : Launch(c))
  <2>1. remote[r][f].verdict = "OK"
    <3>1. CASE Validate
      <4>1. UNCHANGED report BY <3>1 DEF Validate
      <4>2. PICK misread \in {{}} \cup {{q} : q \in Batch(i)} :
              known' = [q \in Recording |-> [g \in Feature |->
                IF q \notin Batch(i) \/ g \notin cmd.features THEN known[q][g]
                ELSE IF q \in misread THEN "MISSING" ELSE remote[q][g].verdict]]
        BY <3>1 DEF Validate
      <4>3. known'[r][f] \in {known[r][f], "MISSING", remote[r][f].verdict} BY <4>2
      <4> QED BY <4>1, <4>3 DEF ReportsTruth
    <3>2. CASE UploadReport
      BY <3>2 DEF UploadReport, ReportsTruth
    <3>3. CASE Crash
      <4>1. report' = report /\ (known' = known \/ known'[r][f] = "none") BY <3>3 DEF Crash
      <4> QED BY <4>1 DEF ReportsTruth
    <3>4. CASE ~Validate /\ ~UploadReport /\ ~Crash
      <4>1. UNCHANGED <<report, known>>
        BY <1>1, <1>3, <3>4 DEF Next, vars, Downloader, Main, ClearDirectory, DownloadRecording,
           DownloadFails, CreateBatches, StartBatches, Downloaded, DownloadRaises, RunAriaMps,
           BatchRaises, UploadFile, UploadFails, UploadEnds, CleanUp
      <4> QED BY <4>1 DEF ReportsTruth
    <3> QED BY <3>1, <3>2, <3>3, <3>4
  <2> QED BY <1>1, <1>3, <2>1, FinishedStays
<1> QED BY <1>2, <1>3

(* Without the cleaning of run_mps.sh, the report claims only what the bucket *)
(* holds.                                                                    *)
THEOREM ReportIsTrue == ASSUME NoCleaning PROVE Spec => []ReportTruth
<1>1. Init => ReportsTruth BY DEF Init, ReportsTruth
<1>2. TypeOK /\ MpsInv /\ ReportsTruth /\ [Next]_vars => ReportsTruth' BY TruthNext
<1>3. ReportsTruth => ReportTruth BY DEF ReportsTruth, ReportTruth
<1> QED BY <1>1, <1>2, <1>3, MpsInvariant, PTL DEF Spec
-----------------------------------------------------------------------------
(* Induction over the natural numbers, for a set of them.                    *)
LessNat == {p \in Nat \X Nat : p[1] < p[2]}

LEMMA NatWF == IsWellFoundedOn(LessNat, Nat)
<1>1. LessNat = OpToRel(<, Nat) BY DEF OpToRel, LessNat
<1> QED BY <1>1, NatLessThanWellFounded

LEMMA Least == ASSUME NEW T \in SUBSET Nat, T # {} PROVE \E x \in T : \A y \in T : x <= y
<1>1. PICK x \in T : \A y \in T : ~ (<<y, x>> \in LessNat) BY NatWF, WFMin
<1>2. ASSUME NEW y \in T PROVE x <= y
  <2>1. <<y, x>> \in Nat \X Nat /\ <<y, x>>[1] = y /\ <<y, x>>[2] = x OBVIOUS
  <2>2. ~ (y < x) BY <1>1, <2>1 DEF LessNat
  <2>3. y \in Nat /\ x \in Nat OBVIOUS
  <2> QED BY <2>2, <2>3
<1> QED BY <1>2

LEMMA NatInd ==
  ASSUME NEW S, 0 \in S, \A n \in Nat : n \in S => n + 1 \in S PROVE \A n \in Nat : n \in S
<1> SUFFICES ASSUME Nat \ S # {} PROVE FALSE OBVIOUS
<1>1. PICK x \in Nat \ S : \A y \in Nat \ S : x <= y BY Least
<1>2. x # 0 /\ x - 1 \in Nat OBVIOUS
<1>3. x - 1 \in S BY <1>1, <1>2
<1> QED BY <1>2, <1>3

(* The partial sums of a batch, and that there is one function that adds     *)
(* them up.                                                                  *)
Sums(t, s, n) == t = [j \in 0..n |-> IF j = 0 THEN 0 ELSE t[j - 1] + Size[s[j]]]

LEMMA SumsExist ==
  ASSUME NEW s \in Seq(Recording)
  PROVE  \E t \in [0..Len(s) -> Nat] : Sums(t, s, Len(s))
<1> DEFINE S == {n \in Nat : n <= Len(s) => \E t \in [0..n -> Nat] : Sums(t, s, n)}
<1>1. 0 \in S
  <2> DEFINE t == [j \in 0..0 |-> 0]
  <2>1. t \in [0..0 -> Nat] OBVIOUS
  <2>2. Sums(t, s, 0) BY DEF Sums
  <2> QED BY <2>1, <2>2
<1>2. ASSUME NEW n \in Nat, n \in S PROVE n + 1 \in S
  <2> SUFFICES ASSUME n + 1 <= Len(s) PROVE \E t \in [0..(n + 1) -> Nat] : Sums(t, s, n + 1)
    OBVIOUS
  <2>1. PICK t \in [0..n -> Nat] : Sums(t, s, n) BY <1>2
  <2>2. s[n + 1] \in Recording OBVIOUS
  <2>3. Size[s[n + 1]] \in Nat BY <2>2, MpsAssumption DEF MpsAssumption
  <2> DEFINE u == [j \in 0..(n + 1) |-> IF j = n + 1 THEN t[n] + Size[s[n + 1]] ELSE t[j]]
  <2>4. t[n] \in Nat OBVIOUS
  <2>5. t[n] + Size[s[n + 1]] \in Nat BY <2>3, <2>4
  <2>6. u \in [0..(n + 1) -> Nat] BY <2>5
  <2>7. \A j \in 0..(n + 1) : u[j] = IF j = 0 THEN 0 ELSE u[j - 1] + Size[s[j]]
    BY <2>1 DEF Sums
  <2>8. Sums(u, s, n + 1) BY <2>6, <2>7 DEF Sums
  <2> QED BY <2>6, <2>8
<1> HIDE DEF S
<1>3. \A n \in Nat : n \in S BY <1>1, <1>2, NatInd
<1> QED BY <1>3 DEF S

LEMMA SumsStep ==
  ASSUME NEW t, NEW s, NEW n, Sums(t, s, n)
  PROVE  \A j \in 0..n : t[j] = IF j = 0 THEN 0 ELSE t[j - 1] + Size[s[j]]
BY DEF Sums

(* Batches that begin alike add up alike.                                    *)
LEMMA SumsAgree ==
  ASSUME NEW s \in Seq(Recording), NEW z \in Seq(Recording), NEW m \in Nat, NEW n \in Nat,
         NEW t, NEW u,
         Sums(t, s, m), Sums(u, z, n), m <= n, \A j \in 1..m : s[j] = z[j]
  PROVE  \A j \in 0..m : t[j] = u[j]
<1> DEFINE S == {j \in Nat : j <= m => t[j] = u[j]}
<1>1. 0 \in S BY DEF Sums
<1>2. ASSUME NEW j \in Nat, j \in S PROVE j + 1 \in S
  <2> SUFFICES ASSUME j + 1 <= m PROVE t[j + 1] = u[j + 1] OBVIOUS
  <2>1. t[j] = u[j] /\ s[j + 1] = z[j + 1] BY <1>2
  <2>2. j + 1 \in 0..m /\ j + 1 \in 0..n /\ j + 1 # 0 /\ (j + 1) - 1 = j OBVIOUS
  <2>3. t[j + 1] = t[j] + Size[s[j + 1]] /\ u[j + 1] = u[j] + Size[z[j + 1]]
    BY <2>2, SumsStep
  <2> QED BY <2>1, <2>3
<1> HIDE DEF S
<1>3. \A j \in Nat : j \in S BY <1>1, <1>2, NatInd
<1> QED BY <1>3 DEF S

LEMMA TotalIs ==
  ASSUME NEW s \in Seq(Recording)
  PROVE  Total(s) \in Nat /\ \E t : Sums(t, s, Len(s)) /\ Total(s) = t[Len(s)]
<1>0. PICK u \in [0..Len(s) -> Nat] : Sums(u, s, Len(s)) BY SumsExist
<1> DEFINE t == CHOOSE t : Sums(t, s, Len(s))
<1>1. Sums(t, s, Len(s)) BY <1>0
<1>2. Total(s) = t[Len(s)] BY DEF Total, Sums
<1> HIDE DEF t
<1>3. \A j \in 0..Len(s) : t[j] = u[j] BY <1>0, <1>1, SumsAgree
<1>4. t[Len(s)] \in Nat BY <1>0, <1>3
<1> QED BY <1>1, <1>2, <1>4

LEMMA TotalExtends ==
  ASSUME NEW s \in Seq(Recording), NEW z \in Seq(Recording), Len(z) = Len(s) + 1,
         \A j \in 1..Len(s) : s[j] = z[j]
  PROVE  Total(z) = Total(s) + Size[z[Len(z)]]
<1>1. PICK t : Sums(t, s, Len(s)) /\ Total(s) = t[Len(s)] BY TotalIs
<1>2. PICK u : Sums(u, z, Len(z)) /\ Total(z) = u[Len(z)] BY TotalIs
<1>3. Len(s) \in Nat /\ Len(z) \in Nat /\ Len(s) <= Len(z) OBVIOUS
<1>4. \A j \in 0..Len(s) : t[j] = u[j]
  <2>1. \A m, n \in Nat : Sums(t, s, m) /\ Sums(u, z, n) /\ m <= n /\ (\A j \in 1..m : s[j] = z[j])
          => \A j \in 0..m : t[j] = u[j]
    BY SumsAgree
  <2> QED BY <1>1, <1>2, <1>3, <2>1
<1>5. u[Len(z)] = u[Len(s)] + Size[z[Len(z)]]
  <2>1. Len(z) \in 0..Len(z) /\ Len(z) # 0 /\ Len(z) - 1 = Len(s) BY <1>3
  <2> QED BY <1>2, <2>1, SumsStep
<1> QED BY <1>1, <1>2, <1>3, <1>4, <1>5

LEMMA TotalGrows ==
  ASSUME NEW s \in Seq(Recording), NEW r \in Recording
  PROVE  /\ Total(s) \in Nat /\ Total(<<r>>) = Size[r]
         /\ Total(Append(s, r)) = Total(s) + Size[r]
<1>1. Total(Append(s, r)) = Total(s) + Size[r]
  <2>1. Append(s, r) \in Seq(Recording) /\ Len(Append(s, r)) = Len(s) + 1
        /\ Append(s, r)[Len(s) + 1] = r /\ \A j \in 1..Len(s) : s[j] = Append(s, r)[j]
    OBVIOUS
  <2> QED BY <2>1, TotalExtends
<1>2. Total(<<r>>) = Size[r]
  <2>1. <<r>> \in Seq(Recording) /\ Len(<<r>>) = 1 /\ <<r>>[1] = r OBVIOUS
  <2>2. PICK v : Sums(v, <<r>>, 1) /\ Total(<<r>>) = v[1] BY <2>1, TotalIs
  <2>3. v[1] = v[0] + Size[r] /\ v[0] = 0 BY <2>1, <2>2 DEF Sums
  <2>4. Size[r] \in Nat BY MpsAssumption DEF MpsAssumption
  <2> QED BY <2>2, <2>3, <2>4
<1> QED BY <1>1, <1>2, TotalIs

(* Of the batches made so far none is too big, and filled is the size of the *)
(* one that is being filled.                                                 *)
FitInv ==
  BatchesFit /\ (pc = "plan" /\ plan # <<>> => filled = Total(plan[Len(plan)]))

LEMMA CreateBatchesFit ==
  ASSUME TypeOK, Schedule, FitInv, CreateBatches PROVE FitInv'
<1> DEFINE r == Sorted[i]
           last == plan[Len(plan)]
<1>1. r \in Recording /\ Size[r] \in Nat /\ TargetSize \in Nat
  <2>1. pc = "plan" /\ i \in 1..(Len(Sorted) + 1) /\ i <= Len(Sorted)
    BY DEF CreateBatches, Schedule
  <2>2. i \in Index BY <2>1, SortedTypes DEF Index
  <2>3. r \in Recording BY <2>2, SortedTypes
  <2> QED BY <2>3, MpsAssumption DEF MpsAssumption
<1>2. plan \in Seq(Seq(Recording)) /\ Len(plan) \in Nat /\ pc = "plan" BY DEF TypeOK, CreateBatches
<1>3. CASE r \notin need
  <2>1. UNCHANGED <<plan, filled>> BY <1>3 DEF CreateBatches
  <2> QED BY <1>2, <2>1 DEF FitInv, BatchesFit
<1>4. CASE plan' = Append(plan, <<r>>) /\ filled' = Size[r]
  <2>1. Len(plan') = Len(plan) + 1 /\ plan'[Len(plan')] = <<r>>
        /\ \A k \in 1..Len(plan) : plan'[k] = plan[k]
    BY <1>1, <1>2, <1>4
  <2>2. filled' = Total(plan'[Len(plan')]) BY <1>1, <1>2, <1>4, <2>1, TotalGrows
  <2>3. ASSUME NEW k \in 1..Len(plan') PROVE Len(plan'[k]) = 1 \/ Total(plan'[k]) <= TargetSize
    <3>1. CASE k = Len(plan') BY <2>1, <3>1
    <3>2. CASE k # Len(plan')
      <4>1. k \in 1..Len(plan) BY <1>2, <2>1, <3>2
      <4> QED BY <2>1, <4>1 DEF FitInv, BatchesFit
    <3> QED BY <3>1, <3>2
  <2> QED BY <2>2, <2>3 DEF FitInv, BatchesFit
<1>5. CASE /\ plan # <<>> /\ ~(filled + Size[r] > TargetSize)
           /\ plan' = [plan EXCEPT ![Len(plan)] = Append(@, r)] /\ filled' = filled + Size[r]
  <2>1. Len(plan) \in 1..Len(plan) /\ last \in Seq(Recording) BY <1>2, <1>5
  <2>2. Len(plan') = Len(plan) /\ plan'[Len(plan')] = Append(last, r)
        /\ \A k \in 1..Len(plan) : k # Len(plan) => plan'[k] = plan[k]
    BY <1>2, <1>5, <2>1
  <2>3. filled = Total(last) BY <1>2, <1>5 DEF FitInv
  <2>4. Total(last) \in Nat /\ Total(Append(last, r)) = Total(last) + Size[r]
    BY <1>1, <2>1, TotalGrows
  <2>5. Total(Append(last, r)) = filled' /\ filled' <= TargetSize BY <1>1, <1>5, <2>3, <2>4
  <2>6. ASSUME NEW k \in 1..Len(plan') PROVE Len(plan'[k]) = 1 \/ Total(plan'[k]) <= TargetSize
    BY <2>2, <2>5 DEF FitInv, BatchesFit
  <2> QED BY <2>2, <2>5, <2>6 DEF FitInv, BatchesFit
<1> QED BY <1>3, <1>4, <1>5 DEF CreateBatches

(* Only create_batches makes batches.                                        *)
LEMMA PlanMoves ==
  ASSUME TypeOK, Schedule, [Next]_vars, ~CreateBatches
  PROVE  \/ plan' = <<>>
         \/ plan' = plan /\ pc' # "plan"
         \/ UNCHANGED <<plan, pc, filled>>
<1>1. CASE \E c \in Commands : Launch(c)
  BY <1>1 DEF Launch, Schedule
<1>2. CASE CleanInterrupted \/ Downloader
  BY <1>2 DEF CleanInterrupted, Downloader, ClearDirectory, DownloadRecording, DownloadFails, planning
<1>3. CASE Main
  BY <1>3 DEF Main, StartBatches, Downloaded, DownloadRaises, EndRun, RunAriaMps, BatchRaises,
     UploadFile, UploadFails, UploadEnds, Validate, UploadReport, CleanUp, Uploading, planning
<1>4. CASE Crash BY <1>4 DEF Crash, EndRun
<1>5. CASE UNCHANGED vars BY <1>5 DEF vars, planning
<1> QED BY <1>1, <1>2, <1>3, <1>4, <1>5 DEF Next

LEMMA FitNext == TypeOK /\ MpsInv /\ FitInv /\ [Next]_vars => FitInv'
<1> SUFFICES ASSUME TypeOK, MpsInv, FitInv, [Next]_vars PROVE FitInv' OBVIOUS
<1>1. CASE CreateBatches BY <1>1, CreateBatchesFit DEF MpsInv
<1>2. CASE ~CreateBatches
  <2>1. \/ plan' = <<>>
        \/ plan' = plan /\ pc' # "plan"
        \/ UNCHANGED <<plan, pc, filled>>
    BY <1>2, PlanMoves DEF MpsInv
  <2> QED BY <2>1 DEF FitInv, BatchesFit
<1> QED BY <1>1, <1>2

(* create_batches never makes a batch of several recordings that is bigger   *)
(* than --target-size-gb, whatever the sizes and the order of the keys.      *)
THEOREM BatchesDoFit == Spec => []BatchesFit
<1>1. Init => FitInv BY DEF Init, FitInv, BatchesFit
<1>2. FitInv => BatchesFit BY DEF FitInv
<1> QED BY <1>1, <1>2, FitNext, MpsInvariant, PTL DEF Spec
=============================================================================
