------------------------- MODULE ScalePipelineProofs -------------------------
(***************************************************************************)
(* Registered rows lead to whole folders of their task, missing ends and   *)
(* lost deletion marks have their causes: for all lists, pool sizes and    *)
(* bounds.                                                                 *)
(***************************************************************************)
EXTENDS ScalePipeline, TLAPS

(* A job that uploads or registers has a folder of its task, and one that    *)
(* registers has it whole in the bucket.                                     *)
FolderInv ==
  \A i \in Entries : job[i].pc \in {"upload", "register"} =>
    /\ job[i].folder \in 1..Len(folders)
    /\ folders[job[i].folder].task = list[i]
    /\ job[i].pc = "register" => folders[job[i].folder].bucket = "whole"

(* Only a job that fetches has files to fetch or open.                       *)
FetchInv ==
  \A i \in Entries : job[i].pc # "fetch" => job[i].todo = {} /\ job[i].open = {}

(* A job whose file was truncated under its pen is one of two.               *)
SpoiledInv ==
  \A i \in Entries : job[i].spoiled # {} => list[i] \in disturbed

(* Two jobs of one task at once leave their mark in the history.             *)
PairInv ==
  \A i, j \in Entries :
    i # j /\ list[i] = list[j] /\ Active(i) /\ Active(j) => list[i] \in disturbed

(* A video that is not complete is still being written, or was disturbed.    *)
VideoInv ==
  \A t \in Task : file[t]["video"] \in {"empty", "cut"} /\ t \notin disturbed =>
    \E i \in Entries : list[i] = t /\ "video" \in job[i].open

(* What lacks its end, in a job or a folder, comes from such a video.        *)
ShortInv ==
  /\ \A i \in Entries : job[i].short => list[i] \in disturbed
  /\ \A k \in 1..Len(folders) : folders[k].short => folders[k].task \in disturbed

(* A row without a path was reset; a job whose row is marked was overtaken.  *)
MarkInv ==
  \A t \in Task :
    /\ rows[t].exists /\ rows[t].path = NoPath => t \in reopened
    /\ rows[t].deleted => rows[t].exists
    /\ InFlight(t) /\ rows[t].deleted => t \in reopened

PipelineInv ==
  /\ TypeOK
  /\ FolderInv
  /\ RegisteredWhole
  /\ FetchInv
  /\ PairInv
  /\ SpoiledInv
  /\ VideoInv
  /\ ShortInv
  /\ MarkInv
-----------------------------------------------------------------------------
(* The parts of TypeOK.                                                      *)
SourceOK == source \in [Task -> Source]
RowsOK == rows \in [Task -> Rows]
FilesOK == file \in [Task -> [File -> FileState]]
FoldersOK == folders \in Seq(Folders) /\ Len(folders) <= MaxFolders
JobsOK == list \in Seq(Task) /\ job \in [Entries -> Jobs]
CountersOK == /\ faults \in 0..MaxFaults /\ edits \in 0..MaxEdits
              /\ disturbed \subseteq Task /\ reopened \subseteq Task

(* One job that changes.                                                     *)
LEMMA JobsUpdated ==
  ASSUME JobsOK, NEW i \in Entries, NEW new \in Jobs,
         list' = list, job' = [job EXCEPT ![i] = new]
  PROVE  JobsOK'
BY DEF JobsOK, Entries

(* The types of a job.                                                       *)
LEMMA JobTyped ==
  ASSUME JobsOK, NEW i \in Entries
  PROVE  /\ list[i] \in Task /\ job[i] \in Jobs
         /\ job[i].pc \in PC /\ job[i].todo \in SUBSET File /\ job[i].open \in SUBSET File
         /\ job[i].spoiled \in SUBSET File /\ job[i].again \in BOOLEAN /\ job[i].short \in BOOLEAN
         /\ job[i].folder \in 0..MaxFolders
<1>1. list[i] \in Task /\ job[i] \in Jobs BY DEF JobsOK, Entries
<1> QED BY <1>1 DEF Jobs

(* A job that begins or is over.                                             *)
LEMMA NewJobTyped ==
  ASSUME NEW pc \in PC
  PROVE  Job(pc) \in Jobs
<1>1. 0 \in 0..MaxFolders BY PipelineAssumption
<1> QED BY <1>1 DEF Jobs, Job, NoPath

(* A folder whose upload gets on.                                            *)
LEMMA FolderUpdated ==
  ASSUME FoldersOK, NEW k \in 1..Len(folders), NEW b \in {"none", "partial", "whole"},
         folders' = [folders EXCEPT ![k].bucket = b]
  PROVE  FoldersOK' /\ Len(folders') = Len(folders)
<1> DEFINE new == [folders[k] EXCEPT !.bucket = b]
<1>1. folders[k] \in Folders BY DEF FoldersOK
<1>2. new \in Folders BY <1>1 DEF Folders
<1>3. folders' = [folders EXCEPT ![k] = new] OBVIOUS
<1> HIDE DEF new
<1> QED BY <1>2, <1>3 DEF FoldersOK

(* Who opens a file spoils it for those who have it open.                    *)
LEMMA OpenFacts ==
  ASSUME JobsOK, NEW i \in Entries, NEW f \in File, Open(i, f)
  PROVE  /\ Entries' = Entries /\ list' = list /\ f \in job[i].todo
         /\ job'[i].open = job[i].open \cup {f} /\ job'[i].todo = job[i].todo \ {f}
         /\ \A j \in Entries :
              /\ job'[j].pc = job[j].pc /\ job'[j].short = job[j].short
              /\ job'[j].folder = job[j].folder
              /\ j # i => job'[j].open = job[j].open /\ job'[j].todo = job[j].todo
              /\ \/ job'[j].spoiled = job[j].spoiled
                 \/ j # i /\ list[j] = list[i] /\ f \in job[j].open
         /\ job' \in [Entries -> Jobs]
<1> DEFINE opened == [job[i] EXCEPT !.todo = @ \ {f}, !.open = @ \cup {f}]
           spoilt(j) == [job[j] EXCEPT !.spoiled = @ \cup {f}]
           spoils(j) == list[j] = list[i] /\ f \in job[j].open
<1>1. \A j \in Entries : job[j] \in Jobs BY JobTyped
<1>2. Entries' = Entries /\ list' = list /\ f \in job[i].todo BY DEF Open, Entries
<1>3. job' = [j \in Entries |-> IF j = i THEN opened ELSE IF spoils(j) THEN spoilt(j) ELSE job[j]]
  BY DEF Open
<1>4. /\ opened \in Jobs /\ opened.pc = job[i].pc /\ opened.short = job[i].short
      /\ opened.folder = job[i].folder /\ opened.open = job[i].open \cup {f}
      /\ opened.todo = job[i].todo \ {f} /\ opened.spoiled = job[i].spoiled
  BY <1>1 DEF Jobs
<1>5. \A j \in Entries :
        /\ spoilt(j) \in Jobs /\ spoilt(j).pc = job[j].pc /\ spoilt(j).short = job[j].short
        /\ spoilt(j).folder = job[j].folder /\ spoilt(j).open = job[j].open
        /\ spoilt(j).todo = job[j].todo
  BY <1>1 DEF Jobs
<1> HIDE DEF opened, spoilt
<1>6. ASSUME NEW j \in Entries
      PROVE  /\ job'[j].pc = job[j].pc /\ job'[j].short = job[j].short
             /\ job'[j].folder = job[j].folder
             /\ j = i => job'[j].open = job[j].open \cup {f} /\ job'[j].todo = job[j].todo \ {f}
             /\ j # i => job'[j].open = job[j].open /\ job'[j].todo = job[j].todo
             /\ \/ job'[j].spoiled = job[j].spoiled
                \/ j # i /\ list[j] = list[i] /\ f \in job[j].open
  <2>1. CASE j = i BY <1>3, <1>4, <2>1
  <2>2. CASE j # i /\ spoils(j) BY <1>3, <1>5, <2>2
  <2>3. CASE j # i /\ ~spoils(j) BY <1>3, <2>3
  <2> QED BY <2>1, <2>2, <2>3
<1>7. job' \in [Entries -> Jobs] BY <1>1, <1>3, <1>4, <1>5
<1> QED BY <1>2, <1>6, <1>7

(* Who removes the scene takes it from those who write it.                   *)
LEMMA RefetchFacts ==
  ASSUME JobsOK, NEW i \in Entries, Refetch(i)
  PROVE  /\ Entries' = Entries /\ list' = list
         /\ job[i].pc = "fetch" /\ job[i].open = {}
         /\ \A j \in Entries :
              /\ job'[j].pc = job[j].pc /\ job'[j].short = job[j].short
              /\ job'[j].folder = job[j].folder
              /\ job[j].open \ {"scene"} \subseteq job'[j].open
              /\ job'[j].open \subseteq job[j].open
              /\ job'[j].spoiled \subseteq job[j].spoiled
              /\ job'[j].pc # "fetch" => job'[j].todo = job[j].todo
         /\ job' \in [Entries -> Jobs]
<1> DEFINE again == [job[i] EXCEPT !.again = TRUE, !.todo = Missing(list[i]) \cup {"scene"}]
           robbed(j) == [job[j] EXCEPT !.open = @ \ {"scene"}, !.spoiled = @ \ {"scene"}]
<1>1. \A j \in Entries : job[j] \in Jobs BY JobTyped
<1>2. /\ Entries' = Entries /\ list' = list
      /\ job[i].pc = "fetch" /\ job[i].open = {}
  BY DEF Refetch, Fetched, Entries
<1>3. job' = [j \in Entries |->
                IF j = i THEN again ELSE IF list[j] = list[i] THEN robbed(j) ELSE job[j]]
  BY DEF Refetch
<1>4. Missing(list[i]) \cup {"scene"} \in SUBSET File BY DEF Missing, File
<1>5. /\ again \in Jobs /\ again.pc = job[i].pc /\ again.short = job[i].short
      /\ again.folder = job[i].folder /\ again.open = job[i].open
      /\ again.spoiled = job[i].spoiled
  BY <1>1, <1>4 DEF Jobs
<1>6. \A j \in Entries :
        /\ robbed(j) \in Jobs /\ robbed(j).pc = job[j].pc /\ robbed(j).short = job[j].short
        /\ robbed(j).folder = job[j].folder /\ robbed(j).open = job[j].open \ {"scene"}
        /\ robbed(j).spoiled = job[j].spoiled \ {"scene"} /\ robbed(j).todo = job[j].todo
  BY <1>1 DEF Jobs
<1> HIDE DEF again, robbed
<1>7. ASSUME NEW j \in Entries
      PROVE  /\ job'[j].pc = job[j].pc /\ job'[j].short = job[j].short
             /\ job'[j].folder = job[j].folder
             /\ job[j].open \ {"scene"} \subseteq job'[j].open
             /\ job'[j].open \subseteq job[j].open
             /\ job'[j].spoiled \subseteq job[j].spoiled
             /\ job'[j].pc # "fetch" => job'[j].todo = job[j].todo
  <2>1. CASE j = i BY <1>2, <1>3, <1>5, <2>1
  <2>2. CASE j # i /\ list[j] = list[i] BY <1>3, <1>6, <2>2
  <2>3. CASE j # i /\ list[j] # list[i] BY <1>3, <2>3
  <2> QED BY <2>1, <2>2, <2>3
<1>8. job' \in [Entries -> Jobs] BY <1>1, <1>3, <1>5, <1>6
<1> QED BY <1>2, <1>7, <1>8

(* The list and the jobs.                                                    *)
LEMMA JobsKept ==
  ASSUME JobsOK, FoldersOK, [Next]_vars
  PROVE  JobsOK'
<1>1. ASSUME NEW l \in Lists, Launch(l) PROVE JobsOK'
  <2>1. \A pc \in {"skipped", "queued"} : Job(pc) \in Jobs
    BY NewJobTyped DEF PC, Over
  <2>2. l \in Seq(Task) BY PipelineAssumption
  <2> QED BY <1>1, <2>1, <2>2 DEF Launch, JobsOK, Entries
<1>2. ASSUME NEW i \in Entries, Start(i) PROVE JobsOK'
  <2> DEFINE todo == Missing(list[i]) \cap Offered(list[i])
             new == [job[i] EXCEPT !.pc = "fetch", !.todo = todo]
  <2>1. todo \in SUBSET File BY DEF Missing
  <2>2. list' = list /\ job' = [job EXCEPT ![i] = new] BY <1>2 DEF Start
  <2> HIDE DEF todo
  <2>3. new \in Jobs BY <2>1, JobTyped DEF Jobs, PC
  <2> HIDE DEF new
  <2> QED BY <2>2, <2>3, JobsUpdated
<1>3. ASSUME NEW i \in Entries, Refetch(i) PROVE JobsOK'
  BY <1>3, RefetchFacts DEF JobsOK
<1>4. ASSUME NEW i \in Entries, Load(i) PROVE JobsOK'
  <2>1. PICK short \in BOOLEAN :
          job' = [job EXCEPT ![i].pc = "write", ![i].short = short]
    BY <1>4 DEF Load
  <2> DEFINE new == [job[i] EXCEPT !.pc = "write", !.short = short]
  <2>2. new \in Jobs BY JobTyped DEF Jobs, PC
  <2>3. list' = list /\ job' = [job EXCEPT ![i] = new] BY <1>4, <2>1 DEF Load
  <2> HIDE DEF new
  <2> QED BY <2>2, <2>3, JobsUpdated
<1>5. ASSUME NEW i \in Entries, Write(i) PROVE JobsOK'
  <2> DEFINE n == Len(folders)
  <2>a. n \in Nat BY DEF FoldersOK
  <2>b. MaxFolders \in Nat BY PipelineAssumption
  <2>c. list' = list /\ n < MaxFolders BY <1>5 DEF Write
  <2>1. list' = list /\ n + 1 \in 0..MaxFolders BY <2>a, <2>b, <2>c
  <2>2. [job[i] EXCEPT !.pc = "upload", !.folder = Len(folders) + 1] \in Jobs
    BY <2>1, JobTyped DEF Jobs, PC
  <2>3. \A j \in Entries :
          [job[j] EXCEPT !.todo = {}, !.open = {}, !.spoiled = {}] \in Jobs
    BY JobTyped DEF Jobs
  <2>4. \A j \in Entries : job[j] \in Jobs BY JobTyped
  <2> QED BY <1>5, <2>1, <2>2, <2>3, <2>4 DEF Write, JobsOK, Entries
<1>6. ASSUME NEW i \in Entries, ConversionFails(i) PROVE JobsOK'
  <2> DEFINE new == Job("failed")
  <2>1. new \in Jobs BY NewJobTyped DEF PC, Over
  <2>2. list' = list /\ job' = [job EXCEPT ![i] = new]
    BY <1>6 DEF ConversionFails, Finish
  <2> HIDE DEF new
  <2> QED BY <2>1, <2>2, JobsUpdated
<1>7. ASSUME NEW i \in Entries, BeginUpload(i) PROVE JobsOK'
  BY <1>7 DEF BeginUpload, JobsOK, Entries, Jobs, PC, Over, File, Goto,
     Finish, Job, NoPath
<1>8. ASSUME NEW i \in Entries, EndUpload(i) PROVE JobsOK'
  <2> DEFINE new == [job[i] EXCEPT !.pc = "register"]
  <2>1. new \in Jobs BY JobTyped DEF Jobs, PC
  <2>2. list' = list /\ job' = [job EXCEPT ![i] = new]
    BY <1>8 DEF EndUpload, Goto
  <2> HIDE DEF new
  <2> QED BY <2>1, <2>2, JobsUpdated
<1>9. ASSUME NEW i \in Entries, Register(i) PROVE JobsOK'
  <2> DEFINE new == Job("ok")
  <2>1. new \in Jobs BY NewJobTyped DEF PC, Over
  <2>2. list' = list /\ job' = [job EXCEPT ![i] = new]
    BY <1>9 DEF Register, Finish
  <2> HIDE DEF new
  <2> QED BY <2>1, <2>2, JobsUpdated
<1>10. ASSUME NEW i \in Entries, UploadFails(i) PROVE JobsOK'
  <2> DEFINE new == Job("failed")
  <2>1. new \in Jobs BY NewJobTyped DEF PC, Over
  <2>2. list' = list /\ job' = [job EXCEPT ![i] = new]
    BY <1>10 DEF UploadFails, Finish
  <2> HIDE DEF new
  <2> QED BY <2>1, <2>2, JobsUpdated
<1>11. ASSUME NEW i \in Entries, RegisterFails(i) PROVE JobsOK'
  <2> DEFINE new == Job("ok")
  <2>1. new \in Jobs BY NewJobTyped DEF PC, Over
  <2>2. list' = list /\ job' = [job EXCEPT ![i] = new]
    BY <1>11 DEF RegisterFails, Finish
  <2> HIDE DEF new
  <2> QED BY <2>1, <2>2, JobsUpdated
<1>12. ASSUME NEW i \in Entries, NEW f \in File, Open(i, f) PROVE JobsOK'
  BY <1>12, OpenFacts DEF JobsOK
<1>13. ASSUME NEW i \in Entries, NEW f \in File, WriteSome(i, f) PROVE JobsOK'
  BY <1>13 DEF WriteSome, JobsOK, Entries, Jobs, PC, Over, File, Goto,
     Finish, Job, NoPath
<1>14. ASSUME NEW i \in Entries, NEW f \in File, Close(i, f) PROVE JobsOK'
  <2> DEFINE new == [job[i] EXCEPT !.open = @ \ {f}, !.spoiled = @ \ {f}]
  <2>1. new \in Jobs BY JobTyped DEF Jobs, PC
  <2>2. list' = list /\ job' = [job EXCEPT ![i] = new] BY <1>14 DEF Close
  <2> HIDE DEF new
  <2> QED BY <2>1, <2>2, JobsUpdated
<1>15. ASSUME NEW i \in Entries, NEW f \in File, FetchFails(i, f) PROVE JobsOK'
  <2> DEFINE new == [job[i] EXCEPT !.todo = @ \ {f}, !.open = @ \ {f}, !.spoiled = @ \ {f}]
  <2>1. new \in Jobs BY JobTyped DEF Jobs, PC
  <2>2. list' = list /\ job' = [job EXCEPT ![i] = new] BY <1>15 DEF FetchFails
  <2> HIDE DEF new
  <2> QED BY <2>1, <2>2, JobsUpdated
<1>16. CASE Kill
  BY <1>16 DEF Kill, JobsOK, Entries, Jobs, PC, Over, File, Goto, Finish,
     Job, NoPath
<1>17. ASSUME NEW t \in Task, MarkDeleted(t) PROVE JobsOK'
  BY <1>17 DEF MarkDeleted, JobsOK, Entries, Jobs, PC, Over, File, Goto,
     Finish, Job, NoPath
<1>18. ASSUME NEW t \in Task, ResetProcessedPath(t) PROVE JobsOK'
  BY <1>18 DEF ResetProcessedPath, JobsOK, Entries, Jobs, PC, Over, File,
     Goto, Finish, Job, NoPath
<1>19. CASE UNCHANGED vars
  BY <1>19 DEF vars, vars, JobsOK, Entries
<1>20. ASSUME NEW i \in Entries, AskFails(i) PROVE JobsOK'
  <2> DEFINE new == Job("failed")
  <2>1. new \in Jobs BY NewJobTyped DEF PC, Over
  <2>2. list' = list /\ job' = [job EXCEPT ![i] = new]
    BY <1>20 DEF AskFails, Begins, Finish
  <2> HIDE DEF new
  <2> QED BY <2>1, <2>2, JobsUpdated
<1> QED
  BY <1>1, <1>2, <1>3, <1>4, <1>5, <1>6, <1>7, <1>8, <1>9, <1>10, <1>11,
     <1>12, <1>13, <1>14, <1>15, <1>16, <1>17, <1>18, <1>19, <1>20 DEF Next, JobStep

(* The table.                                                                *)
LEMMA RowsKept ==
  ASSUME JobsOK, RowsOK, [Next]_vars
  PROVE  RowsOK'
<1>1. ASSUME NEW l \in Lists, Launch(l) PROVE RowsOK'
  BY <1>1, PipelineAssumption DEF Launch, RowsOK
<1>2. ASSUME NEW i \in Entries, Start(i) PROVE RowsOK'
  BY <1>2, PipelineAssumption DEF Start, RowsOK
<1>3. ASSUME NEW i \in Entries, Refetch(i) PROVE RowsOK'
  BY <1>3, PipelineAssumption DEF Refetch, RowsOK
<1>4. ASSUME NEW i \in Entries, Load(i) PROVE RowsOK'
  BY <1>4, PipelineAssumption DEF Load, RowsOK
<1>5. ASSUME NEW i \in Entries, Write(i) PROVE RowsOK'
  BY <1>5, PipelineAssumption DEF Write, RowsOK
<1>6. ASSUME NEW i \in Entries, ConversionFails(i) PROVE RowsOK'
  BY <1>6, PipelineAssumption DEF ConversionFails, RowsOK
<1>7. ASSUME NEW i \in Entries, BeginUpload(i) PROVE RowsOK'
  BY <1>7, PipelineAssumption DEF BeginUpload, RowsOK
<1>8. ASSUME NEW i \in Entries, EndUpload(i) PROVE RowsOK'
  BY <1>8, PipelineAssumption DEF EndUpload, RowsOK
<1>9. ASSUME NEW i \in Entries, Register(i) PROVE RowsOK'
  BY <1>9, PipelineAssumption DEF Register, RowsOK, Rows, RegisteredRow,
     JobsOK, Entries, Jobs
<1>10. ASSUME NEW i \in Entries, UploadFails(i) PROVE RowsOK'
  BY <1>10, PipelineAssumption DEF UploadFails, RowsOK
<1>11. ASSUME NEW i \in Entries, RegisterFails(i) PROVE RowsOK'
  BY <1>11, PipelineAssumption DEF RegisterFails, RowsOK
<1>12. ASSUME NEW i \in Entries, NEW f \in File, Open(i, f) PROVE RowsOK'
  BY <1>12, PipelineAssumption DEF Open, RowsOK
<1>13. ASSUME NEW i \in Entries, NEW f \in File, WriteSome(i, f) PROVE RowsOK'
  BY <1>13, PipelineAssumption DEF WriteSome, RowsOK
<1>14. ASSUME NEW i \in Entries, NEW f \in File, Close(i, f) PROVE RowsOK'
  BY <1>14, PipelineAssumption DEF Close, RowsOK
<1>15. ASSUME NEW i \in Entries, NEW f \in File, FetchFails(i, f) PROVE RowsOK'
  BY <1>15, PipelineAssumption DEF FetchFails, RowsOK
<1>16. CASE Kill
  BY <1>16, PipelineAssumption DEF Kill, RowsOK
<1>17. ASSUME NEW t \in Task, MarkDeleted(t) PROVE RowsOK'
  BY <1>17, PipelineAssumption DEF MarkDeleted, RowsOK, Rows
<1>18. ASSUME NEW t \in Task, ResetProcessedPath(t) PROVE RowsOK'
  BY <1>18, PipelineAssumption DEF ResetProcessedPath, RowsOK, Rows, NoPath
<1>19. CASE UNCHANGED vars
  BY <1>19, PipelineAssumption DEF vars, vars, RowsOK
<1>20. ASSUME NEW i \in Entries, AskFails(i) PROVE RowsOK'
  BY <1>20, PipelineAssumption DEF AskFails, Begins, RowsOK
<1> QED
  BY <1>1, <1>2, <1>3, <1>4, <1>5, <1>6, <1>7, <1>8, <1>9, <1>10, <1>11,
     <1>12, <1>13, <1>14, <1>15, <1>16, <1>17, <1>18, <1>19, <1>20 DEF Next, JobStep

(* The download directories.                                                 *)
LEMMA FilesKept ==
  ASSUME JobsOK, FilesOK, [Next]_vars
  PROVE  FilesOK'
<1>1. ASSUME NEW l \in Lists, Launch(l) PROVE FilesOK'
  BY <1>1 DEF Launch, FilesOK
<1>2. ASSUME NEW i \in Entries, Start(i) PROVE FilesOK'
  BY <1>2 DEF Start, FilesOK
<1>3. ASSUME NEW i \in Entries, Refetch(i) PROVE FilesOK'
  <2>1. list[i] \in Task BY JobTyped
  <2> QED BY <1>3, <2>1 DEF Refetch, FilesOK, FileState, File
<1>4. ASSUME NEW i \in Entries, Load(i) PROVE FilesOK'
  BY <1>4 DEF Load, FilesOK
<1>5. ASSUME NEW i \in Entries, Write(i) PROVE FilesOK'
  <2>1. list[i] \in Task BY JobTyped
  <2> QED BY <1>5, <2>1 DEF Write, Nothing, FilesOK, FileState, File
<1>6. ASSUME NEW i \in Entries, ConversionFails(i) PROVE FilesOK'
  BY <1>6 DEF ConversionFails, FilesOK
<1>7. ASSUME NEW i \in Entries, BeginUpload(i) PROVE FilesOK'
  BY <1>7 DEF BeginUpload, FilesOK
<1>8. ASSUME NEW i \in Entries, EndUpload(i) PROVE FilesOK'
  BY <1>8 DEF EndUpload, FilesOK
<1>9. ASSUME NEW i \in Entries, Register(i) PROVE FilesOK'
  BY <1>9 DEF Register, FilesOK
<1>10. ASSUME NEW i \in Entries, UploadFails(i) PROVE FilesOK'
  BY <1>10 DEF UploadFails, FilesOK
<1>11. ASSUME NEW i \in Entries, RegisterFails(i) PROVE FilesOK'
  BY <1>11 DEF RegisterFails, FilesOK
<1>12. ASSUME NEW i \in Entries, NEW f \in File, Open(i, f) PROVE FilesOK'
  <2>1. list[i] \in Task BY JobTyped
  <2> QED BY <1>12, <2>1 DEF Open, FilesOK, FileState, File
<1>13. ASSUME NEW i \in Entries, NEW f \in File, WriteSome(i, f) PROVE FilesOK'
  <2>1. list[i] \in Task BY JobTyped
  <2> QED BY <1>13, <2>1 DEF WriteSome, FilesOK, FileState, File
<1>14. ASSUME NEW i \in Entries, NEW f \in File, Close(i, f) PROVE FilesOK'
  <2>1. list[i] \in Task BY JobTyped
  <2> QED BY <1>14, <2>1 DEF Close, FilesOK, FileState, File
<1>15. ASSUME NEW i \in Entries, NEW f \in File, FetchFails(i, f) PROVE FilesOK'
  BY <1>15 DEF FetchFails, FilesOK
<1>16. CASE Kill
  BY <1>16 DEF Kill, FilesOK
<1>17. ASSUME NEW t \in Task, MarkDeleted(t) PROVE FilesOK'
  BY <1>17 DEF MarkDeleted, FilesOK
<1>18. ASSUME NEW t \in Task, ResetProcessedPath(t) PROVE FilesOK'
  BY <1>18 DEF ResetProcessedPath, FilesOK
<1>19. CASE UNCHANGED vars
  BY <1>19 DEF vars, vars, FilesOK
<1>20. ASSUME NEW i \in Entries, AskFails(i) PROVE FilesOK'
  BY <1>20 DEF AskFails, Begins, FilesOK
<1> QED
  BY <1>1, <1>2, <1>3, <1>4, <1>5, <1>6, <1>7, <1>8, <1>9, <1>10, <1>11,
     <1>12, <1>13, <1>14, <1>15, <1>16, <1>17, <1>18, <1>19, <1>20 DEF Next, JobStep

(* The folders.                                                              *)
LEMMA FoldersKept ==
  ASSUME JobsOK, FoldersOK, FolderInv, [Next]_vars
  PROVE  FoldersOK'
<1>1. ASSUME NEW l \in Lists, Launch(l) PROVE FoldersOK'
  BY <1>1 DEF Launch, FoldersOK
<1>2. ASSUME NEW i \in Entries, Start(i) PROVE FoldersOK'
  BY <1>2 DEF Start, FoldersOK
<1>3. ASSUME NEW i \in Entries, Refetch(i) PROVE FoldersOK'
  BY <1>3 DEF Refetch, FoldersOK
<1>4. ASSUME NEW i \in Entries, Load(i) PROVE FoldersOK'
  BY <1>4 DEF Load, FoldersOK
<1>5. ASSUME NEW i \in Entries, Write(i) PROVE FoldersOK'
  <2>1. PICK short \in BOOLEAN :
          folders' = Append(folders, [task |-> list[i], short |-> job[i].short \/ short,
                                      bucket |-> "none"])
    BY <1>5 DEF Write
  <2>2. (job[i].short \/ short) \in BOOLEAN BY JobTyped
  <2>3. [task |-> list[i], short |-> job[i].short \/ short, bucket |-> "none"] \in Folders
    BY <2>2, JobTyped DEF Folders
  <2>4. Len(folders) < MaxFolders BY <1>5 DEF Write
  <2> QED BY <2>1, <2>3, <2>4, PipelineAssumption DEF FoldersOK
<1>6. ASSUME NEW i \in Entries, ConversionFails(i) PROVE FoldersOK'
  BY <1>6 DEF ConversionFails, FoldersOK
<1>7. ASSUME NEW i \in Entries, BeginUpload(i) PROVE FoldersOK'
  <2> DEFINE k == job[i].folder
  <2>1. folders' = [folders EXCEPT ![k].bucket = "partial"]
    BY <1>7 DEF BeginUpload
  <2>2. k \in 1..Len(folders) BY <1>7 DEF BeginUpload, FolderInv
  <2> HIDE DEF k
  <2> QED BY <2>1, <2>2, FolderUpdated
<1>8. ASSUME NEW i \in Entries, EndUpload(i) PROVE FoldersOK'
  <2> DEFINE k == job[i].folder
  <2>1. folders' = [folders EXCEPT ![k].bucket = "whole"]
    BY <1>8 DEF EndUpload
  <2>2. k \in 1..Len(folders) BY <1>8 DEF EndUpload, FolderInv
  <2> HIDE DEF k
  <2> QED BY <2>1, <2>2, FolderUpdated
<1>9. ASSUME NEW i \in Entries, Register(i) PROVE FoldersOK'
  BY <1>9 DEF Register, FoldersOK
<1>10. ASSUME NEW i \in Entries, UploadFails(i) PROVE FoldersOK'
  BY <1>10 DEF UploadFails, FoldersOK
<1>11. ASSUME NEW i \in Entries, RegisterFails(i) PROVE FoldersOK'
  BY <1>11 DEF RegisterFails, FoldersOK
<1>12. ASSUME NEW i \in Entries, NEW f \in File, Open(i, f) PROVE FoldersOK'
  BY <1>12 DEF Open, FoldersOK
<1>13. ASSUME NEW i \in Entries, NEW f \in File, WriteSome(i, f) PROVE FoldersOK'
  BY <1>13 DEF WriteSome, FoldersOK
<1>14. ASSUME NEW i \in Entries, NEW f \in File, Close(i, f) PROVE FoldersOK'
  BY <1>14 DEF Close, FoldersOK
<1>15. ASSUME NEW i \in Entries, NEW f \in File, FetchFails(i, f) PROVE FoldersOK'
  BY <1>15 DEF FetchFails, FoldersOK
<1>16. CASE Kill
  BY <1>16 DEF Kill, FoldersOK
<1>17. ASSUME NEW t \in Task, MarkDeleted(t) PROVE FoldersOK'
  BY <1>17 DEF MarkDeleted, FoldersOK
<1>18. ASSUME NEW t \in Task, ResetProcessedPath(t) PROVE FoldersOK'
  BY <1>18 DEF ResetProcessedPath, FoldersOK
<1>19. CASE UNCHANGED vars
  BY <1>19 DEF vars, vars, FoldersOK
<1>20. ASSUME NEW i \in Entries, AskFails(i) PROVE FoldersOK'
  BY <1>20 DEF AskFails, Begins, FoldersOK
<1> QED
  BY <1>1, <1>2, <1>3, <1>4, <1>5, <1>6, <1>7, <1>8, <1>9, <1>10, <1>11,
     <1>12, <1>13, <1>14, <1>15, <1>16, <1>17, <1>18, <1>19, <1>20 DEF Next, JobStep

(* The bounds and the history.                                               *)
LEMMA CountersKept ==
  ASSUME JobsOK, CountersOK, [Next]_vars
  PROVE  CountersOK'
<1>1. ASSUME NEW l \in Lists, Launch(l) PROVE CountersOK'
  BY <1>1, PipelineAssumption DEF Launch, CountersOK
<1>2. ASSUME NEW i \in Entries, Start(i) PROVE CountersOK'
  <2>1. list[i] \in Task BY JobTyped
  <2> QED BY <1>2, <2>1 DEF Start, CountersOK
<1>3. ASSUME NEW i \in Entries, Refetch(i) PROVE CountersOK'
  BY <1>3, PipelineAssumption DEF Refetch, CountersOK
<1>4. ASSUME NEW i \in Entries, Load(i) PROVE CountersOK'
  BY <1>4, PipelineAssumption DEF Load, CountersOK
<1>5. ASSUME NEW i \in Entries, Write(i) PROVE CountersOK'
  BY <1>5, PipelineAssumption DEF Write, CountersOK
<1>6. ASSUME NEW i \in Entries, ConversionFails(i) PROVE CountersOK'
  BY <1>6, PipelineAssumption DEF ConversionFails, CountersOK
<1>7. ASSUME NEW i \in Entries, BeginUpload(i) PROVE CountersOK'
  BY <1>7, PipelineAssumption DEF BeginUpload, CountersOK
<1>8. ASSUME NEW i \in Entries, EndUpload(i) PROVE CountersOK'
  BY <1>8, PipelineAssumption DEF EndUpload, CountersOK
<1>9. ASSUME NEW i \in Entries, Register(i) PROVE CountersOK'
  BY <1>9, PipelineAssumption DEF Register, CountersOK
<1>10. ASSUME NEW i \in Entries, UploadFails(i) PROVE CountersOK'
  BY <1>10, PipelineAssumption DEF UploadFails, CountersOK, Fault
<1>11. ASSUME NEW i \in Entries, RegisterFails(i) PROVE CountersOK'
  BY <1>11, PipelineAssumption DEF RegisterFails, CountersOK, Fault
<1>12. ASSUME NEW i \in Entries, NEW f \in File, Open(i, f) PROVE CountersOK'
  BY <1>12, PipelineAssumption DEF Open, CountersOK
<1>13. ASSUME NEW i \in Entries, NEW f \in File, WriteSome(i, f) PROVE CountersOK'
  BY <1>13, PipelineAssumption DEF WriteSome, CountersOK
<1>14. ASSUME NEW i \in Entries, NEW f \in File, Close(i, f) PROVE CountersOK'
  BY <1>14, PipelineAssumption DEF Close, CountersOK
<1>15. ASSUME NEW i \in Entries, NEW f \in File, FetchFails(i, f) PROVE CountersOK'
  <2>1. list[i] \in Task BY JobTyped
  <2> QED BY <1>15, <2>1, PipelineAssumption DEF FetchFails, Fault, CountersOK
<1>16. CASE Kill
  <2>1. \A i \in Entries : list[i] \in Task BY JobTyped
  <2> QED BY <1>16, <2>1, PipelineAssumption DEF Kill, Fault, CountersOK
<1>17. ASSUME NEW t \in Task, MarkDeleted(t) PROVE CountersOK'
  BY <1>17, PipelineAssumption DEF MarkDeleted, CountersOK, Edit
<1>18. ASSUME NEW t \in Task, ResetProcessedPath(t) PROVE CountersOK'
  BY <1>18, PipelineAssumption DEF ResetProcessedPath, CountersOK, Edit
<1>19. CASE UNCHANGED vars
  BY <1>19, PipelineAssumption DEF vars, vars, CountersOK
<1>20. ASSUME NEW i \in Entries, AskFails(i) PROVE CountersOK'
  BY <1>20, PipelineAssumption DEF AskFails, Begins, CountersOK, Fault
<1> QED
  BY <1>1, <1>2, <1>3, <1>4, <1>5, <1>6, <1>7, <1>8, <1>9, <1>10, <1>11,
     <1>12, <1>13, <1>14, <1>15, <1>16, <1>17, <1>18, <1>19, <1>20 DEF Next, JobStep

(* Nothing is done to what Scale has.                                        *)
LEMMA SourceKept ==
  ASSUME [Next]_vars
  PROVE  source' = source
<1>1. \A i \in Entries : JobStep(i) => source' = source
  <2>1. \A i \in Entries : Start(i) \/ Refetch(i) \/ Load(i) => source' = source
    BY DEF Start, Refetch, Load
  <2>2. \A i \in Entries : Write(i) \/ ConversionFails(i) => source' = source
    BY DEF Write, ConversionFails
  <2>3. \A i \in Entries : BeginUpload(i) \/ EndUpload(i) \/ Register(i) => source' = source
    BY DEF BeginUpload, EndUpload, Register
  <2>4. \A i \in Entries, f \in File :
          Open(i, f) \/ WriteSome(i, f) \/ Close(i, f) => source' = source
    BY DEF Open, WriteSome, Close
  <2> QED BY <2>1, <2>2, <2>3, <2>4 DEF JobStep
<1>2. \A i \in Entries : AskFails(i) \/ UploadFails(i) \/ RegisterFails(i) => source' = source
  BY DEF AskFails, UploadFails, RegisterFails
<1>3. \A i \in Entries, f \in File : FetchFails(i, f) => source' = source
  BY DEF FetchFails
<1>4. \A l \in Lists : Launch(l) => source' = source BY DEF Launch
<1>5. Kill \/ (\E t \in Task : MarkDeleted(t) \/ ResetProcessedPath(t)) => source' = source
  BY DEF Kill, MarkDeleted, ResetProcessedPath
<1>6. UNCHANGED vars => source' = source BY DEF vars
<1> QED BY <1>1, <1>2, <1>3, <1>4, <1>5, <1>6 DEF Next

(* Type correctness.                                                         *)
LEMMA TypesKept ==
  ASSUME TypeOK, FolderInv, [Next]_vars
  PROVE  TypeOK'
<1>1. SourceOK /\ RowsOK /\ FilesOK /\ FoldersOK /\ JobsOK /\ CountersOK
  BY DEF TypeOK, SourceOK, RowsOK, FilesOK, FoldersOK, JobsOK, CountersOK
<1>2. RowsOK' /\ FilesOK' /\ FoldersOK' /\ JobsOK' /\ CountersOK'
  BY <1>1, RowsKept, FilesKept, FoldersKept, JobsKept, CountersKept
<1>3. SourceOK' BY <1>1, SourceKept DEF SourceOK
<1> QED
  BY <1>2, <1>3 DEF TypeOK, SourceOK, RowsOK, FilesOK, FoldersOK, JobsOK, CountersOK
-----------------------------------------------------------------------------
(* What a written conversion leaves as it was.                               *)
LEMMA WriteFacts ==
  ASSUME JobsOK, FoldersOK, NEW i \in Entries, Write(i)
  PROVE  /\ Entries' = Entries /\ list' = list
         /\ Len(folders') = Len(folders) + 1 /\ Len(folders) \in Nat
         /\ \A k \in 1..Len(folders) : folders'[k] = folders[k]
         /\ folders'[Len(folders) + 1].task = list[i]
         /\ folders'[Len(folders) + 1].bucket = "none"
         /\ job'[i].pc = "upload" /\ job'[i].folder = Len(folders) + 1
         /\ \A j \in Entries \ {i} : job'[j].pc = job[j].pc /\ job'[j].folder = job[j].folder
         /\ \A j \in Entries : /\ job'[j].short = job[j].short
                               /\ job'[j].open \subseteq job[j].open
                               /\ job'[j].todo \subseteq job[j].todo
                               /\ job'[j].spoiled \subseteq job[j].spoiled
         /\ \A j \in Entries : list[j] # list[i] => job'[j] = job[j]
<1>1. Entries' = Entries /\ list' = list BY DEF Write, Entries
<1>2. PICK short \in BOOLEAN :
        folders' = Append(folders, [task |-> list[i], short |-> job[i].short \/ short,
                                    bucket |-> "none"])
  BY DEF Write
<1>3. [task |-> list[i], short |-> job[i].short \/ short, bucket |-> "none"] \in Folders
  BY JobTyped DEF Folders
<1>4. /\ Len(folders') = Len(folders) + 1 /\ Len(folders) \in Nat
      /\ \A k \in 1..Len(folders) : folders'[k] = folders[k]
      /\ folders'[Len(folders) + 1] =
           [task |-> list[i], short |-> job[i].short \/ short, bucket |-> "none"]
  BY <1>2, <1>3 DEF FoldersOK
<1>5. \A j \in Entries :
        job'[j] = IF j = i
                  THEN [job[i] EXCEPT !.pc = "upload", !.folder = Len(folders) + 1]
                  ELSE IF list[j] = list[i]
                       THEN [job[j] EXCEPT !.todo = {}, !.open = {}, !.spoiled = {}]
                  ELSE job[j]
  BY DEF Write
<1>6. \A j \in Entries : job[j] \in Jobs BY JobTyped
<1>7. /\ folders'[Len(folders) + 1].task = list[i]
      /\ folders'[Len(folders) + 1].bucket = "none"
  BY <1>4
<1>8. /\ job'[i].pc = "upload" /\ job'[i].folder = Len(folders) + 1
      /\ job'[i].short = job[i].short /\ job'[i].open = job[i].open
      /\ job'[i].todo = job[i].todo /\ job'[i].spoiled = job[i].spoiled
  BY <1>5, <1>6 DEF Jobs
<1>9. \A j \in Entries \ {i} :
        /\ job'[j].pc = job[j].pc /\ job'[j].folder = job[j].folder
        /\ job'[j].short = job[j].short /\ job'[j].open \subseteq job[j].open
        /\ job'[j].todo \subseteq job[j].todo /\ job'[j].spoiled \subseteq job[j].spoiled
  BY <1>5, <1>6 DEF Jobs
<1>10. \A j \in Entries : list[j] # list[i] => job'[j] = job[j] BY <1>5
<1> QED BY <1>1, <1>4, <1>7, <1>8, <1>9, <1>10

(* A job owns its folder until it is over.                                   *)
LEMMA FolderInvKept ==
  ASSUME JobsOK, FoldersOK, FolderInv, [Next]_vars
  PROVE  FolderInv'
<1>1. ASSUME NEW l \in Lists, Launch(l) PROVE FolderInv'
  BY <1>1 DEF Launch, FolderInv, Entries, Job
<1>2. ASSUME NEW i \in Entries, Start(i) PROVE FolderInv'
  BY <1>2 DEF Start, FolderInv, JobsOK, Entries, Jobs, Job, Goto, Finish
<1>3. ASSUME NEW i \in Entries, Refetch(i) PROVE FolderInv'
  <2>1. folders' = folders BY <1>3 DEF Refetch
  <2> QED BY <1>3, <2>1, RefetchFacts DEF FolderInv
<1>4. ASSUME NEW i \in Entries, Load(i) PROVE FolderInv'
  BY <1>4 DEF Load, FolderInv, JobsOK, Entries, Jobs, Job, Goto, Finish
<1>5. ASSUME NEW i \in Entries, Write(i) PROVE FolderInv'
  <2> QED BY <1>5, WriteFacts DEF FolderInv
<1>6. ASSUME NEW i \in Entries, ConversionFails(i) PROVE FolderInv'
  BY <1>6 DEF ConversionFails, FolderInv, JobsOK, Entries, Jobs, Job, Goto,
     Finish
<1>7. ASSUME NEW i \in Entries, BeginUpload(i) PROVE FolderInv'
  BY <1>7 DEF BeginUpload, FolderInv, JobsOK, Entries, Jobs, Job, Goto, Finish
<1>8. ASSUME NEW i \in Entries, EndUpload(i) PROVE FolderInv'
  BY <1>8 DEF EndUpload, FolderInv, JobsOK, Entries, Jobs, Job, Goto, Finish
<1>9. ASSUME NEW i \in Entries, Register(i) PROVE FolderInv'
  BY <1>9 DEF Register, FolderInv, JobsOK, Entries, Jobs, Job, Goto, Finish
<1>10. ASSUME NEW i \in Entries, UploadFails(i) PROVE FolderInv'
  BY <1>10 DEF UploadFails, FolderInv, JobsOK, Entries, Jobs, Job, Goto,
     Finish
<1>11. ASSUME NEW i \in Entries, RegisterFails(i) PROVE FolderInv'
  BY <1>11 DEF RegisterFails, FolderInv, JobsOK, Entries, Jobs, Job, Goto,
     Finish
<1>12. ASSUME NEW i \in Entries, NEW f \in File, Open(i, f) PROVE FolderInv'
  <2>1. folders' = folders BY <1>12 DEF Open
  <2>2. Entries' = Entries /\ list' = list BY <1>12, OpenFacts
  <2>3. \A j \in Entries : job'[j].pc = job[j].pc /\ job'[j].folder = job[j].folder
    BY <1>12, OpenFacts
  <2> QED BY <2>1, <2>2, <2>3 DEF FolderInv
<1>13. ASSUME NEW i \in Entries, NEW f \in File, WriteSome(i, f) PROVE FolderInv'
  BY <1>13 DEF WriteSome, FolderInv, JobsOK, Entries, Jobs, Job, Goto, Finish
<1>14. ASSUME NEW i \in Entries, NEW f \in File, Close(i, f) PROVE FolderInv'
  BY <1>14 DEF Close, FolderInv, JobsOK, Entries, Jobs, Job, Goto, Finish
<1>15. ASSUME NEW i \in Entries, NEW f \in File, FetchFails(i, f) PROVE FolderInv'
  BY <1>15 DEF FetchFails, FolderInv, JobsOK, Entries, Jobs, Job, Goto, Finish
<1>16. CASE Kill
  BY <1>16 DEF Kill, FolderInv, Entries
<1>17. ASSUME NEW t \in Task, MarkDeleted(t) PROVE FolderInv'
  BY <1>17 DEF MarkDeleted, FolderInv, JobsOK, Entries, Jobs, Job, Goto,
     Finish
<1>18. ASSUME NEW t \in Task, ResetProcessedPath(t) PROVE FolderInv'
  BY <1>18 DEF ResetProcessedPath, FolderInv, JobsOK, Entries, Jobs, Job,
     Goto, Finish
<1>19. CASE UNCHANGED vars
  BY <1>19 DEF vars, vars, FolderInv, Entries
<1>20. ASSUME NEW i \in Entries, AskFails(i) PROVE FolderInv'
  BY <1>20 DEF AskFails, Begins, FolderInv, JobsOK, Entries, Jobs, Job, Goto,
     Finish
<1> QED
  BY <1>1, <1>2, <1>3, <1>4, <1>5, <1>6, <1>7, <1>8, <1>9, <1>10, <1>11,
     <1>12, <1>13, <1>14, <1>15, <1>16, <1>17, <1>18, <1>19, <1>20 DEF Next, JobStep

(* Whole folders stay whole, and a row gets one of its task.                 *)
LEMMA RegisteredKept ==
  ASSUME RowsOK, JobsOK, FoldersOK, FolderInv, RegisteredWhole, [Next]_vars
  PROVE  RegisteredWhole'
<1>1. ASSUME NEW l \in Lists, Launch(l) PROVE RegisteredWhole'
  BY <1>1 DEF Launch, RegisteredWhole
<1>2. ASSUME NEW i \in Entries, Start(i) PROVE RegisteredWhole'
  BY <1>2 DEF Start, RegisteredWhole
<1>3. ASSUME NEW i \in Entries, Refetch(i) PROVE RegisteredWhole'
  BY <1>3 DEF Refetch, RegisteredWhole
<1>4. ASSUME NEW i \in Entries, Load(i) PROVE RegisteredWhole'
  BY <1>4 DEF Load, RegisteredWhole
<1>5. ASSUME NEW i \in Entries, Write(i) PROVE RegisteredWhole'
  <2>1. rows' = rows BY <1>5 DEF Write
  <2>2. \A t \in Task : rows[t].path # NoPath =>
          rows[t].path \in 1..Len(folders) /\ rows[t].path \in 1..Len(folders')
    BY <1>5, WriteFacts DEF RegisteredWhole
  <2> QED BY <1>5, <2>1, <2>2, WriteFacts DEF RegisteredWhole
<1>6. ASSUME NEW i \in Entries, ConversionFails(i) PROVE RegisteredWhole'
  BY <1>6 DEF ConversionFails, RegisteredWhole
<1>7. ASSUME NEW i \in Entries, BeginUpload(i) PROVE RegisteredWhole'
  BY <1>7 DEF BeginUpload, RegisteredWhole, FoldersOK, FolderInv
<1>8. ASSUME NEW i \in Entries, EndUpload(i) PROVE RegisteredWhole'
  BY <1>8 DEF EndUpload, RegisteredWhole, FoldersOK, FolderInv
<1>9. ASSUME NEW i \in Entries, Register(i) PROVE RegisteredWhole'
  BY <1>9 DEF Register, RegisteredWhole, RowsOK, RegisteredRow, FolderInv,
     JobsOK, Entries
<1>10. ASSUME NEW i \in Entries, UploadFails(i) PROVE RegisteredWhole'
  BY <1>10 DEF UploadFails, RegisteredWhole
<1>11. ASSUME NEW i \in Entries, RegisterFails(i) PROVE RegisteredWhole'
  BY <1>11 DEF RegisterFails, RegisteredWhole
<1>12. ASSUME NEW i \in Entries, NEW f \in File, Open(i, f) PROVE RegisteredWhole'
  BY <1>12 DEF Open, RegisteredWhole
<1>13. ASSUME NEW i \in Entries, NEW f \in File, WriteSome(i, f) PROVE RegisteredWhole'
  BY <1>13 DEF WriteSome, RegisteredWhole
<1>14. ASSUME NEW i \in Entries, NEW f \in File, Close(i, f) PROVE RegisteredWhole'
  BY <1>14 DEF Close, RegisteredWhole
<1>15. ASSUME NEW i \in Entries, NEW f \in File, FetchFails(i, f) PROVE RegisteredWhole'
  BY <1>15 DEF FetchFails, RegisteredWhole
<1>16. CASE Kill
  BY <1>16 DEF Kill, RegisteredWhole
<1>17. ASSUME NEW t \in Task, MarkDeleted(t) PROVE RegisteredWhole'
  BY <1>17 DEF MarkDeleted, RegisteredWhole, RowsOK, Rows
<1>18. ASSUME NEW t \in Task, ResetProcessedPath(t) PROVE RegisteredWhole'
  BY <1>18 DEF ResetProcessedPath, RegisteredWhole, RowsOK, Rows
<1>19. CASE UNCHANGED vars
  BY <1>19 DEF vars, vars, RegisteredWhole
<1>20. ASSUME NEW i \in Entries, AskFails(i) PROVE RegisteredWhole'
  BY <1>20 DEF AskFails, Begins, RegisteredWhole
<1> QED
  BY <1>1, <1>2, <1>3, <1>4, <1>5, <1>6, <1>7, <1>8, <1>9, <1>10, <1>11,
     <1>12, <1>13, <1>14, <1>15, <1>16, <1>17, <1>18, <1>19, <1>20 DEF Next, JobStep

(* Fetching belongs to its stage.                                            *)
LEMMA FetchInvKept ==
  ASSUME JobsOK, FetchInv, [Next]_vars
  PROVE  FetchInv'
<1>1. ASSUME NEW l \in Lists, Launch(l) PROVE FetchInv'
  BY <1>1 DEF Launch, FetchInv, Entries, Job
<1>2. ASSUME NEW i \in Entries, Start(i) PROVE FetchInv'
  BY <1>2 DEF Start, FetchInv, JobsOK, Entries, Jobs, Job, Goto, Finish,
     Fetched
<1>3. ASSUME NEW i \in Entries, Refetch(i) PROVE FetchInv'
  <2>1. \A j \in Entries : job'[j].pc # "fetch" => job[j].todo = {} /\ job[j].open = {}
    BY <1>3, RefetchFacts DEF FetchInv
  <2> QED BY <1>3, <2>1, RefetchFacts DEF FetchInv
<1>4. ASSUME NEW i \in Entries, Load(i) PROVE FetchInv'
  BY <1>4 DEF Load, FetchInv, JobsOK, Entries, Jobs, Job, Goto, Finish,
     Fetched
<1>5. ASSUME NEW i \in Entries, Write(i) PROVE FetchInv'
  <2>1. Entries' = Entries /\ job[i].pc = "write" BY <1>5 DEF Write, Entries
  <2>2. job' = [j \in Entries |->
                  IF j = i THEN [job[i] EXCEPT !.pc = "upload", !.folder = Len(folders) + 1]
                  ELSE IF list[j] = list[i]
                       THEN [job[j] EXCEPT !.todo = {}, !.open = {}, !.spoiled = {}]
                  ELSE job[j]]
    BY <1>5 DEF Write
  <2>3. ASSUME NEW j \in Entries, job'[j].pc # "fetch"
        PROVE  job'[j].todo = {} /\ job'[j].open = {}
    <3>1. job[j] \in Jobs BY JobTyped
    <3>2. CASE j = i BY <2>1, <2>2, <3>1, <3>2 DEF FetchInv, Jobs
    <3>3. CASE j # i /\ list[j] = list[i] BY <2>2, <3>1, <3>3 DEF Jobs
    <3>4. CASE j # i /\ list[j] # list[i] BY <2>2, <2>3, <3>4 DEF FetchInv
    <3> QED BY <3>2, <3>3, <3>4
  <2> QED BY <2>1, <2>3 DEF FetchInv
<1>6. ASSUME NEW i \in Entries, ConversionFails(i) PROVE FetchInv'
  BY <1>6 DEF ConversionFails, FetchInv, JobsOK, Entries, Jobs, Job, Goto,
     Finish, Fetched
<1>7. ASSUME NEW i \in Entries, BeginUpload(i) PROVE FetchInv'
  BY <1>7 DEF BeginUpload, FetchInv, JobsOK, Entries, Jobs, Job, Goto,
     Finish, Fetched
<1>8. ASSUME NEW i \in Entries, EndUpload(i) PROVE FetchInv'
  BY <1>8 DEF EndUpload, FetchInv, JobsOK, Entries, Jobs, Job, Goto, Finish,
     Fetched
<1>9. ASSUME NEW i \in Entries, Register(i) PROVE FetchInv'
  BY <1>9 DEF Register, FetchInv, JobsOK, Entries, Jobs, Job, Goto, Finish,
     Fetched
<1>10. ASSUME NEW i \in Entries, UploadFails(i) PROVE FetchInv'
  BY <1>10 DEF UploadFails, FetchInv, JobsOK, Entries, Jobs, Job, Goto,
     Finish, Fetched
<1>11. ASSUME NEW i \in Entries, RegisterFails(i) PROVE FetchInv'
  BY <1>11 DEF RegisterFails, FetchInv, JobsOK, Entries, Jobs, Job, Goto,
     Finish, Fetched
<1>12. ASSUME NEW i \in Entries, NEW f \in File, Open(i, f) PROVE FetchInv'
  <2>1. Entries' = Entries /\ \A j \in Entries : job'[j].pc = job[j].pc
    BY <1>12, OpenFacts
  <2>2. ASSUME NEW j \in Entries, job'[j].pc # "fetch"
        PROVE  job'[j].todo = {} /\ job'[j].open = {}
    <3>1. job[j].todo = {} /\ job[j].open = {} BY <2>1, <2>2 DEF FetchInv
    <3>2. j # i BY <1>12, <3>1, OpenFacts
    <3> QED BY <1>12, <3>1, <3>2, OpenFacts
  <2> QED BY <2>1, <2>2 DEF FetchInv
<1>13. ASSUME NEW i \in Entries, NEW f \in File, WriteSome(i, f) PROVE FetchInv'
  BY <1>13 DEF WriteSome, FetchInv, JobsOK, Entries, Jobs, Job, Goto, Finish,
     Fetched
<1>14. ASSUME NEW i \in Entries, NEW f \in File, Close(i, f) PROVE FetchInv'
  BY <1>14 DEF Close, FetchInv, JobsOK, Entries, Jobs, Job, Goto, Finish,
     Fetched
<1>15. ASSUME NEW i \in Entries, NEW f \in File, FetchFails(i, f) PROVE FetchInv'
  BY <1>15 DEF FetchFails, FetchInv, JobsOK, Entries, Jobs, Job, Goto,
     Finish, Fetched
<1>16. CASE Kill
  BY <1>16 DEF Kill, FetchInv, Entries
<1>17. ASSUME NEW t \in Task, MarkDeleted(t) PROVE FetchInv'
  BY <1>17 DEF MarkDeleted, FetchInv, JobsOK, Entries, Jobs, Job, Goto,
     Finish, Fetched
<1>18. ASSUME NEW t \in Task, ResetProcessedPath(t) PROVE FetchInv'
  BY <1>18 DEF ResetProcessedPath, FetchInv, JobsOK, Entries, Jobs, Job,
     Goto, Finish, Fetched
<1>19. CASE UNCHANGED vars
  BY <1>19 DEF vars, vars, FetchInv, Entries
<1>20. ASSUME NEW i \in Entries, AskFails(i) PROVE FetchInv'
  BY <1>20 DEF AskFails, Begins, FetchInv, JobsOK, Entries, Jobs, Job, Goto,
     Finish, Fetched
<1> QED
  BY <1>1, <1>2, <1>3, <1>4, <1>5, <1>6, <1>7, <1>8, <1>9, <1>10, <1>11,
     <1>12, <1>13, <1>14, <1>15, <1>16, <1>17, <1>18, <1>19, <1>20 DEF Next, JobStep

(* A second job of a task is noted when it starts.                           *)
LEMMA PairInvKept ==
  ASSUME JobsOK, FoldersOK, PairInv, [Next]_vars
  PROVE  PairInv'
<1>1. ASSUME NEW l \in Lists, Launch(l) PROVE PairInv'
  BY <1>1 DEF Launch, PairInv, Entries, Job, Active, Over
<1>2. ASSUME NEW i \in Entries, Start(i) PROVE PairInv'
  BY <1>2 DEF Start, PairInv, JobsOK, Entries, Jobs, Job, Goto, Finish,
     Fetched, Active, Over
<1>3. ASSUME NEW i \in Entries, Refetch(i) PROVE PairInv'
  <2>1. disturbed' = disturbed BY <1>3 DEF Refetch
  <2>2. \A j \in Entries : Active(j)' <=> Active(j) BY <1>3, RefetchFacts DEF Active
  <2> QED BY <1>3, <2>1, <2>2, RefetchFacts DEF PairInv
<1>4. ASSUME NEW i \in Entries, Load(i) PROVE PairInv'
  <2>1. /\ Entries' = Entries /\ list' = list /\ disturbed' = disturbed
        /\ job[i].pc = "fetch"
    BY <1>4 DEF Load, Fetched, Entries
  <2>2. \A j \in Entries : job'[j].pc = IF j = i THEN "write" ELSE job[j].pc
    BY <1>4 DEF Load, JobsOK, Jobs
  <2>3. ASSUME NEW j \in Entries PROVE Active(j)' <=> Active(j)
    BY <2>1, <2>2 DEF Active, Over
  <2> QED BY <2>1, <2>3 DEF PairInv
<1>5. ASSUME NEW i \in Entries, Write(i) PROVE PairInv'
  <2>1. disturbed' = disturbed /\ job[i].pc = "write" BY <1>5 DEF Write
  <2>2. Entries' = Entries /\ list' = list BY <1>5, WriteFacts
  <2>3. \A j \in Entries : job'[j].pc = IF j = i THEN "upload" ELSE job[j].pc
    BY <1>5, WriteFacts
  <2>4. ASSUME NEW j \in Entries PROVE Active(j)' <=> Active(j)
    BY <2>1, <2>3 DEF Active, Over
  <2> QED BY <2>1, <2>2, <2>4 DEF PairInv
<1>6. ASSUME NEW i \in Entries, ConversionFails(i) PROVE PairInv'
  BY <1>6 DEF ConversionFails, PairInv, JobsOK, Entries, Jobs, Job, Goto,
     Finish, Fetched, Active, Over
<1>7. ASSUME NEW i \in Entries, BeginUpload(i) PROVE PairInv'
  BY <1>7 DEF BeginUpload, PairInv, JobsOK, Entries, Jobs, Job, Goto, Finish,
     Fetched, Active, Over
<1>8. ASSUME NEW i \in Entries, EndUpload(i) PROVE PairInv'
  BY <1>8 DEF EndUpload, PairInv, JobsOK, Entries, Jobs, Job, Goto, Finish,
     Fetched, Active, Over
<1>9. ASSUME NEW i \in Entries, Register(i) PROVE PairInv'
  BY <1>9 DEF Register, PairInv, JobsOK, Entries, Jobs, Job, Goto, Finish,
     Fetched, Active, Over
<1>10. ASSUME NEW i \in Entries, UploadFails(i) PROVE PairInv'
  BY <1>10 DEF UploadFails, PairInv, JobsOK, Entries, Jobs, Job, Goto,
     Finish, Fetched, Active, Over
<1>11. ASSUME NEW i \in Entries, RegisterFails(i) PROVE PairInv'
  BY <1>11 DEF RegisterFails, PairInv, JobsOK, Entries, Jobs, Job, Goto,
     Finish, Fetched, Active, Over
<1>12. ASSUME NEW i \in Entries, NEW f \in File, Open(i, f) PROVE PairInv'
  <2>1. disturbed' = disturbed BY <1>12 DEF Open
  <2>2. \A j \in Entries : Active(j)' <=> Active(j) BY <1>12, OpenFacts DEF Active
  <2> QED BY <1>12, <2>1, <2>2, OpenFacts DEF PairInv
<1>13. ASSUME NEW i \in Entries, NEW f \in File, WriteSome(i, f) PROVE PairInv'
  BY <1>13 DEF WriteSome, PairInv, JobsOK, Entries, Jobs, Job, Goto, Finish,
     Fetched, Active, Over
<1>14. ASSUME NEW i \in Entries, NEW f \in File, Close(i, f) PROVE PairInv'
  BY <1>14 DEF Close, PairInv, JobsOK, Entries, Jobs, Job, Goto, Finish,
     Fetched, Active, Over
<1>15. ASSUME NEW i \in Entries, NEW f \in File, FetchFails(i, f) PROVE PairInv'
  BY <1>15 DEF FetchFails, PairInv, JobsOK, Entries, Jobs, Job, Goto, Finish,
     Fetched, Active, Over
<1>16. CASE Kill
  BY <1>16 DEF Kill, PairInv, Entries
<1>17. ASSUME NEW t \in Task, MarkDeleted(t) PROVE PairInv'
  BY <1>17 DEF MarkDeleted, PairInv, JobsOK, Entries, Jobs, Job, Goto,
     Finish, Fetched, Active, Over
<1>18. ASSUME NEW t \in Task, ResetProcessedPath(t) PROVE PairInv'
  BY <1>18 DEF ResetProcessedPath, PairInv, JobsOK, Entries, Jobs, Job, Goto,
     Finish, Fetched, Active, Over
<1>19. CASE UNCHANGED vars
  BY <1>19 DEF vars, vars, PairInv, Entries, Active
<1>20. ASSUME NEW i \in Entries, AskFails(i) PROVE PairInv'
  BY <1>20 DEF AskFails, Begins, PairInv, JobsOK, Entries, Jobs, Job, Goto,
     Finish, Fetched, Active, Over
<1> QED
  BY <1>1, <1>2, <1>3, <1>4, <1>5, <1>6, <1>7, <1>8, <1>9, <1>10, <1>11,
     <1>12, <1>13, <1>14, <1>15, <1>16, <1>17, <1>18, <1>19, <1>20 DEF Next, JobStep

(* A step that spoils nothing.                                               *)
LEMMA SpoiledStays ==
  ASSUME SpoiledInv, list' = list, disturbed \subseteq disturbed',
         \A j \in Entries : job'[j].spoiled \subseteq job[j].spoiled
  PROVE  SpoiledInv'
BY DEF SpoiledInv, Entries

(* Only one of two jobs spoils a file.                                       *)
LEMMA SpoiledInvKept ==
  ASSUME JobsOK, FoldersOK, FetchInv, PairInv, SpoiledInv, [Next]_vars
  PROVE  SpoiledInv'
<1>1. ASSUME NEW l \in Lists, Launch(l) PROVE SpoiledInv'
  BY <1>1 DEF Launch, SpoiledInv, Entries, Job
<1>2. ASSUME NEW i \in Entries, NEW f \in File, Open(i, f) PROVE SpoiledInv'
  <2>0. /\ f \in job[i].todo
        /\ \A j \in Entries :
             \/ job'[j].spoiled = job[j].spoiled
             \/ j # i /\ list[j] = list[i] /\ f \in job[j].open
    BY <1>2, OpenFacts
  <2>1. disturbed' = disturbed BY <1>2 DEF Open
  <2>2. ASSUME NEW j \in Entries, job'[j].spoiled # {} PROVE list[j] \in disturbed
    <3>1. CASE job'[j].spoiled = job[j].spoiled BY <2>2, <3>1 DEF SpoiledInv
    <3>2. CASE job'[j].spoiled # job[j].spoiled
      <4>1. j # i /\ list[j] = list[i] /\ f \in job[j].open /\ f \in job[i].todo
        BY <2>0, <3>2
      <4>2. job[i].pc = "fetch" /\ job[j].pc = "fetch" BY <4>1 DEF FetchInv
      <4>3. Active(i) /\ Active(j) BY <4>2 DEF Active, Over
      <4> QED BY <4>1, <4>3 DEF PairInv
    <3> QED BY <3>1, <3>2
  <2> QED BY <1>2, <2>1, <2>2, OpenFacts DEF SpoiledInv
<1>3. ASSUME NEW i \in Entries, JobStep(i), ~\E f \in File : Open(i, f) PROVE SpoiledInv'
  <2>1. list' = list /\ disturbed \subseteq disturbed'
    BY <1>3 DEF JobStep, Start, Refetch, Load, Write, ConversionFails, BeginUpload, EndUpload,
       Register, WriteSome, Close
  <2>2. CASE Refetch(i) \/ Write(i)
    BY <2>1, <2>2, RefetchFacts, WriteFacts, SpoiledStays
  <2>3. CASE Start(i) \/ Load(i)
    <3>1. ASSUME Start(i) PROVE \A j \in Entries : job'[j].spoiled \subseteq job[j].spoiled
      BY <3>1 DEF Start, JobsOK, Jobs
    <3>2. ASSUME Load(i) PROVE \A j \in Entries : job'[j].spoiled \subseteq job[j].spoiled
      BY <3>2 DEF Load, JobsOK, Jobs
    <3> QED BY <2>1, <2>3, <3>1, <3>2, SpoiledStays
  <2>4. CASE ConversionFails(i) \/ Register(i)
    <3>1. \A j \in Entries : job'[j].spoiled \subseteq job[j].spoiled
      BY <2>4 DEF ConversionFails, Register, Finish, Job, JobsOK, Jobs
    <3> QED BY <2>1, <3>1, SpoiledStays
  <2>5. CASE BeginUpload(i) \/ EndUpload(i)
    <3>1. \A j \in Entries : job'[j].spoiled \subseteq job[j].spoiled
      BY <2>5 DEF BeginUpload, EndUpload, Goto, JobsOK, Jobs
    <3> QED BY <2>1, <3>1, SpoiledStays
  <2>6. CASE \E f \in File : WriteSome(i, f) \/ Close(i, f)
    <3>1. \A j \in Entries : job'[j].spoiled \subseteq job[j].spoiled
      BY <2>6 DEF WriteSome, Close, JobsOK, Jobs
    <3> QED BY <2>1, <3>1, SpoiledStays
  <2> QED BY <1>3, <2>2, <2>3, <2>4, <2>5, <2>6 DEF JobStep
<1>4. ASSUME NEW i \in Entries, AskFails(i) \/ UploadFails(i) \/ RegisterFails(i)
      PROVE  SpoiledInv'
  <2>1. list' = list /\ disturbed' = disturbed
    BY <1>4 DEF AskFails, UploadFails, RegisterFails
  <2>2. \A j \in Entries : job'[j].spoiled \subseteq job[j].spoiled
    BY <1>4 DEF AskFails, UploadFails, RegisterFails, Finish, Job, JobsOK, Jobs
  <2> QED BY <2>1, <2>2, SpoiledStays
<1>5. ASSUME NEW i \in Entries, NEW f \in File, FetchFails(i, f) PROVE SpoiledInv'
  <2>1. list' = list /\ disturbed \subseteq disturbed' BY <1>5 DEF FetchFails
  <2>2. \A j \in Entries : job'[j].spoiled \subseteq job[j].spoiled
    BY <1>5 DEF FetchFails, JobsOK, Jobs
  <2> QED BY <2>1, <2>2, SpoiledStays
<1>6. CASE Kill BY <1>6 DEF Kill, SpoiledInv, Entries
<1>7. ASSUME NEW t \in Task, MarkDeleted(t) \/ ResetProcessedPath(t) PROVE SpoiledInv'
  BY <1>7 DEF MarkDeleted, ResetProcessedPath, SpoiledInv, Entries
<1>8. CASE UNCHANGED vars BY <1>8 DEF vars, SpoiledInv, Entries
<1> QED BY <1>1, <1>2, <1>3, <1>4, <1>5, <1>6, <1>7, <1>8 DEF Next

(* A step that opens files and takes no pen away.                            *)
LEMMA VideoStays ==
  ASSUME JobsOK, VideoInv, list' = list, disturbed \subseteq disturbed',
         \A t \in Task : file'[t]["video"] = file[t]["video"] \/ \E j \in Entries :
                            list[j] = t /\ "video" \in job'[j].open,
         \A j \in Entries : job[j].open \subseteq job'[j].open
  PROVE  VideoInv'
BY DEF VideoInv, Entries

(* A video is left incomplete only together with a mark in the history.      *)
LEMMA VideoInvKept ==
  ASSUME JobsOK, FilesOK, FoldersOK, FetchInv, SpoiledInv, VideoInv, [Next]_vars
  PROVE  VideoInv'
<1>1. ASSUME NEW l \in Lists, Launch(l) PROVE VideoInv'
  BY <1>1 DEF Launch, VideoInv, FetchInv, Idle, Over, Entries
<1>2. ASSUME NEW i \in Entries, Start(i) PROVE VideoInv'
  <2>1. list' = list /\ file' = file /\ disturbed \subseteq disturbed'
    BY <1>2 DEF Start
  <2>2. \A j \in Entries : job[j].open \subseteq job'[j].open
    BY <1>2 DEF Start, JobsOK, Jobs, Finish, Job, FetchInv
  <2> QED BY <2>1, <2>2, VideoStays
<1>3. ASSUME NEW i \in Entries, Refetch(i) PROVE VideoInv'
  <2>1. disturbed' = disturbed /\ list[i] \in Task BY <1>3, JobTyped DEF Refetch
  <2>2. \A t \in Task : file'[t]["video"] = file[t]["video"]
    BY <1>3, <2>1 DEF Refetch, FilesOK, File
  <2>3. \A j \in Entries : "video" \in job[j].open => "video" \in job'[j].open
    BY <1>3, RefetchFacts
  <2> QED BY <1>3, <2>1, <2>2, <2>3, RefetchFacts DEF VideoInv
<1>4. ASSUME NEW i \in Entries, Load(i) PROVE VideoInv'
  <2>1. list' = list /\ file' = file /\ disturbed \subseteq disturbed'
    BY <1>4 DEF Load
  <2>2. \A j \in Entries : job[j].open \subseteq job'[j].open
    BY <1>4 DEF Load, JobsOK, Jobs, Finish, Job, FetchInv
  <2> QED BY <2>1, <2>2, VideoStays
<1>5. ASSUME NEW i \in Entries, Write(i) PROVE VideoInv'
  <2>1. list[i] \in Task /\ Entries' = Entries /\ list' = list
    BY <1>5, WriteFacts, JobTyped
  <2>2. file'[list[i]] = Nothing /\ \A t \in Task \ {list[i]} : file'[t] = file[t]
    BY <1>5, <2>1 DEF Write, FilesOK
  <2>3. disturbed' = disturbed BY <1>5 DEF Write
  <2>4. \A j \in Entries : list[j] # list[i] => job'[j] = job[j]
    BY <1>5, WriteFacts
  <2> QED BY <2>1, <2>2, <2>3, <2>4 DEF VideoInv, Nothing, File
<1>6. ASSUME NEW i \in Entries, ConversionFails(i) PROVE VideoInv'
  <2>1. list' = list /\ file' = file /\ disturbed \subseteq disturbed'
    BY <1>6 DEF ConversionFails
  <2>2. job[i].open = {} /\ job' = [job EXCEPT ![i] = Job("failed")]
    BY <1>6 DEF ConversionFails, Finish, Fetched, FetchInv, Begins
  <2>3. \A j \in Entries : job[j].open \subseteq job'[j].open
    BY <2>2 DEF JobsOK
  <2> QED BY <2>1, <2>3, VideoStays
<1>7. ASSUME NEW i \in Entries, BeginUpload(i) PROVE VideoInv'
  BY <1>7 DEF BeginUpload, VideoInv, JobsOK, Entries, Jobs, Job, Goto,
     Finish, FilesOK, Fetched, File
<1>8. ASSUME NEW i \in Entries, EndUpload(i) PROVE VideoInv'
  BY <1>8 DEF EndUpload, VideoInv, JobsOK, Entries, Jobs, Job, Goto, Finish,
     FilesOK, Fetched, File
<1>9. ASSUME NEW i \in Entries, Register(i) PROVE VideoInv'
  <2>1. list' = list /\ file' = file /\ disturbed \subseteq disturbed'
    BY <1>9 DEF Register
  <2>2. \A j \in Entries : job[j].open \subseteq job'[j].open
    BY <1>9 DEF Register, JobsOK, Jobs, Finish, Job, FetchInv
  <2> QED BY <2>1, <2>2, VideoStays
<1>10. ASSUME NEW i \in Entries, UploadFails(i) PROVE VideoInv'
  <2>1. list' = list /\ file' = file /\ disturbed \subseteq disturbed'
    BY <1>10 DEF UploadFails
  <2>2. \A j \in Entries : job[j].open \subseteq job'[j].open
    BY <1>10 DEF UploadFails, JobsOK, Jobs, Finish, Job, FetchInv
  <2> QED BY <2>1, <2>2, VideoStays
<1>11. ASSUME NEW i \in Entries, RegisterFails(i) PROVE VideoInv'
  <2>1. list' = list /\ file' = file /\ disturbed \subseteq disturbed'
    BY <1>11 DEF RegisterFails
  <2>2. \A j \in Entries : job[j].open \subseteq job'[j].open
    BY <1>11 DEF RegisterFails, JobsOK, Jobs, Finish, Job, FetchInv
  <2> QED BY <2>1, <2>2, VideoStays
<1>12. ASSUME NEW i \in Entries, NEW f \in File, Open(i, f) PROVE VideoInv'
  <2>1. list' = list /\ disturbed' = disturbed BY <1>12 DEF Open
  <2>2. ASSUME NEW j \in Entries
        PROVE  job'[j].open = IF j = i THEN job[j].open \cup {f} ELSE job[j].open
    <3>1. CASE j = i BY <1>12, <3>1, OpenFacts
    <3>2. CASE j # i BY <1>12, <3>2, OpenFacts
    <3> QED BY <3>1, <3>2
  <2>3. \A t \in Task : file'[t]["video"] = file[t]["video"]
                        \/ (t = list[i] /\ f = "video")
    <3>1. file' = [file EXCEPT ![list[i]][f] = "empty"] BY <1>12 DEF Open
    <3>2. list[i] \in Task BY JobTyped
    <3>3. \A t \in Task \ {list[i]} : file'[t] = file[t]
      BY <3>1, <3>2 DEF FilesOK
    <3>4. file'[list[i]] = [file[list[i]] EXCEPT ![f] = "empty"]
      BY <3>1, <3>2 DEF FilesOK
    <3>5. file[list[i]] \in [File -> FileState] BY <3>2 DEF FilesOK
    <3>6. f # "video" => file'[list[i]]["video"] = file[list[i]]["video"]
      BY <3>4, <3>5 DEF File
    <3>7. ASSUME NEW t \in Task
          PROVE  file'[t]["video"] = file[t]["video"] \/ (t = list[i] /\ f = "video")
      <4>1. CASE t = list[i] BY <3>6, <4>1
      <4>2. CASE t # list[i] BY <3>3, <4>2
      <4> QED BY <4>1, <4>2
    <3> QED BY <3>7
  <2>4. \A j \in Entries : job[j].open \subseteq job'[j].open BY <2>2
  <2>5. \A t \in Task : file'[t]["video"] = file[t]["video"] \/ \E j \in Entries :
                            list[j] = t /\ "video" \in job'[j].open
    BY <2>2, <2>3
  <2> QED BY <2>1, <2>4, <2>5, VideoStays
<1>13. ASSUME NEW i \in Entries, NEW f \in File, WriteSome(i, f) PROVE VideoInv'
  BY <1>13 DEF WriteSome, VideoInv, JobsOK, Entries, Jobs, Job, Goto, Finish,
     FilesOK, Fetched, File
<1>14. ASSUME NEW i \in Entries, NEW f \in File, Close(i, f) PROVE VideoInv'
  <2>1. list' = list /\ disturbed' = disturbed BY <1>14 DEF Close
  <2>2. \A j \in Entries : job'[j].open = IF j = i THEN job[i].open \ {f} ELSE job[j].open
    BY <1>14 DEF Close, JobsOK, Jobs
  <2>3. list[i] \in Task /\ file[list[i]] \in [File -> FileState] BY JobTyped DEF FilesOK
  <2>4. \A t \in Task \ {list[i]} : file'[t] = file[t] BY <1>14, <2>3 DEF Close, FilesOK
  <2>5. f # "video" => file'[list[i]]["video"] = file[list[i]]["video"]
    BY <1>14, <2>3 DEF Close, FilesOK, File
  <2>6. f = "video" /\ list[i] \notin disturbed => file'[list[i]]["video"] = "whole"
    BY <1>14, <2>3 DEF Close, FilesOK, SpoiledInv
  <2>7. ASSUME NEW t \in Task, file'[t]["video"] \in {"empty", "cut"}, t \notin disturbed
        PROVE  \E j \in Entries : list[j] = t /\ "video" \in job'[j].open
    <3>1. ~(f = "video" /\ t = list[i]) BY <2>6, <2>7
    <3>2. file'[t]["video"] = file[t]["video"] BY <2>4, <2>5, <3>1
    <3>3. PICK j \in Entries : list[j] = t /\ "video" \in job[j].open
      BY <2>7, <3>2 DEF VideoInv
    <3> QED BY <2>2, <3>1, <3>3
  <2> QED BY <2>1, <2>7 DEF VideoInv, Entries
<1>15. ASSUME NEW i \in Entries, NEW f \in File, FetchFails(i, f) PROVE VideoInv'
  <2>1. list' = list /\ file' = file /\ disturbed \subseteq disturbed'
    BY <1>15 DEF FetchFails
  <2>2. f = "video" /\ f \in job[i].open => list[i] \in disturbed'
    BY <1>15 DEF FetchFails
  <2>3. \A j \in Entries : job'[j].open = IF j = i THEN job[i].open \ {f} ELSE job[j].open
    BY <1>15 DEF FetchFails, JobsOK, Jobs
  <2>4. \A j \in Entries : "video" \in job[j].open /\ list[j] \notin disturbed'
                           => "video" \in job'[j].open
    BY <2>2, <2>3
  <2> QED BY <2>1, <2>4 DEF VideoInv, Entries
<1>16. CASE Kill
  BY <1>16 DEF Kill, VideoInv, Entries
<1>17. ASSUME NEW t \in Task, MarkDeleted(t) PROVE VideoInv'
  BY <1>17 DEF MarkDeleted, VideoInv, JobsOK, Entries, Jobs, Job, Goto,
     Finish, FilesOK, Fetched, File
<1>18. ASSUME NEW t \in Task, ResetProcessedPath(t) PROVE VideoInv'
  BY <1>18 DEF ResetProcessedPath, VideoInv, JobsOK, Entries, Jobs, Job,
     Goto, Finish, FilesOK, Fetched, File
<1>19. CASE UNCHANGED vars
  BY <1>19 DEF vars, vars, VideoInv, Entries
<1>20. ASSUME NEW i \in Entries, AskFails(i) PROVE VideoInv'
  <2>1. list' = list /\ file' = file /\ disturbed \subseteq disturbed'
    BY <1>20 DEF AskFails, Begins
  <2>2. \A j \in Entries : job[j].open \subseteq job'[j].open
    BY <1>20 DEF AskFails, Begins, JobsOK, Jobs, Finish, Job, FetchInv
  <2> QED BY <2>1, <2>2, VideoStays
<1> QED
  BY <1>1, <1>2, <1>3, <1>4, <1>5, <1>6, <1>7, <1>8, <1>9, <1>10, <1>11,
     <1>12, <1>13, <1>14, <1>15, <1>16, <1>17, <1>18, <1>19, <1>20 DEF Next, JobStep

(* A job that has a cut video before it, and does not write it, knows why.   *)
LEMMA CutIsDisturbed ==
  ASSUME JobsOK, FetchInv, PairInv, VideoInv, NEW i \in Entries,
         Active(i), "video" \notin job[i].open, file[list[i]]["video"] = "cut"
  PROVE  list[i] \in disturbed
<1> SUFFICES ASSUME list[i] \notin disturbed PROVE FALSE
  OBVIOUS
<1>1. list[i] \in Task BY JobTyped
<1>2. PICK j \in Entries : list[j] = list[i] /\ "video" \in job[j].open
  BY <1>1 DEF VideoInv
<1>3. j # i /\ job[j].open # {} BY <1>2
<1>4. job[j].pc = "fetch" BY <1>3 DEF FetchInv
<1>5. Active(j) BY <1>4 DEF Active, Over
<1> QED BY <1>2, <1>3, <1>5 DEF PairInv

(* Only what such a video gives is short.                                    *)
LEMMA ShortInvKept ==
  ASSUME JobsOK, FilesOK, FoldersOK, FolderInv, FetchInv, PairInv, VideoInv, ShortInv, [Next]_vars
  PROVE  ShortInv'
<1>1. ASSUME NEW l \in Lists, Launch(l) PROVE ShortInv'
  BY <1>1 DEF Launch, ShortInv, Entries, Job
<1>2. ASSUME NEW i \in Entries, Start(i) PROVE ShortInv'
  BY <1>2 DEF Start, ShortInv, JobsOK, Entries, Jobs, Job, Goto, Finish
<1>3. ASSUME NEW i \in Entries, Refetch(i) PROVE ShortInv'
  <2>1. folders' = folders /\ disturbed' = disturbed BY <1>3 DEF Refetch
  <2> QED BY <1>3, <2>1, RefetchFacts DEF ShortInv
<1>4. ASSUME NEW i \in Entries, Load(i) PROVE ShortInv'
  <2>1. PICK short \in BOOLEAN :
          Readable(list[i], short) /\ job' = [job EXCEPT ![i].pc = "write", ![i].short = short]
    BY <1>4 DEF Load
  <2>2. Active(i) /\ "video" \notin job[i].open
    BY <1>4 DEF Load, Fetched, Active, Over
  <2>3. short => list[i] \in disturbed
    BY <2>1, <2>2, CutIsDisturbed DEF Readable
  <2>4. list' = list /\ folders' = folders /\ disturbed' = disturbed
    BY <1>4 DEF Load
  <2>5. \A j \in Entries : job'[j].short = IF j = i THEN short ELSE job[j].short
    BY <2>1 DEF JobsOK, Jobs
  <2> QED BY <2>3, <2>4, <2>5 DEF ShortInv, Entries
<1>5. ASSUME NEW i \in Entries, Write(i) PROVE ShortInv'
  <2>1. PICK short \in BOOLEAN :
          /\ Readable(list[i], short)
          /\ folders' = Append(folders, [task |-> list[i], short |-> job[i].short \/ short,
                                         bucket |-> "none"])
    BY <1>5 DEF Write
  <2>2. Active(i) /\ "video" \notin job[i].open
    BY <1>5 DEF Write, Active, Over, FetchInv
  <2>3. (job[i].short \/ short) => list[i] \in disturbed
    BY <2>1, <2>2, CutIsDisturbed DEF Readable, ShortInv
  <2>4. [task |-> list[i], short |-> job[i].short \/ short, bucket |-> "none"] \in Folders
    BY JobTyped DEF Folders
  <2>5. folders'[Len(folders) + 1] =
          [task |-> list[i], short |-> job[i].short \/ short, bucket |-> "none"]
    BY <2>1, <2>4 DEF FoldersOK
  <2>6. folders'[Len(folders) + 1].short => folders'[Len(folders) + 1].task \in disturbed
    BY <2>3, <2>5
  <2>7. disturbed' = disturbed BY <1>5 DEF Write
  <2> QED BY <1>5, <2>6, <2>7, WriteFacts DEF ShortInv
<1>6. ASSUME NEW i \in Entries, ConversionFails(i) PROVE ShortInv'
  BY <1>6 DEF ConversionFails, ShortInv, JobsOK, Entries, Jobs, Job, Goto,
     Finish
<1>7. ASSUME NEW i \in Entries, BeginUpload(i) PROVE ShortInv'
  BY <1>7 DEF BeginUpload, ShortInv, JobsOK, Entries, Jobs, Job, Goto,
     Finish, FoldersOK, FolderInv
<1>8. ASSUME NEW i \in Entries, EndUpload(i) PROVE ShortInv'
  BY <1>8 DEF EndUpload, ShortInv, JobsOK, Entries, Jobs, Job, Goto, Finish,
     FoldersOK, FolderInv
<1>9. ASSUME NEW i \in Entries, Register(i) PROVE ShortInv'
  BY <1>9 DEF Register, ShortInv, JobsOK, Entries, Jobs, Job, Goto, Finish
<1>10. ASSUME NEW i \in Entries, UploadFails(i) PROVE ShortInv'
  BY <1>10 DEF UploadFails, ShortInv, JobsOK, Entries, Jobs, Job, Goto, Finish
<1>11. ASSUME NEW i \in Entries, RegisterFails(i) PROVE ShortInv'
  BY <1>11 DEF RegisterFails, ShortInv, JobsOK, Entries, Jobs, Job, Goto,
     Finish
<1>12. ASSUME NEW i \in Entries, NEW f \in File, Open(i, f) PROVE ShortInv'
  <2>1. folders' = folders /\ disturbed' = disturbed BY <1>12 DEF Open
  <2> QED BY <1>12, <2>1, OpenFacts DEF ShortInv
<1>13. ASSUME NEW i \in Entries, NEW f \in File, WriteSome(i, f) PROVE ShortInv'
  BY <1>13 DEF WriteSome, ShortInv, JobsOK, Entries, Jobs, Job, Goto, Finish
<1>14. ASSUME NEW i \in Entries, NEW f \in File, Close(i, f) PROVE ShortInv'
  BY <1>14 DEF Close, ShortInv, JobsOK, Entries, Jobs, Job, Goto, Finish
<1>15. ASSUME NEW i \in Entries, NEW f \in File, FetchFails(i, f) PROVE ShortInv'
  BY <1>15 DEF FetchFails, ShortInv, JobsOK, Entries, Jobs, Job, Goto, Finish
<1>16. CASE Kill
  BY <1>16 DEF Kill, ShortInv, Entries
<1>17. ASSUME NEW t \in Task, MarkDeleted(t) PROVE ShortInv'
  BY <1>17 DEF MarkDeleted, ShortInv, JobsOK, Entries, Jobs, Job, Goto, Finish
<1>18. ASSUME NEW t \in Task, ResetProcessedPath(t) PROVE ShortInv'
  BY <1>18 DEF ResetProcessedPath, ShortInv, JobsOK, Entries, Jobs, Job,
     Goto, Finish
<1>19. CASE UNCHANGED vars
  BY <1>19 DEF vars, vars, ShortInv, Entries
<1>20. ASSUME NEW i \in Entries, AskFails(i) PROVE ShortInv'
  BY <1>20 DEF AskFails, Begins, ShortInv, JobsOK, Entries, Jobs, Job, Goto, Finish
<1> QED
  BY <1>1, <1>2, <1>3, <1>4, <1>5, <1>6, <1>7, <1>8, <1>9, <1>10, <1>11,
     <1>12, <1>13, <1>14, <1>15, <1>16, <1>17, <1>18, <1>19, <1>20 DEF Next, JobStep

(* The history knows of every row that a job may overwrite unseen.           *)
LEMMA MarkInvKept ==
  ASSUME RowsOK, JobsOK, FoldersOK, FolderInv, MarkInv, [Next]_vars
  PROVE  MarkInv'
<1>1. ASSUME NEW l \in Lists, Launch(l) PROVE MarkInv'
  <2>1. ASSUME NEW t \in Task, InFlight(t)' PROVE ~Processed(t)
    BY <1>1, <2>1 DEF Launch, InFlight, Entries, Job, Over
  <2>2. rows' = rows /\ reopened' = reopened BY <1>1 DEF Launch
  <2> QED BY <2>1, <2>2 DEF MarkInv, Processed
<1>2. ASSUME NEW i \in Entries, Start(i) PROVE MarkInv'
  <2>1. list' = list /\ rows' = rows /\ reopened' = reopened BY <1>2 DEF Start
  <2>2. \A j \in Entries : job'[j].pc \notin Over => job[j].pc \notin Over
    BY <1>2 DEF Start, Begins, JobsOK, Jobs, Over
  <2>3. ASSUME NEW t \in Task, InFlight(t)' PROVE InFlight(t)
    BY <2>1, <2>2, <2>3 DEF InFlight, Entries
  <2> QED BY <2>1, <2>3 DEF MarkInv
<1>3. ASSUME NEW i \in Entries, Refetch(i) PROVE MarkInv'
  <2>1. list' = list /\ rows' = rows /\ reopened' = reopened
    BY <1>3 DEF Refetch
  <2>2. \A j \in Entries : job'[j].pc \notin Over => job[j].pc \notin Over
    BY <1>3, RefetchFacts
  <2>3. ASSUME NEW t \in Task, InFlight(t)' PROVE InFlight(t)
    BY <2>1, <2>2, <2>3 DEF InFlight, Entries
  <2> QED BY <2>1, <2>3 DEF MarkInv
<1>4. ASSUME NEW i \in Entries, Load(i) PROVE MarkInv'
  <2>1. list' = list /\ rows' = rows /\ reopened' = reopened BY <1>4 DEF Load
  <2>2. \A j \in Entries : job'[j].pc \notin Over => job[j].pc \notin Over
    BY <1>4 DEF Load, Fetched, JobsOK, Jobs, Goto, Finish, Job, Over
  <2>3. ASSUME NEW t \in Task, InFlight(t)' PROVE InFlight(t)
    BY <2>1, <2>2, <2>3 DEF InFlight, Entries
  <2> QED BY <2>1, <2>3 DEF MarkInv
<1>5. ASSUME NEW i \in Entries, Write(i) PROVE MarkInv'
  <2>1. list' = list /\ rows' = rows /\ reopened' = reopened BY <1>5 DEF Write
  <2>2. \A j \in Entries : job'[j].pc \notin Over => job[j].pc \notin Over
    BY <1>5, WriteFacts DEF Write, JobsOK, Jobs, Goto, Finish, Job, Over
  <2>3. ASSUME NEW t \in Task, InFlight(t)' PROVE InFlight(t)
    BY <2>1, <2>2, <2>3 DEF InFlight, Entries
  <2> QED BY <2>1, <2>3 DEF MarkInv
<1>6. ASSUME NEW i \in Entries, ConversionFails(i) PROVE MarkInv'
  <2>1. list' = list /\ rows' = rows /\ reopened' = reopened
    BY <1>6 DEF ConversionFails
  <2>2. \A j \in Entries : job'[j].pc \notin Over => job[j].pc \notin Over
    BY <1>6 DEF ConversionFails, Fetched, JobsOK, Jobs, Goto, Finish, Job,
       Over
  <2>3. ASSUME NEW t \in Task, InFlight(t)' PROVE InFlight(t)
    BY <2>1, <2>2, <2>3 DEF InFlight, Entries
  <2> QED BY <2>1, <2>3 DEF MarkInv
<1>7. ASSUME NEW i \in Entries, BeginUpload(i) PROVE MarkInv'
  <2>1. list' = list /\ rows' = rows /\ reopened' = reopened
    BY <1>7 DEF BeginUpload
  <2>2. \A j \in Entries : job'[j].pc \notin Over => job[j].pc \notin Over
    BY <1>7 DEF BeginUpload, JobsOK, Jobs, Goto, Finish, Job, Over
  <2>3. ASSUME NEW t \in Task, InFlight(t)' PROVE InFlight(t)
    BY <2>1, <2>2, <2>3 DEF InFlight, Entries
  <2> QED BY <2>1, <2>3 DEF MarkInv
<1>8. ASSUME NEW i \in Entries, EndUpload(i) PROVE MarkInv'
  <2>1. list' = list /\ rows' = rows /\ reopened' = reopened
    BY <1>8 DEF EndUpload
  <2>2. \A j \in Entries : job'[j].pc \notin Over => job[j].pc \notin Over
    BY <1>8 DEF EndUpload, JobsOK, Jobs, Goto, Finish, Job, Over
  <2>3. ASSUME NEW t \in Task, InFlight(t)' PROVE InFlight(t)
    BY <2>1, <2>2, <2>3 DEF InFlight, Entries
  <2> QED BY <2>1, <2>3 DEF MarkInv
<1>9. ASSUME NEW i \in Entries, Register(i) PROVE MarkInv'
  <2>1. list' = list /\ reopened' = reopened /\ list[i] \in Task
    BY <1>9, JobTyped DEF Register
  <2>2. \A j \in Entries : job'[j].pc \notin Over => job[j].pc \notin Over
    BY <1>9 DEF Register, JobsOK, Jobs, Finish, Job, Over
  <2>3. ASSUME NEW t \in Task, InFlight(t)' PROVE InFlight(t)
    BY <2>1, <2>2, <2>3 DEF InFlight, Entries
  <2>4. job[i].folder # NoPath BY <1>9 DEF Register, FolderInv, NoPath
  <2>5. rows' = [rows EXCEPT ![list[i]] = RegisteredRow(i)]
    BY <1>9 DEF Register
  <2> QED BY <2>1, <2>3, <2>4, <2>5 DEF MarkInv, RegisteredRow, RowsOK
<1>10. ASSUME NEW i \in Entries, UploadFails(i) PROVE MarkInv'
  <2>1. list' = list /\ rows' = rows /\ reopened' = reopened
    BY <1>10 DEF UploadFails
  <2>2. \A j \in Entries : job'[j].pc \notin Over => job[j].pc \notin Over
    BY <1>10 DEF UploadFails, JobsOK, Jobs, Goto, Finish, Job, Over
  <2>3. ASSUME NEW t \in Task, InFlight(t)' PROVE InFlight(t)
    BY <2>1, <2>2, <2>3 DEF InFlight, Entries
  <2> QED BY <2>1, <2>3 DEF MarkInv
<1>11. ASSUME NEW i \in Entries, RegisterFails(i) PROVE MarkInv'
  <2>1. list' = list /\ rows' = rows /\ reopened' = reopened
    BY <1>11 DEF RegisterFails
  <2>2. \A j \in Entries : job'[j].pc \notin Over => job[j].pc \notin Over
    BY <1>11 DEF RegisterFails, JobsOK, Jobs, Goto, Finish, Job, Over
  <2>3. ASSUME NEW t \in Task, InFlight(t)' PROVE InFlight(t)
    BY <2>1, <2>2, <2>3 DEF InFlight, Entries
  <2> QED BY <2>1, <2>3 DEF MarkInv
<1>12. ASSUME NEW i \in Entries, NEW f \in File, Open(i, f) PROVE MarkInv'
  <2>1. list' = list /\ rows' = rows /\ reopened' = reopened BY <1>12 DEF Open
  <2>2. \A j \in Entries : job'[j].pc \notin Over => job[j].pc \notin Over
    BY <1>12, OpenFacts
  <2>3. ASSUME NEW t \in Task, InFlight(t)' PROVE InFlight(t)
    BY <2>1, <2>2, <2>3 DEF InFlight, Entries
  <2> QED BY <2>1, <2>3 DEF MarkInv
<1>13. ASSUME NEW i \in Entries, NEW f \in File, WriteSome(i, f) PROVE MarkInv'
  <2>1. list' = list /\ rows' = rows /\ reopened' = reopened
    BY <1>13 DEF WriteSome
  <2>2. \A j \in Entries : job'[j].pc \notin Over => job[j].pc \notin Over
    BY <1>13 DEF WriteSome, JobsOK, Jobs, Goto, Finish, Job, Over
  <2>3. ASSUME NEW t \in Task, InFlight(t)' PROVE InFlight(t)
    BY <2>1, <2>2, <2>3 DEF InFlight, Entries
  <2> QED BY <2>1, <2>3 DEF MarkInv
<1>14. ASSUME NEW i \in Entries, NEW f \in File, Close(i, f) PROVE MarkInv'
  <2>1. list' = list /\ rows' = rows /\ reopened' = reopened
    BY <1>14 DEF Close
  <2>2. \A j \in Entries : job'[j].pc \notin Over => job[j].pc \notin Over
    BY <1>14 DEF Close, JobsOK, Jobs, Goto, Finish, Job, Over
  <2>3. ASSUME NEW t \in Task, InFlight(t)' PROVE InFlight(t)
    BY <2>1, <2>2, <2>3 DEF InFlight, Entries
  <2> QED BY <2>1, <2>3 DEF MarkInv
<1>15. ASSUME NEW i \in Entries, NEW f \in File, FetchFails(i, f) PROVE MarkInv'
  <2>1. list' = list /\ rows' = rows /\ reopened' = reopened
    BY <1>15 DEF FetchFails
  <2>2. \A j \in Entries : job'[j].pc \notin Over => job[j].pc \notin Over
    BY <1>15 DEF FetchFails, JobsOK, Jobs, Goto, Finish, Job, Over
  <2>3. ASSUME NEW t \in Task, InFlight(t)' PROVE InFlight(t)
    BY <2>1, <2>2, <2>3 DEF InFlight, Entries
  <2> QED BY <2>1, <2>3 DEF MarkInv
<1>16. CASE Kill
  BY <1>16 DEF Kill, MarkInv, InFlight, Entries
<1>17. ASSUME NEW t \in Task, MarkDeleted(t) PROVE MarkInv'
  <2>1. ASSUME NEW u \in Task PROVE InFlight(u)' <=> InFlight(u)
    BY <1>17 DEF MarkDeleted, InFlight, Entries
  <2> QED BY <1>17, <2>1 DEF MarkDeleted, MarkInv, RowsOK, Rows, Processed
<1>18. ASSUME NEW t \in Task, ResetProcessedPath(t) PROVE MarkInv'
  <2>1. ASSUME NEW u \in Task PROVE InFlight(u)' <=> InFlight(u)
    BY <1>18 DEF ResetProcessedPath, InFlight, Entries
  <2> QED
    BY <1>18, <2>1 DEF ResetProcessedPath, MarkInv, RowsOK, Rows, Processed
<1>19. CASE UNCHANGED vars
  BY <1>19 DEF vars, vars, MarkInv, InFlight, Entries
<1>20. ASSUME NEW i \in Entries, AskFails(i) PROVE MarkInv'
  <2>1. list' = list /\ rows' = rows /\ reopened' = reopened
    BY <1>20 DEF AskFails, Begins
  <2>2. \A j \in Entries : job'[j].pc \notin Over => job[j].pc \notin Over
    BY <1>20 DEF AskFails, Begins, JobsOK, Jobs, Goto, Finish, Job, Over
  <2>3. ASSUME NEW t \in Task, InFlight(t)' PROVE InFlight(t)
    BY <2>1, <2>2, <2>3 DEF InFlight, Entries
  <2> QED BY <2>1, <2>3 DEF MarkInv
<1> QED
  BY <1>1, <1>2, <1>3, <1>4, <1>5, <1>6, <1>7, <1>8, <1>9, <1>10, <1>11,
     <1>12, <1>13, <1>14, <1>15, <1>16, <1>17, <1>18, <1>19, <1>20 DEF Next, JobStep

-----------------------------------------------------------------------------
(* Nothing is registered, downloaded or in flight at first.                  *)
LEMMA StartInv == Init => PipelineInv
<1> SUFFICES ASSUME Init PROVE PipelineInv
  OBVIOUS
<1>1. list = <<>> /\ Entries = {} BY DEF Init, Entries
<1>2. TypeOK
  <2>1. rows \in [Task -> Rows]
    BY PipelineAssumption DEF Init, Rows, NoRow, NoPath
  <2>6. source \in [Task -> Source] BY PipelineAssumption DEF Init
  <2>2. file \in [Task -> [File -> FileState]] BY DEF Init, Nothing, FileState
  <2>3. folders \in Seq(Folders) /\ Len(folders) <= MaxFolders
    BY PipelineAssumption DEF Init
  <2>4. list \in Seq(Task) /\ job \in [Entries -> Jobs] BY <1>1 DEF Init
  <2>5. /\ faults \in 0..MaxFaults /\ edits \in 0..MaxEdits
        /\ disturbed \subseteq Task /\ reopened \subseteq Task
    BY PipelineAssumption DEF Init
  <2> QED BY <2>1, <2>2, <2>3, <2>4, <2>5, <2>6 DEF TypeOK
<1>3. FolderInv /\ FetchInv /\ PairInv /\ SpoiledInv
  BY <1>1 DEF FolderInv, FetchInv, PairInv, SpoiledInv
<1>4. RegisteredWhole BY DEF Init, RegisteredWhole, NoRow
<1>5. VideoInv BY DEF Init, VideoInv, Nothing, File
<1>6. ShortInv BY <1>1 DEF Init, ShortInv
<1>7. MarkInv BY <1>1 DEF Init, MarkInv, NoRow, InFlight
<1> QED BY <1>2, <1>3, <1>4, <1>5, <1>6, <1>7 DEF PipelineInv

(* Every step keeps the invariant.                                           *)
LEMMA InvariantKept ==
  ASSUME PipelineInv, [Next]_vars
  PROVE  PipelineInv'
<1>1. /\ TypeOK /\ FolderInv /\ RegisteredWhole /\ FetchInv /\ PairInv /\ SpoiledInv
      /\ VideoInv /\ ShortInv /\ MarkInv
  BY DEF PipelineInv
<1>2. RowsOK /\ FilesOK /\ FoldersOK /\ JobsOK
  BY <1>1 DEF TypeOK, RowsOK, FilesOK, FoldersOK, JobsOK
<1>3. TypeOK' BY <1>1, TypesKept
<1>4. FolderInv' BY <1>1, <1>2, FolderInvKept
<1>5. RegisteredWhole' BY <1>1, <1>2, RegisteredKept
<1>6. FetchInv' BY <1>1, <1>2, FetchInvKept
<1>7. PairInv' BY <1>1, <1>2, PairInvKept
<1>8. VideoInv' BY <1>1, <1>2, VideoInvKept
<1>9. ShortInv' BY <1>1, <1>2, ShortInvKept
<1>10. MarkInv' BY <1>1, <1>2, MarkInvKept
<1>11. SpoiledInv' BY <1>1, <1>2, SpoiledInvKept
<1> QED
  BY <1>3, <1>4, <1>5, <1>6, <1>7, <1>8, <1>9, <1>10, <1>11 DEF PipelineInv

(* The inductive invariant holds in every reachable state.                   *)
THEOREM PipelineInvariant == Spec => []PipelineInv
<1>1. PipelineInv /\ [Next]_vars => PipelineInv' BY InvariantKept
<1> QED BY StartInv, <1>1, PTL DEF Spec

(* register_in_sql runs after a sync that succeeded: a row with a path leads *)
(* to a folder that is whole in the bucket and is its own task's.            *)
THEOREM RowsLeadToWholeFolders == Spec => []RegisteredWhole
<1>1. PipelineInv => RegisteredWhole BY DEF PipelineInv
<1> QED BY PipelineInvariant, <1>1, PTL

(* convert_task_to_zarr loses the end of a recording only to a download that *)
(* was cut off or shared.                                                    *)
THEOREM MissingEndsAreExplained == Spec => []ShortExplained
<1>1. PipelineInv => ShortExplained
  BY DEF PipelineInv, RegisteredWhole, ShortInv, ShortExplained
<1> QED BY PipelineInvariant, <1>1, PTL

(* The UPDATE of a whole row clears a deletion mark only after a reset, or   *)
(* when the mark was set after the idempotency check.                        *)
THEOREM MarksAreKept == Spec => MarksStick
<1>1. ASSUME PipelineInv, [Next]_vars
      PROVE  [\A t \in Task : rows[t].deleted /\ ~rows'[t].deleted => t \in reopened]_vars
  <2> SUFFICES ASSUME Next, NEW t \in Task, rows[t].deleted, ~rows'[t].deleted
               PROVE  t \in reopened
    BY <1>1
  <2>1. rows \in [Task -> Rows] /\ JobsOK
    BY <1>1 DEF PipelineInv, TypeOK, JobsOK
  <2>2. rows' # rows OBVIOUS
  <2>3. ASSUME NEW i \in Entries, Register(i) PROVE t \in reopened
    <3>1. rows' = [rows EXCEPT ![list[i]] = RegisteredRow(i)]
      BY <2>3 DEF Register
    <3>2. list[i] = t BY <2>1, <3>1, JobTyped DEF Rows
    <3>3. InFlight(t) BY <2>3, <3>2 DEF Register, InFlight, Over
    <3> QED BY <1>1, <3>3 DEF PipelineInv, MarkInv
  <2>4. ASSUME NEW u \in Task, MarkDeleted(u) \/ ResetProcessedPath(u) PROVE FALSE
    BY <2>1, <2>4 DEF MarkDeleted, ResetProcessedPath, Rows
  <2>5. PICK i \in Entries : Register(i)
    <3>a. \A j \in Entries : Start(j) \/ Refetch(j) \/ Load(j) \/ Write(j) => rows' = rows
      BY DEF Start, Refetch, Load, Write
    <3>b. \A j \in Entries :
            ConversionFails(j) \/ BeginUpload(j) \/ EndUpload(j) => rows' = rows
      BY DEF ConversionFails, BeginUpload, EndUpload
    <3>c. \A j \in Entries, f \in File :
            Open(j, f) \/ WriteSome(j, f) \/ Close(j, f) => rows' = rows
      BY DEF Open, WriteSome, Close
    <3>1. \A j \in Entries : JobStep(j) => Register(j) \/ rows' = rows
      BY <3>a, <3>b, <3>c DEF JobStep
    <3>2. \A j \in Entries :
            AskFails(j) \/ UploadFails(j) \/ RegisterFails(j) => rows' = rows
      BY DEF AskFails, UploadFails, RegisterFails
    <3>3. \A j \in Entries, f \in File : FetchFails(j, f) => rows' = rows
      BY DEF FetchFails
    <3>4. /\ \A l \in Lists : Launch(l) => rows' = rows
          /\ Kill => rows' = rows
      BY DEF Launch, Kill
    <3> QED BY <2>2, <2>4, <3>1, <3>2, <3>3, <3>4 DEF Next
  <2> QED BY <2>3, <2>5
<1> QED BY PipelineInvariant, <1>1, PTL DEF Spec, MarksStick
=============================================================================
