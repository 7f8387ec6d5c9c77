----------------------------- MODULE EpisodeSync -----------------------------
(***************************************************************************)
(* The shared local directory of episodes that training reads.             *)
(*                                                                         *)
(* Every training process (each rank of each job) resolves its datasets    *)
(* itself (zarr_dataset_multi.py): it reads the episode table, tests which *)
(* of the matching episodes have a directory, lets s5cmd copy the others   *)
(* file by file, opens every directory whose name is in the list and       *)
(* splits the names into training and validation.  It does so once for the *)
(* training and once for the validation datasets.  The directory belongs   *)
(* to all processes on the file system; no lock guards it.  Meanwhile the  *)
(* table gains and loses rows and stores in the bucket are replaced.       *)
(***************************************************************************)
EXTENDS Naturals, FiniteSets

CONSTANTS
  Episode,     \* the episode hashes, as numbers in their sorted order
  Process,     \* the processes that resolve into the directory
  Wanted,      \* the episodes that the filter's predicates accept
  HeldOut,     \* HeldOut[n]: the places of n sorted names that are held out
  MaxStarts,   \* bound: processes started
  MaxEdits,    \* bound: changes of the table and of the bucket
  MaxFaults    \* bound: processes killed and copies that fail

ASSUME SyncAssumption ==
  /\ Episode \subseteq Nat
  /\ Wanted \subseteq Episode
  /\ MaxStarts \in Nat /\ MaxEdits \in Nat /\ MaxFaults \in Nat

VARIABLES
  rows,      \* the row of each episode
  bucket,    \* bucket[e][f]: the version of the file in the store, 0 if absent
  latest,    \* the version that the converter wrote last, or is writing
  present,   \* the episodes that have a local directory
  copy,      \* copy[e][f]: the version of the local file, 0 if absent
  pc,        \* what the process is doing
  split,     \* the mode of the dataset it resolves
  listed,    \* listed[p][s]: the episodes the filter returned
  lines,     \* the lines of its batch file s5cmd has not begun
  copying,   \* copying[p][e]: the files s5cmd has still to copy
  erred,     \* the processes whose s5cmd reported an error
  indexing,  \* the directories it has still to open
  names,     \* names[p][s]: the datasets it has opened
  torn,      \* history: episodes with an interrupted or mixed copy
  starts, edits, faults

remoteVars == <<rows, bucket, latest>>
localVars == <<present, copy>>
s5cmd == <<lines, copying, erred>>
resolver == <<pc, split, listed, indexing, names>>
bounds == <<starts, edits, faults>>
vars == <<remoteVars, localVars, s5cmd, resolver, torn, bounds>>
-----------------------------------------------------------------------------
File == {"zarr.json", "chunks"}
Version == 0..(MaxEdits + 1)
Absent == [f \in File |-> 0]
Store(v) == [f \in File |-> v]
Whole(s) == \E v \in Version \ {0} : s = Store(v)

Row == [zarr_processed_path : BOOLEAN, is_deleted : BOOLEAN]
Split == {"train", "valid", "sync_only"}
PC == {"idle", "filter", "plan", "sync", "list", "index", "trains", "raised"}
Nothing == [s \in Split |-> {}]
NoFiles == [e \in Episode |-> {}]

Init ==
  /\ \E processed \in SUBSET Episode :
       /\ rows = [e \in Episode |-> [zarr_processed_path |-> e \in processed,
                                     is_deleted |-> FALSE]]
       /\ bucket = [e \in Episode |-> IF e \in processed THEN Store(1) ELSE Absent]
       /\ latest = [e \in Episode |-> IF e \in processed THEN 1 ELSE 0]
  /\ present = {} /\ copy = [e \in Episode |-> Absent]
  /\ pc = [p \in Process |-> "idle"]
  /\ split = [p \in Process |-> "train"]
  /\ listed = [p \in Process |-> Nothing]
  /\ lines = [p \in Process |-> {}]
  /\ copying = [p \in Process |-> NoFiles]
  /\ erred = {}
  /\ indexing = [p \in Process |-> {}]
  /\ names = [p \in Process |-> Nothing]
  /\ torn = {}
  /\ starts = 0 /\ edits = 0 /\ faults = 0
-----------------------------------------------------------------------------
(* The resolver.                                                             *)

Goto(p, place) == pc' = [pc EXCEPT ![p] = place]

(* A rank instantiates its training datasets; sync_s3.py only syncs.         *)
Start(p, s) ==
  /\ pc[p] = "idle" /\ starts < MaxStarts
  /\ starts' = starts + 1
  /\ Goto(p, "filter")
  /\ split' = [split EXCEPT ![p] = s]
  /\ UNCHANGED <<remoteVars, localVars, s5cmd, listed, indexing, names, torn, edits, faults>>

(* DatasetFilter: a deletion mark is tested before the predicates.           *)
Matches(e) == ~rows[e].is_deleted /\ e \in Wanted

(* The whole table is read at once; rows without a processed path drop out.  *)
FilteredPaths == {e \in Episode : Matches(e) /\ rows[e].zarr_processed_path}

Filter(p) ==
  /\ pc[p] = "filter"
  /\ listed' = [listed EXCEPT ![p][split[p]] = FilteredPaths]
  /\ Goto(p, IF FilteredPaths # {} THEN "plan"
             ELSE IF split[p] = "sync_only" THEN "idle" ELSE "raised")
  /\ UNCHANGED <<remoteVars, localVars, s5cmd, split, indexing, names, torn, bounds>>

AfterSync(p) == IF split[p] = "sync_only" THEN "idle" ELSE "list"

(* Mutant: a directory without its metadata does not count as present.       *)
AlreadyPresentIfReadable(e) == e \in present /\ copy[e]["zarr.json"] # 0

(* An episode is present if it has a directory, whatever is in it.           *)
AlreadyPresent(e) == e \in present

Plan(p) ==
  /\ pc[p] = "plan"
  /\ LET toSync == {e \in listed[p][split[p]] : ~AlreadyPresent(e)}
     IN /\ lines' = [lines EXCEPT ![p] = toSync]
        /\ Goto(p, IF toSync = {} THEN AfterSync(p) ELSE "sync")
  /\ UNCHANGED <<remoteVars, localVars, copying, erred, split, listed, indexing, names,
                 torn, bounds>>
-----------------------------------------------------------------------------
(* s5cmd run: one `sync` line per episode, several at a time.                *)

(* A line lists the store and the directory and copies what differs.         *)
ToCopy(e) == {f \in File : bucket[e][f] # 0 /\ copy[e][f] # bucket[e][f]}

(* A line whose prefix has no object is an error.                            *)
SyncLine(p, e) ==
  /\ pc[p] = "sync" /\ e \in lines[p]
  /\ lines' = [lines EXCEPT ![p] = @ \ {e}]
  /\ IF bucket[e] = Absent
     THEN /\ erred' = erred \cup {p}
          /\ UNCHANGED <<copying, torn>>
     ELSE /\ copying' = [copying EXCEPT ![p][e] = ToCopy(e)]
          /\ torn' = IF Whole(bucket[e]) THEN torn ELSE torn \cup {e}
          /\ UNCHANGED erred
  /\ UNCHANGED <<remoteVars, localVars, resolver, bounds>>

(* The episode's directory is made before its first file is fetched; an      *)
(* object that has gone meanwhile is an error.                               *)
CopyFile(p, e, f) ==
  /\ f \in copying[p][e]
  /\ copying' = [copying EXCEPT ![p][e] = @ \ {f}]
  /\ present' = present \cup {e}
  /\ IF bucket[e][f] = 0
     THEN /\ erred' = erred \cup {p}
          /\ UNCHANGED copy
     ELSE /\ copy' = [copy EXCEPT ![e][f] = bucket[e][f]]
          /\ UNCHANGED erred
  /\ UNCHANGED <<remoteVars, lines, resolver, torn, bounds>>

CopyFails(p, e, f) ==
  /\ faults < MaxFaults
  /\ f \in copying[p][e]
  /\ faults' = faults + 1
  /\ copying' = [copying EXCEPT ![p][e] = @ \ {f}]
  /\ present' = present \cup {e}
  /\ erred' = erred \cup {p}
  /\ torn' = torn \cup {e}
  /\ UNCHANGED <<remoteVars, copy, lines, resolver, starts, edits>>

(* Mutant: s5cmd is stopped after a while.                                   *)
SyncTimesOut(p) ==
  /\ pc[p] = "sync" /\ lines[p] = {}
  /\ Goto(p, AfterSync(p))
  /\ copying' = [copying EXCEPT ![p] = NoFiles]
  /\ erred' = erred \ {p}
  /\ UNCHANGED <<remoteVars, localVars, lines, split, listed, indexing, names, torn, bounds>>

(* subprocess.run(check=True): an error of any line raises.                  *)
SyncEnds(p) ==
  /\ pc[p] = "sync" /\ lines[p] = {} /\ copying[p] = NoFiles
  /\ Goto(p, IF p \in erred THEN "raised" ELSE AfterSync(p))
  /\ erred' = erred \ {p}
  /\ UNCHANGED <<remoteVars, localVars, lines, copying, split, listed, indexing, names,
                 torn, bounds>>
-----------------------------------------------------------------------------
(* Opening the episodes and splitting their names.                           *)

(* Mutant: every directory is opened, listed or not.                         *)
ListDirectoryWhole(p) ==
  /\ pc[p] = "list"
  /\ indexing' = [indexing EXCEPT ![p] = present]
  /\ Goto(p, "index")
  /\ UNCHANGED <<remoteVars, localVars, s5cmd, split, listed, names, torn, bounds>>

(* The directories whose names are in the list.                              *)
ListDirectory(p) ==
  /\ pc[p] = "list"
  /\ indexing' = [indexing EXCEPT ![p] = present \cap listed[p][split[p]]]
  /\ Goto(p, "index")
  /\ UNCHANGED <<remoteVars, localVars, s5cmd, split, listed, names, torn, bounds>>

(* Mutant: the datasets are numbered instead of named.                       *)
OpenEpisodeByNumber(p, e) ==
  /\ pc[p] = "index" /\ e \in indexing[p] /\ \A d \in indexing[p] : e <= d
  /\ indexing' = [indexing EXCEPT ![p] = @ \ {e}]
  /\ names' = [names EXCEPT ![p][split[p]] = @ \cup {Cardinality(@)}]
  /\ UNCHANGED <<remoteVars, localVars, s5cmd, pc, split, listed, torn, bounds>>

(* The directories are opened in their sorted order.  One without metadata   *)
(* cannot be opened; the error is logged and the episode left out.           *)
OpenEpisode(p, e) ==
  /\ pc[p] = "index" /\ e \in indexing[p] /\ \A d \in indexing[p] : e <= d
  /\ indexing' = [indexing EXCEPT ![p] = @ \ {e}]
  /\ IF copy[e]["zarr.json"] # 0
     THEN names' = [names EXCEPT ![p][split[p]] = @ \cup {e}]
     ELSE UNCHANGED names
  /\ UNCHANGED <<remoteVars, localVars, s5cmd, pc, split, listed, torn, bounds>>

(* split_dataset_names sorts the names and shuffles them with a fixed seed,  *)
(* so what is held out depends on the places and the number of the names.    *)
Place(e, N) == Cardinality({d \in N : d <= e})
ValidNames(N) == {e \in N : Place(e, N) \in HeldOut[Cardinality(N)]}

(* Mutant: what is held out is not taken from the rest.                      *)
AllNames(N) == N

TrainNames(N) == N \ ValidNames(N)

Chosen(p, s) == IF s = "train" THEN TrainNames(names[p][s]) ELSE ValidNames(names[p][s])

(* MultiDataset asserts that the split left something; the validation        *)
(* datasets are resolved after the training datasets.                        *)
Choose(p) ==
  /\ pc[p] = "index" /\ indexing[p] = {}
  /\ Goto(p, IF Chosen(p, split[p]) = {} THEN "raised"
             ELSE IF split[p] = "train" THEN "filter" ELSE "trains")
  /\ split' = [split EXCEPT ![p] = "valid"]
  /\ UNCHANGED <<remoteVars, localVars, s5cmd, listed, indexing, names, torn, bounds>>

Forget(p) ==
  /\ Goto(p, "idle")
  /\ listed' = [listed EXCEPT ![p] = Nothing]
  /\ indexing' = [indexing EXCEPT ![p] = {}]
  /\ names' = [names EXCEPT ![p] = Nothing]

(* The process ends, after training or by an exception.                      *)
Exit(p) ==
  /\ pc[p] \in {"trains", "raised"}
  /\ Forget(p)
  /\ UNCHANGED <<remoteVars, localVars, s5cmd, split, torn, bounds>>

(* A killed job takes its s5cmd with it; what was copied stays.              *)
Kill(p) ==
  /\ pc[p] # "idle" /\ faults < MaxFaults
  /\ faults' = faults + 1
  /\ Forget(p)
  /\ lines' = [lines EXCEPT ![p] = {}]
  /\ copying' = [copying EXCEPT ![p] = NoFiles]
  /\ erred' = erred \ {p}
  /\ torn' = torn \cup {e \in Episode : copying[p][e] # {}}
  /\ UNCHANGED <<remoteVars, localVars, split, starts, edits>>
-----------------------------------------------------------------------------
(* The rest of the system changes the table and the bucket.                  *)

Edit == edits < MaxEdits /\ edits' = edits + 1

(* The conversion of a new episode is published.                             *)
Publish(e) ==
  /\ Edit
  /\ latest[e] = 0
  /\ latest' = [latest EXCEPT ![e] = 1]
  /\ bucket' = [bucket EXCEPT ![e] = Store(1)]
  /\ rows' = [rows EXCEPT ![e].zarr_processed_path = TRUE]
  /\ UNCHANGED <<localVars, s5cmd, resolver, torn, starts, faults>>

MarkDeleted(e) ==
  /\ Edit
  /\ rows' = [rows EXCEPT ![e].is_deleted = TRUE]
  /\ UNCHANGED <<bucket, latest, localVars, s5cmd, resolver, torn, starts, faults>>

BeingCopied(e) == \E p \in Process : copying[p][e] # {}

(* A reprocessing deletes the store and uploads the new one.                 *)
Replace(e) ==
  /\ Edit
  /\ latest[e] # 0
  /\ latest' = [latest EXCEPT ![e] = @ + 1]
  /\ bucket' = [bucket EXCEPT ![e] = Absent]
  /\ torn' = IF BeingCopied(e) THEN torn \cup {e} ELSE torn
  /\ UNCHANGED <<rows, localVars, s5cmd, resolver, starts, faults>>

Upload(e, f) ==
  /\ latest[e] # 0 /\ bucket[e][f] = 0
  /\ f = "chunks" => bucket[e]["zarr.json"] # 0
  /\ bucket' = [bucket EXCEPT ![e][f] = latest[e]]
  /\ UNCHANGED <<rows, latest, localVars, s5cmd, resolver, torn, bounds>>
-----------------------------------------------------------------------------
Sync(p) ==
  \/ \E e \in Episode : SyncLine(p, e)
  \/ \E e \in Episode, f \in File : CopyFile(p, e, f)
  \/ SyncEnds(p)

Load(p) ==
  \/ ListDirectory(p)
  \/ \E e \in Episode : OpenEpisode(p, e)
  \/ Choose(p)

Resolve(p) == Filter(p) \/ Plan(p) \/ Sync(p) \/ Load(p)

Outside ==
  \E e \in Episode : \/ Publish(e)
                     \/ MarkDeleted(e)
                     \/ Replace(e)
                     \/ \E f \in File : Upload(e, f)

Next ==
  \/ \E p \in Process :
       \/ \E s \in {"train", "sync_only"} : Start(p, s)
       \/ Resolve(p)
       \/ \E e \in Episode, f \in File : CopyFails(p, e, f)
       \/ Exit(p)
       \/ Kill(p)
  \/ Outside

Spec == Init /\ [][Next]_vars
-----------------------------------------------------------------------------
TypeOK ==
  /\ rows \in [Episode -> Row]
  /\ latest \in [Episode -> Version]
  /\ bucket \in [Episode -> [File -> Version]]
  /\ present \subseteq Episode
  /\ copy \in [Episode -> [File -> Version]]
  /\ pc \in [Process -> PC]
  /\ split \in [Process -> Split]
  /\ listed \in [Process -> [Split -> SUBSET Episode]]
  /\ lines \in [Process -> SUBSET Episode]
  /\ copying \in [Process -> [Episode -> SUBSET File]]
  /\ erred \subseteq Process
  /\ indexing \in [Process -> SUBSET Episode]
  /\ names \in [Process -> [Split -> SUBSET Episode]]
  /\ torn \subseteq Episode
  /\ starts \in 0..MaxStarts /\ edits \in 0..MaxEdits /\ faults \in 0..MaxFaults

(* A directory that does not hold one whole version of its episode is still  *)
(* being filled, or a copy of it was cut short or met a store that was being *)
(* replaced.  Nothing else leaves a part: not the overlapping syncs of       *)
(* several processes, each of which fills what it found missing              *)
(* (_sync_s3_to_local, the presence test and s5cmd's comparison).            *)
BrokenExplained ==
  \A e \in present : Whole(copy[e]) \/ BeingCopied(e) \/ e \in torn

(* While an episode is copied from a store that stays whole, every file is   *)
(* up to date or on its way.                                                 *)
FilesUnderWay ==
  \A e \in Episode \ torn : BeingCopied(e) =>
    /\ Whole(bucket[e])
    /\ \A f \in File : copy[e][f] = bucket[e][f] \/ \E p \in Process : f \in copying[p][e]

StoresAreDated ==
  \A e \in Episode : /\ latest[e] <= edits + 1
                     /\ latest[e] = 0 => bucket[e] = Absent

(* What the copies are, as an inductive invariant: an overlap of syncs never *)
(* loses a file that one of them took over (_sync_s3_to_local).              *)
CopyInv == BrokenExplained /\ FilesUnderWay /\ StoresAreDated

(* Nobody is filling the directory, and whoever looks will find it present.  *)
Settled(e) == e \in present /\ ~BeingCopied(e) /\ \A p \in Process : e \notin lines[p]

(* A directory that is there and that nobody fills stays as it is: it is     *)
(* never repaired, never refreshed when the store is replaced, and never     *)
(* changed under the processes that train from it                            *)
(* (_episode_already_present).                                               *)
SettledStays ==
  [][\A e \in Episode : Settled(e) => copy'[e] = copy[e] /\ Settled(e)']_vars

(* What a process opened stays readable for it, and it opens it again in its *)
(* second resolution unless the table has changed; so an episode is in its   *)
(* training and in its validation set only if the table changed between the  *)
(* two, or another episode became readable (split_dataset_names and          *)
(* _load_zarr_datasets).                                                     *)
LeakExplained ==
  \A p \in Process :
    pc[p] = "trains" /\ listed[p]["train"] = listed[p]["valid"] =>
      /\ names[p]["train"] \subseteq names[p]["valid"]
      /\ names[p]["train"] = names[p]["valid"] =>
           Chosen(p, "train") \cap Chosen(p, "valid") = {}

(* How a process's two resolutions relate, as an inductive invariant: it     *)
(* opens only what was listed, what it opened stays readable, and the second *)
(* time it opens all of that which is listed again (resolve,                 *)
(* _load_zarr_datasets).                                                     *)
OpenedStayReadable ==
  \A p \in Process :
    /\ indexing[p] \subseteq present
    /\ \A e \in names[p]["train"] : e \in present /\ copy[e]["zarr.json"] # 0

Fresh(p) == \/ pc[p] = "idle" \/ split[p] = "sync_only"
            \/ split[p] = "train" /\ pc[p] \in {"filter", "plan", "sync", "list"}

OpenedAreListed ==
  \A p \in Process :
    /\ Fresh(p) => names[p]["train"] = {}
    /\ names[p]["train"] \subseteq listed[p]["train"]
    /\ pc[p] \in {"list", "index"} => split[p] # "sync_only"
    /\ pc[p] = "index" => indexing[p] \subseteq listed[p][split[p]]

OpenedAgain ==
  \A p \in Process :
    LET again == names[p]["train"] \cap listed[p]["valid"]
    IN /\ pc[p] = "index" /\ split[p] = "valid" => again \subseteq indexing[p] \cup names[p]["valid"]
       /\ pc[p] = "trains" => again \subseteq names[p]["valid"]

NamesInv == OpenedStayReadable /\ OpenedAreListed /\ OpenedAgain

(* The types and both invariants: what the processes that share a directory  *)
(* keep between them (zarr_dataset_multi.py), inductive as it stands.        *)
SyncInv == TypeOK /\ CopyInv /\ NamesInv

(* Violated.  "Download those episodes locally from cloudflare R2 (if not    *)
(* already present)", then "Build the Zarr dataset": what is being opened is *)
(* whole.                                                                    *)
IndexedAreWhole ==
  \A p \in Process : \A e \in indexing[p] : Whole(copy[e])
=============================================================================
