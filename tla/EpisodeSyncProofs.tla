-------------------------- MODULE EpisodeSyncProofs --------------------------
(* Theorems about EpisodeSync, for any episodes, processes, filters, shuffles *)
(* and numbers of starts, edits and faults.                                  *)
EXTENDS EpisodeSync, TLAPS

LEMMA VersionTypes ==
  /\ 0 \in Version /\ 1 \in Version /\ \A v \in Version : v \in Nat
  /\ Absent \in [File -> Version] /\ Store(1) \in [File -> Version]
BY SyncAssumption DEF SyncAssumption, Version, Absent, Store

(* A function of functions stays one when one value is replaced.             *)
LEMMA UpdateTypes ==
  ASSUME NEW A, NEW B, NEW C, NEW g \in [A -> [B -> C]], NEW a \in A, NEW b \in B, NEW v \in C
  PROVE  [g EXCEPT ![a][b] = v] \in [A -> [B -> C]]
OBVIOUS

LEMMA TypeInit == Init => TypeOK
<1> SUFFICES ASSUME Init PROVE TypeOK OBVIOUS
<1>1. PICK processed \in SUBSET Episode :
        /\ rows = [e \in Episode |-> [zarr_processed_path |-> e \in processed,
                                      is_deleted |-> FALSE]]
        /\ bucket = [e \in Episode |-> IF e \in processed THEN Store(1) ELSE Absent]
        /\ latest = [e \in Episode |-> IF e \in processed THEN 1 ELSE 0]
  BY DEF Init
<1>2. rows \in [Episode -> Row] BY <1>1 DEF Row
<1>3. bucket \in [Episode -> [File -> Version]] /\ latest \in [Episode -> Version]
  BY <1>1, VersionTypes
<1>4. copy \in [Episode -> [File -> Version]] /\ present \subseteq Episode
  BY VersionTypes DEF Init
<1>5. /\ pc \in [Process -> PC] /\ split \in [Process -> Split]
      /\ listed \in [Process -> [Split -> SUBSET Episode]]
      /\ names \in [Process -> [Split -> SUBSET Episode]]
  BY DEF Init, PC, Split, Nothing
<1>6. /\ lines \in [Process -> SUBSET Episode] /\ indexing \in [Process -> SUBSET Episode]
      /\ copying \in [Process -> [Episode -> SUBSET File]]
  BY DEF Init, NoFiles
<1>7. /\ erred \subseteq Process /\ torn \subseteq Episode
      /\ starts \in 0..MaxStarts /\ edits \in 0..MaxEdits /\ faults \in 0..MaxFaults
  BY SyncAssumption DEF Init, SyncAssumption
<1> QED BY <1>2, <1>3, <1>4, <1>5, <1>6, <1>7 DEF TypeOK

(* The places the resolver goes to.                                          *)
LEMMA PlaceTypes == \A p \in Process : AfterSync(p) \in PC
BY DEF AfterSync, PC

LEMMA TypeResolver ==
  ASSUME TypeOK, NEW p \in Process,
         \/ \E s \in {"train", "sync_only"} : Start(p, s)
         \/ Filter(p) \/ Plan(p) \/ SyncEnds(p) \/ Load(p) \/ Exit(p)
  PROVE  TypeOK'
<1> USE DEF TypeOK, Goto, remoteVars, localVars, s5cmd, resolver, bounds
<1>1. ASSUME NEW s \in {"train", "sync_only"}, Start(p, s) PROVE TypeOK'
  <2>1. starts' \in 0..MaxStarts BY <1>1, SyncAssumption DEF Start, SyncAssumption
  <2> QED BY <1>1, <2>1 DEF Start, PC, Split
<1>2. CASE Filter(p)
  <2>1. FilteredPaths \subseteq Episode BY DEF FilteredPaths
  <2>2. split[p] \in Split OBVIOUS
  <2>3. listed' \in [Process -> [Split -> SUBSET Episode]] BY <1>2, <2>1, <2>2 DEF Filter
  <2>4. pc' \in [Process -> PC] BY <1>2 DEF Filter, PC
  <2> QED BY <1>2, <2>3, <2>4 DEF Filter
<1>3. CASE Plan(p)
  <2>1. split[p] \in Split /\ listed[p][split[p]] \subseteq Episode OBVIOUS
  <2>2. lines' \in [Process -> SUBSET Episode] BY <1>3, <2>1 DEF Plan
  <2>3. pc' \in [Process -> PC] BY <1>3, PlaceTypes DEF Plan, PC
  <2> QED BY <1>3, <2>2, <2>3 DEF Plan
<1>4. CASE SyncEnds(p)
  <2>1. pc' \in [Process -> PC] BY <1>4, PlaceTypes DEF SyncEnds, PC
  <2> QED BY <1>4, <2>1 DEF SyncEnds
<1>5. CASE ListDirectory(p)
  BY <1>5 DEF ListDirectory, PC
<1>6. ASSUME NEW e \in Episode, OpenEpisode(p, e) PROVE TypeOK'
  <2> DEFINE more == names[p][split[p]] \cup {e}
  <2>1. split[p] \in Split /\ more \in SUBSET Episode OBVIOUS
  <2>2. names' = [names EXCEPT ![p][split[p]] = more] \/ names' = names
    BY <1>6 DEF OpenEpisode
  <2> HIDE DEF more
  <2>3. [names EXCEPT ![p][split[p]] = more] \in [Process -> [Split -> SUBSET Episode]]
    BY <2>1, UpdateTypes
  <2> QED BY <1>6, <2>2, <2>3 DEF OpenEpisode
<1>7. CASE Choose(p)
  BY <1>7 DEF Choose, PC, Split
<1>8. CASE Exit(p)
  BY <1>8 DEF Exit, Forget, PC, Split, Nothing
<1> QED BY <1>1, <1>2, <1>3, <1>4, <1>5, <1>6, <1>7, <1>8 DEF Load

LEMMA TypeSync ==
  ASSUME TypeOK, NEW p \in Process,
         \/ \E e \in Episode : SyncLine(p, e)
         \/ \E e \in Episode, f \in File : CopyFile(p, e, f)
         \/ \E e \in Episode, f \in File : CopyFails(p, e, f)
         \/ Kill(p)
  PROVE  TypeOK'
<1> USE DEF TypeOK, Goto, remoteVars, localVars, s5cmd, resolver, bounds
<1>1. ASSUME NEW e \in Episode, SyncLine(p, e) PROVE TypeOK'
  <2>1. ToCopy(e) \subseteq File BY DEF ToCopy
  <2>2. \/ copying' = copying
        \/ copying' = [copying EXCEPT ![p][e] = ToCopy(e)]
    BY <1>1 DEF SyncLine
  <2>6. [copying EXCEPT ![p][e] = ToCopy(e)] \in [Process -> [Episode -> SUBSET File]]
    BY <2>1, UpdateTypes
  <2>3. copying' \in [Process -> [Episode -> SUBSET File]] BY <2>2, <2>6
  <2>4. torn' \subseteq Episode /\ erred' \subseteq Process BY <1>1 DEF SyncLine
  <2>5. lines' \in [Process -> SUBSET Episode] BY <1>1 DEF SyncLine
  <2> QED BY <1>1, <2>3, <2>4, <2>5 DEF SyncLine
<1>2. ASSUME NEW e \in Episode, NEW f \in File, CopyFile(p, e, f) PROVE TypeOK'
  <2>1. copying' \in [Process -> [Episode -> SUBSET File]] BY <1>2 DEF CopyFile
  <2>2. bucket[e][f] \in Version OBVIOUS
  <2>4. copy' = copy \/ copy' = [copy EXCEPT ![e][f] = bucket[e][f]]
    BY <1>2 DEF CopyFile
  <2>5. [copy EXCEPT ![e][f] = bucket[e][f]] \in [Episode -> [File -> Version]]
    BY <2>2, UpdateTypes
  <2>3. copy' \in [Episode -> [File -> Version]] BY <2>4, <2>5
  <2> QED BY <1>2, <2>1, <2>3 DEF CopyFile
<1>3. ASSUME NEW e \in Episode, NEW f \in File, CopyFails(p, e, f) PROVE TypeOK'
  <2>1. copying' \in [Process -> [Episode -> SUBSET File]] BY <1>3 DEF CopyFails
  <2>2. faults' \in 0..MaxFaults BY <1>3, SyncAssumption DEF CopyFails, SyncAssumption
  <2> QED BY <1>3, <2>1, <2>2 DEF CopyFails
<1>4. CASE Kill(p)
  <2>1. faults' \in 0..MaxFaults BY <1>4, SyncAssumption DEF Kill, SyncAssumption
  <2>2. copying' \in [Process -> [Episode -> SUBSET File]] BY <1>4 DEF Kill, NoFiles
  <2>3. /\ pc' \in [Process -> PC] /\ indexing' \in [Process -> SUBSET Episode]
        /\ listed' \in [Process -> [Split -> SUBSET Episode]]
        /\ names' \in [Process -> [Split -> SUBSET Episode]]
    BY <1>4 DEF Kill, Forget, PC, Split, Nothing
  <2>4. lines' \in [Process -> SUBSET Episode] /\ torn' \subseteq Episode /\ erred' \subseteq Process
    BY <1>4 DEF Kill
  <2> QED BY <1>4, <2>1, <2>2, <2>3, <2>4 DEF Kill
<1> QED BY <1>1, <1>2, <1>3, <1>4

LEMMA RowUpdates ==
  \A r \in Row : /\ [r EXCEPT !.zarr_processed_path = TRUE] \in Row
                 /\ [r EXCEPT !.is_deleted = TRUE] \in Row
BY DEF Row

LEMMA TypeOutside == ASSUME TypeOK, StoresAreDated, Outside PROVE TypeOK'
<1> USE DEF TypeOK, remoteVars, localVars, s5cmd, resolver, bounds
<1>1. ASSUME Edit PROVE edits' \in 0..MaxEdits /\ edits \in Nat /\ edits < MaxEdits
  BY <1>1, SyncAssumption DEF Edit, SyncAssumption
<1>2. ASSUME NEW e \in Episode, Publish(e) PROVE TypeOK'
  <2>1. edits' \in 0..MaxEdits BY <1>1, <1>2 DEF Publish
  <2>2. latest' \in [Episode -> Version] /\ bucket' \in [Episode -> [File -> Version]]
    BY <1>2, VersionTypes DEF Publish
  <2>3. rows' \in [Episode -> Row]
    <3>1. rows' = [rows EXCEPT ![e] = [rows[e] EXCEPT !.zarr_processed_path = TRUE]]
      BY <1>2 DEF Publish
    <3>2. [rows[e] EXCEPT !.zarr_processed_path = TRUE] \in Row BY RowUpdates
    <3> QED BY <3>1, <3>2
  <2> QED BY <1>2, <2>1, <2>2, <2>3 DEF Publish
<1>3. ASSUME NEW e \in Episode, MarkDeleted(e) PROVE TypeOK'
  <2>1. edits' \in 0..MaxEdits BY <1>1, <1>3 DEF MarkDeleted
  <2>2. rows' \in [Episode -> Row]
    <3>1. rows' = [rows EXCEPT ![e] = [rows[e] EXCEPT !.is_deleted = TRUE]]
      BY <1>3 DEF MarkDeleted
    <3>2. [rows[e] EXCEPT !.is_deleted = TRUE] \in Row BY RowUpdates
    <3> QED BY <3>1, <3>2
  <2> QED BY <1>3, <2>1, <2>2 DEF MarkDeleted
<1>4. ASSUME NEW e \in Episode, Replace(e) PROVE TypeOK'
  <2>1. edits' \in 0..MaxEdits /\ edits \in Nat /\ edits < MaxEdits BY <1>1, <1>4 DEF Replace
  <2>2. latest[e] \in Nat /\ latest[e] <= edits + 1 BY VersionTypes DEF StoresAreDated
  <2>3. latest[e] + 1 \in Version BY <2>1, <2>2, SyncAssumption DEF Version, SyncAssumption
  <2>4. latest' \in [Episode -> Version] /\ bucket' \in [Episode -> [File -> Version]]
    BY <1>4, <2>3, VersionTypes DEF Replace
  <2> QED BY <1>4, <2>1, <2>4 DEF Replace
<1>5. ASSUME NEW e \in Episode, NEW f \in File, Upload(e, f) PROVE TypeOK'
  BY <1>5 DEF Upload
<1> QED BY <1>2, <1>3, <1>4, <1>5 DEF Outside

LEMMA TypeNext == ASSUME SyncInv, [Next]_vars PROVE TypeOK'
<1>1. TypeOK /\ StoresAreDated BY DEF SyncInv, CopyInv
<1>2. CASE UNCHANGED vars
  BY <1>1, <1>2 DEF vars, TypeOK, remoteVars, localVars, s5cmd, resolver, bounds
<1> QED BY <1>1, <1>2, TypeResolver, TypeSync, TypeOutside DEF Next, Resolve, Sync
-----------------------------------------------------------------------------
(* The copies.                                                               *)

(* Most steps leave the bucket, the directory and s5cmd's work alone.        *)
LEMMA CopyUnchanged ==
  ASSUME TypeOK, CopyInv, UNCHANGED <<bucket, latest, present, copy, copying, torn>>,
         edits' = edits \/ edits' = edits + 1
  PROVE  CopyInv'
<1>1. BrokenExplained' /\ FilesUnderWay'
  BY DEF CopyInv, BrokenExplained, FilesUnderWay, BeingCopied
<1>2. StoresAreDated'
  BY VersionTypes DEF CopyInv, StoresAreDated, TypeOK
<1> QED BY <1>1, <1>2 DEF CopyInv

(* What an operation of s5cmd on one episode leaves alone, and what it owes. *)
OthersAlone(e) ==
  \A d \in Episode \ {e} : /\ d \in present' <=> d \in present
                           /\ copy'[d] = copy[d]
                           /\ d \in torn' <=> d \in torn
                           /\ \A p \in Process : copying'[p][d] = copying[p][d]
InOrder(e) ==
  \/ e \in torn'
  \/ /\ e \in present' => Whole(copy'[e]) \/ BeingCopied(e)'
     /\ BeingCopied(e)' =>
          /\ Whole(bucket[e])
          /\ \A f \in File : copy'[e][f] = bucket[e][f] \/ \E p \in Process : f \in copying'[p][e]

LEMMA CopyInvByEpisode ==
  ASSUME TypeOK, TypeOK', CopyInv, NEW e \in Episode,
         UNCHANGED <<bucket, latest, edits>>, OthersAlone(e), InOrder(e)
  PROVE  CopyInv'
<1>5. UNCHANGED <<bucket, latest, edits>> OBVIOUS
<1>6. \A d \in Episode \ {e} : /\ d \in present' <=> d \in present
                               /\ copy'[d] = copy[d]
                               /\ d \in torn' <=> d \in torn
                               /\ \A p \in Process : copying'[p][d] = copying[p][d]
  BY DEF OthersAlone
<1>1. \A d \in Episode \ {e} : BeingCopied(d)' <=> BeingCopied(d) BY <1>6 DEF BeingCopied
<1>2. BrokenExplained'
  <2> SUFFICES ASSUME NEW d \in present'
               PROVE  Whole(copy'[d]) \/ BeingCopied(d)' \/ d \in torn'
    BY DEF BrokenExplained
  <2>1. d \in Episode BY DEF TypeOK
  <2>2. CASE d = e BY <2>2 DEF InOrder, BeingCopied
  <2>3. CASE d # e
    <3>1. d \in present /\ copy'[d] = copy[d] /\ (d \in torn' <=> d \in torn)
      BY <1>6, <2>1, <2>3
    <3>2. Whole(copy[d]) \/ BeingCopied(d) \/ d \in torn BY <3>1 DEF CopyInv, BrokenExplained
    <3> QED BY <1>1, <2>1, <2>3, <3>1, <3>2
  <2> QED BY <2>2, <2>3
<1>3. FilesUnderWay'
  <2> SUFFICES ASSUME NEW d \in Episode \ torn', BeingCopied(d)'
               PROVE  /\ Whole(bucket'[d])
                      /\ \A f \in File : \/ copy'[d][f] = bucket'[d][f]
                                        \/ \E p \in Process : f \in copying'[p][d]
    BY DEF FilesUnderWay
  <2>2. CASE d = e
    <3>1. e \notin torn' /\ BeingCopied(e)' BY <2>2 DEF BeingCopied
    <3>2. /\ Whole(bucket[e])
          /\ \A f \in File : copy'[e][f] = bucket[e][f] \/ \E p \in Process : f \in copying'[p][e]
      BY <3>1 DEF InOrder
    <3> QED BY <1>5, <2>2, <3>2
  <2>3. CASE d # e
    <3>1. /\ d \in Episode \ torn /\ copy'[d] = copy[d] /\ BeingCopied(d)
          /\ \A p \in Process : copying'[p][d] = copying[p][d]
      BY <1>1, <1>6, <2>3
    <3>2. /\ Whole(bucket[d])
          /\ \A f \in File : copy[d][f] = bucket[d][f] \/ \E p \in Process : f \in copying[p][d]
      BY <3>1 DEF CopyInv, FilesUnderWay
    <3> QED BY <1>5, <3>1, <3>2
  <2> QED BY <2>2, <2>3
<1>4. StoresAreDated' BY <1>5 DEF CopyInv, StoresAreDated
<1> QED BY <1>2, <1>3, <1>4 DEF CopyInv

(* Two functions on files with the same values are the same.                 *)
LEMMA SameFiles ==
  ASSUME NEW g \in [File -> Version], NEW h \in [File -> Version],
         \A f \in File : g[f] = h[f]
  PROVE  g = h
OBVIOUS

LEMMA CopySyncLine ==
  ASSUME TypeOK, TypeOK', CopyInv, NEW p \in Process, NEW e \in Episode, SyncLine(p, e)
  PROVE  CopyInv'
<1>1. UNCHANGED <<bucket, latest, edits, present, copy>>
  BY DEF SyncLine, remoteVars, localVars, bounds
<1>2. CASE bucket[e] = Absent
  BY <1>1, <1>2, CopyUnchanged DEF SyncLine
<1>3. CASE bucket[e] # Absent
  <2>1. /\ copying' = [copying EXCEPT ![p][e] = ToCopy(e)]
        /\ torn' = IF Whole(bucket[e]) THEN torn ELSE torn \cup {e}
    BY <1>3 DEF SyncLine
  <2>2. /\ copying'[p][e] = ToCopy(e)
        /\ \A q \in Process : \A d \in Episode \ {e} : copying'[q][d] = copying[q][d]
        /\ \A q \in Process \ {p} : copying'[q][e] = copying[q][e]
    BY <2>1 DEF TypeOK
  <2>3. ASSUME e \notin torn'
        PROVE  /\ Whole(bucket[e])
               /\ \A f \in File : copy'[e][f] = bucket[e][f] \/ f \in copying'[p][e]
    <3>1. Whole(bucket[e]) BY <2>1, <2>3
    <3>2. \A f \in File : bucket[e][f] # 0 BY <3>1, VersionTypes DEF Whole, Store
    <3> QED BY <1>1, <2>2, <3>1, <3>2 DEF ToCopy
  <2>4. ASSUME e \notin torn' PROVE Whole(copy'[e]) \/ BeingCopied(e)'
    <3>1. CASE BeingCopied(e)' BY <3>1
    <3>2. CASE ~BeingCopied(e)'
      <4>1. \A f \in File : copy'[e][f] = bucket[e][f] BY <2>3, <2>4, <3>2 DEF BeingCopied
      <4>2. copy'[e] = bucket[e] BY <1>1, <4>1, SameFiles DEF TypeOK
      <4> QED BY <2>3, <2>4, <4>2
    <3> QED BY <3>1, <3>2
  <2>5. OthersAlone(e) BY <1>1, <2>1, <2>2 DEF OthersAlone
  <2>6. InOrder(e) BY <1>1, <2>3, <2>4 DEF InOrder
  <2> QED BY <1>1, <2>5, <2>6, CopyInvByEpisode
<1> QED BY <1>2, <1>3

LEMMA CopyCopyFile ==
  ASSUME TypeOK, TypeOK', CopyInv, NEW p \in Process, NEW e \in Episode, NEW f \in File,
         CopyFile(p, e, f)
  PROVE  CopyInv'
<1>1. UNCHANGED <<bucket, latest, edits, torn>> /\ present' = present \cup {e}
  BY DEF CopyFile, remoteVars, bounds
<1>2. f \in copying[p][e] /\ copying' = [copying EXCEPT ![p][e] = @ \ {f}] BY DEF CopyFile
<1>3. /\ copying'[p][e] = copying[p][e] \ {f}
      /\ \A q \in Process : \A d \in Episode \ {e} : copying'[q][d] = copying[q][d]
      /\ \A q \in Process \ {p} : copying'[q][e] = copying[q][e]
  BY <1>2 DEF TypeOK
<1>4. \A d \in Episode \ {e} : copy'[d] = copy[d] BY DEF CopyFile, TypeOK
<1>5. ASSUME e \notin torn
      PROVE  /\ Whole(bucket[e])
             /\ \A g \in File : \/ copy'[e][g] = bucket[e][g]
                               \/ \E q \in Process : g \in copying'[q][e]
  <2>1. BeingCopied(e) BY <1>2 DEF BeingCopied
  <2>2. /\ Whole(bucket[e])
        /\ \A g \in File : copy[e][g] = bucket[e][g] \/ \E q \in Process : g \in copying[q][e]
    BY <1>5, <2>1 DEF CopyInv, FilesUnderWay
  <2>3. bucket[e][f] # 0 BY <2>2, VersionTypes DEF Whole, Store
  <2>4. copy' = [copy EXCEPT ![e][f] = bucket[e][f]] BY <2>3 DEF CopyFile
  <2>5. copy'[e][f] = bucket[e][f] /\ \A g \in File \ {f} : copy'[e][g] = copy[e][g]
    BY <2>4 DEF TypeOK
  <2>6. ASSUME NEW g \in File
        PROVE  copy'[e][g] = bucket[e][g] \/ \E q \in Process : g \in copying'[q][e]
    <3>1. CASE g = f BY <2>5, <3>1
    <3>2. CASE g # f
      <4>1. CASE copy[e][g] = bucket[e][g] BY <2>5, <3>2, <4>1
      <4>2. ASSUME NEW q \in Process, g \in copying[q][e] PROVE g \in copying'[q][e]
        BY <1>3, <3>2, <4>2
      <4> QED BY <2>2, <4>1, <4>2
    <3> QED BY <3>1, <3>2
  <2> QED BY <2>2, <2>6
<1>6. ASSUME e \notin torn PROVE Whole(copy'[e]) \/ BeingCopied(e)'
  <2>1. CASE BeingCopied(e)' BY <2>1
  <2>2. CASE ~BeingCopied(e)'
    <3>1. \A g \in File : copy'[e][g] = bucket[e][g] BY <1>5, <1>6, <2>2 DEF BeingCopied
    <3>2. copy'[e] = bucket[e] BY <3>1, SameFiles DEF TypeOK
    <3> QED BY <1>5, <1>6, <3>2
  <2> QED BY <2>1, <2>2
<1>7. OthersAlone(e) BY <1>1, <1>3, <1>4 DEF OthersAlone
<1>8. InOrder(e) BY <1>1, <1>5, <1>6 DEF InOrder
<1> QED BY <1>1, <1>7, <1>8, CopyInvByEpisode

LEMMA CopyCopyFails ==
  ASSUME TypeOK, TypeOK', CopyInv, NEW p \in Process, NEW e \in Episode, NEW f \in File,
         CopyFails(p, e, f)
  PROVE  CopyInv'
<1>1. /\ UNCHANGED <<bucket, latest, edits, copy>> /\ present' = present \cup {e}
      /\ torn' = torn \cup {e} /\ copying' = [copying EXCEPT ![p][e] = @ \ {f}]
  BY DEF CopyFails, remoteVars
<1>2. \A q \in Process : \A d \in Episode \ {e} : copying'[q][d] = copying[q][d]
  BY <1>1 DEF TypeOK
<1>3. OthersAlone(e) /\ InOrder(e) BY <1>1, <1>2 DEF OthersAlone, InOrder
<1> QED BY <1>1, <1>3, CopyInvByEpisode

LEMMA CopyKill ==
  ASSUME TypeOK, TypeOK', CopyInv, NEW p \in Process, Kill(p)
  PROVE  CopyInv'
<1>1. /\ UNCHANGED <<bucket, latest, edits, present, copy>>
      /\ torn' = torn \cup {e \in Episode : copying[p][e] # {}}
      /\ copying' = [copying EXCEPT ![p] = NoFiles]
  BY DEF Kill, remoteVars, localVars
<1>2. ASSUME NEW e \in Episode, e \notin torn'
      PROVE  e \notin torn /\ \A q \in Process : copying'[q][e] = copying[q][e]
  <2>1. copying[p][e] = {} BY <1>1, <1>2
  <2> QED BY <1>1, <1>2, <2>1 DEF TypeOK, NoFiles
<1>3. \A e \in Episode : e \notin torn' => (BeingCopied(e)' <=> BeingCopied(e))
  BY <1>2 DEF BeingCopied
<1>4. BrokenExplained'
  BY <1>1, <1>2, <1>3 DEF CopyInv, BrokenExplained, TypeOK
<1>5. FilesUnderWay'
  BY <1>1, <1>2, <1>3 DEF CopyInv, FilesUnderWay
<1>6. StoresAreDated' BY <1>1 DEF CopyInv, StoresAreDated
<1> QED BY <1>4, <1>5, <1>6 DEF CopyInv

LEMMA CopyOutside ==
  ASSUME TypeOK, TypeOK', CopyInv, Outside
  PROVE  CopyInv'
<1>1. ASSUME NEW e \in Episode, bucket[e] # Absent PROVE latest[e] # 0
  BY <1>1 DEF CopyInv, StoresAreDated
<1>2. ASSUME NEW e \in Episode \ torn, BeingCopied(e)
      PROVE  Whole(bucket[e]) /\ bucket[e] # Absent /\ \A f \in File : bucket[e][f] # 0
  <2>1. Whole(bucket[e]) BY <1>2 DEF CopyInv, FilesUnderWay
  <2> QED BY <2>1, VersionTypes DEF Whole, Store, File, Absent
<1>3. ASSUME NEW e \in Episode, Publish(e) PROVE CopyInv'
  <2>1. /\ UNCHANGED <<present, copy, copying, torn>> /\ latest[e] = 0
        /\ edits' = edits + 1
        /\ latest' = [latest EXCEPT ![e] = 1] /\ bucket' = [bucket EXCEPT ![e] = Store(1)]
    BY <1>3 DEF Publish, Edit, localVars, s5cmd
  <2>2. e \in torn \/ ~BeingCopied(e) BY <1>1, <1>2, <2>1
  <2>3. BrokenExplained' BY <2>1 DEF CopyInv, BrokenExplained, BeingCopied
  <2>4. FilesUnderWay'
    BY <2>1, <2>2 DEF CopyInv, FilesUnderWay, BeingCopied, TypeOK
  <2>5. StoresAreDated'
    <3>1. edits \in Nat BY SyncAssumption DEF TypeOK, SyncAssumption
    <3> QED BY <2>1, <3>1, VersionTypes DEF CopyInv, StoresAreDated, TypeOK
  <2> QED BY <2>3, <2>4, <2>5 DEF CopyInv
<1>4. ASSUME NEW e \in Episode, MarkDeleted(e) PROVE CopyInv'
  BY <1>4, CopyUnchanged DEF MarkDeleted, Edit, localVars, s5cmd
<1>5. ASSUME NEW e \in Episode, Replace(e) PROVE CopyInv'
  <2>1. /\ UNCHANGED <<present, copy, copying>> /\ edits' = edits + 1 /\ latest[e] # 0
        /\ latest' = [latest EXCEPT ![e] = @ + 1] /\ bucket' = [bucket EXCEPT ![e] = Absent]
        /\ torn' = IF BeingCopied(e) THEN torn \cup {e} ELSE torn
    BY <1>5 DEF Replace, Edit, localVars, s5cmd
  <2>2. \A d \in Episode : BeingCopied(d)' <=> BeingCopied(d) BY <2>1 DEF BeingCopied
  <2>3. BrokenExplained' BY <2>1, <2>2 DEF CopyInv, BrokenExplained, TypeOK
  <2>4. FilesUnderWay'
    <3> SUFFICES ASSUME NEW d \in Episode \ torn', BeingCopied(d)'
                 PROVE  /\ Whole(bucket'[d])
                        /\ \A f \in File : \/ copy'[d][f] = bucket'[d][f]
                                          \/ \E p \in Process : f \in copying'[p][d]
      BY DEF FilesUnderWay
    <3>1. d # e /\ d \notin torn /\ BeingCopied(d) BY <2>1, <2>2
    <3>2. bucket'[d] = bucket[d] BY <2>1, <3>1 DEF TypeOK
    <3> QED BY <2>1, <3>1, <3>2 DEF CopyInv, FilesUnderWay
  <2>5. StoresAreDated'
    <3>1. edits \in Nat BY SyncAssumption DEF TypeOK, SyncAssumption
    <3> QED BY <2>1, <3>1, VersionTypes DEF CopyInv, StoresAreDated, TypeOK
  <2> QED BY <2>3, <2>4, <2>5 DEF CopyInv
<1>6. ASSUME NEW e \in Episode, NEW f \in File, Upload(e, f) PROVE CopyInv'
  <2>1. /\ UNCHANGED <<present, copy, copying, torn, latest, edits>>
        /\ latest[e] # 0 /\ bucket[e][f] = 0 /\ bucket' = [bucket EXCEPT ![e][f] = latest[e]]
    BY <1>6 DEF Upload, localVars, s5cmd, bounds
  <2>2. e \in torn \/ ~BeingCopied(e) BY <1>2, <2>1
  <2>3. \A d \in Episode \ {e} : bucket'[d] = bucket[d] BY <2>1 DEF TypeOK
  <2>4. BrokenExplained' BY <2>1 DEF CopyInv, BrokenExplained, BeingCopied
  <2>5. FilesUnderWay'
    <3> SUFFICES ASSUME NEW d \in Episode \ torn, BeingCopied(d)
                 PROVE  /\ Whole(bucket'[d])
                        /\ \A g \in File : \/ copy[d][g] = bucket'[d][g]
                                          \/ \E p \in Process : g \in copying[p][d]
      BY <2>1 DEF FilesUnderWay, BeingCopied
    <3> QED BY <2>2, <2>3 DEF CopyInv, FilesUnderWay
  <2>6. StoresAreDated' BY <2>1, <2>3 DEF CopyInv, StoresAreDated
  <2> QED BY <2>4, <2>5, <2>6 DEF CopyInv
<1> QED BY <1>3, <1>4, <1>5, <1>6 DEF Outside

LEMMA CopyNext ==
  ASSUME TypeOK, TypeOK', CopyInv, [Next]_vars
  PROVE  CopyInv'
<1>1. CASE UNCHANGED vars
  BY <1>1, CopyUnchanged DEF vars, remoteVars, localVars, s5cmd, bounds
<1>2. ASSUME NEW p \in Process,
             \/ \E s \in {"train", "sync_only"} : Start(p, s)
             \/ Filter(p) \/ Plan(p) \/ SyncEnds(p) \/ Load(p) \/ Exit(p)
      PROVE  CopyInv'
  <2>1. /\ UNCHANGED <<bucket, latest, present, copy, copying, torn>> /\ edits' = edits
    BY <1>2 DEF Start, Filter, Plan, SyncEnds, Load, ListDirectory, OpenEpisode, Choose, Exit,
                remoteVars, localVars, s5cmd, bounds
  <2> QED BY <2>1, CopyUnchanged
<1> QED BY <1>1, <1>2, CopySyncLine, CopyCopyFile, CopyCopyFails, CopyKill, CopyOutside
        DEF Next, Resolve, Sync
-----------------------------------------------------------------------------
(* The names.                                                                *)

(* s5cmd only ever adds to the directory.                                    *)
LEMMA DirectoryGrows ==
  ASSUME TypeOK, [Next]_vars
  PROVE  /\ present \subseteq present'
         /\ \A e \in Episode : copy[e]["zarr.json"] # 0 => copy'[e]["zarr.json"] # 0
<1>1. CASE UNCHANGED localVars BY <1>1 DEF localVars
<1>2. ASSUME NEW p \in Process, NEW e \in Episode, NEW f \in File, CopyFile(p, e, f)
      PROVE  /\ present \subseteq present'
             /\ \A d \in Episode : copy[d]["zarr.json"] # 0 => copy'[d]["zarr.json"] # 0
  <2>1. present' = present \cup {e} BY <1>2 DEF CopyFile
  <2>2. \/ copy' = copy
        \/ bucket[e][f] # 0 /\ copy' = [copy EXCEPT ![e][f] = bucket[e][f]]
    BY <1>2 DEF CopyFile
  <2>3. CASE copy' = [copy EXCEPT ![e][f] = bucket[e][f]] /\ bucket[e][f] # 0
    <3>1. \A d \in Episode : \A g \in File : copy'[d][g] \in {copy[d][g], bucket[e][f]}
      BY <2>3 DEF TypeOK
    <3> QED BY <2>1, <2>3, <3>1 DEF File
  <2> QED BY <2>1, <2>2, <2>3
<1>3. ASSUME NEW p \in Process, NEW e \in Episode, NEW f \in File, CopyFails(p, e, f)
      PROVE  present \subseteq present' /\ copy' = copy
  BY <1>3 DEF CopyFails
<1>4. ASSUME NEW p \in Process,
             \/ \E s \in {"train", "sync_only"} : Start(p, s)
             \/ \E e \in Episode : SyncLine(p, e)
             \/ Filter(p) \/ Plan(p) \/ SyncEnds(p) \/ Load(p) \/ Exit(p) \/ Kill(p)
      PROVE  UNCHANGED localVars
  BY <1>4 DEF Start, SyncLine, Filter, Plan, SyncEnds, Load, ListDirectory, OpenEpisode,
              Choose, Exit, Kill
<1>5. CASE Outside BY <1>5 DEF Outside, Publish, MarkDeleted, Replace, Upload, localVars
<1> QED BY <1>1, <1>2, <1>3, <1>4, <1>5 DEF Next, Resolve, Sync, vars, localVars

(* What a step lets process p open, or open next, is there.                  *)
Added(p) ==
  /\ indexing'[p] \subseteq indexing[p] \cup present
  /\ \A e \in names'[p]["train"] \ names[p]["train"] :
       e \in present /\ copy[e]["zarr.json"] # 0

(* What was opened stays readable, whoever opens more.                       *)
LEMMA ReadableNext ==
  ASSUME TypeOK, [Next]_vars, OpenedStayReadable, \A p \in Process : Added(p)
  PROVE  OpenedStayReadable'
<1>1. ASSUME NEW p \in Process PROVE indexing'[p] \subseteq present'
  BY DirectoryGrows DEF Added, OpenedStayReadable
<1>2. ASSUME NEW p \in Process, NEW e \in names'[p]["train"]
      PROVE  e \in present' /\ copy'[e]["zarr.json"] # 0
  <2>1. e \in present /\ copy[e]["zarr.json"] # 0 BY DEF Added, OpenedStayReadable
  <2>2. e \in Episode BY <2>1 DEF TypeOK
  <2> QED BY <2>1, <2>2, DirectoryGrows
<1> QED BY <1>1, <1>2 DEF OpenedStayReadable

(* What a process does concerns no other process's names.                    *)
ResolversAlone(p) ==
  \A q \in Process \ {p} : /\ pc'[q] = pc[q] /\ split'[q] = split[q]
                          /\ listed'[q] = listed[q] /\ names'[q] = names[q]
                          /\ indexing'[q] = indexing[q]

ListedBy(p) ==
  /\ Fresh(p) => names[p]["train"] = {}
  /\ names[p]["train"] \subseteq listed[p]["train"]
  /\ pc[p] \in {"list", "index"} => split[p] # "sync_only"
  /\ pc[p] = "index" => indexing[p] \subseteq listed[p][split[p]]

AgainBy(p) ==
  LET again == names[p]["train"] \cap listed[p]["valid"]
  IN /\ pc[p] = "index" /\ split[p] = "valid" => again \subseteq indexing[p] \cup names[p]["valid"]
     /\ pc[p] = "trains" => again \subseteq names[p]["valid"]

LEMMA ByProcess ==
  /\ OpenedAreListed <=> \A p \in Process : ListedBy(p)
  /\ OpenedAgain <=> \A p \in Process : AgainBy(p)
BY DEF OpenedAreListed, OpenedAgain, ListedBy, AgainBy

LEMMA NamesByProcess ==
  ASSUME NamesInv, NEW p \in Process, ResolversAlone(p), ListedBy(p)', AgainBy(p)'
  PROVE  OpenedAreListed' /\ OpenedAgain'
<1>1. ASSUME NEW q \in Process \ {p} PROVE ListedBy(q)' /\ AgainBy(q)'
  <2>1. ListedBy(q) /\ AgainBy(q) BY ByProcess DEF NamesInv
  <2>2. /\ pc'[q] = pc[q] /\ split'[q] = split[q] /\ listed'[q] = listed[q]
        /\ names'[q] = names[q] /\ indexing'[q] = indexing[q]
    BY DEF ResolversAlone
  <2> QED BY <2>1, <2>2 DEF ListedBy, AgainBy, Fresh
<1>2. \A q \in Process : ListedBy(q)' /\ AgainBy(q)' BY <1>1
<1> QED BY <1>2 DEF OpenedAreListed, OpenedAgain, ListedBy, AgainBy

(* Each step of a process keeps what the invariant says of its names.        *)
LEMMA NamesProcess ==
  ASSUME TypeOK, NamesInv, NEW p \in Process,
         \/ \E s \in {"train", "sync_only"} : Start(p, s)
         \/ Filter(p) \/ Plan(p) \/ SyncEnds(p) \/ Load(p) \/ Exit(p) \/ Kill(p)
  PROVE  ResolversAlone(p) /\ ListedBy(p)' /\ AgainBy(p)' /\ Added(p)
<1>0. ListedBy(p) /\ AgainBy(p) BY ByProcess DEF NamesInv
<1>t. /\ split[p] \in Split /\ pc[p] \in PC
      /\ pc \in [Process -> PC] /\ split \in [Process -> Split]
      /\ listed \in [Process -> [Split -> SUBSET Episode]]
      /\ names \in [Process -> [Split -> SUBSET Episode]]
      /\ indexing \in [Process -> SUBSET Episode]
  BY DEF TypeOK
<1>1. ASSUME NEW s \in {"train", "sync_only"}, Start(p, s)
      PROVE  ResolversAlone(p) /\ ListedBy(p)' /\ AgainBy(p)' /\ Added(p)
  <2>1. /\ pc[p] = "idle" /\ pc' = [pc EXCEPT ![p] = "filter"]
        /\ split' = [split EXCEPT ![p] = s] /\ UNCHANGED <<listed, names, indexing>>
    BY <1>1 DEF Start, Goto
  <2>2. pc'[p] = "filter" /\ split'[p] = s /\ ResolversAlone(p)
    BY <1>t, <2>1 DEF ResolversAlone
  <2> QED BY <1>0, <2>1, <2>2 DEF ListedBy, AgainBy, Fresh, Added
<1>2. ASSUME Filter(p)
      PROVE  ResolversAlone(p) /\ ListedBy(p)' /\ AgainBy(p)' /\ Added(p)
  <2>1. /\ pc[p] = "filter" /\ UNCHANGED <<split, names, indexing>>
        /\ listed' = [listed EXCEPT ![p][split[p]] = FilteredPaths]
        /\ pc' = [pc EXCEPT ![p] = IF FilteredPaths # {} THEN "plan"
                                   ELSE IF split[p] = "sync_only" THEN "idle" ELSE "raised"]
    BY <1>2 DEF Filter, Goto
  <2>2. ResolversAlone(p) /\ pc'[p] \in {"plan", "idle", "raised"}
        /\ (pc'[p] = "idle" => split[p] = "sync_only")
    BY <1>t, <2>1 DEF ResolversAlone
  <2>3. split[p] # "train" => listed'[p]["train"] = listed[p]["train"]
    BY <1>t, <2>1 DEF Split
  <2>4. split[p] = "train" => names[p]["train"] = {} BY <1>0, <2>1 DEF ListedBy, Fresh
  <2>5. ListedBy(p)' BY <1>0, <2>1, <2>2, <2>3, <2>4 DEF ListedBy, Fresh
  <2> QED BY <2>1, <2>2, <2>5 DEF AgainBy, Added
<1>3. ASSUME Plan(p) \/ SyncEnds(p)
      PROVE  ResolversAlone(p) /\ ListedBy(p)' /\ AgainBy(p)' /\ Added(p)
  <2>1. /\ pc[p] \in {"plan", "sync"} /\ UNCHANGED <<split, listed, names, indexing>>
        /\ \E place \in {AfterSync(p), "sync", "raised"} : pc' = [pc EXCEPT ![p] = place]
    BY <1>3 DEF Plan, SyncEnds, Goto
  <2>2. /\ ResolversAlone(p) /\ pc'[p] \in {"sync", "raised", "idle", "list"}
        /\ pc'[p] = "idle" => split[p] = "sync_only"
        /\ pc'[p] = "list" => split[p] # "sync_only"
    BY <1>t, <2>1 DEF ResolversAlone, AfterSync
  <2> QED BY <1>0, <2>1, <2>2 DEF ListedBy, AgainBy, Fresh, Added
<1>4. ASSUME ListDirectory(p)
      PROVE  ResolversAlone(p) /\ ListedBy(p)' /\ AgainBy(p)' /\ Added(p)
  <2>1. /\ pc[p] = "list" /\ UNCHANGED <<split, listed, names>>
        /\ indexing' = [indexing EXCEPT ![p] = present \cap listed[p][split[p]]]
        /\ pc' = [pc EXCEPT ![p] = "index"]
    BY <1>4 DEF ListDirectory, Goto
  <2>2. ResolversAlone(p) /\ pc'[p] = "index" /\ indexing'[p] = present \cap listed[p][split[p]]
    BY <1>t, <2>1 DEF ResolversAlone
  <2>3. names[p]["train"] \subseteq present BY DEF NamesInv, OpenedStayReadable
  <2> QED BY <1>0, <2>1, <2>2, <2>3 DEF ListedBy, AgainBy, Fresh, Added
<1>5. ASSUME NEW e \in Episode, OpenEpisode(p, e)
      PROVE  ResolversAlone(p) /\ ListedBy(p)' /\ AgainBy(p)' /\ Added(p)
  <2>1. /\ pc[p] = "index" /\ e \in indexing[p] /\ UNCHANGED <<pc, split, listed>>
        /\ indexing' = [indexing EXCEPT ![p] = @ \ {e}]
    BY <1>5 DEF OpenEpisode
  <2>2. /\ e \in listed[p][split[p]] /\ split[p] # "sync_only"
        /\ indexing'[p] = indexing[p] \ {e}
    BY <1>0, <1>t, <2>1 DEF ListedBy
  <2>3. CASE copy[e]["zarr.json"] = 0
    <3>1. names' = names BY <1>5, <2>3 DEF OpenEpisode
    <3>2. e \notin names[p]["train"] BY <2>3 DEF NamesInv, OpenedStayReadable
    <3>3. ResolversAlone(p) BY <1>t, <2>1, <3>1 DEF ResolversAlone
    <3> QED BY <1>0, <2>1, <2>2, <3>1, <3>2, <3>3 DEF ListedBy, AgainBy, Fresh, Added
  <2>4. CASE copy[e]["zarr.json"] # 0
    <3>1. names' = [names EXCEPT ![p][split[p]] = @ \cup {e}] BY <1>5, <2>4 DEF OpenEpisode
    <3>2. ResolversAlone(p) BY <1>t, <2>1, <3>1 DEF ResolversAlone
    <3>3. CASE split[p] = "train"
      <4>1. names'[p]["train"] = names[p]["train"] \cup {e} BY <1>t, <3>1, <3>3 DEF Split
      <4>2. e \in present BY <2>1 DEF NamesInv, OpenedStayReadable
      <4> QED BY <1>0, <2>1, <2>2, <2>4, <3>2, <3>3, <4>1, <4>2
              DEF ListedBy, AgainBy, Fresh, Added
    <3>4. CASE split[p] = "valid"
      <4>1. /\ names'[p]["train"] = names[p]["train"]
            /\ names'[p]["valid"] = names[p]["valid"] \cup {e}
        BY <1>t, <3>1, <3>4 DEF Split
      <4> QED BY <1>0, <2>1, <2>2, <3>2, <3>4, <4>1 DEF ListedBy, AgainBy, Fresh, Added
    <3> QED BY <1>t, <2>2, <3>3, <3>4 DEF Split
  <2> QED BY <2>3, <2>4
<1>6. ASSUME Choose(p)
      PROVE  ResolversAlone(p) /\ ListedBy(p)' /\ AgainBy(p)' /\ Added(p)
  <2>1. /\ pc[p] = "index" /\ indexing[p] = {} /\ UNCHANGED <<listed, names, indexing>>
        /\ split' = [split EXCEPT ![p] = "valid"]
        /\ pc' = [pc EXCEPT ![p] = IF Chosen(p, split[p]) = {} THEN "raised"
                                   ELSE IF split[p] = "train" THEN "filter" ELSE "trains"]
    BY <1>6 DEF Choose, Goto
  <2>2. /\ ResolversAlone(p) /\ split'[p] = "valid" /\ pc'[p] \in {"raised", "filter", "trains"}
        /\ pc'[p] = "trains" => split[p] = "valid"
    BY <1>0, <1>t, <2>1 DEF ResolversAlone, ListedBy, Split
  <2> QED BY <1>0, <2>1, <2>2 DEF ListedBy, AgainBy, Fresh, Added
<1>7. ASSUME Exit(p) \/ Kill(p)
      PROVE  ResolversAlone(p) /\ ListedBy(p)' /\ AgainBy(p)' /\ Added(p)
  <2>1. /\ pc' = [pc EXCEPT ![p] = "idle"] /\ listed' = [listed EXCEPT ![p] = Nothing]
        /\ indexing' = [indexing EXCEPT ![p] = {}] /\ names' = [names EXCEPT ![p] = Nothing]
        /\ UNCHANGED split
    BY <1>7 DEF Exit, Kill, Forget, Goto
  <2>2. /\ ResolversAlone(p) /\ pc'[p] = "idle" /\ names'[p]["train"] = {}
        /\ indexing'[p] = {}
    BY <1>t, <2>1 DEF ResolversAlone, Nothing, Split
  <2> QED BY <2>2 DEF ListedBy, AgainBy, Added
<1> QED BY <1>1, <1>2, <1>3, <1>4, <1>5, <1>6, <1>7 DEF Load

LEMMA NamesNext ==
  ASSUME TypeOK, NamesInv, [Next]_vars
  PROVE  NamesInv'
<1>1. CASE UNCHANGED resolver
  <2>1. \A p \in Process : Added(p) BY <1>1 DEF resolver, Added
  <2>2. OpenedStayReadable' BY <2>1, ReadableNext DEF NamesInv
  <2>3. OpenedAreListed' /\ OpenedAgain'
    BY <1>1 DEF resolver, NamesInv, OpenedAreListed, OpenedAgain, Fresh
  <2> QED BY <2>2, <2>3 DEF NamesInv
<1>2. ASSUME NEW p \in Process,
             \/ \E s \in {"train", "sync_only"} : Start(p, s)
             \/ Filter(p) \/ Plan(p) \/ SyncEnds(p) \/ Load(p) \/ Exit(p) \/ Kill(p)
      PROVE  NamesInv'
  <2>1. ResolversAlone(p) /\ ListedBy(p)' /\ AgainBy(p)' /\ Added(p) BY <1>2, NamesProcess
  <2>2. OpenedAreListed' /\ OpenedAgain' BY <2>1, NamesByProcess
  <2>3. \A q \in Process : Added(q) BY <2>1 DEF ResolversAlone, Added
  <2>4. OpenedStayReadable' BY <2>3, ReadableNext DEF NamesInv
  <2> QED BY <2>2, <2>4 DEF NamesInv
<1>3. ASSUME NEW p \in Process,
             \/ \E e \in Episode : SyncLine(p, e)
             \/ \E e \in Episode, f \in File : CopyFile(p, e, f) \/ CopyFails(p, e, f)
      PROVE  UNCHANGED resolver
  BY <1>3 DEF SyncLine, CopyFile, CopyFails
<1>4. CASE Outside BY <1>1, <1>4 DEF Outside, Publish, MarkDeleted, Replace, Upload
<1>5. CASE UNCHANGED vars BY <1>1, <1>5 DEF vars
<1> QED BY <1>1, <1>2, <1>3, <1>4, <1>5 DEF Next, Resolve, Sync
-----------------------------------------------------------------------------
LEMMA SyncInit == Init => SyncInv
<1> SUFFICES ASSUME Init PROVE SyncInv OBVIOUS
<1>1. TypeOK BY TypeInit
<1>2. BrokenExplained BY DEF Init, BrokenExplained
<1>3. FilesUnderWay BY DEF Init, FilesUnderWay, BeingCopied, NoFiles
<1>4. StoresAreDated BY DEF Init, StoresAreDated
<1>5. OpenedStayReadable BY DEF Init, OpenedStayReadable, Nothing, Split
<1>6. OpenedAreListed BY DEF Init, OpenedAreListed, Nothing, Split
<1>7. OpenedAgain BY DEF Init, OpenedAgain, Nothing, Split
<1> QED BY <1>1, <1>2, <1>3, <1>4, <1>5, <1>6, <1>7 DEF SyncInv, CopyInv, NamesInv

(* The invariant is inductive: types, copies and names (EpisodeResolver,     *)
(* S3EpisodeResolver).                                                       *)
THEOREM SyncInvariant == Spec => []SyncInv
<1>1. SyncInv /\ [Next]_vars => SyncInv'
  <2> SUFFICES ASSUME SyncInv, [Next]_vars PROVE SyncInv' OBVIOUS
  <2>1. TypeOK' BY TypeNext
  <2>2. CopyInv' BY <2>1, CopyNext DEF SyncInv
  <2>3. NamesInv' BY NamesNext DEF SyncInv
  <2> QED BY <2>1, <2>2, <2>3 DEF SyncInv
<1> QED BY SyncInit, <1>1, PTL DEF Spec

(* Every reachable state is well typed.                                      *)
THEOREM SyncTypeCorrect == Spec => []TypeOK
BY SyncInvariant, PTL DEF SyncInv

(* A directory in pieces is being filled, was cut short, or met a store that *)
(* was being replaced: overlapping syncs alone leave nothing broken          *)
(* (_sync_s3_to_local).                                                      *)
THEOREM BrokenAreExplained == Spec => []BrokenExplained
<1>1. SyncInv => BrokenExplained BY DEF SyncInv, CopyInv
<1> QED BY <1>1, SyncInvariant, PTL

(* Nothing is both trained on and held out by a process that read the same   *)
(* table and opened the same episodes twice (split_dataset_names).           *)
THEOREM LeaksAreExplained == Spec => []LeakExplained
<1>1. SyncInv => LeakExplained
  <2> SUFFICES ASSUME SyncInv, NEW p \in Process,
                      pc[p] = "trains", listed[p]["train"] = listed[p]["valid"]
               PROVE  /\ names[p]["train"] \subseteq names[p]["valid"]
                      /\ names[p]["train"] = names[p]["valid"] =>
                           Chosen(p, "train") \cap Chosen(p, "valid") = {}
    BY DEF LeakExplained
  <2>1. names[p]["train"] \subseteq names[p]["valid"]
    BY DEF SyncInv, NamesInv, OpenedAreListed, OpenedAgain
  <2>2. names[p]["train"] = names[p]["valid"] => Chosen(p, "train") \cap Chosen(p, "valid") = {}
    BY DEF Chosen, TrainNames
  <2> QED BY <2>1, <2>2
<1> QED BY <1>1, SyncInvariant, PTL

(* A directory that is there and that nobody fills is never repaired,        *)
(* refreshed or disturbed (_episode_already_present).                        *)
THEOREM SettledStay == Spec => SettledStays
<1>1. ASSUME TypeOK, [Next]_vars, NEW e \in Episode, Settled(e)
      PROVE  copy'[e] = copy[e] /\ Settled(e)'
  <2>1. e \in present /\ \A p \in Process : copying[p][e] = {} /\ e \notin lines[p]
    BY <1>1 DEF Settled, BeingCopied
  <2>2. e \in present' BY <1>1, <2>1, DirectoryGrows
  <2>3. CASE UNCHANGED <<copy, copying, lines>> BY <2>1, <2>2, <2>3 DEF Settled, BeingCopied
  <2>4. ASSUME NEW p \in Process, Plan(p) PROVE copy'[e] = copy[e] /\ Settled(e)'
    <3>1. copying' = copying /\ copy' = copy BY <2>4 DEF Plan, localVars
    <3>2. lines' = [lines EXCEPT ![p] = {d \in listed[p][split[p]] : ~AlreadyPresent(d)}]
      BY <2>4 DEF Plan
    <3>3. \A q \in Process : e \notin lines'[q]
      BY <1>1, <2>1, <3>2 DEF TypeOK, AlreadyPresent
    <3> QED BY <2>1, <2>2, <3>1, <3>3 DEF Settled, BeingCopied
  <2>5. ASSUME NEW p \in Process, NEW d \in Episode, SyncLine(p, d)
        PROVE  copy'[e] = copy[e] /\ Settled(e)'
    <3>1. /\ d \in lines[p] /\ lines' = [lines EXCEPT ![p] = @ \ {d}] /\ copy' = copy
          /\ copying' = copying \/ copying' = [copying EXCEPT ![p][d] = ToCopy(d)]
      BY <2>5 DEF SyncLine, localVars
    <3>2. d # e BY <2>1, <3>1
    <3>3. \A q \in Process : e \notin lines'[q] BY <1>1, <2>1, <3>1 DEF TypeOK
    <3>5. ASSUME copying' = [copying EXCEPT ![p][d] = ToCopy(d)], NEW q \in Process
          PROVE  copying'[q][e] = copying[q][e]
      BY <1>1, <3>2, <3>5 DEF TypeOK
    <3>4. \A q \in Process : copying'[q][e] = {} BY <2>1, <3>1, <3>5
    <3> QED BY <2>2, <3>1, <3>3, <3>4 DEF Settled, BeingCopied
  <2>6. ASSUME NEW p \in Process, NEW d \in Episode, NEW f \in File,
               CopyFile(p, d, f) \/ CopyFails(p, d, f)
        PROVE  copy'[e] = copy[e] /\ Settled(e)'
    <3>1. /\ f \in copying[p][d] /\ copying' = [copying EXCEPT ![p][d] = @ \ {f}]
          /\ lines' = lines
          /\ copy' = copy \/ copy' = [copy EXCEPT ![d][f] = bucket[d][f]]
      BY <2>6 DEF CopyFile, CopyFails
    <3>2. d # e BY <2>1, <3>1
    <3>3. copy'[e] = copy[e] BY <1>1, <3>1, <3>2 DEF TypeOK
    <3>4. \A q \in Process : copying'[q][e] = {} BY <1>1, <2>1, <3>1, <3>2 DEF TypeOK
    <3>5. \A q \in Process : e \notin lines'[q] BY <2>1, <3>1
    <3> QED BY <2>2, <3>3, <3>4, <3>5 DEF Settled, BeingCopied
  <2>7. ASSUME NEW p \in Process, Kill(p) PROVE copy'[e] = copy[e] /\ Settled(e)'
    <3>1. /\ copy' = copy /\ lines' = [lines EXCEPT ![p] = {}]
          /\ copying' = [copying EXCEPT ![p] = NoFiles]
      BY <2>7 DEF Kill, localVars
    <3>2. \A q \in Process : copying'[q][e] = {} /\ e \notin lines'[q]
      BY <1>1, <2>1, <3>1 DEF TypeOK, NoFiles
    <3> QED BY <2>2, <3>1, <3>2 DEF Settled, BeingCopied
  <2>8. ASSUME NEW p \in Process,
               \/ \E s \in {"train", "sync_only"} : Start(p, s)
               \/ Filter(p) \/ SyncEnds(p) \/ Load(p) \/ Exit(p)
        PROVE  UNCHANGED <<copy, copying, lines>>
    BY <2>8 DEF Start, Filter, SyncEnds, Load, ListDirectory, OpenEpisode, Choose, Exit,
                localVars, s5cmd
  <2>9. CASE Outside
    BY <2>3, <2>9 DEF Outside, Publish, MarkDeleted, Replace, Upload, localVars, s5cmd
  <2>10. CASE UNCHANGED vars BY <2>3, <2>10 DEF vars, localVars, s5cmd
  <2> QED BY <1>1, <2>3, <2>4, <2>5, <2>6, <2>7, <2>8, <2>9, <2>10 DEF Next, Resolve, Sync
<1>2. TypeOK /\ [Next]_vars =>
        [\A e \in Episode : Settled(e) => copy'[e] = copy[e] /\ Settled(e)']_vars
  BY <1>1
<1> QED BY <1>2, SyncTypeCorrect, PTL DEF Spec, SettledStays
=============================================================================
