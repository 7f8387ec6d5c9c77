-------------------------- MODULE ZarrWriterProofs ---------------------------
(***************************************************************************)
(* Proofs about ZarrWriter and EpisodeStore: what the writer publishes     *)
(* implements EpisodeLog, also while annotation jobs and data loaders work *)
(* on the published store.                                                 *)
(***************************************************************************)
EXTENDS EpisodeStore, WellFoundedInduction, NaturalsInduction, TLAPS

(* The frame count rounded up is not smaller.                                *)
LEMMA PaddedCovers ==
  ASSUME NEW n \in Nat
  PROVE  PaddedFrames(n) \in Nat /\ n <= PaddedFrames(n)
<1>1. ChunkTimesteps \in Nat \ {0}
  BY WriterAssumption
<1>2. n % ChunkTimesteps \in Nat /\ n % ChunkTimesteps < ChunkTimesteps
  BY <1>1, SMT
<1>3. QED
  BY <1>1, <1>2 DEF PaddedFrames

(* Where the writer is and how far the handle is, together.                  *)
Phases ==
  /\ pc # "idle" => meta = 0 /\ cursor = Len(given)
  /\ meta # 0 => pc = "idle" /\ meta = cursor /\ cursor = Len(given)
  /\ pc \in {"close", "bulk", "meta"} => cursor # 0
  /\ pc \in {"close", "bulk", "meta"} /\ total # 0 => cursor = total
  /\ pc = "bulk" => total # 0
  /\ meta # 0 /\ total # 0 => cursor = total
  /\ pc = "body" /\ ~initialized => cursor = 0 /\ keys = {}
  /\ pc = "body" /\ total # 0 => cursor <= total
  /\ pc = "body" /\ total = 0 /\ initialized => cursor <= capacity
  /\ pc = "meta" => pending = {}

(* The length the arrays have in the end.                                    *)
FinalLength == IF total = 0 THEN cursor ELSE PaddedFrames(total)

Lengths ==
  /\ pc = "body" => \A k \in keys :
       length[k] = IF total = 0 THEN capacity ELSE PaddedFrames(total)
  /\ pc = "close" => \A k \in keys :
       length[k] = FinalLength \/ (total = 0 /\ k \in pending)
  /\ pc \in {"bulk", "meta"} \/ meta # 0 => \A k \in keys : length[k] = FinalLength

(* What a call took over is in its cell, unless write() has still to come to *)
(* that array or the store was given up.                                     *)
Kept ==
  \A i \in 1..Len(given) : \A k \in Given(given[i]) :
    \/ k \in keys /\ data[k][i] = given[i][k]
    \/ pc = "bulk" /\ k \in pending
    \/ pc = "idle" /\ meta = 0

(* A cell that is not blank was given, was spilled or is padding.            *)
Filled ==
  \A k \in Key, i \in Index :
    \/ data[k][i] = 0
    \/ <<k, i>> \in spilled
    \/ i <= Len(given) /\ k \in Given(given[i])
    \/ cursor < i /\ pc # "body"
    \/ pc = "idle" /\ meta = 0

WInv == TypeOK /\ Phases /\ Lengths /\ Kept /\ Filled
-----------------------------------------------------------------------------
LEMMA InitWInv == Init => WInv
<1> SUFFICES ASSUME Init
             PROVE  WInv
  OBVIOUS
<1> USE DEF Init
<1>1. TypeOK
  <2>1. given \in Seq([Key -> Cell])
    OBVIOUS
  <2>2. data \in [Key -> [Index -> Cell]]
    BY DEF NoCells, Cell
  <2>3. 0 \in 0..MaxFrames /\ 0 \in 0..MaxOpens /\ 0 \in 0..MaxFaults
    BY WriterAssumption
  <2>4. length \in [Key -> Nat]
    OBVIOUS
  <2>5. annotations \in Annotations /\ pc \in PC /\ 0 \in Nat
    BY DEF Annotations, PC
  <2>6. QED
    BY <2>1, <2>2, <2>3, <2>4, <2>5 DEF TypeOK
<1>2. Phases
  BY DEF Phases
<1>3. Lengths
  BY DEF Lengths
<1>4. Kept
  BY DEF Kept
<1>5. Filled
  BY DEF Filled, NoCells
<1>6. QED
  BY <1>1, <1>2, <1>3, <1>4, <1>5 DEF WInv

(* The frames of a batch.                                                    *)
LEMMA BatchType ==
  ASSUME NEW n \in Nat, NEW b \in Batch(n)
  PROVE  /\ b \in Seq([Key -> Cell]) /\ Len(b) \in 1..n
         /\ \A i \in 1..Len(b) : b[i] \in [Key -> Cell] /\ Given(b[i]) = Given(b[1])
         /\ Given(b[1]) \subseteq Key
<1>1. PICK m \in 1..n : b \in [1..m -> Frames]
  BY DEF Batch
<1>2. Frames \subseteq [Key -> Cell]
  BY WriterAssumption DEF Cell
<1>3. b \in Seq([Key -> Cell]) /\ Len(b) = m /\ DOMAIN b = 1..m
  BY <1>1, <1>2
<1>4. \A i \in 1..m : b[i] \in [Key -> Cell] /\ Given(b[i]) = Given(b[1])
  BY <1>1, <1>2, <1>3 DEF Batch
<1>5. QED
  BY <1>3, <1>4 DEF Given

LEMMA RoomType ==
  ASSUME TypeOK, NEW ks \in SUBSET Key, NEW end \in Nat, MakeRoom(ks, end)
  PROVE  /\ keys' = Schema(ks) /\ keys' \subseteq Key
         /\ length' \in [Key -> Nat] /\ capacity' \in Nat /\ initialized' = TRUE
         /\ total = 0 => end <= capacity'
         /\ \A k \in keys' : length'[k] = IF total = 0 THEN capacity' ELSE PaddedFrames(total)
         /\ Fits(end) => \A k \in keys' : end <= length'[k]
<1>1. total \in Nat /\ capacity \in Nat /\ keys \subseteq Key /\ MaxFrames \in Nat
  BY WriterAssumption DEF TypeOK
<1>2. PaddedFrames(total) \in Nat /\ total <= PaddedFrames(total)
  BY <1>1, PaddedCovers
<1>3. InitialCapacity \in Nat
  <2>1. ChunkTimesteps \in Nat
    BY WriterAssumption
  <2>2. QED
    BY <1>1, <2>1 DEF InitialCapacity, Larger
<1>4. Grown(end) \in Nat /\ end <= Grown(end)
  BY <1>3 DEF Grown, Larger
<1>5. Schema(ks) \subseteq Key
  BY <1>1 DEF Schema
<1>6. keys' = Schema(ks) /\ initialized' = TRUE
  BY DEF MakeRoom
<1>7. CASE total = 0
  BY <1>1, <1>4, <1>5, <1>6, <1>7 DEF MakeRoom
<1>8. CASE total # 0
  <2>1. length' = [k \in Key |-> IF k \notin Schema(ks) THEN 0 ELSE PaddedFrames(total)]
    BY <1>8 DEF MakeRoom
  <2>2. capacity' = capacity
    BY <1>8 DEF MakeRoom
  <2>3. Fits(end) => end <= PaddedFrames(total)
    BY <1>1, <1>2, <1>8 DEF Fits
  <2>4. QED
    BY <1>1, <1>2, <1>5, <1>6, <1>8, <2>1, <2>2, <2>3
<1>9. QED
  BY <1>7, <1>8

LEMMA PutType ==
  ASSUME TypeOK, NEW ks \in SUBSET Key, NEW n \in Nat, NEW b \in Batch(n), Put(ks, b)
  PROVE  data' \in [Key -> [Index -> Cell]]
<1>1. b \in Seq([Key -> Cell])
  BY BatchType
<1>2. data \in [Key -> [Index -> Cell]] /\ cursor \in Nat
  BY WriterAssumption DEF TypeOK
<1>3. \A k \in Key, i \in Index :
        cursor < i /\ i <= cursor + Len(b) => b[i - cursor] \in [Key -> Cell]
  <2>1. Index \subseteq Nat
    BY DEF Index
  <2>2. Len(b) \in Nat
    BY <1>1
  <2>3. SUFFICES ASSUME NEW i \in Index, cursor < i, i <= cursor + Len(b)
                 PROVE  b[i - cursor] \in [Key -> Cell]
    OBVIOUS
  <2>4. i - cursor \in 1..Len(b)
    BY <1>2, <2>1, <2>2, <2>3
  <2>5. QED
    BY <1>1, <2>4
<1>4. \A k \in Key, i \in Index :
        (IF k \in ks /\ cursor < i /\ i <= cursor + Len(b) /\ i <= length'[k]
         THEN b[i - cursor][k] ELSE data[k][i]) \in Cell
  BY <1>2, <1>3
<1>5. QED
  BY <1>4 DEF Put

LEMMA TypeNext ==
  ASSUME TypeOK, Phases, [Next]_vars
  PROVE  TypeOK'
<1>0. /\ MaxFrames \in Nat /\ MaxBatch \in Nat /\ MaxOpens \in Nat /\ MaxFaults \in Nat
      /\ PC = {"idle", "body", "close", "bulk", "meta"}
      /\ \A n : n \in 0..MaxFaults /\ n < MaxFaults => n + 1 \in 0..MaxFaults
      /\ \A n : n \in 0..MaxOpens /\ n < MaxOpens => n + 1 \in 0..MaxOpens
  BY WriterAssumption DEF PC
<1>e. ASSUME EraseStore
      PROVE  /\ keys' \subseteq Key /\ length' \in [Key -> Nat]
             /\ data' \in [Key -> [Index -> Cell]]
             /\ annotations' \in Annotations /\ meta' \in 0..MaxFrames
             /\ spilled' \subseteq Key \X Nat /\ opens' \in 0..MaxOpens
  <2>1. data' \in [Key -> [Index -> Cell]]
    BY <1>e DEF EraseStore, NoCells, Cell
  <2>2. QED
    <3>1. opens' \in 0..MaxOpens
      BY <1>0, <1>e DEF EraseStore, TypeOK
    <3>2. length' \in [Key -> Nat] /\ spilled' = {} /\ keys' = {} /\ meta' = 0
      BY <1>e DEF EraseStore
    <3>3. QED
      BY <1>0, <1>e, <2>1, <3>1, <3>2 DEF EraseStore, Annotations
<1>1. ASSUME NEW n \in 0..MaxFrames, Enter(n)
      PROVE  TypeOK'
  <2>1. EraseStore
    BY <1>1 DEF Enter
  <2>2. given' \in Seq([Key -> Cell])
    BY <1>1 DEF Enter
  <2>3. QED
    <3>1. /\ total' \in 0..MaxFrames /\ initialized' \in BOOLEAN
          /\ capacity' \in Nat /\ cursor' \in 0..MaxFrames /\ pending' \subseteq Key
          /\ pc' \in PC /\ faults' \in 0..MaxFaults
      <4>1. 0 \in 0..MaxFrames /\ n \in Nat
        BY <1>0
      <4>2. pc' \in PC /\ faults' \in 0..MaxFaults
        BY <1>0, <1>1 DEF Enter, TypeOK
      <4>3. QED
        BY <1>1, <4>1, <4>2 DEF Enter
    <3>2. QED
      BY <1>e, <2>1, <2>2, <3>1 DEF TypeOK
<1>2. ASSUME NEW b \in Batch(MaxFrames), Write(b)
      PROVE  TypeOK'
  <2>1. EraseStore
    BY <1>2 DEF Write
  <2>2. b \in Seq([Key -> Cell]) /\ Len(b) \in 1..MaxFrames /\ Given(b[1]) \subseteq Key
    BY <1>0, BatchType
  <2>3. QED
    BY <1>0, <1>2, <1>e, <2>1, <2>2 DEF Write, TypeOK
<1>3. ASSUME NEW k \in Key, WriteArray(k)
      PROVE  TypeOK'
  <2>1. total \in Nat /\ PaddedFrames(total) \in Nat
    <3>1. total \in Nat BY <1>0 DEF TypeOK
    <3> QED BY <3>1, PaddedCovers
  <2>2. total \in 1..Len(given) /\ Len(given) = total
    BY <1>0, <1>3, <2>1 DEF WriteArray, Phases, TypeOK
  <2>3. \A i \in 1..total : given[i][k] \in Cell
    BY <2>2 DEF TypeOK
  <2>4. data' \in [Key -> [Index -> Cell]]
    <3>1. \A i \in Index : 1 <= i
      BY DEF Index
    <3>2. \A i \in Index : (IF i <= total THEN given[i][k]
                           ELSE IF k \in Image /\ i <= PaddedFrames(total)
                                THEN given[total][k] ELSE 0) \in Cell
      BY <2>1, <2>2, <2>3, <3>1 DEF Cell, Index
    <3>3. QED
      BY <1>3, <3>2 DEF WriteArray, TypeOK
  <2>5. length' \in [Key -> Nat]
    BY <1>3, <2>1 DEF WriteArray, TypeOK
  <2>6. QED
    BY <1>3, <2>4, <2>5 DEF WriteArray, TypeOK, bounds
<1>4. ASSUME NEW b \in Batch(MaxBatch), AddFrames(b)
      PROVE  TypeOK'
  <2>1. b \in Seq([Key -> Cell]) /\ Len(b) \in 1..MaxBatch /\ Given(b[1]) \in SUBSET Key
    BY <1>0, BatchType
  <2>2. cursor + Len(b) \in 0..MaxFrames /\ cursor + Len(b) \in Nat
    BY <1>0, <1>4, <2>1 DEF AddFrames, TypeOK
  <2>3. MakeRoom(Given(b[1]), cursor + Len(b)) /\ Put(Given(b[1]), b)
    BY <1>4 DEF AddFrames
  <2>4. /\ keys' \subseteq Key /\ length' \in [Key -> Nat]
        /\ capacity' \in Nat /\ initialized' = TRUE
    BY <2>1, <2>2, <2>3, RoomType
  <2>5. data' \in [Key -> [Index -> Cell]]
    BY <1>0, <2>1, <2>3, PutType
  <2>6. given' \in Seq([Key -> Cell])
    BY <1>4, <2>1 DEF AddFrames, TypeOK
  <2>7. QED
    BY <1>4, <2>2, <2>4, <2>5, <2>6 DEF AddFrames, bounds, TypeOK
<1>5. ASSUME NEW b \in Batch(MaxBatch), NEW done \in SUBSET Given(b[1]), AddRaises(b, done)
      PROVE  TypeOK'
  <2>1. b \in Seq([Key -> Cell]) /\ Len(b) \in 1..MaxBatch /\ Given(b[1]) \in SUBSET Key
    BY <1>0, BatchType
  <2>2. cursor + Len(b) \in Nat
    BY <1>0, <1>5, <2>1 DEF AddRaises, TypeOK
  <2>3. MakeRoom(Given(b[1]), cursor + Len(b)) /\ Put(done, b)
    BY <1>5 DEF AddRaises
  <2>4. /\ keys' \subseteq Key /\ length' \in [Key -> Nat]
        /\ capacity' \in Nat /\ initialized' = TRUE
    BY <2>1, <2>2, <2>3, RoomType
  <2>5. data' \in [Key -> [Index -> Cell]]
    BY <1>0, <2>1, <2>3, PutType
  <2>6. spilled' \subseteq Key \X Nat
    <3>1. (cursor + 1)..(cursor + Len(b)) \subseteq Nat
      BY <1>0, <2>1 DEF TypeOK
    <3>2. done \X ((cursor + 1)..(cursor + Len(b))) \subseteq Key \X Nat
      BY <2>1, <3>1
    <3>3. QED
      BY <1>5, <3>2 DEF AddRaises, TypeOK
  <2>7. faults' \in 0..MaxFaults /\ pc' \in PC
    BY <1>0, <1>5 DEF AddRaises, TypeOK
  <2>8. QED
    BY <1>5, <2>4, <2>5, <2>6, <2>7 DEF AddRaises, TypeOK
<1>6. ASSUME Exit
      PROVE  TypeOK'
  <2>1. ToFinish \subseteq Key
    BY DEF ToFinish, TypeOK
  <2>2. QED
    BY <1>0, <1>6, <2>1 DEF Exit, store, bounds, TypeOK
<1>7. ASSUME NEW k \in Key, Finish(k)
      PROVE  TypeOK'
  <2>1. CASE Trim(k)
    BY <1>0, <1>7, <2>1 DEF Finish, Trim, bounds, TypeOK
  <2>2. CASE Pad(k)
    <3>1. total # 0 /\ total \in Index
      BY <1>0, <2>2, WriterAssumption DEF Pad, Index, TypeOK
    <3>2. data' \in [Key -> [Index -> Cell]]
      BY <2>2, <3>1 DEF Pad, TypeOK
    <3>3. QED
      BY <1>0, <1>7, <2>2, <3>2 DEF Finish, Pad, bounds, TypeOK
  <2>3. QED
    BY <1>7, <2>1, <2>2 DEF Finish
<1>8. ASSUME Annotate
      PROVE  TypeOK'
  BY <1>0, <1>8 DEF Annotate, handle, bounds, Annotations, TypeOK
<1>9. ASSUME WriteMetadata
      PROVE  TypeOK'
  BY <1>0, <1>9 DEF WriteMetadata, handle, bounds, TypeOK
<1>10. ASSUME Die
       PROVE  TypeOK'
  BY <1>0, <1>10 DEF Die, store, handle, TypeOK
<1>11. ASSUME UNCHANGED vars
       PROVE  TypeOK'
  BY <1>11 DEF vars, store, handle, bounds, TypeOK
<1>12. QED
  BY <1>1, <1>2, <1>3, <1>4, <1>5, <1>6, <1>7, <1>8, <1>9, <1>10, <1>11
     DEF Next, Begin, Add, Close

(* A batch stands behind the frames given so far.                            *)
LEMMA GivenGrows ==
  ASSUME TypeOK, NEW n \in Nat, NEW b \in Batch(n), given' = given \o b
  PROVE  /\ Len(given') = Len(given) + Len(b)
         /\ \A i \in 1..Len(given) : given'[i] = given[i]
         /\ \A i \in (Len(given) + 1)..(Len(given) + Len(b)) : given'[i] = b[i - Len(given)]
<1>1. given \in Seq([Key -> Cell]) /\ b \in Seq([Key -> Cell])
  BY BatchType DEF TypeOK
<1>2. QED
  BY <1>1

LEMMA PhasesNext ==
  ASSUME TypeOK, Phases, [Next]_vars
  PROVE  Phases'
<1>0. MaxFrames \in Nat /\ MaxBatch \in Nat /\ cursor \in Nat /\ total \in Nat
  BY WriterAssumption DEF TypeOK
<1>1. ASSUME NEW n \in 0..MaxFrames, Enter(n)
      PROVE  Phases'
  BY <1>0, <1>1 DEF Enter, EraseStore, Phases
<1>2. ASSUME NEW b \in Batch(MaxFrames), Write(b)
      PROVE  Phases'
  <2>1. Len(b) \in Nat /\ Len(b) # 0
    BY <1>0, BatchType
  <2>2. QED
    BY <1>0, <1>2, <2>1 DEF Write, EraseStore, Phases
<1>3. ASSUME NEW k \in Key, WriteArray(k)
      PROVE  Phases'
  BY <1>3 DEF WriteArray, Phases
<1>4. ASSUME NEW b \in Batch(MaxBatch), AddFrames(b)
      PROVE  Phases'
  <2>1. b \in Seq([Key -> Cell]) /\ Len(b) \in Nat /\ Given(b[1]) \in SUBSET Key
    BY <1>0, BatchType
  <2>2. cursor + Len(b) \in Nat
    BY <1>0, <2>1
  <2>3. MakeRoom(Given(b[1]), cursor + Len(b))
    BY <1>4 DEF AddFrames
  <2>4. initialized' = TRUE /\ (total = 0 => cursor + Len(b) <= capacity')
    BY <2>1, <2>2, <2>3, RoomType
  <2>5. pc = "body" /\ pc' = pc /\ meta = 0 /\ meta' = meta /\ total' = total
    BY <1>4 DEF AddFrames, Phases
  <2>6. cursor' = cursor + Len(b) /\ (total # 0 => cursor' <= total)
    BY <1>4 DEF AddFrames, Fits
  <2>7. Len(given') = cursor'
    <3>1. Len(given') = Len(given) + Len(b)
      BY <1>0, <1>4, GivenGrows DEF AddFrames
    <3>2. Len(given) = cursor
      BY <2>5 DEF Phases
    <3>3. QED
      BY <2>6, <3>1, <3>2
  <2>8. QED
    BY <2>4, <2>5, <2>6, <2>7 DEF Phases
<1>5. ASSUME NEW b \in Batch(MaxBatch), NEW done \in SUBSET Given(b[1]), AddRaises(b, done)
      PROVE  Phases'
  <2>1. Len(b) \in Nat /\ Given(b[1]) \in SUBSET Key
    BY <1>0, BatchType
  <2>2. cursor + Len(b) \in Nat /\ cursor <= cursor + Len(b)
    BY <1>0, <2>1
  <2>3. MakeRoom(Given(b[1]), cursor + Len(b))
    BY <1>5 DEF AddRaises
  <2>4. initialized' = TRUE /\ (total = 0 => cursor + Len(b) <= capacity') /\ capacity' \in Nat
    BY <2>1, <2>2, <2>3, RoomType
  <2>5. /\ pc = "body" /\ pc' \in {"body", "idle"} /\ meta = 0 /\ meta' = meta
        /\ total' = total /\ cursor' = cursor /\ given' = given
    BY <1>5 DEF AddRaises, Phases
  <2>6. cursor = Len(given) /\ (total # 0 => cursor <= total)
    BY <2>5 DEF Phases
  <2>7. total = 0 => cursor <= capacity'
    BY <1>0, <2>2, <2>4
  <2>8. QED
    BY <2>4, <2>5, <2>6, <2>7 DEF Phases
<1>6. ASSUME Exit
      PROVE  Phases'
  BY <1>6 DEF Exit, store, CountIsRight, Phases
<1>7. ASSUME NEW k \in Key, Finish(k)
      PROVE  Phases'
  BY <1>7 DEF Finish, Phases
<1>8. ASSUME Annotate
      PROVE  Phases'
  BY <1>8 DEF Annotate, handle, Phases
<1>9. ASSUME WriteMetadata
      PROVE  Phases'
  BY <1>9 DEF WriteMetadata, handle, Phases
<1>10. ASSUME Die
       PROVE  Phases'
  BY <1>10 DEF Die, store, handle, Phases
<1>11. ASSUME UNCHANGED vars
       PROVE  Phases'
  BY <1>11 DEF vars, store, handle, Phases
<1>12. QED
  BY <1>1, <1>2, <1>3, <1>4, <1>5, <1>6, <1>7, <1>8, <1>9, <1>10, <1>11
     DEF Next, Begin, Add, Close

LEMMA LengthsNext ==
  ASSUME TypeOK, Phases, Lengths, [Next]_vars
  PROVE  Lengths'
<1>0. MaxFrames \in Nat /\ MaxBatch \in Nat /\ cursor \in Nat
  BY WriterAssumption DEF TypeOK
<1>1. ASSUME NEW n \in 0..MaxFrames, Enter(n)
      PROVE  Lengths'
  BY <1>1 DEF Enter, EraseStore, Lengths
<1>2. ASSUME NEW b \in Batch(MaxFrames), Write(b)
      PROVE  Lengths'
  BY <1>2 DEF Write, EraseStore, Lengths
<1>3. ASSUME NEW k \in Key, WriteArray(k)
      PROVE  Lengths'
  BY <1>3 DEF WriteArray, Lengths, FinalLength, PaddedFrames, Phases, TypeOK
<1>4. ASSUME NEW b \in Batch(MaxBatch), AddFrames(b)
      PROVE  Lengths'
  <2>1. Len(b) \in Nat /\ Given(b[1]) \in SUBSET Key
    BY <1>0, BatchType
  <2>2. MakeRoom(Given(b[1]), cursor + Len(b)) /\ cursor + Len(b) \in Nat
    BY <1>0, <1>4, <2>1 DEF AddFrames
  <2>3. \A k \in keys' : length'[k] = IF total = 0 THEN capacity' ELSE PaddedFrames(total)
    BY <2>1, <2>2, RoomType
  <2>4. pc' = "body" /\ meta' = 0 /\ total' = total
    BY <1>4 DEF AddFrames, Phases
  <2>5. QED
    BY <2>3, <2>4 DEF Lengths, PaddedFrames
<1>5. ASSUME NEW b \in Batch(MaxBatch), NEW done \in SUBSET Given(b[1]), AddRaises(b, done)
      PROVE  Lengths'
  <2>1. Len(b) \in Nat /\ Given(b[1]) \in SUBSET Key
    BY <1>0, BatchType
  <2>2. MakeRoom(Given(b[1]), cursor + Len(b)) /\ cursor + Len(b) \in Nat
    BY <1>0, <1>5, <2>1 DEF AddRaises
  <2>3. \A k \in keys' : length'[k] = IF total = 0 THEN capacity' ELSE PaddedFrames(total)
    BY <2>1, <2>2, RoomType
  <2>4. pc' \in {"body", "idle"} /\ meta' = 0 /\ total' = total
    BY <1>5 DEF AddRaises, Phases
  <2>5. QED
    BY <2>3, <2>4 DEF Lengths, PaddedFrames
<1>6. ASSUME Exit
      PROVE  Lengths'
  <2>1. pc = "body" /\ meta' = 0 /\ UNCHANGED <<keys, length, total, cursor>>
    BY <1>6 DEF Exit, store, Phases
  <2>2. pc' = "close" => total # 0 \/ pending' = keys
    BY <1>6 DEF Exit, ToFinish
  <2>3. pc' \in {"close", "idle"}
    BY <1>6 DEF Exit
  <2>4. QED
    BY <2>1, <2>2, <2>3 DEF Lengths, FinalLength, PaddedFrames
<1>7. ASSUME NEW k \in Key, Finish(k)
      PROVE  Lengths'
  <2>1. pc = "close" /\ pc' = "close" /\ meta' = 0 /\ UNCHANGED <<keys, total, cursor>>
    BY <1>7 DEF Finish, Phases
  <2>2. CASE Trim(k)
    BY <1>7, <2>1, <2>2 DEF Finish, Trim, Lengths, FinalLength, TypeOK
  <2>3. CASE Pad(k)
    BY <1>7, <2>1, <2>3 DEF Finish, Pad, Lengths, FinalLength, PaddedFrames
  <2>4. QED
    BY <1>7, <2>2, <2>3 DEF Finish
<1>8. ASSUME Annotate
      PROVE  Lengths'
  BY <1>8 DEF Annotate, handle, Lengths, FinalLength, PaddedFrames, Phases
<1>9. ASSUME WriteMetadata
      PROVE  Lengths'
  BY <1>9 DEF WriteMetadata, handle, Lengths, FinalLength, PaddedFrames
<1>10. ASSUME Die
       PROVE  Lengths'
  BY <1>10 DEF Die, store, handle, Lengths, Phases
<1>11. ASSUME UNCHANGED vars
       PROVE  Lengths'
  BY <1>11 DEF vars, store, handle, Lengths, FinalLength, PaddedFrames
<1>12. QED
  BY <1>1, <1>2, <1>3, <1>4, <1>5, <1>6, <1>7, <1>8, <1>9, <1>10, <1>11
     DEF Next, Begin, Add, Close

(* What Put changes: cells behind the cursor only.                           *)
LEMMA PutLeaves ==
  ASSUME TypeOK, NEW ks, NEW b, Put(ks, b), NEW k \in Key, NEW i \in Index
  PROVE  /\ i <= cursor => data'[k][i] = data[k][i]
         /\ k \notin ks => data'[k][i] = data[k][i]
         /\ ~(i <= cursor + Len(b)) => data'[k][i] = data[k][i]
         /\ k \in ks /\ cursor < i /\ i <= cursor + Len(b) /\ i <= length'[k]
              => data'[k][i] = b[i - cursor][k]
<1>1. cursor \in Nat /\ i \in Nat
  BY WriterAssumption DEF TypeOK, Index
<1>2. data'[k][i] = IF k \in ks /\ cursor < i /\ i <= cursor + Len(b) /\ i <= length'[k]
                    THEN b[i - cursor][k] ELSE data[k][i]
  BY DEF Put
<1>3. QED
  BY <1>1, <1>2

LEMMA KeptNext ==
  ASSUME TypeOK, Phases, Lengths, Kept, [Next]_vars
  PROVE  Kept'
<1>0. /\ MaxFrames \in Nat /\ MaxBatch \in Nat /\ cursor \in Nat /\ Len(given) \in Nat
      /\ 1..MaxFrames \subseteq Index
  BY WriterAssumption DEF TypeOK, Index
<1>1. ASSUME NEW n \in 0..MaxFrames, Enter(n)
      PROVE  Kept'
  BY <1>1 DEF Enter, Kept
<1>2. ASSUME NEW b \in Batch(MaxFrames), Write(b)
      PROVE  Kept'
  <2>1. \A i \in 1..Len(b) : Given(b[i]) = Given(b[1])
    BY <1>0, BatchType
  <2>2. pc' = "bulk" /\ pending' = Given(b[1]) /\ given' = b
    BY <1>2 DEF Write
  <2>3. QED
    BY <2>1, <2>2 DEF Kept, Given
<1>3. ASSUME NEW k \in Key, WriteArray(k)
      PROVE  Kept'
  <2>1. pc = "bulk" /\ Len(given) = total /\ total <= MaxFrames /\ total \in Nat
    BY <1>0, <1>3 DEF WriteArray, Phases, TypeOK
  <2>2. ASSUME NEW i \in 1..Len(given)
        PROVE  data'[k][i] = given[i][k]
    BY <1>0, <1>3, <2>1 DEF WriteArray, TypeOK
  <2>3. \A l \in Key : l # k => data'[l] = data[l]
    BY <1>3 DEF WriteArray, TypeOK
  <2>4. keys' = keys \cup {k} /\ pending' = pending \ {k} /\ UNCHANGED <<given, pc>>
    BY <1>3 DEF WriteArray
  <2>5. QED
    BY <2>1, <2>2, <2>3, <2>4 DEF Kept, Given
<1>4. ASSUME NEW b \in Batch(MaxBatch), AddFrames(b)
      PROVE  Kept'
  <2>1. /\ Len(b) \in 1..MaxBatch /\ Given(b[1]) \in SUBSET Key
        /\ \A i \in 1..Len(b) : Given(b[i]) = Given(b[1])
    BY <1>0, BatchType
  <2>2. /\ MakeRoom(Given(b[1]), cursor + Len(b)) /\ Put(Given(b[1]), b)
        /\ cursor + Len(b) \in Nat /\ cursor + Len(b) <= MaxFrames
        /\ Fits(cursor + Len(b)) /\ Given(b[1]) \subseteq Schema(Given(b[1]))
        /\ given' = given \o b
    BY <1>0, <1>4, <2>1 DEF AddFrames
  <2>3. /\ keys' = Schema(Given(b[1]))
        /\ \A k \in keys' : cursor + Len(b) <= length'[k]
    BY <2>1, <2>2, RoomType
  <2>4. pc = "body" /\ Len(given) = cursor
    BY <1>4 DEF AddFrames, Phases
  <2>5. keys \subseteq keys'
    BY <2>3, <2>4 DEF Schema, Phases
  <2>6. /\ Len(given') = cursor + Len(b)
        /\ \A i \in 1..cursor : given'[i] = given[i]
        /\ \A i \in (cursor + 1)..(cursor + Len(b)) : given'[i] = b[i - cursor]
    BY <1>0, <2>2, <2>4, GivenGrows
  <2>7. ASSUME NEW i \in 1..cursor, NEW k \in Given(given'[i])
        PROVE  k \in keys' /\ data'[k][i] = given'[i][k]
    <3>1. given'[i] = given[i] /\ k \in Key /\ k \in Given(given[i])
      BY <2>6, <2>7 DEF Given
    <3>2. k \in keys /\ data[k][i] = given[i][k]
      BY <2>4, <3>1 DEF Kept
    <3>3. i \in Index /\ i <= cursor
      BY <1>0, <2>1, <2>2
    <3>4. data'[k][i] = data[k][i]
      BY <2>2, <3>1, <3>3, PutLeaves
    <3>5. QED
      BY <2>5, <3>1, <3>2, <3>4
  <2>8. ASSUME NEW i \in (cursor + 1)..(cursor + Len(b)), NEW k \in Given(given'[i])
        PROVE  k \in keys' /\ data'[k][i] = given'[i][k]
    <3>1. i - cursor \in 1..Len(b) /\ i \in Index /\ cursor < i /\ i <= cursor + Len(b)
      BY <1>0, <2>1, <2>2, SMTT(30)
    <3>2. given'[i] = b[i - cursor] /\ k \in Key /\ k \in Given(b[1])
      BY <2>1, <2>6, <2>8, <3>1 DEF Given
    <3>3. k \in keys'
      BY <2>2, <2>3, <3>2
    <3>4. i <= length'[k]
      <4>1. length'[k] \in Nat
        BY <2>1, <2>2, <3>2, RoomType
      <4>2. QED
        BY <1>0, <2>1, <2>3, <3>1, <3>3, <4>1
    <3>5. data'[k][i] = b[i - cursor][k]
      BY <2>2, <3>1, <3>2, <3>4, PutLeaves
    <3>6. QED
      BY <3>2, <3>3, <3>5
  <2>9. \A i \in 1..Len(given') : i \in 1..cursor \/ i \in (cursor + 1)..(cursor + Len(b))
    BY <1>0, <2>1, <2>6
  <2>10. QED
    BY <2>7, <2>8, <2>9 DEF Kept, Given
<1>5. ASSUME NEW b \in Batch(MaxBatch), NEW done \in SUBSET Given(b[1]), AddRaises(b, done)
      PROVE  Kept'
  <2>1. Len(b) \in Nat /\ Given(b[1]) \in SUBSET Key
    BY <1>0, BatchType
  <2>2. /\ MakeRoom(Given(b[1]), cursor + Len(b)) /\ Put(done, b)
        /\ cursor + Len(b) \in Nat /\ given' = given
    BY <1>0, <1>5, <2>1 DEF AddRaises
  <2>3. keys' = Schema(Given(b[1]))
    BY <2>1, <2>2, RoomType
  <2>4. pc = "body" /\ Len(given) = cursor /\ cursor <= MaxFrames
    BY <1>0, <1>5 DEF AddRaises, Phases, TypeOK
  <2>5. keys \subseteq keys'
    BY <2>3, <2>4 DEF Schema, Phases
  <2>6. ASSUME NEW i \in 1..Len(given), NEW k \in Given(given[i])
        PROVE  k \in keys' /\ data'[k][i] = given[i][k]
    <3>1. k \in Key /\ k \in keys /\ data[k][i] = given[i][k]
      BY <2>4, <2>6 DEF Kept, Given
    <3>2. i \in Index /\ i <= cursor
      BY <1>0, <2>4
    <3>3. data'[k][i] = data[k][i]
      BY <2>2, <3>1, <3>2, PutLeaves
    <3>4. QED
      BY <2>5, <3>1, <3>3
  <2>7. QED
    BY <2>2, <2>6 DEF Kept, Given
<1>6. ASSUME Exit
      PROVE  Kept'
  BY <1>6 DEF Exit, store, Kept, Given, Phases
<1>7. ASSUME NEW l \in Key, Finish(l)
      PROVE  Kept'
  <2>1. pc = "close" /\ pc' = "close" /\ UNCHANGED <<keys, given>> /\ Len(given) = cursor
    BY <1>7 DEF Finish, Phases
  <2>2. ASSUME NEW k \in Key, NEW i \in 1..Len(given)
        PROVE  data'[k][i] = data[k][i]
    <3>1. i \in Index /\ i <= cursor
      <4>1. cursor \in 0..MaxFrames
        BY DEF TypeOK
      <4>2. QED
        BY <1>0, <2>1, <4>1
    <3>2. CASE Trim(l)
      BY <3>2 DEF Trim
    <3>3. CASE Pad(l)
      <4>1. total = cursor
        BY <2>1, <3>3 DEF Pad, Phases
      <4>2. ~(total < i)
        BY <1>0, <3>1, <4>1
      <4>3. QED
        BY <3>1, <3>3, <4>2 DEF Pad, TypeOK
    <3>4. QED
      BY <1>7, <3>2, <3>3 DEF Finish
  <2>3. QED
    BY <2>1, <2>2 DEF Kept, Given
<1>8. ASSUME Annotate
      PROVE  Kept'
  <2>1. UNCHANGED <<keys, data, given>> /\ pending = {} /\ pc' = "meta" /\ pc \in {"close", "bulk"}
    BY <1>8 DEF Annotate
  <2>2. QED
    BY <2>1 DEF Kept, Given
<1>9. ASSUME WriteMetadata
      PROVE  Kept'
  <2>1. UNCHANGED <<keys, data, given>> /\ pc = "meta"
    BY <1>9 DEF WriteMetadata
  <2>2. QED
    BY <2>1 DEF Kept, Given
<1>10. ASSUME Die
       PROVE  Kept'
  BY <1>10 DEF Die, store, handle, Kept, Given, Phases
<1>11. ASSUME UNCHANGED vars
       PROVE  Kept'
  BY <1>11 DEF vars, store, handle, Kept, Given
<1>12. QED
  BY <1>1, <1>2, <1>3, <1>4, <1>5, <1>6, <1>7, <1>8, <1>9, <1>10, <1>11
     DEF Next, Begin, Add, Close

LEMMA FilledNext ==
  ASSUME TypeOK, Phases, Filled, [Next]_vars
  PROVE  Filled'
<1>0. /\ MaxFrames \in Nat /\ MaxBatch \in Nat /\ cursor \in Nat /\ Len(given) \in Nat
      /\ Index \subseteq Nat
  BY WriterAssumption DEF TypeOK, Index
<1>e. ASSUME EraseStore
      PROVE  Filled'
  BY <1>e DEF EraseStore, NoCells, Filled
<1>1. ASSUME NEW n \in 0..MaxFrames, Enter(n)
      PROVE  Filled'
  BY <1>1, <1>e DEF Enter
<1>2. ASSUME NEW b \in Batch(MaxFrames), Write(b)
      PROVE  Filled'
  BY <1>2, <1>e DEF Write
<1>3. ASSUME NEW l \in Key, WriteArray(l)
      PROVE  Filled'
  <2>1. /\ pc = "bulk" /\ pc' = "bulk" /\ Len(given) = total /\ cursor = total
        /\ UNCHANGED <<cursor, given, spilled>>
    BY <1>3 DEF WriteArray, Phases
  <2>2. ASSUME NEW k \in Key, NEW i \in Index, k # l
        PROVE  data'[k][i] = data[k][i]
    BY <1>3, <2>2 DEF WriteArray, TypeOK
  <2>3. ASSUME NEW i \in Index, i <= total
        PROVE  data'[l][i] = given[i][l]
    BY <1>3, <2>3 DEF WriteArray, TypeOK
  <2>4. \A i \in Index : i <= total \/ total < i
    BY <1>0, <2>1
  <2>5. QED
    BY <2>1, <2>2, <2>3, <2>4 DEF Filled, Given
<1>4. ASSUME NEW b \in Batch(MaxBatch), AddFrames(b)
      PROVE  Filled'
  <2>1. /\ Len(b) \in Nat /\ Given(b[1]) \subseteq Key
        /\ \A i \in 1..Len(b) : Given(b[i]) = Given(b[1])
    BY <1>0, BatchType
  <2>2. /\ pc = "body" /\ pc' = "body" /\ Len(given) = cursor /\ given' = given \o b
        /\ cursor' = cursor + Len(b) /\ spilled' = spilled /\ Put(Given(b[1]), b)
    BY <1>4 DEF AddFrames, Phases
  <2>3. /\ Len(given') = cursor + Len(b)
        /\ \A i \in 1..cursor : given'[i] = given[i]
        /\ \A i \in (cursor + 1)..(cursor + Len(b)) : given'[i] = b[i - cursor]
    BY <1>0, <2>2, GivenGrows
  <2>4. SUFFICES ASSUME NEW k \in Key, NEW i \in Index
                 PROVE  \/ data'[k][i] = 0
                        \/ <<k, i>> \in spilled'
                        \/ i <= Len(given') /\ k \in Given(given'[i])
    BY DEF Filled, Given
  <2>5. i \in Nat /\ 1 <= i
    BY <1>0 DEF Index
  <2>6. data[k][i] = 0 \/ <<k, i>> \in spilled \/ (i <= cursor /\ k \in Given(given[i]))
    BY <2>2, <2>4 DEF Filled
  <2>7. CASE data'[k][i] = data[k][i]
    <3>1. CASE i <= cursor
      BY <1>0, <2>1, <2>2, <2>3, <2>5, <2>6, <2>7, <3>1
    <3>2. CASE ~(i <= cursor)
      BY <2>2, <2>6, <2>7, <3>2
    <3>3. QED
      BY <3>1, <3>2
  <2>8. CASE data'[k][i] # data[k][i]
    <3>1. k \in Given(b[1]) /\ cursor < i /\ i <= cursor + Len(b)
      BY <1>0, <2>2, <2>5, <2>8, PutLeaves
    <3>2. i - cursor \in 1..Len(b) /\ i \in (cursor + 1)..(cursor + Len(b))
      BY <1>0, <2>1, <2>5, <3>1
    <3>3. QED
      BY <2>1, <2>3, <3>1, <3>2
  <2>9. QED
    BY <2>7, <2>8
<1>5. ASSUME NEW b \in Batch(MaxBatch), NEW done \in SUBSET Given(b[1]), AddRaises(b, done)
      PROVE  Filled'
  <2>1. Len(b) \in Nat
    BY <1>0, BatchType
  <2>2. /\ pc = "body" /\ UNCHANGED <<cursor, given, meta>> /\ Put(done, b)
        /\ spilled' = spilled \cup (done \X ((cursor + 1)..(cursor + Len(b))))
    BY <1>5 DEF AddRaises
  <2>3. SUFFICES ASSUME NEW k \in Key, NEW i \in Index
                 PROVE  \/ data'[k][i] = 0
                        \/ <<k, i>> \in spilled'
                        \/ i <= Len(given) /\ k \in Given(given[i])
    BY <2>2 DEF Filled, Given
  <2>4. data[k][i] = 0 \/ <<k, i>> \in spilled \/ (i <= Len(given) /\ k \in Given(given[i]))
    BY <2>2, <2>3 DEF Filled
  <2>5. CASE data'[k][i] = data[k][i]
    BY <2>2, <2>4, <2>5
  <2>6. CASE data'[k][i] # data[k][i]
    <3>1. k \in done /\ cursor < i /\ i <= cursor + Len(b) /\ i \in Nat
      BY <1>0, <2>2, <2>6, PutLeaves
    <3>2. i \in (cursor + 1)..(cursor + Len(b))
      BY <1>0, <2>1, <3>1
    <3>3. QED
      BY <2>2, <3>1, <3>2
  <2>7. QED
    BY <2>5, <2>6
<1>6. ASSUME Exit
      PROVE  Filled'
  BY <1>6 DEF Exit, store, Filled, Given, Phases
<1>7. ASSUME NEW l \in Key, Finish(l)
      PROVE  Filled'
  <2>1. pc = "close" /\ pc' = "close" /\ UNCHANGED <<given, spilled, cursor>>
    BY <1>7 DEF Finish
  <2>2. ASSUME NEW k \in Key, NEW i \in Index
        PROVE  data'[k][i] = data[k][i] \/ cursor < i
    <3>1. CASE Trim(l)
      BY <3>1 DEF Trim
    <3>2. CASE Pad(l)
      <4>1. total = cursor
        BY <2>1, <3>2 DEF Pad, Phases
      <4>2. QED
        BY <3>2, <4>1 DEF Pad, TypeOK
    <3>3. QED
      BY <1>7, <3>1, <3>2 DEF Finish
  <2>3. QED
    BY <2>1, <2>2 DEF Filled, Given
<1>8. ASSUME Annotate
      PROVE  Filled'
  BY <1>8 DEF Annotate, handle, Filled, Given
<1>9. ASSUME WriteMetadata
      PROVE  Filled'
  BY <1>9 DEF WriteMetadata, handle, Filled, Given
<1>10. ASSUME Die
       PROVE  Filled'
  BY <1>10 DEF Die, store, handle, Filled, Given, Phases
<1>11. ASSUME UNCHANGED vars
       PROVE  Filled'
  BY <1>11 DEF vars, store, handle, Filled, Given
<1>12. QED
  BY <1>1, <1>2, <1>3, <1>4, <1>5, <1>6, <1>7, <1>8, <1>9, <1>10, <1>11
     DEF Next, Begin, Add, Close

LEMMA WInvNext ==
  ASSUME WInv, [Next]_vars
  PROVE  WInv'
BY TypeNext, PhasesNext, LengthsNext, KeptNext, FilledNext DEF WInv
-----------------------------------------------------------------------------
(* The composition: jobs and loaders leave alone what the writer relies on.  *)

LEMMA OthersLeave ==
  ASSUME Job \/ Loader
  PROVE  /\ UNCHANGED <<keys, length, data, meta, pc, handle, given, spilled, opens>>
         /\ annotations' = annotations \/ annotations' \in Annotations
         /\ faults' = faults \/ (faults < MaxFaults /\ faults' = faults + 1)
<1> USE DEF vars, store, bounds, Annotates, Annotations
<1>1. CASE Loader
  BY <1>1 DEF Loader, Sample, TryFrame, Deliver
<1>2. CASE Job
  BY <1>2 DEF Job, StartJob, SkipIfPresent, RemoveKey, CreateArray, StoreEntries, JobDies
<1>3. QED
  BY <1>1, <1>2

LEMMA WInvStore ==
  ASSUME WInv, [NextStore]_storeVars
  PROVE  WInv'
<1>1. CASE WriterStep
  BY <1>1, WInvNext DEF WriterStep
<1>2. CASE Job \/ Loader
  <2>1. UNCHANGED <<keys, length, data, meta, pc, handle, given, spilled, opens>>
    BY <1>2, OthersLeave
  <2>2. TypeOK'
    <3>1. annotations' \in Annotations
      BY <1>2, OthersLeave DEF WInv, TypeOK
    <3>2. faults' \in 0..MaxFaults
      BY <1>2, OthersLeave, WriterAssumption DEF WInv, TypeOK
    <3>3. QED
      BY <2>1, <3>1, <3>2 DEF WInv, TypeOK, handle
  <2>3. Phases' /\ Lengths'
    BY <2>1 DEF WInv, Phases, Lengths, FinalLength, PaddedFrames, handle
  <2>4. Kept' /\ Filled'
    BY <2>1 DEF WInv, Kept, Filled, Given, handle
  <2>5. QED
    BY <2>2, <2>3, <2>4 DEF WInv
<1>3. CASE UNCHANGED storeVars
  BY <1>3, WInvNext DEF storeVars
<1>4. QED
  BY <1>1, <1>2, <1>3 DEF NextStore

LEMMA WriterHolds == StoreSpec => []WInv
<1>1. InitStore => WInv
  BY InitWInv DEF InitStore
<1>2. WInv /\ [NextStore]_storeVars => WInv'
  BY WInvStore
<1>3. QED
  BY <1>1, <1>2, PTL DEF StoreSpec

(* The arrays of a published episode have one length, which covers its       *)
(* frames and is not longer than whole chunks.                               *)
THEOREM ArraysStayAligned == StoreSpec => []ArraysAligned
<1>1. ASSUME WInv
      PROVE  ArraysAligned
  <2>1. SUFFICES ASSUME meta # 0
                 PROVE  \A k \in keys : meta <= length[k] /\ length[k] <= PaddedFrames(meta)
                                       /\ \A l \in keys : length[k] = length[l]
    BY DEF ArraysAligned
  <2>2. meta \in Nat /\ meta = cursor /\ (total # 0 => cursor = total)
    BY <1>1, <2>1, WriterAssumption DEF WInv, Phases, TypeOK
  <2>3. \A k \in keys : length[k] = FinalLength
    BY <1>1, <2>1 DEF WInv, Lengths
  <2>4. meta <= PaddedFrames(meta) /\ PaddedFrames(meta) \in Nat
    BY <2>2, PaddedCovers
  <2>5. FinalLength = meta \/ FinalLength = PaddedFrames(meta)
    BY <2>2 DEF FinalLength
  <2>6. QED
    BY <2>2, <2>3, <2>4, <2>5
<1>2. QED
  BY <1>1, WriterHolds, PTL

(* A key that a frame left out is blank, unless a failed call wrote it.      *)
THEOREM BlanksAreExplained == StoreSpec => []BlankExplained
<1>1. ASSUME WInv
      PROVE  BlankExplained
  <2>1. SUFFICES ASSUME meta # 0, NEW i \in 1..meta, NEW k \in keys
                 PROVE  data[k][i] = 0 \/ k \in Given(given[i]) \/ <<k, i>> \in spilled
    BY DEF BlankExplained
  <2>2. meta \in 1..MaxFrames /\ meta = cursor /\ pc = "idle" /\ MaxFrames \in Nat
    BY <1>1, <2>1, WriterAssumption DEF WInv, Phases, TypeOK
  <2>3. i \in Index /\ k \in Key /\ ~(cursor < i)
    BY <1>1, <2>1, <2>2, WriterAssumption DEF WInv, TypeOK, Index
  <2>4. QED
    BY <1>1, <2>1, <2>2, <2>3 DEF WInv, Filled
<1>2. QED
  BY <1>1, WriterHolds, PTL

(* What a reader finds, while nothing is published and afterwards.           *)
Episode == [i \in 1..meta |-> [k \in Key |-> data[k][i]]]

LEMMA EpisodeSame ==
  ASSUME meta' = meta, meta = 0 \/ data' = data
  PROVE  Episode' = Episode
<1>1. CASE meta = 0
  BY <1>1 DEF Episode
<1>2. CASE data' = data
  BY <1>2 DEF Episode
<1>3. QED
  BY <1>1, <1>2

LEMMA NoEpisode == meta = 0 => Episode = <<>>
BY DEF Episode

(* Every step of the writer is a step of the promise or leaves it alone.     *)
LEMMA WriterImplements ==
  ASSUME WInv, [Next]_vars
  PROVE  [Log!Next]_<<given, Episode>>
<1>0. /\ MaxFrames \in Nat /\ MaxBatch \in Nat
      /\ Log!Frame = [Key -> Cell] /\ given \in Seq([Key -> Cell])
  BY WriterAssumption DEF WInv, TypeOK, Log!Frame, Log!Blank, Cell
<1>1. ASSUME NEW n \in 0..MaxFrames, Enter(n)
      PROVE  Log!Begin
  <2>1. given' = <<>> /\ meta' = 0
    BY <1>1 DEF Enter, EraseStore
  <2>2. Episode' = <<>>
    BY <2>1 DEF Episode
  <2>3. QED
    BY <1>0, <2>1, <2>2 DEF Log!Begin, Episode
<1>2. ASSUME NEW b \in Batch(MaxFrames), Write(b)
      PROVE  Log!Begin
  <2>1. given' = b /\ meta' = 0
    BY <1>2 DEF Write, EraseStore
  <2>2. Episode' = <<>>
    BY <2>1 DEF Episode
  <2>3. b \in Seq([Key -> Cell])
    BY <1>0, BatchType
  <2>4. QED
    BY <1>0, <2>1, <2>2, <2>3 DEF Log!Begin, Episode
<1>3. ASSUME NEW b \in Batch(MaxBatch), AddFrames(b)
      PROVE  Log!Extend
  <2>1. given' = given \o b /\ meta = 0 /\ meta' = meta
    BY <1>3 DEF AddFrames, WInv, Phases
  <2>2. Episode = <<>> /\ Episode' = Episode
    BY <2>1, EpisodeSame, NoEpisode
  <2>3. b \in Seq([Key -> Cell]) /\ Len(b) \in Nat
    BY <1>0, BatchType
  <2>4. given' \in Seq([Key -> Cell])
    BY <1>0, <2>1, <2>3
  <2>5. Len(given) <= Len(given') /\ \A i \in 1..Len(given) : given'[i] = given[i]
    BY <1>0, <2>1, <2>3, GivenGrows DEF WInv
  <2>6. QED
    BY <1>0, <2>2, <2>4, <2>5 DEF Log!Extend, Episode
<1>4. ASSUME WriteMetadata
      PROVE  Log!Publish
  <2>1. /\ meta = 0 /\ cursor # 0 /\ cursor = Len(given) /\ pending = {} /\ pc = "meta"
        /\ meta' = cursor /\ UNCHANGED <<data, given>>
    BY <1>4 DEF WriteMetadata, WInv, Phases
  <2>2. \A i \in 1..Len(given) : \A k \in Given(given[i]) : data[k][i] = given[i][k]
    BY <2>1 DEF WInv, Kept
  <2>3. Episode' = [i \in 1..Len(given) |-> [k \in Key |-> data[k][i]]]
    BY <2>1 DEF Episode
  <2>4. \A i \in 1..Len(given) : Log!Given(given[i]) = Given(given[i])
    BY DEF Log!Given, Given, Log!Blank
  <2>5. Log!Agrees(Episode', given)
    <3>1. DOMAIN Episode' = 1..Len(given)
      BY <2>3
    <3>2. \A i \in 1..Len(given) : \A k \in Given(given[i]) : (Episode')[i][k] = given[i][k]
      BY <2>2, <2>3 DEF Given
    <3>3. QED
      BY <2>4, <3>1, <3>2 DEF Log!Agrees
  <2>6. given # <<>> /\ Episode = <<>>
    BY <2>1, NoEpisode
  <2>7. QED
    BY <2>1, <2>5, <2>6 DEF Log!Publish, Episode
<1>5. ASSUME \/ \E k \in Key : WriteArray(k) \/ Finish(k)
             \/ \E b \in Batch(MaxBatch) : \E done \in SUBSET Given(b[1]) : AddRaises(b, done)
             \/ Exit \/ Annotate \/ Die \/ UNCHANGED vars
      PROVE  UNCHANGED <<given, Episode>>
  <2>1. given' = given /\ meta' = meta /\ (meta = 0 \/ data' = data)
    BY <1>5 DEF WInv, Phases, WriteArray, Finish, AddRaises, Exit, Annotate, Die, vars, store
  <2>2. QED
    BY <2>1, EpisodeSame
<1>6. QED
  BY <1>1, <1>2, <1>3, <1>4, <1>5 DEF Next, Begin, Add, Close, Log!Next

(* The writer keeps its promise: a published store holds every frame that    *)
(* was given, in order.                                                      *)
THEOREM WriterKeepsPromise == StoreSpec => Promise
<1>1. InitStore => Log!Init
  BY NoEpisode DEF InitStore, Init, Log!Init, Episode
<1>2. WInv /\ [NextStore]_storeVars => [Log!Next]_<<given, Episode>>
  <2>1. SUFFICES ASSUME WInv, [NextStore]_storeVars
                 PROVE  [Log!Next]_<<given, Episode>>
    OBVIOUS
  <2>2. CASE WriterStep
    BY <2>1, <2>2, WriterImplements DEF WriterStep
  <2>3. CASE Job \/ Loader
    BY <2>3, OthersLeave, EpisodeSame
  <2>4. CASE UNCHANGED storeVars
    BY <2>4, EpisodeSame DEF storeVars, vars, store
  <2>5. QED
    BY <2>1, <2>2, <2>3, <2>4 DEF NextStore
<1>3. QED
  BY <1>1, <1>2, WriterHolds, PTL DEF StoreSpec, Promise, Log!Spec, Episode
-----------------------------------------------------------------------------
(* The annotation jobs and the data loader.                                  *)

Whole == annotations \in {"empty", "full"}

(* Jobs and loaders work on published stores.  What a job finds broken was   *)
(* left so by one that died; a loader that tries again has failed elsewhere. *)
JobInv ==
  /\ job \in {"none", "check", "remove", "create", "fill"}
  /\ job # "none" \/ sampling # "idle" => meta # 0
  /\ pc = "meta" => Whole
  /\ meta # 0 /\ job \in {"none", "check"} => Whole \/ jobDied
  /\ job \in {"remove", "create", "fill"} /\ ~overwrite => jobDied

LoaderInv ==
  /\ sampling = "idle" => idx = 0 /\ attempts = 0
  /\ sampling # "idle" => idx \in 1..meta /\ attempts \in 0..MaxFrames
  /\ sampling = "try" /\ attempts # 0 => \E j \in 1..meta : j # idx /\ ~Decodes(j)
  /\ ExhaustedExplained

(* While something is published the writer can only begin anew.              *)
LEMMA WriterRests ==
  ASSUME WInv, [Next]_vars, meta # 0
  PROVE  meta' = 0 \/ UNCHANGED vars
<1>1. pc = "idle"
  BY DEF WInv, Phases
<1>2. Next => meta' = 0
  BY <1>1 DEF Next, Begin, Add, Close, Enter, Write, EraseStore, AddFrames, AddRaises, Exit,
              WriteArray, Finish, Annotate, WriteMetadata, Die
<1>3. QED
  BY <1>2

LEMMA JobInvNext ==
  ASSUME WInv, JobInv, [NextStore]_storeVars
  PROVE  JobInv'
<1>1. CASE WriterStep
  <2>1. job = "none" /\ sampling = "idle" /\ [Next]_vars /\ UNCHANGED <<job, overwrite, loader>>
    BY <1>1 DEF WriterStep
  <2>2. CASE meta # 0
    <3>1. meta' = 0 \/ UNCHANGED vars
      BY <2>1, <2>2, WriterRests
    <3>2. Next => meta' = 0
      BY <2>2 DEF Next, Begin, Add, Close, Enter, Write, EraseStore, AddFrames, AddRaises,
                  Exit, WriteArray, Finish, Annotate, WriteMetadata, Die, WInv, Phases
    <3>3. meta' = 0 /\ pc' # "meta"
      BY <1>1, <2>2, <3>2 DEF WriterStep, Next, Begin, Add, Close, Enter, Write, AddFrames,
           AddRaises, Exit, WriteArray, Finish, Annotate, WriteMetadata, Die, WInv, Phases
    <3>4. QED
      BY <2>1, <3>3 DEF JobInv, loader
  <2>3. CASE meta = 0
    <3>1. meta' # 0 => pc = "meta" /\ UNCHANGED annotations
      BY <1>1, <2>3 DEF WriterStep, Next, Begin, Add, Close, Enter, Write, EraseStore, AddFrames,
           AddRaises, Exit, WriteArray, Finish, Annotate, WriteMetadata, Die, store
    <3>2. pc' = "meta" => annotations' \in {"empty", "full"}
      BY <1>1, <2>3 DEF WriterStep, Next, Begin, Add, Close, Enter, Write, EraseStore, AddFrames,
           AddRaises, Exit, WriteArray, Finish, Annotate, WriteMetadata, Die, store
    <3>3. QED
      BY <2>1, <3>1, <3>2 DEF JobInv, Whole, loader
  <2>4. QED
    BY <2>2, <2>3
<1>2. CASE Loader
  <2>1. UNCHANGED <<annotations, meta, pc, jobVars>> /\ meta # 0
    BY <1>2 DEF Loader, Sample, TryFrame, Deliver, vars, store, JobInv
  <2>2. QED
    BY <2>1 DEF JobInv, Whole, jobVars
<1>3. CASE Job
  <2>1. UNCHANGED <<meta, pc, loader>> /\ meta # 0 /\ pc = "idle"
    BY <1>3, OthersLeave
       DEF Job, StartJob, SkipIfPresent, RemoveKey, CreateArray, StoreEntries, JobDies,
           Annotates, JobInv, WInv, Phases
  <2>2. ASSUME NEW o \in BOOLEAN, StartJob(o)
        PROVE  JobInv'
    BY <2>1, <2>2 DEF StartJob, JobInv, Whole, vars, store, loader
  <2>3. CASE SkipIfPresent
    BY <2>1, <2>3 DEF SkipIfPresent, JobInv, Whole, vars, store, loader
  <2>4. CASE RemoveKey
    BY <2>1, <2>4 DEF RemoveKey, Annotates, JobInv, Whole, loader
  <2>5. CASE CreateArray
    BY <2>1, <2>5 DEF CreateArray, Annotates, JobInv, Whole, loader
  <2>6. CASE StoreEntries
    BY <2>1, <2>6 DEF StoreEntries, Annotates, JobInv, Whole, loader
  <2>7. CASE JobDies
    BY <2>1, <2>7 DEF JobDies, JobInv, Whole, store, loader
  <2>8. QED
    BY <1>3, <2>2, <2>3, <2>4, <2>5, <2>6, <2>7 DEF Job
<1>4. CASE UNCHANGED storeVars
  BY <1>4 DEF storeVars, vars, store, jobVars, loader, JobInv, Whole
<1>5. QED
  BY <1>1, <1>2, <1>3, <1>4 DEF NextStore

LEMMA JobsHold == StoreSpec => [](WInv /\ JobInv)
<1>1. InitStore => JobInv
  BY DEF InitStore, Init, JobInv
<1>2. WInv /\ JobInv /\ [NextStore]_storeVars => JobInv'
  BY JobInvNext
<1>3. QED
  BY <1>1, <1>2, WriterHolds, PTL DEF StoreSpec

(* A published store has whole annotations, except while a job replaces them *)
(* and after one that died.                                                  *)
THEOREM AnnotationsAreExplained == StoreSpec => []AnnotationsExplained
<1>1. JobInv => AnnotationsExplained
  BY DEF JobInv, Whole, AnnotationsExplained
<1>2. QED
  BY <1>1, JobsHold, PTL

(* A job that is not told to overwrite changes annotations only where one    *)
(* that died left none.                                                      *)
THEOREM PlainJobsOnlyRepair == StoreSpec => PlainJobsSkip
<1>1. ASSUME WInv, JobInv, [NextStore]_storeVars
      PROVE  [annotations' # annotations /\ job # "none" /\ ~overwrite => jobDied]_storeVars
  <2>1. SUFFICES ASSUME annotations' # annotations, job # "none", ~overwrite
                 PROVE  job \in {"remove", "create", "fill"}
    BY <1>1 DEF JobInv
  <2>2. Job
    BY <1>1, <2>1 DEF NextStore, WriterStep, Loader, Sample, TryFrame, Deliver, storeVars, vars,
                      store
  <2>3. QED
    BY <2>1, <2>2 DEF Job, StartJob, SkipIfPresent, RemoveKey, CreateArray, StoreEntries, JobDies,
                      vars, store
<1>2. QED
  BY <1>1, JobsHold, PTL DEF StoreSpec, PlainJobsSkip

LEMMA LoaderInvNext ==
  ASSUME WInv, JobInv, LoaderInv, [NextStore]_storeVars
  PROVE  LoaderInv'
<1>0. meta \in 0..MaxFrames /\ MaxFrames \in Nat /\ 1..meta \subseteq 0..MaxFrames
  BY WriterAssumption DEF WInv, TypeOK
<1>1. CASE WriterStep
  BY <1>1 DEF WriterStep, loader, LoaderInv, ExhaustedExplained
<1>2. CASE Job
  <2>1. UNCHANGED <<keys, data, meta, loader>>
    BY <1>2, OthersLeave
       DEF Job, StartJob, SkipIfPresent, RemoveKey, CreateArray, StoreEntries, JobDies, Annotates
  <2>2. QED
    BY <2>1 DEF LoaderInv, ExhaustedExplained, Decodes, loader
<1>3. ASSUME NEW i \in 1..meta, Sample(i)
      PROVE  LoaderInv'
  BY <1>0, <1>3 DEF Sample, LoaderInv, ExhaustedExplained, vars, store
<1>4. CASE TryFrame
  <2>1. /\ UNCHANGED <<keys, data, meta>> /\ sampling = "try"
        /\ idx \in 1..meta /\ attempts \in 0..MaxFrames
    BY <1>4 DEF TryFrame, vars, store, LoaderInv
  <2>2. CASE sampling' \in {"error", "sample"}
    BY <1>4, <2>1, <2>2 DEF TryFrame, LoaderInv, ExhaustedExplained
  <2>3. CASE sampling' = "exhausted"
    <3>1. ~Decodes(idx) /\ OutOfTries /\ UNCHANGED <<idx, attempts>>
      BY <1>4, <2>1, <2>3 DEF TryFrame
    <3>2. meta = 1 \/ \E j \in 1..meta : j # idx /\ ~Decodes(j)
      <4>1. CASE attempts = 0
        <5>1. meta = 1
          BY <1>0, <2>1, <3>1, <4>1 DEF OutOfTries
        <5>2. QED
          BY <5>1
      <4>2. CASE attempts # 0
        BY <2>1, <4>2 DEF LoaderInv
      <4>3. QED
        BY <4>1, <4>2
    <3>3. ExhaustedExplained'
      BY <2>1, <3>1, <3>2 DEF ExhaustedExplained, Decodes
    <3>4. QED
      BY <2>1, <2>3, <3>1, <3>3 DEF LoaderInv
  <2>4. CASE sampling' = "try"
    <3>1. /\ ~Decodes(idx) /\ ~OutOfTries
          /\ idx' \in (1..meta) \ {idx} /\ attempts' = attempts + 1
      BY <1>4, <2>1, <2>4 DEF TryFrame
    <3>2. attempts' \in 0..MaxFrames
      BY <1>0, <2>1, <3>1 DEF OutOfTries
    <3>3. \A j \in 1..meta : Decodes(j)' <=> Decodes(j)
      BY <2>1 DEF Decodes
    <3>4. \E j \in 1..meta : j # idx' /\ ~Decodes(j)'
      BY <2>1, <3>1, <3>3
    <3>5. QED
      BY <2>1, <2>4, <3>1, <3>2, <3>4 DEF LoaderInv, ExhaustedExplained
  <2>5. sampling' \in {"try", "error", "sample", "exhausted"}
    BY <1>4, <2>1 DEF TryFrame
  <2>6. QED
    BY <2>2, <2>3, <2>4, <2>5
<1>5. CASE Deliver
  BY <1>5 DEF Deliver, LoaderInv, ExhaustedExplained
<1>6. CASE UNCHANGED storeVars
  BY <1>6 DEF storeVars, vars, store, loader, LoaderInv, ExhaustedExplained, Decodes
<1>7. QED
  BY <1>1, <1>2, <1>3, <1>4, <1>5, <1>6 DEF NextStore, Loader

(* A sample is given up only if two frames, or the only one, are bad.        *)
THEOREM GivingUpIsExplained == StoreSpec => []ExhaustedExplained
<1>1. InitStore => LoaderInv
  BY DEF InitStore, LoaderInv, ExhaustedExplained
<1>2. WInv /\ JobInv /\ LoaderInv /\ [NextStore]_storeVars => LoaderInv'
  BY LoaderInvNext
<1>3. LoaderInv => ExhaustedExplained
  BY DEF LoaderInv
<1>4. QED
  BY <1>1, <1>2, <1>3, JobsHold, PTL DEF StoreSpec

(* A window shows the frames that were given and repeats the last of them.   *)
THEOREM WindowsShowFrames == StoreSpec => []WindowsStayInside
<1>1. ASSUME WInv
      PROVE  WindowsStayInside
  <2>1. SUFFICES ASSUME meta # 0, NEW k \in keys, NEW i \in 1..meta, NEW h \in Horizon,
                        NEW j \in 1..h,
                        k \in Given(given[Smaller(i + j - 1, meta)])
                 PROVE  Window(k, i, ChunkEnd(k, i, h), h)[j] = given[Smaller(i + j - 1, meta)][k]
    BY DEF WindowsStayInside
  <2>2. meta \in Nat /\ h \in Nat /\ meta = Len(given) /\ pc = "idle"
    BY <1>1, <2>1, WriterAssumption, StoreAssumption DEF WInv, Phases, TypeOK
  <2>3. /\ Smaller(i + j - 1, ChunkEnd(k, i, h) - 1) = Smaller(i + j - 1, meta)
        /\ Smaller(i + j - 1, meta) \in 1..meta
    BY <2>2 DEF Smaller, ChunkEnd
  <2>4. data[k][Smaller(i + j - 1, meta)] = given[Smaller(i + j - 1, meta)][k]
    BY <1>1, <2>1, <2>2, <2>3 DEF WInv, Kept
  <2>5. QED
    BY <2>3, <2>4 DEF Window
<1>2. QED
  BY <1>1, WriterHolds, PTL

(* A set of natural numbers has a smallest element.                          *)
LessNat == {p \in Nat \X Nat : p[1] < p[2]}

LEMMA NatWF == IsWellFoundedOn(LessNat, Nat)
<1>1. LessNat = OpToRel(<, Nat) BY DEF OpToRel, LessNat
<1> QED BY <1>1, NatLessThanWellFounded

LEMMA Least == ASSUME NEW T \in SUBSET Nat, T # {} PROVE \E x \in T : \A y \in T : x <= y
<1>1. PICK x \in T : \A y \in T : ~ (<<y, x>> \in LessNat) BY NatWF, WFMin
<1>2. ASSUME NEW y \in T PROVE x <= y
  <2>1. <<y, x>> \in Nat \X Nat /\ <<y, x>>[1] = y /\ <<y, x>>[2] = x OBVIOUS
  <2>2. ~ (y < x) BY <1>1, <2>1 DEF LessNat
  <2>3. y \in Nat /\ x \in Nat OBVIOUS
  <2> QED BY <2>2, <2>3
<1> QED BY <1>2

(* Among the annotations of a frame there is a last one.                     *)
LEMMA LastSpan ==
  ASSUME NEW i \in Nat, TextSpans(i) # {}
  PROVE  \E n \in TextSpans(i) : \A m \in TextSpans(i) : m <= n
<1> DEFINE N == Len(Spans)
<1>1. N \in Nat /\ TextSpans(i) \subseteq 1..N
  BY StoreAssumption DEF StoreAssumption, TextSpans
<1> DEFINE U == {x \in Nat : \E n \in TextSpans(i) : x = N - n}
<1>2. \A n \in TextSpans(i) : N - n \in U
  BY <1>1
<1>3. U \in SUBSET Nat /\ U # {}
  BY <1>2
<1>4. PICK x \in U : \A y \in U : x <= y
  BY <1>3, Least
<1>5. PICK n \in TextSpans(i) : x = N - n
  BY <1>4
<1>6. \A m \in TextSpans(i) : m <= n
  <2>1. SUFFICES ASSUME NEW m \in TextSpans(i) PROVE m <= n
    OBVIOUS
  <2>2. N - n <= N - m
    BY <1>2, <1>4, <1>5, <2>1
  <2>3. m \in Nat /\ n \in Nat
    BY <1>1, <2>1
  <2>4. QED
    BY <1>1, <2>2, <2>3
<1>7. QED
  BY <1>6

(* A window that starts inside annotations ends with one of them, and is     *)
(* never empty, for every list of annotations, overlapping ones included.    *)
THEOREM CutoffsMatchTexts == StoreSpec => []CutoffMatchesText
<1>1. ASSUME WInv
      PROVE  CutoffMatchesText
  <2>1. SUFFICES ASSUME meta # 0, NEW k \in keys, NEW i \in 1..meta, NEW h \in Horizon
                 PROVE  /\ i < CutoffEnd(k, i, h)
                        /\ TextSpans(i) # {} =>
                             \E n \in TextSpans(i) : CutoffEnd(k, i, h) <= Spans[n][2]
                        /\ CutoffEnd(k, i, h) < ChunkEnd(k, i, h) =>
                             \E n \in TextSpans(i) : CutoffEnd(k, i, h) = Spans[n][2]
    BY DEF CutoffMatchesText
  <2>2. meta \in Nat /\ h \in Nat \ {0} /\ i \in Nat
    BY <1>1, <2>1, StoreAssumption DEF StoreAssumption, WInv, TypeOK
  <2>3. ChunkEnd(k, i, h) \in Nat /\ i < ChunkEnd(k, i, h)
    BY <2>1, <2>2 DEF ChunkEnd, Smaller
  <2>4. CASE TextSpans(i) = {}
    BY <2>3, <2>4 DEF CutoffEnd
  <2>5. CASE TextSpans(i) # {}
    <3>1. PICK n \in TextSpans(i) : CutoffEnd(k, i, h) = Smaller(ChunkEnd(k, i, h), Spans[n][2])
      BY <2>2, <2>5, LastSpan DEF CutoffEnd
    <3>2. Spans[n][2] \in Nat /\ i < Spans[n][2]
      BY <3>1, StoreAssumption DEF StoreAssumption, TextSpans
    <3>3. QED
      BY <2>2, <2>3, <3>1, <3>2 DEF Smaller
  <2>6. QED
    BY <2>4, <2>5
<1>2. QED
  BY <1>1, WriterHolds, PTL
=============================================================================
