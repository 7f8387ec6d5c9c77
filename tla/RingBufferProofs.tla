-------------------------- MODULE RingBufferProofs --------------------------
(***************************************************************************)
(* Proofs about RingBuffer, for every number of arrays, readers, items     *)
(* read at once, time budget and frequency: a reader never returns a torn  *)
(* item, and the writer never has to wait.                                 *)
(***************************************************************************)
EXTENDS RingBuffer, TLAPS

(* Division with remainder, for a divisor that is a parameter.               *)
LEMMA DivMod ==
  ASSUME NEW a \in Int, NEW b \in Nat \ {0}
  PROVE  /\ a \div b \in Int /\ a % b \in 0..(b - 1)
         /\ a = b * (a \div b) + (a % b)
  OBVIOUS

(* A product that lies strictly within one divisor of zero is zero.          *)
LEMMA SmallMultiple ==
  ASSUME NEW b \in Nat \ {0}, NEW q \in Int, b * q < b, 0 - b < b * q
  PROVE  q = 0
  OBVIOUS

LEMMA NextMultiple ==
  ASSUME NEW b \in Nat, NEW n \in Int, NEW m \in Int, m = n + 1
  PROVE  b * n \in Int /\ b * m = b * n + b
OBVIOUS

(* A stamp that is s, or that s plus x bounds, one period later.             *)
LEMMA PeriodPasses ==
  ASSUME NEW s \in Int, NEW x \in Int, NEW y \in Int, NEW q \in Int,
         NEW l \in Int, NEW c \in Int,
         s + x <= l, c >= l + q, y <= x + q
  PROVE  s + y <= c
OBVIOUS

(* Items less than BufferSize apart have different slots.                    *)
LEMMA ModApart ==
  ASSUME NEW b \in Nat \ {0}, NEW x \in Int, NEW y \in Int,
         x % b = y % b, x - y < b, y - x < b
  PROVE  x = y
<1>1. x = b * (x \div b) + (x % b) /\ x \div b \in Int BY DivMod
<1>2. y = b * (y \div b) + (y % b) /\ y \div b \in Int BY DivMod
<1>3. x % b \in Int BY DivMod
<1>4. x - y = b * ((x \div b) - (y \div b)) BY <1>1, <1>2, <1>3
<1>5. (x \div b) - (y \div b) = 0
  <2> DEFINE q == (x \div b) - (y \div b)
  <2>1. q \in Int BY <1>1, <1>2
  <2>2. b * q < b /\ 0 - b < b * q BY <1>4
  <2> HIDE DEF q
  <2>3. q = 0 BY <2>1, <2>2, SmallMultiple
  <2> QED BY <2>3 DEF q
<1> QED BY <1>4, <1>5

(* One turn around the buffer leads to the same slot.                        *)
LEMMA ModShift ==
  ASSUME NEW b \in Nat \ {0}, NEW x \in Int, NEW y \in Int, y = x - b
  PROVE  y % b = x % b
<1> DEFINE r == x % b
           s == y % b
           q == (x \div b) - (y \div b) - 1
<1>1. x = b * (x \div b) + r /\ x \div b \in Int /\ r \in 0..(b - 1) BY DivMod
<1>2. y = b * (y \div b) + s /\ y \div b \in Int /\ s \in 0..(b - 1) BY DivMod
<1>3. s - r = b * q /\ q \in Int BY <1>1, <1>2
<1>4. b * q < b /\ 0 - b < b * q BY <1>1, <1>2, <1>3
<1> HIDE DEF r, s, q
<1>5. q = 0 BY <1>3, <1>4, SmallMultiple
<1>6. s = r BY <1>1, <1>2, <1>3, <1>5
<1> QED BY <1>6 DEF r, s

(* The spare slots last for longer than the time budget.                     *)
LEMMA SpareSlotsLast ==
  /\ SpareSlots \in Nat \ {0}
  /\ BufferSize \in Nat \ {0}
  /\ BufferSize = SpareSlots + MaxK
  /\ Period * SpareSlots > Budget
<1> DEFINE a == 3 * Budget + 2 * Period - 1
           b == 2 * Period
<1>1. Budget \in Nat \ {0} /\ Period \in Nat \ {0} /\ MaxK \in Nat \ {0}
  BY RingAssumption
<1>2. a \in Int /\ b \in Nat \ {0} BY <1>1
<1>3. a = b * SpareSlots + (a % b) /\ SpareSlots \in Int /\ a % b \in 0..(b - 1)
  BY <1>2, DivMod DEF SpareSlots
<1>4. b * SpareSlots >= 3 * Budget BY <1>1, <1>2, <1>3
<1>5. b * SpareSlots = 2 * (Period * SpareSlots) BY <1>1, <1>3
<1>6. Period * SpareSlots > Budget BY <1>1, <1>3, <1>4, <1>5
<1>7. SpareSlots > 0 BY <1>1, <1>3, <1>6
<1> QED BY <1>1, <1>3, <1>6, <1>7 DEF BufferSize

LEMMA SlotRange ==
  ASSUME NEW i \in Int
  PROVE  Slot(i) \in 0..(BufferSize - 1)
<1> DEFINE a == i - 1
<1>1. a \in Int OBVIOUS
<1>2. Slot(i) = a % BufferSize BY DEF Slot
<1> HIDE DEF a
<1>3. a % BufferSize \in 0..(BufferSize - 1) BY <1>1, SpareSlotsLast, DivMod
<1> QED BY <1>2, <1>3

LEMMA SlotApart ==
  ASSUME NEW i \in Int, NEW j \in Int, i # j, i - j < BufferSize, j - i < BufferSize
  PROVE  Slot(i) # Slot(j)
<1> SUFFICES ASSUME Slot(i) = Slot(j) PROVE FALSE
  OBVIOUS
<1> DEFINE a == i - 1
           b == j - 1
<1>1. a \in Int /\ b \in Int /\ a - b < BufferSize /\ b - a < BufferSize
  BY SpareSlotsLast
<1>2. a % BufferSize = b % BufferSize BY DEF Slot
<1>3. a # b OBVIOUS
<1> HIDE DEF a, b
<1> QED BY <1>1, <1>2, <1>3, SpareSlotsLast, ModApart

LEMMA SlotTurn ==
  ASSUME NEW i \in Int
  PROVE  Slot(i - BufferSize) = Slot(i)
<1> DEFINE a == i - 1
           b == (i - BufferSize) - 1
<1>1. a \in Int /\ b \in Int /\ b = a - BufferSize BY SpareSlotsLast
<1>2. Slot(i) = a % BufferSize /\ Slot(i - BufferSize) = b % BufferSize BY DEF Slot
<1> HIDE DEF a, b
<1>3. b % BufferSize = a % BufferSize BY <1>1, SpareSlotsLast, ModShift
<1> QED BY <1>2, <1>3
-----------------------------------------------------------------------------
(* The inductive invariant.                                                  *)

(* Item i has not been overwritten, nor is it being overwritten.             *)
Kept(i) == /\ i <= count
           /\ i > count - BufferSize
           /\ putting \in {"write", "stamped"} => i > count - BufferSize + 1

WriterInv ==
  /\ lastPut <= clock
  /\ putting # "ready" /\ count > 1 => clock >= lastPut + Period
  /\ putting = "stamped" => unwritten = {}

SlotInv ==
  /\ \A k \in Key, i \in Nat \ {0} : Kept(i) => slots[k][Slot(i)] = i
  /\ putting \in {"write", "stamped"} =>
       \A k \in Key \ unwritten : slots[k][Slot(count + 1)] = count + 1

(* Consecutive items are put at least one Period apart.                      *)
StampInv ==
  /\ \A i \in Int : Kept(i) => IF i <= 0 THEN stamps[Slot(i)] = Never
                                         ELSE stamps[Slot(i)] <= lastPut
  /\ \A i \in Nat \ {0} : Kept(i) /\ i < count
       => stamps[Slot(i)] + Period * (count - i - 1) <= lastPut
  /\ putting = "stamped" => stamps[Slot(count + 1)] <= clock

Reading(r) ==
  /\ loaded[r] >= 1 /\ loaded[r] <= count
  /\ count > loaded[r] => lastPut >= start[r] + Period * (count - loaded[r] - 1)
  /\ \A c \in uncopied[r] : c[2] > loaded[r] - MaxK /\ c[2] <= loaded[r]
  /\ wrong[r] # {} => clock - start[r] > Budget

ReaderInv ==
  \A r \in Reader : /\ reading[r] # "idle" => start[r] <= clock
                    /\ reading[r] = "copy" => Reading(r)

TimedInv == /\ WriterInv /\ SlotInv /\ StampInv /\ ReaderInv
            /\ RateSustained /\ ReadsWhole
-----------------------------------------------------------------------------
LEMMA RingTypeInit == Init => TypeOK
<1>1. /\ Budget \in Nat \ {0} /\ MaxK \in Nat \ {0} /\ BufferSize \in Nat \ {0}
  BY RingAssumption, SpareSlotsLast
<1> QED BY <1>1 DEF Init, TypeOK, Never

LEMMA RingTypeStep ==
  ASSUME TypeOK, [Next]_vars
  PROVE  TypeOK'
<1>0. /\ Budget \in Nat \ {0} /\ Period \in Nat \ {0} /\ MaxK \in Nat \ {0}
      /\ SpareSlots \in Nat \ {0} /\ BufferSize \in Nat \ {0}
      /\ BufferSize = SpareSlots + MaxK
  BY RingAssumption, SpareSlotsLast
<1> USE <1>0 DEF TypeOK
<1>1. CASE UNCHANGED vars BY <1>1 DEF vars, ring, writer, readers
<1>2. CASE Tick BY <1>2 DEF Tick, ring, writer, readers
<1>3. CASE BeginPut
  <2>0. count + MaxK \in Int OBVIOUS
  <2>1. Slot(count + MaxK) \in 0..(BufferSize - 1) BY <2>0, SlotRange
  <2>2. stamps[Slot(count + MaxK)] + Budget \in Int BY <2>1
  <2> QED BY <1>3, <2>2 DEF BeginPut, PreviewStamp, ring, readers
<1>4. CASE Waken BY <1>4 DEF Waken, ring, readers
<1>5. ASSUME NEW k \in Key, WriteArray(k) PROVE TypeOK'
  <2>1. slots' \in [Key -> [0..(BufferSize - 1) -> Nat]]
    <3>1. slots[k] \in [0..(BufferSize - 1) -> Nat] /\ count + 1 \in Nat OBVIOUS
    <3>2. [slots[k] EXCEPT ![Slot(count + 1)] = count + 1] \in [0..(BufferSize - 1) -> Nat]
      BY <3>1
    <3>3. slots' = [slots EXCEPT ![k] = [slots[k] EXCEPT ![Slot(count + 1)] = count + 1]]
      BY <1>5 DEF WriteArray
    <3> QED BY <3>2, <3>3
  <2>2. unwritten' \subseteq Key BY <1>5 DEF WriteArray
  <2> QED BY <1>5, <2>1, <2>2 DEF WriteArray, readers
<1>6. CASE Stamp
  <2>1. stamps' \in [0..(BufferSize - 1) -> Int]
    <3>1. stamps' = [stamps EXCEPT ![Slot(count + 1)] = clock] BY <1>6 DEF Stamp
    <3>2. clock \in Int OBVIOUS
    <3> QED BY <3>1, <3>2
  <2> QED BY <1>6, <2>1 DEF Stamp, readers
<1>7. CASE CountItem BY <1>7 DEF CountItem, readers
<1>8. ASSUME NEW r \in Reader, NEW n \in 1..MaxK, Enter(r, n) PROVE TypeOK'
  BY <1>8 DEF Enter, ring, writer
<1>9. ASSUME NEW r \in Reader, Load(r) PROVE TypeOK'
  <2>1. reading' \in [Reader -> {"idle", "load", "copy", "late", "returned"}]
    BY <1>9 DEF Load
  <2>2. loaded' \in [Reader -> Nat]
    <3>1. loaded' = [loaded EXCEPT ![r] = count] \/ loaded' = loaded BY <1>9 DEF Load
    <3> QED BY <3>1
  <2>3. uncopied' \in [Reader -> SUBSET (Key \X (Nat \ {0}))]
    <3> DEFINE items == Key \X ((count - asked[r] + 1)..count)
    <3>1. asked[r] \in Nat /\ count \in Nat OBVIOUS
    <3>2. CASE asked[r] <= count
      <4>1. (count - asked[r] + 1)..count \subseteq Nat \ {0} BY <3>1, <3>2
      <4>2. items \in SUBSET (Key \X (Nat \ {0})) BY <4>1
      <4>3. uncopied' = [uncopied EXCEPT ![r] = items] BY <1>9, <3>2 DEF Load
      <4> HIDE DEF items
      <4> QED BY <4>2, <4>3
    <3>3. CASE ~(asked[r] <= count)
      <4>1. uncopied' = uncopied BY <1>9, <3>3 DEF Load
      <4> QED BY <4>1
    <3> QED BY <3>2, <3>3
  <2>4. wrong' \in [Reader -> SUBSET (Key \X (Nat \ {0}))] BY <1>9 DEF Load
  <2> QED BY <1>9, <2>1, <2>2, <2>3, <2>4 DEF Load, ring, writer
<1>10. ASSUME NEW r \in Reader, NEW c \in uncopied[r], Copy(r, c) PROVE TypeOK'
  <2>1. c \in Key \X (Nat \ {0}) OBVIOUS
  <2>2. uncopied' \in [Reader -> SUBSET (Key \X (Nat \ {0}))] BY <1>10 DEF Copy
  <2>3. wrong' \in [Reader -> SUBSET (Key \X (Nat \ {0}))] BY <1>10, <2>1 DEF Copy
  <2> QED BY <1>10, <2>2, <2>3 DEF Copy, ring, writer
<1>11. ASSUME NEW r \in Reader, Leave(r) PROVE TypeOK'
  BY <1>11 DEF Leave, ring, writer
<1>12. ASSUME NEW r \in Reader, Rest(r) PROVE TypeOK'
  <2>1. asked' \in [Reader -> 1..MaxK] BY <1>12 DEF Rest
  <2>2. loaded' \in [Reader -> Nat] /\ start' \in [Reader -> Nat] BY <1>12 DEF Rest
  <2>3. wrong' \in [Reader -> SUBSET (Key \X (Nat \ {0}))] BY <1>12 DEF Rest
  <2>4. reading' \in [Reader -> {"idle", "load", "copy", "late", "returned"}]
    BY <1>12 DEF Rest
  <2> QED BY <1>12, <2>1, <2>2, <2>3, <2>4 DEF Rest, ring, writer
<1> QED BY <1>1, <1>2, <1>3, <1>4, <1>5, <1>6, <1>7, <1>8, <1>9, <1>10, <1>11, <1>12
        DEF Next, Put, Get

(* Every variable stays in its type (put, get_last_k).                       *)
THEOREM RingTypeOK == Spec => []TypeOK
BY RingTypeInit, RingTypeStep, PTL DEF Spec

-----------------------------------------------------------------------------
LEMMA TimedInit == Init => TimedInv
<1>0. /\ Budget \in Nat \ {0} /\ Period \in Nat \ {0} /\ MaxK \in Nat \ {0}
      /\ SpareSlots \in Nat \ {0} /\ BufferSize \in Nat \ {0}
      /\ BufferSize = SpareSlots + MaxK
  BY RingAssumption, SpareSlotsLast
<1> SUFFICES ASSUME Init PROVE TimedInv
  OBVIOUS
<1>1. WriterInv BY DEF Init, WriterInv
<1>2. SlotInv BY <1>0 DEF Init, SlotInv, Kept
<1>3. StampInv BY <1>0, SlotRange DEF Init, StampInv, Kept, Never
<1>4. ReaderInv BY DEF Init, ReaderInv
<1>5. RateSustained BY DEF Init, RateSustained
<1>6. ReadsWhole BY DEF Init, ReadsWhole
<1> QED BY <1>1, <1>2, <1>3, <1>4, <1>5, <1>6 DEF TimedInv

LEMMA TimedStutter ==
  ASSUME TypeOK, TypeOK', TimedInv, UNCHANGED vars
  PROVE  TimedInv'
<1>0. /\ Budget \in Nat \ {0} /\ Period \in Nat \ {0} /\ MaxK \in Nat \ {0}
      /\ SpareSlots \in Nat \ {0} /\ BufferSize \in Nat \ {0}
      /\ BufferSize = SpareSlots + MaxK
  BY RingAssumption, SpareSlotsLast
<1>1. WriterInv' BY <1>0 DEF TimedInv, TypeOK, WriterInv, vars, ring, writer, readers
<1>2. SlotInv' BY <1>0 DEF TimedInv, TypeOK, SlotInv, Kept, vars, ring, writer, readers
<1>3. StampInv' BY <1>0 DEF TimedInv, TypeOK, StampInv, Kept, vars, ring, writer, readers
<1>4. ReaderInv' BY <1>0 DEF TimedInv, TypeOK, ReaderInv, Reading, vars, ring, writer, readers
<1>5. RateSustained' BY <1>0 DEF TimedInv, TypeOK, RateSustained, vars, ring, writer, readers
<1>6. ReadsWhole' BY <1>0 DEF TimedInv, TypeOK, ReadsWhole, vars, ring, writer, readers
<1> QED BY <1>1, <1>2, <1>3, <1>4, <1>5, <1>6 DEF TimedInv

LEMMA TimedTick ==
  ASSUME TypeOK, TypeOK', TimedInv, Tick
  PROVE  TimedInv'
<1>0. /\ Budget \in Nat \ {0} /\ Period \in Nat \ {0} /\ MaxK \in Nat \ {0}
      /\ SpareSlots \in Nat \ {0} /\ BufferSize \in Nat \ {0}
      /\ BufferSize = SpareSlots + MaxK
  BY RingAssumption, SpareSlotsLast
<1>1. WriterInv' BY <1>0 DEF TimedInv, Tick, TypeOK, WriterInv, vars, ring, writer, readers
<1>2. SlotInv' BY <1>0 DEF TimedInv, Tick, TypeOK, SlotInv, Kept, vars, ring, writer, readers
<1>3. StampInv'  <2>1. UNCHANGED <<count, putting, stamps, lastPut>> /\ clock' = clock + 1
    BY DEF Tick, ring, writer
  <2>2. \A i : Kept(i)' <=> Kept(i) BY <2>1 DEF Kept
  <2>3. stamps[Slot(count + 1)] \in Int
    <3>1. count + 1 \in Int BY DEF TypeOK
    <3>2. Slot(count + 1) \in 0..(BufferSize - 1) BY <3>1, SlotRange
    <3> QED BY <3>2 DEF TypeOK
  <2>4. \A i : (stamps[Slot(i)])' = stamps[Slot(i)] BY <2>1 DEF Slot
  <2> QED BY <2>1, <2>2, <2>3, <2>4 DEF TimedInv, StampInv, TypeOK
<1>4. ReaderInv'  <2>1. UNCHANGED <<count, lastPut, reading, loaded, start, uncopied, wrong>>
        /\ clock' = clock + 1
    BY DEF Tick, ring, writer, readers
  <2>2. ASSUME NEW r \in Reader, reading[r] # "idle" PROVE start[r] <= clock + 1
    BY <2>2 DEF TimedInv, ReaderInv, TypeOK
  <2>3. ASSUME NEW r \in Reader, reading[r] = "copy" PROVE Reading(r)'
    <3>1. Reading(r) BY <2>3 DEF TimedInv, ReaderInv
    <3>2. start[r] \in Nat /\ clock \in Nat /\ Budget \in Nat BY <1>0 DEF TypeOK
    <3>3. wrong[r] # {} => clock + 1 - start[r] > Budget BY <3>1, <3>2 DEF Reading
    <3>4. /\ loaded'[r] = loaded[r] /\ start'[r] = start[r] /\ uncopied'[r] = uncopied[r]
          /\ wrong'[r] = wrong[r] /\ count' = count /\ lastPut' = lastPut
          /\ clock' = clock + 1
      BY <2>1
    <3>5. wrong'[r] # {} => clock' - start'[r] > Budget BY <3>2, <3>3, <3>4
    <3>6. count' > loaded'[r] => lastPut' >= start'[r] + Period * (count' - loaded'[r] - 1)
      BY <3>1, <3>4 DEF Reading
    <3>7. \A c \in uncopied'[r] : c[2] > loaded'[r] - MaxK /\ c[2] <= loaded'[r]
      BY <3>1, <3>4 DEF Reading
    <3>8. loaded'[r] >= 1 /\ loaded'[r] <= count' BY <3>1, <3>4 DEF Reading
    <3> QED BY <3>5, <3>6, <3>7, <3>8 DEF Reading
  <2> QED BY <2>1, <2>2, <2>3 DEF ReaderInv
<1>5. RateSustained' BY <1>0 DEF TimedInv, Tick, TypeOK, RateSustained, vars, ring, writer, readers
<1>6. ReadsWhole' BY <1>0 DEF TimedInv, Tick, TypeOK, ReadsWhole, vars, ring, writer, readers
<1> QED BY <1>1, <1>2, <1>3, <1>4, <1>5, <1>6 DEF TimedInv

LEMMA TimedBeginPut ==
  ASSUME TypeOK, TypeOK', TimedInv, BeginPut
  PROVE  TimedInv'
<1>0. /\ Budget \in Nat \ {0} /\ Period \in Nat \ {0} /\ MaxK \in Nat \ {0}
      /\ SpareSlots \in Nat \ {0} /\ BufferSize \in Nat \ {0}
      /\ BufferSize = SpareSlots + MaxK
  BY RingAssumption, SpareSlotsLast
<1>1. WriterInv' BY <1>0 DEF TimedInv, BeginPut, TypeOK, WriterInv, vars, ring, writer, readers
<1>2. SlotInv' BY <1>0 DEF TimedInv, BeginPut, TypeOK, SlotInv, Kept, vars, ring, writer, readers
<1>3. StampInv' BY <1>0 DEF TimedInv, BeginPut, TypeOK, StampInv, Kept, vars, ring, writer, readers
<1>4. ReaderInv' BY <1>0 DEF TimedInv, BeginPut, TypeOK, ReaderInv, Reading, vars, ring, writer, readers
<1>5. RateSustained'  <2> DEFINE j == count - SpareSlots
  <2>1. j \in Int /\ j <= count /\ j > count - BufferSize /\ j < count
    BY <1>0 DEF TypeOK
  <2>2. Kept(j) BY <2>1 DEF Kept, BeginPut
  <2>3. PreviewStamp = stamps[Slot(j)]
    <3>1. count + MaxK \in Int BY <1>0 DEF TypeOK
    <3>2. Slot((count + MaxK) - BufferSize) = Slot(count + MaxK) BY <3>1, SlotTurn
    <3>3. (count + MaxK) - BufferSize = j BY <1>0 DEF TypeOK
    <3> QED BY <3>2, <3>3 DEF PreviewStamp
  <2>4. stamps[Slot(j)] \in Int BY <2>1, SlotRange DEF TypeOK
  <2>5. CASE j <= 0
    <3>1. stamps[Slot(j)] = Never BY <2>1, <2>2, <2>5 DEF TimedInv, StampInv
    <3> QED BY <1>0, <2>3, <3>1 DEF BeginPut, RateSustained, Never, TypeOK
  <2>6. CASE j > 0
    <3>1. stamps[Slot(j)] + Period * (count - j - 1) <= lastPut
      BY <2>1, <2>2, <2>6 DEF TimedInv, StampInv
    <3>2. count > 1 BY <1>0, <2>6 DEF TypeOK
    <3>3. clock >= lastPut + Period BY <3>2 DEF BeginPut
    <3>4. count - j - 1 = SpareSlots - 1 BY <1>0 DEF TypeOK
    <3>5. Period * (SpareSlots - 1) = Period * SpareSlots - Period BY <1>0
    <3>6. Period * SpareSlots > Budget /\ Period * SpareSlots \in Int
      BY <1>0, SpareSlotsLast
    <3>7. stamps[Slot(j)] + Budget <= clock
      <4> DEFINE P == Period * SpareSlots
      <4>1. stamps[Slot(j)] + (P - Period) <= lastPut BY <3>1, <3>4, <3>5
      <4>2. P \in Int /\ P > Budget BY <3>6
      <4>3. lastPut \in Int /\ clock \in Int BY DEF TypeOK
      <4> HIDE DEF P, j
      <4>4. P - Period \in Int /\ Budget <= (P - Period) + Period BY <1>0, <4>2
      <4> QED BY <1>0, <2>4, <3>3, <4>1, <4>3, <4>4, PeriodPasses
    <3> QED BY <2>3, <3>7 DEF BeginPut, RateSustained
  <2> QED BY <2>1, <2>5, <2>6
<1>6. ReadsWhole' BY <1>0 DEF TimedInv, BeginPut, TypeOK, ReadsWhole, vars, ring, writer, readers
<1> QED BY <1>1, <1>2, <1>3, <1>4, <1>5, <1>6 DEF TimedInv

LEMMA TimedWaken ==
  ASSUME TypeOK, TypeOK', TimedInv, Waken
  PROVE  TimedInv'
<1>0. /\ Budget \in Nat \ {0} /\ Period \in Nat \ {0} /\ MaxK \in Nat \ {0}
      /\ SpareSlots \in Nat \ {0} /\ BufferSize \in Nat \ {0}
      /\ BufferSize = SpareSlots + MaxK
  BY RingAssumption, SpareSlotsLast
<1>1. WriterInv' BY <1>0 DEF TimedInv, Waken, TypeOK, WriterInv, vars, ring, writer, readers
<1>2. SlotInv' BY <1>0 DEF TimedInv, Waken, TypeOK, SlotInv, Kept, vars, ring, writer, readers
<1>3. StampInv' BY <1>0 DEF TimedInv, Waken, TypeOK, StampInv, Kept, vars, ring, writer, readers
<1>4. ReaderInv' BY <1>0 DEF TimedInv, Waken, TypeOK, ReaderInv, Reading, vars, ring, writer, readers
<1>5. RateSustained' BY <1>0 DEF TimedInv, Waken, TypeOK, RateSustained, vars, ring, writer, readers
<1>6. ReadsWhole' BY <1>0 DEF TimedInv, Waken, TypeOK, ReadsWhole, vars, ring, writer, readers
<1> QED BY <1>1, <1>2, <1>3, <1>4, <1>5, <1>6 DEF TimedInv

LEMMA TimedWriteArray ==
  ASSUME TypeOK, TypeOK', TimedInv, NEW k \in Key, WriteArray(k)
  PROVE  TimedInv'
<1>0. /\ Budget \in Nat \ {0} /\ Period \in Nat \ {0} /\ MaxK \in Nat \ {0}
      /\ SpareSlots \in Nat \ {0} /\ BufferSize \in Nat \ {0}
      /\ BufferSize = SpareSlots + MaxK
  BY RingAssumption, SpareSlotsLast
<1>1. WriterInv' BY <1>0 DEF TimedInv, WriteArray, TypeOK, WriterInv, vars, ring, writer, readers
<1>2. SlotInv'  <2>1. count + 1 \in Int BY DEF TypeOK
  <2>2. ASSUME NEW i \in Int, i > count - BufferSize + 1, i <= count
        PROVE  Slot(i) # Slot(count + 1)
    BY <1>0, <2>2, SlotApart DEF TypeOK
  <2>3. \A i \in Int : Slot(i) \in 0..(BufferSize - 1) BY SlotRange
  <2>4. UNCHANGED <<count, putting>> /\ putting = "write"
    BY DEF WriteArray
  <2>5. \A i : Kept(i)' <=> Kept(i) BY <2>4 DEF Kept
  <2>6. \A m : Slot(m)' = Slot(m) BY DEF Slot
  <2>7. slots' = [slots EXCEPT ![k] = [slots[k] EXCEPT ![Slot(count + 1)] = count + 1]]
    BY DEF WriteArray
  <2>8. ASSUME NEW l \in Key, NEW i \in Nat \ {0}, Kept(i) PROVE slots'[l][Slot(i)] = i
    <3>1. Slot(i) # Slot(count + 1) BY <2>2, <2>4, <2>8 DEF Kept
    <3>2. slots[l][Slot(i)] = i BY <2>8 DEF TimedInv, SlotInv
    <3>3. CASE l = k BY <2>1, <2>3, <2>7, <3>1, <3>2, <3>3 DEF TypeOK
    <3>4. CASE l # k BY <2>7, <3>2, <3>4 DEF TypeOK
    <3> QED BY <3>3, <3>4
  <2>9. ASSUME NEW l \in Key \ (unwritten \ {k})
        PROVE  slots'[l][Slot(count + 1)] = count + 1
    <3>1. CASE l = k BY <2>1, <2>3, <2>7, <3>1 DEF TypeOK
    <3>2. CASE l # k BY <2>4, <2>7, <3>2 DEF TypeOK, TimedInv, SlotInv
    <3> QED BY <3>1, <3>2
  <2>10. unwritten' = unwritten \ {k} BY DEF WriteArray
  <2> QED BY <2>4, <2>5, <2>6, <2>8, <2>9, <2>10 DEF SlotInv
<1>3. StampInv' BY <1>0 DEF TimedInv, WriteArray, TypeOK, StampInv, Kept, vars, ring, writer, readers
<1>4. ReaderInv' BY <1>0 DEF TimedInv, WriteArray, TypeOK, ReaderInv, Reading, vars, ring, writer, readers
<1>5. RateSustained' BY <1>0 DEF TimedInv, WriteArray, TypeOK, RateSustained, vars, ring, writer, readers
<1>6. ReadsWhole' BY <1>0 DEF TimedInv, WriteArray, TypeOK, ReadsWhole, vars, ring, writer, readers
<1> QED BY <1>1, <1>2, <1>3, <1>4, <1>5, <1>6 DEF TimedInv

LEMMA TimedStamp ==
  ASSUME TypeOK, TypeOK', TimedInv, Stamp
  PROVE  TimedInv'
<1>0. /\ Budget \in Nat \ {0} /\ Period \in Nat \ {0} /\ MaxK \in Nat \ {0}
      /\ SpareSlots \in Nat \ {0} /\ BufferSize \in Nat \ {0}
      /\ BufferSize = SpareSlots + MaxK
  BY RingAssumption, SpareSlotsLast
<1>1. WriterInv' BY <1>0 DEF TimedInv, Stamp, TypeOK, WriterInv, vars, ring, writer, readers
<1>2. SlotInv' BY <1>0 DEF TimedInv, Stamp, TypeOK, SlotInv, Kept, vars, ring, writer, readers
<1>3. StampInv'  <2>1. count + 1 \in Int BY DEF TypeOK
  <2>2. ASSUME NEW i \in Int, i > count - BufferSize + 1, i <= count
        PROVE  Slot(i) # Slot(count + 1)
    BY <1>0, <2>2, SlotApart DEF TypeOK
  <2>3. \A i \in Int : Slot(i) \in 0..(BufferSize - 1) BY SlotRange
  <2>4. UNCHANGED <<count, lastPut, clock>> /\ putting = "write" /\ putting' = "stamped"
    BY DEF Stamp
  <2>5. \A i : Kept(i)' => Kept(i) /\ i > count - BufferSize + 1 /\ i <= count
    BY <2>4 DEF Kept
  <2>6. \A m : Slot(m)' = Slot(m) BY DEF Slot
  <2>7. \A i \in Int : Kept(i)' => stamps'[Slot(i)] = stamps[Slot(i)]
    BY <2>1, <2>2, <2>3, <2>5 DEF Stamp, TypeOK
  <2>8. stamps'[Slot(count + 1)] = clock BY <2>1, <2>3 DEF Stamp, TypeOK
  <2>9. \A i \in Int : Kept(i)' => IF i <= 0 THEN stamps'[Slot(i)] = Never
                                             ELSE stamps'[Slot(i)] <= lastPut
    BY <2>5, <2>7 DEF TimedInv, StampInv
  <2>10. \A i \in Nat \ {0} : Kept(i)' /\ i < count
           => stamps'[Slot(i)] + Period * (count - i - 1) <= lastPut
    BY <2>5, <2>7 DEF TimedInv, StampInv
  <2> QED BY <2>4, <2>6, <2>8, <2>9, <2>10 DEF StampInv, Never, TypeOK
<1>4. ReaderInv' BY <1>0 DEF TimedInv, Stamp, TypeOK, ReaderInv, Reading, vars, ring, writer, readers
<1>5. RateSustained' BY <1>0 DEF TimedInv, Stamp, TypeOK, RateSustained, vars, ring, writer, readers
<1>6. ReadsWhole' BY <1>0 DEF TimedInv, Stamp, TypeOK, ReadsWhole, vars, ring, writer, readers
<1> QED BY <1>1, <1>2, <1>3, <1>4, <1>5, <1>6 DEF TimedInv

LEMMA TimedCountItem ==
  ASSUME TypeOK, TypeOK', TimedInv, CountItem
  PROVE  TimedInv'
<1>0. /\ Budget \in Nat \ {0} /\ Period \in Nat \ {0} /\ MaxK \in Nat \ {0}
      /\ SpareSlots \in Nat \ {0} /\ BufferSize \in Nat \ {0}
      /\ BufferSize = SpareSlots + MaxK
  BY RingAssumption, SpareSlotsLast
<1>1. WriterInv' BY <1>0 DEF TimedInv, CountItem, TypeOK, WriterInv, vars, ring, writer, readers
<1>2. SlotInv'  <2>1. count' = count + 1 /\ putting = "stamped" /\ putting' = "ready" /\ slots' = slots
    BY DEF CountItem
  <2>2. \A m : Slot(m)' = Slot(m) BY DEF Slot
  <2>3. unwritten = {} BY <2>1 DEF TimedInv, WriterInv
  <2>4. ASSUME NEW k \in Key, NEW i \in Nat \ {0}, Kept(i)' PROVE slots[k][Slot(i)] = i
    <3>1. CASE i = count + 1 BY <2>1, <2>3, <3>1 DEF TimedInv, SlotInv
    <3>2. CASE i # count + 1
      <4>1. Kept(i) BY <1>0, <2>1, <2>4, <3>2 DEF Kept, TypeOK
      <4> QED BY <4>1 DEF TimedInv, SlotInv
    <3> QED BY <3>1, <3>2
  <2> QED BY <2>1, <2>2, <2>4 DEF SlotInv
<1>3. StampInv'  <2>1. /\ count' = count + 1 /\ putting = "stamped" /\ putting' = "ready"
        /\ stamps' = stamps /\ lastPut' = clock
    BY DEF CountItem
  <2>2. \A m : Slot(m)' = Slot(m) BY DEF Slot
  <2>3. \A i \in Int : Kept(i)' => i = count + 1 \/ (Kept(i) /\ i <= count)
    BY <1>0, <2>1 DEF Kept, TypeOK
  <2>4. lastPut <= clock /\ (count > 1 => clock >= lastPut + Period)
    BY <2>1 DEF TimedInv, WriterInv
  <2>5. stamps[Slot(count + 1)] <= clock BY <2>1 DEF TimedInv, StampInv
  <2>6. \A i \in Int : stamps[Slot(i)] \in Int BY SlotRange DEF TypeOK
  <2>7. ASSUME NEW i \in Int, Kept(i)'
        PROVE  IF i <= 0 THEN stamps[Slot(i)] = Never ELSE stamps[Slot(i)] <= clock
    <3>1. CASE i = count + 1 BY <2>5, <3>1 DEF TypeOK
    <3>2. CASE Kept(i) /\ i <= count
      BY <2>4, <2>6, <3>2 DEF TimedInv, StampInv, TypeOK
    <3> QED BY <2>3, <2>7, <3>1, <3>2
  <2>8. ASSUME NEW i \in Nat \ {0}, Kept(i)', i < count + 1
        PROVE  stamps[Slot(i)] + Period * ((count + 1) - i - 1) <= clock
    <3>1. Kept(i) BY <2>3, <2>8 DEF TypeOK
    <3>2. CASE i = count
      <4>1. stamps[Slot(i)] <= lastPut BY <3>1 DEF TimedInv, StampInv
      <4>2. Period * ((count + 1) - i - 1) = 0 BY <1>0, <3>2 DEF TypeOK
      <4> QED BY <2>4, <2>6, <4>1, <4>2 DEF TypeOK
    <3>3. CASE i < count
      <4>1. stamps[Slot(i)] + Period * (count - i - 1) <= lastPut
        BY <3>1, <3>3 DEF TimedInv, StampInv
      <4>2. clock >= lastPut + Period BY <2>4, <3>3 DEF TypeOK
      <4>3. Period * ((count + 1) - i - 1) = Period * (count - i - 1) + Period
        BY <1>0 DEF TypeOK
      <4>4. Period * (count - i - 1) \in Int BY <1>0 DEF TypeOK
      <4> DEFINE s == stamps[Slot(i)]
                 x == Period * (count - i - 1)
                 y == Period * ((count + 1) - i - 1)
      <4>5. s \in Int /\ lastPut \in Int /\ clock \in Int BY <2>6 DEF TypeOK
      <4>6. s + x <= lastPut /\ x \in Int /\ y = x + Period BY <4>1, <4>3, <4>4
      <4> HIDE DEF s, x, y
      <4>7. s + y <= clock BY <1>0, <4>2, <4>5, <4>6, PeriodPasses
      <4> QED BY <4>7 DEF s, y
    <3> QED BY <2>8, <3>2, <3>3 DEF TypeOK
  <2> QED BY <2>1, <2>2, <2>7, <2>8 DEF StampInv, Never
<1>4. ReaderInv'  <2>1. /\ count' = count + 1 /\ putting = "stamped" /\ lastPut' = clock
        /\ UNCHANGED <<clock, reading, loaded, start, uncopied, wrong>>
    BY DEF CountItem, readers
  <2>2. ASSUME NEW r \in Reader, reading[r] = "copy" PROVE Reading(r)'
    <3>1. Reading(r) /\ start[r] <= clock BY <2>2 DEF TimedInv, ReaderInv
    <3>2. count > 1 => clock >= lastPut + Period BY <2>1 DEF TimedInv, WriterInv
    <3>3. clock >= start[r] + Period * ((count + 1) - loaded[r] - 1)
      <4> DEFINE n == count - loaded[r] - 1
                 m == (count + 1) - loaded[r] - 1
      <4>0. n \in Int /\ m \in Int /\ m = n + 1 /\ start[r] \in Nat /\ lastPut \in Int
            /\ clock \in Nat /\ loaded[r] \in Nat /\ count \in Nat
        <5>1. /\ start[r] \in Nat /\ lastPut \in Int /\ clock \in Nat
              /\ loaded[r] \in Nat /\ count \in Nat
          BY DEF TypeOK
        <5> QED BY <5>1
      <4>1. Period * n \in Int /\ Period * m = Period * n + Period
        <5> HIDE DEF n, m
        <5> QED BY <1>0, <4>0, NextMultiple
      <4>2. CASE count = loaded[r]
        <5>1. n = 0 - 1 BY <4>0, <4>2
        <5>2. Period * m = 0 BY <1>0, <4>0, <5>1
        <5> HIDE DEF m
        <5> QED BY <3>1, <4>0, <5>2 DEF m
      <4>3. CASE count > loaded[r]
        <5>1. lastPut >= start[r] + Period * n BY <3>1, <4>3 DEF Reading
        <5>2. clock >= lastPut + Period BY <3>1, <3>2, <4>0, <4>3 DEF Reading
        <5>3. clock >= start[r] + Period * m
          <6> HIDE DEF n, m
          <6> QED BY <1>0, <4>0, <4>1, <5>1, <5>2
        <5> QED BY <5>3
      <4> QED BY <3>1, <4>0, <4>2, <4>3 DEF Reading
    <3> QED BY <2>1, <3>1, <3>3 DEF Reading, TypeOK
  <2> QED BY <2>1, <2>2 DEF TimedInv, ReaderInv
<1>5. RateSustained' BY <1>0 DEF TimedInv, CountItem, TypeOK, RateSustained, vars, ring, writer, readers
<1>6. ReadsWhole' BY <1>0 DEF TimedInv, CountItem, TypeOK, ReadsWhole, vars, ring, writer, readers
<1> QED BY <1>1, <1>2, <1>3, <1>4, <1>5, <1>6 DEF TimedInv

LEMMA TimedEnter ==
  ASSUME TypeOK, TypeOK', TimedInv, NEW r \in Reader, NEW n \in 1..MaxK, Enter(r, n)
  PROVE  TimedInv'
<1>0. /\ Budget \in Nat \ {0} /\ Period \in Nat \ {0} /\ MaxK \in Nat \ {0}
      /\ SpareSlots \in Nat \ {0} /\ BufferSize \in Nat \ {0}
      /\ BufferSize = SpareSlots + MaxK
  BY RingAssumption, SpareSlotsLast
<1>1. WriterInv' BY <1>0 DEF TimedInv, Enter, TypeOK, WriterInv, vars, ring, writer, readers
<1>2. SlotInv' BY <1>0 DEF TimedInv, Enter, TypeOK, SlotInv, Kept, vars, ring, writer, readers
<1>3. StampInv' BY <1>0 DEF TimedInv, Enter, TypeOK, StampInv, Kept, vars, ring, writer, readers
<1>4. ReaderInv'
  <2>1. /\ UNCHANGED <<clock, count, lastPut, loaded, uncopied, wrong>>
        /\ start' = [start EXCEPT ![r] = clock]
        /\ reading' = [reading EXCEPT ![r] = "load"]
    BY DEF Enter, ring, writer
  <2>2. ASSUME NEW q \in Reader
        PROVE  /\ reading'[q] # "idle" => start'[q] <= clock
               /\ reading'[q] = "copy" => Reading(q)'
    <3>1. CASE q = r BY <2>1, <3>1 DEF TypeOK
    <3>2. CASE q # r BY <2>1, <3>2 DEF TypeOK, TimedInv, ReaderInv, Reading
    <3> QED BY <3>1, <3>2
  <2> QED BY <2>1, <2>2 DEF ReaderInv
<1>5. RateSustained' BY <1>0 DEF TimedInv, Enter, TypeOK, RateSustained, vars, ring, writer, readers
<1>6. ReadsWhole' BY <1>0 DEF TimedInv, Enter, TypeOK, ReadsWhole, vars, ring, writer, readers
<1> QED BY <1>1, <1>2, <1>3, <1>4, <1>5, <1>6 DEF TimedInv

LEMMA TimedLoad ==
  ASSUME TypeOK, TypeOK', TimedInv, NEW r \in Reader, Load(r)
  PROVE  TimedInv'
<1>0. /\ Budget \in Nat \ {0} /\ Period \in Nat \ {0} /\ MaxK \in Nat \ {0}
      /\ SpareSlots \in Nat \ {0} /\ BufferSize \in Nat \ {0}
      /\ BufferSize = SpareSlots + MaxK
  BY RingAssumption, SpareSlotsLast
<1>1. WriterInv' BY <1>0 DEF TimedInv, Load, TypeOK, WriterInv, vars, ring, writer, readers
<1>2. SlotInv' BY <1>0 DEF TimedInv, Load, TypeOK, SlotInv, Kept, vars, ring, writer, readers
<1>3. StampInv' BY <1>0 DEF TimedInv, Load, TypeOK, StampInv, Kept, vars, ring, writer, readers
<1>4. ReaderInv'
  <2>1. reading[r] = "load" /\ start[r] <= clock BY DEF Load, TimedInv, ReaderInv
  <2>2. UNCHANGED <<clock, count, lastPut, start>> BY DEF Load, ring, writer
  <2>3. ASSUME reading'[r] = "copy" PROVE Reading(r)'
    <3>1. asked[r] <= count /\ asked[r] \in 1..MaxK BY <2>3 DEF Load, TypeOK
    <3>2. /\ loaded'[r] = count /\ wrong'[r] = {}
          /\ uncopied'[r] = Key \X ((count - asked[r] + 1)..count)
      BY <3>1 DEF Load, TypeOK
    <3>3. \A c \in uncopied'[r] : c[2] > count - MaxK /\ c[2] <= count
      <4>1. ASSUME NEW c \in uncopied'[r] PROVE c[2] \in (count - asked[r] + 1)..count
        BY <3>2, <4>1
      <4>2. ASSUME NEW m \in (count - asked[r] + 1)..count
            PROVE  m > count - MaxK /\ m <= count
        <5>1. count \in Nat /\ asked[r] \in Nat /\ asked[r] <= MaxK /\ MaxK \in Nat
          BY <1>0, <3>1 DEF TypeOK
        <5> QED BY <5>1
      <4> QED BY <4>1, <4>2
    <3>4. count >= 1 /\ count \in Nat BY <3>1 DEF TypeOK
    <3> QED BY <2>2, <3>2, <3>3, <3>4 DEF Reading
  <2>4. ASSUME NEW s \in Reader, s # r
        PROVE  reading'[s] = reading[s] /\ (Reading(s)' <=> Reading(s))
    <3>1. /\ reading'[s] = reading[s] /\ loaded'[s] = loaded[s]
          /\ uncopied'[s] = uncopied[s] /\ wrong'[s] = wrong[s]
      BY <2>4 DEF Load, TypeOK
    <3> QED BY <2>2, <3>1 DEF Reading
  <2> QED BY <2>1, <2>2, <2>3, <2>4 DEF TimedInv, ReaderInv
<1>5. RateSustained' BY <1>0 DEF TimedInv, Load, TypeOK, RateSustained, vars, ring, writer, readers
<1>6. ReadsWhole' BY <1>0 DEF TimedInv, Load, TypeOK, ReadsWhole, vars, ring, writer, readers
<1> QED BY <1>1, <1>2, <1>3, <1>4, <1>5, <1>6 DEF TimedInv

LEMMA TimedCopy ==
  ASSUME TypeOK, TypeOK', TimedInv, NEW r \in Reader, NEW c \in uncopied[r], Copy(r, c)
  PROVE  TimedInv'
<1>0. /\ Budget \in Nat \ {0} /\ Period \in Nat \ {0} /\ MaxK \in Nat \ {0}
      /\ SpareSlots \in Nat \ {0} /\ BufferSize \in Nat \ {0}
      /\ BufferSize = SpareSlots + MaxK
  BY RingAssumption, SpareSlotsLast
<1>1. WriterInv' BY <1>0 DEF TimedInv, Copy, TypeOK, WriterInv, vars, ring, writer, readers
<1>2. SlotInv' BY <1>0 DEF TimedInv, Copy, TypeOK, SlotInv, Kept, vars, ring, writer, readers
<1>3. StampInv' BY <1>0 DEF TimedInv, Copy, TypeOK, StampInv, Kept, vars, ring, writer, readers
<1>4. ReaderInv'  <2> DEFINE k == c[1]
             i == c[2]
  <2>1. Reading(r) /\ start[r] <= clock BY DEF Copy, TimedInv, ReaderInv
  <2>2. /\ k \in Key /\ i \in Nat \ {0} /\ i > loaded[r] - MaxK /\ i <= loaded[r]
    BY <2>1 DEF Reading, TypeOK
  <2>3. ASSUME slots[k][Slot(i)] # i PROVE clock - start[r] > Budget
    <3>1. ~ Kept(i) BY <2>2, <2>3 DEF TimedInv, SlotInv
    <3> DEFINE u == count - loaded[r]
               n == u - 1
               P == Period * SpareSlots
    <3>0. /\ start[r] \in Nat /\ lastPut \in Int /\ clock \in Nat /\ count \in Nat
          /\ loaded[r] \in Nat /\ loaded[r] >= 1 /\ loaded[r] <= count
      BY <2>1 DEF Reading, TypeOK
    <3>2. u \in Nat /\ n \in Int /\ u = n + 1 /\ i <= count BY <2>2, <3>0
    <3>3. P > Budget /\ P \in Int BY <1>0, SpareSlotsLast
    <3>4. u >= SpareSlots /\ (u = SpareSlots => putting \in {"write", "stamped"})
      BY <1>0, <2>2, <3>0, <3>1, <3>2 DEF Kept
    <3>5. lastPut >= start[r] + Period * n
      <4>1. count > loaded[r] BY <1>0, <3>0, <3>4
      <4> QED BY <2>1, <4>1 DEF Reading
    <3>6. lastPut <= clock /\ (putting # "ready" /\ count > 1 => clock >= lastPut + Period)
      BY DEF TimedInv, WriterInv
    <3>7. Period * n \in Int /\ Period * u = Period * n + Period
      <4> HIDE DEF n, u
      <4> QED BY <1>0, <3>2, NextMultiple
    <3>8. CASE u > SpareSlots
      <4>1. n >= SpareSlots BY <1>0, <3>2, <3>8
      <4>2. Period * n >= P
        <5> HIDE DEF n, u
        <5> QED BY <1>0, <3>2, <4>1
      <4> HIDE DEF P, u, n
      <4> QED BY <1>0, <3>0, <3>3, <3>5, <3>6, <3>7, <4>2
    <3>9. CASE u = SpareSlots
      <4>1. Period * u = P BY <3>9
      <4>2. count > 1 BY <1>0, <3>0, <3>9
      <4>3. putting # "ready" BY <3>4, <3>9
      <4>4. clock >= lastPut + Period BY <3>6, <4>2, <4>3
      <4> HIDE DEF P, u, n
      <4> QED BY <1>0, <3>0, <3>3, <3>5, <3>7, <4>1, <4>4
    <3> QED BY <1>0, <3>2, <3>4, <3>8, <3>9
  <2>4. /\ reading' = reading /\ UNCHANGED <<clock, count, lastPut, loaded, start>>
        /\ uncopied' = [uncopied EXCEPT ![r] = uncopied[r] \ {c}]
        /\ wrong' = [wrong EXCEPT ![r] =
                       IF slots[k][Slot(i)] = i THEN wrong[r] ELSE wrong[r] \cup {c}]
    BY DEF Copy, ring, writer
  <2> HIDE DEF k, i
  <2>5. wrong'[r] # {} => clock - start[r] > Budget
    BY <2>1, <2>3, <2>4 DEF Reading, TypeOK
  <2>6. \A d \in uncopied'[r] : d \in uncopied[r] BY <2>4 DEF TypeOK
  <2>7. Reading(r)' BY <2>1, <2>4, <2>5, <2>6 DEF Reading
  <2>8. ASSUME NEW s \in Reader, s # r PROVE Reading(s)' <=> Reading(s)
    BY <2>4, <2>8 DEF Reading, TypeOK
  <2> QED BY <2>4, <2>7, <2>8 DEF TimedInv, ReaderInv
<1>5. RateSustained' BY <1>0 DEF TimedInv, Copy, TypeOK, RateSustained, vars, ring, writer, readers
<1>6. ReadsWhole' BY <1>0 DEF TimedInv, Copy, TypeOK, ReadsWhole, vars, ring, writer, readers
<1> QED BY <1>1, <1>2, <1>3, <1>4, <1>5, <1>6 DEF TimedInv

LEMMA TimedLeave ==
  ASSUME TypeOK, TypeOK', TimedInv, NEW r \in Reader, Leave(r)
  PROVE  TimedInv'
<1>0. /\ Budget \in Nat \ {0} /\ Period \in Nat \ {0} /\ MaxK \in Nat \ {0}
      /\ SpareSlots \in Nat \ {0} /\ BufferSize \in Nat \ {0}
      /\ BufferSize = SpareSlots + MaxK
  BY RingAssumption, SpareSlotsLast
<1>1. WriterInv' BY <1>0 DEF TimedInv, Leave, TypeOK, WriterInv, vars, ring, writer, readers
<1>2. SlotInv' BY <1>0 DEF TimedInv, Leave, TypeOK, SlotInv, Kept, vars, ring, writer, readers
<1>3. StampInv' BY <1>0 DEF TimedInv, Leave, TypeOK, StampInv, Kept, vars, ring, writer, readers
<1>4. ReaderInv' BY <1>0 DEF TimedInv, Leave, TypeOK, ReaderInv, Reading, vars, ring, writer, readers
<1>5. RateSustained' BY <1>0 DEF TimedInv, Leave, TypeOK, RateSustained, vars, ring, writer, readers
<1>6. ReadsWhole'  <2>1. reading[r] = "copy" /\ UNCHANGED <<clock, start, wrong>> BY DEF Leave
  <2>2. wrong[r] # {} => clock - start[r] > Budget
    BY <2>1 DEF TimedInv, ReaderInv, Reading
  <2>3. reading'[r] = "returned" => wrong[r] = {} BY <2>2 DEF Leave, TypeOK
  <2>4. \A s \in Reader \ {r} : reading'[s] = reading[s] BY DEF Leave, TypeOK
  <2> QED BY <2>1, <2>3, <2>4 DEF TimedInv, ReadsWhole
<1> QED BY <1>1, <1>2, <1>3, <1>4, <1>5, <1>6 DEF TimedInv

LEMMA TimedRest ==
  ASSUME TypeOK, TypeOK', TimedInv, NEW r \in Reader, Rest(r)
  PROVE  TimedInv'
<1>0. /\ Budget \in Nat \ {0} /\ Period \in Nat \ {0} /\ MaxK \in Nat \ {0}
      /\ SpareSlots \in Nat \ {0} /\ BufferSize \in Nat \ {0}
      /\ BufferSize = SpareSlots + MaxK
  BY RingAssumption, SpareSlotsLast
<1>1. WriterInv' BY <1>0 DEF TimedInv, Rest, TypeOK, WriterInv, vars, ring, writer, readers
<1>2. SlotInv' BY <1>0 DEF TimedInv, Rest, TypeOK, SlotInv, Kept, vars, ring, writer, readers
<1>3. StampInv' BY <1>0 DEF TimedInv, Rest, TypeOK, StampInv, Kept, vars, ring, writer, readers
<1>4. ReaderInv' BY <1>0 DEF TimedInv, Rest, TypeOK, ReaderInv, Reading, vars, ring, writer, readers
<1>5. RateSustained' BY <1>0 DEF TimedInv, Rest, TypeOK, RateSustained, vars, ring, writer, readers
<1>6. ReadsWhole' BY <1>0 DEF TimedInv, Rest, TypeOK, ReadsWhole, vars, ring, writer, readers
<1> QED BY <1>1, <1>2, <1>3, <1>4, <1>5, <1>6 DEF TimedInv

LEMMA TimedStep ==
  ASSUME TypeOK, TypeOK', TimedInv, [Next]_vars
  PROVE  TimedInv'
<1>1. CASE UNCHANGED vars BY <1>1, TimedStutter
<1>2. CASE Tick BY <1>2, TimedTick
<1>3. CASE Put
  BY <1>3, TimedBeginPut, TimedWaken, TimedWriteArray, TimedStamp, TimedCountItem DEF Put
<1>4. ASSUME NEW r \in Reader, Get(r) PROVE TimedInv'
  BY <1>4, TimedLoad, TimedCopy, TimedLeave, TimedRest DEF Get
<1>5. ASSUME NEW r \in Reader, NEW n \in 1..MaxK, Enter(r, n) PROVE TimedInv'
  BY <1>5, TimedEnter
<1> QED BY <1>1, <1>2, <1>3, <1>4, <1>5 DEF Next

LEMMA TimedAlways == Spec => []TimedInv
BY RingTypeInit, RingTypeStep, TimedInit, TimedStep, PTL DEF Spec

(* A reader never returns a torn or overwritten item, however many items it  *)
(* reads and wherever they lie in the buffer (get_last_k, put, buffer_size). *)
THEOREM ReadsAreWhole == Spec => []ReadsWhole
<1>1. TimedInv => ReadsWhole BY DEF TimedInv
<1> QED BY <1>1, TimedAlways, PTL

(* The slots suffice for the frequency that they were computed from: put     *)
(* never sleeps in a writer that keeps to it (buffer_size, put).             *)
THEOREM PutsNeverWait == Spec => []RateSustained
<1>1. TimedInv => RateSustained BY DEF TimedInv
<1> QED BY <1>1, TimedAlways, PTL
=============================================================================
