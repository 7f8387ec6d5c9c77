----------------------------- MODULE RingBuffer ------------------------------
(***************************************************************************)
(* The lock-free ring buffer in shared memory (shared_memory_ring_buffer)  *)
(* and its user, the Spacemouse process, which puts a sample and sleeps    *)
(* for 1 / frequency, but for the very first one, while other processes    *)
(* read the last samples.  There is one writer; it writes the arrays of a  *)
(* slot one after the other, and a reader copies slot by slot.  Items are  *)
(* numbered from 1, and item m is kept in slot (m - 1) % BufferSize.       *)
(***************************************************************************)
EXTENDS Integers, FiniteSets

CONSTANTS
  Key,      \* the arrays of an item
  Reader,   \* the reading processes
  MaxK,     \* get_max_k: items read at once
  Budget,   \* get_time_budget, in ticks
  Period,   \* 1 / put_desired_frequency, in ticks: the writer's sleep
  MaxPuts,  \* bound: items put
  MaxTime   \* bound: the last tick at which a put begins

ASSUME RingAssumption ==
  /\ MaxK \in Nat \ {0} /\ Budget \in Nat \ {0} /\ Period \in Nat \ {0}
  /\ MaxPuts \in Nat /\ MaxTime \in Nat

VARIABLES
  clock,    \* time.monotonic()
  slots,    \* slots[k][i]: the item whose value array k has at slot i
  stamps,   \* the time-stamps of the slots
  count,    \* the shared counter: items put
  putting,  \* what the writer is doing
  unwritten,\* the arrays that the put has still to write
  wake,     \* when it may write, after sleeping
  lastPut,  \* when the last put returned
  reading,  \* what each reader is doing
  asked,    \* the number of items it reads
  loaded,   \* the counter it has read
  start,    \* when it started
  uncopied, \* what it has still to copy: <<array, item>>
  wrong     \* what it has copied that was not the item

ring == <<slots, stamps, count>>
writer == <<putting, unwritten, wake, lastPut>>
readers == <<reading, asked, loaded, start, uncopied, wrong>>
vars == <<clock, ring, writer, readers>>
-----------------------------------------------------------------------------
(* Mutant: no safety margin, rounded down.                                   *)
SpareSlotsExact == Budget \div Period

(* The slots beyond get_max_k: the puts of one and a half time budgets.      *)
SpareSlots == (3 * Budget + 2 * Period - 1) \div (2 * Period)

BufferSize == SpareSlots + MaxK

Slot(m) == (m - 1) % BufferSize

Never == 0 - Budget   \* stands for -inf: older than every budget

Init ==
  /\ clock = 0
  /\ slots = [k \in Key |-> [i \in 0..(BufferSize - 1) |-> 0]]
  /\ stamps = [i \in 0..(BufferSize - 1) |-> Never]
  /\ count = 0
  /\ putting = "ready" /\ unwritten = {} /\ wake = 0 /\ lastPut = 0
  /\ reading = [r \in Reader |-> "idle"]
  /\ asked = [r \in Reader |-> 1]
  /\ loaded = [r \in Reader |-> 0]
  /\ start = [r \in Reader |-> 0]
  /\ uncopied = [r \in Reader |-> {}]
  /\ wrong = [r \in Reader |-> {}]

Tick ==
  /\ clock < MaxTime + Budget
  /\ clock' = clock + 1
  /\ UNCHANGED <<ring, writer, readers>>
-----------------------------------------------------------------------------
(* put(), by the one writer.                                                 *)

(* Mutant: the slot is looked for in the wrong direction.                    *)
PreviewStampBehind == stamps[Slot(count + 2 - MaxK)]

(* The slot after which get_max_k - 1 items follow the one to be replaced.   *)
PreviewStamp == stamps[Slot(count + MaxK)]

(* The time-stamp is compared with the clock, and a put that comes too early *)
(* sleeps for the rest of the budget.                                        *)
BeginPut ==
  /\ putting = "ready" /\ count < MaxPuts /\ clock <= MaxTime
  /\ count > 1 => clock >= lastPut + Period
  /\ wake' = PreviewStamp + Budget
  /\ putting' = "wait"
  /\ UNCHANGED <<clock, ring, unwritten, lastPut, readers>>

Waken ==
  /\ putting = "wait" /\ clock >= wake
  /\ putting' = "write" /\ unwritten' = Key
  /\ UNCHANGED <<clock, ring, wake, lastPut, readers>>

WriteArray(k) ==
  /\ putting = "write" /\ k \in unwritten
  /\ slots' = [slots EXCEPT ![k][Slot(count + 1)] = count + 1]
  /\ unwritten' = unwritten \ {k}
  /\ UNCHANGED <<clock, stamps, count, putting, wake, lastPut, readers>>

Stamp ==
  /\ putting = "write" /\ unwritten = {}
  /\ stamps' = [stamps EXCEPT ![Slot(count + 1)] = clock]
  /\ putting' = "stamped"
  /\ UNCHANGED <<clock, slots, count, unwritten, wake, lastPut, readers>>

CountItem ==
  /\ putting = "stamped"
  /\ count' = count + 1
  /\ lastPut' = clock /\ wake' = 0
  /\ putting' = "ready"
  /\ UNCHANGED <<clock, slots, stamps, unwritten, readers>>

Put == BeginPut \/ Waken \/ (\E k \in Key : WriteArray(k)) \/ Stamp \/ CountItem
-----------------------------------------------------------------------------
(* get() reads one item and get_last_k(n) the last n.                        *)

Enter(r, n) ==
  /\ reading[r] = "idle"
  /\ reading' = [reading EXCEPT ![r] = "load"]
  /\ asked' = [asked EXCEPT ![r] = n]
  /\ start' = [start EXCEPT ![r] = clock]
  /\ UNCHANGED <<clock, ring, writer, loaded, uncopied, wrong>>

(* Fewer items than asked for fail an assertion.                             *)
Load(r) ==
  /\ reading[r] = "load"
  /\ IF asked[r] <= count
     THEN /\ reading' = [reading EXCEPT ![r] = "copy"]
          /\ loaded' = [loaded EXCEPT ![r] = count]
          /\ uncopied' = [uncopied EXCEPT ![r] = Key \X ((count - asked[r] + 1)..count)]
          /\ wrong' = [wrong EXCEPT ![r] = {}]
     ELSE /\ reading' = [reading EXCEPT ![r] = "idle"]
          /\ UNCHANGED <<loaded, uncopied, wrong>>
  /\ UNCHANGED <<clock, ring, writer, asked, start>>

Copy(r, c) ==
  /\ reading[r] = "copy" /\ c \in uncopied[r]
  /\ uncopied' = [uncopied EXCEPT ![r] = uncopied[r] \ {c}]
  /\ wrong' = [wrong EXCEPT ![r] =
                 IF slots[c[1]][Slot(c[2])] = c[2] THEN wrong[r] ELSE wrong[r] \cup {c}]
  /\ UNCHANGED <<clock, ring, writer, reading, asked, loaded, start>>

(* A read that took too long raises, whatever it has copied.                 *)
Leave(r) ==
  /\ reading[r] = "copy" /\ uncopied[r] = {}
  /\ reading' = [reading EXCEPT ![r] =
                   IF clock - start[r] > Budget THEN "late" ELSE "returned"]
  /\ UNCHANGED <<clock, ring, writer, asked, loaded, start, uncopied, wrong>>

(* The caller goes on; the locals of its read are gone.                      *)
Rest(r) ==
  /\ reading[r] \in {"late", "returned"}
  /\ reading' = [reading EXCEPT ![r] = "idle"]
  /\ asked' = [asked EXCEPT ![r] = 1]
  /\ loaded' = [loaded EXCEPT ![r] = 0]
  /\ start' = [start EXCEPT ![r] = 0]
  /\ wrong' = [wrong EXCEPT ![r] = {}]
  /\ UNCHANGED <<clock, ring, writer, uncopied>>

Get(r) == Load(r) \/ (\E c \in uncopied[r] : Copy(r, c)) \/ Leave(r) \/ Rest(r)
-----------------------------------------------------------------------------
Next ==
  \/ Tick
  \/ Put
  \/ \E r \in Reader : Get(r) \/ \E n \in 1..MaxK : Enter(r, n)

Spec == Init /\ [][Next]_vars
-----------------------------------------------------------------------------
TypeOK ==
  /\ clock \in Nat /\ count \in Nat
  /\ slots \in [Key -> [0..(BufferSize - 1) -> Nat]]
  /\ stamps \in [0..(BufferSize - 1) -> Int]
  /\ putting \in {"ready", "wait", "write", "stamped"}
  /\ unwritten \subseteq Key /\ wake \in Int /\ lastPut \in Int
  /\ reading \in [Reader -> {"idle", "load", "copy", "late", "returned"}]
  /\ asked \in [Reader -> 1..MaxK]
  /\ loaded \in [Reader -> Nat] /\ start \in [Reader -> Nat]
  /\ uncopied \in [Reader -> SUBSET (Key \X (Nat \ {0}))]
  /\ wrong \in [Reader -> SUBSET (Key \X (Nat \ {0}))]

(* A read that returns has the items it asked for, each of them whole, not a *)
(* mixture with an item that was written meanwhile (put, get_last_k).        *)
ReadsWhole == \A r \in Reader : reading[r] = "returned" => wrong[r] = {}

(* A writer that keeps to the frequency the buffer was made for never has to *)
(* sleep in a put: the slots suffice for that frequency (the comment at      *)
(* buffer_size).                                                             *)
RateSustained == putting = "wait" => wake <= clock
=============================================================================
