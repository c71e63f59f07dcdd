------------------------------ MODULE PoseRing ------------------------------
(***************************************************************************)
(* The shared-memory ring through which the driver hands raw device poses  *)
(* to the overlay: class DriverPoseShmem of src/common/Protocol.h.         *)
(*                                                                         *)
(* Inside vrserver every driver thread that reports a pose runs SetPose    *)
(* (the hook calls it from HandleDevicePoseUpdated): it loads the index,   *)
(* copies the pose into the next slot, then stores the index.  In the      *)
(* overlay the calibration tick and the telemetry window each own a        *)
(* reader: it loads the index once, repairs its cursor if it is out of     *)
(* range, and passes every slot from its cursor up to the loaded index to  *)
(* a callback.  Nothing locks.  Copying a pose is not atomic, so a slot    *)
(* that is being written is Torn, and a slot two threads wrote at the same *)
(* time may be left Mixed.  A sample is its sequence number, the index its *)
(* writer stores; a zeroed slot holds 0.                                   *)
(*                                                                         *)
(* The driver process may die at any step, and a new one runs Create on    *)
(* the segment that the readers still have mapped: it zeroes the ring      *)
(* location by location, in no order a reader may rely on, while the pose  *)
(* hooks, installed before Create, may already call SetPose.               *)
(***************************************************************************)
EXTENDS Integers

CONSTANTS Writers,     \* driver threads that report poses
          Readers,     \* the overlay's DriverPoseShmem objects
          Half,        \* BUFFERED_SAMPLES / 2
          MaxIndex,    \* bound: no SetPose starts once the index is there
          MaxCrashes   \* bound: how often the driver process may die

ASSUME HalfAssumption == Half \in Nat \ {0}
ASSUME BoundAssumption == MaxIndex \in Nat /\ MaxCrashes \in Nat

BUFFERED_SAMPLES == 2 * Half
Slot == 0 .. BUFFERED_SAMPLES - 1
SlotOf(i) == i % BUFFERED_SAMPLES

Torn == -1     \* a copy into the slot is under way
Mixed == -2    \* two copies overlapped: the slot mixes two poses
Sample == Nat \cup {Torn, Mixed}

IndexField == -1   \* the location of the index, beside the slots

VARIABLES
  index,     \* pData->index
  slots,     \* pData->poses
  wpc,       \* where each writer is in SetPose
  wcur,      \* SetPose's local cur_index
  rpc,       \* where each reader is in ReadNewPoses
  snap,      \* ReadNewPoses' local cur_index
  cursor,    \* the reader's cursor
  held,      \* what a reader saw when it began to copy a slot
  driver,    \* the driver process: "up", "down", or "creating" the segment
  todo,      \* the locations its Create has yet to zero
  crashes,   \* how often it died
  ring,      \* history: is the content whole? "intact", "zeroing", "spoiled"
  steady,    \* history: no Create since the reader's load, and it saw a whole ring
  out        \* history: the last callback of each reader

writerVars == <<wpc, wcur>>
readerVars == <<rpc, snap, cursor, held, steady, out>>
driverVars == <<driver, todo, crashes, ring>>
vars == <<index, slots, writerVars, readerVars, driverVars>>

Init ==
  /\ index = 0
  /\ slots = [s \in Slot |-> 0]
  /\ wpc = [w \in Writers |-> "idle"]
  /\ wcur = [w \in Writers |-> 0]
  /\ rpc = [r \in Readers |-> "idle"]
  /\ snap = [r \in Readers |-> 0]
  /\ cursor = [r \in Readers |-> 0]
  /\ held = [r \in Readers |-> 0]
  /\ driver = "up"
  /\ todo = {}
  /\ crashes = 0
  /\ ring = "intact"
  /\ steady = [r \in Readers |-> TRUE]
  /\ out = [r \in Readers |-> [at |-> 0, sample |-> 0, calm |-> TRUE, steady |-> TRUE]]

-----------------------------------------------------------------------------
(* SetPose.  pData is set as soon as Create has mapped the segment, so a   *)
(* writer may run while Create is still zeroing.                           *)

LoadIndex(w) ==
  /\ wpc[w] = "idle"
  /\ driver \in {"creating", "up"}
  /\ index < MaxIndex
  /\ wcur' = [wcur EXCEPT ![w] = index + 1]
  /\ wpc' = [wpc EXCEPT ![w] = "loaded"]
  /\ ring' = IF driver = "creating" THEN "spoiled" ELSE ring
  /\ UNCHANGED <<index, slots, readerVars, driver, todo, crashes>>

BeginCopy(w) ==
  /\ wpc[w] = "loaded"
  /\ slots' = [slots EXCEPT ![SlotOf(wcur[w])] = Torn]
  /\ wpc' = [wpc EXCEPT ![w] = "copying"]
  /\ UNCHANGED <<index, wcur, readerVars, driverVars>>

\* Another thread is copying into the slot w is copying into.
Contended(w) ==
  \E v \in Writers \ {w} : wpc[v] = "copying" /\ SlotOf(wcur[v]) = SlotOf(wcur[w])

\* What the slot may hold when w's copy ends: its own sample, unless another
\* copy overlapped with it.
CopyResult(w) ==
  IF Contended(w) THEN {Mixed}
  ELSE IF slots[SlotOf(wcur[w])] = Torn THEN {wcur[w]} ELSE {wcur[w], Mixed}

EndCopy(w) ==
  /\ wpc[w] = "copying"
  /\ \E s \in CopyResult(w) : slots' = [slots EXCEPT ![SlotOf(wcur[w])] = s]
  /\ wpc' = [wpc EXCEPT ![w] = "copied"]
  /\ UNCHANGED <<index, wcur, readerVars, driverVars>>

\* Mutant: the index is incremented in place, whatever slot was filled.
PublishByIncrement(w) ==
  /\ wpc[w] = "copied"
  /\ index' = index + 1
  /\ wpc' = [wpc EXCEPT ![w] = "idle"]
  /\ wcur' = [wcur EXCEPT ![w] = 0]
  /\ UNCHANGED <<slots, readerVars, driverVars>>

Publish(w) ==
  /\ wpc[w] = "copied"
  /\ index' = wcur[w]
  /\ wpc' = [wpc EXCEPT ![w] = "idle"]
  /\ wcur' = [wcur EXCEPT ![w] = 0]
  /\ UNCHANGED <<slots, readerVars, driverVars>>

-----------------------------------------------------------------------------
(* ReadNewPoses *)

\* Mutants of Resync: no test for a young index; a whole ring of lag allowed;
\* every load rewinds the cursor.
ResyncBelowZero(c, cur) == IF cur < c \/ cur - c > Half THEN cur - Half ELSE c
ResyncLate(c, cur) ==
  IF cur < c \/ cur - c > BUFFERED_SAMPLES
  THEN IF cur < Half THEN cur ELSE cur - Half
  ELSE c
ResyncAlways(c, cur) == IF cur < Half THEN cur ELSE cur - Half

\* A cursor ahead of the index or more than half a ring behind it is moved.
Resync(c, cur) ==
  IF cur < c \/ cur - c > Half
  THEN IF cur < Half THEN cur ELSE cur - Half
  ELSE c

Load(r) ==
  /\ rpc[r] = "idle"
  /\ snap' = [snap EXCEPT ![r] = index]
  /\ cursor' = [cursor EXCEPT ![r] = Resync(cursor[r], index)]
  /\ steady' = [steady EXCEPT ![r] = (ring = "intact")]
  /\ rpc' = [rpc EXCEPT ![r] = "loop"]
  /\ UNCHANGED <<index, slots, writerVars, held, out, driverVars>>

BeginRead(r) ==
  /\ rpc[r] = "loop"
  /\ cursor[r] < snap[r]
  /\ held' = [held EXCEPT ![r] = slots[SlotOf(cursor[r])]]
  /\ rpc' = [rpc EXCEPT ![r] = "copy"]
  /\ UNCHANGED <<index, slots, writerVars, snap, cursor, steady, out, driverVars>>

\* Fewer than half a ring of samples came in since the reader's load.
Calm(r) == steady[r] /\ index < snap[r] + Half - 1

\* Mutant: the cursor stays where it is.
EndReadInPlace(r) ==
  /\ rpc[r] = "copy"
  /\ out' = [out EXCEPT ![r] =
       [at |-> cursor[r],
        sample |-> IF slots[SlotOf(cursor[r])] = held[r] THEN held[r] ELSE Torn,
        calm |-> Calm(r),
        steady |-> steady[r]]]
  /\ held' = [held EXCEPT ![r] = 0]
  /\ rpc' = [rpc EXCEPT ![r] = "loop"]
  /\ UNCHANGED <<index, slots, writerVars, snap, cursor, steady, driverVars>>

\* The callback has copied the pose; it is torn if the slot changed meanwhile.
EndRead(r) ==
  /\ rpc[r] = "copy"
  /\ out' = [out EXCEPT ![r] =
       [at |-> cursor[r],
        sample |-> IF slots[SlotOf(cursor[r])] = held[r] THEN held[r] ELSE Torn,
        calm |-> Calm(r),
        steady |-> steady[r]]]
  /\ cursor' = [cursor EXCEPT ![r] = @ + 1]
  /\ held' = [held EXCEPT ![r] = 0]
  /\ rpc' = [rpc EXCEPT ![r] = "loop"]
  /\ UNCHANGED <<index, slots, writerVars, snap, steady, driverVars>>

Return(r) ==
  /\ rpc[r] = "loop"
  /\ cursor[r] >= snap[r]
  /\ rpc' = [rpc EXCEPT ![r] = "idle"]
  /\ UNCHANGED <<index, slots, writerVars, snap, cursor, held, steady, out, driverVars>>

-----------------------------------------------------------------------------
(* The driver process: Cleanup or a crash ends it at any step; the next    *)
(* one's Init runs Create, whose placement new zeroes the whole segment.   *)

Crash ==
  /\ driver # "down"
  /\ crashes < MaxCrashes
  /\ crashes' = crashes + 1
  /\ driver' = "down"
  /\ todo' = {}
  /\ wpc' = [w \in Writers |-> "idle"]
  /\ wcur' = [w \in Writers |-> 0]
  /\ UNCHANGED <<index, slots, readerVars, ring>>

BeginCreate ==
  /\ driver = "down"
  /\ driver' = "creating"
  /\ todo' = Slot \cup {IndexField}
  /\ ring' = "zeroing"
  /\ steady' = [r \in Readers |-> FALSE]
  /\ UNCHANGED <<index, slots, writerVars, rpc, snap, cursor, held, out, crashes>>

ZeroIndex ==
  /\ IndexField \in todo
  /\ index' = 0
  /\ todo' = todo \ {IndexField}
  /\ UNCHANGED <<slots, writerVars, readerVars, driver, crashes, ring>>

ZeroSlot(s) ==
  /\ s \in todo
  /\ slots' = [slots EXCEPT ![s] = 0]
  /\ todo' = todo \ {s}
  /\ UNCHANGED <<index, writerVars, readerVars, driver, crashes, ring>>

EndCreate ==
  /\ driver = "creating"
  /\ todo = {}
  /\ driver' = "up"
  /\ ring' = IF ring = "zeroing" THEN "intact" ELSE ring
  /\ UNCHANGED <<index, slots, writerVars, readerVars, todo, crashes>>

-----------------------------------------------------------------------------
Writer(w) == LoadIndex(w) \/ BeginCopy(w) \/ EndCopy(w) \/ Publish(w)
Reader(r) == Load(r) \/ BeginRead(r) \/ EndRead(r) \/ Return(r)
Driver == Crash \/ BeginCreate \/ ZeroIndex \/ (\E s \in Slot : ZeroSlot(s)) \/ EndCreate

Next ==
  \/ \E w \in Writers : Writer(w)
  \/ \E r \in Readers : Reader(r)
  \/ Driver

Spec == Init /\ [][Next]_vars

\* The overlay's main loop keeps polling and a callback always returns; the
\* driver promises nothing: poses may stop and a dead driver may stay dead.
FairSpec == Spec /\ \A r \in Readers : WF_vars(Reader(r))

-----------------------------------------------------------------------------
(* Properties *)

TypeOK ==
  /\ index \in Nat
  /\ slots \in [Slot -> Sample]
  /\ wpc \in [Writers -> {"idle", "loaded", "copying", "copied"}]
  /\ wcur \in [Writers -> Nat]
  /\ rpc \in [Readers -> {"idle", "loop", "copy"}]
  /\ snap \in [Readers -> Nat]
  /\ cursor \in [Readers -> Nat]
  /\ held \in [Readers -> Sample]
  /\ driver \in {"up", "down", "creating"}
  /\ todo \subseteq Slot \cup {IndexField}
  /\ crashes \in Nat
  /\ ring \in {"intact", "zeroing", "spoiled"}
  /\ steady \in [Readers -> BOOLEAN]
  /\ out \in [Readers -> [at : Nat, sample : Sample, calm : BOOLEAN, steady : BOOLEAN]]

\* One ReadNewPoses call makes at most half a ring of callbacks, however far
\* the writers are ahead, however they race, and whatever a restarted driver
\* left in the index: the calibration tick's poll is bounded.
BurstBound == \A r \in Readers : cursor[r] <= snap[r] /\ snap[r] - cursor[r] <= Half

\* With one writing thread, a callback at cursor c gets sample c, neither torn
\* nor of another lap, as long as fewer than half a ring of samples arrived
\* since the reader loaded the index: the half-ring bound in ReadNewPoses is
\* exactly what keeps the reader clear of the writer.
ExactDelivery == \A r \in Readers : out[r].calm => out[r].sample = out[r].at

\* The cursor never moves back, so no pose is replayed to the calibration,
\* unless the driver re-created the ring since the reader's last load.
NoReplay == [][\A r \in Readers : steady[r] => cursor'[r] >= cursor[r]]_vars

\* However the writing threads race, and even when the index falls back, every
\* slot below the index was filled by some SetPose: a callback gets a zeroed,
\* never written pose only at cursor 0, which no first-lap SetPose fills.
NoHole == \A r \in Readers : out[r].steady /\ out[r].at # 0 => out[r].sample # 0

\* Every sample but the newest is passed to the reader or skipped: the reader's
\* cursor passes it, unless the index itself falls back (a racing writer or a
\* new driver).
CatchUp ==
  \A r \in Readers : \A c \in 0 .. MaxIndex :
    (index > c) ~> (cursor[r] > c \/ index <= c)
=============================================================================
