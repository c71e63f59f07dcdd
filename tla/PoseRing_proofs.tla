--------------------------- MODULE PoseRing_proofs ---------------------------
(* Theorems about PoseRing, for every set of writers and readers, every    *)
(* ring size and every bound.                                              *)
EXTENDS PoseRing, TLAPS

-----------------------------------------------------------------------------
(* Type correctness *)

LEMMA SlotOfType == \A i \in Nat : SlotOf(i) \in Slot
  BY HalfAssumption, Z3 DEF SlotOf, Slot, BUFFERED_SAMPLES

LEMMA ResyncType == \A c, cur \in Nat : Resync(c, cur) \in Nat
  BY HalfAssumption DEF Resync

LEMMA InitType == Init => TypeOK
  BY HalfAssumption DEF Init, TypeOK, Slot, BUFFERED_SAMPLES, Sample, IndexField

LEMMA NextType == TypeOK /\ [Next]_vars => TypeOK'
<1> SUFFICES ASSUME TypeOK, [Next]_vars
             PROVE  TypeOK'
  OBVIOUS
<1> USE DEF TypeOK
<1>1. ASSUME NEW w \in Writers, LoadIndex(w)
      PROVE  TypeOK'
  BY <1>1 DEF LoadIndex, readerVars
<1>2. ASSUME NEW w \in Writers, BeginCopy(w)
      PROVE  TypeOK'
  BY <1>2 DEF BeginCopy, readerVars, driverVars, Sample
<1>3. ASSUME NEW w \in Writers, EndCopy(w)
      PROVE  TypeOK'
  <2>1. CopyResult(w) \subseteq Sample
    BY DEF CopyResult, Sample
  <2>2. slots' \in [Slot -> Sample]
    BY <1>3, <2>1 DEF EndCopy
  <2> QED  BY <1>3, <2>2 DEF EndCopy, readerVars, driverVars
<1>4. ASSUME NEW w \in Writers, Publish(w)
      PROVE  TypeOK'
  BY <1>4 DEF Publish, readerVars, driverVars
<1>5. ASSUME NEW r \in Readers, Load(r)
      PROVE  TypeOK'
  BY <1>5, ResyncType DEF Load, writerVars, driverVars
<1>6. ASSUME NEW r \in Readers, BeginRead(r)
      PROVE  TypeOK'
  BY <1>6, SlotOfType DEF BeginRead, writerVars, driverVars
<1>7. ASSUME NEW r \in Readers, EndRead(r)
      PROVE  TypeOK'
  <2> DEFINE s == IF slots[SlotOf(cursor[r])] = held[r] THEN held[r] ELSE Torn
  <2>1. s \in Sample
    BY DEF Sample
  <2>2. Calm(r) \in BOOLEAN
    BY DEF Calm
  <2>3. out' \in [Readers -> [at : Nat, sample : Sample, calm : BOOLEAN, steady : BOOLEAN]]
    BY <1>7, <2>1, <2>2 DEF EndRead
  <2>4. held' \in [Readers -> Sample]
    BY <1>7 DEF EndRead, Sample
  <2>5. cursor' \in [Readers -> Nat] /\ rpc' \in [Readers -> {"idle", "loop", "copy"}]
    BY <1>7 DEF EndRead
  <2> QED  BY <1>7, <2>3, <2>4, <2>5 DEF EndRead, writerVars, driverVars
<1>8. ASSUME NEW r \in Readers, Return(r)
      PROVE  TypeOK'
  BY <1>8 DEF Return, writerVars, driverVars
<1>9. CASE Crash
  BY <1>9 DEF Crash, readerVars
<1>10. CASE BeginCreate
  BY <1>10 DEF BeginCreate, writerVars
<1>11. CASE ZeroIndex
  BY <1>11 DEF ZeroIndex, writerVars, readerVars
<1>12. ASSUME NEW s \in Slot, ZeroSlot(s)
       PROVE  TypeOK'
  BY <1>12 DEF ZeroSlot, writerVars, readerVars, Sample
<1>13. CASE EndCreate
  BY <1>13 DEF EndCreate, writerVars, readerVars
<1>14. CASE UNCHANGED vars
  BY <1>14 DEF vars, writerVars, readerVars, driverVars
<1> QED
  BY <1>1, <1>2, <1>3, <1>4, <1>5, <1>6, <1>7, <1>8, <1>9, <1>10, <1>11, <1>12,
     <1>13, <1>14 DEF Next, Writer, Reader, Driver

\* Every variable keeps its type: the driver's index, slots and threads, the
\* readers' cursors and what their callbacks were passed.
THEOREM TypeCorrect == Spec => []TypeOK
  BY InitType, NextType, PTL DEF Spec

-----------------------------------------------------------------------------
(* The bounded poll *)

\* BurstBound, with the fact that a copy is only begun below the loaded index.
BurstInv ==
  /\ BurstBound
  /\ \A r \in Readers : rpc[r] = "copy" => cursor[r] < snap[r]

LEMMA ResyncBound == \A c, cur \in Nat : Resync(c, cur) <= cur /\ cur - Resync(c, cur) <= Half
  BY HalfAssumption DEF Resync

LEMMA NextBurst == TypeOK /\ BurstInv /\ [Next]_vars => BurstInv'
<1> SUFFICES ASSUME TypeOK, BurstInv, [Next]_vars
             PROVE  BurstInv'
  OBVIOUS
<1> USE HalfAssumption DEF TypeOK, BurstInv, BurstBound
<1>1. ASSUME NEW r \in Readers, Load(r)
      PROVE  BurstInv'
  BY <1>1, ResyncBound, ResyncType DEF Load
<1>2. ASSUME NEW r \in Readers, BeginRead(r)
      PROVE  BurstInv'
  BY <1>2 DEF BeginRead
<1>3. ASSUME NEW r \in Readers, EndRead(r)
      PROVE  BurstInv'
  BY <1>3 DEF EndRead
<1>4. ASSUME NEW r \in Readers, Return(r)
      PROVE  BurstInv'
  BY <1>4 DEF Return
<1>5. CASE UNCHANGED <<rpc, snap, cursor>>
  BY <1>5
<1> QED
  BY <1>1, <1>2, <1>3, <1>4, <1>5 DEF Next, Writer, Reader, Driver, LoadIndex, BeginCopy,
     EndCopy, Publish, Crash, BeginCreate, ZeroIndex, ZeroSlot, EndCreate, vars, readerVars

\* However many threads write and however often the driver restarts, one poll
\* of the ring makes at most half a ring of callbacks.
THEOREM BurstBounded == Spec => []BurstBound
<1>1. Init => BurstInv
  BY HalfAssumption DEF Init, BurstInv, BurstBound
<1>2. BurstInv => BurstBound
  BY DEF BurstInv
<1> QED  BY <1>1, <1>2, NextBurst, TypeCorrect, PTL DEF Spec

-----------------------------------------------------------------------------
(* No holes.  NoHole is not inductive: a callback is passed a filled slot  *)
(* because the loaded index bounds the filled ones, which holds because a  *)
(* thread stores an index only after all the slots up to it were filled,   *)
(* and only Create, which forfeits "intact" and "steady", empties a slot.  *)

Filled(n) == \A j \in 1 .. n : slots[SlotOf(j)] # 0

\* Create runs from a ring no reader trusts and no writer has entered.
CreateInv ==
  /\ \A w \in Writers : wpc[w] # "idle" => wcur[w] # 0
  /\ driver = "creating" => ring # "intact"
  /\ todo # {} => driver = "creating"
  /\ driver = "down" \/ ring = "zeroing" => \A w \in Writers : wpc[w] = "idle"
  /\ ring = "zeroing" /\ driver = "creating" /\ IndexField \notin todo => index = 0
  /\ ring = "zeroing" /\ driver = "creating" => \A s \in Slot \ todo : slots[s] = 0
  /\ ring = "zeroing" => driver # "up"
  /\ \A r \in Readers : steady[r] => ring = "intact"

FillInv ==
  ring = "intact" =>
    /\ Filled(index)
    /\ \A w \in Writers : wpc[w] # "idle" => Filled(wcur[w] - 1)
    /\ \A w \in Writers : wpc[w] \in {"copying", "copied"} => slots[SlotOf(wcur[w])] # 0

ReadInv ==
  \A r \in Readers :
    /\ steady[r] => Filled(snap[r])
    /\ steady[r] /\ rpc[r] = "copy" /\ cursor[r] # 0 => held[r] # 0

HoleInv == TypeOK /\ BurstInv /\ CreateInv /\ FillInv /\ ReadInv /\ NoHole

LEMMA InitHole == Init => CreateInv /\ FillInv /\ ReadInv /\ NoHole
  BY DEF Init, CreateInv, FillInv, ReadInv, NoHole, Filled

LEMMA NextCreate == TypeOK /\ CreateInv /\ [Next]_vars => CreateInv'
<1> SUFFICES ASSUME TypeOK, CreateInv, [Next]_vars
             PROVE  CreateInv'
  OBVIOUS
<1> USE DEF TypeOK, CreateInv
<1>i. IndexField \notin Slot
  BY DEF Slot, IndexField
<1>1. ASSUME NEW w \in Writers, LoadIndex(w)
      PROVE  CreateInv'
  BY <1>1 DEF LoadIndex, readerVars
<1>2. ASSUME NEW w \in Writers, BeginCopy(w) \/ EndCopy(w) \/ Publish(w)
      PROVE  CreateInv'
  BY <1>2 DEF BeginCopy, EndCopy, Publish, readerVars, driverVars
<1>3. ASSUME NEW r \in Readers, Load(r)
      PROVE  CreateInv'
  BY <1>3 DEF Load, writerVars, driverVars
<1>4. ASSUME NEW r \in Readers, BeginRead(r) \/ EndRead(r) \/ Return(r)
      PROVE  CreateInv'
  BY <1>4 DEF BeginRead, EndRead, Return, writerVars, driverVars
<1>5. CASE Crash
  BY <1>5 DEF Crash, readerVars
<1>6. CASE BeginCreate
  BY <1>6 DEF BeginCreate, writerVars
<1>7. CASE ZeroIndex
  BY <1>7, <1>i DEF ZeroIndex, writerVars, readerVars
<1>8. ASSUME NEW s \in Slot, ZeroSlot(s)
      PROVE  CreateInv'
  BY <1>8, <1>i DEF ZeroSlot, writerVars, readerVars
<1>9. CASE EndCreate
  BY <1>9 DEF EndCreate, writerVars, readerVars
<1>10. CASE UNCHANGED vars
  BY <1>10 DEF vars, writerVars, readerVars, driverVars
<1> QED
  BY <1>1, <1>2, <1>3, <1>4, <1>5, <1>6, <1>7, <1>8, <1>9, <1>10
     DEF Next, Writer, Reader, Driver

\* Writing anything but 0 into a slot keeps every filled slot filled.
LEMMA FillGrows ==
  ASSUME TypeOK, NEW s \in Slot, NEW v, v # 0, slots' = [slots EXCEPT ![s] = v],
         NEW n \in Int, Filled(n)
  PROVE  Filled(n)'
  BY SlotOfType DEF Filled, TypeOK

LEMMA NextHole == HoleInv /\ [Next]_vars => FillInv' /\ ReadInv' /\ NoHole'
<1> SUFFICES ASSUME HoleInv, [Next]_vars
             PROVE  FillInv' /\ ReadInv' /\ NoHole'
  OBVIOUS
<1> USE DEF HoleInv
<1>w. \A w \in Writers : wcur[w] \in Nat /\ wcur[w] - 1 \in Int /\ SlotOf(wcur[w]) \in Slot
  BY SlotOfType DEF TypeOK
<1>r. \A r \in Readers : snap[r] \in Nat /\ cursor[r] \in Nat /\ SlotOf(cursor[r]) \in Slot
  BY SlotOfType DEF TypeOK
<1>1. ASSUME NEW w \in Writers, LoadIndex(w)
      PROVE  FillInv' /\ ReadInv' /\ NoHole'
  <2>1. FillInv'
    BY <1>1 DEF LoadIndex, FillInv, Filled, TypeOK
  <2>2. ReadInv' /\ NoHole'
    BY <1>1 DEF LoadIndex, ReadInv, NoHole, Filled, readerVars
  <2> QED  BY <2>1, <2>2
<1>2. ASSUME NEW w \in Writers, wpc[w] \in {"loaded", "copying"},
             NEW v, v # 0, slots' = [slots EXCEPT ![SlotOf(wcur[w])] = v],
             NEW pc \in {"copying", "copied"}, wpc' = [wpc EXCEPT ![w] = pc],
             UNCHANGED <<index, wcur, readerVars, driverVars>>,
             ring = "intact" => Filled(wcur[w] - 1)
      PROVE  FillInv' /\ ReadInv' /\ NoHole'
  <2>1. \A n \in Int : Filled(n) => Filled(n)'
    BY <1>w, <1>2, FillGrows
  <2>2. FillInv'
    <3> SUFFICES ASSUME ring = "intact"
                 PROVE  /\ Filled(index)'
                        /\ \A x \in Writers : wpc'[x] # "idle" => Filled(wcur[x] - 1)'
                        /\ \A x \in Writers : wpc'[x] \in {"copying", "copied"} => slots'[SlotOf(wcur[x])] # 0
      BY <1>2 DEF FillInv, driverVars, Filled
    <3>1. Filled(index)'
      BY <2>1, <1>2 DEF FillInv, TypeOK
    <3>2. ASSUME NEW x \in Writers, wpc'[x] # "idle"
          PROVE  Filled(wcur[x] - 1)'
      <4>1. Filled(wcur[x] - 1)
        BY <1>2, <3>2 DEF FillInv, TypeOK
      <4> QED  BY <4>1, <2>1, <1>w, <1>2
    <3>3. ASSUME NEW x \in Writers, wpc'[x] \in {"copying", "copied"}
          PROVE  slots'[SlotOf(wcur[x])] # 0
      BY <1>2, <3>3, <1>w DEF FillInv, TypeOK
    <3> QED  BY <3>1, <3>2, <3>3
  <2>3. ReadInv'
    BY <2>1, <1>r, <1>2 DEF ReadInv, readerVars
  <2>4. NoHole'
    BY <1>2 DEF NoHole, readerVars
  <2> QED  BY <2>2, <2>3, <2>4
<1>3. ASSUME NEW w \in Writers, BeginCopy(w)
      PROVE  FillInv' /\ ReadInv' /\ NoHole'
  <2>1. ring = "intact" => Filled(wcur[w] - 1)
    BY <1>3 DEF BeginCopy, FillInv
  <2>2. Torn # 0
    BY DEF Torn
  <2> QED  BY <1>2, <1>3, <2>1, <2>2 DEF BeginCopy
<1>4. ASSUME NEW w \in Writers, EndCopy(w)
      PROVE  FillInv' /\ ReadInv' /\ NoHole'
  <2>1. PICK v \in CopyResult(w) : slots' = [slots EXCEPT ![SlotOf(wcur[w])] = v]
    BY <1>4 DEF EndCopy
  <2>2. v # 0
    BY <1>4, <2>1 DEF EndCopy, CopyResult, Mixed, CreateInv
  <2>3. ring = "intact" => Filled(wcur[w] - 1)
    BY <1>4 DEF EndCopy, FillInv
  <2> QED  BY <1>2, <1>4, <2>1, <2>2, <2>3 DEF EndCopy
<1>5. ASSUME NEW w \in Writers, Publish(w)
      PROVE  FillInv' /\ ReadInv' /\ NoHole'
  <2>1. ring = "intact" => Filled(wcur[w])
    <3> SUFFICES ASSUME ring = "intact", NEW j \in 1 .. wcur[w]
                 PROVE  slots[SlotOf(j)] # 0
      BY DEF Filled
    <3>1. CASE j = wcur[w]
      BY <1>5, <3>1 DEF Publish, FillInv
    <3>2. CASE j \in 1 .. wcur[w] - 1
      BY <1>5, <3>2 DEF Publish, FillInv, Filled
    <3> QED  BY <1>w, <3>1, <3>2
  <2>2. FillInv'
    BY <1>5, <2>1 DEF Publish, FillInv, Filled, driverVars, TypeOK
  <2>3. ReadInv' /\ NoHole'
    BY <1>5 DEF Publish, ReadInv, NoHole, Filled, readerVars
  <2> QED  BY <2>2, <2>3
<1>6. ASSUME UNCHANGED <<index, slots, writerVars, driverVars>>
      PROVE  FillInv'
  BY <1>6 DEF FillInv, Filled, writerVars, driverVars
<1>7. ASSUME NEW r \in Readers, Load(r)
      PROVE  FillInv' /\ ReadInv' /\ NoHole'
  <2>1. ReadInv'
    BY <1>7 DEF Load, ReadInv, FillInv, Filled, TypeOK
  <2>2. NoHole'
    BY <1>7 DEF Load, NoHole
  <2> QED  BY <1>6, <1>7, <2>1, <2>2 DEF Load
<1>8. ASSUME NEW r \in Readers, BeginRead(r)
      PROVE  FillInv' /\ ReadInv' /\ NoHole'
  <2>1. steady[r] /\ cursor[r] # 0 => slots[SlotOf(cursor[r])] # 0
    BY <1>8, <1>r DEF BeginRead, ReadInv, Filled
  <2>2. ReadInv'
    BY <1>8, <2>1 DEF BeginRead, ReadInv, Filled, TypeOK
  <2>3. NoHole'
    BY <1>8 DEF BeginRead, NoHole
  <2> QED  BY <1>6, <1>8, <2>2, <2>3 DEF BeginRead
<1>9. ASSUME NEW r \in Readers, EndRead(r)
      PROVE  FillInv' /\ ReadInv' /\ NoHole'
  <2>1. ReadInv'
    BY <1>9 DEF EndRead, ReadInv, Filled, TypeOK
  <2>2. NoHole'
    BY <1>9 DEF EndRead, NoHole, ReadInv, TypeOK, Torn
  <2> QED  BY <1>6, <1>9, <2>1, <2>2 DEF EndRead
<1>10. ASSUME NEW r \in Readers, Return(r)
       PROVE  FillInv' /\ ReadInv' /\ NoHole'
  <2>1. ReadInv' /\ NoHole'
    BY <1>10 DEF Return, ReadInv, NoHole, Filled, TypeOK
  <2> QED  BY <1>6, <1>10, <2>1 DEF Return
<1>11. CASE Crash
  BY <1>11 DEF Crash, FillInv, ReadInv, NoHole, Filled, readerVars, TypeOK
<1>12. CASE BeginCreate
  BY <1>12 DEF BeginCreate, FillInv, ReadInv, NoHole
<1>13. ASSUME ZeroIndex \/ \E s \in Slot : ZeroSlot(s)
       PROVE  FillInv' /\ ReadInv' /\ NoHole'
  BY <1>13 DEF ZeroIndex, ZeroSlot, FillInv, ReadInv, NoHole, CreateInv, readerVars
<1>14. CASE EndCreate
  <2>1. FillInv'
    BY <1>14 DEF EndCreate, FillInv, Filled, CreateInv, writerVars
  <2>2. ReadInv' /\ NoHole'
    BY <1>14 DEF EndCreate, ReadInv, NoHole, Filled, readerVars
  <2> QED  BY <2>1, <2>2
<1>15. CASE UNCHANGED vars
  BY <1>15 DEF vars, writerVars, readerVars, driverVars, FillInv, ReadInv, NoHole, Filled
<1> QED
  BY <1>1, <1>3, <1>4, <1>5, <1>7, <1>8, <1>9, <1>10, <1>11, <1>12, <1>13, <1>14, <1>15
     DEF Next, Writer, Reader, Driver

\* Racing threads lose samples and move the index back, yet a reader is never
\* passed a slot nobody wrote, cursor 0 and a ring being re-created apart.
THEOREM NoHoles == Spec => []NoHole
<1>1. Init => HoleInv
  <2>1. Init => BurstInv
    BY HalfAssumption DEF Init, BurstInv, BurstBound
  <2> QED  BY <2>1, InitType, InitHole DEF HoleInv
<1>2. HoleInv /\ [Next]_vars => HoleInv'
  BY NextType, NextBurst, NextCreate, NextHole DEF HoleInv
<1>3. HoleInv => NoHole
  BY DEF HoleInv
<1> QED  BY <1>1, <1>2, <1>3, PTL DEF Spec

-----------------------------------------------------------------------------
(* Exact delivery, for one writing thread.                                 *)

SingleWriter == \E w : Writers = {w}

LEMMA MulMono == \A k \in Nat, n \in Nat \ {0} : k >= 1 => n * k >= n
  BY Z3

\* Indexes less than a ring apart have slots of their own.
LEMMA SlotApart ==
  ASSUME NEW i \in Nat, NEW j \in Nat, i < j, j < i + BUFFERED_SAMPLES
  PROVE  SlotOf(i) # SlotOf(j)
<1> DEFINE n == BUFFERED_SAMPLES
<1>1. n \in Nat \ {0}
  BY HalfAssumption DEF BUFFERED_SAMPLES
<1> HIDE DEF n
<1>2. /\ i = n * (i \div n) + (i % n) /\ i \div n \in Nat
      /\ j = n * (j \div n) + (j % n) /\ j \div n \in Nat
      /\ i % n \in 0 .. n - 1 /\ j % n \in 0 .. n - 1
  BY <1>1, Z3
<1> SUFFICES ASSUME i % n = j % n
             PROVE  FALSE
  BY DEF SlotOf, n
<1> DEFINE a == i \div n  b == j \div n
<1>3. a \in Nat /\ b \in Nat /\ j - i = n * b - n * a
  BY <1>1, <1>2
<1>4. n * b - n * a = n * (b - a)
  BY <1>1, <1>3, Z3
<1>5. b - a \in Int /\ 0 < n * (b - a) /\ n * (b - a) < n
  BY <1>3, <1>4, <1>1 DEF n
<1> HIDE DEF a, b
<1>6. b - a >= 1
  BY <1>1, <1>5, <1>3, Z3
<1>7. n * (b - a) >= n
  BY <1>1, <1>3, <1>6, MulMono
<1> QED  BY <1>1, <1>3, <1>5, <1>7

\* The thread works on the sample after the index, its slot is torn while it
\* copies and whole when it is done, and the last ring of samples but one
\* stays in place all the while.
SlotInv ==
  ring = "intact" =>
    /\ \A w \in Writers :
         /\ wpc[w] # "idle" => wcur[w] = index + 1
         /\ wpc[w] = "copying" => slots[SlotOf(index + 1)] = Torn
         /\ wpc[w] = "copied" => slots[SlotOf(index + 1)] = index + 1
    /\ \A j \in Nat : j <= index /\ index + 1 < j + BUFFERED_SAMPLES => slots[SlotOf(j)] = j

CalmInv ==
  \A r \in Readers :
    /\ steady[r] => snap[r] <= index
    /\ rpc[r] = "copy" /\ Calm(r) => held[r] = cursor[r]
    /\ rpc[r] = "idle" => cursor[r] = snap[r]

ExactInv == TypeOK /\ BurstInv /\ CreateInv /\ SlotInv /\ CalmInv /\ ExactDelivery

LEMMA InitExact == Init => SlotInv /\ CalmInv /\ ExactDelivery
<1> SUFFICES ASSUME Init
             PROVE  SlotInv /\ CalmInv /\ ExactDelivery
  OBVIOUS
<1>1. SlotOf(0) = 0 /\ 0 \in Slot
  BY HalfAssumption, Z3 DEF SlotOf, Slot, BUFFERED_SAMPLES
<1> QED  BY <1>1 DEF Init, SlotInv, CalmInv, ExactDelivery

LEMMA NextExact == SingleWriter /\ ExactInv /\ [Next]_vars => SlotInv' /\ CalmInv' /\ ExactDelivery'
<1> SUFFICES ASSUME SingleWriter, ExactInv, [Next]_vars
             PROVE  SlotInv' /\ CalmInv' /\ ExactDelivery'
  OBVIOUS
<1> USE DEF ExactInv
<1>n. BUFFERED_SAMPLES \in Nat /\ BUFFERED_SAMPLES = Half + Half /\ Half \in Nat /\ Half >= 1
  BY HalfAssumption DEF BUFFERED_SAMPLES
<1>t. index \in Nat /\ \A r \in Readers : snap[r] \in Nat /\ cursor[r] \in Nat
  BY DEF TypeOK
<1>s. \A w, v \in Writers : w = v
  BY DEF SingleWriter
\* Copying into the slot of index + 1 leaves the window alone.
<1>1. ASSUME NEW w \in Writers, wpc[w] \in {"loaded", "copying"},
             NEW v, slots' = [slots EXCEPT ![SlotOf(wcur[w])] = v],
             NEW pc \in {"copying", "copied"}, wpc' = [wpc EXCEPT ![w] = pc],
             pc = "copying" => v = Torn,
             ring = "intact" /\ pc = "copied" => v = index + 1,
             UNCHANGED <<index, wcur, readerVars, driverVars>>
      PROVE  SlotInv' /\ CalmInv' /\ ExactDelivery'
  <2>1. CalmInv' /\ ExactDelivery'
    BY <1>1 DEF CalmInv, ExactDelivery, Calm, readerVars
  <2>2. ASSUME ring = "intact"
        PROVE  SlotInv'
    <3>1. wcur[w] = index + 1 /\ SlotOf(index + 1) \in Slot
      BY <1>1, <2>2, <1>t, SlotOfType DEF SlotInv
    <3>2. ASSUME NEW j \in Nat, j <= index, index + 1 < j + BUFFERED_SAMPLES
          PROVE  slots'[SlotOf(j)] = j
      <4>1. SlotOf(j) # SlotOf(index + 1)
        BY <3>2, <1>t, SlotApart
      <4>2. SlotOf(j) \in Slot /\ slots[SlotOf(j)] = j
        BY <2>2, <3>2, SlotOfType DEF SlotInv
      <4> QED  BY <1>1, <3>1, <4>1, <4>2 DEF TypeOK
    <3>3. slots'[SlotOf(index + 1)] = v
      BY <1>1, <3>1 DEF TypeOK
    <3>4. \A x \in Writers : wpc'[x] = pc /\ wcur'[x] = index + 1
      BY <1>1, <1>s, <3>1 DEF TypeOK
    <3> QED  BY <1>1, <2>2, <3>2, <3>3, <3>4 DEF SlotInv, driverVars
  <2>3. ring # "intact" => SlotInv'
    BY <1>1 DEF SlotInv, driverVars
  <2> QED  BY <2>1, <2>2, <2>3
<1>2. ASSUME NEW w \in Writers, LoadIndex(w)
      PROVE  SlotInv' /\ CalmInv' /\ ExactDelivery'
  <2>1. CalmInv' /\ ExactDelivery'
    BY <1>2 DEF LoadIndex, CalmInv, ExactDelivery, Calm, readerVars
  <2>2. SlotInv'
    BY <1>2, <1>s DEF LoadIndex, SlotInv, TypeOK
  <2> QED  BY <2>1, <2>2
<1>3. ASSUME NEW w \in Writers, BeginCopy(w)
      PROVE  SlotInv' /\ CalmInv' /\ ExactDelivery'
  BY <1>1, <1>3 DEF BeginCopy
<1>4. ASSUME NEW w \in Writers, EndCopy(w)
      PROVE  SlotInv' /\ CalmInv' /\ ExactDelivery'
  <2>1. PICK v \in CopyResult(w) : slots' = [slots EXCEPT ![SlotOf(wcur[w])] = v]
    BY <1>4 DEF EndCopy
  <2>2. ~ Contended(w)
    BY <1>s DEF Contended
  <2>3. ring = "intact" => v = index + 1
    BY <1>4, <2>1, <2>2 DEF EndCopy, CopyResult, SlotInv
  <2> QED  BY <1>1, <1>4, <2>1, <2>3 DEF EndCopy
<1>5. ASSUME NEW w \in Writers, Publish(w)
      PROVE  SlotInv' /\ CalmInv' /\ ExactDelivery'
  <2>1. CASE ring = "intact"
    <3>1. index' = index + 1 /\ slots[SlotOf(index + 1)] = index + 1
      BY <1>5, <2>1 DEF Publish, SlotInv
    <3>2. ASSUME NEW j \in Nat, j <= index', index' + 1 < j + BUFFERED_SAMPLES
          PROVE  slots'[SlotOf(j)] = j
      <4>1. CASE j = index + 1
        BY <1>5, <3>1, <4>1 DEF Publish
      <4>2. CASE j <= index
        <5>1. index + 1 < j + BUFFERED_SAMPLES
          BY <1>n, <1>t, <3>1, <3>2
        <5> QED  BY <1>5, <2>1, <4>2, <5>1 DEF Publish, SlotInv
      <4> QED  BY <1>t, <3>1, <3>2, <4>1, <4>2
    <3>3. \A x \in Writers : wpc'[x] = "idle"
      BY <1>5, <1>s DEF Publish, TypeOK
    <3>4. SlotInv'
      BY <1>5, <2>1, <3>2, <3>3 DEF Publish, SlotInv, driverVars
    <3>5. CalmInv'
      BY <1>5, <1>n, <1>t, <3>1 DEF Publish, CalmInv, Calm, readerVars
    <3> QED  BY <1>5, <3>4, <3>5 DEF Publish, ExactDelivery, readerVars
  <2>2. CASE ring # "intact"
    BY <1>5, <2>2 DEF Publish, SlotInv, CalmInv, Calm, CreateInv, ExactDelivery, readerVars, driverVars
  <2> QED  BY <2>1, <2>2
\* A reader's step moves nothing the slots' invariant is about.
<1>6. ASSUME UNCHANGED <<index, slots, writerVars, driverVars>>
      PROVE  SlotInv'
  BY <1>6 DEF SlotInv, writerVars, driverVars
<1>7. ASSUME NEW r \in Readers, Calm(r), rpc[r] # "idle", cursor[r] < snap[r]
      PROVE  slots[SlotOf(cursor[r])] = cursor[r]
  <2>1. ring = "intact" /\ snap[r] <= index /\ index + 1 < snap[r] + Half
    BY <1>7, <1>n, <1>t DEF Calm, CreateInv, CalmInv
  <2>2. snap[r] - cursor[r] <= Half
    BY DEF BurstInv, BurstBound
  <2>3. cursor[r] <= index /\ index + 1 < cursor[r] + BUFFERED_SAMPLES
    BY <1>7, <1>n, <1>t, <2>1, <2>2
  <2> QED  BY <1>t, <2>1, <2>3 DEF SlotInv
<1>8. ASSUME NEW r \in Readers, Load(r)
      PROVE  SlotInv' /\ CalmInv' /\ ExactDelivery'
  BY <1>6, <1>8, <1>t DEF Load, CalmInv, ExactDelivery, Calm, TypeOK
<1>9. ASSUME NEW r \in Readers, BeginRead(r)
      PROVE  SlotInv' /\ CalmInv' /\ ExactDelivery'
  <2>1. Calm(r) => slots[SlotOf(cursor[r])] = cursor[r]
    BY <1>7, <1>9 DEF BeginRead
  <2>2. CalmInv'
    BY <1>9, <2>1 DEF BeginRead, CalmInv, Calm, TypeOK
  <2> QED  BY <1>6, <1>9, <2>2 DEF BeginRead, ExactDelivery
<1>10. ASSUME NEW r \in Readers, EndRead(r)
       PROVE  SlotInv' /\ CalmInv' /\ ExactDelivery'
  <2>1. Calm(r) => slots[SlotOf(cursor[r])] = cursor[r] /\ held[r] = cursor[r]
    BY <1>7, <1>10 DEF EndRead, BurstInv, CalmInv
  <2>2. CalmInv'
    BY <1>10 DEF EndRead, CalmInv, Calm, TypeOK
  <2>3. ExactDelivery'
    BY <1>10, <2>1 DEF EndRead, ExactDelivery, TypeOK
  <2> QED  BY <1>6, <1>10, <2>2, <2>3 DEF EndRead
<1>11. ASSUME NEW r \in Readers, Return(r)
       PROVE  SlotInv' /\ CalmInv' /\ ExactDelivery'
  <2>1. cursor[r] = snap[r]
    BY <1>11, <1>t DEF Return, BurstInv, BurstBound
  <2> QED  BY <1>6, <1>11, <2>1 DEF Return, CalmInv, ExactDelivery, Calm, TypeOK
<1>12. CASE Crash
  BY <1>12 DEF Crash, SlotInv, CalmInv, ExactDelivery, Calm, readerVars
<1>13. CASE BeginCreate
  BY <1>13 DEF BeginCreate, SlotInv, CalmInv, ExactDelivery, Calm
<1>14. ASSUME ZeroIndex \/ \E s \in Slot : ZeroSlot(s)
       PROVE  SlotInv' /\ CalmInv' /\ ExactDelivery'
  BY <1>14 DEF ZeroIndex, ZeroSlot, SlotInv, CalmInv, CreateInv, ExactDelivery, Calm, readerVars
<1>15. CASE EndCreate
  <2>1. CalmInv' /\ ExactDelivery'
    BY <1>15 DEF EndCreate, CalmInv, ExactDelivery, Calm, readerVars
  <2>2. ring = "zeroing" => index = 0 /\ slots[SlotOf(0)] = 0 /\ \A w \in Writers : wpc[w] = "idle"
    BY <1>15, SlotOfType DEF EndCreate, CreateInv
  <2>3. SlotInv'
    BY <1>15, <2>2 DEF EndCreate, SlotInv, CreateInv, writerVars
  <2> QED  BY <2>1, <2>3
<1>16. CASE UNCHANGED vars
  BY <1>16 DEF vars, writerVars, readerVars, driverVars, SlotInv, CalmInv, Calm, ExactDelivery
<1> QED
  BY <1>2, <1>3, <1>4, <1>5, <1>8, <1>9, <1>10, <1>11, <1>12, <1>13, <1>14, <1>15, <1>16
     DEF Next, Writer, Reader, Driver

LEMMA ExactInvariant == ASSUME SingleWriter PROVE Spec => []ExactInv
<1>1. Init => ExactInv
  <2>1. Init => BurstInv
    BY HalfAssumption DEF Init, BurstInv, BurstBound
  <2> QED  BY <2>1, InitType, InitHole, InitExact DEF ExactInv
<1>2. ExactInv /\ [Next]_vars => ExactInv'
  BY NextType, NextBurst, NextCreate, NextExact DEF ExactInv
<1> QED  BY <1>1, <1>2, PTL DEF Spec

\* With one writing thread, a callback is passed exactly the sample of its
\* cursor, whole and of the current lap, unless half a ring of poses arrived
\* since the reader loaded the index or the driver re-created the ring.
THEOREM ExactlyDelivered == ASSUME SingleWriter PROVE Spec => []ExactDelivery
<1>1. ExactInv => ExactDelivery
  BY DEF ExactInv
<1> QED  BY <1>1, ExactInvariant, PTL

\* With one writing thread no pose is replayed: a reader's cursor moves back
\* only after the driver re-created the ring.
THEOREM NeverReplayed == ASSUME SingleWriter PROVE Spec => NoReplay
<1>1. ExactInv /\ [Next]_vars => [\A r \in Readers : steady[r] => cursor'[r] >= cursor[r]]_vars
  <2> SUFFICES ASSUME ExactInv, [Next]_vars, NEW r \in Readers, steady[r]
               PROVE  cursor'[r] >= cursor[r]
    BY DEF vars, readerVars
  <2>1. cursor[r] \in Nat /\ index \in Nat /\ Half \in Nat
    BY HalfAssumption DEF ExactInv, TypeOK
  <2>2. cursor[r] <= index
    BY <2>1 DEF ExactInv, BurstInv, BurstBound, CalmInv, TypeOK
  <2>3. Resync(cursor[r], index) >= cursor[r]
    BY <2>1, <2>2 DEF Resync
  <2>4. ASSUME NEW q \in Readers, Load(q) \/ EndRead(q)
        PROVE  cursor'[r] >= cursor[r]
    BY <2>1, <2>3, <2>4 DEF Load, EndRead, ExactInv, TypeOK
  <2>5. CASE UNCHANGED cursor
    BY <2>1, <2>5
  <2> QED
    BY <2>4, <2>5 DEF Next, Writer, Reader, Driver, LoadIndex, BeginCopy, EndCopy, Publish,
       BeginRead, Return, Crash, BeginCreate, ZeroIndex, ZeroSlot, EndCreate, vars, readerVars
<1> QED  BY <1>1, ExactInvariant, PTL DEF Spec, NoReplay
=============================================================================
