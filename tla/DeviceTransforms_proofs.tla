---------------------- MODULE DeviceTransforms_proofs ----------------------
(***************************************************************************)
(* What the two threads that share a device's offset without a lock make   *)
(* of it, for every set of offsets and angles, every lever, grid and set   *)
(* of thresholds, and any number of reports that overlap a request: how    *)
(* far out the device can be put, that a blend nobody disturbs approaches  *)
(* its target, and that a snap nobody disturbs holds.                      *)
(***************************************************************************)
EXTENDS DeviceTransforms, TLAPS

\* What an angle does to the device, and what two angles may differ by.
Turn(a) == Lever * a
Swing == MaxSwing - MinSwing

\* What n disturbed reports may add.
Slack(n) == 2 * n * Swing

\* e is no farther from 0 than g, on the same side.
Between(e, g) == (0 <= e /\ e <= g) \/ (g <= e /\ e <= 0)

\* A report that no SetDeviceTransform overlaps works with one pair of offsets.
AloneInv ==
  alone =>
    /\ pc # "idle" => ipc = "idle"
    /\ pc = "levelR" => gap = x - tx
    /\ pc \in {"blendT", "blendR"} => gap = x - tx + Turn(r) - Turn(tr)
    /\ pc = "blendR" => from = x /\ to = tx
    /\ pc \in {"writeR", "writeT"} => Between(place - tx - Turn(tr), gap)
    /\ pc = "writeT" => r = angle
    /\ pc = "apply" => Between(x - tx + Turn(r) - Turn(tr), gap)

\* After a snap that no report overlapped, nothing is left of an older offset.
SnapInv ==
  clean =>
    /\ ipc # "idle" => pc = "idle"
    /\ ~req.lerp =>
         /\ ipc \in {"rotation", "snapRotation", "quash", "idle"} => x = tx
         /\ ipc \in {"quash", "idle"} => r = tr
         /\ pc = "blendR" => from = tx /\ to = tx
         /\ pc \in {"writeR", "writeT"} => place = tx + Turn(tr) /\ angle = tr

\* The two sides of every bound below.
Within(v, lo, hi, d) == lo - d <= v /\ v <= hi + d

Reporting == {"world", "quashed", "enabled", "levelT", "levelR", "blendT", "blendR",
              "writeR", "writeT"}

\* A disturbed report may add a swing by what it reads and another by what it
\* writes; until it writes, the translation is within what it was allowed before.
DriftInv ==
  LET d == Slack(disturbed)
  IN  /\ ~alone /\ pc # "idle" => disturbed > 0
      /\ Within(x, MinOffset, MaxOffset, Swing + d)
      /\ ~(pc = "writeT" /\ alone) =>
           Within(x + Turn(r), MinOffset + MinSwing, MaxOffset + MaxSwing, d)
      /\ ipc = "snapRotation" \/ (ipc = "rotation" /\ ~req.lerp) =>
           Within(x, MinOffset, MaxOffset, d)
      /\ pc = "blendR" => to \in Offsets
      /\ pc = "blendR" /\ ~alone => Within(from, MinOffset, MaxOffset, d - Swing)
      /\ pc \in Reporting /\ ~alone => Within(x, MinOffset, MaxOffset, d - Swing)
      /\ pc \in {"writeR", "writeT"} =>
           Within(place, MinOffset + MinSwing, MaxOffset + MaxSwing,
                  IF alone THEN d ELSE d - Swing)

TransformInv == TypeOK /\ AloneInv /\ SnapInv /\ DriftInv

-----------------------------------------------------------------------------
(* The numbers *)

LEMMA TurnInt == \A a \in Int : Turn(a) \in Int
BY GridAssumption DEF Turn

LEMMA TurnRange == \A a \in Angles : a \in Int /\ MinSwing <= Turn(a) /\ Turn(a) <= MaxSwing
BY GridAssumption, BoundAssumption DEF Turn

LEMMA TurnDifference ==
  ASSUME NEW a \in Int, NEW b \in Int PROVE Lever * (a - b) = Turn(a) - Turn(b)
BY GridAssumption DEF Turn

LEMMA SwingNat == Swing \in Nat
BY TurnRange, TurnInt, GridAssumption, BoundAssumption DEF Swing

LEMMA SlackSteps ==
  ASSUME NEW n \in Nat
  PROVE  /\ Slack(n) \in Nat
         /\ Slack(n + 1) = Slack(n) + 2 * Swing
         /\ n > 0 => Slack(n) >= 2 * Swing
<1>1. Slack(n) = (2 * Swing) * n /\ Slack(n + 1) = (2 * Swing) * n + 2 * Swing
  BY SwingNat DEF Slack
<1>2. ASSUME NEW k \in Nat PROVE k * n \in Nat /\ (n > 0 => k * n >= k)
  OBVIOUS
<1> QED
  BY <1>1, <1>2, SwingNat

\* An interpolation ends between its two ends.
LEMMA TowardRange ==
  ASSUME NEW a \in Int, NEW b \in Int, NEW s, NEW c \in Toward(a, b, s)
  PROVE  c \in Int /\ ((a <= c /\ c <= b) \/ (b <= c /\ c <= a)) /\ (a = b => c = b)
BY DEF Toward

-----------------------------------------------------------------------------
(* Types *)

LEMMA TypeInit == Init => TypeOK
<1> SUFFICES ASSUME Init PROVE TypeOK
  OBVIOUS
<1>1. req \in [enabled : {FALSE}, x : {0}, r : {0}, lerp : {FALSE}, quash : {FALSE}]
  BY DEF Init
<1>2. req \in Request
  BY <1>1 DEF Request
<1>3. disturbed \in 0 .. MaxDisturbed
  BY BoundAssumption DEF Init
<1> QED
  BY <1>2, <1>3, GridAssumption DEF Init, TypeOK

LEMMA TypeNext == TypeOK /\ [Next]_vars => TypeOK'
<1> SUFFICES ASSUME TypeOK, [Next]_vars PROVE TypeOK'
  OBVIOUS
<1> USE GridAssumption, BoundAssumption
    DEF TypeOK, table, pose, blend, history
<1>1. ASSUME NEW m \in Request, SetEnabled(m) PROVE TypeOK'
  <2>1. m.enabled \in BOOLEAN
    BY DEF Request
  <2>2. disturbed' \in 0 .. MaxDisturbed
    BY <1>1 DEF SetEnabled, Disturb
  <2>3. alone' \in BOOLEAN /\ clean' \in BOOLEAN
    BY <1>1 DEF SetEnabled
  <2> QED
    BY <1>1, <2>1, <2>2, <2>3 DEF SetEnabled
<1>2. CASE TargetTranslation
  <2>1. req.x \in Offsets /\ req.r \in Angles /\ req.quash \in BOOLEAN
    BY DEF Request
  <2> QED
    BY <1>2, <2>1 DEF TargetTranslation
<1>3. CASE SnapTranslation
  BY <1>3 DEF SnapTranslation
<1>4. CASE TargetRotation
  <2>1. req.x \in Offsets /\ req.r \in Angles /\ req.quash \in BOOLEAN
    BY DEF Request
  <2> QED
    BY <1>4, <2>1 DEF TargetRotation
<1>5. CASE SnapRotation
  BY <1>5 DEF SnapRotation
<1>6. CASE SetQuash
  <2>1. req.x \in Offsets /\ req.r \in Angles /\ req.quash \in BOOLEAN
    BY DEF Request
  <2> QED
    BY <1>6, <2>1 DEF SetQuash
<1>7. CASE PoseArrives
  <2>1. disturbed' \in 0 .. MaxDisturbed
    BY <1>7 DEF PoseArrives, Disturb
  <2>2. alone' \in BOOLEAN /\ clean' \in BOOLEAN
    BY <1>7 DEF PoseArrives
  <2> QED
    BY <1>7, <2>1, <2>2 DEF PoseArrives
<1>8. CASE ResetWorld
  BY <1>8 DEF ResetWorld
<1>9. CASE TestQuash
  BY <1>9 DEF TestQuash
<1>10. CASE TestEnabled
  BY <1>10 DEF TestEnabled
<1>11. CASE LevelTranslation
  BY <1>11 DEF LevelTranslation
<1>12. CASE LevelRotation
  <2>1. Lever * (r - tr) \in Int
    OBVIOUS
  <2>2. \A q, d, a : q \in DOMAIN Rank => GetTransformDeltaSize(q, d, a) \in DOMAIN Rank
    BY DEF GetTransformDeltaSize, Larger, TransLevel, RotLevel, Rank
  <2> QED
    BY <1>12, <2>1, <2>2 DEF LevelRotation, Rank
<1>13. CASE BlendTranslation
  BY <1>13 DEF BlendTranslation
<1>14. CASE BlendRotation
  <2>1. place' \in Int
    BY <1>14, TurnInt, TowardRange DEF BlendRotation, Turn
  <2> QED
    BY <1>14, <2>1 DEF BlendRotation
<1>15. CASE WriteRotation
  BY <1>15 DEF WriteRotation
<1>16. CASE WriteTranslation
  BY <1>16, TurnInt DEF WriteTranslation, Turn
<1>17. CASE ApplyTransform
  BY <1>17 DEF ApplyTransform
<1>18. CASE UNCHANGED vars
  BY <1>18 DEF vars
<1> QED
  BY <1>1, <1>2, <1>3, <1>4, <1>5, <1>6, <1>7, <1>8, <1>9, <1>10, <1>11, <1>12, <1>13, <1>14, <1>15, <1>16, <1>17, <1>18 DEF Next, SetDeviceTransform,
     HandleDevicePoseUpdated

-----------------------------------------------------------------------------
(* One report alone *)

LEMMA AloneNext == TypeOK /\ AloneInv /\ [Next]_vars => AloneInv'
<1> SUFFICES ASSUME TypeOK, AloneInv, [Next]_vars, alone' PROVE AloneInv'
  BY DEF AloneInv
<1> USE DEF AloneInv, table, pose, blend, history
<1>1. {x, tx, r, tr, angle, gap, from, to, place} \subseteq Int
  BY GridAssumption DEF TypeOK
<1>2. {Turn(r), Turn(tr), Turn(angle)} \subseteq Int
  BY <1>1, TurnInt
<1>3. CASE SetDeviceTransform
  <2>1. pc = "idle" /\ pc' = "idle"
    BY <1>3 DEF SetDeviceTransform, SetEnabled, TargetTranslation, SnapTranslation,
       TargetRotation, SnapRotation, SetQuash
  <2> QED
    BY <2>1
<1>4. CASE LevelRotation
  BY <1>1, <1>4, TurnDifference DEF LevelRotation
<1>5. CASE BlendRotation
  <2>1. place' \in Toward(from + Turn(r), to + Turn(tr), Step)
    BY <1>5 DEF BlendRotation, Turn
  <2>2. /\ place' \in Int
        /\ \/ x + Turn(r) <= place' /\ place' <= tx + Turn(tr)
           \/ tx + Turn(tr) <= place' /\ place' <= x + Turn(r)
    BY <1>1, <1>2, <1>5, <2>1, TowardRange DEF BlendRotation
  <2>3. Between(place' - tx - Turn(tr), gap)
    BY <1>1, <1>2, <1>5, <2>2 DEF BlendRotation, Between
  <2> QED
    BY <1>5, <2>3 DEF BlendRotation
<1>6. CASE WriteTranslation
  <2>1. x' = place - Turn(angle) /\ r = angle
    BY <1>6 DEF WriteTranslation, Turn
  <2>2. x' - tx + Turn(r) - Turn(tr) = place - tx - Turn(tr)
    BY <1>1, <1>2, <2>1
  <2> QED
    BY <1>6, <2>2 DEF WriteTranslation
<1>7. CASE \/ PoseArrives \/ ResetWorld \/ TestQuash \/ TestEnabled \/ LevelTranslation
           \/ BlendTranslation \/ WriteRotation \/ ApplyTransform
  BY <1>7 DEF PoseArrives, ResetWorld, TestQuash, TestEnabled, LevelTranslation,
     BlendTranslation, WriteRotation, ApplyTransform
<1>8. CASE UNCHANGED vars
  BY <1>8 DEF vars
<1> QED
  BY <1>3, <1>4, <1>5, <1>6, <1>7, <1>8 DEF Next, HandleDevicePoseUpdated

-----------------------------------------------------------------------------
(* A snap that no report overlapped *)

LEMMA SnapNext == TypeOK /\ SnapInv /\ [Next]_vars => SnapInv'
<1> SUFFICES ASSUME TypeOK, SnapInv, [Next]_vars, clean' PROVE SnapInv'
  BY DEF SnapInv
<1> USE DEF SnapInv, table, pose, blend, history
<1>1. {x, tx, r, tr, angle, from, to, place} \subseteq Int
  BY GridAssumption DEF TypeOK
<1>2. {Turn(r), Turn(tr), Turn(angle)} \subseteq Int
  BY <1>1, TurnInt
<1>3. CASE SetDeviceTransform
  BY <1>3 DEF SetDeviceTransform, SetEnabled, TargetTranslation, SnapTranslation,
     TargetRotation, SnapRotation, SetQuash
<1>4. CASE BlendRotation
  <2>1. ~req.lerp => from = tx /\ to = tx /\ r = tr
    BY <1>4 DEF BlendRotation
  <2>2. /\ place' \in Toward(from + Turn(r), to + Turn(tr), Step)
        /\ angle' \in Toward(r, tr, 1)
    BY <1>4 DEF BlendRotation, Turn
  <2>3. ~req.lerp => place' = tx + Turn(tr) /\ angle' = tr
    BY <1>1, <1>2, <2>1, <2>2, TowardRange
  <2> QED
    BY <1>4, <2>3 DEF BlendRotation
<1>5. CASE WriteTranslation
  <2>1. x' = place - Turn(angle)
    BY <1>5 DEF WriteTranslation, Turn
  <2>2. ~req.lerp => x' = tx
    BY <1>1, <1>2, <1>5, <2>1 DEF WriteTranslation
  <2> QED
    BY <1>5, <2>2 DEF WriteTranslation
<1>6. CASE \/ PoseArrives \/ ResetWorld \/ TestQuash \/ TestEnabled \/ LevelTranslation
           \/ LevelRotation \/ BlendTranslation \/ WriteRotation \/ ApplyTransform
  BY <1>6 DEF PoseArrives, ResetWorld, TestQuash, TestEnabled, LevelTranslation,
     LevelRotation, BlendTranslation, WriteRotation, ApplyTransform
<1>7. CASE UNCHANGED vars
  BY <1>7 DEF vars
<1> QED
  BY <1>3, <1>4, <1>5, <1>6, <1>7 DEF Next, HandleDevicePoseUpdated

-----------------------------------------------------------------------------
(* How far out a device is put *)

\* What overlapping does to the bounds: a report that was alone may have used up
\* what it was allowed, and is allowed two swings more.
LEMMA DisturbDrift ==
  ASSUME TypeOK, AloneInv, DriftInv, Disturb, alone \/ pc = "idle", pc' # "idle", ~alone',
         pc' = pc \/ pc' \in Reporting \ {"blendR", "writeR", "writeT"},
         UNCHANGED <<x, r, from, to, place>>,
         ipc' \in {"rotation", "snapRotation"} => UNCHANGED <<ipc, req>>
  PROVE  DriftInv'
<1> DEFINE d == Slack(disturbed)
<1> USE DEF Within
<1>1. {x, r, from, to, place} \subseteq Int /\ disturbed \in Nat
  BY GridAssumption DEF TypeOK
<1>2. d \in Nat /\ Slack(disturbed') = d + 2 * Swing /\ disturbed' > 0
  BY <1>1, SlackSteps DEF Disturb
<1>3. /\ Swing \in Nat /\ MinSwing + Swing = MaxSwing
      /\ {MinOffset, MaxOffset, MinSwing, MaxSwing} \subseteq Int
  BY SwingNat, BoundAssumption DEF Swing
<1>4. Turn(r) \in Int /\ MinSwing <= Turn(r) /\ Turn(r) <= MaxSwing
  BY TurnRange, TurnInt DEF TypeOK
<1>5. Within(x, MinOffset, MaxOffset, Swing + d)
  BY DEF DriftInv
<1> HIDE DEF d
<1>6. Within(x, MinOffset, MaxOffset, Slack(disturbed') - Swing)
  BY <1>1, <1>2, <1>3, <1>5
<1>7. Within(x + Turn(r), MinOffset + MinSwing, MaxOffset + MaxSwing, Slack(disturbed'))
  BY <1>1, <1>2, <1>3, <1>4, <1>6
<1>8. Within(x, MinOffset, MaxOffset, Swing + Slack(disturbed'))
  BY <1>1, <1>2, <1>3, <1>6
<1>9. pc' = "blendR" => to \in Offsets /\ Within(from, MinOffset, MaxOffset, Slack(disturbed') - Swing)
  <2> SUFFICES ASSUME pc' = "blendR"
               PROVE  to \in Offsets
                      /\ Within(from, MinOffset, MaxOffset, Slack(disturbed') - Swing)
    OBVIOUS
  <2>1. pc = "blendR" /\ alone
    BY DEF Reporting
  <2>2. from = x /\ to \in Offsets
    BY <2>1 DEF AloneInv, DriftInv
  <2> QED
    BY <1>6, <2>2
<1>10. pc' \in {"writeR", "writeT"} =>
         Within(place, MinOffset + MinSwing, MaxOffset + MaxSwing, Slack(disturbed') - Swing)
  <2> SUFFICES ASSUME pc' \in {"writeR", "writeT"}
               PROVE  Within(place, MinOffset + MinSwing, MaxOffset + MaxSwing,
                             Slack(disturbed') - Swing)
    OBVIOUS
  <2>1. pc \in {"writeR", "writeT"} /\ alone
    BY DEF Reporting
  <2>2. Within(place, MinOffset + MinSwing, MaxOffset + MaxSwing, d)
    BY <2>1 DEF DriftInv, d
  <2> QED
    BY <1>1, <1>2, <1>3, <2>2
<1>11. ipc' = "snapRotation" \/ (ipc' = "rotation" /\ ~req'.lerp) =>
         Within(x, MinOffset, MaxOffset, Slack(disturbed'))
  BY <1>1, <1>2, <1>3 DEF DriftInv, d
<1> HIDE DEF Within
<1> QED
  BY <1>2, <1>6, <1>7, <1>8, <1>9, <1>10, <1>11 DEF DriftInv

LEMMA DriftNext == TypeOK /\ AloneInv /\ DriftInv /\ [Next]_vars => DriftInv'
<1> SUFFICES ASSUME TypeOK, AloneInv, DriftInv, [Next]_vars PROVE DriftInv'
  OBVIOUS
<1> DEFINE d == Slack(disturbed)
<1>1. {x, tx, r, tr, angle, from, to, place} \subseteq Int /\ disturbed \in Nat
  BY GridAssumption DEF TypeOK
<1>2. d \in Nat /\ (disturbed > 0 => d >= 2 * Swing)
  BY <1>1, SlackSteps
<1>3. /\ Swing \in Nat /\ MinSwing + Swing = MaxSwing
      /\ {MinOffset, MaxOffset, MinSwing, MaxSwing} \subseteq Int
  BY SwingNat, BoundAssumption DEF Swing
<1>4. \A a \in {r, tr, angle} : Turn(a) \in Int /\ MinSwing <= Turn(a) /\ Turn(a) <= MaxSwing
  BY TurnRange, TurnInt DEF TypeOK
<1>5. MinOffset <= tx /\ tx <= MaxOffset
  BY BoundAssumption DEF TypeOK
<1> USE DEF table, pose, blend, history, Within
<1>6. ASSUME NEW m \in Request, SetEnabled(m) PROVE DriftInv'
  <2>1. CASE pc # "idle" /\ alone
    BY <1>6, <2>1, DisturbDrift DEF SetEnabled
  <2>2. CASE ~(pc # "idle" /\ alone)
    BY <1>6, <2>2 DEF SetEnabled, DriftInv, Reporting
  <2> QED
    BY <2>1, <2>2
<1>7. CASE TargetTranslation
  BY <1>7 DEF TargetTranslation, DriftInv, AloneInv
<1>8. CASE SnapTranslation
  BY <1>1, <1>2, <1>3, <1>4, <1>5, <1>8 DEF SnapTranslation, DriftInv, AloneInv, Reporting
<1>9. CASE TargetRotation
  BY <1>9 DEF TargetRotation, DriftInv, AloneInv
<1>10. CASE SnapRotation
  BY <1>1, <1>2, <1>3, <1>4, <1>10 DEF SnapRotation, DriftInv, AloneInv, Reporting
<1>11. CASE SetQuash
  BY <1>11 DEF SetQuash, DriftInv, AloneInv
<1>12. CASE PoseArrives
  <2>1. CASE ipc # "idle"
    BY <1>12, <2>1, DisturbDrift DEF PoseArrives, Reporting
  <2>2. CASE ipc = "idle"
    BY <1>12, <2>2 DEF PoseArrives, DriftInv
  <2> QED
    BY <2>1, <2>2
<1>13. CASE ResetWorld \/ TestQuash \/ TestEnabled \/ LevelTranslation \/ LevelRotation
  BY <1>13 DEF ResetWorld, TestQuash, TestEnabled, LevelTranslation, LevelRotation, DriftInv,
     Reporting
<1>14. CASE BlendTranslation
  BY <1>14 DEF BlendTranslation, DriftInv, Reporting, TypeOK
<1>15. CASE BlendRotation
  <2>1. place' \in Toward(from + Turn(r), to + Turn(tr), Step)
    BY <1>15 DEF BlendRotation, Turn
  <2>2. /\ place' \in Int
        /\ \/ from + Turn(r) <= place' /\ place' <= to + Turn(tr)
           \/ to + Turn(tr) <= place' /\ place' <= from + Turn(r)
    BY <1>1, <1>4, <2>1, TowardRange
  <2>3. MinOffset <= to /\ to <= MaxOffset
    BY <1>15, BoundAssumption DEF BlendRotation, DriftInv
  <2>4. alone => from = x
    BY <1>15 DEF AloneInv, BlendRotation
  <2>5. Within(place', MinOffset + MinSwing, MaxOffset + MaxSwing,
               IF alone THEN d ELSE d - Swing)
    BY <1>1, <1>2, <1>3, <1>4, <1>15, <2>2, <2>3, <2>4 DEF BlendRotation, DriftInv
  <2> QED
    BY <1>15, <2>5 DEF BlendRotation, DriftInv, Reporting
<1>16. CASE WriteRotation
  BY <1>1, <1>2, <1>3, <1>4, <1>16 DEF WriteRotation, DriftInv, Reporting
<1>17. CASE WriteTranslation
  <2>1. x' = place - Turn(angle) /\ (alone => r = angle /\ ipc = "idle")
    BY <1>17 DEF WriteTranslation, AloneInv, Turn
  <2>2. Within(place, MinOffset + MinSwing, MaxOffset + MaxSwing,
               IF alone THEN d ELSE d - Swing)
    BY <1>17 DEF WriteTranslation, DriftInv
  <2>3. ~alone => disturbed > 0
    BY <1>17 DEF WriteTranslation, DriftInv
  <2>4. Within(x', MinOffset, MaxOffset, Swing + d)
    BY <1>1, <1>2, <1>3, <1>4, <2>1, <2>2, <2>3
  <2>5. Within(x' + Turn(r), MinOffset + MinSwing, MaxOffset + MaxSwing, d)
    BY <1>1, <1>2, <1>3, <1>4, <2>1, <2>2, <2>3
  <2>6. ~alone => Within(x', MinOffset, MaxOffset, d)
    BY <1>1, <1>2, <1>3, <1>4, <2>1, <2>2, <2>3
  <2> QED
    BY <1>17, <2>1, <2>3, <2>4, <2>5, <2>6 DEF WriteTranslation, DriftInv, Reporting
<1>18. CASE ApplyTransform
  BY <1>18 DEF ApplyTransform, DriftInv, Reporting
<1>19. CASE UNCHANGED vars
  BY <1>19 DEF vars, DriftInv
<1> QED
  BY <1>6, <1>7, <1>8, <1>9, <1>10, <1>11, <1>12, <1>13, <1>14, <1>15, <1>16, <1>17, <1>18, <1>19
     DEF Next, SetDeviceTransform, HandleDevicePoseUpdated

-----------------------------------------------------------------------------
(* What the runs check *)

LEMMA TransformInit == Init => TransformInv
<1> SUFFICES ASSUME Init PROVE TransformInv
  OBVIOUS
<1>1. TypeOK
  BY TypeInit
<1>2. AloneInv /\ SnapInv
  BY DEF Init, AloneInv, SnapInv
<1>3. Slack(0) \in Nat /\ Swing \in Nat
  BY SlackSteps, SwingNat
<1>4. 0 \in Angles /\ 0 \in Offsets /\ Turn(0) = 0
  BY GridAssumption DEF Turn
<1>5. DriftInv
  BY <1>3, <1>4, TurnRange, BoundAssumption DEF Init, DriftInv, Within, Reporting
<1> QED
  BY <1>1, <1>2, <1>5 DEF TransformInv

\* The inductive invariant of the two threads holds however they interleave.
THEOREM TransformInvariant == Spec => []TransformInv
<1>1. TransformInv /\ [Next]_vars => TransformInv'
  BY TypeNext, AloneNext, SnapNext, DriftNext DEF TransformInv
<1> QED
  BY <1>1, TransformInit, PTL DEF Spec

\* Every field of a DeviceTransform keeps its type, torn or not: its rotation and its
\* targets are values that were sent.
THEOREM TypeCorrect == Spec => []TypeOK
BY TransformInvariant, PTL DEF TransformInv

\* A device is never put farther out than the offsets sent and one swing, and two
\* swings more for each report a SetDeviceTransform overlapped: HandleDevicePoseUpdated.
THEOREM DriftBounded == Spec => []Bounded
<1>1. TransformInv => Bounded
  <2> SUFFICES ASSUME TransformInv PROVE Bounded
    OBVIOUS
  <2> DEFINE reach == Swing + Slack(disturbed)
  <2>1. {disturbed, x, Swing, MinOffset, MaxOffset} \subseteq Int
    BY SwingNat, BoundAssumption DEF TransformInv, TypeOK
  <2>2. (1 + 2 * disturbed) * (MaxSwing - MinSwing) = reach
    BY <2>1 DEF Slack, Swing
  <2>3. Within(x, MinOffset, MaxOffset, reach)
    BY DEF TransformInv, DriftInv
  <2> QED
    BY <2>2, <2>3 DEF Bounded, Within
<1> QED
  BY <1>1, TransformInvariant, PTL

\* A blend that no SetDeviceTransform disturbed leaves the device no farther from its
\* target than it found it, and on the same side: BlendTransform, interpolateAround.
THEOREM BlendApproaches == Spec => []Approach
<1>1. TransformInv => Approach
  <2> SUFFICES ASSUME TransformInv, pc = "apply", alone
               PROVE  Between(x - tx + Lever * (r - tr), gap)
    BY DEF Approach, Between
  <2>1. {x, tx, r, tr} \subseteq Int
    BY GridAssumption DEF TransformInv, TypeOK
  <2>2. x - tx + Lever * (r - tr) = x - tx + Turn(r) - Turn(tr)
    BY <2>1, TurnInt, TurnDifference
  <2> QED
    BY <2>2 DEF TransformInv, AloneInv
<1> QED
  BY <1>1, TransformInvariant, PTL

\* An offset sent without lerp while no pose was handled holds from then on:
\* SetDeviceTransform's snap, and every blend that follows.
THEOREM SnapStays == Spec => []SnapHolds
<1>1. TransformInv => SnapHolds
  BY DEF TransformInv, SnapInv, SnapHolds
<1> QED
  BY <1>1, TransformInvariant, PTL
=============================================================================
