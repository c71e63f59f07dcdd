-------------------------- MODULE DeviceTransforms --------------------------
(***************************************************************************)
(* The driver's table entry of one tracked device (struct DeviceTransform  *)
(* of ServerTrackedDeviceProvider.h) between the two threads that share it *)
(* without a lock: the IPC thread runs SetDeviceTransform when the overlay *)
(* sends an offset, and the thread that reports the device's poses runs    *)
(* HandleDevicePoseUpdated, which tests the flags, blends the offset       *)
(* towards its target and applies it.  Each field access is a step of its  *)
(* own.                                                                    *)
(*                                                                         *)
(* Space is one axis and small angles: an offset <<x, r>> puts the device, *)
(* Lever away from the pivot, at x + Lever * r.  Blending interpolates     *)
(* that place and the angle separately (IsoTransform::interpolateAround),  *)
(* by a fraction that depends on the clock and the speed: any grid point   *)
(* strictly nearer to the target, or the target itself (the fraction is    *)
(* clamped to 1).  The grid makes the approach end.  The scale and the     *)
(* debug offset are left out.                                              *)
(***************************************************************************)
EXTENDS Integers

CONSTANTS
  Step,              \* the grid's step, mm
  Offsets, Angles,   \* the translations (mm) and angles (degrees) sent
  Lever,             \* mm the device moves per degree
  ThrTransSmall, ThrTransLarge,   \* thr_trans_*, in thousandths: mm in the UI
  ThrRotSmall, ThrRotLarge,       \* thr_rot_*, degrees
  MinOffset, MaxOffset,           \* the translations sent lie between these,
  MinSwing, MaxSwing,             \* and what an angle does to the device between these
  MaxDisturbed       \* bound: how many pose reports overlap a SetDeviceTransform

ASSUME GridAssumption ==
  /\ Step \in Nat \ {0}
  /\ Lever \in Int
  /\ Offsets \subseteq Int /\ 0 \in Offsets
  /\ Angles \subseteq Int /\ 0 \in Angles
  /\ \A o \in Offsets : o % Step = 0
  /\ \A a \in Angles : (Lever * a) % Step = 0
ASSUME BoundAssumption ==
  /\ {MinOffset, MaxOffset, MinSwing, MaxSwing} \subseteq Int /\ MaxDisturbed \in Nat
  /\ \A o \in Offsets : MinOffset <= o /\ o <= MaxOffset
  /\ \A a \in Angles : MinSwing <= Lever * a /\ Lever * a <= MaxSwing
ASSUME ThresholdAssumption ==
  /\ {ThrTransSmall, ThrTransLarge, ThrRotSmall, ThrRotLarge} \subseteq Nat
  /\ ThrTransSmall <= ThrTransLarge /\ ThrRotSmall <= ThrRotLarge

\* What ScanAndApplyProfile and ResetAndDisableOffsets send.
Request ==
  [enabled : {TRUE}, x : Offsets, r : Angles, lerp : BOOLEAN, quash : {FALSE}]
    \cup [enabled : {TRUE}, x : Offsets, r : Angles, lerp : {TRUE}, quash : {TRUE}]
    \cup [enabled : {FALSE}, x : {0}, r : {0}, lerp : {FALSE}, quash : {FALSE}]

VARIABLES
  enabled, quash,   \* tf.enabled, tf.quash
  x, r,             \* tf.transform
  tx, tr,           \* tf.targetTransform
  rate,             \* tf.currentRate
  ipc, req,         \* where SetDeviceTransform is, and its argument
  pc,               \* where HandleDevicePoseUpdated is
  reset,            \* it zeroed the pose's world transform
  gap,              \* GetTransformDeltaSize's signed distance at the device
  from, to,         \* the two translations BlendTransform read
  place, angle,     \* interpolateAround's finalPos and newRotation
  alone,            \* history: no SetDeviceTransform since the pose came
  clean,            \* history: no pose during the last SetDeviceTransform
  disturbed         \* history: how many poses were not alone

table == <<enabled, quash, x, r, tx, tr>>
blend == <<from, to, place, angle>>
history == <<alone, clean, disturbed>>
pose == <<pc, reset, gap, blend>>
vars == <<table, rate, ipc, req, pose, history>>

Init ==
  /\ enabled = FALSE /\ quash = FALSE
  /\ x = 0 /\ r = 0 /\ tx = 0 /\ tr = 0
  /\ rate = "TINY"
  /\ ipc = "idle"
  /\ req = [enabled |-> FALSE, x |-> 0, r |-> 0, lerp |-> FALSE, quash |-> FALSE]
  /\ pc = "idle"
  /\ reset = FALSE
  /\ gap = 0 /\ from = 0 /\ to = 0 /\ place = 0 /\ angle = 0
  /\ alone = TRUE /\ clean = TRUE /\ disturbed = 0

-----------------------------------------------------------------------------
(* SetDeviceTransform, on the IPC thread *)

\* A pose report and a SetDeviceTransform overlap.
Disturb == disturbed < MaxDisturbed /\ disturbed' = disturbed + 1

SetEnabled(m) ==
  /\ ipc = "idle"
  /\ req' = m
  /\ enabled' = m.enabled
  /\ ipc' = "translation"
  /\ alone' = FALSE
  /\ clean' = (pc = "idle")
  /\ IF pc # "idle" /\ alone THEN Disturb ELSE UNCHANGED disturbed
  /\ UNCHANGED <<quash, x, r, tx, tr, rate, pc, reset, gap, blend>>

\* Mutants: the translation is added to the old target; the rotation is never
\* snapped.
TargetTranslationAdded ==
  /\ ipc = "translation"
  /\ tx' = tx + req.x
  /\ ipc' = IF req.lerp THEN "rotation" ELSE "snapTranslation"
  /\ UNCHANGED <<enabled, quash, x, r, tr, rate, req, pose, history>>
TargetRotationOnly ==
  /\ ipc = "rotation"
  /\ tr' = req.r
  /\ ipc' = "quash"
  /\ UNCHANGED <<enabled, quash, x, r, tx, rate, req, pose, history>>

TargetTranslation ==
  /\ ipc = "translation"
  /\ tx' = req.x
  /\ ipc' = IF req.lerp THEN "rotation" ELSE "snapTranslation"
  /\ UNCHANGED <<enabled, quash, x, r, tr, rate, req, pose, history>>

SnapTranslation ==
  /\ ipc = "snapTranslation"
  /\ x' = tx
  /\ ipc' = "rotation"
  /\ UNCHANGED <<enabled, quash, r, tx, tr, rate, req, pose, history>>

TargetRotation ==
  /\ ipc = "rotation"
  /\ tr' = req.r
  /\ ipc' = IF req.lerp THEN "quash" ELSE "snapRotation"
  /\ UNCHANGED <<enabled, quash, x, r, tx, rate, req, pose, history>>

SnapRotation ==
  /\ ipc = "snapRotation"
  /\ r' = tr
  /\ ipc' = "quash"
  /\ UNCHANGED <<enabled, quash, x, tx, tr, rate, req, pose, history>>

SetQuash ==
  /\ ipc = "quash"
  /\ quash' = req.quash
  /\ ipc' = "idle"
  /\ UNCHANGED <<enabled, x, r, tx, tr, rate, req, pose, history>>

SetDeviceTransform ==
  \/ \E m \in Request : SetEnabled(m)
  \/ TargetTranslation \/ SnapTranslation
  \/ TargetRotation \/ SnapRotation
  \/ SetQuash

-----------------------------------------------------------------------------
(* HandleDevicePoseUpdated, on the device's thread *)

PoseArrives ==
  /\ pc = "idle"
  /\ pc' = IF enabled THEN "quashed" ELSE "world"
  /\ reset' = FALSE
  /\ alone' = (ipc = "idle")
  /\ clean' = (clean /\ ipc = "idle")
  /\ IF ipc # "idle" THEN Disturb ELSE UNCHANGED disturbed
  /\ UNCHANGED <<table, rate, ipc, req, gap, blend>>

ResetWorld ==
  /\ pc = "world"
  /\ reset' = ~quash
  /\ pc' = "quashed"
  /\ UNCHANGED <<table, rate, ipc, req, gap, blend, history>>

TestQuash ==
  /\ pc = "quashed"
  /\ pc' = IF quash THEN "idle" ELSE "enabled"
  /\ UNCHANGED <<table, rate, ipc, req, reset, gap, blend, history>>

TestEnabled ==
  /\ pc = "enabled"
  /\ pc' = IF enabled THEN "levelT" ELSE "idle"
  /\ UNCHANGED <<table, rate, ipc, req, reset, gap, blend, history>>

LevelTranslation ==
  /\ pc = "levelT"
  /\ gap' = x - tx
  /\ pc' = "levelR"
  /\ UNCHANGED <<table, rate, ipc, req, reset, blend, history>>

Rank == [TINY |-> 0, SMALL |-> 1, LARGE |-> 2]
Larger(a, b) == IF Rank[a] >= Rank[b] THEN a ELSE b
Magnitude(d) == IF d < 0 THEN -d ELSE d

\* trans_delta is the squared norm, in square metres: d * d / 1000000 exceeds
\* thr / 1000 when d * d exceeds 1000 * thr.
TransLevel(d) ==
  IF d * d > 1000 * ThrTransLarge THEN "LARGE"
  ELSE IF d * d > 1000 * ThrTransSmall THEN "SMALL" ELSE "TINY"

RotLevel(a) ==
  IF Magnitude(a) > ThrRotLarge THEN "LARGE"
  ELSE IF Magnitude(a) > ThrRotSmall THEN "SMALL" ELSE "TINY"

\* Mutant: the speed never falls back.
DeltaSizeSticks(prior, d, a) == Larger(prior, Larger(TransLevel(d), RotLevel(a)))

GetTransformDeltaSize(prior, d, a) ==
  LET level == Larger(TransLevel(d), RotLevel(a))
  IN  IF level = "TINY" THEN "TINY" ELSE Larger(prior, level)

LevelRotation ==
  /\ pc = "levelR"
  /\ gap' = gap + Lever * (r - tr)
  /\ rate' = GetTransformDeltaSize(rate, gap + Lever * (r - tr), r - tr)
  /\ pc' = "blendT"
  /\ UNCHANGED <<table, ipc, req, reset, blend, history>>

\* BlendTransform reads both translations, then both rotations, here once each.
BlendTranslation ==
  /\ pc = "blendT"
  /\ from' = x
  /\ to' = tx
  /\ pc' = "blendR"
  /\ UNCHANGED <<table, rate, ipc, req, reset, gap, place, angle, history>>

\* Mutant: the fraction is not clamped to 1.
TowardAndPast(a, b, s) ==
  IF a <= b THEN {c \in a .. 3 * b - 2 * a : (b - c) % s = 0}
  ELSE {c \in 3 * b - 2 * a .. a : (c - b) % s = 0}

\* Where an interpolation from a to b by a fraction in (0, 1] may end, on a
\* grid of step s: nearer to b, never past it.
Toward(a, b, s) ==
  IF a = b THEN {b}
  ELSE IF a < b THEN {c \in a + 1 .. b : (b - c) % s = 0}
  ELSE {c \in b .. a - 1 : (c - b) % s = 0}

BlendRotation ==
  /\ pc = "blendR"
  /\ place' \in Toward(from + Lever * r, to + Lever * tr, Step)
  /\ angle' \in {a \in Angles : a \in Toward(r, tr, 1)}
  /\ from' = 0 /\ to' = 0
  /\ pc' = "writeR"
  /\ UNCHANGED <<table, rate, ipc, req, reset, gap, history>>

WriteRotation ==
  /\ pc = "writeR"
  /\ r' = angle
  /\ pc' = "writeT"
  /\ UNCHANGED <<enabled, quash, x, tx, tr, rate, ipc, req, reset, gap, blend, history>>

WriteTranslation ==
  /\ pc = "writeT"
  /\ x' = place - Lever * angle
  /\ pc' = "apply"
  /\ UNCHANGED <<enabled, quash, r, tx, tr, rate, ipc, req, reset, gap, blend, history>>

ApplyTransform ==
  /\ pc = "apply"
  /\ pc' = "idle"
  /\ gap' = 0 /\ place' = 0 /\ angle' = 0
  /\ reset' = FALSE
  /\ UNCHANGED <<table, rate, ipc, req, from, to, history>>

HandleDevicePoseUpdated ==
  \/ PoseArrives \/ ResetWorld \/ TestQuash \/ TestEnabled
  \/ LevelTranslation \/ LevelRotation
  \/ BlendTranslation \/ BlendRotation
  \/ WriteRotation \/ WriteTranslation
  \/ ApplyTransform

Next == SetDeviceTransform \/ HandleDevicePoseUpdated

Spec == Init /\ [][Next]_vars

\* A device that is tracked keeps reporting poses; the overlay may never call.
FairSpec == Spec /\ WF_vars(HandleDevicePoseUpdated) /\ WF_vars(ipc # "idle" /\ SetDeviceTransform)

-----------------------------------------------------------------------------
(* Properties *)

TypeOK ==
  /\ enabled \in BOOLEAN /\ quash \in BOOLEAN
  /\ x \in Int /\ tx \in Offsets
  /\ r \in Angles /\ tr \in Angles
  /\ rate \in {"TINY", "SMALL", "LARGE"}
  /\ ipc \in {"idle", "translation", "snapTranslation", "rotation", "snapRotation", "quash"}
  /\ req \in Request
  /\ pc \in {"idle", "world", "quashed", "enabled", "levelT", "levelR", "blendT",
             "blendR", "writeR", "writeT", "apply"}
  /\ reset \in BOOLEAN
  /\ {gap, from, to, place} \subseteq Int /\ angle \in Angles
  /\ alone \in BOOLEAN /\ clean \in BOOLEAN /\ disturbed \in 0 .. MaxDisturbed

\* However the two threads tear each other's offsets, a device is never put
\* farther out than the offsets the overlay sends and one swing of the lever, and
\* two swings more for each pose report that a SetDeviceTransform overlapped.
Bounded ==
  LET reach == (1 + 2 * disturbed) * (MaxSwing - MinSwing)
  IN  MinOffset - reach <= x /\ x <= MaxOffset + reach

\* A blend that no SetDeviceTransform disturbed leaves the device no farther
\* from where the target puts it than it found it, and never beyond, although
\* the place and the angle are blended apart and written back as a translation.
Approach ==
  pc = "apply" /\ alone =>
    LET left == x - tx + Lever * (r - tr)
    IN  (0 <= left /\ left <= gap) \/ (gap <= left /\ left <= 0)

\* An offset sent without lerp while no pose was being handled holds from then
\* on: no later blend moves the device off it.
SnapHolds ==
  clean /\ ipc = "idle" /\ ~req.lerp => x = tx /\ r = tr

\* Whatever a race left behind (a snap overwritten by an older blend, the
\* translation of one request with the rotation of another, a speed computed
\* from such a pair), once the overlay leaves an enabled device alone its offset
\* reaches the target and its speed falls back to the lowest.
Settles ==
  <>[](ipc = "idle" /\ enabled /\ ~quash) => <>[](x = tx /\ r = tr /\ rate = "TINY")

\* The settings window gives the thresholds in mm and says the fastest speed is
\* used beyond the largest: a device farther off than that is blended at LARGE.
FastWhenFar ==
  pc = "blendT" /\ Magnitude(gap) > ThrTransLarge => rate = "LARGE"
=============================================================================
