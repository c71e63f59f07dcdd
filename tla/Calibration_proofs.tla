------------------------- MODULE Calibration_proofs -------------------------
(***************************************************************************)
(* What holds of the overlay's calibration for any number of devices and   *)
(* tracking systems, whatever the profiles name, over any number of starts *)
(* and crashes: the types, that the HMD is left alone, that a one-shot     *)
(* calibration has its devices and inherits nothing, and that the profile  *)
(* in memory is the one on disk.                                           *)
(***************************************************************************)
EXTENDS Calibration, TLAPS, WellFoundedInduction

Contexts ==
  [state : States, ref : Ids, tgt : Ids, refStandby : Ids, tgtStandby : Ids,
   refSystem : SystemNames, tgtSystem : SystemNames,
   enabled : BOOLEAN, valid : BOOLEAN, calib : Calibs \cup {0},
   quash : BOOLEAN, trigger : BOOLEAN, relcal : BOOLEAN]

Tables == [Devices -> [enabled : BOOLEAN, calib : Calibs \cup {0}, quash : BOOLEAN]]

\* A table that leaves the HMD alone.
GoodTable(t) == t \in Tables /\ t[Hmd] = Off

\* What most steps leave of a context: its offset and validity, and a device that
\* was chosen is there or another is chosen.
Keeps(c, k) ==
  /\ k \in Contexts
  /\ k.valid = c.valid /\ k.calib = c.calib
  /\ c.ref # NoDevice => k.ref # NoDevice
  /\ c.tgt # NoDevice => k.tgt # NoDevice

\* ... its state as well.
Same(c, k) == Keeps(c, k) /\ k.state = c.state

Calcs == [valid : BOOLEAN, samples : 0 .. SampleCount]
Files == {NoFile, EmptyFile} \cup ProfileFiles

CalibrationInv ==
  TypeOK /\ HmdUntouched /\ TargetsHeld /\ NoInheritedResult /\ SavedProfile

-----------------------------------------------------------------------------
(* The constants *)

LEMMA DeviceFacts ==
  /\ Hmd \in Devices /\ Hmd \in Ids /\ NoDevice \in Ids /\ Devices \subseteq Ids
  /\ Devices \subseteq Nat /\ NoDevice \notin Devices
BY DeviceAssumption DEF Devices, Hmd, Ids, NoDevice

LEMMA NameFacts ==
  /\ NoSystem \in SystemNames
  /\ \A d \in Devices : RawSystem[d] \in SystemNames /\ UiSystem[d] \in SystemNames
BY DEF SystemNames

LEMMA CountFacts == Calibs \subseteq Nat /\ SampleCount \in Nat /\ Drop \in Nat /\ Drop <= SampleCount
                    /\ SampleCount > 0
BY CountAssumption

\* A set of devices that is not empty has a first one.
LEMMA FirstIn == ASSUME NEW D, D \subseteq Nat, D # {} PROVE First(D) \in D
<1> DEFINE less == {p \in Nat \X Nat : p[1] < p[2]}
<1>1. IsWellFoundedOn(less, Nat)
  BY NatLessThanWellFounded DEF OpToRel
<1>0. \A a, b \in Nat : a < b => <<a, b>> \in less
  OBVIOUS
<1> HIDE DEF less
<1>2. PICK d \in D : \A e \in D : ~(<<e, d>> \in less)
  BY <1>1, WFMin
<1>3. \A e \in D : d <= e
  <2> SUFFICES ASSUME NEW e \in D PROVE d <= e
    OBVIOUS
  <2>1. d \in Nat /\ e \in Nat
    OBVIOUS
  <2>2. ~(e < d)
    BY <2>1, <1>0, <1>2
  <2> QED
    BY <2>1, <2>2
<1> QED
  BY <1>3 DEF First

-----------------------------------------------------------------------------
(* The operators of the context *)

LEMMA NewContextOK == NewContext \in Contexts /\ ~NewContext.valid /\ NewContext.state = "None"
BY DeviceFacts, NameFacts DEF NewContext, Contexts, States

LEMMA ClearedOK ==
  ASSUME NEW c \in Contexts
  PROVE  Cleared(c) \in Contexts /\ ~Cleared(c).valid /\ Cleared(c).state = c.state
BY NameFacts DEF Cleared, Contexts

LEMMA KeepsTransitive ==
  ASSUME NEW a, NEW b, NEW c, Keeps(a, b), Keeps(b, c) PROVE Keeps(a, c)
BY DEF Keeps

LEMMA SameTransitive ==
  ASSUME NEW a, NEW b, NEW c, Same(a, b), Same(b, c) PROVE Same(a, c)
BY DEF Same, Keeps

LEMMA FindOK == ASSUME NEW d \in Ids PROVE Find(d) \in Ids
BY DeviceFacts DEF Find

LEMMA AssignKeeps ==
  ASSUME NEW c \in Contexts
  PROVE  Same(c, AssignTargets(c))
BY FindOK DEF AssignTargets, Same, Keeps, Contexts

LEMMA StartKeeps ==
  ASSUME NEW c \in Contexts
  PROVE  /\ Keeps(c, StartCalibration(c))
         /\ \/ StartCalibration(c).state = c.state
            \/ /\ StartCalibration(c).state = "Begin"
               /\ NoDevice \notin {StartCalibration(c).ref, StartCalibration(c).tgt}
<1>1. AssignTargets(c) \in Contexts
  BY AssignKeeps DEF Same, Keeps
<1> QED
  BY <1>1, AssignKeeps DEF StartCalibration, Assigned, Same, Keeps, Contexts, States

LEMMA StartContinuousKeeps ==
  ASSUME NEW c \in Contexts
  PROVE  Keeps(c, StartContinuousCalibration(c)) /\ StartContinuousCalibration(c).state = "Continuous"
<1> DEFINE a == AssignTargets(c)
           s == StartCalibration(a)
<1>1. Keeps(c, a) /\ a \in Contexts
  BY AssignKeeps DEF Same, Keeps
<1>2. Keeps(a, s) /\ s \in Contexts
  BY <1>1, StartKeeps DEF Keeps
<1> HIDE DEF a, s
<1>3. Keeps(s, [s EXCEPT !.state = "Continuous"]) /\ [s EXCEPT !.state = "Continuous"].state = "Continuous"
  BY <1>2 DEF Keeps, Contexts, States, Continuing
<1> QED
  BY <1>1, <1>2, <1>3, KeepsTransitive DEF StartContinuousCalibration, a, s

LEMMA EndContinuousKeeps ==
  ASSUME NEW c \in Contexts
  PROVE  Keeps(c, EndContinuousCalibration(c)) /\ EndContinuousCalibration(c).state = "None"
BY DEF EndContinuousCalibration, Keeps, Contexts, States

\* A profile that is read gives its context the profile's offset.
LEMMA ParseOK ==
  ASSUME NEW c \in Contexts, NEW f \in ProfileFiles
  PROVE  /\ ParseProfile(c, f) \in Contexts
         /\ ParseProfile(c, f).valid /\ ParseProfile(c, f).calib = f.calib
         /\ ParseProfile(c, f).state \in {c.state, "ContinuousStandby"}
<1> DEFINE relcal == f.relcal
           trigger == f.trigger \/ f.relcal
           quash == f.quash \/ f.trigger \/ f.relcal
           state == IF f.autostart \/ f.quash \/ f.trigger \/ f.relcal
                    THEN "ContinuousStandby" ELSE c.state
<1>1. relcal \in BOOLEAN /\ trigger \in BOOLEAN /\ quash \in BOOLEAN
  BY DEF ProfileFiles
<1>2. state \in States /\ state \in {c.state, "ContinuousStandby"}
  BY DEF Contexts, States, Continuing
<1>3. /\ f.kind = "profile" /\ f.calib \in Calibs \cup {0}
      /\ f.refSystem \in SystemNames /\ f.tgtSystem \in SystemNames
      /\ f.refStandby \in Ids /\ f.tgtStandby \in Ids
  BY DEF ProfileFiles
<1> DEFINE p == [c EXCEPT !.state = state, !.quash = quash, !.trigger = trigger,
                          !.relcal = relcal, !.calib = f.calib,
                          !.refSystem = f.refSystem, !.tgtSystem = f.tgtSystem,
                          !.refStandby = f.refStandby, !.tgtStandby = f.tgtStandby,
                          !.valid = TRUE]
<1>4. ParseProfile(c, f) = p
  <2>1. f.kind # "empty"
    BY <1>3
  <2> QED
    BY <2>1, Zenon DEF ParseProfile
<1> HIDE DEF relcal, trigger, quash, state
<1>5. p \in Contexts
  <2>1. PICK r \in BOOLEAN, t \in BOOLEAN, q \in BOOLEAN : r = relcal /\ t = trigger /\ q = quash
    BY <1>1, Zenon
  <2>2. PICK s \in States, k \in Calibs \cup {0} : s = state /\ k = f.calib
    BY <1>2, <1>3, Zenon
  <2>3. PICK m \in SystemNames, n \in SystemNames, i \in Ids, j \in Ids :
          m = f.refSystem /\ n = f.tgtSystem /\ i = f.refStandby /\ j = f.tgtStandby
    BY <1>3, Zenon
  <2>4. p = [c EXCEPT !.state = s, !.quash = q, !.trigger = t, !.relcal = r, !.calib = k,
                   !.refSystem = m, !.tgtSystem = n, !.refStandby = i, !.tgtStandby = j,
                   !.valid = TRUE]
    BY <2>1, <2>2, <2>3, Zenon
  <2> HIDE DEF p
  <2> QED
    BY <2>4 DEF Contexts
<1>6. p.valid /\ p.calib = f.calib /\ p.state = state
  BY DEF Contexts
<1> QED
  BY <1>2, <1>4, <1>5, <1>6

LEMMA WrittenOK ==
  ASSUME NEW c \in Contexts
  PROVE  Written(c) \in ProfileFiles /\ Written(c).calib = c.calib /\ Written(c).kind = "profile"
BY DEF Written, ProfileFiles, Contexts

-----------------------------------------------------------------------------
(* The scan *)

LEMMA EnabledOK == ASSUME NEW c \in Contexts PROVE Enabled(c) \in BOOLEAN
BY DEF Enabled, Contexts

LEMMA OffsetOK ==
  ASSUME NEW c \in Contexts, NEW d \in Devices
  PROVE  /\ Offset(c, d) \in [enabled : BOOLEAN, calib : Calibs \cup {0}, quash : BOOLEAN]
         /\ Offset(c, Hmd) = Off
<1>1. Offset(c, Hmd) = Off
  BY DEF Offset
<1> DEFINE quash == c.state = "Continuous" /\ d = c.tgt /\ c.quash
<1>2. quash \in BOOLEAN
  BY DEF Contexts
<1>3. Offset(c, d) \in {Off, [enabled |-> TRUE, calib |-> c.calib, quash |-> quash]}
  BY Zenon DEF Offset
<1> DEFINE Entries == [enabled : BOOLEAN, calib : Calibs \cup {0}, quash : BOOLEAN]
<1>4. \A q \in BOOLEAN : [enabled |-> TRUE, calib |-> c.calib, quash |-> q] \in Entries
  BY DEF Contexts
<1>5. Off \in Entries
  BY DEF Off
<1> HIDE DEF quash, Entries
<1>6. Offset(c, d) \in Entries
  BY <1>2, <1>3, <1>4, <1>5, Zenon
<1> QED
  BY <1>1, <1>6 DEF Entries

LEMMA AppliedOK ==
  ASSUME NEW c \in Contexts, NEW t, GoodTable(t) PROVE GoodTable(Applied(c, t))
BY OffsetOK, DeviceFacts DEF Applied, GoodTable, Tables

LEMMA ResetOK == ASSUME NEW t, GoodTable(t) PROVE GoodTable(ResetAllDeviceTransforms(t))
BY DeviceFacts DEF ResetAllDeviceTransforms, Sent, GoodTable, Tables, Off

LEMMA ScanOK ==
  ASSUME NEW c \in Contexts, NEW t, GoodTable(t)
  PROVE  LET r == ScanAndApplyProfile([ctx |-> c, table |-> t])
         IN  Same(c, r.ctx) /\ GoodTable(r.table)
<1>1. Same(c, [c EXCEPT !.enabled = Enabled(c)])
  BY EnabledOK DEF Same, Keeps, Contexts
<1>2. GoodTable(Sent(t, Applied(c, t)))
  BY AppliedOK DEF Sent
<1> QED
  BY <1>1, <1>2 DEF ScanAndApplyProfile

-----------------------------------------------------------------------------
(* The selection of the calibration tab *)

LEMMA SystemsOK == ASSUME readable \subseteq Devices PROVE Systems \subseteq SystemNames
BY NameFacts DEF Systems

LEMMA FirstSystemOK ==
  ASSUME readable \subseteq Devices, NEW S, S \subseteq Systems, S # {}
  PROVE  FirstSystem(S) \in SystemNames
<1> DEFINE D == {d \in readable : UiSystem[d] \in S}
<1>1. D # {} /\ D \subseteq Devices /\ D \subseteq Nat
  BY DeviceFacts DEF Systems
<1>2. First(D) \in D
  BY <1>1, FirstIn
<1> QED
  BY <1>1, <1>2, NameFacts DEF FirstSystem

LEMMA ShownOK ==
  ASSUME readable \subseteq Devices, NEW s \in SystemNames, NEW S, S \subseteq Systems
  PROVE  Shown(s, S) \in SystemNames
BY FirstSystemOK DEF Shown

LEMMA SystemSelectionKeeps ==
  ASSUME readable \subseteq Devices, NEW c \in Contexts PROVE Same(c, SystemSelection(c))
<1> DEFINE s == Shown(c.refSystem, Systems \ {c.tgtSystem})
           t == IF s \in Systems /\ s = c.tgtSystem THEN NoSystem ELSE c.tgtSystem
           u == Shown(t, Systems \ {s})
<1>1. s \in SystemNames
  BY ShownOK DEF Contexts
<1>2. t \in SystemNames
  BY NameFacts DEF Contexts
<1> HIDE DEF s, t
<1>3. u \in SystemNames
  BY <1>2, ShownOK
<1>4. SystemSelection(c) = [c EXCEPT !.refSystem = s, !.tgtSystem = u]
  BY DEF SystemSelection, s, t
<1> HIDE DEF u
<1> QED
  BY <1>1, <1>3, <1>4 DEF Same, Keeps, Contexts

LEMMA KeptOK ==
  ASSUME NEW d \in Ids, NEW D, D \subseteq Devices
  PROVE  Kept(d, D) \in Ids /\ (d # NoDevice => Kept(d, D) # NoDevice)
<1>1. D # {} => First(D) \in Devices
  BY FirstIn, DeviceFacts
<1> QED
  BY <1>1, DeviceFacts DEF Kept

LEMMA WithDeviceKeeps ==
  ASSUME NEW c \in Contexts, NEW d \in Ids
  PROVE  /\ (c.ref # NoDevice => d # NoDevice) => Same(c, WithReference(c, d))
         /\ (c.tgt # NoDevice => d # NoDevice) => Same(c, WithTarget(c, d))
BY DEF WithReference, WithTarget, Same, Keeps, Contexts

LEMMA DeviceSelectionsKeeps ==
  ASSUME readable \subseteq Devices, NEW c \in Contexts PROVE Same(c, DeviceSelections(c))
<1> DEFINE r == WithReference(c, Kept(c.ref, InSystem(c.refSystem)))
           d == Kept(c.tgt, InSystem(c.tgtSystem))
<1>1. Same(c, r) /\ r \in Contexts /\ r.tgt = c.tgt
  <2>1. Same(c, r)
    BY KeptOK, WithDeviceKeeps DEF InSystem, Contexts
  <2> QED
    BY <2>1 DEF WithReference, Same, Keeps, Contexts
<1>2. d \in Ids /\ (c.tgt # NoDevice => d # NoDevice)
  BY KeptOK DEF InSystem, Contexts
<1>3. DeviceSelections(c) = WithTarget(r, d)
  BY DEF DeviceSelections
<1> HIDE DEF r, d
<1>4. Same(r, WithTarget(r, d))
  BY <1>1, <1>2, WithDeviceKeeps
<1> QED
  BY <1>1, <1>3, <1>4, SameTransitive

LEMMA CompletedKeeps ==
  ASSUME readable \subseteq Devices, ctx \in Contexts PROVE Same(ctx, Completed)
<1>1. Same(ctx, SystemSelection(ctx)) /\ SystemSelection(ctx) \in Contexts
  BY SystemSelectionKeeps DEF Same, Keeps
<1>2. Same(SystemSelection(ctx), Completed)
  BY <1>1, DeviceSelectionsKeeps DEF Completed
<1> QED
  BY <1>1, <1>2, SameTransitive

LEMMA ChoicesKeep ==
  ASSUME readable \subseteq Devices, ctx \in Contexts, NEW k \in Choices PROVE Same(ctx, k)
<1> DEFINE c == SystemSelection(ctx)
<1>1. Same(ctx, c) /\ c \in Contexts
  BY SystemSelectionKeeps DEF Same, Keeps
<1>2. Same(ctx, Completed) /\ Completed \in Contexts
  BY CompletedKeeps DEF Same, Keeps
<1>3. ASSUME NEW s \in Systems PROVE Same(ctx, DeviceSelections(SystemSelection([ctx EXCEPT !.refSystem = s])))
  <2> DEFINE e == [ctx EXCEPT !.refSystem = s]
  <2>1. Same(ctx, e) /\ e \in Contexts
    BY <1>3, SystemsOK DEF Same, Keeps, Contexts
  <2> HIDE DEF e
  <2>2. Same(e, SystemSelection(e)) /\ SystemSelection(e) \in Contexts
    BY <2>1, SystemSelectionKeeps DEF Same, Keeps
  <2>3. Same(SystemSelection(e), DeviceSelections(SystemSelection(e)))
    BY <2>2, DeviceSelectionsKeeps
  <2>4. Same(ctx, DeviceSelections(SystemSelection(e)))
    BY <2>1, <2>2, <2>3, SameTransitive
  <2> QED
    BY <2>4 DEF e
<1>4. ASSUME NEW t \in Systems PROVE Same(ctx, DeviceSelections([c EXCEPT !.tgtSystem = t]))
  <2> DEFINE e == [c EXCEPT !.tgtSystem = t]
  <2> HIDE DEF c
  <2>1. Same(c, e) /\ e \in Contexts
    BY <1>1, <1>4, SystemsOK DEF Same, Keeps, Contexts
  <2> HIDE DEF e
  <2>2. Same(e, DeviceSelections(e))
    BY <2>1, DeviceSelectionsKeeps
  <2>3. Same(ctx, DeviceSelections(e))
    BY <1>1, <2>1, <2>2, SameTransitive
  <2> QED
    BY <2>3 DEF e
<1>5. ASSUME NEW s, NEW d \in InSystem(s)
      PROVE  Same(ctx, WithReference(Completed, d)) /\ Same(ctx, WithTarget(Completed, d))
  <2>1. d \in Ids /\ d # NoDevice
    BY DeviceFacts DEF InSystem
  <2>2. Same(Completed, WithReference(Completed, d)) /\ Same(Completed, WithTarget(Completed, d))
    BY <1>2, <2>1, WithDeviceKeeps
  <2> QED
    BY <1>2, <2>2, SameTransitive
<1> QED
  BY <1>3, <1>4, <1>5 DEF Choices

-----------------------------------------------------------------------------
(* What a step leaves of the invariant *)

LEMMA TypeFacts ==
  ASSUME TypeOK
  PROVE  /\ ctx \in Contexts /\ calc \in Calcs /\ file \in Files
         /\ readable \subseteq Devices /\ table \in Tables
BY DEF TypeOK, Contexts, Calcs, Files, Tables

LEMMA CalcFacts ==
  /\ EmptyCalc \in Calcs /\ ~EmptyCalc.valid /\ EmptyCalc.samples = 0
  /\ NewCalc \in Calcs /\ ~NewCalc.valid /\ NewCalc.samples = 0
BY CountFacts DEF EmptyCalc, NewCalc, Calcs

\* A step of the running overlay, its new values well formed.
LEMMA OverlayStep ==
  ASSUME CalibrationInv, ctx' \in Contexts, calc' \in Calcs, file' \in Files, GoodTable(table'),
         UNCHANGED <<alive, link, world, starts>>,
         TargetsHeld', NoInheritedResult', SavedProfile'
  PROVE  CalibrationInv'
<1>1. TypeOK'
  BY DEF CalibrationInv, TypeOK, Contexts, Calcs, Files, GoodTable, Tables, world
<1>2. HmdUntouched'
  BY DEF GoodTable, HmdUntouched
<1> QED
  BY <1>1, <1>2 DEF CalibrationInv

\* A step that saves nothing, and keeps offset and validity, leaves what is saved true.
LEMMA NothingSaved ==
  ASSUME SavedProfile, Keeps(ctx, ctx'), UNCHANGED <<file, alive>>,
         ctx.state = "Editing" => ctx'.state = "Editing"
  PROVE  SavedProfile'
BY DEF SavedProfile, Keeps

\* A step that saves the context it leaves behind makes it true.
LEMMA Saved ==
  ASSUME NEW c \in Contexts, SaveProfile(c), ctx'.valid = c.valid, ctx'.calib = c.calib
  PROVE  file' \in Files /\ SavedProfile'
<1>1. Written(c) \in ProfileFiles /\ Written(c).calib = c.calib /\ Written(c).kind = "profile"
  BY WrittenOK
<1> QED
  BY <1>1 DEF SaveProfile, SavedProfile, Files

\* A step that changes at most the choice of devices, the switches and the table.
LEMMA SameStep ==
  ASSUME CalibrationInv, Same(ctx, ctx'), GoodTable(table'),
         UNCHANGED <<calc, file, alive, link, world, starts>>
  PROVE  CalibrationInv'
<1>1. ctx' \in Contexts /\ calc' \in Calcs /\ file' \in Files
  BY TypeFacts DEF CalibrationInv, Same, Keeps
<1>2. TargetsHeld' /\ NoInheritedResult'
  BY DEF CalibrationInv, TargetsHeld, NoInheritedResult, Same, Keeps
<1>3. SavedProfile'
  BY NothingSaved DEF CalibrationInv, Same
<1> QED
  BY <1>1, <1>2, <1>3, OverlayStep

-----------------------------------------------------------------------------
(* The tick *)

LEMMA PolledSame == ASSUME CalibrationInv, NEW again PROVE Same(ctx, Polled(again))
<1>1. ctx \in Contexts /\ Same(ctx, ctx)
  BY TypeFacts DEF CalibrationInv, Same, Keeps
<1> QED
  BY <1>1, AssignKeeps DEF Polled

LEMMA TableGood == ASSUME CalibrationInv PROVE GoodTable(table)
BY TypeFacts DEF CalibrationInv, GoodTable, HmdUntouched

LEMMA ScannedSame ==
  ASSUME CalibrationInv, NEW due, NEW again
  PROVE  /\ Same(ctx, Scanned(due, again).ctx)
         /\ GoodTable(Scanned(due, again).table)
<1> DEFINE c == Polled(again)
           n == [ctx |-> c, table |-> table]
           m == ScanAndApplyProfile(n)
<1>1. Same(ctx, c) /\ c \in Contexts
  BY PolledSame DEF Same, Keeps
<1> HIDE DEF c
<1>2. GoodTable(table)
  BY TableGood
<1>3. Same(c, m.ctx) /\ GoodTable(m.table)
  BY <1>1, <1>2, ScanOK
<1> HIDE DEF m
<1>4. Scanned(due, again) \in {n, m}
  BY DEF Scanned, c, m
<1>5. n.ctx = c /\ n.table = table
  OBVIOUS
<1> HIDE DEF n
<1> QED
  BY <1>1, <1>2, <1>3, <1>4, <1>5, SameTransitive

\* What a sampling tick starts from.
LEMMA SamplingOK ==
  ASSUME CalibrationInv, NEW due, NEW again
  PROVE  LET s == Sampling(due, again)
         IN  /\ Keeps(ctx, s.ctx) /\ GoodTable(s.table) /\ s.calc \in Calcs
             /\ ctx.state # "ContinuousStandby" => s.ctx.state = ctx.state /\ s.calc = calc
             /\ ctx.state = "ContinuousStandby" => s.ctx.state \in Continuing
<1> DEFINE m == Scanned(due, again)
           a == AssignTargets(m.ctx)
           b == StartContinuousCalibration(a)
<1>1. Same(ctx, m.ctx) /\ m.ctx \in Contexts /\ GoodTable(m.table)
  BY ScannedSame DEF Same, Keeps
<1> HIDE DEF m
<1>2. Same(ctx, a) /\ a \in Contexts
  BY <1>1, AssignKeeps, SameTransitive DEF Same, Keeps
<1> HIDE DEF a
<1>3. Keeps(ctx, b) /\ b.state = "Continuous"
  BY <1>2, StartContinuousKeeps, KeepsTransitive DEF Same
<1> HIDE DEF b
<1>4. CASE ctx.state # "ContinuousStandby"
  <2>1. Sampling(due, again) = [ctx |-> m.ctx, table |-> m.table, calc |-> calc]
    BY <1>4 DEF Sampling, m
  <2> QED
    BY <1>1, <1>4, <2>1, TypeFacts DEF Same, CalibrationInv
<1>5. CASE ctx.state = "ContinuousStandby"
  <2>1. Sampling(due, again) = [ctx |-> IF Assigned(a) THEN b ELSE a,
                                table |-> m.table, calc |-> EmptyCalc]
    BY <1>5 DEF Sampling, m, a, b
  <2> QED
    BY <1>1, <1>2, <1>3, <1>5, <2>1, CalcFacts DEF Same, Continuing
<1> QED
  BY <1>4, <1>5

LEMMA TickBeginStep ==
  ASSUME CalibrationInv, NEW pose, TickBegin(pose) PROVE CalibrationInv'
<1> DEFINE m == ScanAndApplyProfile([ctx |-> ctx, table |-> table])
<1>1. Same(ctx, m.ctx) /\ GoodTable(m.table)
  BY ScanOK, TypeFacts, TableGood DEF CalibrationInv
<1>2. /\ ctx' = [m.ctx EXCEPT !.state = IF Assigned(m.ctx) /\ pose = "ok" THEN "Rotation" ELSE "None"]
      /\ table' = m.table /\ ctx.state = "Begin"
      /\ UNCHANGED <<calc, file, alive, link, world, starts>>
  BY DEF TickBegin
<1> HIDE DEF m
<1>3. Keeps(ctx, ctx') /\ ctx'.state \in {"Rotation", "None"}
  BY <1>1, <1>2 DEF Same, Keeps, Contexts, States
<1>4. TargetsHeld'
  BY <1>1, <1>2 DEF TargetsHeld, Assigned, Same, Keeps, Contexts
<1>5. NoInheritedResult'
  BY <1>2, <1>3 DEF CalibrationInv, NoInheritedResult
<1>6. SavedProfile'
  BY <1>2, <1>3, NothingSaved DEF CalibrationInv
<1>7. ctx' \in Contexts /\ calc' \in Calcs /\ file' \in Files
  BY <1>2, <1>3, TypeFacts DEF CalibrationInv, Keeps
<1> QED
  BY <1>1, <1>2, <1>4, <1>5, <1>6, <1>7, OverlayStep

LEMMA PushedOK ==
  ASSUME NEW k \in Calcs
  PROVE  LET p == Pushed(k)
         IN  /\ p.samples = k.samples + 1 /\ p.valid = k.valid
             /\ p.samples < SampleCount => p \in Calcs
             /\ \A v \in BOOLEAN : [Shifted(p) EXCEPT !.valid = v] \in Calcs
<1>1. Pushed(k) = [valid |-> k.valid, samples |-> k.samples + 1]
  BY DEF Pushed, Calcs
<1>2. Shifted(Pushed(k)) = [valid |-> k.valid, samples |-> SampleCount - Drop]
  BY <1>1 DEF Shifted
<1>3. SampleCount - Drop \in 0 .. SampleCount
  BY CountFacts
<1> QED
  BY <1>1, <1>2, <1>3, CountFacts DEF Calcs

\* The three ends of a sampling tick.
LEMMA SamplingEnds ==
  ASSUME CalibrationInv, ctx.state \in {"Rotation"} \cup Continuing,
         UNCHANGED <<alive, link, world, starts>>,
         NEW s, s.ctx.state # "ContinuousStandby",
         Keeps(ctx, s.ctx), GoodTable(s.table), s.calc \in Calcs,
         ctx.state # "ContinuousStandby" => s.ctx.state = ctx.state /\ s.calc = calc,
         ctx.state = "ContinuousStandby" => s.ctx.state \in Continuing,
         NEW pose \in Poses, NEW k, k = Pushed(s.calc)
  PROVE  /\ NoSample(s, pose) => CalibrationInv'
         /\ Collect(s, k) => CalibrationInv'
         /\ \A o \in Outcomes(s.ctx) : Compute(s, k, o) => CalibrationInv'
<1>1. s.ctx \in Contexts /\ s.ctx.state \in {"Rotation", "Continuous"}
  BY DEF Keeps, Continuing
<1>2. s.ctx.state = "Rotation" => ~s.calc.valid /\ NoDevice \notin {s.ctx.ref, s.ctx.tgt}
  BY DEF CalibrationInv, NoInheritedResult, TargetsHeld, Keeps, Continuing
<1>3. k.samples = s.calc.samples + 1 /\ k.valid = s.calc.valid
      /\ (k.samples < SampleCount => k \in Calcs)
      /\ \A v \in BOOLEAN : [Shifted(k) EXCEPT !.valid = v] \in Calcs
  BY PushedOK, CountFacts DEF Calcs
<1>4. ctx.state # "Editing"
  BY DEF Continuing
<1>5. ASSUME NoSample(s, pose) PROVE CalibrationInv'
  <2>1. Keeps(ctx, ctx') /\ ctx'.state \in {"Continuous", "None"}
    BY <1>1, <1>5 DEF NoSample, Keeps, Contexts, States
  <2>2. table' = s.table /\ calc' = s.calc /\ file' = file
    BY <1>5 DEF NoSample
  <2>3. ctx' \in Contexts /\ calc' \in Calcs /\ file' \in Files /\ GoodTable(table')
    BY <2>1, <2>2, TypeFacts DEF Keeps, CalibrationInv
  <2>4. TargetsHeld' /\ NoInheritedResult'
    BY <2>1 DEF TargetsHeld, NoInheritedResult
  <2>5. SavedProfile'
    BY <1>4, <2>1, <2>2, NothingSaved DEF CalibrationInv
  <2> QED
    BY <2>3, <2>4, <2>5, OverlayStep
<1>6. ASSUME Collect(s, k) PROVE CalibrationInv'
  <2>1. ctx' = s.ctx /\ table' = s.table /\ calc' = k /\ file' = file /\ k \in Calcs
    BY <1>3, <1>6 DEF Collect
  <2>2. ctx' \in Contexts /\ file' \in Files /\ Keeps(ctx, ctx')
    BY <1>1, <2>1, TypeFacts DEF CalibrationInv
  <2>3. TargetsHeld' /\ NoInheritedResult'
    BY <1>1, <1>2, <1>3, <2>1 DEF TargetsHeld, NoInheritedResult
  <2>4. SavedProfile'
    BY <1>4, <2>1, <2>2, NothingSaved DEF CalibrationInv
  <2> QED
    BY <2>1, <2>2, <2>3, <2>4, OverlayStep
<1>7. ASSUME NEW o \in Outcomes(s.ctx), Compute(s, k, o) PROVE CalibrationInv'
  <2> DEFINE valid == s.calc.valid \/ o.success
             c == [s.ctx EXCEPT !.calib = o.calib, !.relcal = o.relcal, !.valid = TRUE]
             r == ScanAndApplyProfile([ctx |-> c, table |-> s.table])
             m == IF valid THEN r ELSE [ctx |-> s.ctx, table |-> s.table]
  <2>1. o.calib \in Calibs \cup {0} /\ o.relcal \in BOOLEAN
    <3>1. CASE o = [success |-> FALSE, calib |-> s.ctx.calib,
                    relcal |-> s.ctx.state = "Continuous" /\ s.ctx.relcal]
      BY <1>1, <3>1 DEF Contexts
    <3>2. CASE o \in [success : {TRUE}, calib : Calibs,
                      relcal : IF s.ctx.state = "Continuous" THEN {s.ctx.relcal, TRUE} ELSE {FALSE}]
      BY <1>1, <3>2 DEF Contexts
    <3> QED
      BY <1>7, <3>1, <3>2 DEF Outcomes
  <2>2. c \in Contexts /\ c.valid /\ c.calib = o.calib /\ c.state = s.ctx.state
    BY <1>1, <2>1 DEF Contexts
  <2>3. /\ IF valid THEN SaveProfile(c) ELSE UNCHANGED file
        /\ table' = m.table
        /\ ctx' = [m.ctx EXCEPT !.state = IF s.ctx.state = "Continuous" THEN m.ctx.state ELSE "None"]
        /\ calc' = IF s.ctx.state = "Continuous"
                   THEN [Shifted(k) EXCEPT !.valid = valid] ELSE EmptyCalc
    BY <1>7 DEF Compute
  <2> HIDE DEF c
  <2>4. Same(c, r.ctx) /\ GoodTable(r.table)
    BY <2>2, ScanOK
  <2> HIDE DEF r
  <2>5. valid \in BOOLEAN
    BY <1>1, <1>7, <2>1 DEF Outcomes, Calcs
  <2>6. calc' \in Calcs
    <3> HIDE DEF valid
    <3> QED
      BY <1>3, <2>3, <2>5, CalcFacts, Zenon
  <2>7. /\ m.ctx \in Contexts /\ m.ctx.state = s.ctx.state /\ GoodTable(m.table)
        /\ valid => m.ctx.valid = c.valid /\ m.ctx.calib = c.calib
        /\ ~valid => m.ctx = s.ctx
    BY <1>1, <2>2, <2>4 DEF Same, Keeps
  <2> HIDE DEF m, valid
  <2>8. ctx' \in Contexts /\ ctx'.state \in {"Continuous", "None"}
        /\ ctx'.valid = m.ctx.valid /\ ctx'.calib = m.ctx.calib
        /\ ctx'.ref = m.ctx.ref /\ ctx'.tgt = m.ctx.tgt
    BY <1>1, <2>3, <2>7 DEF Contexts, States
  <2>9. TargetsHeld' /\ NoInheritedResult'
    BY <2>8 DEF TargetsHeld, NoInheritedResult
  <2>10. file' \in Files /\ SavedProfile'
    <3>1. CASE valid
      BY <2>2, <2>3, <2>7, <2>8, <3>1, Saved
    <3>2. CASE ~valid
      <4>1. Keeps(ctx, ctx') /\ file' = file
        BY <2>3, <2>7, <2>8, <3>2 DEF Keeps
      <4> QED
        BY <1>4, <4>1, NothingSaved, TypeFacts DEF CalibrationInv
    <3> QED
      BY <3>1, <3>2
  <2> QED
    BY <2>3, <2>6, <2>7, <2>8, <2>9, <2>10, OverlayStep
<1> QED
  BY <1>5, <1>6, <1>7

LEMMA TickSamplingStep ==
  ASSUME CalibrationInv, NEW due, NEW again, NEW pose \in Poses, TickSampling(due, again, pose)
  PROVE  CalibrationInv'
<1> DEFINE s == Sampling(due, again)
           k == Pushed(s.calc)
<1>1. /\ ctx.state \in {"Rotation"} \cup Continuing /\ s.ctx.state # "ContinuousStandby"
      /\ UNCHANGED <<alive, link, world, starts>>
      /\ NoSample(s, pose) \/ Collect(s, k) \/ \E o \in Outcomes(s.ctx) : Compute(s, k, o)
  BY DEF TickSampling
<1>2. /\ Keeps(ctx, s.ctx) /\ GoodTable(s.table) /\ s.calc \in Calcs
      /\ ctx.state # "ContinuousStandby" => s.ctx.state = ctx.state /\ s.calc = calc
      /\ ctx.state = "ContinuousStandby" => s.ctx.state \in Continuing
  BY SamplingOK
<1> HIDE DEF s
<1>3. /\ NoSample(s, pose) => CalibrationInv'
      /\ Collect(s, k) => CalibrationInv'
      /\ \A o \in Outcomes(s.ctx) : Compute(s, k, o) => CalibrationInv'
  BY <1>1, <1>2, SamplingEnds
<1> QED
  BY <1>1, <1>3

LEMMA TickStep == ASSUME CalibrationInv, CalibrationTick PROVE CalibrationInv'
<1> USE DEF CalibrationInv
<1>1. ctx \in Contexts /\ GoodTable(table)
  BY TypeFacts, TableGood
<1>2. ASSUME NEW again, TickStill(again) PROVE CalibrationInv'
  <2>1. Same(ctx, ctx') /\ UNCHANGED <<calc, file, table, alive, link, world, starts>>
    BY <1>2, PolledSame DEF TickStill
  <2> QED
    BY <1>1, <2>1, SameStep
<1>3. ASSUME NEW due, TickNone(due) PROVE CalibrationInv'
  <2>1. Same(ctx, ctx') /\ GoodTable(table')
    BY <1>3, ScannedSame DEF TickNone
  <2> QED
    BY <1>3, <2>1, SameStep DEF TickNone
<1>4. ASSUME NEW due, NEW again, TickWaiting(due, again) PROVE CalibrationInv'
  <2> DEFINE m == Scanned(due, again)
  <2>1. Same(ctx, m.ctx) /\ m.ctx \in Contexts /\ GoodTable(m.table)
    BY ScannedSame DEF Same, Keeps
  <2>2. ctx' = AssignTargets(m.ctx) /\ table' = m.table
    BY <1>4 DEF TickWaiting
  <2> HIDE DEF m
  <2>3. Same(ctx, ctx')
    BY <2>1, <2>2, AssignKeeps, SameTransitive
  <2> QED
    BY <1>4, <2>1, <2>2, <2>3, SameStep DEF TickWaiting
<1>5. ASSUME NEW due, TickEditing(due) PROVE CalibrationInv'
  <2> DEFINE m == [ctx |-> ctx, table |-> table]
             r == ScanAndApplyProfile(m)
  <2>1. Same(ctx, r.ctx) /\ GoodTable(r.table)
    BY <1>1, ScanOK
  <2>2. Same(ctx, ctx)
    BY <1>1 DEF Same, Keeps
  <2>3. \/ ctx' = r.ctx /\ table' = r.table
        \/ ctx' = ctx /\ table' = table
    BY <1>5 DEF TickEditing
  <2> HIDE DEF r
  <2>4. Same(ctx, ctx') /\ GoodTable(table')
    BY <1>1, <2>1, <2>2, <2>3
  <2> QED
    BY <1>5, <2>4, SameStep DEF TickEditing
<1> QED
  BY <1>2, <1>3, <1>4, <1>5, TickBeginStep, TickSamplingStep DEF CalibrationTick, TickMoved

-----------------------------------------------------------------------------
(* The calibration tab *)

LEMMA SelectStep == ASSUME CalibrationInv, Select PROVE CalibrationInv'
<1>1. Same(ctx, ctx')
  BY CompletedKeeps, ChoicesKeep, TypeFacts DEF Select, CalibrationInv
<1> QED
  BY <1>1, SameStep, TableGood DEF Select

\* What the buttons find: the context as the frame completes it.
LEMMA Frame ==
  ASSUME CalibrationInv
  PROVE  /\ Completed \in Contexts /\ Keeps(ctx, Completed) /\ Completed.state = ctx.state
         /\ GoodTable(table) /\ calc \in Calcs /\ file \in Files
BY CompletedKeeps, TypeFacts, TableGood DEF CalibrationInv, Same, Keeps

LEMMA StartStep ==
  ASSUME CalibrationInv, ClickStart \/ ClickContinuous PROVE CalibrationInv'
<1>1. /\ ctx.state = "None" /\ calc' = EmptyCalc
      /\ UNCHANGED <<file, table, alive, link, world, starts>>
      /\ ctx' \in {StartCalibration(Completed), StartContinuousCalibration(Completed)}
  BY DEF ClickStart, ClickContinuous
<1>2. /\ Keeps(Completed, ctx')
      /\ \/ ctx'.state \in {"None", "Continuous"}
         \/ ctx'.state = "Begin" /\ NoDevice \notin {ctx'.ref, ctx'.tgt}
  BY <1>1, Frame, StartKeeps, StartContinuousKeeps
<1>3. Keeps(ctx, ctx') /\ ctx' \in Contexts
  BY <1>2, Frame, KeepsTransitive DEF Keeps
<1>4. TargetsHeld' /\ NoInheritedResult'
  BY <1>1, <1>2, CalcFacts DEF TargetsHeld, NoInheritedResult
<1>5. SavedProfile'
  BY <1>1, <1>3, NothingSaved DEF CalibrationInv
<1> QED
  BY <1>1, <1>3, <1>4, <1>5, CalcFacts, Frame, OverlayStep

LEMMA ClickEditStep == ASSUME CalibrationInv, ClickEdit PROVE CalibrationInv'
<1>1. ctx' \in Contexts /\ ctx'.state = "Editing" /\ UNCHANGED <<calc, file, table, alive, link, world, starts>>
  BY Frame DEF ClickEdit, Contexts, States
<1>2. TargetsHeld' /\ NoInheritedResult' /\ SavedProfile'
  BY <1>1 DEF TargetsHeld, NoInheritedResult, SavedProfile
<1> QED
  BY <1>1, <1>2, Frame, OverlayStep

LEMMA EditOffsetStep == ASSUME CalibrationInv, EditOffset PROVE CalibrationInv'
<1>1. PICK v \in Calibs : ctx' = [Completed EXCEPT !.calib = v]
  BY DEF EditOffset
<1>2. ctx.state = "Editing" /\ UNCHANGED <<calc, file, table, alive, link, world, starts>>
  BY DEF EditOffset
<1>3. ctx' \in Contexts /\ ctx'.state = "Editing"
  BY <1>1, <1>2, Frame DEF Contexts
<1>4. TargetsHeld' /\ NoInheritedResult' /\ SavedProfile'
  BY <1>3 DEF TargetsHeld, NoInheritedResult, SavedProfile
<1> QED
  BY <1>2, <1>3, <1>4, Frame, OverlayStep

LEMMA ClickSaveStep == ASSUME CalibrationInv, ClickSave PROVE CalibrationInv'
<1>1. /\ SaveProfile(Completed) /\ ctx' = [Completed EXCEPT !.state = "None"]
      /\ UNCHANGED <<calc, table, alive, link, world, starts>>
  BY DEF ClickSave
<1>2. /\ ctx' \in Contexts /\ ctx'.state = "None"
      /\ ctx'.valid = Completed.valid /\ ctx'.calib = Completed.calib
  BY <1>1, Frame DEF Contexts, States
<1>3. TargetsHeld' /\ NoInheritedResult'
  BY <1>2 DEF TargetsHeld, NoInheritedResult
<1>4. file' \in Files /\ SavedProfile'
  BY <1>1, <1>2, Frame, Saved
<1> QED
  BY <1>1, <1>2, <1>3, <1>4, Frame, OverlayStep

LEMMA ClickClearStep == ASSUME CalibrationInv, ClickClear PROVE CalibrationInv'
<1> DEFINE c == Cleared(Completed)
           t == ResetAllDeviceTransforms(table)
           m == ScanAndApplyProfile([ctx |-> c, table |-> t])
<1>1. ctx.state = "None" /\ ctx' = m.ctx /\ table' = m.table /\ SaveProfile(m.ctx)
      /\ UNCHANGED <<calc, alive, link, world, starts>>
  BY DEF ClickClear
<1>2. c \in Contexts /\ c.state = ctx.state /\ GoodTable(t)
  BY Frame, ClearedOK, ResetOK
<1> HIDE DEF c, t
<1>3. Same(c, m.ctx) /\ GoodTable(m.table)
  BY <1>2, ScanOK
<1> HIDE DEF m
<1>4. ctx' \in Contexts /\ ctx'.state = "None" /\ GoodTable(table')
  BY <1>1, <1>2, <1>3 DEF Same, Keeps
<1>5. TargetsHeld' /\ NoInheritedResult'
  BY <1>4 DEF TargetsHeld, NoInheritedResult
<1>6. file' \in Files /\ SavedProfile'
  BY <1>1, <1>4, Saved
<1> QED
  BY <1>1, <1>4, <1>5, <1>6, Frame, OverlayStep

LEMMA ImportStep ==
  ASSUME CalibrationInv, NEW f \in Profiles, Import(f) PROVE CalibrationInv'
<1> DEFINE c == ParseProfile(Completed, f)
           m == ScanAndApplyProfile([ctx |-> c, table |-> table])
<1>1. ctx.state \in {"None", "Editing"} /\ ctx' = m.ctx /\ table' = m.table /\ SaveProfile(m.ctx)
      /\ UNCHANGED <<calc, alive, link, world, starts>>
  BY DEF Import, MayChoose
<1>2. c \in Contexts /\ c.state \in {ctx.state, "ContinuousStandby"}
  BY Frame, ParseOK, ProfileAssumption
<1> HIDE DEF c
<1>3. Same(c, m.ctx) /\ GoodTable(m.table)
  BY <1>2, Frame, ScanOK
<1> HIDE DEF m
<1>4. ctx' \in Contexts /\ ctx'.state \in {"None", "Editing", "ContinuousStandby"} /\ GoodTable(table')
  BY <1>1, <1>2, <1>3 DEF Same, Keeps
<1>5. TargetsHeld' /\ NoInheritedResult'
  BY <1>4 DEF TargetsHeld, NoInheritedResult
<1>6. file' \in Files /\ SavedProfile'
  BY <1>1, <1>4, Saved
<1> QED
  BY <1>1, <1>4, <1>5, <1>6, Frame, OverlayStep

LEMMA ImportFailsStep == ASSUME CalibrationInv, ImportFails PROVE CalibrationInv'
<1>1. PICK s \in {ctx.state, "ContinuousStandby"} : ctx' = [Cleared(Completed) EXCEPT !.state = s]
  BY DEF ImportFails
<1>2. ctx.state \in {"None", "Editing"} /\ UNCHANGED <<calc, file, table, alive, link, world, starts>>
  BY DEF ImportFails, MayChoose
<1>3. Cleared(Completed) \in Contexts /\ ~Cleared(Completed).valid
  BY Frame, ClearedOK
<1>4. ctx' \in Contexts /\ ~ctx'.valid /\ ctx'.state \in {"None", "Editing", "ContinuousStandby"}
  BY <1>1, <1>2, <1>3 DEF Contexts, States, Continuing
<1>5. TargetsHeld' /\ NoInheritedResult' /\ SavedProfile'
  BY <1>4 DEF TargetsHeld, NoInheritedResult, SavedProfile
<1> QED
  BY <1>2, <1>4, <1>5, Frame, OverlayStep

LEMMA ClickCancelStep == ASSUME CalibrationInv, ClickCancel PROVE CalibrationInv'
<1>1. /\ ctx' = EndContinuousCalibration(ctx) /\ SaveProfile(ctx')
      /\ UNCHANGED <<calc, table, alive, link, world, starts>>
  BY DEF ClickCancel, SaveProfile
<1>2. ctx' \in Contexts /\ ctx'.state = "None"
  BY <1>1, EndContinuousKeeps, TypeFacts DEF CalibrationInv, Keeps
<1>3. TargetsHeld' /\ NoInheritedResult'
  BY <1>2 DEF TargetsHeld, NoInheritedResult
<1>4. file' \in Files /\ SavedProfile'
  BY <1>1, <1>2, Saved
<1> QED
  BY <1>1, <1>2, <1>3, <1>4, Frame, OverlayStep

LEMMA ToggleStep == ASSUME CalibrationInv, Toggle PROVE CalibrationInv'
<1>1. Same(ctx, ctx')
  BY TypeFacts DEF CalibrationInv, Toggle, Same, Keeps, Contexts
<1> QED
  BY <1>1, SameStep, TableGood DEF Toggle

LEMMA UiStep == ASSUME CalibrationInv, UiFrame PROVE CalibrationInv'
BY SelectStep, StartStep, ClickEditStep, EditOffsetStep, ClickSaveStep, ClickClearStep,
   ImportStep, ImportFailsStep, ClickCancelStep, ToggleStep
   DEF UiFrame

-----------------------------------------------------------------------------
(* The overlay process, the devices and the connection *)

LEMMA LoadOK ==
  ASSUME NEW f \in Files
  PROVE  /\ LoadProfile(f) \in Contexts
         /\ LoadProfile(f).state \in {"None", "ContinuousStandby"}
         /\ LoadProfile(f).valid =>
              \/ f.kind = "profile" /\ f.calib = LoadProfile(f).calib
              \/ f.kind = "empty" /\ LoadProfile(f).calib = 0
<1> DEFINE c == ParseProfile(NewContext, f)
<1>1. CASE f = NoFile
  <2>1. LoadProfile(f) = Cleared(NewContext)
    BY <1>1 DEF LoadProfile, NoFile
  <2> QED
    BY <2>1, NewContextOK, ClearedOK
<1>2. CASE f = EmptyFile
  <2>1. c = [NewContext EXCEPT !.valid = TRUE] /\ f.kind = "empty"
    BY <1>2 DEF ParseProfile, EmptyFile
  <2>2. c \in Contexts /\ c.calib = 0 /\ c.state = "None"
    BY <2>1, NewContextOK DEF Contexts, NewContext
  <2>3. LoadProfile(f) = [c EXCEPT !.enabled = Enabled(c)]
    BY <2>1 DEF LoadProfile
  <2> HIDE DEF c
  <2> QED
    BY <2>1, <2>2, <2>3, EnabledOK DEF Contexts
<1>3. CASE f \in ProfileFiles
  <2>1. f.kind = "profile"
    BY <1>3 DEF ProfileFiles
  <2>2. c \in Contexts /\ c.calib = f.calib /\ c.state \in {"None", "ContinuousStandby"}
    BY <1>3, NewContextOK, ParseOK
  <2>3. LoadProfile(f) = [c EXCEPT !.enabled = Enabled(c)]
    BY <2>1 DEF LoadProfile
  <2> HIDE DEF c
  <2> QED
    BY <2>1, <2>2, <2>3, EnabledOK DEF Contexts
<1> QED
  BY <1>1, <1>2, <1>3 DEF Files

LEMMA StartOverlayStep == ASSUME CalibrationInv, Start PROVE CalibrationInv'
<1>1. /\ ctx' = LoadProfile(file) /\ calc' = NewCalc /\ link' \in BOOLEAN
      /\ table' \in {Applied(ctx', table), table}
      /\ alive' = TRUE /\ starts' = starts + 1 /\ starts < MaxStarts
      /\ UNCHANGED <<file, world>>
  BY DEF Start
<1>2. file \in Files /\ ctx' \in Contexts /\ ctx'.state \in {"None", "ContinuousStandby"}
  BY <1>1, Frame, LoadOK
<1>3. GoodTable(table')
  BY <1>1, <1>2, AppliedOK, TableGood
<1>4. SavedProfile'
  BY <1>1, <1>2, LoadOK DEF SavedProfile
<1>5. starts' \in 0 .. MaxStarts
  BY <1>1, CountAssumption DEF CalibrationInv, TypeOK
<1>6. TypeOK'
  BY <1>1, <1>2, <1>3, <1>5, CalcFacts
     DEF CalibrationInv, TypeOK, Contexts, Calcs, Files, GoodTable, Tables, world
<1>7. HmdUntouched' /\ TargetsHeld' /\ NoInheritedResult'
  BY <1>2, <1>3 DEF GoodTable, HmdUntouched, TargetsHeld, NoInheritedResult
<1> QED
  BY <1>4, <1>6, <1>7 DEF CalibrationInv

LEMMA StopStep == ASSUME CalibrationInv, Exit \/ Crash PROVE CalibrationInv'
<1>1. Stopped
  BY DEF Exit, Crash
<1>2. file' \in Files
  <2>1. CASE Exit
    BY <2>1, Frame, WrittenOK, TypeFacts DEF Exit, SaveProfile, Files, CalibrationInv
  <2>2. CASE Crash
    BY <2>2, Frame DEF Crash, Files
  <2> QED
    BY <2>1, <2>2
<1>3. TypeOK'
  BY <1>1, <1>2, CalcFacts, NewContextOK
     DEF Stopped, CalibrationInv, TypeOK, Contexts, Calcs, Files, world
<1>4. HmdUntouched' /\ TargetsHeld' /\ NoInheritedResult' /\ SavedProfile'
  BY <1>1, NewContextOK
     DEF Stopped, CalibrationInv, HmdUntouched, TargetsHeld, NoInheritedResult, SavedProfile
<1> QED
  BY <1>3, <1>4 DEF CalibrationInv

LEMMA WorldStep ==
  ASSUME CalibrationInv, LinkBreaks \/ \E d \in Trackers : DeviceAppears(d) \/ DeviceGoes(d)
  PROVE  CalibrationInv'
<1>1. UNCHANGED <<ctx, calc, file, table, alive, starts>>
  BY DEF LinkBreaks, DeviceAppears, DeviceGoes
<1>2. link' \in BOOLEAN /\ readable' \subseteq present' /\ present' \subseteq Devices
  BY DEF LinkBreaks, DeviceAppears, DeviceGoes, CalibrationInv, TypeOK, Devices, world
<1> QED
  BY <1>1, <1>2
     DEF CalibrationInv, TypeOK, HmdUntouched, TargetsHeld, NoInheritedResult, SavedProfile

-----------------------------------------------------------------------------
(* The theorems *)

LEMMA InitOK == Init => CalibrationInv
<1> SUFFICES ASSUME Init PROVE CalibrationInv
  OBVIOUS
<1>1. TypeOK
  <2>1. ctx \in Contexts /\ calc \in Calcs /\ file \in Files
    BY NewContextOK, CalcFacts, ProfileAssumption DEF Init, Files
  <2>2. table \in Tables
    BY DEF Init, Tables, Off
  <2>3. alive \in BOOLEAN /\ link \in BOOLEAN
    BY Zenon DEF Init
  <2>4. readable \subseteq present /\ present \subseteq Devices
    BY DeviceFacts DEF Init
  <2>5. starts \in 0 .. MaxStarts
    BY CountAssumption DEF Init
  <2> QED
    BY <2>1, <2>2, <2>3, <2>4, <2>5 DEF TypeOK, Contexts, Calcs, Files, Tables
<1>2. HmdUntouched
  BY DeviceFacts DEF Init, HmdUntouched
<1>3. TargetsHeld /\ NoInheritedResult /\ SavedProfile
  BY NewContextOK, CalcFacts DEF Init, TargetsHeld, NoInheritedResult, SavedProfile
<1> QED
  BY <1>1, <1>2, <1>3 DEF CalibrationInv

LEMMA NextOK == CalibrationInv /\ [Next]_vars => CalibrationInv'
<1> SUFFICES ASSUME CalibrationInv, [Next]_vars PROVE CalibrationInv'
  OBVIOUS
<1>1. CASE CalibrationTick
  BY <1>1, TickStep
<1>2. CASE UiFrame
  BY <1>2, UiStep
<1>3. CASE Environment
  BY <1>3, StartOverlayStep, StopStep, WorldStep DEF Environment
<1>4. CASE UNCHANGED vars
  BY <1>4 DEF vars, world, CalibrationInv, TypeOK, HmdUntouched, TargetsHeld,
              NoInheritedResult, SavedProfile
<1> QED
  BY <1>1, <1>2, <1>3, <1>4 DEF Next

\* The five invariants of the calibration hold together, whatever the user, the
\* devices, the profiles and the crashes of the overlay do.
THEOREM CalibrationInvariant == Spec => []CalibrationInv
BY InitOK, NextOK, PTL DEF Spec

\* Every variable keeps to its type: CalCtx, the sample buffer, the profile file,
\* the driver's table, and which devices are there.
THEOREM TypeCorrect == Spec => []TypeOK
<1>1. CalibrationInv => TypeOK
  BY DEF CalibrationInv
<1> QED
  BY <1>1, CalibrationInvariant, PTL

\* Whatever a profile names as the target space, no scan moves or hides the HMD.
THEOREM HmdLeftAlone == Spec => []HmdUntouched
<1>1. CalibrationInv => HmdUntouched
  BY DEF CalibrationInv
<1> QED
  BY <1>1, CalibrationInvariant, PTL

\* A one-shot calibration that runs holds a reference and a target device.
THEOREM OneshotHasDevices == Spec => []TargetsHeld
<1>1. CalibrationInv => TargetsHeld
  BY DEF CalibrationInv
<1> QED
  BY <1>1, CalibrationInvariant, PTL

\* A one-shot calibration starts from no earlier result and no earlier sample.
THEOREM OneshotStartsClean == Spec => []NoInheritedResult
<1>1. CalibrationInv => NoInheritedResult
  BY DEF CalibrationInv
<1> QED
  BY <1>1, CalibrationInvariant, PTL

\* Outside the editor, the offset of a valid profile in memory is the one on disk.
THEOREM MemoryIsOnDisk == Spec => []SavedProfile
<1>1. CalibrationInv => SavedProfile
  BY DEF CalibrationInv
<1> QED
  BY <1>1, CalibrationInvariant, PTL
=============================================================================
