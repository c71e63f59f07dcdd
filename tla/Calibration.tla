---------------------------- MODULE Calibration ----------------------------
(***************************************************************************)
(* The overlay's calibration: the context CalCtx, the tick that drives it  *)
(* (Calibration.cpp), the buttons that change it (CalibrationUI.cpp), the  *)
(* profile file it is saved to and read from (ProfileManager.cpp), and     *)
(* what its scans leave in the driver's table of device offsets.           *)
(*                                                                         *)
(* The overlay is one thread: its main loop alternates a tick and a UI     *)
(* frame.  Around it, devices come and go, the HMD may be still, the       *)
(* driver may be out of reach, and the overlay may exit or crash and start *)
(* again while the driver lives on with the table it was left with.        *)
(*                                                                         *)
(* A calibration is a value of Calibs, 0 the one no calibration computed.  *)
(* A device is its OpenVR index and stands for its model and serial as     *)
(* well.  The profile file always opens for writing.  Of the boolean       *)
(* settings three are kept, in file order: quash, trigger and relcal.  The *)
(* numbers of the profile, the chaperone, the alignment speeds and the     *)
(* lerp flag of a scan are left out.                                       *)
(***************************************************************************)
EXTENDS Integers, FiniteSets

CONSTANTS
  Trackers,      \* OpenVR indices of the devices beside the HMD
  RawSystem,     \* the tracking system a device reports
  UiSystem,      \* the one VRState::Load lists it under
  Calibs,        \* results of a calibration
  SampleCount,   \* samples a calibration takes (100, 250 or 500)
  Drop,          \* samples dropped after an incremental one (a tenth)
  Profiles,      \* profile files of earlier sessions, there or imported
  MaxStarts      \* bound: how often the overlay is started

Hmd == 0
Devices == {Hmd} \cup Trackers
NoDevice == -1
NoSystem == ""

ASSUME DeviceAssumption ==
  /\ Trackers \subseteq Nat \ {0} /\ IsFiniteSet(Trackers)
  /\ DOMAIN RawSystem = Devices /\ DOMAIN UiSystem = Devices
  /\ \A d \in Devices : RawSystem[d] # NoSystem /\ UiSystem[d] # NoSystem
ASSUME CountAssumption ==
  /\ Calibs \subseteq Nat \ {0} /\ SampleCount \in Nat \ {0}
  /\ Drop \in 0 .. SampleCount /\ MaxStarts \in Nat

VARIABLES
  ctx,        \* CalCtx: the fields that are read or saved
  calc,       \* the CalibrationCalc object: m_isValid, the sample buffer
  file,       \* profile.json
  table,      \* the driver's transforms, per device
  alive,      \* the overlay process runs
  link,       \* its IPC connection works
  present,    \* devices whose class SteamVR knows
  readable,   \* those whose properties can be read
  starts      \* how often the overlay was started

world == <<present, readable>>
vars == <<ctx, calc, file, table, alive, link, world, starts>>

Continuing == {"Continuous", "ContinuousStandby"}
States == {"None", "Begin", "Rotation", "Editing"} \cup Continuing
Off == [enabled |-> FALSE, calib |-> 0, quash |-> FALSE]

-----------------------------------------------------------------------------
(* The context *)

NewContext ==
  [state |-> "None", ref |-> NoDevice, tgt |-> NoDevice,
   refStandby |-> NoDevice, tgtStandby |-> NoDevice,
   refSystem |-> NoSystem, tgtSystem |-> NoSystem,
   enabled |-> FALSE, valid |-> FALSE, calib |-> 0,
   quash |-> FALSE, trigger |-> FALSE, relcal |-> FALSE]

Cleared(c) ==
  [c EXCEPT !.calib = 0, !.refSystem = NoSystem, !.tgtSystem = NoSystem,
            !.enabled = FALSE, !.valid = FALSE, !.relcal = TRUE]

NewCalc == [valid |-> FALSE, samples |-> 0]

\* Mutant: CalibrationCalc::Clear forgets m_isValid.
ClearedButValid == [valid |-> calc.valid, samples |-> 0]

EmptyCalc == [valid |-> FALSE, samples |-> 0]

-----------------------------------------------------------------------------
(* ScanAndApplyProfile and what it sends, on m = [ctx, table] *)

\* A request reaches the driver only while the connection works; the errors
\* are caught and logged.
Sent(t, new) == IF link THEN new ELSE t

\* Mutant: the HMD is compared with the target space.
EnabledSwapped(c) ==
  c.valid /\ (Hmd \in readable => RawSystem[Hmd] = c.tgtSystem)

\* validProfile, unless the HMD's system, as SteamVR names it, is another.
Enabled(c) ==
  c.valid /\ (Hmd \in readable => RawSystem[Hmd] = c.refSystem)

\* Mutant: the HMD is not skipped.
OffsetAnywhere(c, d) ==
  IF Enabled(c) /\ d \in readable /\ RawSystem[d] = c.tgtSystem
  THEN [enabled |-> TRUE, calib |-> c.calib,
        quash |-> c.state = "Continuous" /\ d = c.tgt /\ c.quash]
  ELSE Off

Offset(c, d) ==
  IF Enabled(c) /\ d # Hmd /\ d \in readable /\ RawSystem[d] = c.tgtSystem
  THEN [enabled |-> TRUE, calib |-> c.calib,
        quash |-> c.state = "Continuous" /\ d = c.tgt /\ c.quash]
  ELSE Off

\* The table when every request of a scan arrives.
Applied(c, t) == [d \in Devices |-> IF d \in present THEN Offset(c, d) ELSE t[d]]

ScanAndApplyProfile(m) ==
  [ctx |-> [m.ctx EXCEPT !.enabled = Enabled(m.ctx)],
   table |-> Sent(m.table, Applied(m.ctx, m.table))]

ResetAllDeviceTransforms(t) ==
  Sent(t, [d \in Devices |-> IF d \in present THEN Off ELSE t[d]])

-----------------------------------------------------------------------------
(* The profile file *)

NoFile == [kind |-> "none"]
EmptyFile == [kind |-> "empty"]   \* what a crash inside SaveProfile leaves

\* What SaveProfile writes, of the systems that are there or were there when a
\* profile of an earlier session was written.
Ids == Devices \cup {NoDevice}
SystemNames ==
  {RawSystem[d] : d \in Devices} \cup {UiSystem[d] : d \in Devices} \cup {NoSystem}
    \cup {f.refSystem : f \in Profiles} \cup {f.tgtSystem : f \in Profiles}
ProfileFiles ==
  [kind : {"profile"}, autostart : BOOLEAN, quash : BOOLEAN, trigger : BOOLEAN,
   relcal : BOOLEAN, calib : Calibs \cup {0}, refSystem : SystemNames,
   tgtSystem : SystemNames, refStandby : Ids, tgtStandby : Ids]

ASSUME ProfileAssumption == Profiles \subseteq ProfileFiles

Written(c) ==
  [kind |-> "profile", autostart |-> c.state \in Continuing,
   quash |-> c.quash, trigger |-> c.trigger, relcal |-> c.relcal,
   calib |-> c.calib, refSystem |-> c.refSystem, tgtSystem |-> c.tgtSystem,
   refStandby |-> c.refStandby, tgtStandby |-> c.tgtStandby]

\* Mutant: no save while continuous calibration runs.
SaveUnlessContinuing(c) ==
  file' = IF c.state \in Continuing THEN file ELSE IF c.valid THEN Written(c) ELSE NoFile

\* An invalid profile deletes the file.
SaveProfile(c) == file' = IF c.valid THEN Written(c) ELSE NoFile

\* ParseProfile looks for "true" from a key to the end of the file, so a key is
\* read as true as soon as it or one behind it is; a key that is not there
\* leaves its field alone.
ParseProfile(c, f) ==
  IF f.kind = "empty" THEN [c EXCEPT !.valid = TRUE]
  ELSE [c EXCEPT
    !.state = IF f.autostart \/ f.quash \/ f.trigger \/ f.relcal
              THEN "ContinuousStandby" ELSE c.state,
    !.quash = f.quash \/ f.trigger \/ f.relcal,
    !.trigger = f.trigger \/ f.relcal,
    !.relcal = f.relcal,
    !.calib = f.calib,
    !.refSystem = f.refSystem, !.tgtSystem = f.tgtSystem,
    !.refStandby = f.refStandby, !.tgtStandby = f.tgtStandby,
    !.valid = TRUE]

LoadProfile(f) ==
  LET c == ParseProfile(NewContext, f)
  IN  IF f.kind = "none" THEN Cleared(NewContext) ELSE [c EXCEPT !.enabled = Enabled(c)]

-----------------------------------------------------------------------------
(* Starting and ending a calibration *)

Find(standby) == IF standby \in readable THEN standby ELSE NoDevice

\* Mutant: the target is looked up only together with the reference.
AssignTogether(c) ==
  IF c.ref = NoDevice /\ c.tgt = NoDevice
  THEN [c EXCEPT !.ref = Find(c.refStandby), !.tgt = Find(c.tgtStandby)] ELSE c

AssignTargets(c) ==
  [c EXCEPT !.ref = IF @ = NoDevice THEN Find(c.refStandby) ELSE @,
            !.tgt = IF @ = NoDevice THEN Find(c.tgtStandby) ELSE @]

\* Mutant: one device is enough.
EitherAssigned(c) == c.ref # NoDevice \/ c.tgt # NoDevice

Assigned(c) == c.ref # NoDevice /\ c.tgt # NoDevice

\* Both start from an empty CalibrationCalc.
StartCalibration(c) ==
  LET a == AssignTargets(c)
  IN  IF Assigned(a) THEN [a EXCEPT !.state = "Begin"] ELSE a

StartContinuousCalibration(c) ==
  [StartCalibration(AssignTargets(c)) EXCEPT !.state = "Continuous"]

EndContinuousCalibration(c) ==
  [c EXCEPT !.state = "None", !.relcal = FALSE]

-----------------------------------------------------------------------------
(* CalibrationTick.  "again": more than 10 s since the last AssignTargets. *)
(* "due": the scan interval has passed.  An HMD that has not moved since   *)
(* the last tick ends the tick.                                            *)

Polled(again) ==
  IF ctx.state \in Continuing /\ ctx.trigger /\ again THEN AssignTargets(ctx) ELSE ctx

\* Mutant: an enabled profile is not scanned again.
ScannedUntilEnabled(due, again) ==
  LET c == Polled(again)
      m == [ctx |-> c, table |-> table]
  IN  IF due /\ c.valid /\ ~c.enabled THEN ScanAndApplyProfile(m) ELSE m

\* The periodic scan that precedes the tick's work.
Scanned(due, again) ==
  LET c == Polled(again)
      idle == c.state \in {"None", "ContinuousStandby"}
                \/ (c.state = "Continuous" /\ ~calc.valid)
      m == [ctx |-> c, table |-> table]
  IN  IF idle /\ due /\ c.valid THEN ScanAndApplyProfile(m) ELSE m

TickStill(again) ==
  /\ alive
  /\ ctx' = Polled(again)
  /\ UNCHANGED <<calc, file, table, alive, link, world, starts>>

TickNone(due) ==
  /\ alive /\ ctx.state = "None"
  /\ LET m == Scanned(due, FALSE) IN ctx' = m.ctx /\ table' = m.table
  /\ UNCHANGED <<calc, file, alive, link, world, starts>>

TickWaiting(due, again) ==
  /\ alive /\ ctx.state = "ContinuousStandby"
  /\ LET m == Scanned(due, again)
         c == AssignTargets(m.ctx)
     IN  ~Assigned(c) /\ ctx' = c /\ table' = m.table
  /\ UNCHANGED <<calc, file, alive, link, world, starts>>

TickEditing(due) ==
  /\ alive /\ ctx.state = "Editing"
  /\ LET m == [ctx |-> ctx, table |-> table]
         n == IF due THEN ScanAndApplyProfile(m) ELSE m
     IN  ctx' = n.ctx /\ table' = n.table
  /\ UNCHANGED <<calc, file, alive, link, world, starts>>

\* What the last poses of the two devices say, the worse of the two: "ok" when
\* valid and Running_OK, "half" when only one of these, "bad" when neither.
Poses == {"ok", "half", "bad"}

\* The jitter threshold is compared here, and only here, with a buffer that was
\* just emptied (NoInheritedResult): its jitter is 0, the test never fails.
TickBegin(pose) ==
  /\ alive /\ ctx.state = "Begin"
  /\ LET m == ScanAndApplyProfile([ctx |-> ctx, table |-> table])
         ok == Assigned(m.ctx) /\ pose = "ok"
     IN  /\ ctx' = [m.ctx EXCEPT !.state = IF ok THEN "Rotation" ELSE "None"]
         /\ table' = m.table
  /\ UNCHANGED <<calc, file, alive, link, world, starts>>

\* The context, table and calculator a sampling tick works with: standby
\* resumes, with an empty calculator, as soon as both devices are there.
Sampling(due, again) ==
  LET m == Scanned(due, again)
      a == AssignTargets(m.ctx)
  IN  IF ctx.state # "ContinuousStandby"
      THEN [ctx |-> m.ctx, table |-> m.table, calc |-> calc]
      ELSE [ctx |-> IF Assigned(a) THEN StartContinuousCalibration(a) ELSE a,
            table |-> m.table, calc |-> EmptyCalc]

\* CollectSample rejects a pose that is neither valid nor Running_OK; Begin asks for
\* both.
Usable(s, pose) == Assigned(s.ctx) /\ pose # "bad"

\* Mutant: a calibration without samples goes on.
NoSampleGoesOn(s, pose) ==
  /\ ~Usable(s, pose)
  /\ ctx' = s.ctx
  /\ table' = s.table
  /\ calc' = s.calc
  /\ UNCHANGED file

NoSample(s, pose) ==
  /\ ~Usable(s, pose)
  /\ ctx' = [s.ctx EXCEPT !.state = IF @ = "Continuous" THEN @ ELSE "None"]
  /\ table' = s.table
  /\ calc' = s.calc
  /\ UNCHANGED file

\* The buffer after PushSample.
Pushed(k) == [k EXCEPT !.samples = @ + 1]

Collect(s, k) ==
  /\ k.samples < SampleCount
  /\ ctx' = s.ctx
  /\ table' = s.table
  /\ calc' = k
  /\ UNCHANGED file

\* What the computation may return: a failure, or an update that is not taken,
\* leaves the old result; relcal is only ever set by an incremental one.
Outcomes(c) ==
  {[success |-> FALSE, calib |-> c.calib, relcal |-> c.state = "Continuous" /\ c.relcal]}
    \cup [success : {TRUE}, calib : Calibs,
          relcal : IF c.state = "Continuous" THEN {c.relcal, TRUE} ELSE {FALSE}]

\* Mutant: the buffer is never shortened.
NeverShifted(k) == k

\* What an incremental calibration keeps of the buffer.
Shifted(k) == [k EXCEPT !.samples = SampleCount - Drop]

\* A valid result is stored, saved and applied.
Compute(s, k, o) ==
  LET continuous == s.ctx.state = "Continuous"
      valid == s.calc.valid \/ o.success
      c == [s.ctx EXCEPT !.calib = o.calib, !.relcal = o.relcal, !.valid = TRUE]
      m == IF valid THEN ScanAndApplyProfile([ctx |-> c, table |-> s.table])
           ELSE [ctx |-> s.ctx, table |-> s.table]
  IN  /\ k.samples >= SampleCount
      /\ IF valid THEN SaveProfile(c) ELSE UNCHANGED file
      /\ table' = m.table
      /\ ctx' = [m.ctx EXCEPT !.state = IF continuous THEN @ ELSE "None"]
      /\ calc' = IF continuous
                 THEN [Shifted(k) EXCEPT !.valid = valid]
                 ELSE EmptyCalc

\* (The bound s, and not a LET, lets TLC work it out once.)
TickSampling(due, again, pose) ==
  /\ alive /\ ctx.state \in {"Rotation"} \cup Continuing
  /\ \E s \in {Sampling(due, again)} :
       /\ s.ctx.state # "ContinuousStandby"
       /\ \/ NoSample(s, pose)
          \/ /\ Usable(s, pose)
             /\ \E k \in {Pushed(s.calc)} :
                  Collect(s, k) \/ \E o \in Outcomes(s.ctx) : Compute(s, k, o)
  /\ UNCHANGED <<alive, link, world, starts>>

\* A tick on an HMD that moved.
TickMoved(due, again, pose) ==
  \/ TickNone(due) \/ TickWaiting(due, again) \/ TickEditing(due)
  \/ TickBegin(pose) \/ TickSampling(due, again, pose)

CalibrationTick ==
  \E due \in BOOLEAN, again \in {FALSE, ctx.state \in Continuing /\ ctx.trigger} :
    TickStill(again) \/ \E pose \in Poses : TickMoved(due, again, pose)

-----------------------------------------------------------------------------
(* The calibration tab.  Each frame first completes the selection: a system *)
(* never chosen and a device that is not of its system get a default.  Then *)
(* the user may press one thing: another entry of a list, unless the        *)
(* progress popup is open, or a button.                                     *)

Systems == {UiSystem[d] : d \in readable}
InSystem(s) == {d \in readable : UiSystem[d] = s}
First(D) == CHOOSE d \in D : \A e \in D : d <= e
FirstSystem(S) == UiSystem[First({d \in readable : UiSystem[d] \in S})]
MayChoose == ctx.state \in {"None", "Editing"}

\* What a system list shows: the current one, a default for none.
Shown(current, choices) ==
  IF current # NoSystem \/ choices = {} THEN current ELSE FirstSystem(choices)

\* One system is never both the reference and the target.
SystemSelection(c) ==
  LET s == Shown(c.refSystem, Systems \ {c.tgtSystem})
      t == IF s \in Systems /\ s = c.tgtSystem THEN NoSystem ELSE c.tgtSystem
  IN  [c EXCEPT !.refSystem = s, !.tgtSystem = Shown(t, Systems \ {s})]

\* A device outside the system falls back to the system's first.
Kept(d, D) == IF d \in D \/ D = {} THEN d ELSE First(D)

WithReference(c, d) == IF d = c.ref THEN c ELSE [c EXCEPT !.ref = d, !.refStandby = d]
WithTarget(c, d) == IF d = c.tgt THEN c ELSE [c EXCEPT !.tgt = d, !.tgtStandby = d]

DeviceSelections(c) ==
  WithTarget(WithReference(c, Kept(c.ref, InSystem(c.refSystem))),
             Kept(c.tgt, InSystem(c.tgtSystem)))

\* The context as a frame completes it.
Completed == DeviceSelections(SystemSelection(ctx))

\* The contexts that another entry of one of the four lists leads to.
Choices ==
  LET c == SystemSelection(ctx)
  IN  {DeviceSelections(SystemSelection([ctx EXCEPT !.refSystem = s])) : s \in Systems}
        \cup {DeviceSelections([c EXCEPT !.tgtSystem = t]) : t \in Systems \ {c.refSystem}}
        \cup {WithReference(Completed, d) : d \in InSystem(c.refSystem)}
        \cup {WithTarget(Completed, d) : d \in InSystem(c.tgtSystem)}

Select ==
  /\ alive /\ ctx.state \notin Continuing
  /\ ctx' \in {Completed} \cup (IF MayChoose THEN Choices ELSE {})
  /\ UNCHANGED <<calc, file, table, alive, link, world, starts>>

ClickStart ==
  /\ alive /\ ctx.state = "None"
  /\ ctx' = StartCalibration(Completed)
  /\ calc' = EmptyCalc
  /\ UNCHANGED <<file, table, alive, link, world, starts>>

ClickContinuous ==
  /\ alive /\ ctx.state = "None"
  /\ ctx' = StartContinuousCalibration(Completed)
  /\ calc' = EmptyCalc
  /\ UNCHANGED <<file, table, alive, link, world, starts>>

ClickEdit ==
  /\ alive /\ ctx.state = "None" /\ ctx.valid
  /\ ctx' = [Completed EXCEPT !.state = "Editing"]
  /\ UNCHANGED <<calc, file, table, alive, link, world, starts>>

ClickClear ==
  /\ alive /\ ctx.state = "None"
  /\ LET m == ScanAndApplyProfile([ctx |-> Cleared(Completed),
                                    table |-> ResetAllDeviceTransforms(table)])
     IN  ctx' = m.ctx /\ table' = m.table /\ SaveProfile(m.ctx)
  /\ UNCHANGED <<calc, alive, link, world, starts>>

EditOffset ==
  /\ alive /\ ctx.state = "Editing"
  /\ \E v \in Calibs : ctx' = [Completed EXCEPT !.calib = v]
  /\ UNCHANGED <<calc, file, table, alive, link, world, starts>>

ClickSave ==
  /\ alive /\ ctx.state = "Editing"
  /\ SaveProfile(Completed)
  /\ ctx' = [Completed EXCEPT !.state = "None"]
  /\ UNCHANGED <<calc, table, alive, link, world, starts>>

Import(f) ==
  /\ alive /\ MayChoose
  /\ LET m == ScanAndApplyProfile([ctx |-> ParseProfile(Completed, f), table |-> table])
     IN  ctx' = m.ctx /\ table' = m.table /\ SaveProfile(m.ctx)
  /\ UNCHANGED <<calc, alive, link, world, starts>>

\* A number that does not parse makes ImportProfile clear the context, and
\* nothing more; the state may already have been read.
ImportFails ==
  /\ alive /\ MayChoose
  /\ \E s \in {ctx.state, "ContinuousStandby"} :
       ctx' = [Cleared(Completed) EXCEPT !.state = s]
  /\ UNCHANGED <<calc, file, table, alive, link, world, starts>>

ClickCancel ==
  /\ alive /\ ctx.state \in Continuing
  /\ ctx' = EndContinuousCalibration(ctx)
  /\ SaveProfile(EndContinuousCalibration(ctx))
  /\ UNCHANGED <<calc, table, alive, link, world, starts>>

Toggle ==
  /\ alive /\ ctx.state \in Continuing
  /\ ctx' \in {[ctx EXCEPT !.quash = ~@], [ctx EXCEPT !.trigger = ~@]}
  /\ UNCHANGED <<calc, file, table, alive, link, world, starts>>

UiFrame ==
  \/ Select \/ ClickStart \/ ClickContinuous \/ ClickEdit \/ ClickClear
  \/ EditOffset \/ ClickSave \/ (\E f \in Profiles : Import(f)) \/ ImportFails
  \/ ClickCancel \/ Toggle

-----------------------------------------------------------------------------
(* The overlay process, the devices and the connection *)

\* InitCalibrator connects once; nothing reconnects later.
Start ==
  /\ ~alive /\ starts < MaxStarts
  /\ link' \in BOOLEAN
  /\ ctx' = LoadProfile(file)
  /\ table' = IF link' /\ file.kind # "none" THEN Applied(ctx', table) ELSE table
  /\ calc' = NewCalc
  /\ alive' = TRUE
  /\ starts' = starts + 1
  /\ UNCHANGED <<file, world>>

Stopped ==
  /\ alive' = FALSE /\ link' = FALSE
  /\ ctx' = NewContext /\ calc' = NewCalc
  /\ UNCHANGED <<table, world, starts>>

Exit == alive /\ SaveProfile(ctx) /\ Stopped

\* A crash may hit SaveProfile between truncating the file and writing it.
Crash ==
  /\ alive
  /\ file' \in {file} \cup (IF ctx.valid THEN {EmptyFile} ELSE {})
  /\ Stopped

LinkBreaks ==
  /\ alive /\ link
  /\ link' = FALSE
  /\ UNCHANGED <<ctx, calc, file, table, alive, world, starts>>

DeviceAppears(d) ==
  /\ d \notin readable
  /\ present' = present \cup {d}
  /\ readable' = readable \cup {d}
  /\ UNCHANGED <<ctx, calc, file, table, alive, link, starts>>

DeviceGoes(d) ==
  /\ d \in readable
  /\ readable' = readable \ {d}
  /\ UNCHANGED <<ctx, calc, file, table, alive, link, present, starts>>

Environment ==
  \/ Start \/ Exit \/ Crash \/ LinkBreaks
  \/ \E d \in Trackers : DeviceAppears(d) \/ DeviceGoes(d)

\* SteamVR has just started: the HMD is there, the driver's table is reset.
Init ==
  /\ ctx = NewContext
  /\ calc = NewCalc
  /\ file \in {NoFile} \cup Profiles
  /\ table = [d \in Devices |-> Off]
  /\ alive = FALSE /\ link = FALSE
  /\ present = {Hmd} /\ readable = {Hmd}
  /\ starts = 0

Next == CalibrationTick \/ UiFrame \/ Environment

Spec == Init /\ [][Next]_vars

\* The main loop keeps ticking, and someone wears the HMD: it moves again and
\* again, also at ticks at which the intervals have passed.  That the tick is
\* fair says nothing of the poses it finds: some pose comes up again and again.
TickFairness == \E pose \in Poses : WF_vars(TickMoved(TRUE, TRUE, pose))

FairSpec == Spec /\ TickFairness

-----------------------------------------------------------------------------
(* Properties *)

TypeOK ==
  /\ ctx \in [state : States, ref : Ids, tgt : Ids, refStandby : Ids, tgtStandby : Ids,
              refSystem : SystemNames, tgtSystem : SystemNames,
              enabled : BOOLEAN, valid : BOOLEAN, calib : Calibs \cup {0},
              quash : BOOLEAN, trigger : BOOLEAN, relcal : BOOLEAN]
  /\ calc \in [valid : BOOLEAN, samples : 0 .. SampleCount]
  /\ file \in {NoFile, EmptyFile} \cup ProfileFiles
  /\ table \in [Devices -> [enabled : BOOLEAN, calib : Calibs \cup {0}, quash : BOOLEAN]]
  /\ alive \in BOOLEAN /\ link \in BOOLEAN
  /\ readable \subseteq present /\ present \subseteq Devices
  /\ starts \in 0 .. MaxStarts

\* The driver is never told to move or hide the HMD, also when a profile names
\* the HMD's own system as the target space.
HmdUntouched == table[Hmd] = Off

\* A one-shot calibration that runs has both its devices, whatever became of
\* them and of the selection since it was started.
TargetsHeld == ctx.state \in {"Begin", "Rotation"} => NoDevice \notin {ctx.ref, ctx.tgt}

\* A one-shot calibration never inherits a result: the tick asks isValid() after
\* ComputeOneshot, which leaves the flag alone when it fails, so a flag left by
\* an earlier continuous run would pass its offset off as the new one.  Nor does
\* it inherit a sample: it begins on an empty buffer.
NoInheritedResult ==
  /\ ctx.state \in {"Begin", "Rotation"} => ~calc.valid
  /\ ctx.state = "Begin" => calc.samples = 0

\* Outside the editor, the calibration in memory is the one on disk: whatever
\* sets validProfile or the offset saves it, also while continuous calibration
\* keeps changing it.
SavedProfile ==
  alive /\ ctx.valid /\ ctx.state # "Editing" =>
    \/ file.kind = "profile" /\ file.calib = ctx.calib
    \/ file.kind = "empty" /\ ctx.calib = 0

\* A one-shot calibration ends, whatever poses its devices report: the tick
\* completes it or gives up.
OneshotEnds == ctx.state \in {"Begin", "Rotation"} ~> (ctx.state = "None" \/ ~alive)

\* Continuous calibration that waits for its devices resumes when they stay.
Waiting == alive /\ ctx.state = "ContinuousStandby"
StandbyResumes ==
  []<>~(Waiting /\ {ctx.refStandby, ctx.tgtStandby} \subseteq readable)

\* While the overlay idles on a valid profile and nothing changes around it, the
\* driver ends up with exactly the offsets of the profile: devices that appeared
\* get theirs, a tracker hidden for continuous calibration shows again, and a
\* device that left the target space gets none.
Idle == alive /\ link /\ ctx.state = "None" /\ ctx.valid /\ Hmd \in readable
profile == <<ctx.calib, ctx.refSystem, ctx.tgtSystem, present, readable>>
TableFollows ==
  <>[]Idle /\ <>[][UNCHANGED profile]_vars
    => <>[](\A d \in present : table[d] = Offset(ctx, d))

\* The menu says "Reference HMD not detected, profile disabled" only while the
\* HMD of the profile's reference space is not there.
ProfileEngages ==
  <>[](Idle /\ ctx.refSystem = UiSystem[Hmd]) => <>[]ctx.enabled

\* Cancelled continuous calibration stays cancelled: an overlay that starts goes
\* on with it only if it was running when the profile was last saved.
CancelSticks ==
  [][~alive /\ alive' /\ file.kind = "profile" /\ ~file.autostart
       => ctx'.state \notin Continuing]_vars
=============================================================================
