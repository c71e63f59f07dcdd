# Space Calibrator for Linux: a TLA+ verification project

The program aligns two VR tracking systems. An *overlay* process computes an
offset from poses of a device pair, one device of each system, and a *driver*
inside SteamVR's `vrserver` applies that offset to every pose of the target
system. This directory holds TLA+ models of that program, TLC configurations
that check them on small instances, and TLAPS proofs for every instance.

Paths such as `Calibration.cpp:263` are in `src/src/overlay/`, `src/src/driver/`
or `src/src/common/` of the repository.

## 1. The system

```
   overlay process (one thread)                    vrserver process (many threads)

   UI frame ── buttons ──> CalCtx                  driver threads report poses
   tick ── samples ──> CalibrationCalc                      │ hook
     │  ▲                                                   ▼
     │  └────── shared-memory ring <──── SetPose ── HandleDevicePoseUpdated
     │                                                      ▲ transforms[id]
     └── ScanAndApplyProfile ── socket ── IPC thread ── SetDeviceTransform
     │
     ├── PlayspaceMovement::Update ──> SteamVR's chaperone (the standing pose)
     │
   profile.json, config.json
```

| Component | State | Operations | What makes it hard | What makes it correct |
|---|---|---|---|---|
| **Pose ring** (`Protocol.h`, `DriverPoseShmem`) | index, 64 K slots, a cursor per reader | `SetPose`, `ReadNewPoses`, `Create` | no lock: racing writers, a reader that is lapped, a `vrserver` that dies and zeroes a mapped ring | what is delivered at a cursor is that sample, whole; bursts are bounded; nothing is replayed; no unwritten slot is read; the reader catches up |
| **Driver transforms** (`ServerTrackedDeviceProvider.cpp`, `IsometryTransform.h`) | per device: enabled, quash, offset, target offset, speed | `SetDeviceTransform` (IPC thread), `HandleDevicePoseUpdated` (pose thread) | two threads, no lock, many fields | how far torn offsets can put a device out is bounded, blends do not overshoot, a snap holds, an offset left alone is reached |
| **IPC** (`IPCServer.cpp`, `IPCClient.cpp`) | a socket and an edge-triggered epoll set, a server thread, one connection per overlay | `Run`, `Stop`, `RunThread`, `SendBlocking` | start and stop races, edges that are reported once, events of closed connections, overlays that die between request and response | every request is executed at most once, its caller comes back, no event outlives its connection, `Stop` ends |
| **Interface hooks** (`InterfaceHookInjector.cpp`, `Hooking.h`) | diverted table entries, a registry | install at first request, detour, `DisableHooks` | one table for all drivers, no lock: threads that install the same hook at a time, threads inside a detour or an installation while hooks are removed, pages that cannot be made writable | every report reaches SteamVR's function; the tables are left as they were |
| **Driver start and stop** (`ServerTrackedDeviceProvider.cpp`) | hooks, ring and server together | `Init`, `Cleanup` | the parts are taken down while threads use them | `Cleanup` ends, and then nothing serves or stores |
| **Calibration state machine** (`Calibration.cpp`, `.h`) | `CalCtx`: state, devices, systems, profile; what the driver was sent | `CalibrationTick`, `ScanAndApplyProfile`, `StartCalibration`, `StartContinuousCalibration`, `EndContinuousCalibration` | devices come and go mid-calibration, scans only in some states, results left over | no stale result is applied, calibrations end, standby resumes, the driver's table converges to the profile, the HMD is never moved |
| **Calibration tab** (`CalibrationUI.cpp`) | selections in `CalCtx` | the lists and buttons | every frame silently completes the selection | what it shows agrees with what the tick does |
| **Profile file** (`ProfileManager.cpp`) | `profile.json` | save, load, import, export, delete | crash inside a save, hand-written reader | memory and disk agree; what was saved is read back |
| **Device enumeration** (`VRState.cpp`) | none | `Load`, `FindDevice` | renames some tracking systems | names agree with SteamVR's |
| **Calibration solver** (`CalibrationCalc.cpp`) | sample buffer, result, validity, the learnt relation of the two devices | `PushSample`, `ShiftSample`, `ComputeOneshot`, `ComputeIncremental` | three ways in which a result comes into force, each with its own comparison | a worse result never replaces one that still fits; a lock yields only to need |
| **Playspace movement** (`PlayspaceMovement.cpp`) | saved, working and live standing pose, grab state | drag, grab, reset, save | every drag changes the space it is measured in; commits fail | a reset restores what was saved and holds; a drag is bounded and comes to rest |
| **Application settings** (`Configuration.cpp`) | `config.json` | load, save | files that do not open | the settings in force are found by the next start |
| **Main loop and window, metrics, telemetry, logging, installation** | | | plain I/O | |

How they interact: the driver's pose hook writes the ring, then tests and blends
the device's transform. The overlay's main loop alternates `CalibrationTick`, a
playspace update and a UI frame; the tick polls the ring, and everything it wants
of the driver goes through `ScanAndApplyProfile`, one blocking request per device,
which the driver's IPC thread executes. Profile file, context and driver table
are three copies of one calibration that change at different moments. The overlay
may exit or crash while the driver keeps its table; `vrserver` may die while the
overlay keeps the ring mapped and a request open. Playspace movement shares with
the calibration only the chaperone bounds that the user copies and pastes.

## 2. The modules

| Module | Models |
|---|---|
| `PoseRing` | the shared-memory ring, racing threads of the driver, readers, driver restarts |
| `DeviceTransforms` | one table entry of the driver between its two threads |
| `Rpc` | abstract: what a request of the overlay promises |
| `IpcChannel` | sockets, epoll set and server thread; implements `Rpc` |
| `InterfaceHooks` | diverted tables, detours, the ring's mapping |
| `DriverLifecycle` | `Init` and `Cleanup`: composes `IpcChannel` and `InterfaceHooks` |
| `Calibration` | overlay state machine, calibration tab, profile file, driver table, restarts of the overlay |
| `SolverDecisions` | which of its candidates the solver puts in force |
| `PlayspaceMovement` | drag and reset of the playspace, its tab, `config.json`, the chaperone's clipboard |
| `PoseRing_proofs`, `DeviceTransforms_proofs`, `Calibration_proofs`, `SolverDecisions_proofs`, `PlayspaceMovement_proofs` | theorems about the module of that name |
| `DriverIpc_proofs`, `DriverLifecycle_proofs` | theorems about `DriverLifecycle`: sockets and the refinement of `Rpc`; hooks and ring |
| `MC*` | constants for TLC |

Definitions whose comment says "Mutant" are wrong versions of the definition that
follows; no specification uses them. They show that the property named beside
them in `PROJECT.json` notices the difference.

### PoseRing

State: `index` and `slots` are `ShmemData`; `wpc`/`wcur` are a thread inside
`SetPose` and its local `cur_index`; `rpc`/`snap`/`cursor`/`held` a reader inside
`ReadNewPoses`; `driver`/`todo` the process and what its `Create` has yet to zero.
`SetPose` is three accesses: `LoadIndex`, the copy (`BeginCopy`, `EndCopy`),
`Publish`. A slot under copy is `Torn`; two overlapping copies may leave it
`Mixed`. `ReadNewPoses` is `Load` (with `Resync`, the repair of the cursor), a
`BeginRead`/`EndRead` pair per callback, and `Return`. `Create` zeroes location
by location in any order, and `SetPose` may run meanwhile, because the hooks are
installed first. `ring`, `steady` and `out` are history for the properties.
64-bit wrap-around of the index is out of reach of any run time and is left out.

### DeviceTransforms

One device, one axis and one angle: an offset is a translation and a rotation
about a pivot `Lever` away, which keeps what `interpolateAround` is about,
namely that place and angle are blended separately and written back as a
translation. Each field access of `SetDeviceTransform` (`ipc`) and of
`HandleDevicePoseUpdated` (`pc`) is a step. A blend may go any grid distance
towards its target (`Toward`), because its fraction depends on the clock.
`Request` holds the requests the overlay sends: both offset parts always, with
lerp in continuous calibration, all zero when an offset is switched off.
A blend moves by at least one grid step: a fraction so small that nothing
moves is not modelled, and is what the grid stands for.
`MinOffset` to `MaxSwing` name the range of what is sent, for the bound that
`Bounded` states. `alone`, `clean` and `disturbed` are history: whether a
`SetDeviceTransform` overlapped the report in progress, whether a report
overlapped the last request, and how many reports were overlapped so far;
`MaxDisturbed` bounds the last.

### Rpc and IpcChannel

`Rpc` has one phase per overlay process: off, idle, called (the request is out),
done (executed, the caller not back), lost (the connection is broken), orphan (the
process died before its request was executed). Its actions say what may happen to
a request; `Shutdown` what a server that goes away may do to all of them at once.

`IpcChannel` is the code. `client` is `IPCClient`: `Connect`, and `SendBlocking`
split into `Send` and `Receive`, because anything may happen between; `Die` is its
process's end. `inst` is the `SocketInstance` with its read or write state, `edge`
the ready list of an edge-triggered epoll set, `batch` and `accepting` the events
of the last `epoll_wait` not worked off yet. `Handle` is one event of the loop,
`Rearm` the `epoll_ctl` after the response was sent, a step of its own because the
next request may be there first. `thread` is where `RunThread` is; `SetRunning`,
`BindSocket`, `CreateEpoll`, `LeaveLoop`, `ExitThread` are its parts outside the
loop, with the failures the code returns on. `Run` and the three steps of `Stop`
are operators for the main thread. `Phase` maps all this to `Rpc`: a request is
executed the moment the server has read it, and a response that the server's end
can still send is on its way.

### InterfaceHooks and DriverLifecycle

`vtable` says for each interface whether its entry leads to SteamVR or to the
detour, `orig` is a hook's `originalFunc`, `registry` is `IHook::hooks`. A thread of
`vrserver` asks for an interface (`GetGenericInterface`) and, back in the detour,
tests for an earlier installation (`TestExists`). Nothing locks, so an installation
is five steps, between which any other thread may be: `IHook::Exists`, the write of
`originalFunc` (`SaveOriginal`), of the table entry (`Divert`, which fails where the
page cannot be made writable) and of `enabled` (`Enable`), and `IHook::Register`.
`DestroyAll` is its loop (`DestroyHooks`, where any set of pages may be `stuck`) and
its `clear()` (`ClearRegistry`). `lost` is history: the hooks the code has lost track
of, because their installation was overlapped by another of the same or by
`DestroyAll`, or because `Destroy` could not write their entry.

Or a thread reports a pose: `Report` enters the detour, `TestRing` is `SetPose`'s
test of `pData`, `StoreSample` its store, which faults where no ring is mapped behind
the pointer any more, `CallOriginal` the call of `originalFunc`, which may lead into
the detour again. `ring` is `pData`, with `MAP_FAILED` for a moment in `Create` and a
stale pointer for a moment in `Close`. A fault is the end of `vrserver`; in the model
its other threads may take a few more steps before `ServerGone`.

`DriverLifecycle` instantiates both with its own variables and adds `main`, the
main thread in `Init` (hooks, IPC server, ring) or in `Cleanup` (server, ring,
hooks). Each of its steps is one of the components' operators. `ServerGone` is the
end of `vrserver` at any step.

### Calibration

`ctx` holds the fields of `CalCtx` that a decision reads or the file saves;
`calc` the solver's flag and buffer; `file` the profile; `table` the offsets the
driver has. Ticks: `TickStill` is a tick on an HMD that has not moved, the other
five are one per state. `due` and `again` say whether the scan interval and the
10 s of `AssignTargets` have passed. `ScanAndApplyProfile` is an operator on a
context and a table, used wherever the code calls it, inside the action.
A profile file is a record of what `SaveProfile` writes (`Written`, all of them
`ProfileFiles`); the systems it names may be ones no device here reports, and a
device it names that is not there is one that never appears. `ParseProfile` reads flags
as the code does, from a key to the end of the file. Each UI frame first
completes the selection (`Completed`), then the user may press one thing.
`Start`, `Exit`, `Crash`, `LinkBreaks` and `DeviceAppears`/`DeviceGoes` are the
world around it. A calibration is a value of `Calibs`; the solver may return any
of them, or fail.

### SolverDecisions

What `Calibration` leaves open: which result a call of `ComputeIncremental` puts
in force. A candidate is its retargeting error on the samples of the call, any
value of `Errors`, since every call has other samples: `prior` is the error of the
transform in force, `rel` of the one by the relation learnt before, `raw` of the
new solution, `gap` of the transform in force measured by the relation. `Locked`,
`Static` and `Solved` are the three parts of the function in its order, each
returning early where the code does; `Rapid` is the second chance of the relation.
`relation`, `relcal` and `ctx` carry what is learnt from session to session, as
`StartContinuousCalibration`, the tick and the profile reader hand it on. `last`
records what the last call found and did.

### PlayspaceMovement

One dimension in centimetres. `live` is the standing centre SteamVR has, `working`
the working copy, `original` and `home` the saved original and where the live
centre was then. The controller's pose is `hand - live`: SteamVR reports it
relative to what the drag moves. `Update` is one frame: reset button, pull action,
pose and commits are read, each of which may fail. `Grab` is the first frame of a pull,
`Drag` the next ones with smoothing, multiplier, clamp and the 33 ms between
commits (`since`). The tab's controls, the chaperone's copy and paste, the clear
button and a restart are the remaining actions. `config` and `file` are `AppConfig`
in memory and on disk.

## 3. The runs

| Run | Bounds | Shows |
|---|---|---|
| `ring_single` | 1 writer, 1 reader, 4 slots, 5 samples, 1 driver death | `TypeOK`, `BurstBound`, `ExactDelivery`, `NoReplay` |
| `ring_racing` | 2 racing writers, 1 reader, 2 slots, 4 samples | `BurstBound`, `NoHole`, `CatchUp` |
| `transforms_race` | 2 offsets, 2 angles, a grid of 15 mm, all requests, 1 disturbed report | `TypeOK`, `Bounded`, `Approach`, `SnapHolds`, `Settles` |
| `transforms_speed` | 3 offsets | `FastWhenFar` is violated |
| `driver` | 2 overlays, 2 threads that report and install, 1 host interface, at most 2 of these four in a connection or call at a time, no bound on calls, deaths or restarts | `TypeOK`, `RpcSpec`, `CallReturns`, `EventsAlive`, `CleanupEnds`, `Quiesced`, `ForwardsHome`, `StoresLand`, `Restored` |
| `calibration_safety` | HMD and 1 tracker, 2 samples, 2 starts | `TypeOK`, `HmdUntouched`, `TargetsHeld`, `NoInheritedResult`, `SavedProfile` |
| `calibration_live` | the same, 1 start, connected, starting from a saved profile or none | `OneshotEnds`, `StandbyResumes`, `TableFollows`, `ProfileEngages` |
| `calibration_pimax`, `calibration_cancel` | the same | `ProfileEngages`, `CancelSticks` are violated |
| `solver` | 5 errors, 3 variances, no bound on calls or sessions | `TypeOK`, `NeverWorse`, `LockYields` |
| `playspace` | 2 hand positions, multipliers 1 and 10, 3 frames per commit, 3 events | `TypeOK`, `ResetHolds`, `Remembered`, `DragBounded`, `DragSettles` |
| `playspace_ratio` | the same hand positions and frames, multiplier 1, 1 event | `OneToOne` is violated |

`RpcSpec` is the refinement: every behaviour of the composed driver and its
overlays, seen through `Phase`, is one of `Rpc`.

Why the bounds are enough.

* The ring with four slots and five samples wraps, and the reader is lapped; half a
  ring is two, the smallest at which a calm reader can be one sample behind. With
  two writers the ring has two slots, so that both wrap it while they race. The
  theorems drop these bounds.
* The transform grid lets an offset be at, before and between targets, with and
  without a rotation, and both speeds above the lowest occur. The grid is
  half the swing of the lever, so that torn values fall between the offsets. One
  disturbed report is enough for every tear of a request by a report, and for a
  device to be put out by more than one swing; requests that overlap no report are
  not bounded, and the theorems have any number of either.
* Two overlays are the least with which one batch holds events of two connections,
  or of one and of the listening socket; connections do not otherwise know of each
  other. All interfaces are hooked by the same code at the same kind of table; one
  host besides the context makes two hooks. Two threads are the least that can be
  inside one installation, or one in an installation while the other reports.
  `Crowd` (`CrowdSpec` in `MCDriverLifecycle`) bounds how many overlays and threads are busy at a time to two of the
  four: two overlays, two threads, or one of each. Overlays and pose threads share
  no variable; what joins them is the main thread, which a pair of each kind meets
  in every one of its steps. The bound takes no step away from what fairness
  speaks of: only connecting, asking and reporting add to the crowd.
* Two samples let a calibration be interrupted between samples and an incremental
  one shorten its buffer; one tracker of another system suffices because scans
  treat devices independently; two starts let a second overlay meet the file and
  the table of the first, a third could only meet what a second leaves.
* The solver's errors (4, 20, 90, 150, 400 mm) lie on either side of every constant
  the code compares with: 5, 10, 25 and 100 mm, and the ratio 1.5.
* Two hand positions 80 cm apart reach the clamp with multiplier 10 and stay below
  it with 1. `MaxEvents` counts what the user does and what fails; frames in which
  nothing new happens are not counted, so a drag may last for ever. Three events
  are grab, move and one of everything else, or a reset between two of them.

### What the violated properties say

* `FastWhenFar`: `GetTransformDeltaSize` compares a squared distance with
  thresholds in metres. The window labels them mm (`CalibrationUI.cpp:773`); the
  20 mm threshold acts at 141 mm.
* `ProfileEngages` with a Pimax Crystal: the UI stores the name that
  `VRState.cpp:41` made up, the scan compares SteamVR's. The profile stays
  disabled and the menu reports a missing HMD. `calibration_live` shows the same
  property holding for systems that are not renamed.
* `CancelSticks`: a flag of the profile is read as true if any later flag is, so
  a cancelled continuous calibration comes back with "Hide tracker" on.
* `OneToOne`: at multiplier 1 a controller that moves 80 cm and stays there moves the
  playspace by 37 cm, while the README speaks of 1:1 (`src/README.md:159`) and the tab
  of 1 unit for 1 unit (`CalibrationUI.cpp:935`). The controller's pose is read in the
  standing universe (`PlayspaceMovement.cpp:395`), which moves with the playspace, so
  a drag comes to rest at k/(1+k) of the way for a multiplier k, less what the cuts to
  a centimetre leave. That it comes to rest is `DragSettles`.

Two threads can hook one interface. `ForwardsHome` and `Restored` except the hooks in
`lost`; without these exceptions TLC finds:

* two threads past `Exists` at a time: the first diverts the entry, the second saves
  the detour as `originalFunc`, and every report of that interface calls itself
  (`InterfaceHookInjector.cpp:43-46`; 12 states);
* an entry that is diverted but not registered when `DestroyAll` runs: it is not
  found, and the detour stays in SteamVR's table after `Cleanup`
  (`InterfaceHookInjector.cpp:45`);
* a page that `Destroy` cannot make writable: the detour stays, `enabled` is cleared
  and the hook is forgotten (`Hooking.h:68-73`).

Nothing in the repository says that these do not happen, so they are no violated
property of a run; they are hazards. The proofs show that they are all: a hook that
met none of them is forwarded and removed. Likewise `StoresLand` confines the stores
that fault: a report that tested `pData` before `Close`, or between `munmap` and
`pData = nullptr`, may store after it, and one that took the `MAP_FAILED` of a `Create`
that fails for a ring.

Torn offsets can add up. A report that reads the place of one request and the
angle of another writes back a translation that is off by up to two swings of the
lever, and the next disturbed report starts from there. With offsets of 0 to
60 mm and a swing of 30 mm, one such report already takes a device more than 30 mm beyond them.
It needs a `SetDeviceTransform` inside each of these reports, and
`Settles` shows that the offset comes back as soon as the overlay pauses. `Bounded`
states the exact form: one swing, and two more per disturbed report.

Seen while modelling and stated by no run: the jitter threshold is compared only
where the sample buffer is empty (`Calibration.cpp:490`); a sample needs a pose that
is valid *or* running (`Calibration.cpp:84`), while the start of a calibration and the
status line ask for both; switching movement off is never saved; a `Stop` that comes before the server thread has set `running` returns
without stopping it, which `Quiesced` excepts.

### Fairness

* `PoseRing`: `WF` of each reader. The main loop polls the ring at every tick, and
  a callback copies and returns. Writers and the driver get none: poses may stop,
  a dead driver may stay dead.
* `DeviceTransforms`: `WF` of the pose thread (a tracked device keeps reporting) and
  of a `SetDeviceTransform` that has begun (a function that does not wait). The
  overlay need never call.
* `DriverLifecycle`: `WF` of `DriverInit` and `Cleanup` once begun, of the IPC thread,
  and of each overlay's `Receive`: threads that can run do run. Nobody has to
  connect, call, report a pose or stop the driver.
* `Calibration`: `TickFairness`, for some pose, `WF` of the tick on a moving HMD at
  which the intervals have passed and the devices report that pose. The tick is
  fair, the tracking is not: nothing says that a good pose ever comes.
  The main loop ticks for ever; that the HMD moves is an assumption about its
  wearer, and the code needs it: a still HMD ends every tick (`Calibration.cpp:395`).
  `SteadySpec` in `MCCalibration` also keeps the overlay up and connected, which
  the properties suppose anyway. UI and environment get no fairness.
* `PlayspaceMovement`: `WF` of `GoodFrame`, the frame in which everything is read and
  committed; how often reading or committing fails is bounded by `MaxEvents`.
* `SolverDecisions` states no liveness.

## 4. The proofs

| Theorem | Statement | For every |
|---|---|---|
| `TypeCorrect` (`PoseRing_proofs`) | `Spec => []TypeOK` | set of writers and readers, ring size, number of driver deaths |
| `BurstBounded` | `Spec => []BurstBound` | the same |
| `NoHoles` | `Spec => []NoHole` | the same |
| `ExactlyDelivered` | with one writer, `Spec => []ExactDelivery` | the same |
| `NeverReplayed` | with one writer, `Spec => NoReplay` | the same |
| `ServesCalls` (`DriverIpc_proofs`) | `Spec => RpcSpec`, the refinement of `Rpc` | number of overlays, interfaces, threads and restarts |
| `EventsStayAlive` | `Spec => []EventsAlive` | the same |
| `NothingServed` | `Spec => []Quiesced` | the same |
| `TypeCorrect` (`DriverLifecycle_proofs`) | `Spec => []TypeOK` | the same |
| `ReportsForwarded` | `Spec => []ForwardsHome` | the same |
| `StoresSafe` | `Spec => []StoresLand` | the same |
| `TablesRestored` | `Spec => Restored` | the same |
| `TypeCorrect` (`DeviceTransforms_proofs`) | `Spec => []TypeOK` | offsets, angles, lever, grid, thresholds, number of disturbed reports |
| `DriftBounded` | `Spec => []Bounded` | the same |
| `BlendApproaches` | `Spec => []Approach` | the same |
| `SnapStays` | `Spec => []SnapHolds` | the same |
| `TypeCorrect` (`Calibration_proofs`) | `Spec => []TypeOK` | devices, their systems, results, sample counts, profiles, number of starts |
| `HmdLeftAlone` | `Spec => []HmdUntouched` | the same |
| `OneshotHasDevices` | `Spec => []TargetsHeld` | the same |
| `OneshotStartsClean` | `Spec => []NoInheritedResult` | the same |
| `MemoryIsOnDisk` | `Spec => []SavedProfile` | the same |
| `TypeCorrect` (`SolverDecisions_proofs`) | `Spec => []TypeOK` | set of errors and variances, threshold above 1 |
| `NeverWorsened` | `Spec => []NeverWorse` | set of errors and variances, threshold above 1 |
| `LockHonoured` | `Spec => []LockYields` | the same |
| `TypeCorrect` (`PlayspaceMovement_proofs`) | `Spec => []TypeOK` | positions, multipliers, frame rate, number of events |
| `ResetStays` | `Spec => []ResetHolds` | the same |
| `DragLimited` | `Spec => DragBounded` | the same |
| `SettingsKept` | `Spec => []Remembered` | the same |

**PoseRing.** `BurstBound` is inductive together with the type invariant and the fact that a
reader inside a callback is below the index it loaded (`BurstInv`). `NoHole`
needs more (`HoleInv`): while no `Create` has wiped the ring, every slot up to
the index, and below the index a thread inside `SetPose` has loaded, is filled,
so a snapshot a reader took of the index bounds filled slots only; and `Create`,
which is the one that empties slots, starts from a ring that no reader trusts.
`ExactDelivery` strengthens further: with one writer the slots of
the last lap hold their own numbers but for the one being written, and a calm
reader's slot is not that one; this is where the half-ring bound is used.
`NeverReplayed` follows from the invariant that a steady reader's cursor is at
most the index, so `Resync` moves it forward only. Assumed: `HalfAssumption` (a
ring of an even, positive size), `BoundAssumption` and, where said, a single writer.

**DriverIpc.** `EventsAlive` alone is not inductive. `IpcInv` adds, for each connection
(`WireInv`), what its process and the server can be doing at the same time: a
request and a response are never both on the wire, a connection without a
`SocketInstance` has no request, a hang-up is reported only of a process that left
the connection; for the backlog, that it names waiting connections, each once
(`BacklogInv`); and that only a thread inside `RunThread`'s loop has connections
(`ConnInv`). `JoinInv` ties the thread to the main thread that starts and joins it,
which gives `Quiesced`. The refinement goes action by action: `SetRunning`, the
epoll calls and the acceptance of a connection are stutters, `Read` is `Execute`, a
hang-up is `Drop`; `ExitThread`, an `epoll_create1` that fails and the end of
`vrserver` are `Shutdown`. `Phase` is a function of the
connection's state only under `WireInv`: its cases overlap where a response is out
and the next request is already there, and the invariant excludes that.

**DriverLifecycle.** `TableInv` is the heart, about every hook that is not lost. Its first
part, `SoleInstaller`, says that at most one thread is between `Exists` and `Register`
with it, that nobody registered it meanwhile, and what that thread has left behind:
the entry is SteamVR's own until it is diverted, `originalFunc` is from its first step
on. Then an enabled hook remembers SteamVR's own function, and a diverted entry is
`Known`: `DestroyAll` would find it, or its installation is going on. So what a detour
calls is never a detour (`ReportsForwarded`), and after the loop and `clear()` every
entry that is not lost is SteamVR's own (`TablesRestored`), with any number of threads
between any of these steps and installations that begin while or after hooks are
removed. The steps of an installation go through one lemma (`InstallStep`), because
they touch their own hook only (`OthersKept`). `SavedInv`, that what is written back
was saved, is needed for the types of the tables, the lost hooks' included.
`StoreInv` gives `StoresSafe`: before `Create` no report has taken a ring for granted,
and while one is mapped no store has faulted. `RingInv` confines the pointer that
leads nowhere to two points of the main thread. Assumed in both: `HostsAssumption`, that
the driver context is not one of the host interfaces it hands out; nothing on the size
of any set.

**DeviceTransforms.** `TransformInv` has three parts besides the types. `AloneInv`
follows a report that no request overlaps through its reads and writes: what it
read is still there, and the place it computed lies between the device and its
target. `SnapInv` says that after a snap nothing of an older offset is left in the
report's locals. `DriftInv` bounds the translation, and the translation with its
swing, before and after each write, by what the reports disturbed so far allow.
This proof changed the model: the bound stated before, one swing in all, held on a
grid of 30 mm only because no torn value fell between its points; it did not
survive the attempt to make it inductive, and a finer grid shows the drift. Assumed:
`GridAssumption`, `ThresholdAssumption`, and `BoundAssumption`, which only names the
range of the offsets and swings.

**Calibration.** The five invariants are inductive together (`CalibrationInv`). The proof
is about what the code's functions leave of a context: `Keeps` says that offset and
validity are as they were and that a chosen device stays chosen, `Same` that the
state is kept as well. `AssignTargets`, the scan, the completion of the selection
and every entry of the four lists are shown to be `Same`; starting and ending a
calibration `Keep`. `TargetsHeld` follows, since `Begin` is entered through
`Assigned` only and nothing unsets a device afterwards; that the selection of a
frame never falls back to no device needs the first device of a set to exist
(`FirstIn`, from the well-foundedness of the naturals). `NoInheritedResult` holds because both
buttons empty the calculator and the ticks of a one-shot run leave its flag alone
until the last, which leaves the state. `SavedProfile` splits the actions into those
that save the context they leave (`Saved`) and those that change neither offset nor
validity (`NothingSaved`), the editor aside. `HmdUntouched` is carried by a table that is
well formed and leaves index 0 alone (`GoodTable`), whatever the profile says.
Assumed: `DeviceAssumption`, `CountAssumption`, and `ProfileAssumption`: earlier profiles
are files `SaveProfile` can have written.

**SolverDecisions.** `NeverWorse` and `LockYields` are about the last call and are inductive as they stand:
each branch makes the comparison it needs. The one that takes thought is a raw
solution that fails validation and lets the relation in: `OutOfReach` shows that
it can have stayed in the running only against a transform that fails validation
as well, since a threshold above 1 keeps 100 mm below 100 mm times the threshold.
Assumed: `SolverAssumption`, whose `Num > Den` is that threshold.

**PlayspaceMovement.** `ResetHolds` is not inductive: `IInv` adds the types, that a saved original is
where the live centre was when it was saved (`Kept`), and that after a reset nothing holds
the playspace but a grab made since, which has not moved (`AtHome`). An `Update` is
taken apart into what it does to a place (`ResetPlace`, `GrabPlace`, `DragPlace`,
`PullPlace`), and the restored playspace stays because the drag that begins there
has a delta of zero until the hand moves, which is an event. `DragBounded` needs no
invariant but that events are counted: a commit of the same grab without an event
is `ref` plus a clamped number (`ClampRange`, `DragWithin`). `Remembered` is inductive as
it stands. Assumed: `PlayspaceAssumption` (types of the constants).

Only model-checked: liveness, which needs fairness and `ENABLED` and is outside
the proof system used here: `CatchUp`, `Settles`, `CallReturns`, `CleanupEnds`,
`OneshotEnds`, `StandbyResumes`, `TableFollows`, `ProfileEngages`, `DragSettles`. Every invariant and
every action property of a passing run is a theorem.

## 5. Not modelled, and the plan

Left out for good: linear algebra of the solver and its sample geometry, rendering
and windows, logging, metrics and telemetry (output only), installation scripts.

Simplified:

* `Calibration`: a profile file always opens for writing (the code logs and goes on);
  the numbers of a profile, which are parsed one by one; three further flags;
  chaperone bounds (`autoApply` is stored but never acted upon); controller roles.
* `IpcChannel`: all requests are alike; messages are neither split nor lost (a
  local stream, structures far below the size of its buffer, one request outstanding); descriptor numbers, so that a descriptor closed
  twice hits nothing else; what a process does on `SIGPIPE` (its death at any step
  is modelled).
* `IpcChannel`: `accept` does not fail (the listening socket is level-triggered, so a
  failing one is tried again at the next `epoll_wait`), and neither does the `epoll_ctl`
  that adds a connection, whose result the code ignores (`IPCServer.cpp:179`): such a
  connection would never be served, and `CallReturns` would not hold for it.
* `DeviceTransforms`: each of `GetTransformDeltaSize` and `interpolateAround` reads each
  part of an offset once. The code reads the rotations again within them
  (`IsometryTransform.h:28-46`), so a request may come between two reads of one
  rotation. The place such a blend computes still lies between places of old and new
  parts, and the translation it writes back is a place less one swing, which is what
  `Bounded` allows a disturbed report.
* `InterfaceHooks`: `DestroyAll`'s loop is one step, since it treats each hook apart, and
  `InjectHooks` is one, since no other thread has its hook yet; the registry's
  `std::map` is not torn by threads that read and change it at a time.
* `PlayspaceMovement`: one dimension, whole centimetres; rotation, the collision
  bounds' shape, and the failure of `Initialize`, after which there is no movement.
* `SolverDecisions`: an error is any number, so candidates of successive calls are
  unrelated, which is more than can happen.
* Settings: `refreshInterval` and `autoRefresh`, and the reading of digits.

Planned: properties and their proofs where the model already has the behaviour and no
property speaks of it: an import that fails (what the driver keeps), what a
server that outlives `Stop` may still do, hooks installed after `DisableHooks`, samples
of half-tracked devices; and
the safety half of `TableFollows`, that a scan which reaches the driver leaves in
it exactly the offsets of the profile, as a theorem.
