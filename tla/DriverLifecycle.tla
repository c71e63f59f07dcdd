-------------------------- MODULE DriverLifecycle --------------------------
(***************************************************************************)
(* The driver inside vrserver, from Init to Cleanup                        *)
(* (ServerTrackedDeviceProvider.cpp): the main thread installs the hooks,  *)
(* starts the IPC thread and creates the ring, and takes them down in      *)
(* another order, while overlays connect, threads of vrserver report poses *)
(* and vrserver may end at any step and be started again.                  *)
(*                                                                         *)
(* StopOverlay does nothing: LaunchOverlay is never called, so             *)
(* overlayProcessId is always 0.                                           *)
(***************************************************************************)
EXTENDS Integers, Sequences

CONSTANTS Conns, Hosts, Threads

VARIABLES
  main,   \* how far the main thread is in Init or Cleanup
  client, inst, req, rsp, edge, backlog, batch, accepting, thread, running,
  stop, joinable, epoll,
  vtable, orig, enabled, registry, ring, call, lost

Ipc == INSTANCE IpcChannel
Hook == INSTANCE InterfaceHooks

ASSUME HostsAssumption == Hook!Context \notin Hosts

ipcVars == <<client, inst, req, rsp, edge, backlog, batch, accepting, thread, running,
             stop, joinable, epoll>>
hookVars == <<vtable, orig, enabled, registry, ring, call, lost>>
vars == <<main, ipcVars, hookVars>>

\* One step of the main thread, in one of the two components.
IpcStep(from, A, to) == main = from /\ A /\ main' = to /\ UNCHANGED hookVars
HookStep(from, A, to) == main = from /\ A /\ main' = to /\ UNCHANGED ipcVars

Init == main = "off" /\ Ipc!Init /\ Hook!Init

DriverInit ==
  \/ IpcStep("hooked", Ipc!Run, "ran")
  \/ HookStep("ran", Hook!MapRing, "mapped")
  \/ HookStep("mapped", Hook!EndMap, "up")

\* StopOverlay, server.Stop, shmem.Close, DisableHooks
Cleanup ==
  \/ IpcStep("stopping", Ipc!StopReturns, "unmap")
  \/ IpcStep("stopping", Ipc!SetStop, "closing")
  \/ IpcStep("closing", Ipc!CloseEpoll, "joining")
  \/ IpcStep("joining", Ipc!Join, "unmap")
  \/ HookStep("unmap", Hook!Unmap, "clear")
  \/ HookStep("clear", Hook!ClearPointer, "unhook")
  \/ HookStep("unhook", Hook!DestroyHooks, "forget")
  \/ HookStep("forget", Hook!ClearRegistry, "down")

\* SteamVR decides when the driver is started and when it is cleaned up.
SteamVR ==
  \/ HookStep("off", Hook!InjectHooks, "hooked")
  \/ main = "up" /\ main' = "stopping" /\ UNCHANGED <<ipcVars, hookVars>>

\* vrserver exits or crashes; the next one starts with fresh statics.
ServerGone == main # "off" /\ main' = "off" /\ Ipc!ServerGone /\ Hook!ServerGone

IpcThread == Ipc!ServerThread /\ UNCHANGED <<main, hookVars>>
Overlays == Ipc!Clients /\ UNCHANGED <<main, hookVars>>
PoseThreads == (\E t \in Threads : Hook!Thread(t)) /\ UNCHANGED <<main, ipcVars>>

Next ==
  \/ DriverInit \/ Cleanup \/ SteamVR \/ ServerGone
  \/ IpcThread \/ Overlays \/ PoseThreads

Spec == Init /\ [][Next]_vars

\* Threads of vrserver that can run do run, and so does an overlay whose recv
\* can return; nobody has to call, to report or to stop anything.
Fairness ==
  /\ WF_vars(DriverInit) /\ WF_vars(Cleanup) /\ WF_vars(IpcThread)
  /\ \A c \in Conns : WF_vars(Ipc!Receive(c) /\ UNCHANGED <<main, hookVars>>)

FairSpec == Spec /\ Fairness

-----------------------------------------------------------------------------
(* Properties *)

Cleaning == {"stopping", "closing", "joining", "unmap", "clear", "unhook", "forget"}

TypeOK ==
  /\ main \in {"off", "hooked", "ran", "mapped", "up", "down"} \cup Cleaning
  /\ Ipc!TypeOK
  /\ Hook!TypeOK
  /\ ring = "invalid" => main = "mapped"
  /\ ring = "unmapped" => main = "clear"

\* Every pose report a detour took reaches SteamVR's own function, also while hooks
\* are installed by one thread, removed by another and used by a third.
ForwardsHome == Hook!ForwardsHome

\* No event epoll has or the IPC thread holds names a connection that was deleted,
\* whoever closed it and whatever else happens in the same batch.
EventsAlive == Ipc!EventsAlive

\* Seen from the overlays, the driver's sockets are a remote call that is executed
\* at most once, from Init through Cleanup and over vrserver's restarts.
RpcSpec == Ipc!RpcSpec

\* An overlay blocked in the receive comes back, wherever vrserver and the IPC
\* thread are.
CallReturns == Ipc!CallReturns

\* Cleanup ends: the server thread notices that it is to stop, wherever Stop
\* found it, and is joined.
CleanupEnds == main \in Cleaning ~> main \in {"down", "off"}

\* Once Stop has joined the thread, no connection is left and nothing more is
\* executed.  The case it does not cover is a Stop that returned early, which
\* leaves a thread to join.
Quiesced ==
  main \in {"unmap", "clear", "unhook", "forget", "down"} /\ ~joinable =>
    thread = "ended" /\ \A c \in Conns : inst[c] = "none"

\* A report's store never faults before Create has begun and never while the ring
\* is mapped, however early or late the report comes: what it read of pData before
\* is still good.  It may fault after a Create that failed, whose MAP_FAILED it took
\* for a ring, and from Close on, where it took a ring for granted that is gone.
StoresLand ==
  ring = "mapped" \/ main \in {"off", "hooked", "ran"} =>
    \A t \in Threads : call[t].at # "faulted"

\* Cleanup leaves every entry of SteamVR's tables with SteamVR's own function, but
\* for the hooks the code has lost track of: installed by two threads at a time, or
\* by one while DisableHooks ran, or on a page that cannot be made writable again.
Restored ==
  [][main = "forget" /\ main' = "down" =>
       \A h \in Hook!Hooks \ lost' : vtable'[h] = "own"]_vars
=============================================================================
