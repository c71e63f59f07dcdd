--------------------------- MODULE InterfaceHooks ---------------------------
(***************************************************************************)
(* How the driver gets between the other drivers and SteamVR: it diverts   *)
(* entries of SteamVR's virtual tables (Hooking.h), first the one every    *)
(* driver asks for interfaces, then, at the first request for a host       *)
(* interface, the one that takes pose reports (InterfaceHookInjector.cpp). *)
(* A diverted report is copied to the shared-memory ring (Protocol.h) and  *)
(* passed on to the function the entry had before.  All drivers share one  *)
(* table per interface.                                                    *)
(*                                                                         *)
(* Nothing locks.  The test for an earlier installation, the three writes  *)
(* of an installation and its registration are steps of their own, and so  *)
(* are DestroyAll's loop and its clear().  The loop is one step: it treats *)
(* each hook apart, and other threads find it as before or as after that.  *)
(* InjectHooks is one step: no other thread looks at the driver context's  *)
(* hook but for its table entry, and what is registered meanwhile is       *)
(* registered in either order.                                             *)
(***************************************************************************)
CONSTANTS
  Hosts,     \* versions of the host interface that carry pose reports
  Threads    \* threads of vrserver that report poses and ask for interfaces

Context == "IVRDriverContext"
Hooks == Hosts \cup {Context}

VARIABLES
  vtable,     \* what each entry points to: its own function or the detour
  orig,       \* originalFunc of each hook
  enabled,    \* hooks that were installed
  registry,   \* IHook::hooks
  ring,       \* pData: none, mapped, invalid (MAP_FAILED) or unmapped
  call,       \* where each thread is, and on which interface
  lost        \* history: hooks whose installation was overlapped, by another of the
              \* same or by DestroyAll, or whose entry DestroyAll could not write

hookVars == <<vtable, orig, enabled, registry, lost>>
vars == <<hookVars, ring, call>>

At(pc, h) == [at |-> pc, host |-> h]
Away == At("idle", Context)

Init ==
  /\ vtable = [h \in Hooks |-> "own"]
  /\ orig = [h \in Hooks |-> "none"]
  /\ enabled = {} /\ registry = {} /\ lost = {}
  /\ ring = "none"
  /\ call = [t \in Threads |-> Away]

-----------------------------------------------------------------------------
(* Installing hooks *)

\* A page that cannot be made writable leaves the entry alone; the hook is
\* registered all the same.
InjectHooks ==
  /\ orig' = [orig EXCEPT ![Context] = vtable[Context]]
  /\ \/ vtable' = [vtable EXCEPT ![Context] = "detour"] /\ enabled' = enabled \cup {Context}
     \/ UNCHANGED <<vtable, enabled>>
  /\ registry' = registry \cup {Context}
  /\ UNCHANGED <<ring, call, lost>>

\* A driver asks for a host interface and gets it from SteamVR.
GetGenericInterface(t, h) ==
  /\ call[t] = Away /\ vtable[Context] = "detour"
  /\ call' = [call EXCEPT ![t] = At("asked", h)]
  /\ UNCHANGED <<hookVars, ring>>

\* Threads between the test and the registration of a hook.
InstallSteps == {"hooking", "saved", "diverted", "hooked"}
Installing == {call[t].host : t \in {u \in Threads : call[u].at \in InstallSteps}}

\* Mutant: the interface is hooked at every request.
InstallEachTime(t) ==
  /\ call[t].at = "asked"
  /\ call' = [call EXCEPT ![t].at = "hooking"]
  /\ lost' = lost \cup ({call[t].host} \cap Installing)
  /\ UNCHANGED <<vtable, orig, enabled, registry, ring>>

\* Back in the detour: only a request that finds no hook of that name installs it.
TestExists(t) ==
  /\ call[t].at = "asked"
  /\ IF call[t].host \in registry
     THEN call' = [call EXCEPT ![t] = Away] /\ UNCHANGED lost
     ELSE /\ call' = [call EXCEPT ![t].at = "hooking"]
          /\ lost' = lost \cup ({call[t].host} \cap Installing)
  /\ UNCHANGED <<vtable, orig, enabled, registry, ring>>

\* originalFunc: whatever the entry holds by now.
SaveOriginal(t) ==
  /\ call[t].at = "hooking"
  /\ orig' = [orig EXCEPT ![call[t].host] = vtable[call[t].host]]
  /\ call' = [call EXCEPT ![t].at = "saved"]
  /\ UNCHANGED <<vtable, enabled, registry, lost, ring>>

Divert(t) ==
  /\ call[t].at = "saved"
  /\ \/ /\ vtable' = [vtable EXCEPT ![call[t].host] = "detour"]
        /\ call' = [call EXCEPT ![t].at = "diverted"]
     \/ /\ call' = [call EXCEPT ![t].at = "hooked"]
        /\ UNCHANGED vtable
  /\ UNCHANGED <<orig, enabled, registry, lost, ring>>

Enable(t) ==
  /\ call[t].at = "diverted"
  /\ enabled' = enabled \cup {call[t].host}
  /\ call' = [call EXCEPT ![t].at = "hooked"]
  /\ UNCHANGED <<vtable, orig, registry, lost, ring>>

\* Mutant: the hook is never registered.
Unregistered(t) ==
  /\ call[t].at = "hooked"
  /\ call' = [call EXCEPT ![t] = Away]
  /\ UNCHANGED <<hookVars, ring>>

Register(t) ==
  /\ call[t].at = "hooked"
  /\ registry' = registry \cup {call[t].host}
  /\ call' = [call EXCEPT ![t] = Away]
  /\ UNCHANGED <<vtable, orig, enabled, lost, ring>>

InstallHook(t) == SaveOriginal(t) \/ Divert(t) \/ Enable(t) \/ Register(t)

-----------------------------------------------------------------------------
(* Removing hooks: DestroyAll's loop, then clear() *)

\* Destroy forgets a hook whose page it could not make writable like any other.
DestroyHooks ==
  /\ \E stuck \in SUBSET (registry \cap enabled) :
       /\ vtable' = [h \in Hooks |->
                       IF h \in (registry \cap enabled) \ stuck THEN orig[h] ELSE vtable[h]]
       /\ lost' = lost \cup stuck \cup Installing
  /\ enabled' = enabled \ registry
  /\ UNCHANGED <<orig, registry, ring, call>>

\* A hook that was registered or enabled since the loop is forgotten with the rest.
ClearRegistry ==
  /\ registry' = {}
  /\ lost' = lost \cup Installing \cup (registry \cap enabled)
  /\ UNCHANGED <<vtable, orig, enabled, ring, call>>

-----------------------------------------------------------------------------
(* A pose report: the detour, SetPose, and the function it hides *)

Report(t, h) ==
  /\ call[t] = Away /\ vtable[h] = "detour"
  /\ call' = [call EXCEPT ![t] = At("entered", h)]
  /\ UNCHANGED <<hookVars, ring>>

Proceed(t, from, to) ==
  /\ call[t].at = from
  /\ call' = [call EXCEPT ![t].at = to]
  /\ UNCHANGED <<hookVars, ring>>

\* Mutant: the ring is taken to be there.
RingTakenForGranted(t) == Proceed(t, "entered", "storing")

TestRing(t) == Proceed(t, "entered", IF ring = "none" THEN "forward" ELSE "storing")

\* pData is read once more; a store that finds no ring behind it faults, which is
\* the end of vrserver: the thread goes no further, ServerGone comes next.
StoreSample(t) == Proceed(t, "storing", IF ring = "mapped" THEN "forward" ELSE "faulted")

\* An entry that was diverted twice would lead back into the detour.
CallOriginal(t) ==
  /\ call[t].at = "forward"
  /\ call' = [call EXCEPT ![t] = IF orig[@.host] = "own" THEN Away ELSE At("entered", @.host)]
  /\ UNCHANGED <<hookVars, ring>>

-----------------------------------------------------------------------------
(* The ring's mapping: Create, and Close in two steps *)

\* pData holds MAP_FAILED for a moment when the segment cannot be mapped.
MapRing == ring' \in {"none", "mapped", "invalid"} /\ UNCHANGED <<hookVars, call>>

\* Mutant: MAP_FAILED stays in pData, as in Open.
EndMapAsOpen == UNCHANGED <<hookVars, ring, call>>

EndMap == ring' = (IF ring = "invalid" THEN "none" ELSE ring) /\ UNCHANGED <<hookVars, call>>
Unmap == ring' = (IF ring = "mapped" THEN "unmapped" ELSE ring) /\ UNCHANGED <<hookVars, call>>
ClearPointer == ring' = "none" /\ UNCHANGED <<hookVars, call>>

\* vrserver ends, and its tables and threads with it.
ServerGone ==
  /\ vtable' = [h \in Hooks |-> "own"] /\ orig' = [h \in Hooks |-> "none"]
  /\ enabled' = {} /\ registry' = {} /\ lost' = {}
  /\ ring' = "none"
  /\ call' = [t \in Threads |-> Away]

Thread(t) ==
  \/ \E h \in Hosts : GetGenericInterface(t, h) \/ Report(t, h)
  \/ TestExists(t) \/ InstallHook(t)
  \/ TestRing(t) \/ StoreSample(t) \/ CallOriginal(t)

-----------------------------------------------------------------------------
TypeOK ==
  /\ vtable \in [Hooks -> {"own", "detour"}]
  /\ orig \in [Hooks -> {"none", "own", "detour"}]
  /\ enabled \subseteq Hooks /\ registry \subseteq Hooks /\ lost \subseteq Hooks
  /\ ring \in {"none", "mapped", "invalid", "unmapped"}
  /\ call \in [Threads -> [at : {"idle", "asked", "entered", "storing", "forward", "faulted"}
                                \cup InstallSteps, host : Hooks]]

\* Every diverted report comes out at SteamVR: the function behind a detour that
\* threads are in is SteamVR's own, never the detour itself, though drivers ask for
\* the same interface again and again, and while hooks come and go under the
\* report.  Excepted are the hooks the code has lost track of: without a lock two
\* threads may install one, or one while DestroyAll runs.
ForwardsHome ==
  \A t \in Threads :
    call[t].at \in {"entered", "storing", "forward"} /\ call[t].host \notin lost =>
      orig[call[t].host] = "own"
=============================================================================
