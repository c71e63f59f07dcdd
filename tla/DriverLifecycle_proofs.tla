----------------------- MODULE DriverLifecycle_proofs -----------------------
(***************************************************************************)
(* The driver's hooks and ring, for any set of host interfaces and any     *)
(* number of threads that report poses and install hooks at the same time, *)
(* while the main thread is in Init or Cleanup, and over restarts of       *)
(* vrserver: the types of the whole driver, where a diverted report goes,  *)
(* when its store is safe, and what Cleanup leaves of SteamVR's tables.    *)
(***************************************************************************)
EXTENDS DriverIpc_proofs

InDetour == {"entered", "storing", "forward"}

\* Thread t is between the test for a hook of h and its registration.
Installs(t, h) == call[t].host = h /\ call[t].at \in Hook!InstallSteps

\* One thread at a time installs a hook that is not lost, and nobody has registered
\* it meanwhile: the entry is SteamVR's own until it is diverted, and from the first
\* step on originalFunc is.
SoleInstaller(h) ==
  /\ \A t, u \in Threads : Installs(t, h) /\ Installs(u, h) => t = u
  /\ \A t \in Threads : Installs(t, h) =>
       /\ h \notin registry
       /\ call[t].at \in {"hooking", "saved"} => vtable[h] = "own"
       /\ call[t].at # "hooking" => orig[h] = "own"
       /\ call[t].at = "hooked" /\ vtable[h] = "detour" => h \in enabled

\* A hook is known while its entry is diverted: DestroyAll would find it, or its
\* installation is going on.
Known(h) ==
  h \in registry \cap enabled
    \/ \E t \in Threads : Installs(t, h) /\ call[t].at \in {"diverted", "hooked"}

\* A hook that is enabled remembers SteamVR's own function, a diverted entry is known.
TableInv ==
  \A h \in Hook!Hooks \ lost :
    /\ SoleInstaller(h)
    /\ h \in enabled => orig[h] = "own"
    /\ vtable[h] = "detour" => Known(h)

\* A vrserver that has not started the driver has nothing diverted.
OffInv ==
  main = "off" =>
    /\ registry = {} /\ \A h \in Hook!Hooks : vtable[h] = "own"
    /\ \A t \in Threads : call[t] = Hook!Away

\* Threads are busy with host interfaces; the driver context's hook is installed by
\* the main thread.
HostInv == \A t \in Threads : call[t].at # "idle" => call[t].host # Hook!Context

HookInv == Hook!TypeOK /\ TableInv /\ OffInv /\ HostInv /\ ForwardsHome

\* What is written back to an entry was saved from it.
SavedInv ==
  /\ \A h \in enabled : orig[h] # "none"
  /\ \A t \in Threads : call[t].at \in {"saved", "diverted", "hooked"} =>
       orig[call[t].host] # "none"

\* The ring's pointer leads nowhere at two points of the main thread only.
RingInv ==
  /\ main \in {"off", "hooked", "ran", "mapped", "up", "down"} \cup Cleaning
  /\ ring = "invalid" => main = "mapped"
  /\ ring = "unmapped" => main = "clear"

\* Before Create there is no ring and no report that has taken one for granted.
StoreInv ==
  /\ main \in {"off", "hooked", "ran"} =>
       ring = "none" /\ \A t \in Threads : call[t].at \notin {"storing", "faulted"}
  /\ ring = "mapped" => \A t \in Threads : call[t].at # "faulted"

LifeInv == HookInv /\ SavedInv /\ RingInv /\ StoreInv

-----------------------------------------------------------------------------
(* The hooks' invariant, where they do not change *)

LEMMA LifeInvInit == Init => LifeInv
BY DEF Init, Hook!Init, LifeInv, HookInv, SavedInv, RingInv, StoreInv, TableInv, SoleInstaller, Known,
   Installs, OffInv, HostInv, ForwardsHome, Hook!ForwardsHome, Hook!TypeOK, Hook!Away,
   Hook!At, Hook!Hooks, Hook!InstallSteps

\* Nothing of the hooks changes, and the main thread does not return to "off".
LEMMA HooksSame ==
  ASSUME HookInv, UNCHANGED <<Hook!hookVars, call>>, main' = "off" => main = "off",
         ring' \in {"none", "mapped", "invalid", "unmapped"}
  PROVE  HookInv'
<1> USE DEF Hook!hookVars
<1>1. Hook!TypeOK' /\ OffInv' /\ HostInv' /\ ForwardsHome'
  BY DEF HookInv, OffInv, HostInv, Installs, ForwardsHome, Hook!ForwardsHome, Hook!TypeOK
<1>2. TableInv'
  BY DEF HookInv, TableInv, SoleInstaller, Known, Installs
<1> QED
  BY <1>1, <1>2 DEF HookInv

\* What the step of one thread leaves of the calls.
LEMMA CallOf ==
  ASSUME Hook!TypeOK, NEW t \in Threads, NEW at, NEW h \in Hook!Hooks,
         call' = [call EXCEPT ![t] = Hook!At(at, h)],
         at \in {"idle", "asked", "faulted"} \cup InDetour \cup Hook!InstallSteps
  PROVE  /\ call'[t].at = at /\ call'[t].host = h
         /\ \A u \in Threads : u # t => call'[u] = call[u]
         /\ call' \in [Threads -> [at : {"idle", "asked", "entered", "storing", "forward",
                                         "faulted"} \cup Hook!InstallSteps,
                                   host : Hook!Hooks]]
BY DEF Hook!TypeOK, Hook!At, InDetour

\* A thread that moves on in its call stays with its interface.
LEMMA Proceeds ==
  ASSUME Hook!TypeOK, NEW t \in Threads, NEW at, call' = [call EXCEPT ![t].at = at]
  PROVE  call' = [call EXCEPT ![t] = Hook!At(at, call[t].host)] /\ call[t].host \in Hook!Hooks
<1>1. [call[t] EXCEPT !.at = at] = Hook!At(at, call[t].host)
  BY DEF Hook!TypeOK, Hook!At
<1> QED
  BY <1>1 DEF Hook!TypeOK

\* A thread that installs nothing moves to another point of its call.
LEMMA CallMoves ==
  ASSUME HookInv, NEW t \in Threads, NEW at, NEW h \in Hook!Hooks,
         call' = [call EXCEPT ![t] = Hook!At(at, h)], UNCHANGED <<Hook!hookVars, ring>>,
         call[t].at \notin Hook!InstallSteps,
         at \in {"idle", "asked", "faulted"} \cup InDetour,
         at \in InDetour /\ h \notin lost => orig[h] = "own",
         at # "idle" => h # Hook!Context, main # "off", main' = main
  PROVE  HookInv'
<1>1. Hook!TypeOK
  BY DEF HookInv
<1>2. /\ call'[t].at = at /\ call'[t].host = h
      /\ \A u \in Threads : u # t => call'[u] = call[u]
  BY <1>1, CallOf
<1>3. Hook!TypeOK'
  BY <1>1, CallOf DEF Hook!TypeOK, Hook!hookVars
<1>4. at \notin Hook!InstallSteps
  BY DEF Hook!InstallSteps, InDetour
<1>5. \A u \in Threads : \A g :
        /\ Installs(u, g)' <=> Installs(u, g)
        /\ Installs(u, g) => call'[u] = call[u]
  BY <1>2, <1>4 DEF Installs
<1>6. TableInv'
  BY <1>5 DEF HookInv, TableInv, SoleInstaller, Known, Hook!hookVars
<1>7. ForwardsHome'
  BY <1>2 DEF HookInv, ForwardsHome, Hook!ForwardsHome, Hook!hookVars, InDetour
<1>8. HostInv'
  BY <1>2 DEF HookInv, HostInv
<1> QED
  BY <1>3, <1>6, <1>7, <1>8 DEF HookInv, OffInv

-----------------------------------------------------------------------------
(* One step of an installation *)

\* A request that finds the hook lost track of or another thread installing it adds
\* to what is lost; any other finds the entry as SteamVR made it.
LEMMA TestExistsInv ==
  ASSUME HookInv, NEW t \in Threads, Hook!TestExists(t), main' = main, main # "off"
  PROVE  HookInv' /\ ring' = ring
<1> DEFINE h == call[t].host
<1>1. Hook!TypeOK /\ call[t].at = "asked" /\ h \in Hook!Hooks
  BY DEF HookInv, Hook!TypeOK, Hook!TestExists
<1>2. call[t].at \notin Hook!InstallSteps
  BY <1>1 DEF Hook!InstallSteps
<1>3. CASE h \in registry
  BY <1>1, <1>2, <1>3, CallMoves
     DEF Hook!TestExists, Hook!Away, Hook!Hooks, Hook!hookVars, InDetour
<1>4. CASE h \notin registry
  <2>1. /\ call' = [call EXCEPT ![t] = Hook!At("hooking", h)]
        /\ lost' = lost \cup ({h} \cap Hook!Installing)
        /\ UNCHANGED <<vtable, orig, enabled, registry, ring>>
    BY <1>1, <1>4, Proceeds DEF Hook!TestExists
  <2>2. /\ call'[t].at = "hooking" /\ call'[t].host = h
        /\ \A u \in Threads : u # t => call'[u] = call[u]
    BY <1>1, <2>1, CallOf DEF Hook!InstallSteps
  <2>3. Hook!TypeOK'
    BY <1>1, <2>1, CallOf DEF Hook!TypeOK, Hook!InstallSteps
  <2>4. h \notin lost' => \A u \in Threads : ~Installs(u, h)
    BY <2>1 DEF Hook!Installing, Installs
  <2>5. lost \subseteq lost'
    BY <2>1
  <2>6. \A u \in Threads : u # t => \A g : Installs(u, g)' <=> Installs(u, g)
    BY <2>2 DEF Installs
  <2>7. \A g : Installs(t, g)' <=> g = h
    BY <2>2 DEF Installs, Hook!InstallSteps
  <2>8. \A g : ~Installs(t, g)
    BY <1>2 DEF Installs
  <2>9. TableInv'
    <3> SUFFICES ASSUME NEW g \in Hook!Hooks \ lost'
                 PROVE  SoleInstaller(g)' /\ (g \in enabled' => orig'[g] = "own")
                        /\ (vtable'[g] = "detour" => Known(g)')
      BY DEF TableInv
    <3>1. SoleInstaller(g) /\ (g \in enabled => orig[g] = "own")
          /\ (vtable[g] = "detour" => Known(g))
      BY <2>5 DEF HookInv, TableInv
    <3>2. CASE g = h
      <4>1. vtable[h] = "own"
        BY <1>1, <1>4, <2>4, <3>1, <3>2 DEF Known, Hook!TypeOK
      <4> QED
        BY <1>1, <1>4, <2>1, <2>2, <2>4, <2>6, <2>7, <3>1, <3>2, <4>1 DEF SoleInstaller
    <3>3. CASE g # h
      <4>1. \A u \in Threads : /\ Installs(u, g)' <=> Installs(u, g)
                               /\ Installs(u, g) => call'[u] = call[u]
        BY <2>2, <2>6, <2>7, <2>8, <3>3
      <4> QED
        BY <2>1, <3>1, <4>1 DEF SoleInstaller, Known
    <3> QED
      BY <3>2, <3>3
  <2>10. ForwardsHome'
    BY <2>1, <2>2, <2>5 DEF HookInv, ForwardsHome, Hook!ForwardsHome
  <2>11. HostInv'
    BY <1>1, <2>2 DEF HookInv, HostInv
  <2> QED
    BY <2>1, <2>3, <2>9, <2>10, <2>11 DEF HookInv, OffInv
<1> QED
  BY <1>3, <1>4

\* An installation that goes on touches its own hook only.
LEMMA OthersKept ==
  ASSUME HookInv, NEW t \in Threads, call[t].at \in Hook!InstallSteps,
         \A u \in Threads : u # t => call'[u] = call[u],
         call'[t].at \in Hook!InstallSteps => call'[t].host = call[t].host,
         lost' = lost,
         \A g \in Hook!Hooks : g # call[t].host =>
           /\ vtable'[g] = vtable[g] /\ orig'[g] = orig[g]
           /\ g \in enabled' <=> g \in enabled
           /\ g \in registry' <=> g \in registry,
         NEW g \in Hook!Hooks \ lost, g # call[t].host
  PROVE  SoleInstaller(g)' /\ (g \in enabled' => orig'[g] = "own")
           /\ (vtable'[g] = "detour" => Known(g)')
<1>1. \A u \in Threads : /\ Installs(u, g)' <=> Installs(u, g)
                         /\ Installs(u, g) => call'[u] = call[u]
  BY DEF Installs
<1> QED
  BY <1>1 DEF HookInv, TableInv, SoleInstaller, Known

\* A step of an installation that keeps its own hook's part of the invariant.
LEMMA InstallStep ==
  ASSUME HookInv, NEW t \in Threads, call[t].at \in Hook!InstallSteps,
         NEW h \in Hook!Hooks, h = call[t].host,
         NEW at \in {"idle"} \cup Hook!InstallSteps, NEW i \in Hook!Hooks,
         call' = [call EXCEPT ![t] = Hook!At(at, i)], at # "idle" => i = h,
         UNCHANGED <<lost, ring, main>>, main # "off",
         vtable' \in [Hook!Hooks -> {"own", "detour"}],
         orig' \in [Hook!Hooks -> {"none", "own", "detour"}],
         enabled' \subseteq Hook!Hooks, registry' \subseteq Hook!Hooks,
         \A g \in Hook!Hooks : g # h =>
           /\ vtable'[g] = vtable[g] /\ orig'[g] = orig[g]
           /\ g \in enabled' <=> g \in enabled
           /\ g \in registry' <=> g \in registry,
         h \notin lost =>
           /\ SoleInstaller(h)' /\ orig'[h] = "own"
           /\ vtable'[h] = "detour" => Known(h)'
  PROVE  HookInv' /\ ring' = ring
<1>1. Hook!TypeOK
  BY DEF HookInv
<1>2. /\ call'[t].at = at /\ call'[t].host = i
      /\ \A u \in Threads : u # t => call'[u] = call[u]
  BY <1>1, CallOf
<1>3. Hook!TypeOK'
  BY <1>1, CallOf DEF Hook!TypeOK
<1>4. TableInv'
  <2>1. call'[t].at \in Hook!InstallSteps => call'[t].host = call[t].host
    BY <1>2 DEF Hook!InstallSteps
  <2>2. ASSUME NEW g \in Hook!Hooks \ lost, g # h
        PROVE  SoleInstaller(g)' /\ (g \in enabled' => orig'[g] = "own")
                 /\ (vtable'[g] = "detour" => Known(g)')
    BY <1>2, <2>1, <2>2, OthersKept
  <2> QED
    BY <2>2 DEF TableInv
<1>5. ForwardsHome'
  <2>1. at \notin InDetour
    BY DEF InDetour, Hook!InstallSteps
  <2>2. \A g \in Hook!Hooks \ lost : orig[g] = "own" => orig'[g] = "own"
    OBVIOUS
  <2> QED
    BY <1>1, <1>2, <2>1, <2>2 DEF HookInv, ForwardsHome, Hook!ForwardsHome, InDetour, Hook!TypeOK
<1>6. HostInv'
  BY <1>2 DEF HookInv, HostInv, Hook!InstallSteps
<1> QED
  BY <1>3, <1>4, <1>5, <1>6 DEF HookInv, OffInv

LEMMA InstallHookInv ==
  ASSUME HookInv, NEW t \in Threads, Hook!InstallHook(t), main' = main, main # "off"
  PROVE  HookInv' /\ ring' = ring
<1> SUFFICES ASSUME NEW h \in Hook!Hooks, h = call[t].host
             PROVE  HookInv' /\ ring' = ring
  BY DEF HookInv, Hook!TypeOK
<1>1. Hook!TypeOK /\ Hook!Context \in Hook!Hooks
  BY DEF HookInv, Hook!Hooks
<1>2. /\ vtable \in [Hook!Hooks -> {"own", "detour"}]
      /\ orig \in [Hook!Hooks -> {"none", "own", "detour"}]
      /\ enabled \subseteq Hook!Hooks /\ registry \subseteq Hook!Hooks
  BY <1>1 DEF Hook!TypeOK
<1>3. call[t].at \in Hook!InstallSteps
  BY DEF Hook!InstallHook, Hook!SaveOriginal, Hook!Divert, Hook!Enable, Hook!Register,
     Hook!InstallSteps
<1>4. Installs(t, h)
  BY <1>3 DEF Installs
<1>5. h \notin lost =>
        /\ \A u \in Threads : Installs(u, h) => u = t
        /\ h \notin registry
        /\ call[t].at \in {"hooking", "saved"} => vtable[h] = "own"
        /\ call[t].at # "hooking" => orig[h] = "own"
        /\ call[t].at = "hooked" /\ vtable[h] = "detour" => h \in enabled
        /\ h \in enabled => orig[h] = "own"
        /\ vtable[h] = "detour" => Known(h)
  BY <1>1, <1>4 DEF HookInv, TableInv, SoleInstaller
<1>6. ASSUME NEW at \in Hook!InstallSteps, call' = [call EXCEPT ![t] = Hook!At(at, h)]
      PROVE  /\ call'[t].at = at /\ Installs(t, h)'
             /\ \A u \in Threads : u # t => (Installs(u, h)' <=> Installs(u, h))
  BY <1>1, <1>6, CallOf DEF Installs
<1>7. CASE Hook!SaveOriginal(t)
  <2>1. /\ call' = [call EXCEPT ![t] = Hook!At("saved", h)] /\ "saved" \in Hook!InstallSteps
        /\ orig' = [orig EXCEPT ![h] = vtable[h]] /\ call[t].at = "hooking"
        /\ UNCHANGED <<vtable, enabled, registry, lost, ring>>
    BY <1>1, <1>7, Proceeds DEF Hook!SaveOriginal, Hook!InstallSteps
  <2>2. h \notin lost => SoleInstaller(h)' /\ orig'[h] = "own" /\ vtable'[h] = "own"
    BY <1>2, <1>5, <1>6, <2>1 DEF SoleInstaller
  <2> QED
    BY <1>1, <1>2, <1>3, <2>1, <2>2, InstallStep
<1>8. CASE Hook!Divert(t) /\ vtable' # vtable
  <2>1. /\ call' = [call EXCEPT ![t] = Hook!At("diverted", h)] /\ "diverted" \in Hook!InstallSteps
        /\ vtable' = [vtable EXCEPT ![h] = "detour"] /\ call[t].at = "saved"
        /\ UNCHANGED <<orig, enabled, registry, lost, ring>>
    BY <1>1, <1>8, Proceeds DEF Hook!Divert, Hook!InstallSteps
  <2>2. h \notin lost => SoleInstaller(h)' /\ orig'[h] = "own" /\ Known(h)'
    BY <1>2, <1>5, <1>6, <2>1 DEF SoleInstaller, Known
  <2> QED
    BY <1>1, <1>2, <1>3, <2>1, <2>2, InstallStep
<1>9. CASE Hook!Divert(t) /\ vtable' = vtable /\ vtable[h] # "detour"
  <2>1. /\ call' = [call EXCEPT ![t] = Hook!At("hooked", h)] /\ "hooked" \in Hook!InstallSteps
        /\ call[t].at = "saved"
        /\ UNCHANGED <<vtable, orig, enabled, registry, lost, ring>>
    BY <1>1, <1>2, <1>9, Proceeds DEF Hook!Divert, Hook!InstallSteps
  <2>2. h \notin lost => SoleInstaller(h)' /\ orig'[h] = "own" /\ vtable'[h] # "detour"
    BY <1>2, <1>5, <1>6, <1>9, <2>1 DEF SoleInstaller
  <2> QED
    BY <1>1, <1>2, <1>3, <2>1, <2>2, InstallStep
<1>10. CASE Hook!Divert(t) /\ vtable' = vtable /\ vtable[h] = "detour"
  <2>1. PICK at \in {"diverted", "hooked"} :
          /\ call' = [call EXCEPT ![t] = Hook!At(at, h)] /\ at \in Hook!InstallSteps
          /\ call[t].at = "saved"
          /\ UNCHANGED <<vtable, orig, enabled, registry, lost, ring>>
    BY <1>1, <1>10, Proceeds DEF Hook!Divert, Hook!InstallSteps
  <2>2. h \in lost
    BY <1>5, <1>10, <2>1
  <2> QED
    BY <1>1, <1>2, <1>3, <2>1, <2>2, InstallStep
<1>11. CASE Hook!Enable(t)
  <2>1. /\ call' = [call EXCEPT ![t] = Hook!At("hooked", h)] /\ "hooked" \in Hook!InstallSteps
        /\ enabled' = enabled \cup {h} /\ call[t].at = "diverted"
        /\ UNCHANGED <<vtable, orig, registry, lost, ring>>
    BY <1>1, <1>11, Proceeds DEF Hook!Enable, Hook!InstallSteps
  <2>2. h \notin lost => SoleInstaller(h)' /\ orig'[h] = "own" /\ Known(h)'
    BY <1>2, <1>5, <1>6, <2>1 DEF SoleInstaller, Known
  <2> QED
    BY <1>1, <1>2, <1>3, <2>1, <2>2, InstallStep
<1>12. CASE Hook!Register(t)
  <2>1. /\ call' = [call EXCEPT ![t] = Hook!At("idle", Hook!Context)]
        /\ registry' = registry \cup {h} /\ call[t].at = "hooked"
        /\ UNCHANGED <<vtable, orig, enabled, lost, ring>>
    BY <1>12 DEF Hook!Register, Hook!Away
  <2>2. /\ call'[t].at = "idle"
        /\ \A u \in Threads : u # t => call'[u] = call[u]
    BY <1>1, <2>1, CallOf
  <2>3. h \notin lost => \A u \in Threads : ~Installs(u, h)'
    BY <1>5, <2>2 DEF Installs, Hook!InstallSteps
  <2>4. h \notin lost => SoleInstaller(h)'
    BY <2>3 DEF SoleInstaller
  <2>5. h \notin lost => orig'[h] = "own" /\ (vtable'[h] = "detour" => Known(h)')
    BY <1>5, <2>1 DEF Known
  <2> QED
    BY <1>1, <1>2, <1>3, <2>1, <2>4, <2>5, InstallStep
<1> QED
  BY <1>7, <1>8, <1>9, <1>10, <1>11, <1>12 DEF Hook!InstallHook, Hook!Divert

-----------------------------------------------------------------------------
(* A thread of vrserver *)

LEMMA PoseThreadInv ==
  ASSUME HookInv, NEW t \in Threads, Hook!Thread(t), main' = main
  PROVE  HookInv' /\ ring' = ring
<1>1. Hook!TypeOK /\ TableInv /\ ForwardsHome /\ HostInv
  BY DEF HookInv
<1>2. Hook!Context \in Hook!Hooks /\ Hosts \subseteq Hook!Hooks /\ Hook!Context \notin Hosts
  BY HostsAssumption DEF Hook!Hooks
<1>3. main # "off"
  BY <1>2 DEF HookInv, OffInv, Hook!Thread, Hook!GetGenericInterface, Hook!Report,
     Hook!TestExists, Hook!InstallHook, Hook!SaveOriginal, Hook!Divert, Hook!Enable,
     Hook!Register, Hook!TestRing, Hook!StoreSample, Hook!CallOriginal, Hook!Proceed,
     Hook!Away, Hook!At
<1>4. call[t].host \in Hook!Hooks
  BY <1>1 DEF Hook!TypeOK
<1>5. ASSUME NEW h \in Hosts, Hook!GetGenericInterface(t, h) PROVE HookInv' /\ ring' = ring
  <2>1. call[t].at \notin Hook!InstallSteps
    BY <1>5 DEF Hook!GetGenericInterface, Hook!InstallSteps, Hook!Away, Hook!At
  <2> QED
    BY <1>2, <1>3, <1>5, <2>1, CallMoves DEF Hook!GetGenericInterface, InDetour
<1>6. ASSUME NEW h \in Hosts, Hook!Report(t, h) PROVE HookInv' /\ ring' = ring
  <2>1. h \notin lost => orig[h] = "own"
    BY <1>1, <1>2, <1>6 DEF Hook!Report, TableInv, SoleInstaller, Known
  <2>2. call[t].at \notin Hook!InstallSteps
    BY <1>6 DEF Hook!Report, Hook!InstallSteps, Hook!Away, Hook!At
  <2> QED
    BY <1>2, <1>3, <1>6, <2>1, <2>2, CallMoves DEF Hook!Report, InDetour
<1>7. ASSUME NEW from \in InDetour, NEW to \in InDetour \cup {"faulted"}, Hook!Proceed(t, from, to)
      PROVE  HookInv' /\ ring' = ring
  <2>1. call[t].host \notin lost => orig[call[t].host] = "own"
    BY <1>1, <1>7 DEF ForwardsHome, Hook!ForwardsHome, Hook!Proceed, InDetour
  <2>2. call' = [call EXCEPT ![t] = Hook!At(to, call[t].host)]
    BY <1>1, <1>7, Proceeds DEF Hook!Proceed
  <2>3. call[t].at \notin Hook!InstallSteps \cup {"idle"} /\ call[t].host # Hook!Context
    BY <1>1, <1>7 DEF Hook!Proceed, Hook!InstallSteps, InDetour, HostInv
  <2> QED
    BY <1>3, <1>4, <1>7, <2>1, <2>2, <2>3, CallMoves DEF Hook!Proceed, InDetour
<1>8. CASE Hook!CallOriginal(t)
  <2>1. call[t].host \notin lost => orig[call[t].host] = "own"
    BY <1>1, <1>8 DEF ForwardsHome, Hook!ForwardsHome, Hook!CallOriginal
  <2>2. call[t].at \notin Hook!InstallSteps /\ call[t].host # Hook!Context
    BY <1>1, <1>8 DEF Hook!CallOriginal, Hook!InstallSteps, HostInv
  <2>3. CASE orig[call[t].host] = "own"
    BY <1>2, <1>3, <1>8, <2>2, <2>3, CallMoves DEF Hook!CallOriginal, Hook!Away, InDetour
  <2>4. CASE orig[call[t].host] # "own"
    BY <1>3, <1>4, <1>8, <2>1, <2>2, <2>4, CallMoves DEF Hook!CallOriginal, InDetour
  <2> QED
    BY <2>3, <2>4
<1> QED
  BY <1>3, <1>5, <1>6, <1>7, <1>8, TestExistsInv, InstallHookInv
     DEF Hook!Thread, Hook!TestRing, Hook!StoreSample, InDetour

\* A thread goes for the store only when it saw a ring, and faults only when the ring
\* is not mapped any more.
LEMMA PoseThreadStores ==
  ASSUME Hook!TypeOK, StoreInv, NEW t \in Threads, Hook!Thread(t), main' = main, ring' = ring
  PROVE  StoreInv'
<1>1. PICK c : /\ call' = [call EXCEPT ![t] = c]
               /\ c.at = "storing" => ring # "none"
               /\ c.at = "faulted" => call[t].at = "storing" /\ ring # "mapped"
  <2>1. ASSUME NEW at, call' = [call EXCEPT ![t].at = at], at \notin {"storing", "faulted"}
        PROVE  \E c : call' = [call EXCEPT ![t] = c] /\ c.at \notin {"storing", "faulted"}
    <3>1. Hook!At(at, call[t].host).at = at
      BY DEF Hook!At
    <3> QED
      BY <2>1, <3>1, Proceeds
  <2>2. ASSUME NEW at, NEW h, call' = [call EXCEPT ![t] = Hook!At(at, h)],
               at \notin {"storing", "faulted"}
        PROVE  \E c : call' = [call EXCEPT ![t] = c] /\ c.at \notin {"storing", "faulted"}
    <3>1. Hook!At(at, h).at = at
      BY DEF Hook!At
    <3> QED
      BY <2>2, <3>1
  <2>3. CASE \E h \in Hosts : Hook!GetGenericInterface(t, h) \/ Hook!Report(t, h)
    BY <2>2, <2>3 DEF Hook!GetGenericInterface, Hook!Report
  <2>4. CASE Hook!TestExists(t) \/ Hook!InstallHook(t)
    BY <2>1, <2>2, <2>4
       DEF Hook!TestExists, Hook!InstallHook, Hook!SaveOriginal, Hook!Divert, Hook!Enable,
           Hook!Register, Hook!Away
  <2>5. CASE Hook!CallOriginal(t)
    <3>1. \/ call' = [call EXCEPT ![t] = Hook!At("idle", Hook!Context)]
          \/ call' = [call EXCEPT ![t] = Hook!At("entered", call[t].host)]
      BY <2>5 DEF Hook!CallOriginal, Hook!Away
    <3> QED
      BY <2>2, <3>1
  <2>6. CASE Hook!TestRing(t) \/ Hook!StoreSample(t)
    <3>1. PICK at : /\ call' = [call EXCEPT ![t] = Hook!At(at, call[t].host)]
                    /\ at = "storing" => ring # "none"
                    /\ at = "faulted" => call[t].at = "storing" /\ ring # "mapped"
      BY <2>6, Proceeds DEF Hook!TestRing, Hook!StoreSample, Hook!Proceed
    <3>2. Hook!At(at, call[t].host).at = at
      BY DEF Hook!At
    <3> QED
      BY <3>1, <3>2
  <2> QED
    BY <2>3, <2>4, <2>5, <2>6 DEF Hook!Thread
<1> QED
  BY <1>1 DEF StoreInv, Hook!TypeOK

LEMMA PoseThreadSaved ==
  ASSUME Hook!TypeOK, SavedInv, NEW t \in Threads, Hook!Thread(t)
  PROVE  SavedInv'
<1> USE DEF SavedInv, Hook!TypeOK
<1>1. CASE Hook!SaveOriginal(t)
  BY <1>1 DEF Hook!SaveOriginal
<1>2. CASE Hook!Divert(t) \/ Hook!Enable(t)
  BY <1>2 DEF Hook!Divert, Hook!Enable
<1>3. CASE \E h \in Hosts : Hook!GetGenericInterface(t, h) \/ Hook!Report(t, h)
  BY <1>3 DEF Hook!GetGenericInterface, Hook!Report, Hook!hookVars, Hook!At
<1>4. CASE Hook!TestExists(t) \/ Hook!Register(t)
  BY <1>4 DEF Hook!TestExists, Hook!Register, Hook!Away, Hook!At
<1>5. CASE Hook!TestRing(t) \/ Hook!StoreSample(t)
  BY <1>5 DEF Hook!TestRing, Hook!StoreSample, Hook!Proceed, Hook!hookVars
<1>6. CASE Hook!CallOriginal(t)
  BY <1>6 DEF Hook!CallOriginal, Hook!hookVars, Hook!Away, Hook!At
<1> QED
  BY <1>1, <1>2, <1>3, <1>4, <1>5, <1>6 DEF Hook!Thread, Hook!InstallHook

-----------------------------------------------------------------------------
(* The main thread, and the driver as a whole *)

\* DestroyAll's loop gives a hook it finds its own function back; what it cannot give
\* back, and what is being installed meanwhile, is lost.
LEMMA DestroyHooksInv ==
  ASSUME HookInv, SavedInv, Hook!DestroyHooks, main # "off", main' # "off"
  PROVE  HookInv' /\ UNCHANGED <<ring, call>>
<1>1. PICK stuck \in SUBSET (registry \cap enabled) :
        /\ vtable' = [h \in Hook!Hooks |->
                        IF h \in (registry \cap enabled) \ stuck THEN orig[h] ELSE vtable[h]]
        /\ lost' = lost \cup stuck \cup Hook!Installing
  BY DEF Hook!DestroyHooks
<1>2. enabled' = enabled \ registry /\ UNCHANGED <<orig, registry, ring, call>>
  BY DEF Hook!DestroyHooks
<1>3. Hook!TypeOK
  BY DEF HookInv
<1>4. \A h \in Hook!Hooks \ lost' :
        /\ h \notin lost /\ h \notin stuck /\ \A t \in Threads : ~Installs(t, h)
  BY <1>1 DEF Hook!Installing, Installs
<1>5. ASSUME NEW h \in Hook!Hooks \ lost'
      PROVE  SoleInstaller(h)' /\ (h \in enabled' => orig'[h] = "own") /\ vtable'[h] = "own"
  <2>1. SoleInstaller(h)'
    BY <1>2, <1>4 DEF SoleInstaller, Installs
  <2>2. /\ h \in enabled => orig[h] = "own"
        /\ vtable[h] = "detour" => h \in registry \cap enabled
    BY <1>4 DEF HookInv, TableInv, Known
  <2> QED
    BY <1>1, <1>2, <1>3, <1>4, <2>1, <2>2 DEF Hook!TypeOK
<1>6. TableInv'
  BY <1>5 DEF TableInv
<1>7. Hook!TypeOK'
  <2>1. lost' \subseteq Hook!Hooks
    BY <1>1, <1>3 DEF Hook!TypeOK, Hook!Installing
  <2>2. vtable' \in [Hook!Hooks -> {"own", "detour"}]
    <3> SUFFICES ASSUME NEW h \in registry \cap enabled, h \notin stuck
                 PROVE  orig[h] \in {"own", "detour"}
      BY <1>1, <1>3 DEF Hook!TypeOK
    <3> QED
      BY <1>3 DEF SavedInv, Hook!TypeOK
  <2> QED
    BY <1>2, <1>3, <2>1, <2>2 DEF Hook!TypeOK
<1>8. ForwardsHome'
  <2>1. lost \subseteq lost'
    BY <1>1
  <2> QED
    BY <1>2, <2>1 DEF HookInv, ForwardsHome, Hook!ForwardsHome
<1> QED
  BY <1>2, <1>6, <1>7, <1>8 DEF HookInv, OffInv, HostInv

\* After clear() what is diverted is lost.
LEMMA ClearRegistryInv ==
  ASSUME HookInv, Hook!ClearRegistry, main # "off", main' # "off"
  PROVE  /\ HookInv' /\ UNCHANGED <<ring, call>>
         /\ \A h \in Hook!Hooks \ lost' : vtable'[h] = "own"
<1> USE DEF Hook!ClearRegistry
<1>1. Hook!TypeOK
  BY DEF HookInv
<1>2. \A h \in Hook!Hooks \ lost' :
        h \notin lost /\ h \notin registry \cap enabled /\ \A t \in Threads : ~Installs(t, h)
  BY DEF Hook!Installing, Installs
<1>3. ASSUME NEW h \in Hook!Hooks \ lost'
      PROVE  SoleInstaller(h)' /\ (h \in enabled' => orig'[h] = "own") /\ vtable'[h] = "own"
  <2>1. SoleInstaller(h)'
    BY <1>2 DEF SoleInstaller, Installs
  <2> QED
    BY <1>1, <1>2, <2>1 DEF HookInv, TableInv, Known, Hook!TypeOK
<1>4. TableInv'
  BY <1>3 DEF TableInv
<1>5. Hook!TypeOK'
  BY <1>1 DEF Hook!TypeOK, Hook!Installing
<1>6. ForwardsHome' /\ HostInv'
  BY DEF HookInv, ForwardsHome, Hook!ForwardsHome, HostInv
<1> QED
  BY <1>3, <1>4, <1>5, <1>6 DEF HookInv, OffInv

\* The driver's Init finds an untouched table.
LEMMA InjectHooksInv ==
  ASSUME HookInv, Hook!InjectHooks, main = "off", main' # "off"
  PROVE  HookInv' /\ UNCHANGED <<ring, call>>
<1> USE DEF Hook!InjectHooks
<1>1. Hook!TypeOK /\ Hook!Context \in Hook!Hooks
  BY DEF HookInv, Hook!Hooks
<1>2. /\ registry = {} /\ \A h \in Hook!Hooks : vtable[h] = "own"
      /\ \A t \in Threads : call[t].at = "idle"
  BY DEF HookInv, OffInv, Hook!Away, Hook!At
<1>3. Hook!TypeOK'
  BY <1>1 DEF Hook!TypeOK
<1>4. \A t \in Threads : \A h : ~Installs(t, h)'
  BY <1>2 DEF Installs, Hook!InstallSteps
<1>5. ASSUME NEW h \in Hook!Hooks \ lost'
      PROVE  /\ SoleInstaller(h)' /\ (h \in enabled' => orig'[h] = "own")
             /\ vtable'[h] = "detour" => Known(h)'
  <2>1. SoleInstaller(h)'
    BY <1>4 DEF SoleInstaller
  <2>2. h \in enabled => orig[h] = "own"
    BY DEF HookInv, TableInv
  <2>3. h \in enabled' => orig'[h] = "own"
    BY <1>1, <1>2, <2>2 DEF Hook!TypeOK
  <2>4. vtable'[h] = "detour" => h \in registry' \cap enabled'
    BY <1>1, <1>2 DEF Hook!TypeOK
  <2> QED
    BY <2>1, <2>3, <2>4 DEF Known
<1>6. TableInv'
  BY <1>5 DEF TableInv
<1>7. ForwardsHome' /\ HostInv'
  BY <1>2 DEF HookInv, ForwardsHome, Hook!ForwardsHome, HostInv
<1> QED
  BY <1>3, <1>6, <1>7 DEF HookInv, OffInv

LEMMA MainThreadInv == LifeInv /\ (DriverInit \/ Cleanup \/ SteamVR) => LifeInv'
<1> SUFFICES ASSUME LifeInv, DriverInit \/ Cleanup \/ SteamVR PROVE LifeInv'
  OBVIOUS
<1> USE DEF LifeInv, RingInv, Cleaning
<1>1. HookInv /\ Hook!TypeOK
  BY DEF HookInv
<1>2. ring \in {"none", "mapped", "invalid", "unmapped"}
  BY <1>1 DEF Hook!TypeOK
<1>3. CASE /\ UNCHANGED hookVars
           /\ main \in {"hooked", "up", "stopping", "closing", "joining"}
           /\ main' \in {"ran", "stopping", "closing", "joining", "unmap"}
           /\ main' = "ran" => main = "hooked"
  BY <1>1, <1>2, <1>3, HooksSame DEF hookVars, Hook!hookVars, StoreInv, SavedInv
<1>4. CASE HookStep("ran", Hook!MapRing, "mapped")
  BY <1>1, <1>4, HooksSame DEF HookStep, Hook!MapRing, Hook!hookVars, StoreInv, SavedInv
<1>5. CASE HookStep("mapped", Hook!EndMap, "up")
  BY <1>1, <1>2, <1>5, HooksSame DEF HookStep, Hook!EndMap, Hook!hookVars, StoreInv, SavedInv
<1>6. CASE HookStep("unmap", Hook!Unmap, "clear")
  BY <1>1, <1>2, <1>6, HooksSame DEF HookStep, Hook!Unmap, Hook!hookVars, StoreInv, SavedInv
<1>7. CASE HookStep("clear", Hook!ClearPointer, "unhook")
  BY <1>1, <1>7, HooksSame DEF HookStep, Hook!ClearPointer, Hook!hookVars, StoreInv, SavedInv
<1>8. CASE HookStep("unhook", Hook!DestroyHooks, "forget")
  <2>1. HookInv' /\ UNCHANGED <<ring, call>>
    BY <1>1, <1>8, DestroyHooksInv DEF HookStep
  <2>2. enabled' \subseteq enabled /\ orig' = orig
    BY <1>8 DEF HookStep, Hook!DestroyHooks
  <2> QED
    BY <1>8, <2>1, <2>2 DEF HookStep, StoreInv, SavedInv
<1>9. CASE HookStep("forget", Hook!ClearRegistry, "down")
  <2>1. HookInv' /\ UNCHANGED <<ring, call>>
    BY <1>1, <1>9, ClearRegistryInv DEF HookStep
  <2> QED
    BY <1>9, <2>1 DEF HookStep, StoreInv, SavedInv, Hook!ClearRegistry
<1>10. CASE HookStep("off", Hook!InjectHooks, "hooked")
  <2>1. HookInv' /\ UNCHANGED <<ring, call>>
    BY <1>1, <1>10, InjectHooksInv DEF HookStep
  <2>2. /\ enabled' \subseteq enabled \cup {Hook!Context} /\ UNCHANGED call
        /\ Hook!Context \in Hook!Hooks /\ vtable[Hook!Context] # "none"
        /\ orig' = [orig EXCEPT ![Hook!Context] = vtable[Hook!Context]]
    BY <1>1, <1>10 DEF HookStep, Hook!InjectHooks, Hook!Hooks, Hook!TypeOK
  <2>3. SavedInv'
    BY <1>1, <2>2 DEF SavedInv, Hook!TypeOK
  <2> QED
    BY <1>10, <2>1, <2>3 DEF HookStep, StoreInv
<1> QED
  BY <1>3, <1>4, <1>5, <1>6, <1>7, <1>8, <1>9, <1>10 DEF DriverInit, Cleanup, SteamVR, IpcStep

LEMMA GoneInv == LifeInv /\ ServerGone => LifeInv'
BY DEF ServerGone, Hook!ServerGone, LifeInv, HookInv, SavedInv, RingInv, StoreInv, TableInv,
   SoleInstaller, Known, Installs, OffInv, HostInv, ForwardsHome, Hook!ForwardsHome,
   Hook!TypeOK, Hook!Away, Hook!At, Hook!Hooks, Hook!InstallSteps

LEMMA LifeInvNext == LifeInv /\ [Next]_vars => LifeInv'
<1> SUFFICES ASSUME LifeInv, [Next]_vars PROVE LifeInv'
  OBVIOUS
<1>1. CASE PoseThreads
  <2>1. PICK t \in Threads : Hook!Thread(t) /\ main' = main
    BY <1>1 DEF PoseThreads
  <2>2. HookInv' /\ ring' = ring
    BY <2>1, PoseThreadInv DEF LifeInv
  <2>3. Hook!TypeOK
    BY DEF LifeInv, HookInv
  <2>4. StoreInv' /\ SavedInv'
    BY <2>1, <2>2, <2>3, PoseThreadStores, PoseThreadSaved DEF LifeInv
  <2> QED
    BY <2>1, <2>2, <2>4 DEF LifeInv, RingInv
<1>2. CASE UNCHANGED <<main, hookVars>>
  <2>1. HookInv'
    BY <1>2, HooksSame DEF LifeInv, HookInv, hookVars, Hook!hookVars, Hook!TypeOK
  <2> QED
    BY <1>2, <2>1 DEF LifeInv, RingInv, StoreInv, SavedInv, hookVars
<1> QED
  BY <1>1, <1>2, MainThreadInv, GoneInv DEF Next, IpcThread, Overlays, vars

\* The hooks' invariant holds through every run of the driver, whoever installs
\* hooks while others do or while they are removed.
THEOREM LifeInvariant == Spec => []LifeInv
BY LifeInvInit, LifeInvNext, PTL DEF Spec

-----------------------------------------------------------------------------
(* What the runs check *)

\* Every variable of the driver keeps its type, and pData points nowhere only while
\* a failed mapping is undone and between munmap and the assignment in Close.
THEOREM TypeCorrect == Spec => []TypeOK
<1>1. LifeInv /\ IpcInv => TypeOK
  BY DEF LifeInv, HookInv, RingInv, IpcInv, ConnInv, TypeOK
<1> QED
  BY <1>1, LifeInvariant, IpcInvariant, PTL

\* Every pose report a detour took reaches SteamVR's own function, for any number of
\* threads between the steps of Exists, CreateHook and Register, but on the hooks the
\* code has lost track of, with no lock between two installations.
THEOREM ReportsForwarded == Spec => []ForwardsHome
BY LifeInvariant, PTL DEF LifeInv, HookInv

\* SetPose, and the main thread's Create and Close: a store that faults comes after
\* Close has begun or Create has failed, however long before a report tested pData.
THEOREM StoresSafe == Spec => []StoresLand
<1>1. LifeInv => StoresLand
  BY DEF LifeInv, StoreInv, StoresLand
<1> QED
  BY <1>1, LifeInvariant, PTL

\* Cleanup leaves every entry of SteamVR's tables with SteamVR's own function:
\* DisableHooks finds every hook that no installation overlapped and no page kept.
THEOREM TablesRestored == Spec => Restored
<1>1. LifeInv /\ [Next]_vars =>
        [main = "forget" /\ main' = "down" => \A h \in Hook!Hooks \ lost' : vtable'[h] = "own"]_vars
  <2> SUFFICES ASSUME LifeInv, Next, main = "forget", main' = "down"
               PROVE  \A h \in Hook!Hooks \ lost' : vtable'[h] = "own"
    OBVIOUS
  <2>1. Hook!ClearRegistry
    BY DEF Next, DriverInit, Cleanup, SteamVR, ServerGone, IpcThread, Overlays, PoseThreads,
       IpcStep, HookStep
  <2> QED
    BY <2>1, ClearRegistryInv DEF LifeInv
<1> QED
  BY <1>1, LifeInvariant, PTL DEF Spec, Restored
=============================================================================
