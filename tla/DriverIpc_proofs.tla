-------------------------- MODULE DriverIpc_proofs --------------------------
(***************************************************************************)
(* The driver's sockets, for any number of overlays that connect, call and *)
(* die at any step, from Init through Cleanup and over any number of       *)
(* vrserver's restarts: no event outlives its connection, nothing is       *)
(* served after Stop, and what the overlays see is the remote call of Rpc. *)
(***************************************************************************)
EXTENDS DriverLifecycle, TLAPS

Serving == {"epoll", "poll", "batch", "exit"}

\* One connection, between its process and the server.
WireInv(c) ==
  /\ inst[c] = "none" => ~req[c]
  /\ req[c] => client[c] \in {"waiting", "off"}
  /\ rsp[c] => client[c] = "waiting" /\ ~req[c] /\ inst[c] # "writing"
  /\ client[c] = "lost" => inst[c] = "none"
  /\ inst[c] = "writing" => client[c] \in {"waiting", "off"} /\ ~req[c]
  /\ batch[c] = "hup" => client[c] = "off"

\* The connections that wait to be accepted are waiting, each once.
BacklogInv ==
  /\ accepting => backlog # <<>>
  /\ \A i \in 1 .. Len(backlog) : inst[backlog[i]] = "queued"
  /\ \A i, j \in 1 .. Len(backlog) : backlog[i] = backlog[j] => i = j

ConnInv ==
  /\ Ipc!TypeOK
  /\ EventsAlive
  /\ \A c \in Conns : WireInv(c)
  /\ BacklogInv
  /\ thread \notin Serving => \A c \in Conns : inst[c] = "none"

\* The thread and the main thread that starts and joins it.
JoinInv ==
  /\ main \in {"off", "hooked"} => thread = "none"
  /\ main \in {"ran", "mapped", "up", "stopping", "closing", "joining"} => joinable
  /\ main \in {"unmap", "clear", "unhook", "forget", "down"} /\ ~joinable => thread = "ended"

IpcInv == ConnInv /\ JoinInv

-----------------------------------------------------------------------------
(* What a step of the sockets leaves of a connection *)

\* The invariant is about the variables of IpcChannel alone.
LEMMA ConnSame == ConnInv /\ UNCHANGED ipcVars => ConnInv'
BY DEF ConnInv, ipcVars, Ipc!TypeOK, Ipc!Registered, EventsAlive, Ipc!EventsAlive, WireInv,
   BacklogInv, Serving

LEMMA ConnInit == Ipc!Init => ConnInv
<1> SUFFICES ASSUME Ipc!Init PROVE ConnInv
  OBVIOUS
<1> USE DEF Ipc!Init, Ipc!Idle, Ipc!NoEvents
<1>1. <<>> \in Seq(Conns) /\ Len(<<>>) = 0
  OBVIOUS
<1>2. Ipc!TypeOK
  BY <1>1 DEF Ipc!TypeOK
<1>3. EventsAlive /\ \A c \in Conns : WireInv(c)
  BY DEF EventsAlive, Ipc!EventsAlive, WireInv
<1>4. BacklogInv
  BY <1>1 DEF BacklogInv
<1> QED
  BY <1>2, <1>3, <1>4 DEF ConnInv

\* The server's ends of all connections are closed at once.
LEMMA ConnClosed ==
  ASSUME ConnInv, Ipc!CloseAll, UNCHANGED <<client, rsp>>,
         thread' \in {"none", "ended"}, {running', stop', joinable', epoll'} \subseteq BOOLEAN
  PROVE  ConnInv'
<1>1. Ipc!TypeOK'
  <2>1. <<>> \in Seq(Conns)
    OBVIOUS
  <2> QED
    BY <2>1 DEF ConnInv, Ipc!CloseAll, Ipc!NoEvents, Ipc!TypeOK
<1>2. EventsAlive'
  BY DEF Ipc!CloseAll, Ipc!NoEvents, EventsAlive, Ipc!EventsAlive
<1>3. ASSUME NEW c \in Conns PROVE WireInv(c)'
  BY <1>3 DEF ConnInv, WireInv, Ipc!CloseAll, Ipc!NoEvents
<1>4. BacklogInv' /\ (\A c \in Conns : inst'[c] = "none")
  BY DEF BacklogInv, Ipc!CloseAll
<1> QED
  BY <1>1, <1>2, <1>3, <1>4 DEF ConnInv

\* Connections that do not wait in the backlog change, and none joins it.
LEMMA BacklogKept ==
  ASSUME BacklogInv, NEW c \in Conns, inst[c] # "queued", NEW s,
         inst \in [Conns -> {"none", "queued"} \cup Ipc!Registered], backlog \in Seq(Conns),
         inst' = [inst EXCEPT ![c] = s], UNCHANGED <<backlog, accepting>>
  PROVE  BacklogInv'
<1>1. \A i \in 1 .. Len(backlog) : backlog[i] \in Conns /\ backlog[i] # c
  BY DEF BacklogInv
<1> QED
  BY <1>1 DEF BacklogInv

-----------------------------------------------------------------------------
(* The overlay's end *)

LEMMA ConnectInv == ASSUME NEW c \in Conns, ConnInv, Ipc!Connect(c) PROVE ConnInv'
<1> USE DEF ConnInv, Ipc!Connect, Ipc!threadVars
<1>1. Ipc!TypeOK'
  <2>1. Append(backlog, c) \in Seq(Conns)
    BY DEF Ipc!TypeOK
  <2>2. backlog' \in Seq(Conns) /\ client' \in [Conns -> {"off", "ready", "waiting", "lost"}]
    BY <2>1 DEF Ipc!TypeOK
  <2>3. inst' \in [Conns -> {"none", "queued"} \cup Ipc!Registered]
    BY DEF Ipc!TypeOK
  <2> QED
    BY <2>2, <2>3 DEF Ipc!TypeOK
<1>2. EventsAlive'
  BY DEF EventsAlive, Ipc!EventsAlive, Ipc!TypeOK, Ipc!Registered
<1>3. ASSUME NEW d \in Conns PROVE WireInv(d)'
  <2>1. ~req[c] /\ ~rsp[c] /\ batch[c] = "none"
    BY DEF WireInv, EventsAlive, Ipc!EventsAlive, Ipc!Registered, Ipc!TypeOK
  <2>2. CASE d = c
    BY <2>1, <2>2 DEF WireInv, Ipc!TypeOK
  <2>3. CASE d # c
    BY <2>3 DEF WireInv, Ipc!TypeOK
  <2> QED
    BY <2>2, <2>3
<1>4. BacklogInv'
  <2>1. CASE Ipc!Listening
    <3>1. \A i \in 1 .. Len(backlog) : backlog[i] \in Conns /\ backlog[i] # c
      BY DEF BacklogInv, Ipc!TypeOK
    <3>2. /\ Len(backlog') = Len(backlog) + 1
          /\ backlog'[Len(backlog) + 1] = c
          /\ \A i \in 1 .. Len(backlog) : backlog'[i] = backlog[i]
          /\ Len(backlog) \in Nat
      BY <2>1 DEF Ipc!TypeOK
    <3>3. inst' = [inst EXCEPT ![c] = "queued"]
      BY <2>1
    <3>4. accepting' => backlog' # <<>>
      BY <3>2
    <3>5. \A i \in 1 .. Len(backlog') : inst'[backlog'[i]] = "queued"
      BY <3>1, <3>2, <3>3 DEF BacklogInv, Ipc!TypeOK
    <3>6. \A i, j \in 1 .. Len(backlog') : backlog'[i] = backlog'[j] => i = j
      BY <3>1, <3>2 DEF BacklogInv
    <3> QED
      BY <3>4, <3>5, <3>6 DEF BacklogInv
  <2>2. CASE ~Ipc!Listening
    BY <2>2 DEF BacklogInv
  <2> QED
    BY <2>1, <2>2
<1>5. thread \notin Serving => \A d \in Conns : inst'[d] = "none"
  BY DEF Serving, Ipc!Listening, Ipc!TypeOK
<1> QED
  BY <1>1, <1>2, <1>3, <1>4, <1>5 DEF Serving

LEMMA SendInv == ASSUME NEW c \in Conns, ConnInv, Ipc!Send(c) PROVE ConnInv'
<1> USE DEF ConnInv, Ipc!Send, Ipc!threadVars
<1>1. Ipc!TypeOK'
  BY DEF Ipc!TypeOK
<1>2. EventsAlive'
  BY DEF EventsAlive, Ipc!EventsAlive, Ipc!TypeOK, Ipc!Registered
<1>3. ASSUME NEW d \in Conns PROVE WireInv(d)'
  BY DEF WireInv, Ipc!TypeOK
<1> QED
  BY <1>1, <1>2, <1>3 DEF BacklogInv, Serving

LEMMA ReceiveInv == ASSUME NEW c \in Conns, ConnInv, Ipc!Receive(c) PROVE ConnInv'
<1> USE DEF ConnInv, Ipc!Receive, Ipc!serverVars, Ipc!threadVars
<1>1. Ipc!TypeOK'
  BY DEF Ipc!TypeOK
<1>2. ASSUME NEW d \in Conns PROVE WireInv(d)'
  BY DEF WireInv, Ipc!TypeOK
<1> QED
  BY <1>1, <1>2 DEF BacklogInv, Serving, EventsAlive, Ipc!EventsAlive, Ipc!Registered

LEMMA DieInv == ASSUME NEW c \in Conns, ConnInv, Ipc!Die(c) PROVE ConnInv'
<1> USE DEF ConnInv, Ipc!Die, Ipc!threadVars
<1>1. Ipc!TypeOK'
  BY DEF Ipc!TypeOK
<1>2. EventsAlive'
  BY DEF EventsAlive, Ipc!EventsAlive, Ipc!TypeOK, Ipc!Registered
<1>3. ASSUME NEW d \in Conns PROVE WireInv(d)'
  BY DEF WireInv, Ipc!TypeOK
<1> QED
  BY <1>1, <1>2, <1>3 DEF BacklogInv, Serving

-----------------------------------------------------------------------------
(* The server thread *)

\* A step that moves the thread only, in or out of its loop.
LEMMA ThreadMoves ==
  ASSUME ConnInv, UNCHANGED <<Ipc!clientVars, Ipc!serverVars>>,
         thread' \in {"none", "spawned", "bind", "epoll", "poll", "batch", "exit", "ended"},
         {running', stop', joinable', epoll'} \subseteq BOOLEAN,
         thread' \in Serving \/ thread \notin Serving
  PROVE  ConnInv'
BY DEF ConnInv, Ipc!clientVars, Ipc!serverVars, Ipc!TypeOK, Ipc!Registered, EventsAlive,
   Ipc!EventsAlive, WireInv, BacklogInv

LEMMA WaitInv == ConnInv /\ Ipc!Wait => ConnInv'
<1> SUFFICES ASSUME ConnInv, Ipc!Wait PROVE ConnInv'
  OBVIOUS
<1> USE DEF ConnInv, Ipc!Wait, Ipc!Harvest, Ipc!Ready, Ipc!clientVars
<1>1. Ipc!TypeOK'
  <2>1. batch' \in [Conns -> {"none", "io", "hup"}] /\ edge' \in [Conns -> BOOLEAN]
    OBVIOUS
  <2>2. accepting' \in BOOLEAN
    OBVIOUS
  <2> QED
    BY <2>1, <2>2 DEF Ipc!TypeOK
<1>2. EventsAlive'
  BY DEF EventsAlive, Ipc!EventsAlive, Ipc!Registered
<1>3. ASSUME NEW c \in Conns PROVE WireInv(c)'
  BY DEF WireInv
<1>4. BacklogInv'
  BY DEF BacklogInv
<1> QED
  BY <1>1, <1>2, <1>3, <1>4 DEF Serving

LEMMA AcceptInv == ConnInv /\ Ipc!Accept => ConnInv'
<1> SUFFICES ASSUME ConnInv, Ipc!Accept PROVE ConnInv'
  OBVIOUS
<1> DEFINE h == Head(backlog)
           n == Len(backlog)
<1> USE DEF Ipc!Accept, Ipc!Rearmed, Ipc!Ready, Ipc!clientVars, Ipc!threadVars
<1>1. /\ n \in Nat /\ n >= 1
      /\ h \in Conns /\ h = backlog[1] /\ inst[h] = "queued"
      /\ Tail(backlog) \in Seq(Conns) /\ Len(Tail(backlog)) = n - 1
      /\ \A i \in 1 .. n - 1 : Tail(backlog)[i] = backlog[i + 1]
  BY DEF ConnInv, BacklogInv, Ipc!TypeOK
<1>2. Ipc!TypeOK'
  BY <1>1 DEF ConnInv, Ipc!TypeOK, Ipc!Registered
<1>3. EventsAlive'
  BY <1>1 DEF ConnInv, EventsAlive, Ipc!EventsAlive, Ipc!TypeOK, Ipc!Registered
<1>4. ASSUME NEW c \in Conns PROVE WireInv(c)'
  BY <1>1 DEF ConnInv, WireInv, Ipc!TypeOK
<1>5. BacklogInv'
  <2>1. \A i \in 1 .. n - 1 : backlog[i + 1] # h /\ inst[backlog[i + 1]] = "queued"
                               /\ backlog[i + 1] \in Conns
    BY <1>1 DEF ConnInv, BacklogInv, Ipc!TypeOK
  <2>2. \A i \in 1 .. Len(backlog') : inst'[backlog'[i]] = "queued"
    BY <1>1, <2>1 DEF ConnInv, Ipc!TypeOK
  <2>3. \A i, j \in 1 .. Len(backlog') : backlog'[i] = backlog'[j] => i = j
    <3> SUFFICES ASSUME NEW i \in 1 .. n - 1, NEW j \in 1 .. n - 1,
                        backlog[i + 1] = backlog[j + 1]
                 PROVE  i = j
      BY <1>1
    <3>1. i + 1 \in 1 .. n /\ j + 1 \in 1 .. n
      BY <1>1
    <3>2. i + 1 = j + 1
      BY <3>1 DEF ConnInv, BacklogInv
    <3> QED
      BY <3>2
  <2> QED
    BY <2>2, <2>3 DEF BacklogInv
<1>6. thread' \in Serving
  BY DEF Serving
<1> QED
  BY <1>2, <1>3, <1>4, <1>5, <1>6 DEF ConnInv

\* What one event may do to its connection.
LEMMA HandleInv == ASSUME NEW c \in Conns, ConnInv, Ipc!Handle(c) PROVE ConnInv'
<1> USE DEF Ipc!Handle, Ipc!threadVars
<1>1. inst[c] \in Ipc!Registered /\ inst[c] \notin {"sent", "queued", "none"}
  BY DEF ConnInv, EventsAlive, Ipc!EventsAlive, Ipc!Registered, Ipc!Sending
<1>2. Ipc!TypeOK
  BY DEF ConnInv
<1>3. thread \in Serving
  BY DEF Serving
<1>4. CASE Ipc!CloseSocketInstance(c)
  <2> USE <1>4 DEF Ipc!CloseSocketInstance
  <2>1. Ipc!TypeOK'
    BY <1>2 DEF Ipc!TypeOK
  <2>2. EventsAlive'
    BY <1>2 DEF ConnInv, EventsAlive, Ipc!EventsAlive, Ipc!TypeOK
  <2>3. ASSUME NEW d \in Conns PROVE WireInv(d)'
    BY <1>1, <1>2 DEF ConnInv, WireInv, Ipc!TypeOK
  <2>4. BacklogInv'
    BY <1>1, <1>2, BacklogKept DEF ConnInv, Ipc!TypeOK
  <2> QED
    BY <1>3, <2>1, <2>2, <2>3, <2>4 DEF ConnInv
<1>5. CASE inst[c] = "reading" /\ Ipc!Read(c)
  <2> USE <1>5 DEF Ipc!Read, Ipc!Rearmed, Ipc!Ready
  <2>1. Ipc!TypeOK'
    BY <1>2 DEF Ipc!TypeOK, Ipc!Registered
  <2>2. EventsAlive'
    BY <1>2 DEF ConnInv, EventsAlive, Ipc!EventsAlive, Ipc!TypeOK, Ipc!Registered
  <2>3. ASSUME NEW d \in Conns PROVE WireInv(d)'
    BY <1>1, <1>2 DEF ConnInv, WireInv, Ipc!TypeOK
  <2>4. BacklogInv'
    BY <1>1, <1>2, BacklogKept DEF ConnInv, Ipc!TypeOK
  <2> QED
    BY <1>3, <2>1, <2>2, <2>3, <2>4 DEF ConnInv
<1>6. CASE inst[c] # "reading" /\ Ipc!Write(c) /\ client[c] # "off" /\ ~Ipc!CloseSocketInstance(c)
  <2> USE <1>6 DEF Ipc!Write
  <2>1. inst[c] = "writing"
    BY <1>1 DEF Ipc!Registered
  <2>2. Ipc!TypeOK'
    BY <1>2 DEF Ipc!TypeOK, Ipc!Registered
  <2>3. EventsAlive'
    BY <1>2 DEF ConnInv, EventsAlive, Ipc!EventsAlive, Ipc!TypeOK, Ipc!Registered
  <2>4. ASSUME NEW d \in Conns PROVE WireInv(d)'
    BY <2>1, <1>2 DEF ConnInv, WireInv, Ipc!TypeOK
  <2>5. BacklogInv'
    BY <1>1, <1>2, BacklogKept DEF ConnInv, Ipc!TypeOK
  <2> QED
    BY <1>3, <2>2, <2>3, <2>4, <2>5 DEF ConnInv
<1> QED
  BY <1>4, <1>5, <1>6 DEF Ipc!Write

LEMMA RearmInv == ASSUME NEW c \in Conns, ConnInv, Ipc!Rearm(c) PROVE ConnInv'
<1> USE DEF ConnInv, Ipc!Rearm, Ipc!Rearmed, Ipc!Ready, Ipc!clientVars, Ipc!threadVars
<1>1. Ipc!TypeOK'
  BY DEF Ipc!TypeOK, Ipc!Registered
<1>2. EventsAlive'
  BY DEF EventsAlive, Ipc!EventsAlive, Ipc!TypeOK, Ipc!Registered
<1>3. ASSUME NEW d \in Conns PROVE WireInv(d)'
  BY DEF WireInv, Ipc!TypeOK
<1>4. BacklogInv'
  BY BacklogKept DEF Ipc!TypeOK
<1>5. thread' \in Serving
  BY DEF Serving
<1> QED
  BY <1>1, <1>2, <1>3, <1>4, <1>5

LEMMA ServerThreadInv == ConnInv /\ Ipc!ServerThread => ConnInv'
<1> SUFFICES ASSUME ConnInv, Ipc!ServerThread PROVE ConnInv'
  OBVIOUS
<1>1. Ipc!TypeOK
  BY DEF ConnInv
<1>2. CASE Ipc!SetRunning
  BY <1>1, <1>2, ThreadMoves DEF Ipc!SetRunning, Ipc!TypeOK, Serving
<1>3. CASE Ipc!BindSocket
  BY <1>1, <1>3, ThreadMoves DEF Ipc!BindSocket, Ipc!TypeOK, Serving
<1>4. CASE Ipc!CreateEpoll
  <2>1. CASE thread' = "poll"
    BY <1>1, <1>4, <2>1, ThreadMoves DEF Ipc!CreateEpoll, Ipc!TypeOK, Serving
  <2>2. CASE thread' # "poll"
    BY <1>1, <1>4, <2>2, ConnClosed DEF Ipc!CreateEpoll, Ipc!TypeOK, Ipc!clientVars
  <2> QED
    BY <2>1, <2>2
<1>5. CASE Ipc!LeaveLoop
  BY <1>1, <1>5, ThreadMoves DEF Ipc!LeaveLoop, Ipc!TypeOK, Serving
<1>6. CASE Ipc!EndBatch
  BY <1>1, <1>6, ThreadMoves DEF Ipc!EndBatch, Ipc!TypeOK, Serving
<1>7. CASE Ipc!ExitThread
  BY <1>1, <1>7, ConnClosed DEF Ipc!ExitThread, Ipc!TypeOK, Ipc!clientVars
<1> QED
  BY <1>2, <1>3, <1>4, <1>5, <1>6, <1>7, WaitInv, AcceptInv, HandleInv, RearmInv
     DEF Ipc!ServerThread

-----------------------------------------------------------------------------
(* The inductive invariant *)

LEMMA IpcInvInit == Init => IpcInv
BY ConnInit DEF Init, IpcInv, JoinInv, Ipc!Init

LEMMA DriverInitInv == IpcInv /\ DriverInit => IpcInv'
<1> SUFFICES ASSUME IpcInv, DriverInit PROVE IpcInv'
  OBVIOUS
<1> USE DEF IpcInv, JoinInv
<1>1. CASE IpcStep("hooked", Ipc!Run, "ran")
  BY <1>1, ThreadMoves DEF IpcStep, Ipc!Run, ConnInv, Ipc!TypeOK, Serving
<1>2. CASE UNCHANGED ipcVars /\ main \in {"ran", "mapped"} /\ main' \in {"mapped", "up"}
  BY <1>2, ConnSame DEF ipcVars
<1> QED
  BY <1>1, <1>2 DEF DriverInit, HookStep

LEMMA CleanupInv == IpcInv /\ Cleanup => IpcInv'
<1> SUFFICES ASSUME IpcInv, Cleanup PROVE IpcInv'
  OBVIOUS
<1> USE DEF IpcInv, JoinInv
<1>1. CASE IpcStep("stopping", Ipc!StopReturns, "unmap")
  BY <1>1, ConnSame DEF IpcStep, Ipc!StopReturns, Ipc!vars, Ipc!clientVars, Ipc!serverVars,
     Ipc!threadVars, ipcVars
<1>2. CASE IpcStep("stopping", Ipc!SetStop, "closing")
  BY <1>2, ThreadMoves DEF IpcStep, Ipc!SetStop, ConnInv, Ipc!TypeOK
<1>3. CASE IpcStep("closing", Ipc!CloseEpoll, "joining")
  BY <1>3, ThreadMoves DEF IpcStep, Ipc!CloseEpoll, ConnInv, Ipc!TypeOK
<1>4. CASE IpcStep("joining", Ipc!Join, "unmap")
  BY <1>4, ThreadMoves DEF IpcStep, Ipc!Join, ConnInv, Ipc!TypeOK
<1>5. CASE /\ UNCHANGED ipcVars
           /\ main \in {"unmap", "clear", "unhook", "forget"}
           /\ main' \in {"clear", "unhook", "forget", "down"}
  BY <1>5, ConnSame DEF ipcVars
<1> QED
  BY <1>1, <1>2, <1>3, <1>4, <1>5 DEF Cleanup, HookStep

LEMMA OutsideInv == IpcInv /\ (SteamVR \/ ServerGone \/ PoseThreads) => IpcInv'
<1> SUFFICES ASSUME IpcInv, SteamVR \/ ServerGone \/ PoseThreads PROVE IpcInv'
  OBVIOUS
<1> USE DEF IpcInv, JoinInv
<1>1. CASE SteamVR
  BY <1>1, ConnSame DEF SteamVR, HookStep, ipcVars
<1>2. CASE ServerGone
  BY <1>2, ConnClosed DEF ServerGone, Ipc!ServerGone, Ipc!clientVars
<1>3. CASE PoseThreads
  BY <1>3, ConnSame DEF PoseThreads, ipcVars
<1> QED
  BY <1>1, <1>2, <1>3

LEMMA SocketsInv == IpcInv /\ (IpcThread \/ Overlays) => IpcInv'
<1> SUFFICES ASSUME IpcInv, IpcThread \/ Overlays PROVE IpcInv'
  OBVIOUS
<1> USE DEF IpcInv
<1>1. CASE IpcThread
  <2>1. thread \notin {"none", "ended"} /\ joinable' = joinable
    BY <1>1 DEF IpcThread, Ipc!ServerThread, Ipc!SetRunning, Ipc!BindSocket, Ipc!CreateEpoll,
       Ipc!LeaveLoop, Ipc!Wait, Ipc!Accept, Ipc!Handle, Ipc!Rearm, Ipc!EndBatch,
       Ipc!ExitThread, Ipc!threadVars
  <2> QED
    BY <1>1, <2>1, ServerThreadInv DEF IpcThread, JoinInv
<1>2. CASE Overlays
  <2>1. UNCHANGED <<thread, joinable>>
    BY <1>2 DEF Overlays, Ipc!Clients, Ipc!Connect, Ipc!Send, Ipc!Receive, Ipc!Die,
       Ipc!threadVars
  <2> QED
    BY <1>2, <2>1, ConnectInv, SendInv, ReceiveInv, DieInv DEF Overlays, Ipc!Clients, JoinInv
<1> QED
  BY <1>1, <1>2

LEMMA IpcInvNext == IpcInv /\ [Next]_vars => IpcInv'
<1> SUFFICES ASSUME IpcInv, [Next]_vars PROVE IpcInv'
  OBVIOUS
<1>1. CASE UNCHANGED vars
  BY <1>1, ConnSame DEF vars, ipcVars, IpcInv, JoinInv
<1> QED
  BY <1>1, DriverInitInv, CleanupInv, OutsideInv, SocketsInv DEF Next

\* The sockets' invariant holds through every run of the driver, the main thread's
\* starting and joining of the thread included.
THEOREM IpcInvariant == Spec => []IpcInv
BY IpcInvInit, IpcInvNext, PTL DEF Spec

-----------------------------------------------------------------------------
(* What the runs check *)

\* No event that epoll has or the IPC thread holds names a connection that was
\* deleted: CloseSocketInstance and the rest of the batch.
THEOREM EventsStayAlive == Spec => []EventsAlive
BY IpcInvariant, PTL DEF IpcInv, ConnInv

\* Once Stop has joined the thread no connection is left: Stop, RunThread's end.
THEOREM NothingServed == Spec => []Quiesced
<1>1. IpcInv => Quiesced
  BY DEF IpcInv, JoinInv, ConnInv, Quiesced, Serving
<1> QED
  BY <1>1, IpcInvariant, PTL

-----------------------------------------------------------------------------
(* The sockets implement the remote call *)

ServesCall == Ipc!Abstract!Next \/ UNCHANGED [c \in Conns |-> Ipc!Phase(c)]

\* What a connection's phase is made of.
LEMMA PhaseKept ==
  ASSUME NEW c \in Conns, client'[c] = client[c], req'[c] = req[c], rsp'[c] = rsp[c],
         inst'[c] = "writing" <=> inst[c] = "writing"
  PROVE  Ipc!Phase(c)' = Ipc!Phase(c)
BY DEF Ipc!Phase

LEMMA AllKept ==
  ASSUME \A c \in Conns : Ipc!Phase(c)' = Ipc!Phase(c)
  PROVE  ServesCall
BY DEF ServesCall

\* One connection moves, the others keep their phase.
LEMMA OneMoves ==
  ASSUME NEW c \in Conns, NEW to, NEW from, Ipc!Phase(c) \in from, Ipc!Phase(c)' = to,
         \A d \in Conns : d # c => Ipc!Phase(d)' = Ipc!Phase(d)
  PROVE  Ipc!Abstract!Step(c, from, to)
BY DEF Ipc!Abstract!Step

LEMMA ConnectServes == ASSUME NEW c \in Conns, ConnInv, Ipc!Connect(c) PROVE ServesCall
<1> USE DEF Ipc!Connect
<1>1. Ipc!TypeOK /\ ~req[c] /\ ~rsp[c]
  BY DEF ConnInv, WireInv
<1>2. Ipc!Phase(c) = "off" /\ Ipc!Phase(c)' \in {"idle", "lost"}
  BY <1>1 DEF Ipc!Phase, Ipc!TypeOK
<1>3. ASSUME NEW d \in Conns, d # c PROVE Ipc!Phase(d)' = Ipc!Phase(d)
  BY <1>1, <1>3, PhaseKept DEF Ipc!TypeOK
<1>4. Ipc!Abstract!Step(c, {"off"}, Ipc!Phase(c)')
  BY <1>2, <1>3, OneMoves
<1>5. Ipc!Abstract!Open(c)
  BY <1>2, <1>4 DEF Ipc!Abstract!Open
<1> QED
  BY <1>5 DEF ServesCall, Ipc!Abstract!Next

LEMMA SendServes == ASSUME NEW c \in Conns, ConnInv, Ipc!Send(c) PROVE ServesCall
<1> USE DEF Ipc!Send
<1>1. Ipc!TypeOK /\ ~req[c] /\ ~rsp[c] /\ inst[c] # "writing"
  BY DEF ConnInv, WireInv
<1>2. Ipc!Phase(c) = "idle" /\ Ipc!Phase(c)' \in {"called", "lost"}
  <2>1. \/ client'[c] = "lost" /\ ~req'[c]
        \/ client'[c] = "waiting" /\ req'[c] /\ ~rsp'[c] /\ inst'[c] # "writing"
    BY <1>1 DEF Ipc!TypeOK
  <2> QED
    BY <1>1, <2>1 DEF Ipc!Phase
<1>3. ASSUME NEW d \in Conns, d # c PROVE Ipc!Phase(d)' = Ipc!Phase(d)
  BY <1>1, <1>3, PhaseKept DEF Ipc!TypeOK
<1>4. Ipc!Abstract!Step(c, {"idle"}, Ipc!Phase(c)')
  BY <1>2, <1>3, OneMoves
<1>5. Ipc!Abstract!Call(c) \/ Ipc!Abstract!Fail(c)
  BY <1>2, <1>4 DEF Ipc!Abstract!Call, Ipc!Abstract!Fail
<1> QED
  BY <1>5 DEF ServesCall, Ipc!Abstract!Next

LEMMA ReceiveServes == ASSUME NEW c \in Conns, ConnInv, Ipc!Receive(c) PROVE ServesCall
<1> USE DEF Ipc!Receive, Ipc!serverVars
<1>1. Ipc!TypeOK /\ ~req[c]
  BY DEF ConnInv, WireInv
<1>2. ASSUME NEW d \in Conns, d # c PROVE Ipc!Phase(d)' = Ipc!Phase(d)
  BY <1>1, <1>2, PhaseKept DEF Ipc!TypeOK
<1>3. CASE rsp[c]
  <2>1. Ipc!Phase(c) = "done" /\ Ipc!Phase(c)' = "idle"
    BY <1>1, <1>3 DEF Ipc!Phase, Ipc!TypeOK
  <2>2. Ipc!Abstract!Return(c)
    BY <1>2, <2>1, OneMoves DEF Ipc!Abstract!Return
  <2> QED
    BY <2>2 DEF ServesCall, Ipc!Abstract!Next
<1>4. CASE ~rsp[c]
  <2>1. Ipc!Phase(c)' = Ipc!Phase(c)
    BY <1>1, <1>4 DEF Ipc!Phase, Ipc!TypeOK
  <2> QED
    BY <1>2, <2>1, AllKept
<1> QED
  BY <1>3, <1>4

LEMMA DieServes == ASSUME NEW c \in Conns, ConnInv, Ipc!Die(c) PROVE ServesCall
<1> USE DEF Ipc!Die
<1>1. Ipc!TypeOK /\ (req[c] => client[c] = "waiting" /\ ~rsp[c] /\ inst[c] # "writing")
  BY DEF ConnInv, WireInv
<1>2. ASSUME NEW d \in Conns, d # c PROVE Ipc!Phase(d)' = Ipc!Phase(d)
  <2>1. client'[d] = client[d] /\ rsp'[d] = rsp[d] /\ UNCHANGED <<req, inst>>
    BY <1>1, <1>2 DEF Ipc!TypeOK
  <2> QED
    BY <2>1, PhaseKept
<1>3. CASE req[c]
  <2>1. Ipc!Phase(c) = "called" /\ Ipc!Phase(c)' = "orphan"
    BY <1>1, <1>3 DEF Ipc!Phase, Ipc!TypeOK
  <2>2. Ipc!Abstract!Step(c, {"called"}, "orphan")
    BY <1>2, <2>1, OneMoves
  <2> QED
    BY <2>2 DEF ServesCall, Ipc!Abstract!Next, Ipc!Abstract!Die
<1>4. CASE ~req[c]
  <2>1. Ipc!Phase(c) \in {"idle", "done", "lost"} /\ Ipc!Phase(c)' = "off"
    BY <1>1, <1>4 DEF Ipc!Phase, Ipc!TypeOK
  <2>2. Ipc!Abstract!Step(c, {"idle", "done", "lost"}, "off")
    BY <1>2, <2>1, OneMoves
  <2> QED
    BY <2>2 DEF ServesCall, Ipc!Abstract!Next, Ipc!Abstract!Die
<1> QED
  BY <1>3, <1>4

\* An event: the request is executed, or dropped with its connection.
LEMMA HandleServes == ASSUME NEW c \in Conns, ConnInv, Ipc!Handle(c) PROVE ServesCall
<1> USE DEF Ipc!Handle
<1>1. /\ Ipc!TypeOK /\ (batch[c] = "hup" => client[c] = "off")
      /\ req[c] => client[c] \in {"waiting", "off"}
      /\ rsp[c] => client[c] = "waiting" /\ ~req[c]
      /\ inst[c] = "writing" => client[c] \in {"waiting", "off"} /\ ~req[c]
      /\ inst[c] \in {"reading", "writing"}
  BY DEF ConnInv, WireInv, EventsAlive, Ipc!EventsAlive, Ipc!Registered, Ipc!Sending
<1>2. ASSUME NEW d \in Conns, d # c PROVE Ipc!Phase(d)' = Ipc!Phase(d)
  BY <1>1, <1>2, PhaseKept DEF Ipc!TypeOK, Ipc!CloseSocketInstance, Ipc!Read, Ipc!Write
<1>3. CASE Ipc!CloseSocketInstance(c) /\ client[c] = "off"
  <2>1. Ipc!Phase(c) \in {"off", "orphan"} /\ Ipc!Phase(c)' = "off"
    BY <1>1, <1>3 DEF Ipc!Phase, Ipc!TypeOK, Ipc!CloseSocketInstance
  <2>2. CASE Ipc!Phase(c) = "orphan"
    <3>1. Ipc!Abstract!Drop(c)
      BY <1>2, <2>1, <2>2, OneMoves DEF Ipc!Abstract!Drop
    <3> QED
      BY <3>1 DEF ServesCall, Ipc!Abstract!Next
  <2>3. CASE Ipc!Phase(c) = "off"
    BY <1>2, <2>1, <2>3, AllKept
  <2> QED
    BY <2>1, <2>2, <2>3
<1>4. CASE Ipc!Read(c)
  <2>1. \/ Ipc!Phase(c) = "called" /\ Ipc!Phase(c)' = "done"
        \/ Ipc!Phase(c) = "orphan" /\ Ipc!Phase(c)' = "off"
    BY <1>1, <1>4 DEF Ipc!Phase, Ipc!TypeOK, Ipc!Read
  <2>2. Ipc!Abstract!Execute(c)
    BY <1>2, <2>1, OneMoves DEF Ipc!Abstract!Execute
  <2> QED
    BY <2>2 DEF ServesCall, Ipc!Abstract!Next
<1>5. CASE Ipc!Write(c) /\ inst[c] = "writing" /\ client[c] # "off"
  <2>1. Ipc!Phase(c)' = Ipc!Phase(c)
    BY <1>1, <1>5 DEF Ipc!Phase, Ipc!TypeOK, Ipc!Write
  <2> QED
    BY <1>2, <2>1, AllKept
<1> QED
  BY <1>1, <1>3, <1>4, <1>5 DEF Ipc!Write

\* All of the server's ends are closed: the thread's end and vrserver's.
LEMMA CloseServes ==
  ASSUME ConnInv, Ipc!CloseAll, UNCHANGED <<client, rsp>>
  PROVE  ServesCall
<1> DEFINE p == [c \in Conns |-> Ipc!Phase(c)]
<1>1. ASSUME NEW c \in Conns
      PROVE  Ipc!Phase(c)' \in Ipc!Abstract!Fates(Ipc!Phase(c)) \cap Ipc!Abstract!Phases
  <2>1. Ipc!TypeOK /\ WireInv(c)
    BY DEF ConnInv
  <2>2. client'[c] = client[c] /\ rsp'[c] = rsp[c] /\ inst'[c] = "none" /\ ~req'[c]
    BY DEF Ipc!CloseAll
  <2> QED
    BY <2>1, <2>2 DEF WireInv, Ipc!TypeOK, Ipc!Phase, Ipc!Abstract!Fates, Ipc!Abstract!Phases
<1>2. p' \in [Conns -> Ipc!Abstract!Phases] /\ \A c \in Conns : p'[c] \in Ipc!Abstract!Fates(p[c])
  BY <1>1
<1>3. Ipc!Abstract!Shutdown
  BY <1>2 DEF Ipc!Abstract!Shutdown
<1> QED
  BY <1>3 DEF ServesCall, Ipc!Abstract!Next

\* What the server thread does besides is nothing an overlay can see.
LEMMA ServerThreadServes == ConnInv /\ Ipc!ServerThread => ServesCall
<1> SUFFICES ASSUME ConnInv, Ipc!ServerThread PROVE ServesCall
  OBVIOUS
<1>1. Ipc!TypeOK
  BY DEF ConnInv
<1>2. CASE /\ \/ Ipc!SetRunning \/ Ipc!BindSocket \/ Ipc!LeaveLoop \/ Ipc!Wait \/ Ipc!EndBatch
              \/ Ipc!CreateEpoll /\ thread' = "poll"
  BY <1>2, PhaseKept, AllKept DEF Ipc!SetRunning, Ipc!BindSocket, Ipc!LeaveLoop, Ipc!Wait,
     Ipc!EndBatch, Ipc!CreateEpoll, Ipc!clientVars, Ipc!serverVars
<1>3. CASE Ipc!CreateEpoll /\ thread' # "poll"
  BY <1>3, CloseServes DEF Ipc!CreateEpoll, Ipc!clientVars
<1>4. CASE Ipc!ExitThread
  BY <1>4, CloseServes DEF Ipc!ExitThread, Ipc!clientVars
<1>5. CASE Ipc!Accept
  <2>1. Head(backlog) \in Conns /\ inst[Head(backlog)] = "queued"
    BY <1>1, <1>5 DEF Ipc!Accept, ConnInv, BacklogInv, Ipc!TypeOK
  <2> QED
    BY <1>1, <1>5, <2>1, PhaseKept, AllKept DEF Ipc!Accept, Ipc!TypeOK, Ipc!clientVars
<1>6. CASE \E c \in Conns : Ipc!Rearm(c)
  BY <1>1, <1>6, PhaseKept, AllKept DEF Ipc!Rearm, Ipc!TypeOK, Ipc!clientVars
<1> QED
  BY <1>2, <1>3, <1>4, <1>5, <1>6, HandleServes DEF Ipc!ServerThread

LEMMA ServesNext == IpcInv /\ [Next]_vars => ServesCall
<1> SUFFICES ASSUME IpcInv, [Next]_vars PROVE ServesCall
  OBVIOUS
<1>1. ConnInv
  BY DEF IpcInv
<1>2. CASE IpcThread
  BY <1>1, <1>2, ServerThreadServes DEF IpcThread
<1>3. CASE Overlays
  BY <1>1, <1>3, ConnectServes, SendServes, ReceiveServes, DieServes DEF Overlays, Ipc!Clients
<1>4. CASE ServerGone
  BY <1>1, <1>4, CloseServes DEF ServerGone, Ipc!ServerGone, Ipc!clientVars
<1>5. CASE DriverInit \/ Cleanup \/ SteamVR \/ PoseThreads \/ UNCHANGED vars
  <2>1. UNCHANGED <<Ipc!clientVars, Ipc!serverVars>>
    BY <1>5 DEF DriverInit, Cleanup, SteamVR, PoseThreads, IpcStep, HookStep, Ipc!Run,
       Ipc!StopReturns, Ipc!SetStop, Ipc!CloseEpoll, Ipc!Join, Ipc!vars, vars, ipcVars,
       Ipc!clientVars, Ipc!serverVars
  <2> QED
    BY <2>1, PhaseKept, AllKept DEF Ipc!clientVars, Ipc!serverVars
<1> QED
  BY <1>2, <1>3, <1>4, <1>5 DEF Next

\* Seen from the overlays, the sockets are the remote call of Rpc: a request is
\* executed at most once, and an overlay that finds its connection broken is not
\* served behind its back; from Init through Cleanup, over restarts of vrserver.
THEOREM ServesCalls == Spec => RpcSpec
<1>1. Init => Ipc!Abstract!Init
  BY DEF Init, Ipc!Init, Ipc!Idle, Ipc!Abstract!Init, Ipc!Phase
<1>2. ServesCall <=> [Ipc!Abstract!Next]_([c \in Conns |-> Ipc!Phase(c)])
  BY DEF ServesCall
<1>3. IpcInv /\ [Next]_vars => [Ipc!Abstract!Next]_([c \in Conns |-> Ipc!Phase(c)])
  BY <1>2, ServesNext
<1>4. RpcSpec <=> Ipc!Abstract!Init /\ [][Ipc!Abstract!Next]_([c \in Conns |-> Ipc!Phase(c)])
  BY DEF RpcSpec, Ipc!RpcSpec, Ipc!Abstract!Spec
<1> QED
  BY <1>1, <1>3, <1>4, IpcInvariant, PTL DEF Spec
=============================================================================
