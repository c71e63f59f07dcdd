---------------------------- MODULE IpcChannel ----------------------------
(***************************************************************************)
(* The socket between the overlay (IPCClient.cpp) and the driver           *)
(* (IPCServer.cpp): overlay processes that connect, send a request and     *)
(* block in the receive; a server thread that waits on an edge-triggered   *)
(* epoll set, works through the events it harvested, which are stale by    *)
(* then, and alternates each connection between reading and writing; and   *)
(* the main thread of vrserver, which starts the thread and stops it.      *)
(*                                                                         *)
(* A member of Conns is one overlay process and the one connection it      *)
(* makes; it is used again once the server has closed its end.  All        *)
(* requests are alike, the handshake is the first.  A request or response  *)
(* is one message of the stream: on a local socket it is neither split nor *)
(* lost.  Left out are an accept() that fails, which the level-triggered   *)
(* listening socket has tried again, and an epoll_ctl that fails to add a  *)
(* connection, which the code ignores and which would never be served.     *)
(***************************************************************************)
EXTENDS Integers, Sequences

CONSTANT Conns

VARIABLES
  client,     \* the overlay process: off, ready, waiting in recv, or lost
  inst,       \* the server's end: none, queued, reading, writing, sent
  req, rsp,   \* a request, a response is in the socket
  edge,       \* epoll has the connection on its ready list
  backlog,    \* connections that were not accepted yet
  batch,      \* the events harvested last that are not worked off yet
  accepting,  \* one of them is the listening socket's
  thread,     \* where the server thread is
  running, stop, joinable,  \* the IPCServer's fields; a thread object to join
  epoll       \* epollFd >= 0

clientVars == <<client, rsp>>
serverVars == <<inst, req, edge, backlog, batch, accepting>>
threadVars == <<thread, running, stop, joinable, epoll>>
vars == <<clientVars, serverVars, threadVars>>

Registered == {"reading", "writing", "sent"}
Listening == thread \in {"epoll", "poll", "batch", "exit"}
NoEvents == [c \in Conns |-> "none"]

\* The thread has sent a response and not yet switched the connection.
Sending == \E c \in Conns : inst[c] = "sent"

\* What epoll finds on a connection whose server end is at i: a hang-up, whatever
\* it waits for; data while it reads, r telling whether there are any; room while
\* it writes.
Ready(c, i, r) == client[c] = "off" \/ (i = "reading" /\ r) \/ i = "writing"

Idle ==
  /\ client = [c \in Conns |-> "off"] /\ rsp = [c \in Conns |-> FALSE]
  /\ inst = [c \in Conns |-> "none"] /\ req = [c \in Conns |-> FALSE]
  /\ edge = [c \in Conns |-> FALSE] /\ backlog = <<>>
  /\ batch = NoEvents /\ accepting = FALSE

Init ==
  /\ Idle
  /\ thread = "none" /\ epoll = FALSE
  /\ running = FALSE /\ stop = FALSE /\ joinable = FALSE

-----------------------------------------------------------------------------
(* The overlay's end *)

\* A connection that is refused, or that breaks later, is never made again.
Connect(c) ==
  /\ client[c] = "off" /\ inst[c] = "none"
  /\ IF Listening
     THEN /\ client' = [client EXCEPT ![c] = "ready"]
          /\ inst' = [inst EXCEPT ![c] = "queued"]
          /\ backlog' = Append(backlog, c)
     ELSE /\ client' = [client EXCEPT ![c] = "lost"]
          /\ UNCHANGED <<inst, backlog>>
  /\ UNCHANGED <<rsp, req, edge, batch, accepting, threadVars>>

\* An error is thrown when the server's end is closed (and, unless something
\* ignores SIGPIPE, kills the process: Die).
Send(c) ==
  /\ client[c] = "ready"
  /\ IF inst[c] = "none"
     THEN client' = [client EXCEPT ![c] = "lost"] /\ UNCHANGED <<req, edge>>
     ELSE /\ client' = [client EXCEPT ![c] = "waiting"]
          /\ req' = [req EXCEPT ![c] = TRUE]
          /\ edge' = [edge EXCEPT ![c] = @ \/ inst[c] = "reading"]
  /\ UNCHANGED <<rsp, inst, backlog, batch, accepting, threadVars>>

Receive(c) ==
  /\ client[c] = "waiting"
  /\ \/ rsp[c] /\ client' = [client EXCEPT ![c] = "ready"]
     \/ ~rsp[c] /\ inst[c] = "none" /\ client' = [client EXCEPT ![c] = "lost"]
  /\ rsp' = [rsp EXCEPT ![c] = FALSE]
  /\ UNCHANGED <<serverVars, threadVars>>

\* The process exits or is killed: its end is closed, which epoll reports.
Die(c) ==
  /\ client[c] # "off"
  /\ client' = [client EXCEPT ![c] = "off"]
  /\ rsp' = [rsp EXCEPT ![c] = FALSE]
  /\ edge' = [edge EXCEPT ![c] = inst[c] \in Registered]
  /\ UNCHANGED <<inst, req, backlog, batch, accepting, threadVars>>

-----------------------------------------------------------------------------
(* The server thread: RunThread *)

SetRunning ==
  /\ thread = "spawned"
  /\ thread' = "bind" /\ running' = TRUE
  /\ UNCHANGED <<clientVars, serverVars, stop, joinable, epoll>>

\* A failure ends the thread; running is false again, and nobody joins it.
BindSocket ==
  /\ thread = "bind"
  /\ \/ thread' = "epoll" /\ UNCHANGED running
     \/ thread' = "ended" /\ running' = FALSE
  /\ UNCHANGED <<clientVars, serverVars, stop, joinable, epoll>>

\* The server's ends of all connections are closed.
CloseAll ==
  /\ inst' = [c \in Conns |-> "none"] /\ req' = [c \in Conns |-> FALSE]
  /\ edge' = [c \in Conns |-> FALSE] /\ backlog' = <<>>
  /\ batch' = NoEvents /\ accepting' = FALSE

CreateEpoll ==
  /\ thread = "epoll"
  /\ \/ thread' = "poll" /\ epoll' = TRUE /\ UNCHANGED <<serverVars, running>>
     \/ thread' = "ended" /\ running' = FALSE /\ CloseAll /\ UNCHANGED epoll
  /\ UNCHANGED <<clientVars, stop, joinable>>

\* The loop ends on stop, or when the epoll descriptor was closed under it.
LeaveLoop ==
  /\ thread = "poll" /\ (stop \/ ~epoll)
  /\ thread' = "exit"
  /\ UNCHANGED <<clientVars, serverVars, running, stop, joinable, epoll>>

\* An edge is reported once, with what is ready at the time.
Harvest ==
  /\ batch' = [c \in Conns |->
                 IF ~(edge[c] /\ Ready(c, inst[c], req[c])) THEN "none"
                 ELSE IF client[c] = "off" THEN "hup" ELSE "io"]
  /\ accepting' = (backlog # <<>>)
  /\ edge' = [c \in Conns |-> FALSE]

Wait ==
  /\ thread = "poll" /\ ~stop /\ epoll
  /\ Harvest
  /\ batch' # NoEvents \/ accepting'
  /\ thread' = "batch"
  /\ UNCHANGED <<clientVars, inst, req, backlog, running, stop, joinable, epoll>>

\* Mutant: what is ready when a connection is registered does not count.
RearmedBlind(c, i, r) == [edge EXCEPT ![c] = FALSE]

\* A connection that is registered, or registered anew for reading or writing, is
\* looked at: what is ready already counts as an edge.
Rearmed(c, i, r) == [edge EXCEPT ![c] = Ready(c, i, r)]

\* Mutant: a new connection starts with writing.
AcceptWriting ==
  /\ thread = "batch" /\ accepting
  /\ accepting' = FALSE
  /\ inst' = [inst EXCEPT ![Head(backlog)] = "writing"]
  /\ edge' = Rearmed(Head(backlog), "writing", req[Head(backlog)])
  /\ backlog' = Tail(backlog)
  /\ UNCHANGED <<clientVars, req, batch, threadVars>>

Accept ==
  /\ thread = "batch" /\ ~Sending /\ accepting
  /\ accepting' = FALSE
  /\ inst' = [inst EXCEPT ![Head(backlog)] = "reading"]
  /\ edge' = Rearmed(Head(backlog), "reading", req[Head(backlog)])
  /\ backlog' = Tail(backlog)
  /\ UNCHANGED <<clientVars, req, batch, threadVars>>

\* Mutant: the connection is not taken out of the epoll set.
CloseStillRegistered(c) ==
  /\ inst' = [inst EXCEPT ![c] = "none"]
  /\ req' = [req EXCEPT ![c] = FALSE]
  /\ UNCHANGED <<rsp, edge>>

CloseSocketInstance(c) ==
  /\ inst' = [inst EXCEPT ![c] = "none"]
  /\ req' = [req EXCEPT ![c] = FALSE]
  /\ edge' = [edge EXCEPT ![c] = FALSE]
  /\ UNCHANGED rsp

\* recv and HandleRequest, which changes the driver; then the connection turns to
\* writing.  An event that is not a hang-up is a request: recv's other results do
\* not occur.
Read(c) ==
  /\ req[c]
  /\ req' = [req EXCEPT ![c] = FALSE]
  /\ inst' = [inst EXCEPT ![c] = "writing"]
  /\ edge' = Rearmed(c, "writing", FALSE)
  /\ UNCHANGED rsp

\* send fails when the process is gone (SIGPIPE would end vrserver as well).
Write(c) ==
  \/ client[c] = "off" /\ CloseSocketInstance(c)
  \/ /\ client[c] # "off"
     /\ inst' = [inst EXCEPT ![c] = "sent"]
     /\ rsp' = [rsp EXCEPT ![c] = TRUE]
     /\ UNCHANGED <<req, edge>>

Handle(c) ==
  /\ thread = "batch" /\ ~Sending /\ batch[c] # "none"
  /\ IF batch[c] = "hup" THEN CloseSocketInstance(c)
     ELSE IF inst[c] = "reading" THEN Read(c) ELSE Write(c)
  /\ batch' = [batch EXCEPT ![c] = "none"]
  /\ UNCHANGED <<client, backlog, accepting, threadVars>>

\* The response is out; the connection is switched back to reading only now,
\* and the next request may be there first.
Rearm(c) ==
  /\ thread = "batch" /\ inst[c] = "sent"
  /\ inst' = [inst EXCEPT ![c] = "reading"]
  /\ edge' = Rearmed(c, "reading", req[c])
  /\ UNCHANGED <<clientVars, req, backlog, batch, accepting, threadVars>>

EndBatch ==
  /\ thread = "batch" /\ ~Sending /\ batch = NoEvents /\ ~accepting
  /\ thread' = "poll"
  /\ UNCHANGED <<clientVars, serverVars, running, stop, joinable, epoll>>

ExitThread ==
  /\ thread = "exit"
  /\ thread' = "ended" /\ epoll' = FALSE /\ running' = FALSE
  /\ CloseAll
  /\ UNCHANGED <<clientVars, stop, joinable>>

ServerThread ==
  \/ SetRunning \/ BindSocket \/ CreateEpoll \/ LeaveLoop \/ Wait \/ Accept
  \/ (\E c \in Conns : Handle(c) \/ Rearm(c)) \/ EndBatch \/ ExitThread

-----------------------------------------------------------------------------
(* The main thread: Run, and Stop in three steps.  A Stop that finds        *)
(* running false, because the thread has not set it yet, returns at once.   *)

Run ==
  /\ thread' = "spawned" /\ joinable' = TRUE
  /\ UNCHANGED <<clientVars, serverVars, running, stop, epoll>>

StopReturns == ~running /\ UNCHANGED vars

\* Mutant: closing the descriptor is taken to be enough.
StopNotSet == running /\ UNCHANGED vars

SetStop ==
  /\ running
  /\ stop' = TRUE
  /\ UNCHANGED <<clientVars, serverVars, thread, running, joinable, epoll>>

CloseEpoll ==
  /\ epoll' = FALSE
  /\ UNCHANGED <<clientVars, serverVars, thread, running, stop, joinable>>

\* Mutant: the thread is detached.
Detach ==
  /\ joinable' = FALSE /\ running' = FALSE
  /\ UNCHANGED <<clientVars, serverVars, thread, stop, epoll>>

Join ==
  /\ thread = "ended"
  /\ joinable' = FALSE /\ running' = FALSE
  /\ UNCHANGED <<clientVars, serverVars, thread, stop, epoll>>

\* vrserver ends: every end of the server's is closed.
ServerGone ==
  /\ CloseAll
  /\ thread' = "none" /\ epoll' = FALSE
  /\ running' = FALSE /\ stop' = FALSE /\ joinable' = FALSE
  /\ UNCHANGED clientVars

Clients == \E c \in Conns : Connect(c) \/ Send(c) \/ Receive(c) \/ Die(c)

-----------------------------------------------------------------------------
(* Properties *)

TypeOK ==
  /\ client \in [Conns -> {"off", "ready", "waiting", "lost"}]
  /\ inst \in [Conns -> {"none", "queued"} \cup Registered]
  /\ req \in [Conns -> BOOLEAN] /\ rsp \in [Conns -> BOOLEAN] /\ edge \in [Conns -> BOOLEAN]
  /\ backlog \in Seq(Conns)
  /\ batch \in [Conns -> {"none", "io", "hup"}] /\ accepting \in BOOLEAN
  /\ thread \in {"none", "spawned", "bind", "epoll", "poll", "batch", "exit", "ended"}
  /\ {running, stop, joinable, epoll} \subseteq BOOLEAN

\* epoll hands the thread the pointer of a connection: whatever it has on its list,
\* and whatever is left of the batch, is a connection that was not deleted.
EventsAlive == \A c \in Conns : edge[c] \/ batch[c] # "none" => inst[c] \in Registered

\* Where a process is with its request, as Rpc has it.
Phase(c) ==
  CASE client[c] = "off" /\ req[c] -> "orphan"
    [] client[c] = "off" /\ ~req[c] -> "off"
    [] client[c] = "ready" -> "idle"
    [] client[c] = "waiting" /\ req[c] -> "called"
    [] client[c] = "waiting" /\ (rsp[c] \/ inst[c] = "writing") -> "done"
    [] OTHER -> "lost"

Abstract == INSTANCE Rpc WITH Clients <- Conns, phase <- [c \in Conns |-> Phase(c)]

\* The sockets keep the promise of a remote call: each request is executed at
\* most once, a response answers a request that was executed, and a process
\* that finds its connection broken is not executed behind its back.
RpcSpec == Abstract!Spec

\* A process that blocks in the receive comes back, with the response or with an
\* error: no edge of the edge-triggered set is lost, though the next request may
\* arrive before the thread has switched the connection back to reading.
CallReturns == \A c \in Conns : client[c] = "waiting" ~> client[c] # "waiting"
=============================================================================
