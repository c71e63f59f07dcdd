-------------------------------- MODULE Rpc --------------------------------
(***************************************************************************)
(* What a request of the overlay promises, whatever the sockets, the epoll *)
(* set and the server thread do: it is executed at most once, it returns   *)
(* only after it was executed, and nothing is executed that no process     *)
(* asked for.  The request of a process that died may still be executed,   *)
(* once; that of a process whose connection is lost never is.              *)
(***************************************************************************)
CONSTANT Clients

VARIABLE phase   \* where each overlay process is with its request

Phases == {"off", "idle", "called", "done", "lost", "orphan"}

Init == phase = [c \in Clients |-> "off"]

Step(c, from, to) == phase[c] \in from /\ phase' = [phase EXCEPT ![c] = to]

Open(c) == \E to \in {"idle", "lost"} : Step(c, {"off"}, to)
Call(c) == Step(c, {"idle"}, "called")
Execute(c) == Step(c, {"called"}, "done") \/ Step(c, {"orphan"}, "off")
Return(c) == Step(c, {"done"}, "idle")
Fail(c) == Step(c, {"idle"}, "lost")
Die(c) == Step(c, {"idle", "done", "lost"}, "off") \/ Step(c, {"called"}, "orphan")
Drop(c) == Step(c, {"orphan"}, "off")

\* A server that goes away takes the requests with it that it has not read, and
\* the responses that it has not sent.
Fates(p) ==
  CASE p = "called" -> {"lost"}
    [] p = "done"   -> {"done", "lost"}
    [] p = "orphan" -> {"off"}
    [] OTHER        -> {p}

Shutdown ==
  /\ phase' \in [Clients -> Phases]
  /\ \A c \in Clients : phase'[c] \in Fates(phase[c])

Next ==
  \/ \E c \in Clients :
       Open(c) \/ Call(c) \/ Execute(c) \/ Return(c) \/ Fail(c) \/ Die(c) \/ Drop(c)
  \/ Shutdown

Spec == Init /\ [][Next]_phase
=============================================================================
