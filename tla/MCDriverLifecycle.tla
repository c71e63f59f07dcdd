------------------------- MODULE MCDriverLifecycle -------------------------
(* Two overlay processes, two threads of vrserver, one host interface.     *)
EXTENDS DriverLifecycle, FiniteSets

CONSTANTS c1, c2, t1, t2,
          Crowd   \* bound: how many of them are connected or in a call at a time

Present == {c \in Conns : client[c] # "off" \/ inst[c] # "none"}
Inside == {t \in Threads : call[t] # Hook!Away}
NotCrowded == Cardinality(Present) + Cardinality(Inside) <= Crowd

\* Only connecting, reporting and asking make a crowd, and none of them is fair.
CrowdSpec == Init /\ [][Next /\ NotCrowded']_vars /\ Fairness
=============================================================================
