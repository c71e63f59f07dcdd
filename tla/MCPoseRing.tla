----------------------------- MODULE MCPoseRing -----------------------------
(* PoseRing on small rings: the writing threads and the reader are model   *)
(* values.  The threads are interchangeable, but the run that lets them    *)
(* race also checks a liveness property, so no symmetry set is given.      *)
EXTENDS PoseRing

CONSTANTS w1, w2, r1
=============================================================================
