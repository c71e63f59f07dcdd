------------------------- MODULE MCSolverDecisions -------------------------
(* Errors on either side of every limit, the default thresholds.           *)
EXTENDS SolverDecisions
=============================================================================
