------------------------ MODULE MCPlayspaceMovement ------------------------
(* A hand at two places, at the frame rate of the dashboard; an earlier    *)
(* session left playspace movement on and a chaperone in the profile.      *)
EXTENDS PlayspaceMovement

SavedSettings == {[enabled |-> TRUE, mult |-> k] : k \in Multipliers}
SavedChaperone == {[valid |-> TRUE, at |-> -50]}
NoChaperone == {NoClip}
=============================================================================
