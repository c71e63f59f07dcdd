--------------------------- MODULE MCCalibration ---------------------------
(* Calibration with an HMD and one tracker of another system.              *)
EXTENDS Calibration

OneTracker == {1}
Tracked == [d \in Devices |-> IF d = Hmd THEN "quest" ELSE "lighthouse"]

\* A Pimax Crystal: SteamVR and VRState::Load name its system differently.
PimaxRaw == [d \in Devices |-> IF d = Hmd THEN "aapvr" ELSE "lighthouse"]
PimaxUi == [d \in Devices |-> IF d = Hmd THEN "Pimax Crystal HMD" ELSE "lighthouse"]

NoProfile == {}

\* A profile that makes the HMD's own system its target space.
OwnSpace ==
  {[kind |-> "profile", autostart |-> TRUE, quash |-> TRUE, trigger |-> FALSE, relcal |-> FALSE,
    calib |-> 1, refSystem |-> "quest", tgtSystem |-> "quest", refStandby |-> 1, tgtStandby |-> Hmd]}

\* A profile saved while continuous calibration ran with a hidden tracker.
Continued ==
  {[kind |-> "profile", autostart |-> TRUE, quash |-> TRUE, trigger |-> FALSE, relcal |-> FALSE,
    calib |-> 1, refSystem |-> "quest", tgtSystem |-> "lighthouse", refStandby |-> Hmd, tgtStandby |-> 1]}

\* The runs in which the overlay, once up and connected, stays so: what the
\* liveness properties suppose anyway.
SteadySpec == Init /\ [][Next /\ link']_vars /\ TickFairness
=============================================================================
