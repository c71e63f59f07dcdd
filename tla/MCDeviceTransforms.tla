------------------------- MODULE MCDeviceTransforms -------------------------
(* DeviceTransforms on grids of 15 and 30 mm and two angles, with the      *)
(* thresholds of CalibrationContext::ResetConfig.                          *)
EXTENDS DeviceTransforms

NearAndFar == {0, 30, 150}
Near == {0, 60}
Turns == {0, 6}
=============================================================================
