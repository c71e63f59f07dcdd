SPECIFICATION Spec
CONSTANTS
  Trackers <- OneTracker
  RawSystem <- Tracked
  UiSystem <- Tracked
  Calibs = {1}
  SampleCount = 2
  Drop = 1
  Profiles <- OwnSpace
  MaxStarts = 2
INVARIANTS TypeOK HmdUntouched TargetsHeld NoInheritedResult SavedProfile
