SPECIFICATION Spec
CONSTANTS
  Trackers <- OneTracker
  RawSystem <- Tracked
  UiSystem <- Tracked
  Calibs = {1}
  SampleCount = 2
  Drop = 1
  Profiles <- NoProfile
  MaxStarts = 2
PROPERTIES CancelSticks
