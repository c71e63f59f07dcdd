SPECIFICATION SteadySpec
CONSTANTS
  Trackers <- OneTracker
  RawSystem <- PimaxRaw
  UiSystem <- PimaxUi
  Calibs = {1}
  SampleCount = 1
  Drop = 0
  Profiles <- NoProfile
  MaxStarts = 1
PROPERTIES ProfileEngages
