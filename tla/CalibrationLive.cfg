SPECIFICATION SteadySpec
CONSTANTS
  Trackers <- OneTracker
  RawSystem <- Tracked
  UiSystem <- Tracked
  Calibs = {1}
  SampleCount = 2
  Drop = 1
  Profiles <- Continued
  MaxStarts = 1
PROPERTIES OneshotEnds StandbyResumes TableFollows ProfileEngages
