SPECIFICATION FairSpec
CONSTANTS
  Hands = {0, 80}
  Multipliers = {1, 10}
  Files <- SavedSettings
  Clips <- SavedChaperone
  Frames = 3
  MaxEvents = 3
INVARIANTS TypeOK ResetHolds Remembered
PROPERTIES DragBounded DragSettles
