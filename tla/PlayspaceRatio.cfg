SPECIFICATION FairSpec
CONSTANTS
  Hands = {0, 80}
  Multipliers = {1}
  Files <- SavedSettings
  Clips <- NoChaperone
  Frames = 3
  MaxEvents = 1
PROPERTIES OneToOne
