SPECIFICATION FairSpec
CONSTANTS
  Step = 15
  Offsets <- Near
  Angles <- Turns
  Lever = 5
  ThrTransSmall = 1
  ThrTransLarge = 20
  ThrRotSmall = 0
  ThrRotLarge = 5
  MinOffset = 0
  MaxOffset = 60
  MinSwing = 0
  MaxSwing = 30
  MaxDisturbed = 1
INVARIANTS TypeOK Bounded Approach SnapHolds
PROPERTIES Settles
