SPECIFICATION Spec
CONSTANTS
  Step = 30
  Offsets <- NearAndFar
  Angles <- Turns
  Lever = 5
  ThrTransSmall = 1
  ThrTransLarge = 20
  ThrRotSmall = 0
  ThrRotLarge = 5
  MinOffset = 0
  MaxOffset = 150
  MinSwing = 0
  MaxSwing = 30
  MaxDisturbed = 1
INVARIANTS FastWhenFar
