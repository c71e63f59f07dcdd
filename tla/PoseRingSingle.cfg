SPECIFICATION Spec
CONSTANTS
  Writers = {w1}
  Readers = {r1}
  w1 = w1
  w2 = w2
  r1 = r1
  Half = 2
  MaxIndex = 5
  MaxCrashes = 1
INVARIANTS TypeOK BurstBound ExactDelivery
PROPERTIES NoReplay
