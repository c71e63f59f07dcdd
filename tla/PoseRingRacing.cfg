SPECIFICATION FairSpec
CONSTANTS
  Writers = {w1, w2}
  Readers = {r1}
  w1 = w1
  w2 = w2
  r1 = r1
  Half = 1
  MaxIndex = 4
  MaxCrashes = 0
INVARIANTS BurstBound NoHole
PROPERTIES CatchUp
