SPECIFICATION Spec
CONSTANTS
  Errors = {4, 20, 90, 150, 400}
  Variances = {0, 1, 2}
  LowVariance = 2
  MaxRelError = 5
  Num = 3
  Den = 2
  Infinity = 1000000
INVARIANTS TypeOK NeverWorse LockYields
