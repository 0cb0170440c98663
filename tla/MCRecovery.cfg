CONSTANTS
  Keys = {k1, k2}
  MaxVal = 3
  MaxRestarts = 2
  MaxFailures = 1
SYMMETRY KeySymmetry
SPECIFICATION Spec
INVARIANTS TablesReadBack Recoverable
CHECK_DEADLOCK FALSE
