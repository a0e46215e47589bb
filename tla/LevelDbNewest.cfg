CONSTANTS
  k1 = k1
  k2 = k2
  Keys = {k1, k2}
  MaxWrites = 3
  MaxFiles = 4
SPECIFICATION Spec
INVARIANTS NewestWins
