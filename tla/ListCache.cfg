SPECIFICATION Spec
CONSTANTS
  r1 = r1
  r2 = r2
  k1 = k1
  k2 = k2
  k3 = k3
  Readers = {r1, r2}
  Writers = {w1}
  Keys = {k1, k2, k3}
  TTL = 1
  MaxEntries = 2
  ReadLimit = 1
  MaxWrites = 1
  MaxTime = 3
  Nobody = Nobody
INVARIANTS
  BoundedByAge
  StaleOnlyForTTL
SYMMETRY ListSymmetry
