CONSTANTS
  k1 = k1
  k2 = k2
  k3 = k3
  b1 = b1
  b2 = b2
  Keys <- MCKeys
  Bodies <- MCBodies
  MaxItems = 2
  Times <- MCTimes
  TTLs <- MCTTLs
  Extras <- MCExtras
SPECIFICATION HSpec
SYMMETRY Symmetry
INVARIANTS
  Consistent
  WorkingSetRetained
PROPERTIES
  KeepsContract
