SPECIFICATION CachesSpec
CONSTANTS
  Keys = {k1, k2, k3, k4, k5}
  Values = {v1, v2}
  Capacities = {0, 1, 2, 3, 4}
  StatMod = 1
  MaxTick = 7
SYMMETRY MCSymmetry
INVARIANTS
  Inclusion
  BothIndexed
  TypeOK
  OneVictim
  WithinCapacity
PROPERTIES
  CachesImplementContract
