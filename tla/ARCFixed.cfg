SPECIFICATION FixedSpec
CONSTANTS
  Keys = {k1, k2, k3, k4, k5, k6, k7}
  Values = {v1}
  Capacities = {1, 2, 3}
  StatMod = 1
  MaxHints = 2
  Predictions <- MCPredictions
SYMMETRY MCSymmetry
INVARIANTS
  TypeOK
  OneHome
  WithinCapacity
  DirectoryBounded
