SPECIFICATION Spec
CONSTANTS
  Keys = {k1, k2, k3}
  Values = {v1, v2}
  Capacities = {0, 1, 2}
  StatMod = 4
  MaxHints = 2
  Predictions <- MCPredictions
SYMMETRY MCSymmetry
INVARIANTS
  AtMostOneOver
PROPERTIES
  ImplementsContract
  LossesAreCounted
