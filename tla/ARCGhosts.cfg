SPECIFICATION Spec
CONSTANTS
  Keys = {k1, k2, k3, k4, k5, k6}
  Values = {v1}
  Capacities = {1, 2}
  StatMod = 1
  MaxHints = 1
  Predictions <- MCPredictions
SYMMETRY MCSymmetry
INVARIANTS
  RemembersBounded
