SPECIFICATION Spec
CONSTANTS
  Threads = {t1, t2, t3}
  None = none
  MaxOpens = 1
SYMMETRY MCSymmetry
INVARIANTS
  TypeOK
  DeletedOnce
  NothingLeaks
PROPERTIES
  OwnPredictions
