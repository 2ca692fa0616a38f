SPECIFICATION Spec
CONSTANTS
  Threads = {t1, t2}
  None = none
  MaxOpens = 1
PROPERTIES
  KpisAreWhole
