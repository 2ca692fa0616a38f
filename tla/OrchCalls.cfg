SPECIFICATION Spec
CONSTANTS
  Threads = {t1, t2}
  None = None
  Apps = {a, b}
  Models = {m}
  HostValues = {h}
  HostCapacities = {3}
  Placeholder = w
  Config <- MCConfig
  Devices <- MCDevices
  DefaultDevice <- MCDefaultDevice
  Word64 = 1000
  Word32 = 1000
  PreloadTopK = 2
  Blocks <- MCNoBlocks
  MaxTotal = 0
  MaxEvents = 2
SYMMETRY MCSymmetry
INVARIANTS
  TypeOK
  LearnedIsStored
  CapacitiesFollowPlan
  WarmedIsKnown
PROPERTIES
  NoWarmingWhenSaving
  ResetIsWhole
