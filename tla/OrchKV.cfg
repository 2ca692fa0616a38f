SPECIFICATION FairSpec
CONSTANTS
  Threads = {t1, t2}
  None = None
  Apps = {a}
  Models = {}
  HostValues = {}
  HostCapacities = {3}
  Placeholder = w
  Config <- MCConfig
  Devices <- MCDevices
  DefaultDevice <- MCDefaultDevice
  Word64 = 1000
  Word32 = 1000
  PreloadTopK = 2
  Blocks <- MCBlocks
  MaxTotal = 6
  MaxEvents = 0
PROPERTIES
  TickEnforcesBudget
  CallsReturn
