SPECIFICATION MCSpec
CONSTANTS
  Devices <- MCDevices
  DefaultDevice <- MCDefaultDevice
  Configs <- MCConfigs
  Blocks <- MCBlocks
  Sink = 1
  Recent = 2
  TokenBudgets = {1, 2, 3, 4, 5}
  Word32 = 1000
  Word64 = 1000
  MaxTotal = 8
  Models <- MCModels
  BytesOf <- MCBytesOf
  Events <- MCEvents
  Decay <- MCDecay
  small = small
  medium = medium
  large = large
  Priorities = {0, 1}
  Budgets = {0, 2, 5}
  MaxTime = 2
  Kinds = {hit, miss}
  TelemetryBuffer = 1
  Samples = {1, 2, 3}
  MaxCalls = 4
  mail = mail
  maps = maps
  NoApp = none
  NoHour = unset
  HistoryCap = 3
  HoursPerDay = 2
  Unit = 100
  TopKs = {0, 1, 2, 3}
  Names = {n}
  Values = {v}
  MaxEvents = 5
INVARIANTS
  MFUScoresInRange
