SPECIFICATION Spec
CONSTANTS
  Blocks <- MCPlainBlocks
  Sink = 1
  Recent = 2
  Budgets = {2, 3, 4, 5}
  Word32 = 1000
  Word64 = 1000
  MaxTotal = 8
INVARIANTS
  RecentAlwaysKept
