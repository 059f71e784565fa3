SPECIFICATION VllmSpec
CONSTANTS
  a = a
  b = b
  Tokens = {a, b}
  Prompts <- MCPrompts
  Layers = 2
  Width = 2
  MaxSlot = 5
  PoolSize = 22
INVARIANTS VllmTypeOK OffsetsFindRecent OffloadedIsMatched
PROPERTY RecentBlocksAreRight
