SPECIFICATION Spec
CONSTANTS
  a = a
  b = b
  Tokens = {a, b}
  Paths <- MCPaths
  Prompts <- MCPrompts
  Layers = 2
  MaxSlot = 5
  PoolSize = 16
  MaxOffloads = 6
INVARIANTS TypeOK RecentIntact IndexFindsRecent MatchIsPrefix MatchIsLongest
PROPERTY RecentRestoreIsRight
