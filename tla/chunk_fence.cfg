\* The overlap of a chunk that ends with a code block begins the next one.
CONSTANTS
  Replies <- MCReplies
  MaxReplies = 2
  ChunkSize = 40
  CompactAt = 3
  Docs <- MCDocs
  TargetChunkSize = 40
  OverlapArgument = 30
SPECIFICATION MCSpec
INVARIANT FencesWhole
