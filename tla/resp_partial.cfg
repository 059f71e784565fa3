\* recv raises when a part of a frame has arrived.
CONSTANTS
  Replies <- MCReplies
  MaxReplies = 2
  ChunkSize = 40
  CompactAt = 3
  Docs <- MCDocs
  TargetChunkSize = 40
  OverlapArgument = 30
SPECIFICATION MCSpec
INVARIANT PartialFramesRetained
