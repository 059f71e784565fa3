\* Two replies of every kind, in pieces of any size; the buffer is compacted at
\* every third byte or so.  All documents of up to six lines, and some of many short
\* ones; the target is raised to 50 tokens, and the overlap cut to 25.
CONSTANTS
  Replies <- MCReplies
  MaxReplies = 2
  ChunkSize = 40
  CompactAt = 3
  Docs <- MCDocs
  TargetChunkSize = 40
  OverlapArgument = 30
SPECIFICATION MCSpec
INVARIANTS
  ReaderTypeOK BetweenReplies WaitsOnlyForMissing
  TypeOK HeadingHierarchy NothingLost CutWhereDue
PROPERTY ImplementsReplyStream
