CONSTANTS
  Hash <- MCHash
  HashInteriorNode <- MCHashInteriorNode
  HashEmptyTree <- EmptyRoot
  SizePairs <- MCSizePairs
  HeadRoots <- MCHeadRoots
  Paths <- MCPaths
SPECIFICATION Spec
INVARIANT ConsistencyPathInBounds
INVARIANT ConsistencyExact
