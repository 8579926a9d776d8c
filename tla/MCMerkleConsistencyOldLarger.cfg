CONSTANTS
  Hash <- MCHash
  HashInteriorNode <- MCHashInteriorNode
  HashEmptyTree <- EmptyRoot
  SizePairs <- MCAllSizePairs
  HeadRoots <- MCHeadRoots
  Paths <- MCPaths
SPECIFICATION Spec
INVARIANT ConsistencyPathInBounds
