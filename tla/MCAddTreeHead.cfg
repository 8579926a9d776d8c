CONSTANTS
  Hash <- MCHash
  HashInteriorNode <- MCHashInteriorNode
  HashEmptyTree <- EmptyRoot
  SizePairs <- MCRequestPairs
  HeadRoots <- MCHeadRoots
  Paths <- MCPaths
SPECIFICATION Spec
INVARIANT WitnessInBounds
