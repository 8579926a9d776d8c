CONSTANTS
  Hash <- MCHash
  HashInteriorNode <- MCHashInteriorNode
  Leaves <- MCLeaves
  Roots <- MCRoots
  Indices <- MCIndices
  Sizes <- MCSizes
  Paths <- MCPaths
SPECIFICATION Spec
INVARIANT PathInBounds
INVARIANT InclusionExact
INVARIANT LeafInRootTree
INVARIANT LoopOrder
