CONSTANTS
  Word <- WrapWord
  Hash <- MCHash
  HashInteriorNode <- MCHashInteriorNode
  LeafSeqs <- MCLeafSeqs
  Indices <- MCIndices
  Sizes <- MCSizes
  SizeRoots <- MCSizeRoots
  SizePaths <- MCSizePaths
SPECIFICATION Spec
INVARIANT BatchInBounds
