--------------------------- MODULE MCAddTreeHead ---------------------------
(***************************************************************************)
(* A witness handed every add-tree-head request over trees of at most      *)
(* MaxSize leaves of the two histories of MCMerkleConsistency, with the    *)
(* same collision-free hash: any old size and size (the old one possibly  *)
(* the larger), either history's root, any path of up to MaxPath hashes.  *)
(***************************************************************************)
EXTENDS AddTreeHead, MerkleTree

\* Largest tree; 3 -> 4 needs the longest path (3) and 3 is not a power of 2.
MaxSize == 4
\* Longest path the log sends.
MaxPath == 3
\* The two histories differ in leaf 1.
ForkAt == 1

HistA == [i \in 1..MaxSize |-> LeafHash(i - 1)]
HistB == [HistA EXCEPT ![ForkAt + 1] = LeafHash(MaxSize)]
Histories == {HistA, HistB}
Junk == LeafHash(MaxSize + 1)
Published == UNION {Nodes(h, n) : h \in Histories, n \in 1..MaxSize}

MCHash == Published \cup {EmptyRoot, Junk}
MCHashInteriorNode(a, b) == IF Node(a, b) \in Published THEN Node(a, b) ELSE Junk
MCHeadRoots(n) == {Root(h, n) : h \in Histories}
MCPaths == UNION {[1..m -> Published \cup {Junk}] : m \in 0..MaxPath}
\* Every old size against every non-empty size, and the empty tree head
\* (an old size above a size of 0 would make size - 1 wrap around).
MCRequestPairs == ((0..MaxSize) \X (1..MaxSize)) \cup {<<0, 0>>}
=============================================================================
