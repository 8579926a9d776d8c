------------------------ MODULE MCMerkleInclusion ------------------------
(***************************************************************************)
(* VerifyInclusion on every tree of at most MaxSize leaves, with the hash  *)
(* modelled collision-free: an interior node hash is the pair of its       *)
(* children when that pair is a subtree of some honest tree, and Junk      *)
(* otherwise (a hash that matches nothing an honest log publishes).  The   *)
(* caller's leaf is the hash of a leaf of the tree or of a foreign leaf,   *)
(* the root is the root of some honest tree, and the path is any sequence  *)
(* of up to MaxPath hashes of subtrees or Junk, so that a forged proof can *)
(* use every hash the log has published.                                   *)
(***************************************************************************)
EXTENDS MerkleInclusion, MerkleTree

\* Largest tree; sizes 3 and 4 give paths with a missing sibling (line 147).
MaxSize == 4
\* Longest path supplied; pathLength is at most 2 for trees of 4 leaves.
MaxPath == 2

\* The log's history: leaf i has data i.
History == [i \in 1..MaxSize |-> LeafHash(i - 1)]
ForeignLeaf == LeafHash(MaxSize)
Junk == LeafHash(MaxSize + 1)
Published == Ranges(History, MaxSize)

MCHash == Published \cup {ForeignLeaf, Junk}
MCHashInteriorNode(a, b) == IF Node(a, b) \in Published THEN Node(a, b) ELSE Junk
MCLeaves == {LeafHash(i) : i \in 0..MaxSize}
MCRoots == {Root(History, n) : n \in 1..MaxSize}
MCIndices == 0..MaxSize
MCSizes == 0..MaxSize
MCPaths == UNION {[1..m -> Published \cup {Junk}] : m \in 0..MaxPath}

\* The proof an honest log returns for these arguments.
HonestProof ==
  /\ index < size
  /\ leaf = History[index + 1]
  /\ root = Root(History, size)
  /\ path0 = AuditPath(History, index, 0, size)

(***************************************************************************)
(* For a tree head whose size and root belong together (the case of        *)
(* SigsumProof.Verify, which passes sp.TreeHead's size and root),          *)
(* VerifyInclusion accepts exactly the honest proof: the audit path of     *)
(* leaf index in that tree, and no forged leaf, index or path makes it     *)
(* return nil.                                                             *)
(***************************************************************************)
InclusionExact ==
  pc = "done" /\ root = Root(History, size) => (result = "ok" <=> HonestProof)

(***************************************************************************)
(* Even when the size passed does not belong to the root (a tree head      *)
(* that nobody checked), an accepted proof shows that the leaf is one of   *)
(* the leaves of the tree with that root: a foreign leaf never verifies.   *)
(* Only its index and the size are then not established.                   *)
(***************************************************************************)
LeafInRootTree ==
  pc = "done" /\ result = "ok" =>
    \E n \in 1..MaxSize : root = Root(History, n) /\ \E i \in 1..n : leaf = History[i]
=============================================================================
