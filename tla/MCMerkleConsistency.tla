----------------------- MODULE MCMerkleConsistency -----------------------
(***************************************************************************)
(* VerifyConsistency on every pair of trees of at most MaxSize leaves of   *)
(* two histories that fork at leaf ForkAt, with the hash modelled          *)
(* collision-free (see MCMerkleInclusion): an interior hash is the pair of *)
(* its children when that pair is a node some honest tree publishes, and   *)
(* Junk otherwise.  A tree head of size n carries the root of either       *)
(* history, and the path is any sequence of up to MaxPath published       *)
(* hashes or Junk.                                                         *)
(***************************************************************************)
EXTENDS MerkleConsistency, MerkleTree

\* Largest tree; 3 -> 4 needs the longest path (3) and 3 is not a power of 2.
MaxSize == 4
\* Longest path supplied: the longest honest consistency path for MaxSize.
MaxPath == 3
\* The two histories differ in leaf 1, so trees of 2 or more leaves differ.
ForkAt == 1

HistA == [i \in 1..MaxSize |-> LeafHash(i - 1)]
HistB == [HistA EXCEPT ![ForkAt + 1] = LeafHash(MaxSize)]
Histories == {HistA, HistB}
Junk == LeafHash(MaxSize + 1)
Published == UNION {Nodes(h, n) : h \in Histories, n \in 1..MaxSize}

MCHash == Published \cup {EmptyRoot, Junk}
MCHashInteriorNode(a, b) == IF Node(a, b) \in Published THEN Node(a, b) ELSE Junk
MCHeadRoots(n) == {Root(h, n) : h \in Histories}
MCPaths == UNION {[1..m -> Published \cup {Junk}] : m \in 0..MaxPath}
\* The pairs the callers pass: an old tree no larger than the new one.
MCSizePairs == {p \in (0..MaxSize) \X (0..MaxSize) : p[1] <= p[2]}
\* Every pair of non-empty sizes, the old one possibly the larger (a new
\* size 0 is left out: newSize - 1 then wraps around to 2^64 - 1).
MCAllSizePairs == (1..MaxSize) \X (1..MaxSize)

\* Both tree heads belong to one history and the path is its honest proof.
HonestProof ==
  \E h \in Histories :
    /\ oldRoot = Root(h, oldSize)
    /\ newRoot = Root(h, newSize)
    /\ path0 = ConsistencyPath(h, oldSize, newSize)

(***************************************************************************)
(* VerifyConsistency accepts exactly the honest proofs: it accepts the     *)
(* RFC 9162 proof between two tree heads of one history, and no path makes *)
(* it accept an old tree head and a new one from histories that differ in *)
(* a leaf of the old tree (a split view).                                  *)
(***************************************************************************)
ConsistencyExact == pc = "done" => (result = "ok" <=> HonestProof)
=============================================================================
