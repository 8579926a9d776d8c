-------------------------- MODULE MCMerkleBatch --------------------------
(***************************************************************************)
(* VerifyInclusionBatch on the trees of at most MaxSize leaves of one      *)
(* history, with the collision-free hash of MCMerkleInclusion: a pair of   *)
(* hashes that is no subtree of the history hashes to Junk.  Junk is never *)
(* an input, so that a computed Junk never equals what the caller passed.  *)
(* The leaves are a run of the history's leaves, or such a run with one   *)
(* leaf forged; the paths are the honest audit paths of every leaf of     *)
(* every tree, and each of them with one node replaced by a foreign hash. *)
(***************************************************************************)
EXTENDS MerkleBatch, MerkleTree

\* Largest tree, and longest run of leaves: the run of leaves 0-4 has a
\* left compact range of two trees (leaves 1 and 2-3).
MaxSize == 5
MaxLeaves == 5
\* uint64 scaled down: Word - 1 is the largest index.  With 16, the
\* largest fn + len(leaves) - 1 (8) does not wrap; with 8 it does.
MCWord == 16
WrapWord == 8

History == [j \in 1..MaxSize |-> LeafHash(j - 1)]
Foreign == LeafHash(MaxSize)
Junk == LeafHash(MaxSize + 1)
Published == Ranges(History, MaxSize)

MCHash == Published \cup {Foreign, Junk}
MCHashInteriorNode(a, b) == IF Node(a, b) \in Published THEN Node(a, b) ELSE Junk

\* Runs of the history, and runs with their first or second leaf forged.
Runs == {SubSeq(History, a, b) : a \in 1..MaxSize, b \in 1..MaxSize}
MCLeafSeqs ==
  LET runs == {s \in Runs : Len(s) \in 1..MaxLeaves}
  IN  runs \cup {[s EXCEPT ![j] = Foreign] : s \in runs, j \in {1, 2}}

\* For a tree of n leaves: the audit path of each leaf, each with its first
\* node replaced by a foreign hash, and an empty path.
HonestPath(m, n) == AuditPath(History, m, 0, n)
MCSizePaths(n) ==
  LET honest == {HonestPath(m, n) : m \in 0..(n - 1)}
  IN  honest \cup {[p EXCEPT ![1] = Foreign] : p \in honest} \cup {<<>>}

\* The root of the tree of that size, and the root of the full tree.
MCSizeRoots(n) == {Root(History, n), Root(History, MaxSize)}

\* Indices and sizes: every leaf index of every tree.
MCIndices == 0..(MaxSize - 1)
MCSizes == 1..MaxSize

\* The batch proof an honest log returns for these arguments.
HonestBatch ==
  /\ fn0 + Len(leaves) <= size
  /\ leaves = SubSeq(History, fn0 + 1, fn0 + Len(leaves))
  /\ startPath0 = HonestPath(fn0, size)
  /\ endPath0 = HonestPath(fn0 + Len(leaves) - 1, size)

(***************************************************************************)
(* For a tree head whose size and root belong together, the batch          *)
(* verifier accepts exactly the honest proof: leaves fn .. fn+len-1 of     *)
(* that tree with the audit paths of the first and the last of them.  The  *)
(* compact-range comparisons of lines 245 and 262 and the merge check of   *)
(* line 284 reject every forged inner leaf and every forged path node.     *)
(***************************************************************************)
BatchExact ==
  pc = "done" /\ root = Root(History, size) => (result = "ok" <=> HonestBatch)

(***************************************************************************)
(* Even when the size passed does not belong to the root, accepted leaves  *)
(* are a run of consecutive leaves of the tree with that root: no leaf is  *)
(* forged, skipped or repeated, only its position may be other than fn.    *)
(***************************************************************************)
BatchRunInTree ==
  pc = "done" /\ result = "ok" =>
    \E n \in 1..MaxSize : root = Root(History, n) /\
      \E a \in 0..(n - Len(leaves)) : leaves = SubSeq(History, a + 1, a + Len(leaves))
=============================================================================
