-------------------------- MODULE MerkleInclusion --------------------------
(***************************************************************************)
(* VerifyInclusion(leaf, index, size, root, path) of pkg/merkle            *)
(* (src/unnamed/part_001, lines 97-156), one state per point of control:  *)
(* the argument checks, one step per iteration of the loop that climbs    *)
(* from the leaf to the root, and the final comparison with the root.      *)
(* The hash is a constant operator, so that a model can make it            *)
(* collision-free; the arguments are drawn from constant sets.             *)
(***************************************************************************)
EXTENDS MerkleBits, Sequences

CONSTANTS
  Hash,                   \* crypto.Hash values
  HashInteriorNode(_, _), \* HashInteriorNode(left, right)
  Leaves,                 \* the leaf hashes a caller may pass
  Roots,                  \* the (trusted) root hashes a caller may pass
  Indices,                \* candidate leaf indices
  Sizes,                  \* candidate tree sizes
  Paths                   \* candidate inclusion paths

ASSUME InclusionAssumption ==
  /\ \A a, b \in Hash : HashInteriorNode(a, b) \in Hash
  /\ Leaves \subseteq Hash
  /\ Roots \subseteq Hash
  /\ Indices \subseteq Nat
  /\ Sizes \subseteq Nat
  /\ Paths \subseteq Seq(Hash)

VARIABLES
  leaf, index, size, root, path0, \* the arguments (path0 is the path passed in)
  path,                           \* the unread rest of the path slice
  r, fn, sn,                      \* the loop's locals
  pc,                             \* "entry", "loop" or "done"
  result                          \* "none", "ok", "malformed" or "mismatch"

args == <<leaf, index, size, root, path0>>
vars == <<leaf, index, size, root, path0, path, r, fn, sn, pc, result>>

Results == {"none", "ok", "malformed", "mismatch"}

\* inclusionPathLength(index, size): the same computation as pathLength.
inclusionPathLength(i, n) == pathLength(i, n)

\* Mutant: the path length checks dropped.
LengthOKDropped == TRUE

\* The two path-length checks of lines 112-118.
LengthOK ==
  /\ Len(path) = inclusionPathLength(index, size)
  /\ Len(path) = pathLength(index, size)

Init ==
  /\ leaf \in Leaves
  /\ index \in Indices
  /\ size \in Sizes
  /\ root \in Roots
  /\ path0 \in Paths
  /\ path = path0
  /\ r = leaf
  /\ fn = 0
  /\ sn = 0
  /\ pc = "entry"
  /\ result = "none"

\* Lines 109-118: index out of range, or a path of the wrong length.
Reject ==
  /\ pc = "entry"
  /\ \/ index >= size
     \/ index < size /\ ~LengthOK
  /\ pc' = "done"
  /\ result' = "malformed"
  /\ UNCHANGED <<args, path, r, fn, sn>>

\* Mutant: the range check off by one (index > size rejected, index = size
\* of a nonempty tree let through).
StartLoopPastEnd ==
  /\ pc = "entry"
  /\ 0 < size /\ index <= size
  /\ LengthOK
  /\ r' = leaf
  /\ fn' = index
  /\ sn' = size - 1
  /\ pc' = "loop"
  /\ UNCHANGED <<args, path, result>>

\* Lines 135-138: the checks passed, the loop starts at the leaf.
StartLoop ==
  /\ pc = "entry"
  /\ index < size
  /\ LengthOK
  /\ r' = leaf
  /\ fn' = index
  /\ sn' = size - 1
  /\ pc' = "loop"
  /\ UNCHANGED <<args, path, result>>

\* Mutant: the left sibling hashed on the wrong side.
LeftSiblingSwapped ==
  /\ IsOdd(fn)
  /\ path # <<>>
  /\ r' = HashInteriorNode(r, Head(path))
  /\ path' = Tail(path)

\* Lines 139-142: the node on the path is the left sibling.
LeftSibling ==
  /\ IsOdd(fn)
  /\ path # <<>>
  /\ r' = HashInteriorNode(Head(path), r)
  /\ path' = Tail(path)

\* Lines 143-146: the node on the path is the right sibling.
RightSibling ==
  /\ IsEven(fn)
  /\ fn < sn
  /\ path # <<>>
  /\ r' = HashInteriorNode(r, Head(path))
  /\ path' = Tail(path)

\* Line 147: fn is the last node of its layer and has no sibling.
NoSibling ==
  /\ IsEven(fn)
  /\ fn >= sn
  /\ UNCHANGED <<r, path>>

\* One iteration of the loop of line 138: one layer eliminated.
Climb ==
  /\ pc = "loop"
  /\ sn > 0
  /\ LeftSibling \/ RightSibling \/ NoSibling
  /\ fn' = fn \div 2
  /\ sn' = sn \div 2
  /\ UNCHANGED <<args, pc, result>>

\* Mutant: the comparison with the root dropped.
FinishNoRootCheck ==
  /\ pc = "loop"
  /\ sn = 0
  /\ pc' = "done"
  /\ result' = "ok"
  /\ UNCHANGED <<args, path, r, fn, sn>>

\* Lines 149-155: the loop has reached the root; compare it.
Finish ==
  /\ pc = "loop"
  /\ sn = 0
  /\ pc' = "done"
  /\ result' = IF r = root THEN "ok" ELSE "mismatch"
  /\ UNCHANGED <<args, path, r, fn, sn>>

\* The call has returned.
Returned ==
  /\ pc = "done"
  /\ UNCHANGED vars

Next == Reject \/ StartLoop \/ Climb \/ Finish \/ Returned

Spec == Init /\ [][Next]_vars

-----------------------------------------------------------------------------

TypeOK ==
  /\ leaf \in Leaves
  /\ index \in Indices
  /\ size \in Sizes
  /\ root \in Roots
  /\ path0 \in Paths
  /\ path \in Seq(Hash)
  /\ r \in Hash
  /\ fn \in Nat
  /\ sn \in Nat
  /\ pc \in {"entry", "loop", "done"}
  /\ result \in Results

(***************************************************************************)
(* The loop never reads path[0] of an empty slice (lines 141, 145: an      *)
(* index-out-of-range panic) and never ends with path elements left over  *)
(* (the "internal error" panic of line 150): the length check of lines     *)
(* 112-118 admits exactly the paths the loop consumes.                     *)
(***************************************************************************)
PathInBounds ==
  pc = "loop" =>
    /\ (sn > 0 /\ (IsOdd(fn) \/ fn < sn)) => path # <<>>
    /\ sn = 0 => path = <<>>

(***************************************************************************)
(* The climb of lines 138-148 never passes the last node of a layer: fn    *)
(* <= sn in every iteration, so that fn >= sn (line 147) means fn = sn,    *)
(* the node without a sibling, and the loop ends at the root with fn = 0.  *)
(* It rests on the range check index < size of line 109.                   *)
(***************************************************************************)
LoopOrder == pc = "loop" => fn <= sn
=============================================================================
