------------------------- MODULE MerkleConsistency -------------------------
(***************************************************************************)
(* VerifyConsistency(oldSize, newSize, oldRoot, newRoot, path) of          *)
(* pkg/merkle (src/unnamed/part_001, lines 11-95): the trivial cases, the *)
(* path-length check, the choice of the starting node, one step per       *)
(* iteration of the loop that rebuilds both roots, and the comparisons.   *)
(* The arguments are drawn from constant sets: sizes as pairs, and for     *)
(* each size the roots a tree head of that size may carry.                 *)
(***************************************************************************)
EXTENDS MerkleBits, Sequences

CONSTANTS
  Hash,                   \* crypto.Hash values
  HashInteriorNode(_, _), \* HashInteriorNode(left, right)
  HashEmptyTree,          \* HashEmptyTree()
  SizePairs,              \* candidate <<oldSize, newSize>>
  HeadRoots(_),           \* candidate root hashes of a tree head of size n
  Paths                   \* candidate consistency paths

ASSUME ConsistencyAssumption ==
  /\ \A a, b \in Hash : HashInteriorNode(a, b) \in Hash
  /\ HashEmptyTree \in Hash
  /\ SizePairs \subseteq Nat \X Nat
  /\ \A p \in SizePairs : HeadRoots(p[1]) \subseteq Hash /\ HeadRoots(p[2]) \subseteq Hash
  /\ Paths \subseteq Seq(Hash)

VARIABLES
  oldSize, newSize, oldRoot, newRoot, path0, \* the arguments
  path,                                      \* the unread rest of the path
  fn, sn, fr, sr,                            \* the loop's locals
  pc,                                        \* "entry", "loop" or "done"
  result   \* "none", "ok", "malformed", "oldMismatch" or "newMismatch"

args == <<oldSize, newSize, oldRoot, newRoot, path0>>
vars == <<oldSize, newSize, oldRoot, newRoot, path0, path, fn, sn, fr, sr, pc, result>>

Results == {"none", "ok", "malformed", "oldMismatch", "newMismatch"}

\* Lines 50-52: the layers below the last leaf's left-child ancestor trimmed.
trimBits == TrailingZeros(oldSize)
startFn == (oldSize - 1) \div 2^trimBits
startSn == (newSize - 1) \div 2^trimBits

\* Mutant: the extra path element of the case fn > 0 not counted.
wantLengthNoFirst == pathLength(startFn, startSn + 1)

\* Lines 54-57: the length of the path the loop will read.
wantLength == pathLength(startFn, startSn + 1) + (IF startFn > 0 THEN 1 ELSE 0)

Init ==
  /\ \E p \in SizePairs : oldSize = p[1] /\ newSize = p[2]
  /\ oldRoot \in HeadRoots(oldSize)
  /\ newRoot \in HeadRoots(newSize)
  /\ path0 \in Paths
  /\ path = path0
  /\ fn = 0
  /\ sn = 0
  /\ fr = oldRoot
  /\ sr = oldRoot
  /\ pc = "entry"
  /\ result = "none"

\* Lines 22-32: equal sizes; consistent iff the roots are equal, with an
\* empty path.
SameSize ==
  /\ pc = "entry"
  /\ oldSize = newSize
  /\ pc' = "done"
  /\ result' = IF path # <<>> THEN "malformed"
               ELSE IF oldRoot # newRoot THEN "oldMismatch"
               ELSE "ok"
  /\ UNCHANGED <<args, path, fn, sn, fr, sr>>

\* Lines 33-43: the empty old tree is consistent with anything, with an
\* empty path and the empty-tree root.
EmptyOld ==
  /\ pc = "entry"
  /\ oldSize # newSize
  /\ oldSize = 0
  /\ pc' = "done"
  /\ result' = IF path # <<>> THEN "malformed"
               ELSE IF oldRoot # HashEmptyTree THEN "oldMismatch"
               ELSE "ok"
  /\ UNCHANGED <<args, path, fn, sn, fr, sr>>

\* Lines 58-60: a path of the wrong length.
RejectLength ==
  /\ pc = "entry"
  /\ oldSize # newSize
  /\ oldSize # 0
  /\ Len(path) # wantLength
  /\ pc' = "done"
  /\ result' = "malformed"
  /\ UNCHANGED <<args, path, fn, sn, fr, sr>>

\* Lines 62-70: start at oldRoot when fn = 0, else at the first path element.
StartLoop ==
  /\ pc = "entry"
  /\ oldSize # newSize
  /\ oldSize # 0
  /\ Len(path) = wantLength
  /\ fn' = startFn
  /\ sn' = startSn
  /\ \/ /\ startFn = 0
        /\ fr' = oldRoot
        /\ sr' = oldRoot
        /\ UNCHANGED path
     \/ /\ startFn > 0
        /\ path # <<>>
        /\ fr' = Head(path)
        /\ sr' = Head(path)
        /\ path' = Tail(path)
  /\ pc' = "loop"
  /\ UNCHANGED <<args, result>>

\* Lines 73-77: the node on the path is a left sibling in both trees.
LeftSibling ==
  /\ IsOdd(fn)
  /\ path # <<>>
  /\ fr' = HashInteriorNode(Head(path), fr)
  /\ sr' = HashInteriorNode(Head(path), sr)
  /\ path' = Tail(path)

\* Mutant: the right sibling hashed on the wrong side.
RightSiblingSwapped ==
  /\ IsEven(fn)
  /\ fn < sn
  /\ path # <<>>
  /\ sr' = HashInteriorNode(Head(path), sr)
  /\ path' = Tail(path)
  /\ UNCHANGED fr

\* Lines 78-81: the node on the path is a right sibling in the new tree only.
RightSibling ==
  /\ IsEven(fn)
  /\ fn < sn
  /\ path # <<>>
  /\ sr' = HashInteriorNode(sr, Head(path))
  /\ path' = Tail(path)
  /\ UNCHANGED fr

\* Line 82: no sibling at this layer.
NoSibling ==
  /\ IsEven(fn)
  /\ fn >= sn
  /\ UNCHANGED <<fr, sr, path>>

\* One iteration of the loop of line 72.
Climb ==
  /\ pc = "loop"
  /\ sn > 0
  /\ LeftSibling \/ RightSibling \/ NoSibling
  /\ fn' = fn \div 2
  /\ sn' = sn \div 2
  /\ UNCHANGED <<args, pc, result>>

\* Lines 84-94: compare the rebuilt roots with the given ones.
Finish ==
  /\ pc = "loop"
  /\ sn = 0
  /\ pc' = "done"
  /\ result' = IF fr # oldRoot THEN "oldMismatch"
               ELSE IF sr # newRoot THEN "newMismatch"
               ELSE "ok"
  /\ UNCHANGED <<args, path, fn, sn, fr, sr>>

\* The call has returned.
Returned ==
  /\ pc = "done"
  /\ UNCHANGED vars

Next == SameSize \/ EmptyOld \/ RejectLength \/ StartLoop \/ Climb \/ Finish \/ Returned

Spec == Init /\ [][Next]_vars

-----------------------------------------------------------------------------

TypeOK ==
  /\ <<oldSize, newSize>> \in SizePairs
  /\ oldRoot \in Hash
  /\ newRoot \in Hash
  /\ path0 \in Paths
  /\ path \in Seq(Hash)
  /\ fn \in Nat
  /\ sn \in Nat
  /\ fr \in Hash
  /\ sr \in Hash
  /\ pc \in {"entry", "loop", "done"}
  /\ result \in Results

(***************************************************************************)
(* VerifyConsistency never panics: the loop never reads path[0] of an      *)
(* empty slice (lines 75, 80) and never stops with path elements left over *)
(* (the "internal error" panic of line 85), whatever sizes and path it is  *)
(* given.                                                                  *)
(***************************************************************************)
ConsistencyPathInBounds ==
  pc = "loop" =>
    /\ (sn > 0 /\ (IsOdd(fn) \/ fn < sn)) => path # <<>>
    /\ sn = 0 => path = <<>>
=============================================================================
