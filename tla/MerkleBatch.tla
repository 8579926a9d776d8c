---------------------------- MODULE MerkleBatch ----------------------------
(***************************************************************************)
(* VerifyInclusionBatch(leaves, fn, size, root, startPath, endPath) of     *)
(* pkg/merkle (src/unnamed/part_001, lines 157-313): the argument checks,  *)
(* the two compact ranges of the inner leaves, one step per iteration of   *)
(* the loop that climbs from the first leaf along startPath and of the     *)
(* loop that climbs from the last leaf along endPath, the merge of the two *)
(* subtrees, and the final call of VerifyInclusion, which is the module    *)
(* MerkleInclusion instantiated on variables of its own.  uint64           *)
(* arithmetic is done modulo the constant Word (2^64 in the code).         *)
(***************************************************************************)
EXTENDS MerkleBits, SequencesExt

CONSTANTS
  Word,                   \* 2^64: the range of a uint64
  Hash,                   \* crypto.Hash values
  HashInteriorNode(_, _), \* HashInteriorNode(left, right)
  LeafSeqs,               \* candidate leaves slices
  Indices,                \* candidate first indices fn
  Sizes,                  \* candidate tree sizes
  SizeRoots(_),           \* candidate roots passed with a tree size
  SizePaths(_)            \* candidate start and end paths for a tree size

ASSUME BatchAssumption ==
  /\ Word \in Nat \ {0}
  /\ \A a, b \in Hash : HashInteriorNode(a, b) \in Hash
  /\ LeafSeqs \subseteq Seq(Hash)
  /\ Indices \subseteq 0..(Word - 1)
  /\ Sizes \subseteq 0..(Word - 1)
  /\ \A n \in Sizes : SizeRoots(n) \subseteq Hash
  /\ \A n \in Sizes : SizePaths(n) \subseteq Seq(Hash)

VARIABLES
  leaves, fn0, size, root, startPath0, endPath0, \* the arguments
  fn, en, sn, k, i,     \* the loops' locals
  leftRange, rightRange, \* the compact ranges, rightmost tree last
  fr, er,                \* the roots of the start and end subtrees
  sp, ep,                \* the unread rest of startPath and endPath
  pc,                    \* "entry", "left", "right", "merge", "call", "done"
  result,
  ileaf, iindex, isize, iroot, ipath0, ipath, ir, ifn, isn, ipc, iresult
                         \* the frame of the VerifyInclusion call

args == <<leaves, fn0, size, root, startPath0, endPath0>>
locals == <<fn, en, sn, k, i, leftRange, rightRange, fr, er, sp, ep>>
call == <<ileaf, iindex, isize, iroot, ipath0, ipath, ir, ifn, isn, ipc, iresult>>
vars == <<args, locals, pc, result, call>>

Results == {"none", "ok", "malformed", "mismatch", "inconsistent"}

\* The call of VerifyInclusion: its arguments and locals are call's variables.
Incl == INSTANCE MerkleInclusion WITH
          Leaves <- Hash, Roots <- Hash, Indices <- 0..(Word - 1),
          Sizes <- 0..(Word - 1), Paths <- UNION {SizePaths(n) : n \in Sizes},
          leaf <- ileaf, index <- iindex, size <- isize, root <- iroot,
          path0 <- ipath0, path <- ipath, r <- ir, fn <- ifn, sn <- isn,
          pc <- ipc, result <- iresult

\* The makeNode argument of extendRange: HashInteriorNode, or with its
\* operands swapped for the left range (rev).
MakeNode(left, right, rev) ==
  IF rev THEN HashInteriorNode(right, left) ELSE HashInteriorNode(left, right)

\* extendRange(cr, i, h, makeNode) from s = i + 1: merge h with the last
\* tree of cr while s is even, then append it.
RECURSIVE ExtendFrom(_, _, _, _)
ExtendFrom(cr, s, h, rev) ==
  IF cr # <<>> /\ IsEven(s)
  THEN ExtendFrom(Front(cr), s \div 2, MakeNode(Last(cr), h, rev), rev)
  ELSE Append(cr, h)

\* The loops of makeLeftRange (leaves taken from the right, rev) and of
\* makeRightRange (from the left), from iteration j on.
RECURSIVE RangeFrom(_, _, _, _)
RangeFrom(ls, cr, j, rev) ==
  IF j >= Len(ls) THEN cr
  ELSE RangeFrom(ls, ExtendFrom(cr, j + 1,
                                IF rev THEN ls[Len(ls) - j] ELSE ls[j + 1], rev),
                 j + 1, rev)

makeLeftRange(ls) == IF ls = <<>> THEN <<>> ELSE RangeFrom(ls, <<Last(ls)>>, 1, TRUE)
makeRightRange(ls) == IF ls = <<>> THEN <<>> ELSE RangeFrom(ls, <<Head(ls)>>, 1, FALSE)

\* en := fn + uint64(len(leaves)) - 1, wrapping around at Word.
lastIndex == (fn0 + Len(leaves) - 1) % Word

\* Mutant: k taken as the bit length of fn ^ en, one level too high.
splitLevelNoDec == DiffLen(fn0, lastIndex)

\* k := bits.Len64(fn ^ en) - 1; split := en & -(1 << k); split - fn.
splitLevel == DiffLen(fn0, lastIndex) - 1
split == lastIndex - (lastIndex % 2^splitLevel)
splitOffset == (split - fn0) % Word

\* Lines 206-225: the checks of the arguments, in the order of the code.
NonEmpty == leaves # <<>>
InRange == NonEmpty /\ lastIndex < size
PathLengthsOK ==
  /\ Len(startPath0) = Incl!inclusionPathLength(fn0, size)
  /\ Len(endPath0) = Incl!inclusionPathLength(lastIndex, size)

\* Lines 234-235: the slices leaves[1:split-fn] and leaves[split-fn:len-1]
\* are within bounds (else the slice expression panics).
SliceOK == 1 <= splitOffset /\ splitOffset <= Len(leaves) - 1

Init ==
  /\ leaves \in LeafSeqs
  /\ fn0 \in Indices
  /\ size \in Sizes
  /\ root \in SizeRoots(size)
  /\ startPath0 \in SizePaths(size)
  /\ endPath0 \in SizePaths(size)
  /\ fn = fn0 /\ en = 0 /\ sn = 0 /\ k = 0 /\ i = 0
  /\ leftRange = <<>> /\ rightRange = <<>>
  /\ fr = root /\ er = root
  /\ sp = startPath0 /\ ep = endPath0
  /\ pc = "entry"
  /\ result = "none"
  /\ ileaf = root /\ iindex = 0 /\ isize = 0 /\ iroot = root
  /\ ipath0 = <<>> /\ ipath = <<>> /\ ir = root /\ ifn = 0 /\ isn = 0
  /\ ipc = "entry" /\ iresult = "none"

\* Lines 206-225: an empty range, a range past the tree, two different
\* paths for a single leaf, or a path of the wrong length.
Reject ==
  /\ pc = "entry"
  /\ \/ ~NonEmpty
     \/ NonEmpty /\ ~InRange
     \/ InRange /\ Len(leaves) = 1 /\ startPath0 # endPath0
     \/ InRange /\ Len(leaves) > 1 /\ ~PathLengthsOK
  /\ pc' = "done"
  /\ result' = "malformed"
  /\ UNCHANGED <<args, locals, call>>

\* Sets up the call VerifyInclusion(&lf, index, n, root, path) as the
\* instance's Init does.
Enter(lf, index, n, path) ==
  /\ ileaf' = lf /\ iindex' = index /\ isize' = n /\ iroot' = root
  /\ ipath0' = path /\ ipath' = path /\ ir' = lf /\ ifn' = 0 /\ isn' = 0
  /\ ipc' = "entry" /\ iresult' = "none"
  /\ pc' = "call"

\* Lines 213-218: a single leaf is an ordinary inclusion proof.
SingleLeaf ==
  /\ pc = "entry"
  /\ InRange
  /\ Len(leaves) = 1
  /\ startPath0 = endPath0
  /\ Enter(Head(leaves), fn0, size, startPath0)
  /\ UNCHANGED <<args, locals, result>>

\* Lines 227-237: k, split, the compact ranges of the inner leaves.
StartBatch ==
  /\ pc = "entry"
  /\ InRange
  /\ Len(leaves) > 1
  /\ PathLengthsOK
  /\ SliceOK
  /\ en' = lastIndex
  /\ k' = splitLevel
  /\ leftRange' = makeLeftRange(SubSeq(leaves, 2, splitOffset))
  /\ rightRange' = makeRightRange(SubSeq(leaves, splitOffset + 1, Len(leaves) - 1))
  /\ fr' = Head(leaves)
  /\ fn' = fn0
  /\ i' = 0
  /\ sp' = startPath0
  /\ ep' = endPath0
  /\ pc' = "left"
  /\ UNCHANGED <<args, sn, er, result, call>>

\* Mutant: the right sibling on startPath not compared with the range.
LeftStepUnchecked ==
  /\ pc = "left"
  /\ i < k
  /\ sp # <<>>
  /\ \/ /\ IsOdd(fn)
        /\ fr' = HashInteriorNode(Head(sp), fr)
        /\ UNCHANGED leftRange
     \/ /\ IsEven(fn)
        /\ leftRange # <<>>
        /\ fr' = HashInteriorNode(fr, Last(leftRange))
        /\ leftRange' = Front(leftRange)
  /\ sp' = Tail(sp)
  /\ fn' = fn \div 2
  /\ i' = i + 1
  /\ UNCHANGED <<args, en, sn, k, rightRange, er, ep, pc, result, call>>

\* Lines 238-253: fn is the right child, the path holds its left sibling;
\* or fn is the left child and the path holds its right sibling, which is
\* the next tree of the left compact range.
LeftStep ==
  /\ pc = "left"
  /\ i < k
  /\ sp # <<>>
  /\ \/ /\ IsOdd(fn)
        /\ fr' = HashInteriorNode(Head(sp), fr)
        /\ UNCHANGED leftRange
     \/ /\ IsEven(fn)
        /\ leftRange # <<>>
        /\ Last(leftRange) = Head(sp)
        /\ fr' = HashInteriorNode(fr, Last(leftRange))
        /\ leftRange' = Front(leftRange)
  /\ sp' = Tail(sp)
  /\ fn' = fn \div 2
  /\ i' = i + 1
  /\ UNCHANGED <<args, en, sn, k, rightRange, er, ep, pc, result, call>>

\* Lines 245-250: the right sibling on startPath is not the compact range's.
LeftInconsistent ==
  /\ pc = "left"
  /\ i < k
  /\ sp # <<>>
  /\ IsEven(fn)
  /\ leftRange # <<>>
  /\ Last(leftRange) # Head(sp)
  /\ pc' = "done"
  /\ result' = "inconsistent"
  /\ UNCHANGED <<args, locals, call>>

\* Lines 257-258: the left loop is done; the right one starts at the last leaf.
LeftDone ==
  /\ pc = "left"
  /\ i = k
  /\ sn' = size - 1
  /\ er' = Last(leaves)
  /\ i' = 0
  /\ pc' = "right"
  /\ UNCHANGED <<args, fn, en, k, leftRange, rightRange, fr, sp, ep, result, call>>

\* Mutant: the left sibling taken from endPath, the range's tree dropped
\* unchecked.
RightStepFromPath ==
  /\ pc = "right"
  /\ i < k
  /\ \/ /\ IsOdd(en)
        /\ rightRange # <<>>
        /\ ep # <<>>
        /\ er' = HashInteriorNode(Head(ep), er)
        /\ rightRange' = Front(rightRange)
        /\ ep' = Tail(ep)
     \/ /\ IsEven(en)
        /\ en < sn
        /\ ep # <<>>
        /\ er' = HashInteriorNode(er, Head(ep))
        /\ ep' = Tail(ep)
        /\ UNCHANGED rightRange
     \/ /\ IsEven(en)
        /\ en >= sn
        /\ UNCHANGED <<er, ep, rightRange>>
  /\ en' = en \div 2
  /\ sn' = sn \div 2
  /\ i' = i + 1
  /\ UNCHANGED <<args, fn, k, leftRange, fr, sp, pc, result, call>>

\* Lines 260-276: en is the right child, its left sibling is the next tree
\* of the right compact range and must be the one on endPath; or en is a
\* left child with a right sibling on endPath; or en has no sibling.
RightStep ==
  /\ pc = "right"
  /\ i < k
  /\ \/ /\ IsOdd(en)
        /\ rightRange # <<>>
        /\ ep # <<>>
        /\ Last(rightRange) = Head(ep)
        /\ er' = HashInteriorNode(Last(rightRange), er)
        /\ rightRange' = Front(rightRange)
        /\ ep' = Tail(ep)
     \/ /\ IsEven(en)
        /\ en < sn
        /\ ep # <<>>
        /\ er' = HashInteriorNode(er, Head(ep))
        /\ ep' = Tail(ep)
        /\ UNCHANGED rightRange
     \/ /\ IsEven(en)
        /\ en >= sn
        /\ UNCHANGED <<er, ep, rightRange>>
  /\ en' = en \div 2
  /\ sn' = sn \div 2
  /\ i' = i + 1
  /\ UNCHANGED <<args, fn, k, leftRange, fr, sp, pc, result, call>>

\* Lines 263-268: the left sibling on endPath is not the compact range's.
RightInconsistent ==
  /\ pc = "right"
  /\ i < k
  /\ IsOdd(en)
  /\ rightRange # <<>>
  /\ ep # <<>>
  /\ Last(rightRange) # Head(ep)
  /\ pc' = "done"
  /\ result' = "inconsistent"
  /\ UNCHANGED <<args, locals, call>>

\* The right loop is done.
RightDone ==
  /\ pc = "right"
  /\ i = k
  /\ pc' = "merge"
  /\ UNCHANGED <<args, locals, result, call>>

\* Lines 278-283: the conditions whose failure the code panics on.
MergeOK ==
  /\ IsEven(fn) /\ IsOdd(en) /\ (fn + 1) % Word = en
  /\ leftRange = <<>> /\ rightRange = <<>>
  /\ sp # <<>>

\* Lines 284-289: each subtree root must be the other path's next node, and
\* the paths above must be the same.
MergeReject ==
  /\ pc = "merge"
  /\ MergeOK
  /\ \/ Head(sp) # er
     \/ Head(sp) = er /\ ep # <<>> /\ Head(ep) # fr
     \/ Head(sp) = er /\ ep # <<>> /\ Head(ep) = fr /\ Tail(sp) # Tail(ep)
  /\ pc' = "done"
  /\ result' = IF Head(sp) = er /\ Head(ep) = fr THEN "malformed" ELSE "inconsistent"
  /\ UNCHANGED <<args, locals, call>>

\* Lines 291-292: merge the two subtrees and verify their parent's
\* inclusion with the common upper path.
Merge ==
  /\ pc = "merge"
  /\ MergeOK
  /\ Head(sp) = er
  /\ ep # <<>>
  /\ Head(ep) = fr
  /\ Tail(sp) = Tail(ep)
  /\ fr' = HashInteriorNode(fr, er)
  /\ Enter(HashInteriorNode(fr, er), fn \div 2, sn \div 2 + 1, Tail(sp))
  /\ UNCHANGED <<args, fn, en, sn, k, i, leftRange, rightRange, er, sp, ep, result>>

\* One step of the running VerifyInclusion call.
CallStep ==
  /\ pc = "call"
  /\ ipc # "done"
  /\ Incl!Reject \/ Incl!StartLoop \/ Incl!Climb \/ Incl!Finish
  /\ UNCHANGED <<args, locals, pc, result>>

\* The call has returned; its error or success is the batch's.
CallReturn ==
  /\ pc = "call"
  /\ ipc = "done"
  /\ pc' = "done"
  /\ result' = iresult
  /\ UNCHANGED <<args, locals, call>>

\* VerifyInclusionBatch has returned.
Returned ==
  /\ pc = "done"
  /\ UNCHANGED vars

Next ==
  \/ Reject \/ SingleLeaf \/ StartBatch
  \/ LeftStep \/ LeftInconsistent \/ LeftDone
  \/ RightStep \/ RightInconsistent \/ RightDone
  \/ MergeReject \/ Merge \/ CallStep \/ CallReturn \/ Returned

Spec == Init /\ [][Next]_vars

-----------------------------------------------------------------------------

TypeOK ==
  /\ leaves \in LeafSeqs
  /\ fn0 \in Indices
  /\ size \in Sizes
  /\ root \in Hash
  /\ startPath0 \in SizePaths(size) /\ endPath0 \in SizePaths(size)
  /\ {fn, en, sn, k, i} \subseteq 0..(Word - 1)
  /\ leftRange \in Seq(Hash) /\ rightRange \in Seq(Hash)
  /\ fr \in Hash /\ er \in Hash
  /\ sp \in Seq(Hash) /\ ep \in Seq(Hash)
  /\ pc \in {"entry", "left", "right", "merge", "call", "done"}
  /\ result \in Results
  /\ ipc \in {"entry", "loop", "done"}

(***************************************************************************)
(* VerifyInclusionBatch never panics, whatever arguments it is given: the  *)
(* slices of lines 234-235 are within bounds, the loops never read         *)
(* startPath[0], endPath[0] or the top of a compact range that is empty    *)
(* (lines 241-273), the "internal error" checks of lines 277-283 hold at   *)
(* the merge, and the final VerifyInclusion call does not panic either.    *)
(***************************************************************************)
BatchInBounds ==
  /\ (pc = "entry" /\ InRange /\ Len(leaves) > 1 /\ PathLengthsOK) => SliceOK
  /\ (pc = "left" /\ i < k) => sp # <<>> /\ (IsEven(fn) => leftRange # <<>>)
  /\ (pc = "right" /\ i < k) =>
        /\ IsOdd(en) => rightRange # <<>> /\ ep # <<>>
        /\ (IsEven(en) /\ en < sn) => ep # <<>>
  /\ pc = "merge" => MergeOK /\ (Head(sp) = er => ep # <<>>)
  /\ pc = "call" => Incl!PathInBounds
=============================================================================
