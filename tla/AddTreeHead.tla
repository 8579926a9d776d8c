----------------------------- MODULE AddTreeHead -----------------------------
(***************************************************************************)
(* The add-tree-head request a log sends a witness (src/unnamed/part_001,  *)
(* lines 325-368): ToASCII writes the key hash, the signed tree head, the  *)
(* old size and the consistency proof; FromASCII reads them back, refuses  *)
(* an old size larger than the tree head's, and for the trivial cases      *)
(* (old size 0 or equal to the size) wants nothing after the old size.     *)
(* The witness then checks the proof against the root of the old tree head *)
(* it cosigned, with VerifyConsistency, modelled by MerkleConsistency on   *)
(* the variables of the call (same names, so the instance needs no WITH).  *)
(*                                                                          *)
(* A request text is the record of its fields as the parser reads them:   *)
(* the tree head's size and root, the old size and the node hashes that   *)
(* follow.  The key hash and the signatures are left out: no check here    *)
(* depends on them.                                                        *)
(***************************************************************************)
EXTENDS Naturals, Sequences

CONSTANTS
  Hash,                   \* crypto.Hash values
  HashInteriorNode(_, _), \* HashInteriorNode(left, right)
  HashEmptyTree,          \* HashEmptyTree()
  SizePairs,              \* candidate <<old_size, size>> of a request
  HeadRoots(_),           \* candidate root hashes of a tree head of size n
  Paths                   \* candidate consistency paths

VARIABLES
  req,    \* the AddTreeHead the log fills in: [old, size, root, path]
  text,   \* the request body the witness receives
  werr,   \* the error of FromASCII, or "none"
  wpc,    \* "parse", "verify" or "done"
  oldSize, newSize, oldRoot, newRoot, path0, \* the call of VerifyConsistency
  path, fn, sn, fr, sr, pc, result

call == <<oldSize, newSize, oldRoot, newRoot, path0, path, fn, sn, fr, sr, pc, result>>
vars == <<req, text, werr, wpc, call>>

Cons == INSTANCE MerkleConsistency

\* Lines 357-368: every field is written, the proof even when it is
\* trivially not needed.
ToASCII(r) == [size |-> r.size, root |-> r.root, old |-> r.old, lines |-> r.path]

\* The trivial cases of line 351.
Trivial(t) == t.old = 0 \/ t.old = t.size

\* Mutant: the check old_size <= size of lines 346-349 dropped.
FromASCIINoOrderCheck(t) ==
  CASE Trivial(t) /\ t.lines # <<>> -> "eof"
    [] OTHER                         -> "none"

\* Lines 332-355: the error FromASCII returns.  In a trivial case GetEOF
\* fails on any line after old_size; otherwise Proof.Parse reads the node
\* hashes that follow.
FromASCII(t) ==
  IF t.old > t.size THEN "invalid"
  ELSE IF Trivial(t) /\ t.lines # <<>> THEN "eof"
  ELSE "none"

Init ==
  /\ req \in UNION {[old : {p[1]}, size : {p[2]}, root : HeadRoots(p[2]), path : Paths] :
                    p \in SizePairs}
  /\ text = ToASCII(req)
  /\ werr = "none"
  /\ wpc = "parse"
  /\ oldSize = 0 /\ newSize = 0 /\ oldRoot = HashEmptyTree /\ newRoot = HashEmptyTree
  /\ path0 = <<>> /\ path = <<>> /\ fn = 0 /\ sn = 0
  /\ fr = HashEmptyTree /\ sr = HashEmptyTree
  /\ pc = "idle" /\ result = "none"

\* The witness parses the body; a request that parses is checked against
\* the root of its own tree head of the old size.
Parse ==
  /\ wpc = "parse"
  /\ werr' = FromASCII(text)
  /\ \/ /\ werr' # "none"
        /\ wpc' = "done"
        /\ UNCHANGED call
     \/ /\ werr' = "none"
        /\ wpc' = "verify"
        /\ oldSize' = text.old
        /\ newSize' = text.size
        /\ oldRoot' \in HeadRoots(text.old)
        /\ newRoot' = text.root
        /\ path0' = IF Trivial(text) THEN <<>> ELSE text.lines
        /\ path' = path0'
        /\ fn' = 0 /\ sn' = 0
        /\ fr' = oldRoot' /\ sr' = oldRoot'
        /\ pc' = "entry"
        /\ result' = "none"
  /\ UNCHANGED <<req, text>>

\* One step of the running VerifyConsistency call.
Verify ==
  /\ wpc = "verify"
  /\ pc # "done"
  /\ Cons!Next
  /\ UNCHANGED <<req, text, werr, wpc>>

\* The call has returned.
Returned ==
  /\ wpc = "verify"
  /\ pc = "done"
  /\ wpc' = "done"
  /\ UNCHANGED <<req, text, werr, call>>

Done ==
  /\ wpc = "done"
  /\ UNCHANGED vars

Next == Parse \/ Verify \/ Returned \/ Done

Spec == Init /\ [][Next]_vars

-----------------------------------------------------------------------------

(***************************************************************************)
(* A witness that checks a parsed add-tree-head request never reaches the  *)
(* panics of VerifyConsistency (lines 75, 80, 85 of the same file): the   *)
(* check old_size <= size of FromASCII (line 346) is what keeps the        *)
(* "left over path elements" panic out of reach, whatever sizes and path  *)
(* the log sends.                                                          *)
(***************************************************************************)
WitnessInBounds == Cons!ConsistencyPathInBounds
=============================================================================
