----------------------------- MODULE MerkleTree -----------------------------
(***************************************************************************)
(* Reference definitions of the Merkle tree of RFC 9162, section 2.1, in a *)
(* collision-free term model of the hash: the leaf hash of a leaf is a     *)
(* term <<x>> and HashInteriorNode(l, r) is the term <<l, r>>.  A history *)
(* hist is a sequence of leaf hashes; an honest log's tree of size n is    *)
(* built on its first n leaves.  These definitions are what an honest log  *)
(* computes (the tree backend is not part of this repository); the         *)
(* verifier modules are checked against them.  The recursion is written   *)
(* as recursive functions, so that modules built on these definitions can  *)
(* be proved about (nothing is proved about the definitions themselves).   *)
(***************************************************************************)
EXTENDS Naturals, Sequences

\* A leaf hash, HashLeafNode(leaf), of the leaf with data x.
LeafHash(x) == <<x>>

\* The exact interior-node hash, without any collision.
Node(l, r) == <<l, r>>

\* HashEmptyTree(): the root of the tree of size 0; no leaf or node equals it.
EmptyRoot == <<>>

\* RFC 9162: the largest power of two smaller than n, for n > 1.
Split(n) == CHOOSE k \in 1..n : k < n /\ n <= 2 * k /\ \E j \in 0..n : k = 2^j

\* MTH(D[lo:hi]), the Merkle tree hash of the leaves lo .. hi-1 of hist.
MTH(hist, lo, hi) ==
  LET mth[l \in Nat, h \in Nat] ==
        IF h - l = 1 THEN hist[l + 1]
        ELSE LET k == Split(h - l)
             IN  Node(mth[l, l + k], mth[l + k, h])
  IN  mth[lo, hi]

\* Root hash of the tree of the first n leaves of hist.
Root(hist, n) == IF n = 0 THEN EmptyRoot ELSE MTH(hist, 0, n)

\* PATH(m, D[lo:hi]) of RFC 9162 2.1.3.1: the inclusion proof of leaf lo+m,
\* siblings listed from the leaf upwards.
AuditPath(hist, m, lo, hi) ==
  LET path[i \in Nat, l \in Nat, h \in Nat] ==
        IF h - l = 1 THEN <<>>
        ELSE LET k == Split(h - l)
             IN  IF i < k
                 THEN Append(path[i, l, l + k], MTH(hist, l + k, h))
                 ELSE Append(path[i - k, l + k, h], MTH(hist, l, l + k))
  IN  path[m, lo, hi]

\* SUBPROOF(m, D[lo:hi], b) of RFC 9162 2.1.4.1.
SubProof(hist, m, lo, hi, b) ==
  LET sub[i \in Nat, l \in Nat, h \in Nat, c \in BOOLEAN] ==
        IF i = h - l THEN (IF c THEN <<>> ELSE <<MTH(hist, l, h)>>)
        ELSE LET k == Split(h - l)
             IN  IF i <= k
                 THEN Append(sub[i, l, l + k, c], MTH(hist, l + k, h))
                 ELSE Append(sub[i - k, l + k, h, FALSE], MTH(hist, l, l + k))
  IN  sub[m, lo, hi, b]

\* PROOF(m, D[n]) of RFC 9162 2.1.4.1, with the empty proof for the trivial
\* cases m = 0 and m = n.
ConsistencyPath(hist, m, n) ==
  IF m = 0 \/ m = n THEN <<>> ELSE SubProof(hist, m, 0, n, TRUE)

\* The hashes of all leaf ranges of hist within its first n leaves.
Ranges(hist, n) == UNION {{MTH(hist, lo, hi) : hi \in lo + 1..n} : lo \in 0..n - 1}

\* The hashes of the nodes of the trees of at most n leaves of hist: the
\* ranges aligned to a power of two, cut at the tree size.
Nodes(hist, n) ==
  UNION {{MTH(hist, lo, IF lo + 2^j < n THEN lo + 2^j ELSE n) :
            lo \in {i * 2^j : i \in 0..n} \cap 0..n - 1} : j \in 0..n}
=============================================================================
