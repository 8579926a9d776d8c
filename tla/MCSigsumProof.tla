---------------------------- MODULE MCSigsumProof ----------------------------
(***************************************************************************)
(* A log of three leaves, and a split-view history in which its third leaf *)
(* is replaced by a message of the same submitter that the log never       *)
(* published; the log signed heads of both, and only those of the         *)
(* published history are cosigned.  The bundles are the honest bundles of  *)
(* every leaf of every head, each with its key hash of the log, its leaf   *)
(* or its path taken from another leaf; each is written as ToASCII does,   *)
(* with its last block cut off, or with an inclusion block appended.       *)
(***************************************************************************)
EXTENDS SigsumProof

MCMsgs == 0..3
MCKeys == {"a", "b", "log"}
\* Two bytes of checksum scaled down to one bit: messages 0 and 2 share it.
MCShortOf(m) == m % 2

LoggedLeaves == <<MakeLeaf(0, "a"), MakeLeaf(1, "b"), MakeLeaf(2, "a")>>
ForgedLeaves == [LoggedLeaves EXCEPT ![3] = MakeLeaf(3, "a")]
Hashes(ls) == [i \in 1..Len(ls) |-> LeafHash(ls[i])]
MCLogged == Hashes(LoggedLeaves)
MCForged == Hashes(ForgedLeaves)

HeadOf(h, n, cos) == [size |-> n, root |-> Root(Hashes(h), n), signer |-> "log", cosigned |-> cos]

\* The honest bundle of leaf i of the head of size n of history h.
Honest(h, n, i, cos) ==
  [logKeyHash |-> "log", leaf |-> NewShortLeaf(h[i + 1]), th |-> HeadOf(h, n, cos),
   incl |-> [index |-> i, path |-> AuditPath(Hashes(h), i, 0, n)]]

HonestBundles ==
  {Honest(LoggedLeaves, n, i, TRUE) : n \in 1..3, i \in 0..2} \cup
  {Honest(ForgedLeaves, n, i, FALSE) : n \in 3..3, i \in 0..2}

MCBundles ==
  LET ok == {b \in HonestBundles : b.incl.index < b.th.size}
  IN  ok \cup {[b EXCEPT !.logKeyHash = "a"] : b \in ok}
         \cup {[b EXCEPT !.leaf = NewShortLeaf(LoggedLeaves[((b.incl.index + 1) % 3) + 1])] : b \in ok}
         \cup {[b EXCEPT !.incl.path = AuditPath(MCLogged, (b.incl.index + 1) % b.th.size, 0, b.th.size)] : b \in ok}
         \cup {[logKeyHash |-> "log", leaf |-> NewShortLeaf(LoggedLeaves[1]),
                th |-> HeadOf(LoggedLeaves, 0, TRUE), incl |-> NoInclusion]}

MCTextsOf(p) ==
  LET t == ToASCII(p)
  IN  {t, SubSeq(t, 1, Len(t) - 1), t \o <<[kind |-> "incl", incl |-> p.incl]>>}
=============================================================================
