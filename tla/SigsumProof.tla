----------------------------- MODULE SigsumProof -----------------------------
(***************************************************************************)
(* The proof bundle of pkg/proof (src/pkg/proof/proof.go): a SigsumProof   *)
(* (log key hash, short leaf, cosigned tree head, inclusion proof), its    *)
(* text form of two or three blocks separated by an empty line (ToASCII,   *)
(* lines 147-172), the parser (FromASCII, lines 89-145) and the check of   *)
(* a bundle against a message and a submitter key (Verify, lines          *)
(* 174-191).                                                               *)
(*                                                                          *)
(* A text is the sequence of its blocks (bytes.Split on "\n\n", line 96); *)
(* a block is the record its parser reads, or "bad" where that parser      *)
(* fails.  crypto.HashBytes is collision-free: the checksum of a message   *)
(* is the message itself, the hash of a key is the key, and a signature is *)
(* the pair of its signer and what it signs.  The short checksum keeps     *)
(* the first ShortChecksumSize bytes: different messages share it.         *)
(*                                                                          *)
(* sp.Inclusion.Verify (line 190) is merkle.VerifyInclusion, modelled      *)
(* step by step in MerkleInclusion; its MCMerkleInclusion run shows that   *)
(* it accepts exactly the honest audit path of the leaf in the tree whose  *)
(* root it is given.  Here it is that reference result over the histories  *)
(* a root may come from.  Only TLC runs use this module.                   *)
(***************************************************************************)
EXTENDS MerkleTree

CONSTANTS
  Msgs,        \* the messages (their checksums) a submitter signs
  Keys,        \* public keys, identified with their key hashes
  LogKey,      \* the log's key
  Logged,      \* the leaf hashes of the history the log published
  Forged,      \* those of a history the log signed a head of, in a split view
  ShortOf(_),  \* the truncated checksum of a message
  Bundles,     \* the SigsumProofs a verifier may be handed
  TextsOf(_)   \* the bundle files made from one of them

\* A bundle is a SigsumProof struct (lines 68-73): its four fields, a tree
\* size and a leaf index that are unsigned integers.
ASSUME ProofAssumption ==
  /\ LogKey \in Keys
  /\ Msgs \subseteq Nat
  /\ \A m \in Msgs : ShortOf(m) \in Nat
  /\ \A p \in Bundles :
       /\ p = [logKeyHash |-> p.logKeyHash, leaf |-> p.leaf, th |-> p.th, incl |-> p.incl]
       /\ p.th.size \in Nat
       /\ p.incl.index \in Nat

VARIABLES
  sp,      \* the SigsumProof the bundle was made from
  text,    \* the bundle file
  msg,     \* the message the verifier checks
  key,     \* the submitter key the verifier trusts
  parsed,  \* the result of FromASCII: [err, sp]
  result,  \* the result of Verify
  pc       \* "parse", "verify" or "done"

vars == <<sp, text, msg, key, parsed, result, pc>>

\* A leaf of the log: checksum, signature of the checksum, key hash.
MakeLeaf(m, k) == [checksum |-> m, sig |-> [by |-> k, of |-> m], keyHash |-> k]

\* NewShortLeaf (lines 29-33).
NewShortLeaf(l) == [short |-> ShortOf(l.checksum), sig |-> l.sig, keyHash |-> l.keyHash]

\* The inclusion proof of the empty path, types.InclusionProof{}.
NoInclusion == [index |-> 0, path |-> <<>>]

\* Mutant: the inclusion block also written for a tree of one leaf.
ToASCIIAlwaysInclusion(p) ==
  <<[kind |-> "leaf", version |-> 0, log |-> p.logKeyHash, leaf |-> p.leaf],
    [kind |-> "head", th |-> p.th]>>
    \o (IF p.th.size < 1 THEN <<>> ELSE <<[kind |-> "incl", incl |-> p.incl]>>)

\* Lines 147-172: version, log and leaf lines; the tree head; and the
\* inclusion proof only for a tree of more than one leaf.
ToASCII(p) ==
  <<[kind |-> "leaf", version |-> 0, log |-> p.logKeyHash, leaf |-> p.leaf],
    [kind |-> "head", th |-> p.th]>>
    \o (IF p.th.size <= 1 THEN <<>> ELSE <<[kind |-> "incl", incl |-> p.incl]>>)

Fail(e) == [err |-> e, sp |-> sp]
Parsed(b, incl) ==
  [err |-> "none",
   sp |-> [logKeyHash |-> b[1].log, leaf |-> b[1].leaf, th |-> b[2].th, incl |-> incl]]

\* Lines 89-145: the first block (version 0, log, leaf, end), the tree
\* head, then two blocks for a tree of one leaf, three otherwise.
FromASCII(b) ==
  IF Len(b) < 2 THEN Fail("parts")
  ELSE IF b[1].kind # "leaf" THEN Fail("leaf")
  ELSE IF b[1].version # 0 THEN Fail("version")
  ELSE IF b[2].kind # "head" THEN Fail("head")
  ELSE IF b[2].th.size = 0 THEN Fail("empty")
  ELSE IF b[2].th.size = 1 THEN (IF Len(b) # 2 THEN Fail("parts") ELSE Parsed(b, NoInclusion))
  ELSE IF Len(b) # 3 THEN Fail("parts")
  ELSE IF b[3].kind # "incl" THEN Fail("inclusion")
  ELSE Parsed(b, b[3].incl)

\* policy.VerifyCosignedTreeHead: a head the log signed and the witnesses
\* cosigned, for the log the policy knows (pkg/policy, spec section 4.7).
PolicyOK(lkh, th) == lkh = LogKey /\ th.signer = LogKey /\ th.cosigned

\* sp.Inclusion.Verify(&leafHash, &th): the audit path of the leaf in the
\* tree of the head, over the histories its root may come from.
InclusionOK(lh, incl, th) ==
  /\ incl.index < th.size
  /\ \E h \in {Logged, Forged} :
       /\ th.size <= Len(h)
       /\ th.root = Root(h, th.size)
       /\ lh = h[incl.index + 1]
       /\ incl.path = AuditPath(h, incl.index, 0, th.size)

\* Mutant: the tree head not checked against the policy (line 186).
VerifyNoPolicy(p, m, k) ==
  LET leaf == [checksum |-> m, sig |-> p.leaf.sig, keyHash |-> p.leaf.keyHash]
  IN  IF p.leaf.short # ShortOf(m) THEN "checksum"
      ELSE IF p.leaf.keyHash # k THEN "keyHash"
      ELSE IF leaf.sig # [by |-> k, of |-> m] THEN "signature"
      ELSE IF ~InclusionOK(LeafHash(leaf), p.incl, p.th) THEN "inclusion"
      ELSE "ok"

\* Lines 174-191 with ToLeaf (lines 35-40): the short checksum against the
\* message's, the key hash, the leaf signature, the tree head under the
\* policy, and the inclusion of the rebuilt leaf.
Verify(p, m, k) ==
  LET leaf == [checksum |-> m, sig |-> p.leaf.sig, keyHash |-> p.leaf.keyHash]
  IN  IF p.leaf.short # ShortOf(m) THEN "checksum"
      ELSE IF p.leaf.keyHash # k THEN "keyHash"
      ELSE IF leaf.sig # [by |-> k, of |-> m] THEN "signature"
      ELSE IF ~PolicyOK(p.logKeyHash, p.th) THEN "policy"
      ELSE IF ~InclusionOK(LeafHash(leaf), p.incl, p.th) THEN "inclusion"
      ELSE "ok"

Init ==
  /\ sp \in Bundles
  /\ text \in TextsOf(sp)
  /\ msg \in Msgs
  /\ key \in Keys
  /\ parsed = [err |-> "none", sp |-> sp]
  /\ result = "none"
  /\ pc = "parse"

\* The verifier reads the bundle file.
ParseFile ==
  /\ pc = "parse"
  /\ parsed' = FromASCII(text)
  /\ pc' = IF parsed'.err = "none" THEN "verify" ELSE "done"
  /\ result' = IF parsed'.err = "none" THEN "none" ELSE "malformed"
  /\ UNCHANGED <<sp, text, msg, key>>

\* The verifier checks the parsed bundle.
VerifyProof ==
  /\ pc = "verify"
  /\ result' = Verify(parsed.sp, msg, key)
  /\ pc' = "done"
  /\ UNCHANGED <<sp, text, msg, key, parsed>>

Returned ==
  /\ pc = "done"
  /\ UNCHANGED vars

Next == ParseFile \/ VerifyProof \/ Returned

Spec == Init /\ [][Next]_vars

-----------------------------------------------------------------------------

(***************************************************************************)
(* Parsing what ToASCII wrote gives back the bundle (spec section 8,       *)
(* scenario 5) for every tree of at least one leaf, with the inclusion     *)
(* proof of a one-leaf tree emptied: the writer's "size <= 1" (line 164)   *)
(* and the parser's "size == 1" (line 134) agree on which bundles carry a  *)
(* third block.                                                            *)
(***************************************************************************)
RoundTrip ==
  pc = "done" /\ text = ToASCII(sp) /\ sp.th.size >= 1 =>
    /\ parsed.err = "none"
    /\ parsed.sp = IF sp.th.size = 1 THEN [sp EXCEPT !.incl = NoInclusion] ELSE sp

(***************************************************************************)
(* A bundle that verifies proves that the log published the message,      *)
(* signed by the trusted submitter key: whatever the bundle's leaf, head   *)
(* and path, Verify (lines 174-191) accepts only a leaf of the published   *)
(* history, although the bundle carries only a two-byte checksum and a     *)
(* head the log signed in a split view.                                    *)
(***************************************************************************)
AcceptsOnlyLogged ==
  result = "ok" => \E i \in 1..Len(Logged) : Logged[i] = LeafHash(MakeLeaf(msg, key))
=============================================================================
