------------------------- MODULE SigsumProofProofs -------------------------
(***************************************************************************)
(* Proofs about the proof bundle (module SigsumProof) for every set of     *)
(* bundles, messages and keys that ProofAssumption allows.                 *)
(***************************************************************************)
EXTENDS SigsumProof, SequenceTheorems, TLAPS

(***************************************************************************)
(* FromASCII reads back what ToASCII wrote for a bundle of a tree of at    *)
(* least one leaf: the writer's "size <= 1" (line 164) and the parser's    *)
(* "size == 1" (line 134) agree, and the inclusion proof of a one-leaf     *)
(* tree, which is not written, is read as the empty one.                   *)
(***************************************************************************)
LEMMA ParseWritten ==
  ASSUME NEW p \in Bundles, p.th.size >= 1
  PROVE  FromASCII(ToASCII(p)) =
           [err |-> "none",
            sp |-> IF p.th.size = 1 THEN [p EXCEPT !.incl = NoInclusion] ELSE p]
<1> DEFINE b1 == [kind |-> "leaf", version |-> 0, log |-> p.logKeyHash, leaf |-> p.leaf]
           b2 == [kind |-> "head", th |-> p.th]
           b3 == [kind |-> "incl", incl |-> p.incl]
<1>1. p = [logKeyHash |-> p.logKeyHash, leaf |-> p.leaf, th |-> p.th, incl |-> p.incl]
      /\ p.th.size \in Nat
  BY ProofAssumption
<1>2. CASE p.th.size = 1
  <2>1. ToASCII(p) = <<b1, b2>>
    BY <1>2 DEF ToASCII
  <2>2. FromASCII(<<b1, b2>>) = Parsed(<<b1, b2>>, NoInclusion)
    BY <1>2 DEF FromASCII
  <2>3. Parsed(<<b1, b2>>, NoInclusion) = [err |-> "none", sp |-> [p EXCEPT !.incl = NoInclusion]]
    BY <1>1 DEF Parsed
  <2>4. QED
    BY <1>2, <2>1, <2>2, <2>3
<1>3. CASE p.th.size # 1
  <2>1. p.th.size > 1
    BY <1>1, <1>3
  <2>2. ToASCII(p) = <<b1, b2, b3>>
    <3>1. ToASCII(p) = <<b1, b2>> \o <<b3>>
      <4>1. ~(p.th.size <= 1)
        BY <1>1, <2>1
      <4>2. QED
        BY <4>1, Zenon DEF ToASCII
    <3>2. <<b1, b2>> \o <<b3>> = <<b1, b2, b3>>
      <4> DEFINE S == {b1, b2, b3}
      <4>1. <<b1, b2>> \in Seq(S) /\ <<b3>> \in Seq(S) /\ <<b1, b2, b3>> \in Seq(S)
        OBVIOUS
      <4>2. /\ <<b1, b2>> \o <<b3>> \in Seq(S)
            /\ Len(<<b1, b2>> \o <<b3>>) = 3
            /\ \A i \in 1..3 : (<<b1, b2>> \o <<b3>>)[i] = <<b1, b2, b3>>[i]
        BY <4>1, ConcatProperties
      <4>3. QED
        BY <4>1, <4>2, SeqEqual
    <3>3. QED
      BY <3>1, <3>2
  <2>3. FromASCII(<<b1, b2, b3>>) = Parsed(<<b1, b2, b3>>, p.incl)
    BY <2>1 DEF FromASCII
  <2>4. Parsed(<<b1, b2, b3>>, p.incl) = [err |-> "none", sp |-> p]
    BY <1>1 DEF Parsed
  <2>5. QED
    BY <1>3, <2>2, <2>3, <2>4
<1>4. QED
  BY <1>2, <1>3

\* The bundle read back from what ToASCII wrote for p.
ReadBack(p) == IF p.th.size = 1 THEN [p EXCEPT !.incl = NoInclusion] ELSE p

(***************************************************************************)
(* The inductive invariant of RoundTrip: once the file is parsed, a file   *)
(* that ToASCII wrote has been read back.                                  *)
(***************************************************************************)
IInv ==
  /\ sp \in Bundles
  /\ pc \in {"parse", "verify", "done"}
  /\ pc # "parse" /\ text = ToASCII(sp) /\ sp.th.size >= 1 =>
       parsed = [err |-> "none", sp |-> ReadBack(sp)]

LEMMA InitIInv == Init => IInv
BY DEF Init, IInv

\* Every step keeps the inductive invariant; parsing by ParseWritten.
LEMMA NextIInv == IInv /\ [Next]_vars => IInv'
<1> SUFFICES ASSUME IInv, [Next]_vars PROVE IInv'
  OBVIOUS
<1>1. CASE ParseFile
  <2>1. sp' = sp /\ text' = text /\ parsed' = FromASCII(text) /\ pc' \in {"verify", "done"}
    BY <1>1 DEF ParseFile
  <2>2. text = ToASCII(sp) /\ sp.th.size >= 1 =>
          FromASCII(text) = [err |-> "none", sp |-> ReadBack(sp)]
    BY ParseWritten DEF IInv, ReadBack
  <2>3. QED
    BY <2>1, <2>2 DEF IInv
<1>2. CASE VerifyProof
  BY <1>2 DEF VerifyProof, IInv
<1>3. CASE Returned \/ UNCHANGED vars
  BY <1>3 DEF Returned, vars, IInv
<1>4. QED
  BY <1>1, <1>2, <1>3 DEF Next

(***************************************************************************)
(* Parsing a bundle file ToASCII wrote gives back the bundle, its         *)
(* inclusion proof emptied for a one-leaf tree (RoundTrip, checked by run *)
(* proof_bundle), for every set of bundles of trees of any size.          *)
(***************************************************************************)
THEOREM RoundTripHolds == Spec => []RoundTrip
<1>1. IInv => RoundTrip
  BY DEF IInv, RoundTrip, ReadBack
<1>2. QED
  BY InitIInv, NextIInv, <1>1, PTL DEF Spec
=============================================================================
