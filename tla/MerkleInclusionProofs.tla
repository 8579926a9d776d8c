----------------------- MODULE MerkleInclusionProofs -----------------------
(***************************************************************************)
(* Proofs about VerifyInclusion (module MerkleInclusion) for every set of  *)
(* arguments and every hash function that InclusionAssumption allows.      *)
(***************************************************************************)
EXTENDS MerkleInclusion, TLAPS

\* The inductive invariant: the type invariant and the loop order.
IInv == TypeOK /\ LoopOrder

\* Every step of VerifyInclusion keeps the locals and the path well typed.
LEMMA TypeStep == TypeOK /\ [Next]_vars => TypeOK'
<1> SUFFICES ASSUME TypeOK, [Next]_vars PROVE TypeOK'
  OBVIOUS
<1>1. CASE Reject
  BY <1>1 DEF Reject, TypeOK, Results, args
<1>2. CASE StartLoop
  <2>a. size - 1 \in Nat
    BY <1>2, InclusionAssumption DEF StartLoop, TypeOK
  <2>b. QED
    BY <1>2, <2>a, InclusionAssumption DEF StartLoop, TypeOK, args
<1>3. CASE Climb
  <2>a. fn' \in Nat /\ sn' \in Nat
    BY <1>3 DEF Climb, TypeOK
  <2>b. r' \in Hash /\ path' \in Seq(Hash)
    <3>1. CASE LeftSibling
      BY <3>1, InclusionAssumption DEF LeftSibling, TypeOK
    <3>2. CASE RightSibling
      BY <3>2, InclusionAssumption DEF RightSibling, TypeOK
    <3>3. CASE NoSibling
      BY <3>3 DEF NoSibling, TypeOK
    <3>4. QED
      BY <1>3, <3>1, <3>2, <3>3 DEF Climb
  <2>c. QED
    BY <1>3, <2>a, <2>b DEF Climb, TypeOK, args
<1>4. CASE Finish
  BY <1>4 DEF Finish, TypeOK, Results, args
<1>5. CASE Returned \/ UNCHANGED vars
  BY <1>5 DEF Returned, TypeOK, vars
<1>6. QED
  BY <1>1, <1>2, <1>3, <1>4, <1>5 DEF Next

(***************************************************************************)
(* Every state of VerifyInclusion is well typed: the locals r, fn, sn and  *)
(* the path slice keep their types through the checks and every iteration *)
(* of the loop of lines 138-148 for every hash function and every set of   *)
(* arguments that InclusionAssumption allows.                             *)
(***************************************************************************)
THEOREM TypeCorrect == Spec => []TypeOK
<1>1. Init => TypeOK
  BY InclusionAssumption DEF Init, TypeOK, Results
<1>2. QED
  BY <1>1, TypeStep, PTL DEF Spec

\* Halving preserves the order of two naturals (fn >> 1, sn >> 1 at line 138).
LEMMA HalveMonotone ==
  ASSUME NEW a \in Nat, NEW b \in Nat, a <= b
  PROVE  a \div 2 <= b \div 2 /\ a \div 2 \in Nat
BY SMT

(***************************************************************************)
(* The climb of VerifyInclusion never passes the last node of a layer      *)
(* (LoopOrder, checked by run inclusion): the range check of line 109      *)
(* gives index <= size - 1 when the loop starts, and halving both ends of  *)
(* the layer at each iteration keeps fn <= sn.  IInv adds the type         *)
(* invariant, which the step needs for fn and sn to be naturals.           *)
(***************************************************************************)
THEOREM LoopOrderHolds == Spec => []LoopOrder
<1>1. Init => IInv
  BY InclusionAssumption DEF Init, IInv, TypeOK, Results, LoopOrder
<1>2. IInv /\ [Next]_vars => IInv'
  <2> SUFFICES ASSUME IInv, [Next]_vars PROVE IInv'
    OBVIOUS
  <2>1. TypeOK'
    BY TypeStep DEF IInv
  <2>2. LoopOrder'
    <3>1. CASE StartLoop
      BY <3>1, InclusionAssumption DEF StartLoop, IInv, TypeOK, LoopOrder
    <3>2. CASE Climb
      <4>1. fn \in Nat /\ sn \in Nat /\ fn <= sn
        BY <3>2 DEF Climb, IInv, TypeOK, LoopOrder
      <4>2. fn' = fn \div 2 /\ sn' = sn \div 2
        BY <3>2 DEF Climb
      <4>3. QED
        BY <4>1, <4>2, HalveMonotone DEF LoopOrder
    <3>3. CASE Reject \/ Finish \/ Returned \/ UNCHANGED vars
      BY <3>3 DEF Reject, Finish, Returned, vars, IInv, LoopOrder
    <3>4. QED
      BY <3>1, <3>2, <3>3 DEF Next
  <2>3. QED
    BY <2>1, <2>2 DEF IInv
<1>3. IInv => LoopOrder
  BY DEF IInv
<1>4. QED
  BY <1>1, <1>2, <1>3, PTL DEF Spec
=============================================================================
