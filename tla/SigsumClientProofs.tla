------------------------- MODULE SigsumClientProofs -------------------------
(***************************************************************************)
(* Proofs about one call of the log client (module SigsumClient) over a   *)
(* failing network, for every set of request arguments and log errors     *)
(* that ClientAssumption allows.                                           *)
(***************************************************************************)
EXTENDS SigsumClient, TLAPS

\* The part of the type invariant the proofs need: the counters of
\* attempts and sleeps, which no guard reads, are left out.
Shape ==
  /\ method \in Methods
  /\ cpc \in {"try", "flight", "served", "sleep", "read", "done"}
  /\ leaf \in {"absent", "accepted", "persisted"}

(***************************************************************************)
(* What the add-leaf handler last answered is backed by the log's copy of *)
(* the leaf, which never goes back: 200 only for a persisted leaf, 202    *)
(* only for one the log holds.  A response received is the one the last   *)
(* handler wrote.                                                          *)
(***************************************************************************)
AnswerBacked ==
  /\ cpc \in {"served", "read"} => sep # "none"
  /\ cpc = "read" => status = Srv!Sent
  /\ method = "add-leaf" /\ sep # "none" =>
       /\ Srv!Sent = 200 => leaf = "persisted"
       /\ Srv!Sent = 202 => leaf # "absent"

\* The inductive invariant of ResultBacked.
IInv == Shape /\ AnswerBacked /\ ResultBacked

-----------------------------------------------------------------------------

(***************************************************************************)
(* The add-leaf handler run on the client's request (body parsed, no      *)
(* Sigsum-Token header) with the log's answer out answers 200 only when   *)
(* the log now holds the leaf persisted, and 202 only when it holds it.   *)
(***************************************************************************)
LEMMA AddLeafServed ==
  ASSUME leaf \in {"absent", "accepted", "persisted"},
         NEW out \in LogAnswers(leaf),
         Srv!AddLeafOn("ok", "none", out),
         leaf' = LogAfter(leaf, out)
  PROVE  /\ sep' # "none"
         /\ Srv!Sent' = 200 => leaf' = "persisted"
         /\ Srv!Sent' = 202 => leaf' # "absent"
<1> DEFINE r == Srv!Call(Srv!Start, "add-leaf", 0, 0, out)
<1>1. sep' = "add-leaf"
  BY DEF Srv!AddLeafOn
<1>2. \/ out \in LogErrors /\ sresp' = Srv!Finish(Srv!ReportCode(r, Srv!StatusOf(out)))
      \/ out = "accepted" /\ sresp' = Srv!Finish(Srv!ReportCode(r, Srv!StatusOf("accepted")))
      \/ out = "persisted" /\ sresp' = Srv!Finish(r)
  BY DEF Srv!AddLeafOn
<1>3. ASSUME NEW c PROVE Srv!Finish(Srv!ReportCode(r, c)).st[1] = c
  BY DEF Srv!Finish, Srv!ReportCode, Srv!Call, Srv!Start
<1>4. Srv!Finish(r).st[1] = 200
  BY DEF Srv!Finish, Srv!Call, Srv!Start
<1>5. CASE out \in LogErrors /\ sresp' = Srv!Finish(Srv!ReportCode(r, Srv!StatusOf(out)))
  <2>1. Srv!StatusOf(out) \notin {200, 202}
    BY <1>5, ClientAssumption DEF Srv!StatusOf
  <2>2. QED
    BY <1>1, <1>3, <1>5, <2>1 DEF Srv!Sent
<1>6. CASE out = "accepted" /\ sresp' = Srv!Finish(Srv!ReportCode(r, Srv!StatusOf("accepted")))
  <2>1. leaf # "persisted"
    BY <1>6 DEF LogAnswers
  <2>2. leaf' = "accepted"
    BY <1>6, <2>1 DEF LogAfter
  <2>3. Srv!Sent' = 202
    BY <1>3, <1>6 DEF Srv!StatusOf, Srv!Sent
  <2>4. QED
    BY <1>1, <2>2, <2>3
<1>7. CASE out = "persisted" /\ sresp' = Srv!Finish(r)
  <2>1. leaf' = "persisted"
    BY <1>7 DEF LogAfter
  <2>2. QED
    BY <1>1, <2>1
<1>8. QED
  BY <1>2, <1>5, <1>6, <1>7

\* The invariants the steps below preserve, spelled out for the provers.
USE DEF IInv, Shape, AnswerBacked, ResultBacked, Srv!Sent

\* A call starts with no response and no result.
LEMMA InitIInv == Init => IInv
BY DEF Init, Methods, Srv!Start

(***************************************************************************)
(* do() returning: the result of AddLeaf or of a get method is backed by  *)
(* the status of the response received, which is the one the handler     *)
(* wrote.                                                                  *)
(***************************************************************************)
LEMMA ReturnStep ==
  ASSUME IInv, Return PROVE IInv'
<1>1. PICK readOK, sigOK \in BOOLEAN :
        ret' = IF method = "add-leaf" THEN AddLeafResult(DoErr(readOK))
                                      ELSE GetResult(DoErr(readOK), sigOK)
  BY DEF Return
<1>2. /\ cpc = "read" /\ cpc' = "done"
      /\ UNCHANGED <<method, status, leaf, sep, sresp>>
  BY DEF Return
<1>3. status = Srv!Sent /\ sep # "none"
  BY <1>2
<1>4. CASE method = "add-leaf"
  <2>1. ret'.err = "none" => status \in {200, 202} /\ (ret'.val => status = 200)
    BY <1>1, <1>4 DEF AddLeafResult, DoErr
  <2>2. QED
    BY <1>2, <1>3, <1>4, <2>1 DEF Srv!Sent
<1>5. CASE method # "add-leaf"
  <2>1. ret'.err = "none" => status = 200 /\ sresp.data = <<"object">> /\ ret'.val
    BY <1>1, <1>5 DEF GetResult, DoErr
  <2>2. QED
    BY <1>2, <1>3, <1>5, <2>1 DEF Srv!Sent
<1>6. QED
  BY <1>4, <1>5

(***************************************************************************)
(* A handler running on the request, the first time or again after a      *)
(* retry that the transport rewound: what it answers is backed by the     *)
(* log's copy of the leaf (AddLeafServed), which never goes back.          *)
(***************************************************************************)
LEMMA ServeStep ==
  ASSUME IInv, Serve PROVE IInv'
<1>1. /\ cpc = "flight" /\ cpc' = "served"
      /\ UNCHANGED <<method, status, ret>>
  BY DEF Serve
<1>2. CASE method = "add-leaf"
  <2>1. PICK out \in LogAnswers(leaf) :
          Srv!AddLeafOn("ok", "none", out) /\ leaf' = LogAfter(leaf, out)
    BY <1>2 DEF Serve
  <2>2. /\ sep' # "none"
        /\ Srv!Sent' = 200 => leaf' = "persisted"
        /\ Srv!Sent' = 202 => leaf' # "absent"
    BY <2>1, AddLeafServed
  <2>3. leaf' \in {"absent", "accepted", "persisted"}
    BY <2>1 DEF LogAfter
  <2>4. QED
    BY <1>1, <1>2, <2>2, <2>3
<1>3. CASE method # "add-leaf"
  <2>1. sep' # "none" /\ leaf' = leaf
    BY <1>3 DEF Serve, Methods, Srv!GetTreeHead, Srv!GetInclusionProofOn,
                Srv!GetConsistencyProofOn, Srv!GetLeavesOn
  <2>2. QED
    BY <1>1, <1>3, <2>1
<1>4. QED
  BY <1>2, <1>3

\* Every step keeps the inductive invariant.
LEMMA NextIInv == IInv /\ [Next]_vars => IInv'
<1> SUFFICES ASSUME IInv, [Next]_vars PROVE IInv'
  OBVIOUS
<1>1. CASE Attempt
  BY <1>1 DEF Attempt
<1>2. CASE Serve
  BY <1>2, ServeStep
<1>3. CASE Drop
  BY <1>3 DEF Drop
<1>4. CASE Receive
  BY <1>4 DEF Receive
<1>5. CASE Sleep
  BY <1>5 DEF Sleep
<1>6. CASE GiveUp
  BY <1>6 DEF GiveUp
<1>7. CASE Return
  BY <1>7, ReturnStep
<1>8. CASE Persist
  BY <1>8 DEF Persist, Srv!Sent
<1>9. CASE Cancel
  BY <1>9 DEF Cancel
<1>10. CASE Returned
  BY <1>10 DEF Returned, vars
<1>11. CASE UNCHANGED vars
  BY <1>11 DEF vars
<1>12. QED
  BY <1>1, <1>2, <1>3, <1>4, <1>5, <1>6, <1>7, <1>8, <1>9, <1>10, <1>11
     DEF Next, CallStep

\* The temporal steps below see IInv and the properties as atoms.
HIDE DEF IInv, Shape, AnswerBacked, ResultBacked, Srv!Sent

\* IInv holds in every state of every behaviour.
LEMMA AlwaysIInv == Spec => []IInv
BY InitIInv, NextIInv, PTL DEF Spec

(***************************************************************************)
(* A client method's result without error is backed by the log and the    *)
(* handler (ResultBacked, checked by run client): AddLeaf's (true, nil)   *)
(* means persisted and (false, nil) held; a get method's value comes from *)
(* a 200 answer with one whole object.                                     *)
(***************************************************************************)
THEOREM ResultBackedHolds == Spec => []ResultBacked
<1>1. IInv => ResultBacked
  BY DEF IInv
<1>2. QED
  BY AlwaysIInv, <1>1, PTL

=============================================================================
