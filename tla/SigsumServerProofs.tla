------------------------- MODULE SigsumServerProofs -------------------------
(***************************************************************************)
(* Proofs about the HTTP handlers of NewLog (module SigsumServer), for     *)
(* every set of URL numbers and log errors that ServerAssumption allows.   *)
(***************************************************************************)
EXTENDS SigsumServer, TLAPS

\* StatusHonest of one response x.
HonestResp(x) ==
  /\ x.st[1] = 200 => x.calls # <<>> /\
                      \A i \in 1..Len(x.calls) : x.calls[i].out \in {"ok", "persisted"}
  /\ x.st[1] = 202 => \E i \in 1..Len(x.calls) : x.calls[i].out = "accepted"

\* The response a handler starts from: nothing written, or the 400 of a
\* request that failed to parse (lines 29 and 51, which do not return).
Begun == {Start, ReportCode(Start, 400)}

\* A response record: the fields every writer updates.
IsResp(r) == {"st", "data", "calls"} \subseteq DOMAIN r

\* What each writer of a response does to the statuses and the log calls.
LEMMA StartFields == IsResp(Start) /\ Start.st = <<>> /\ Start.calls = <<>>
BY DEF IsResp, Start

LEMMA ReportCodeFields ==
  ASSUME NEW r, IsResp(r), NEW code
  PROVE  /\ IsResp(ReportCode(r, code))
         /\ ReportCode(r, code).st = Append(r.st, code)
         /\ ReportCode(r, code).calls = r.calls
BY Zenon DEF IsResp, ReportCode

LEMMA WriteFields ==
  ASSUME NEW r, IsResp(r), NEW item
  PROVE  /\ IsResp(Write(r, item))
         /\ Write(r, item).st = IF r.st = <<>> THEN <<200>> ELSE r.st
         /\ Write(r, item).calls = r.calls
BY Zenon DEF IsResp, Write

LEMMA CallFields ==
  ASSUME NEW r, IsResp(r), NEW kind, NEW a, NEW b, NEW out
  PROVE  /\ IsResp(Call(r, kind, a, b, out))
         /\ Call(r, kind, a, b, out).st = r.st
         /\ Call(r, kind, a, b, out).calls =
              Append(r.calls, [req |-> [kind |-> kind, a |-> a, b |-> b], out |-> out])
BY Zenon DEF IsResp, Call

LEMMA FinishFields ==
  ASSUME NEW r, IsResp(r)
  PROVE  /\ Finish(r).st = IF r.st = <<>> THEN <<200>> ELSE r.st
         /\ Finish(r).calls = r.calls
BY Zenon DEF IsResp, Finish

\* The status reportError gives a log error is neither 200 nor 202.
LEMMA ErrorStatus ==
  ASSUME NEW e \in LogErrors PROVE StatusOf(e) \notin {200, 202}
BY ServerAssumption DEF StatusOf

\* A begun response has made no log call and sent nothing or 400.
LEMMA BegunFields ==
  ASSUME NEW r \in Begun
  PROVE  IsResp(r) /\ r.calls = <<>> /\ (r.st = <<>> \/ r.st = <<400>>)
BY StartFields, ReportCodeFields DEF Begun

\* Reporting 400 on a begun response sends 400.
LEMMA RejectHonest ==
  ASSUME NEW r \in Begun PROVE HonestResp(Finish(ReportCode(r, 400)))
<1>1. IsResp(r) /\ (r.st = <<>> \/ r.st = <<400>>)
  BY BegunFields
<1>2. Finish(ReportCode(r, 400)).st = Append(r.st, 400)
  BY <1>1, ReportCodeFields, FinishFields
<1>3. QED
  BY <1>1, <1>2 DEF HonestResp

(***************************************************************************)
(* Asking the log and writing its object, or reporting the error of the   *)
(* call or of the write (lines 39-45), sends 200 only after a call that   *)
(* succeeded and never 202; a begun response keeps its 400.               *)
(***************************************************************************)
LEMMA AnswerHonest ==
  ASSUME NEW r \in Begun, NEW kind, NEW a, NEW b, NEW x \in Answer(r, kind, a, b)
  PROVE  HonestResp(x)
<1>1. IsResp(r) /\ r.calls = <<>> /\ (r.st = <<>> \/ r.st = <<400>>)
  BY BegunFields
<1> DEFINE c(out) == Call(r, kind, a, b, out)
           one(out) == <<[req |-> [kind |-> kind, a |-> a, b |-> b], out |-> out]>>
<1>2. ASSUME NEW out PROVE IsResp(c(out)) /\ c(out).st = r.st /\ c(out).calls = one(out)
  BY <1>1, CallFields
<1>3. CASE \E e \in LogErrors : x = Finish(ReportCode(c(e), StatusOf(e)))
  <2>1. PICK e \in LogErrors : x = Finish(ReportCode(c(e), StatusOf(e)))
    BY <1>3
  <2> DEFINE rc == ReportCode(c(e), StatusOf(e))
  <2>2. IsResp(rc) /\ rc.st = Append(r.st, StatusOf(e)) /\ rc.calls = one(e)
    BY <1>2, ReportCodeFields
  <2>3. x.st = rc.st /\ x.calls = rc.calls
    BY <1>1, <2>1, <2>2, FinishFields
  <2>4. QED
    BY <1>1, <2>2, <2>3, ErrorStatus DEF HonestResp
<1>4. CASE x = Finish(Emit(c("ok")))
  <2> DEFINE w == Write(c("ok"), "object")
  <2>1. IsResp(w) /\ w.st = (IF r.st = <<>> THEN <<200>> ELSE r.st) /\ w.calls = one("ok")
    BY <1>2, WriteFields
  <2>2. x.st = w.st /\ x.calls = w.calls
    BY <1>1, <1>4, <2>1, FinishFields DEF Emit
  <2>3. QED
    BY <1>1, <2>1, <2>2 DEF HonestResp
<1>5. CASE x = Finish(EmitFailed(c("ok")))
  <2> DEFINE w == Write(c("ok"), "partial")
             rc == ReportCode(w, 500)
  <2>1. IsResp(w) /\ w.st = (IF r.st = <<>> THEN <<200>> ELSE r.st) /\ w.calls = one("ok")
    BY <1>2, WriteFields
  <2>2. IsResp(rc) /\ rc.st = Append(w.st, 500) /\ rc.calls = one("ok")
    BY <2>1, ReportCodeFields
  <2>3. x.st = rc.st /\ x.calls = rc.calls
    BY <1>1, <1>5, <2>1, <2>2, FinishFields DEF EmitFailed
  <2>4. QED
    BY <1>1, <2>1, <2>2, <2>3 DEF HonestResp
<1>6. QED
  BY <1>3, <1>4, <1>5 DEF Answer

(***************************************************************************)
(* add-leaf (lines 77-101) answers 200 only when the log persisted the    *)
(* leaf and 202 only when it accepted it: the persisted flag is checked   *)
(* before the handler returns (lines 98-100).                             *)
(***************************************************************************)
LEMMA AddLeafHonest ==
  ASSUME NEW bd, NEW header, NEW out, AddLeafOn(bd, header, out)
  PROVE  HonestResp(resp')
<1> DEFINE rr == Call(Start, "add-leaf", IF header = "valid" THEN 1 ELSE 0, 0, out)
           one == <<[req |-> [kind |-> "add-leaf", a |-> IF header = "valid" THEN 1 ELSE 0,
                              b |-> 0], out |-> out]>>
<1>1. IsResp(rr) /\ rr.st = <<>> /\ rr.calls = one
  BY StartFields, CallFields
<1>2. \/ resp' = Finish(ReportCode(Start, 400))
      \/ out \in LogErrors /\ resp' = Finish(ReportCode(rr, StatusOf(out)))
      \/ out = "accepted" /\ resp' = Finish(ReportCode(rr, StatusOf("accepted")))
      \/ out = "persisted" /\ resp' = Finish(rr)
  BY DEF AddLeafOn
<1>3. CASE resp' = Finish(ReportCode(Start, 400))
  BY <1>3, RejectHonest DEF Begun
<1>4. ASSUME NEW code
      PROVE  resp' = Finish(ReportCode(rr, code)) => resp'.st = <<code>> /\ resp'.calls = one
  <2>1. IsResp(ReportCode(rr, code)) /\ ReportCode(rr, code).st = <<code>>
        /\ ReportCode(rr, code).calls = one
    BY <1>1, ReportCodeFields
  <2>2. QED
    BY <2>1, FinishFields
<1>5. CASE out \in LogErrors /\ resp' = Finish(ReportCode(rr, StatusOf(out)))
  BY <1>4, <1>5, ErrorStatus DEF HonestResp
<1>6. CASE out = "accepted" /\ resp' = Finish(ReportCode(rr, StatusOf("accepted")))
  <2>1. StatusOf("accepted") = 202
    BY DEF StatusOf
  <2>2. QED
    BY <1>4, <1>6, <2>1 DEF HonestResp
<1>7. CASE out = "persisted" /\ resp' = Finish(rr)
  <2>1. resp'.st = <<200>> /\ resp'.calls = one
    BY <1>1, <1>7, FinishFields
  <2>2. QED
    BY <1>7, <2>1 DEF HonestResp
<1>8. QED
  BY <1>2, <1>3, <1>5, <1>6, <1>7

\* Every handler leaves an honest response for the endpoint it served.
LEMMA NextHonest == Next => ep' # "none" /\ HonestResp(resp')
<1>1. Start \in Begun /\ ReportCode(Start, 400) \in Begun
  BY DEF Begun
<1>2. CASE GetTreeHead
  BY <1>1, <1>2, AnswerHonest DEF GetTreeHead
<1>3. CASE GetInclusionProof
  <2>1. PICK shape \in Shapes, x \in NumTexts, h \in HashTexts : GetInclusionProofOn(shape, x, h)
    BY <1>3 DEF GetInclusionProof
  <2> DEFINE q == ParseInclusion(shape, x, h)
             r == IF q.ok THEN Start ELSE ReportCode(Start, 400)
  <2>2. r \in Begun
    BY <1>1
  <2>3. \/ resp' = Finish(ReportCode(r, 400))
        \/ resp' \in Answer(r, "inclusion", q.a, q.b)
    BY <2>1 DEF GetInclusionProofOn
  <2>4. QED
    BY <2>1, <2>2, <2>3, RejectHonest, AnswerHonest DEF GetInclusionProofOn
<1>4. CASE GetConsistencyProof
  <2>1. PICK shape \in Shapes, x, y \in NumTexts : GetConsistencyProofOn(shape, x, y)
    BY <1>4 DEF GetConsistencyProof
  <2> DEFINE q == ParseTwo(shape, x, y)
             r == IF q.ok THEN Start ELSE ReportCode(Start, 400)
  <2>2. r \in Begun
    BY <1>1
  <2>3. \/ resp' = Finish(ReportCode(r, 400))
        \/ resp' \in Answer(r, "consistency", q.a, q.b)
    BY <2>1 DEF GetConsistencyProofOn
  <2>4. QED
    BY <2>1, <2>2, <2>3, RejectHonest, AnswerHonest DEF GetConsistencyProofOn
<1>5. CASE AddLeaf
  <2>1. PICK bd \in {"ok", "bad"}, header \in {"none", "valid", "bad"}, out \in Answers \ {"ok"} :
          AddLeafOn(bd, header, out)
    BY <1>5 DEF AddLeaf
  <2>2. QED
    BY <2>1, AddLeafHonest DEF AddLeafOn
<1>6. CASE GetLeaves
  <2>1. PICK shape \in Shapes, x, y \in NumTexts : GetLeavesOn(shape, x, y)
    BY <1>6 DEF GetLeaves
  <2>2. \/ resp' = Finish(ReportCode(Start, 400))
        \/ resp' \in Answer(Start, "leaves", ParseTwo(shape, x, y).a, ParseTwo(shape, x, y).b)
    BY <2>1 DEF GetLeavesOn
  <2>3. QED
    BY <1>1, <2>1, <2>2, RejectHonest, AnswerHonest DEF GetLeavesOn
<1>7. QED
  BY <1>2, <1>3, <1>4, <1>5, <1>6 DEF Next

(***************************************************************************)
(* Every handler of NewLog tells a client 200 only when all the log calls *)
(* it made succeeded (for add-leaf: the leaf is persisted), and 202 only  *)
(* when the log accepted the leaf (StatusHonest, checked by run server),  *)
(* for every set of URL numbers and log errors.  A handler starts from an *)
(* empty response, so no strengthening is needed: each step establishes   *)
(* the invariant for the response it writes.                              *)
(***************************************************************************)
THEOREM StatusHonestHolds == Spec => []StatusHonest
<1>1. Init => StatusHonest
  BY DEF Init, StatusHonest
<1>2. StatusHonest /\ [Next]_vars => StatusHonest'
  BY NextHonest DEF StatusHonest, HonestResp, Sent, vars
<1>3. QED
  BY <1>1, <1>2, PTL DEF Spec
=============================================================================
