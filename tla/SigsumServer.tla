---------------------------- MODULE SigsumServer ----------------------------
(***************************************************************************)
(* The HTTP handlers that NewLog (src/unnamed/part_000, lines 13-125)       *)
(* registers in front of a log.  A handler runs sequentially on one         *)
(* request, so each handler is one action: its inputs (the URL arguments,   *)
(* the body and header, the log's answers, whether the connection still     *)
(* takes writes) are drawn from small sets, and it records what the client  *)
(* is sent and what the log is asked.                                       *)
(*                                                                          *)
(* A response is a record: st, the status codes written in order (the      *)
(* client receives the first one; net/http ignores later ones as           *)
(* "superfluous"), data, the items written to the body, and calls, the      *)
(* requests passed to the log with the log's answer.                        *)
(***************************************************************************)
EXTENDS Naturals, Sequences

CONSTANTS
  Nums,       \* the decimal numbers a URL argument may hold
  MaxU64,     \* math.MaxUint64, returned by ParseUint on a range error
  LogErrors   \* the errors a log call may return (not api.ErrAccepted)

ASSUME ServerAssumption ==
  /\ Nums \subseteq Nat
  /\ MaxU64 \in Nat /\ \A n \in Nums : n < MaxU64
  /\ "accepted" \notin LogErrors

VARIABLES
  ep,    \* the endpoint of the last request served
  resp   \* what its handler wrote and asked

vars == <<ep, resp>>

Endpoints == {"get-tree-head", "get-inclusion-proof", "get-consistency-proof",
              "add-leaf", "get-leaves"}

\* The text of one numeric URL argument: a number, a string that is not one,
\* or a number that does not fit 64 bits.
NumTexts == {[k |-> "num", n |-> n] : n \in Nums} \cup
            {[k |-> "syntax", n |-> 0], [k |-> "range", n |-> 0]}
\* The text of the leaf-hash argument: 64 hex digits, or not.
HashTexts == {"hex", "bad"}
\* A URL with at least two arguments after the endpoint, or fewer.
Shapes == {"full", "short"}

Statuses == {200, 202, 400, 404, 500}
Items == {"error", "object", "partial"}
Kinds == {"tree-head", "inclusion", "consistency", "leaves", "add-leaf"}
Answers == LogErrors \cup {"ok", "persisted", "accepted"}

\* strconv.ParseUint(text, 10, 64): the value and whether it parsed.
ParseUint(t) ==
  CASE t.k = "num"    -> [val |-> t.n, ok |-> TRUE]
    [] t.k = "syntax" -> [val |-> 0, ok |-> FALSE]
    [] t.k = "range"  -> [val |-> MaxU64, ok |-> FALSE]

\* FromURL of requests.InclusionProof, ConsistencyProof and Leaves: the
\* fields parsed in order, each assigned even when it fails to parse, and
\* the first error returned.  A field not reached keeps its zero value.
ParseTwo(shape, x, y) ==
  LET px == ParseUint(x)
      py == ParseUint(y)
  IN  IF shape = "short" THEN [a |-> 0, b |-> 0, ok |-> FALSE]
      ELSE IF ~px.ok THEN [a |-> px.val, b |-> 0, ok |-> FALSE]
      ELSE [a |-> px.val, b |-> py.val, ok |-> py.ok]

\* The inclusion request: the size, then the leaf hash (b is 1 for a parsed
\* hash, 0 for the zero hash).
ParseInclusion(shape, x, h) ==
  LET px == ParseUint(x)
  IN  IF shape = "short" THEN [a |-> 0, b |-> 0, ok |-> FALSE]
      ELSE IF ~px.ok THEN [a |-> px.val, b |-> 0, ok |-> FALSE]
      ELSE [a |-> px.val, b |-> IF h = "hex" THEN 1 ELSE 0, ok |-> h = "hex"]

\* reportError: the status the HTTP boundary gives an error (spec section 7).
StatusOf(err) ==
  CASE err = "accepted" -> 202
    [] err = "notFound" -> 404
    [] err = "invalid"  -> 400
    [] OTHER            -> 500

Start == [st |-> <<>>, data |-> <<>>, calls |-> <<>>]

\* reportErrorCode / reportError: a status and an error text.
ReportCode(r, code) == [r EXCEPT !.st = Append(@, code), !.data = Append(@, "error")]

\* A write to the body; the first write sends 200 if no status was written.
Write(r, item) ==
  [r EXCEPT !.st = IF @ = <<>> THEN <<200>> ELSE @, !.data = Append(@, item)]

\* A call of the log with the request req and the log's answer out.
Call(r, kind, a, b, out) ==
  [r EXCEPT !.calls = Append(@, [req |-> [kind |-> kind, a |-> a, b |-> b], out |-> out])]

\* Returning from a handler that wrote nothing sends 200.
Finish(r) == IF r.st = <<>> THEN [r EXCEPT !.st = <<200>>] ELSE r

\* After a log call that succeeded: ToASCII(w) writes the object, or the
\* connection fails part way and reportError(err) follows.
Emit(r) == Write(r, "object")
EmitFailed(r) == ReportCode(Write(r, "partial"), 500)

\* Lines 39-45 (and 16-23, 65-71, 115-121): ask the log, write the object
\* it returns, and report the error of the call or of the write.
Answer(r, kind, a, b) ==
  {Finish(ReportCode(Call(r, kind, a, b, e), StatusOf(e))) : e \in LogErrors}
    \cup {Finish(Emit(Call(r, kind, a, b, "ok"))),
          Finish(EmitFailed(Call(r, kind, a, b, "ok")))}

Init ==
  /\ ep = "none"
  /\ resp = Start

\* Lines 15-24: get-tree-head.
GetTreeHead ==
  /\ ep' = "get-tree-head"
  /\ resp' \in Answer(Start, "tree-head", 0, 0)

\* Lines 25-46: get-inclusion-proof on the URL arguments x (size) and h
\* (leaf hash).  A request that fails to parse is reported (line 29) and
\* then handled on as parsed: there is no return.
GetInclusionProofOn(shape, x, h) ==
  /\ ep' = "get-inclusion-proof"
  /\ LET q == ParseInclusion(shape, x, h)
         r == IF q.ok THEN Start ELSE ReportCode(Start, 400)
     IN  \/ q.a < 2 /\ resp' = Finish(ReportCode(r, 400))
         \/ q.a >= 2 /\ resp' \in Answer(r, "inclusion", q.a, q.b)

GetInclusionProof ==
  \E shape \in Shapes, x \in NumTexts, h \in HashTexts : GetInclusionProofOn(shape, x, h)

\* Lines 47-72: get-consistency-proof, with the same missing return
\* after the parse error of line 51.
GetConsistencyProofOn(shape, x, y) ==
  /\ ep' = "get-consistency-proof"
  /\ LET q == ParseTwo(shape, x, y)
         r == IF q.ok THEN Start ELSE ReportCode(Start, 400)
     IN  \/ q.a < 1 /\ resp' = Finish(ReportCode(r, 400))
         \/ q.a >= 1 /\ q.b <= q.a /\ resp' = Finish(ReportCode(r, 400))
         \/ q.a >= 1 /\ q.b > q.a /\ resp' \in Answer(r, "consistency", q.a, q.b)

GetConsistencyProof ==
  \E shape \in Shapes, x, y \in NumTexts : GetConsistencyProofOn(shape, x, y)

\* Mutant: the check of the persisted flag (line 98) dropped.
AddLeafOnIgnoresAccepted(body, header, out) ==
  /\ ep' = "add-leaf"
  /\ LET r == Call(Start, "add-leaf", IF header = "valid" THEN 1 ELSE 0, 0, out)
     IN  \/ body = "bad" /\ resp' = Finish(ReportCode(Start, 400))
         \/ body = "ok" /\ header = "bad" /\ resp' = Finish(ReportCode(Start, 400))
         \/ /\ body = "ok" /\ header # "bad"
            /\ \/ out \in LogErrors /\ resp' = Finish(ReportCode(r, StatusOf(out)))
               \/ out \in {"accepted", "persisted"} /\ resp' = Finish(r)

\* Lines 77-101: add-leaf on a body and a Sigsum-Token header.  The body
\* must parse, a header present must parse; the log answers out: persisted,
\* accepted (not yet persisted: 202) or an error.  a records whether a
\* submit header was passed to the log.
AddLeafOn(body, header, out) ==
  /\ ep' = "add-leaf"
  /\ LET r == Call(Start, "add-leaf", IF header = "valid" THEN 1 ELSE 0, 0, out)
     IN  \/ body = "bad" /\ resp' = Finish(ReportCode(Start, 400))
         \/ body = "ok" /\ header = "bad" /\ resp' = Finish(ReportCode(Start, 400))
         \/ /\ body = "ok" /\ header # "bad"
            /\ \/ out \in LogErrors /\ resp' = Finish(ReportCode(r, StatusOf(out)))
               \/ out = "accepted" /\ resp' = Finish(ReportCode(r, StatusOf("accepted")))
               \/ out = "persisted" /\ resp' = Finish(r)

AddLeaf ==
  \E body \in {"ok", "bad"}, header \in {"none", "valid", "bad"}, out \in Answers \ {"ok"} :
    AddLeafOn(body, header, out)

\* Lines 102-122: get-leaves.
GetLeavesOn(shape, x, y) ==
  /\ ep' = "get-leaves"
  /\ LET q == ParseTwo(shape, x, y)
     IN  \/ ~q.ok /\ resp' = Finish(ReportCode(Start, 400))
         \/ q.ok /\ q.a >= q.b /\ resp' = Finish(ReportCode(Start, 400))
         \/ q.ok /\ q.a < q.b /\ resp' \in Answer(Start, "leaves", q.a, q.b)

GetLeaves ==
  \E shape \in Shapes, x, y \in NumTexts : GetLeavesOn(shape, x, y)

Next == GetTreeHead \/ GetInclusionProof \/ GetConsistencyProof \/ AddLeaf \/ GetLeaves

Spec == Init /\ [][Next]_vars

-----------------------------------------------------------------------------

TypeOK ==
  /\ ep \in Endpoints \cup {"none"}
  /\ resp.st \in Seq(Statuses)
  /\ resp.data \in Seq(Items)
  /\ \A i \in 1..Len(resp.calls) :
       resp.calls[i].req.kind \in Kinds /\ resp.calls[i].out \in Answers

\* The status the client receives.
Sent == resp.st[1]

(***************************************************************************)
(* A client is told 200 only when the log did what was asked: every log    *)
(* call of the handler succeeded (for add-leaf: the leaf is persisted, not *)
(* merely accepted, lines 93-100); and 202 only when the log accepted the  *)
(* leaf without persisting it.                                             *)
(***************************************************************************)
StatusHonest ==
  ep # "none" =>
    /\ Sent = 200 => resp.calls # <<>> /\
                     \A i \in 1..Len(resp.calls) : resp.calls[i].out \in {"ok", "persisted"}
    /\ Sent = 202 => \E i \in 1..Len(resp.calls) : resp.calls[i].out = "accepted"

(***************************************************************************)
(* A request the handler rejects as invalid (400, spec sections 4.9 and 7: *)
(* "a single failure returns immediately; no partial results") is not      *)
(* passed on to the log and gets no object in the response.                *)
(***************************************************************************)
RejectedNotServed ==
  ep # "none" /\ Sent = 400 =>
    /\ resp.calls = <<>>
    /\ \A i \in 1..Len(resp.data) : resp.data[i] = "error"
=============================================================================
