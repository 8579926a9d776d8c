---------------------------- MODULE SigsumClient ----------------------------
(***************************************************************************)
(* One call of the log client of src/unnamed/part_002 against the server   *)
(* handlers of SigsumServer, over a network that may fail.  The client     *)
(* method builds a request (get, post: lines 148-162) and calls do()       *)
(* (lines 164-200), which calls http.Client.Do up to four times, sleeping  *)
(* 1, 2, 4 and 8 seconds after each failure, then maps the status of the   *)
(* response to a result.  The method (lines 81-142) turns that into its   *)
(* own result.                                                             *)
(*                                                                          *)
(* The same *http.Request is passed to every attempt.  The bytes.Buffer    *)
(* body of a POST is drained by the first write, but NewRequestWithContext *)
(* sets GetBody for it: an attempt on a reused idle connection that fails  *)
(* with nothing written is retried by the transport on a rewound copy of   *)
(* the full body, while one on a new connection is refused.  Any attempt   *)
(* may therefore deliver the add-leaf again, and the state of the body     *)
(* decides nothing: it is left out.                                        *)
(*                                                                          *)
(* The log behind the add-leaf handler holds the submitted leaf as absent, *)
(* accepted (queued) or persisted; a leaf it has persisted is answered     *)
(* persisted again, and it may persist an accepted leaf at any time.       *)
(***************************************************************************)
EXTENDS Naturals, Sequences

CONSTANTS
  Nums,       \* the request arguments a caller may pass
  MaxU64,     \* math.MaxUint64
  LogErrors   \* the errors a log call may return

\* A log error is never api.ErrAccepted, which the handler answers 202.
ASSUME ClientAssumption == "accepted" \notin LogErrors

VARIABLES
  method,    \* the client method called
  reqA, reqB,\* its request arguments (size / old, new / start, end)
  wait,      \* the loop variable of line 171
  attempts,  \* calls of http.Client.Do so far
  sleeps,    \* calls of time.Sleep so far
  cpc,       \* "try", "flight", "served", "sleep", "read" or "done"
  status,    \* the status code of the response received
  leaf,      \* the log's copy of the submitted leaf
  ret,       \* the method's result: [val, err]
  sep, sresp,\* the server handler's last endpoint and response
  ctx        \* the request's context: "live" or "done" (cancelled or expired)

vars == <<method, reqA, reqB, wait, attempts, sleeps, cpc, status, leaf, ret,
          sep, sresp, ctx>>

Srv == INSTANCE SigsumServer WITH ep <- sep, resp <- sresp

Methods == {"add-leaf", "get-tree-head", "get-inclusion-proof",
            "get-consistency-proof", "get-leaves"}
Errs == {"none", "send", "read", "notFound", "status", "parse", "signature"}

Num(n) == [k |-> "num", n |-> n]

\* post (lines 156-162) and get (lines 148-154): the request.
Init ==
  /\ method \in Methods
  /\ reqA \in Nums
  /\ reqB \in Nums
  /\ wait = 1
  /\ attempts = 0
  /\ sleeps = 0
  /\ cpc = "try"
  /\ status = 0
  /\ leaf = "absent"
  /\ ret = [val |-> FALSE, err |-> "none"]
  /\ sep = "none"
  /\ sresp = Srv!Start
  /\ ctx = "live"

\* Lines 171-175: a call of http.Client.Do.  The dial may fail, or a
\* drained body be refused on a new connection, with nothing written; a
\* done context fails at once.  Otherwise the request is written, its body
\* rewound by the transport if an earlier attempt drained it.
Attempt ==
  /\ cpc = "try"
  /\ wait < 10
  /\ attempts' = attempts + 1
  /\ \/ cpc' = "sleep"
     \/ ctx = "live" /\ cpc' = "flight"
  /\ UNCHANGED <<method, reqA, reqB, wait, sleeps, status, leaf, ret, sep, sresp, ctx>>

\* What the log may answer to add_leaf for the leaf in the state l.
LogAnswers(l) == IF l = "persisted" THEN {"persisted"} ELSE LogErrors \cup {"accepted", "persisted"}

\* The leaf after the log answered out.
LogAfter(l, out) ==
  CASE out = "persisted"                   -> "persisted"
    [] out = "accepted" /\ l = "absent"    -> "accepted"
    [] OTHER                               -> l

\* The server handler of the method's endpoint runs on the request that
\* ToURL / ToASCII wrote: numbers in decimal, a hex leaf hash, a body that
\* parses and no Sigsum-Token header.
Serve ==
  /\ cpc = "flight"
  /\ cpc' = "served"
  /\ CASE method = "add-leaf" ->
            \E out \in LogAnswers(leaf) :
              /\ Srv!AddLeafOn("ok", "none", out)
              /\ leaf' = LogAfter(leaf, out)
       [] method = "get-tree-head" -> Srv!GetTreeHead /\ UNCHANGED leaf
       [] method = "get-inclusion-proof" ->
            Srv!GetInclusionProofOn("full", Num(reqA), "hex") /\ UNCHANGED leaf
       [] method = "get-consistency-proof" ->
            Srv!GetConsistencyProofOn("full", Num(reqA), Num(reqB)) /\ UNCHANGED leaf
       [] method = "get-leaves" ->
            Srv!GetLeavesOn("full", Num(reqA), Num(reqB)) /\ UNCHANGED leaf
  /\ UNCHANGED <<method, reqA, reqB, wait, attempts, sleeps, status, ret, ctx>>

\* The connection breaks with the request or the response on the wire:
\* Client.Do returns an error.
Drop ==
  /\ cpc \in {"flight", "served"}
  /\ cpc' = "sleep"
  /\ UNCHANGED <<method, reqA, reqB, wait, attempts, sleeps, status, leaf, ret, sep, sresp, ctx>>

\* Line 174: Client.Do returned the response; the loop breaks.
Receive ==
  /\ cpc = "served"
  /\ ctx = "live"
  /\ cpc' = "read"
  /\ status' = Srv!Sent
  /\ UNCHANGED <<method, reqA, reqB, wait, attempts, sleeps, leaf, ret, sep, sresp, ctx>>

\* Mutant: the wait never doubled (wait *= 2 dropped from line 171).
SleepNoBackoff ==
  /\ cpc = "sleep"
  /\ sleeps' = sleeps + 1
  /\ cpc' = "try"
  /\ UNCHANGED <<method, reqA, reqB, wait, attempts, status, leaf, ret, sep, sresp, ctx>>

\* Lines 176-178 and the step of line 171: sleep, double the wait.
Sleep ==
  /\ cpc = "sleep"
  /\ sleeps' = sleeps + 1
  /\ wait' = 2 * wait
  /\ cpc' = "try"
  /\ UNCHANGED <<method, reqA, reqB, attempts, status, leaf, ret, sep, sresp, ctx>>

\* Lines 180-182, with the method's error return: every attempt failed.
GiveUp ==
  /\ cpc = "try"
  /\ wait >= 10
  /\ cpc' = "done"
  /\ ret' = [val |-> FALSE, err |-> "send"]
  /\ UNCHANGED <<method, reqA, reqB, wait, attempts, sleeps, status, leaf, sep, sresp, ctx>>

\* Mutant: the case of 202 Accepted missing from the switch of line 189.
DoErrNoAccepted(readOK) ==
  IF ~readOK THEN "read"
  ELSE IF status = 404 THEN "notFound"
  ELSE IF status \in {200, 202} THEN "none"
  ELSE "status"

\* Lines 184-199: the error do() returns, given whether reading the body
\* succeeded ("accepted" is HttpAccepted, "notFound" HttpNotFound).
DoErr(readOK) ==
  IF ~readOK THEN "read"
  ELSE IF status = 404 THEN "notFound"
  ELSE IF status = 202 THEN "accepted"
  ELSE IF status = 200 THEN "none"
  ELSE "status"

\* Lines 131-142: AddLeaf; HttpAccepted is (false, nil).
AddLeafResult(e) ==
  IF e = "accepted" THEN [val |-> FALSE, err |-> "none"]
  ELSE IF e # "none" THEN [val |-> FALSE, err |-> e]
  ELSE [val |-> TRUE, err |-> "none"]

\* Lines 81-129: the get methods; the body must parse (the server wrote
\* exactly one object) and a cosigned tree head must carry a valid log
\* signature (sigOK).
GetResult(e, sigOK) ==
  IF e # "none" THEN [val |-> FALSE, err |-> e]
  ELSE IF sresp.data # <<"object">> THEN [val |-> FALSE, err |-> "parse"]
  ELSE IF method = "get-tree-head" /\ ~sigOK THEN [val |-> FALSE, err |-> "signature"]
  ELSE [val |-> TRUE, err |-> "none"]

\* do() reads the response and returns, and the method returns.
Return ==
  /\ cpc = "read"
  /\ cpc' = "done"
  /\ \E readOK, sigOK \in BOOLEAN :
       ret' = IF method = "add-leaf" THEN AddLeafResult(DoErr(readOK))
                                     ELSE GetResult(DoErr(readOK), sigOK)
  /\ UNCHANGED <<method, reqA, reqB, wait, attempts, sleeps, status, leaf, sep, sresp, ctx>>

\* The log's sequencer persists an accepted leaf (spec section 4.9).
Persist ==
  /\ leaf = "accepted"
  /\ leaf' = "persisted"
  /\ UNCHANGED <<method, reqA, reqB, wait, attempts, sleeps, cpc, status, ret, sep, sresp, ctx>>

\* The caller cancels the request's context, or its deadline passes
\* (http.NewRequestWithContext, lines 149 and 157): a request on the wire
\* is abandoned (Drop) and Client.Do fails from then on.
Cancel ==
  /\ ctx = "live"
  /\ ctx' = "done"
  /\ UNCHANGED <<method, reqA, reqB, wait, attempts, sleeps, cpc, status, leaf, ret, sep, sresp>>

\* The call has returned.
Returned ==
  /\ cpc = "done"
  /\ UNCHANGED vars

\* The steps of the call itself and of the network under it.
CallStep == Attempt \/ Serve \/ Drop \/ Receive \/ Sleep \/ GiveUp \/ Return

Next == CallStep \/ Cancel \/ Persist \/ Returned

Spec == Init /\ [][Next]_vars

\* The transport gives up a request on the wire once its context is done
\* (http.NewRequestWithContext, lines 149 and 157).
Abort == ctx = "done" /\ Drop

\* The goroutine of the call is scheduled and time.Sleep returns; the
\* transport aborts a request whose context is done.  The network and the
\* server get no fairness: http.Client{} (line 45) sets no Timeout, so a
\* server that never answers holds Client.Do until the context is done.
FairSpec ==
  /\ Spec
  /\ WF_vars(Attempt) /\ WF_vars(Sleep) /\ WF_vars(GiveUp) /\ WF_vars(Return)
  /\ WF_vars(Abort)

-----------------------------------------------------------------------------

TypeOK ==
  /\ method \in Methods
  /\ wait \in {1, 2, 4, 8, 16}
  /\ attempts \in 0..4 /\ sleeps \in 0..4
  /\ cpc \in {"try", "flight", "served", "sleep", "read", "done"}
  /\ ctx \in {"live", "done"}
  /\ leaf \in {"absent", "accepted", "persisted"}
  /\ ret.val \in BOOLEAN /\ ret.err \in Errs

(***************************************************************************)
(* A method result without error is backed by the log: AddLeaf reports     *)
(* (true, nil) only for a persisted leaf and (false, nil) only for a leaf  *)
(* the log holds (HttpAccepted, lines 136-137, from the 202 of the server  *)
(* handler); a get method returns a value only when the handler answered   *)
(* 200 with one complete object.                                           *)
(***************************************************************************)
ResultBacked ==
  cpc = "done" /\ ret.err = "none" =>
    /\ method = "add-leaf" => leaf # "absent" /\ (ret.val => leaf = "persisted")
    /\ method # "add-leaf" => ret.val /\ Srv!Sent = 200 /\ sresp.data = <<"object">>

(***************************************************************************)
(* Once the caller's context is done, the call returns: the transport      *)
(* gives up the request on the wire, every later Client.Do fails at once,  *)
(* and do() still sleeps after each failure (time.Sleep ignores the        *)
(* context, line 178) but its doubling wait (line 171) ends the loop after *)
(* four attempts.  Without cancellation nothing bounds a Client.Do that    *)
(* waits for an answer (no Timeout, line 45).                              *)
(***************************************************************************)
CallReturns == (ctx = "done") ~> (cpc = "done")
=============================================================================
