--------------------------- MODULE MCSigsumClient ---------------------------
(* The client against the server with arguments 0..3, so that each handler *)
(* both rejects (size < 2, old >= new, start >= end) and serves a request, *)
(* and two log errors, one mapped to 404 and one to 500.                   *)
EXTENDS SigsumClient

MCNums == 0..3
MCMaxU64 == 9
MCLogErrors == {"notFound", "internal"}
\* The state without the counters of attempts and sleeps, which no guard
\* and no property reads: a retry loop that never ends then shows as a
\* cycle for CallReturns.
CallView == <<method, reqA, reqB, wait, cpc, status, leaf, ret, sep, sresp, ctx>>
=============================================================================
