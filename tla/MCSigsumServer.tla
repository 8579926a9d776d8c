-------------------------- MODULE MCSigsumServer --------------------------
(***************************************************************************)
(* The handlers with URL numbers 0-4 (sizes below, at and above the        *)
(* limits 1 and 2 of lines 31 and 53), MaxUint64 scaled down to 9, and     *)
(* a not-found and an internal error from the log.                          *)
(***************************************************************************)
EXTENDS SigsumServer

MCNums == 0..4
MCMaxU64 == 9
MCLogErrors == {"notFound", "internal"}
=============================================================================
