----------------------------- MODULE MCSigsumKey -----------------------------
(* Two key pairs, so that gen can replace one by another, and two messages, *)
(* so that a signature can be over the wrong one.                          *)
EXTENDS SigsumKey

MCKeys == {"k1", "k2"}
MCMsgs == {"m1", "m2"}
=============================================================================
