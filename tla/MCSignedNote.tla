---------------------------- MODULE MCSignedNote ----------------------------
EXTENDS SignedNote

\* Two witnesses: w1 under a name of its own, w2 under the log's name and
\* with the log's key, so that only the signature type in the key id and
\* the blob size tell its line from the log's.
MCWitnesses == {"w1", "w2"}
MCWitnessName(w) == IF w = "w1" THEN "wit" ELSE "log"
MCWitnessKey(w) == IF w = "w1" THEN "kw" ELSE "kl"
MCShortId(x) == x
\* Timestamps and signatures are opaque values here.
MCTimestamp(w) == IF w = "w1" THEN "t1" ELSE "t2"
MCWitnessSig(w) == IF w = "w1" THEN "s1" ELSE "s2"

\* The log's line, both cosignatures, an Ed25519 line of another signer,
\* a cosignature of an unknown witness, and a line that does not parse.
MCCandidates ==
  { LogLine, CosigLine("w1"), CosigLine("w2"),
    WriteEd25519Signature("other", makeKeyId("other", "ed25519", "ko"), "so"),
    WriteCosignature("wit", makeKeyId("wit", "cosignature", "ku"), "t3", "su"),
    Malformed }
=============================================================================
