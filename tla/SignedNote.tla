------------------------------ MODULE SignedNote ------------------------------
(***************************************************************************)
(* Signature lines of a signed note (src/pkg/checkpoint/signature.go): the *)
(* log's Ed25519 line and the witnesses' cosignature lines, written by     *)
(* WriteEd25519Signature and WriteCosignature and read back by            *)
(* ParseEd25519SignatureLine and ParseCosignature, and the reader that    *)
(* goes through the lines of a note (spec section 4.5; that caller is not  *)
(* under src/).                                                            *)
(*                                                                          *)
(* A line is the record of what parseNoteSignature splits it into: key    *)
(* name, key id and the length and contents of the base64 blob; a line    *)
(* that is not "<em dash> <name> <base64>" is Malformed.  makeKeyId       *)
(* truncates a hash of name, signature type and key to four bytes:        *)
(* ShortId.  An Ed25519 signature is 64 bytes, a cosignature blob 72: the *)
(* big-endian timestamp, then the signature.                               *)
(***************************************************************************)
EXTENDS Naturals, Sequences, SequencesExt

CONSTANTS
  Origin,        \* the log's key name
  LogKey,        \* the log's public key
  Witnesses,     \* the witnesses the reader looks for
  WitnessKey(_), \* a witness's public key
  WitnessName(_), \* the key name a witness writes its lines under
  ShortId(_),    \* the first four bytes of crypto.HashBytes
  LogSignature,  \* the log's signature of the note
  Timestamp(_),  \* the timestamp of a witness's cosignature
  WitnessSig(_), \* the signature of a witness's cosignature
  Candidates     \* the lines a note may carry

VARIABLES
  lines,   \* the signature lines of the note
  i,       \* the next line to read
  logSig,  \* the log signature found, or NoSig
  cosigs,  \* witness -> the cosignature found, or NoSig
  err,     \* "none", or the error that ended the reading
  pc       \* "read" or "done"

vars == <<lines, i, logSig, cosigs, err, pc>>

SignatureSize == 64
NoSig == [found |-> FALSE]
Malformed == [kind |-> "malformed"]

\* makeKeyId, NewLogKeyId, NewWitnessKeyId (lines 28-40).
makeKeyId(name, sigType, pub) == ShortId(<<name, sigType, pub>>)

\* writeNoteSignature (lines 42-46) under WriteEd25519Signature (67-69)
\* and WriteCosignature (90-94).
WriteEd25519Signature(origin, keyId, sig) ==
  [kind |-> "line", name |-> origin, id |-> keyId, len |-> 4 + SignatureSize, data |-> sig]
WriteCosignature(name, keyId, ts, sig) ==
  [kind |-> "line", name |-> name, id |-> keyId, len |-> 4 + 8 + SignatureSize,
   data |-> [ts |-> ts, sig |-> sig]]

\* The lines the log and each witness write for the note.
LogLine == WriteEd25519Signature(Origin, makeKeyId(Origin, "ed25519", LogKey), LogSignature)
CosigLine(w) ==
  WriteCosignature(WitnessName(w), makeKeyId(WitnessName(w), "cosignature", WitnessKey(w)),
                   Timestamp(w), WitnessSig(w))

\* Mutant: a blob of another length taken as corrupt, not as unwanted.
parseNoteSignatureFatal(line, size) ==
  IF line.kind = "malformed" THEN [err |-> "invalid"]
  ELSE IF line.len # 4 + size THEN [err |-> "invalid"]
  ELSE [err |-> "none", name |-> line.name, id |-> line.id, blob |-> line.data]

\* parseNoteSignature (lines 50-65): a well-formed line whose blob has the
\* wrong length is unwanted, not corrupt.
parseNoteSignature(line, size) ==
  IF line.kind = "malformed" THEN [err |-> "invalid"]
  ELSE IF line.len # 4 + size THEN [err |-> "unwanted"]
  ELSE [err |-> "none", name |-> line.name, id |-> line.id, blob |-> line.data]

\* ParseEd25519SignatureLine (lines 76-88): the key name must match.
ParseEd25519SignatureLine(line, keyName) ==
  LET p == parseNoteSignature(line, SignatureSize)
  IN  IF p.err # "none" THEN [err |-> p.err]
      ELSE IF p.name # keyName THEN [err |-> "unwanted"]
      ELSE [err |-> "none", id |-> p.id, sig |-> p.blob]

\* Mutant: timestamp and signature taken from the wrong ends of the blob.
ParseCosignatureSwapped(line, pub) ==
  LET p == parseNoteSignature(line, 8 + SignatureSize)
  IN  IF p.err # "none" THEN [err |-> p.err]
      ELSE IF p.id # makeKeyId(p.name, "cosignature", pub) THEN [err |-> "unwanted"]
      ELSE [err |-> "none", keyHash |-> pub, ts |-> p.blob.sig, sig |-> p.blob.ts]

\* ParseCosignature (lines 99-113): the key id must be the witness key id
\* of the line's name and the given key; the signature is not checked.
ParseCosignature(line, pub) ==
  LET p == parseNoteSignature(line, 8 + SignatureSize)
  IN  IF p.err # "none" THEN [err |-> p.err]
      ELSE IF p.id # makeKeyId(p.name, "cosignature", pub) THEN [err |-> "unwanted"]
      ELSE [err |-> "none", keyHash |-> pub, ts |-> p.blob.ts, sig |-> p.blob.sig]

(***************************************************************************)
(* The lines a note may carry: finitely many, each one malformed or split *)
(* into name, key id and blob, and each key signs at most one of them:    *)
(* the only Ed25519 line under the log's name and key id is the log's,    *)
(* and the only cosignature line with the key id of a witness's key is    *)
(* that witness's.  A note with two lines for one key is outside this     *)
(* assumption: the reader keeps the last of them.                         *)
(***************************************************************************)
ASSUME NoteAssumption ==
  /\ IsFiniteSet(Candidates)
  /\ \A c \in Candidates : c = Malformed \/ (c.kind = "line" /\ c.len \in Nat)
  /\ \A c \in Candidates \ {Malformed} :
       c.len = 4 + SignatureSize /\ c.name = Origin /\ c.id = makeKeyId(Origin, "ed25519", LogKey)
         => c = LogLine
  /\ \A c \in Candidates \ {Malformed}, w \in Witnesses :
       c.len = 4 + 8 + SignatureSize /\ c.id = makeKeyId(c.name, "cosignature", WitnessKey(w))
         => c = CosigLine(w)

\* A cosignature the reader keeps: the parsed fields, marked found.
Found(cs) == [found |-> TRUE, err |-> cs.err, keyHash |-> cs.keyHash, ts |-> cs.ts, sig |-> cs.sig]

Init ==
  /\ lines \in SetToAllKPermutations(Candidates)
  /\ i = 1
  /\ logSig = NoSig
  /\ cosigs = [w \in Witnesses |-> NoSig]
  /\ err = "none"
  /\ pc = "read"

\* The reader tries a line as the log's signature, then as the cosignature
\* of each witness it looks for; an unwanted line is skipped, any other
\* error ends the reading (spec section 4.5).
ReadLine ==
  /\ pc = "read"
  /\ i <= Len(lines)
  /\ LET l   == lines[i]
         r   == ParseEd25519SignatureLine(l, Origin)
         cs  == [w \in Witnesses |-> ParseCosignature(l, WitnessKey(w))]
         bad == {r.err} \cup {cs[w].err : w \in Witnesses}
     IN  IF "invalid" \in bad
         THEN err' = "invalid" /\ pc' = "done" /\ UNCHANGED <<i, logSig, cosigs>>
         ELSE /\ logSig' = IF r.err = "none" /\ r.id = makeKeyId(Origin, "ed25519", LogKey)
                           THEN [found |-> TRUE, sig |-> r.sig] ELSE logSig
              /\ cosigs' = [w \in Witnesses |->
                              IF cs[w].err = "none" THEN Found(cs[w]) ELSE cosigs[w]]
              /\ i' = i + 1
              /\ UNCHANGED <<err, pc>>
  /\ UNCHANGED lines

\* Every line has been read.
Finish ==
  /\ pc = "read"
  /\ i > Len(lines)
  /\ pc' = "done"
  /\ UNCHANGED <<lines, i, logSig, cosigs, err>>

Done ==
  /\ pc = "done"
  /\ UNCHANGED vars

Next == ReadLine \/ Finish \/ Done

Spec == Init /\ [][Next]_vars

-----------------------------------------------------------------------------

(***************************************************************************)
(* Reading a note whose lines are all well formed ends without error, with *)
(* the log's signature as WriteEd25519Signature wrote it if its line is    *)
(* there, and with the timestamp and signature of every witness whose     *)
(* WriteCosignature line is there, in whatever order the lines come and    *)
(* whatever foreign lines lie between: parseNoteSignature must call a line *)
(* of the other size unwanted, not corrupt (lines 59-60), since every line *)
(* is tried both as the log's and as a cosignature, and ParseCosignature  *)
(* must split the blob at byte 8 (lines 107-111).                          *)
(***************************************************************************)
NoteComplete ==
  pc = "done" /\ (\A k \in 1..Len(lines) : lines[k] # Malformed) =>
    /\ err = "none"
    /\ LogLine \in Range(lines) => logSig = [found |-> TRUE, sig |-> LogSignature]
    /\ \A w \in Witnesses :
         CosigLine(w) \in Range(lines) =>
           cosigs[w] = [found |-> TRUE, err |-> "none", keyHash |-> WitnessKey(w),
                        ts |-> Timestamp(w), sig |-> WitnessSig(w)]
=============================================================================
