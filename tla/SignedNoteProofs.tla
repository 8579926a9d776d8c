-------------------------- MODULE SignedNoteProofs --------------------------
(***************************************************************************)
(* Proofs about reading the signature lines of a signed note (module      *)
(* SignedNote), for every set of witnesses, keys, key ids and candidate   *)
(* lines that NoteAssumption allows.                                       *)
(***************************************************************************)
EXTENDS SignedNote, FiniteSetTheorems, TLAPS

\* What the reader must have found for witness w once its line was read.
Expected(w) == [found |-> TRUE, err |-> "none", keyHash |-> WitnessKey(w),
                ts |-> Timestamp(w), sig |-> WitnessSig(w)]

\* The reader has read the line of the log, or of witness w, among the
\* first n lines.
LogRead(n) == \E k \in 1..n : lines[k] = LogLine
CosigRead(w, n) == \E k \in 1..n : lines[k] = CosigLine(w)

(***************************************************************************)
(* The inductive invariant: the lines read so far (1..i-1) have given the *)
(* log signature and the cosignatures written for them, and reading ends  *)
(* either after the last line or on a malformed one.                      *)
(***************************************************************************)
IInv ==
  /\ lines \in Seq(Candidates)
  /\ i \in 1..(Len(lines) + 1)
  /\ pc \in {"read", "done"}
  /\ err \in {"none", "invalid"}
  /\ pc = "read" => err = "none"
  /\ pc = "done" /\ err = "none" => i = Len(lines) + 1
  /\ err = "invalid" => \E k \in 1..Len(lines) : lines[k] = Malformed
  /\ LogRead(i - 1) => logSig = [found |-> TRUE, sig |-> LogSignature]
  /\ \A w \in Witnesses : CosigRead(w, i - 1) => cosigs[w] = Expected(w)

-----------------------------------------------------------------------------

\* The note's lines, in any order, are a sequence of candidate lines.
LEMMA PermutationLines ==
  ASSUME NEW seq \in SetToAllKPermutations(Candidates)
  PROVE  seq \in Seq(Candidates)
<1>1. PICK sub \in SUBSET Candidates : seq \in SetToSeqs(sub)
  BY DEF SetToAllKPermutations
<1>2. Cardinality(sub) \in Nat
  BY NoteAssumption, FS_Subset, FS_CardinalityType
<1>3. seq \in [1..Cardinality(sub) -> sub]
  BY <1>1 DEF SetToSeqs
<1>4. QED
  BY <1>2, <1>3

\* The log's key id, and the line of a malformed note.
LogKeyId == makeKeyId(Origin, "ed25519", LogKey)

\* parseNoteSignature reports a line corrupt exactly when it is malformed.
LEMMA MalformedInvalid ==
  ASSUME NEW c, c.kind = "malformed", NEW pub
  PROVE  /\ ParseEd25519SignatureLine(c, Origin).err = "invalid"
         /\ ParseCosignature(c, pub).err = "invalid"
<1>1. ASSUME NEW n PROVE parseNoteSignature(c, n) = [err |-> "invalid"]
  BY DEF parseNoteSignature
<1>2. QED
  BY <1>1 DEF ParseEd25519SignatureLine, ParseCosignature

LEMMA WellFormedNotInvalid ==
  ASSUME NEW c, c.kind = "line", NEW pub
  PROVE  /\ ParseEd25519SignatureLine(c, Origin).err \in {"none", "unwanted"}
         /\ ParseCosignature(c, pub).err \in {"none", "unwanted"}
<1>1. ASSUME NEW n PROVE parseNoteSignature(c, n).err \in {"none", "unwanted"}
  BY DEF parseNoteSignature
<1>2. QED
  BY <1>1 DEF ParseEd25519SignatureLine, ParseCosignature

\* A line that is not malformed is split into name, key id and blob.
LEMMA ParsedFields ==
  ASSUME NEW c, c.kind = "line", NEW n
  PROVE  parseNoteSignature(c, n).err = "none" =>
           /\ c.len = 4 + n
           /\ parseNoteSignature(c, n) = [err |-> "none", name |-> c.name, id |-> c.id, blob |-> c.data]
BY DEF parseNoteSignature

(***************************************************************************)
(* ParseEd25519SignatureLine accepts a line under the log's name and key  *)
(* id only when it is the log's line (a cosignature line is unwanted by   *)
(* its size), and gives the signature WriteEd25519Signature wrote.        *)
(***************************************************************************)
LEMMA LogLineParse ==
  ASSUME NEW c \in Candidates, c.kind = "line"
  PROVE  LET r == ParseEd25519SignatureLine(c, Origin)
         IN  /\ r.err = "none" /\ r.id = LogKeyId => c = LogLine
             /\ c = LogLine => r = [err |-> "none", id |-> LogKeyId, sig |-> LogSignature]
<1> DEFINE p == parseNoteSignature(c, SignatureSize)
           r == ParseEd25519SignatureLine(c, Origin)
<1>1. r.err = "none" => p.err = "none" /\ p.name = Origin /\ r.id = p.id /\ r.sig = p.blob
  BY DEF ParseEd25519SignatureLine
<1>2. r.err = "none" => c.len = 4 + SignatureSize /\ c.name = Origin /\ r.id = c.id
  BY <1>1, ParsedFields
<1>3. c # Malformed
  BY DEF Malformed
<1>4. r.err = "none" /\ r.id = LogKeyId => c = LogLine
  BY <1>2, <1>3, NoteAssumption DEF LogKeyId
<1>5. LogLine.kind = "line" /\ parseNoteSignature(LogLine, SignatureSize) =
        [err |-> "none", name |-> Origin, id |-> LogKeyId, blob |-> LogSignature]
  BY DEF parseNoteSignature, LogLine, WriteEd25519Signature, LogKeyId
<1>6. ParseEd25519SignatureLine(LogLine, Origin) = [err |-> "none", id |-> LogKeyId, sig |-> LogSignature]
  BY <1>5 DEF ParseEd25519SignatureLine
<1>7. QED
  BY <1>4, <1>6

(***************************************************************************)
(* ParseCosignature with a witness's key accepts only that witness's line *)
(* (NoteAssumption), and on it gives back the timestamp and signature     *)
(* WriteCosignature wrote, split at byte 8.                                *)
(***************************************************************************)
LEMMA CosigLineParse ==
  ASSUME NEW c \in Candidates, c.kind = "line", NEW w \in Witnesses
  PROVE  /\ ParseCosignature(c, WitnessKey(w)).err = "none" => c = CosigLine(w)
         /\ Found(ParseCosignature(CosigLine(w), WitnessKey(w))) = Expected(w)
<1> DEFINE p == parseNoteSignature(c, 8 + SignatureSize)
<1>1. ParseCosignature(c, WitnessKey(w)).err = "none" =>
        p.err = "none" /\ p.id = makeKeyId(p.name, "cosignature", WitnessKey(w))
  BY DEF ParseCosignature
<1>2. ParseCosignature(c, WitnessKey(w)).err = "none" =>
        c.len = 4 + (8 + SignatureSize) /\ c.id = makeKeyId(c.name, "cosignature", WitnessKey(w))
  BY <1>1, ParsedFields
<1>3. c # Malformed
  BY DEF Malformed
<1>4. ParseCosignature(c, WitnessKey(w)).err = "none" => c = CosigLine(w)
  BY <1>2, <1>3, NoteAssumption DEF SignatureSize
<1> DEFINE cw == CosigLine(w)
<1>5. cw.kind = "line" /\ parseNoteSignature(cw, 8 + SignatureSize) =
        [err |-> "none", name |-> WitnessName(w), id |-> cw.id,
         blob |-> [ts |-> Timestamp(w), sig |-> WitnessSig(w)]]
  BY DEF parseNoteSignature, CosigLine, WriteCosignature, SignatureSize
<1>6. cw.id = makeKeyId(WitnessName(w), "cosignature", WitnessKey(w))
  BY DEF CosigLine, WriteCosignature
<1>7. ParseCosignature(cw, WitnessKey(w)) =
        [err |-> "none", keyHash |-> WitnessKey(w), ts |-> Timestamp(w), sig |-> WitnessSig(w)]
  BY <1>5, <1>6 DEF ParseCosignature
<1>8. Found([err |-> "none", keyHash |-> WitnessKey(w), ts |-> Timestamp(w),
             sig |-> WitnessSig(w)]) = Expected(w)
  BY DEF Found, Expected
<1>9. QED
  BY <1>4, <1>7, <1>8

\* Reading starts at the first line with nothing found.
LEMMA InitIInv == Init => IInv
<1> SUFFICES ASSUME Init PROVE IInv
  OBVIOUS
<1>1. lines \in Seq(Candidates)
  BY PermutationLines DEF Init
<1>2. QED
  BY <1>1 DEF Init, IInv, LogRead, CosigRead

(***************************************************************************)
(* Reading one well-formed line: no parser calls it corrupt, so the       *)
(* reader goes on; a log signature or cosignature it records can only     *)
(* come from the line the log or that witness wrote (LogLineParse,         *)
(* CosigLineParse), so what the lines read so far gave is kept, and the   *)
(* line just read adds its own.                                            *)
(***************************************************************************)
LEMMA ReadWellFormed ==
  ASSUME IInv, ReadLine, lines[i].kind = "line"
  PROVE  IInv'
<1> DEFINE l  == lines[i]
           r  == ParseEd25519SignatureLine(l, Origin)
           cs == [w \in Witnesses |-> ParseCosignature(l, WitnessKey(w))]
<1>1. i \in 1..Len(lines) /\ l \in Candidates /\ pc = "read" /\ err = "none"
  BY DEF ReadLine, IInv
<1>2. "invalid" \notin {r.err} \cup {cs[w].err : w \in Witnesses}
  BY WellFormedNotInvalid
<1>3. /\ logSig' = IF r.err = "none" /\ r.id = LogKeyId THEN [found |-> TRUE, sig |-> r.sig] ELSE logSig
      /\ cosigs' = [w \in Witnesses |-> IF cs[w].err = "none" THEN Found(cs[w]) ELSE cosigs[w]]
      /\ i' = i + 1 /\ UNCHANGED <<lines, err, pc>>
  BY <1>2 DEF ReadLine, LogKeyId
<1>4. LogRead(i) => logSig' = [found |-> TRUE, sig |-> LogSignature]
  <2>1. CASE l = LogLine
    <3>1. r = [err |-> "none", id |-> LogKeyId, sig |-> LogSignature]
      BY <1>1, <2>1, LogLineParse
    <3>2. QED
      BY <1>3, <3>1
  <2>2. CASE l # LogLine
    <3>1. LogRead(i) => LogRead(i - 1)
      BY <1>1, <2>2 DEF LogRead
    <3>2. ~(r.err = "none" /\ r.id = LogKeyId)
      BY <1>1, <2>2, LogLineParse
    <3>3. QED
      BY <1>3, <3>1, <3>2 DEF IInv
  <2>3. QED
    BY <2>1, <2>2
<1>5. ASSUME NEW w \in Witnesses
      PROVE  CosigRead(w, i) => cosigs'[w] = Expected(w)
  <2>1. CASE l = CosigLine(w)
    <3>1. cs[w] = ParseCosignature(CosigLine(w), WitnessKey(w))
      BY <2>1
    <3>2. cs[w].err = "none" /\ Found(cs[w]) = Expected(w)
      BY <1>1, <3>1, CosigLineParse DEF Expected, Found
    <3>3. QED
      BY <1>3, <3>2
  <2>2. CASE l # CosigLine(w)
    <3>1. CosigRead(w, i) => CosigRead(w, i - 1)
      BY <1>1, <2>2 DEF CosigRead
    <3>2. cs[w].err # "none"
      BY <1>1, <2>2, CosigLineParse
    <3>3. QED
      BY <1>3, <3>1, <3>2 DEF IInv
  <2>3. QED
    BY <2>1, <2>2
<1>6. QED
  BY <1>1, <1>3, <1>4, <1>5 DEF IInv, LogRead, CosigRead

\* Reading a malformed line ends the reading with the error it reports.
LEMMA ReadMalformed ==
  ASSUME IInv, ReadLine, lines[i].kind # "line"
  PROVE  IInv'
<1>1. i \in 1..Len(lines) /\ lines[i] \in Candidates
  BY DEF ReadLine, IInv
<1>2. lines[i] = Malformed
  BY <1>1, NoteAssumption
<1>3. ParseEd25519SignatureLine(lines[i], Origin).err = "invalid"
  BY <1>2, MalformedInvalid DEF Malformed
<1>4. err' = "invalid" /\ pc' = "done" /\ UNCHANGED <<lines, i, logSig, cosigs>>
  BY <1>3 DEF ReadLine
<1>5. QED
  BY <1>1, <1>2, <1>4 DEF IInv, LogRead, CosigRead

\* Every step of the reader keeps the inductive invariant.
LEMMA NextIInv == IInv /\ [Next]_vars => IInv'
<1> SUFFICES ASSUME IInv, [Next]_vars PROVE IInv'
  OBVIOUS
<1>1. CASE ReadLine
  BY <1>1, ReadWellFormed, ReadMalformed
<1>2. CASE Finish
  BY <1>2 DEF Finish, IInv, LogRead, CosigRead
<1>3. CASE Done \/ UNCHANGED vars
  BY <1>3 DEF Done, vars, IInv, LogRead, CosigRead
<1>4. QED
  BY <1>1, <1>2, <1>3 DEF Next

(***************************************************************************)
(* For every set of witnesses, key ids and candidate lines in which each  *)
(* key signs at most one line, reading a note whose lines are well formed *)
(* ends without error with the log signature and every cosignature that  *)
(* is on it, in whatever order its lines come (NoteComplete, checked by   *)
(* run signed_note): parseNoteSignature calls a line of the other size    *)
(* unwanted, not corrupt, and ParseCosignature splits the blob at byte 8. *)
(* IInv says what the lines read so far have given.                       *)
(***************************************************************************)
THEOREM NoteCompleteHolds == Spec => []NoteComplete
<1>1. IInv => NoteComplete
  <2> SUFFICES ASSUME IInv, pc = "done", \A k \in 1..Len(lines) : lines[k] # Malformed
               PROVE  /\ err = "none"
                      /\ LogLine \in Range(lines) => logSig = [found |-> TRUE, sig |-> LogSignature]
                      /\ \A w \in Witnesses :
                           CosigLine(w) \in Range(lines) => cosigs[w] = Expected(w)
    BY DEF NoteComplete, Expected
  <2>1. err = "none" /\ i = Len(lines) + 1
    BY DEF IInv
  <2>2. DOMAIN lines = 1..Len(lines)
    BY DEF IInv
  <2>3. LogLine \in Range(lines) => LogRead(i - 1)
    BY <2>1, <2>2 DEF Range, LogRead
  <2>4. \A w \in Witnesses : CosigLine(w) \in Range(lines) => CosigRead(w, i - 1)
    BY <2>1, <2>2 DEF Range, CosigRead
  <2>5. QED
    BY <2>1, <2>3, <2>4 DEF IInv
<1>2. QED
  BY <1>1, InitIInv, NextIInv, PTL DEF Spec
=============================================================================
