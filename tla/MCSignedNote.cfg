CONSTANTS
  Origin = "log"
  LogKey = "kl"
  LogSignature = "sl"
  Witnesses <- MCWitnesses
  WitnessName <- MCWitnessName
  WitnessKey <- MCWitnessKey
  ShortId <- MCShortId
  Timestamp <- MCTimestamp
  WitnessSig <- MCWitnessSig
  Candidates <- MCCandidates
SPECIFICATION Spec
INVARIANT NoteComplete
