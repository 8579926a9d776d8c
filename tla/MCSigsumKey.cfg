CONSTANTS
  Keys <- MCKeys
  Msgs <- MCMsgs
SPECIFICATION Spec
INVARIANT VerifyExact
