CONSTANTS
  Msgs <- MCMsgs
  Keys <- MCKeys
  LogKey = "log"
  Logged <- MCLogged
  Forged <- MCForged
  ShortOf <- MCShortOf
  Bundles <- MCBundles
  TextsOf <- MCTextsOf
SPECIFICATION Spec
INVARIANT RoundTrip
INVARIANT AcceptsOnlyLogged
