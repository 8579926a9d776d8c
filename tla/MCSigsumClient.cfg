CONSTANTS
  Nums <- MCNums
  MaxU64 <- MCMaxU64
  LogErrors <- MCLogErrors
SPECIFICATION FairSpec
VIEW CallView
INVARIANT ResultBacked
PROPERTY CallReturns
