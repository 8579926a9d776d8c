CONSTANTS
  Nums <- MCNums
  MaxU64 <- MCMaxU64
  LogErrors <- MCLogErrors
SPECIFICATION Spec
INVARIANT StatusHonest
