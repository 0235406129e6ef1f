SPECIFICATION Spec
CONSTANTS
  i1 = i1
  i2 = i2
  Tick = tick
  Api = api
  Intents = {i1, i2}
  DeBridge = {i1}
  Solana = {i2}
  Replayed = {i1, i2}
  AmountUsd <- MCAmountUsd
  BudgetUsd = 10
  FillPermits = 1
  MaxErrors = 1
  MaxRestarts = 1
CHECK_DEADLOCK FALSE
INVARIANTS
  TypeOK
  BudgetRespected
  WalletMatchesChain
  NoSilentLeak
  ClaimableIsVisible
PROPERTY BooksFollowChain
