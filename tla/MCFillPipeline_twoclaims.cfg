SPECIFICATION Spec
CONSTANTS
  i1 = i1
  i2 = i2
  Tick = tick
  Api = api
  Intents = {i1}
  DeBridge = {i1}
  Solana = {}
  Replayed = {}
  AmountUsd <- MCAmountUsd
  BudgetUsd = 10
  FillPermits = 1
  MaxErrors = 0
  MaxRestarts = 0
CHECK_DEADLOCK FALSE
INVARIANT OneClaimInFlight
