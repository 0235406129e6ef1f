SPECIFICATION FairSpec
CONSTANTS
  i1 = i1
  i2 = i2
  Tick = tick
  Api = api
  Intents = {i1, i2}
  DeBridge = {i1}
  Solana = {}
  Replayed = {}
  AmountUsd <- MCAmountUsd
  BudgetUsd = 10
  FillPermits = 1
  MaxErrors = 1
  MaxRestarts = 0
CHECK_DEADLOCK FALSE
PROPERTIES
  TasksEnd
  ConfirmedIsClaimed
