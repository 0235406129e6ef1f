SPECIFICATION LiveSpec
CONSTANTS
  base = base
  arb = arb
  poly = poly
  t1 = t1
  Targets <- TargetOrder
  FillChains <- Fills
  Home = base
  Triggers <- OneTrigger
  MinStable <- Mins
  TargetStable <- Aims
  HighWater <- Highs
  GasToSend = 1
  EnoughGas = 2
  NativeSurplus = 3
  GasTopupUsd = 2
  MinBridgeUsd = 1
  BootstrapUsd = 1
  UsdtSwapUsd = 2
  SolanaBridgeUsd = 2
  MinWalletUsd = 4
  NativeUsd = 1
  Approvable <- Listed
  DirectChains <- Direct1
  Cooldown = 1
  Losses <- NoLoss
  Wallets <- PoorArb
  MaxCycles = 0
  MaxShocks = 0
PROPERTIES TriggerIsAnswered EventuallyServed
CHECK_DEADLOCK FALSE
