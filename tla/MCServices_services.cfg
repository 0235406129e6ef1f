SPECIFICATION Spec
CONSTANTS
  Watches = {"base", "polygon"}
  PendingTxs = {"t1", "t2", "t3", "t4"}
  SeenOn <- TwoChains
  Fills = {"t1", "t2", "t3"}
  OrderIn <- OneOrder
  Permits = {"p1", "p2"}
  Workers = {"w1", "w2"}
  MaxGuardFaults = 1
  MaxDraws = 2
  GasChains = {1}
  L1 = 1
  Protocols = {"MAYAN_SWIFT", "dln", "lifi"}
  IntelIds <- SomeIds
  IntelBps <- SomeFees
  Normal <- NormalForm
  DlnFamily = {"dln"}
  MayanFamily = {"MAYAN_SWIFT"}
  DefaultBps = 1
  GrossPerBps = 5
  MinProfit = 1
  GasLevels = {1, 3}
  DefaultGwei = 2
  FallbackCost <- FixedCosts
  CacheTtl = 2
  FetchTimeout = 1
  MaxTime = 3
  MaxClockSteps = 1
  Posts = {1, 2}
  Payloads <- SomePayloads
  Files <- SomeFiles
  NoFile = NoFile
  Venues = {1, 2}
  Internal = 0
  NoVenue = 99
  MaxBoots = 2
  MaxHandFaults = 2
  MaxLate = 2
  Wallets = {"w1", "w2"}
  SolverOf <- SolverIds
  Requests = {"r1", "r2", "r3"}
  Form <- SomeForms
  Nonces = {1, 2}
  NonceTtl = 1
  NonceCap = 1
  MaxNow = 1
  MaxHostFaults = 1
  HalfRange = 8192
  Inflows <- SomeInflows
  Fractions <- SomeFractions
  Registered = {"across-v3", "mayan-evm-swift-v1", "mayan-solana-swift-v1"}
  FillProtocols = {"across", "across_v3", "mayan_swift"}
  FillChains = {1, 1399811149}
  Deposits <- SomeDeposits
  SkipEstimate = FALSE
  Calls = {"c1", "c2", "c3", "c4"}
  CallOf <- SomeCalls
  Allowance = 3
  MaxSignerFaults = 1
  Route <- SomeRoute
  FundingToken = 4
  Topup = 3
  MinBridge = 1
  Homes = {"arbitrum", "base"}
  Balances <- SomeBalances
  MaxSweepFaults = 1
  MaxSpends = 1
  Orders <- SomeOrders
  ReadyPrograms = {"swift"}
  HashLife = 1
  SocketOrders = {"d1", "d2"}
  SwapOrders = {"m1", "m2"}
  LifiOrders = {"l1"}
  Fit = {"d1", "m1"}
  WantedOrders = {"d1", "m1", "l1"}
  PageSize = 1
  SocketCap = 1
  SwapCap = 2
  QueueCap = 1
  Crowds <- SomeCrowds
  MaxDrops = 1
  NoOrder = NoOrder
INVARIANTS TypeOK  RedrawIsExcused PriceIsFresh NonceAdmitsOnce
  SharesAreFair SignedIsAccepted  RevertsAreExcused LandedIsRecorded
PROPERTIES RowsSettle ExplorerCatchesUp StrandedComesHome OpenIsTaken
CHECK_DEADLOCK FALSE
