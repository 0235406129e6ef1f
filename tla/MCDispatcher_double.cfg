SPECIFICATION Spec
INVARIANT OneFillPerOrder
CHECK_DEADLOCK FALSE
CONSTANTS
  None = None
  ChannelCap = 1
  GenomeEvents <- AllEvents
  Deposits <- ExclusiveDeposit
  DstChains <- OneChain
  BufferCap = 1
  DedupWindow = 4
  SeenCap = 1
  SeenEvict = 1
  MaxEvents = 3
  MaxBreaks = 0
  MaxApiErrors = 0
  LogChains = {42161}
  DlnOrders <- NoOrders
  SolanaChain = 100000001
  NonEvmChains <- NonEvm
  FillTokens = {"usdc"}
  BlocksPerBatch = 1
  FirstHead = 2
  MaxHead = 2
  RpcLag = 0
  MaxLogErrors = 0
  Acceptable <- AllAcceptable
  MaxRetries = 2
  RetryCap = 1
  QuestBridges <- QuestNames
  SendingKnown <- KnownSending
  MayanOf <- MayanOrders
