SPECIFICATION LiveSpec
INVARIANT PassedIsScanned
PROPERTIES LifiDecided 
CHECK_DEADLOCK FALSE
CONSTANTS
  None = None
  ChannelCap = 1
  GenomeEvents <- AllEvents
  Deposits <- ExclusiveDeposit
  DstChains <- OneChain
  BufferCap = 1
  DedupWindow = 4
  SeenCap = 2
  SeenEvict = 1
  MaxEvents = 2
  MaxBreaks = 1
  MaxApiErrors = 1
  LogChains = {42161}
  DlnOrders <- DlnOrdersMade
  SolanaChain = 100000001
  NonEvmChains <- NonEvm
  FillTokens = {"usdc"}
  BlocksPerBatch = 1
  FirstHead = 1
  MaxHead = 8
  RpcLag = 1
  MaxLogErrors = 1
  Acceptable <- AllAcceptable
  MaxRetries = 2
  RetryCap = 1
  QuestBridges <- QuestNames
  SendingKnown <- KnownSending
  MayanOf <- MayanOrders
