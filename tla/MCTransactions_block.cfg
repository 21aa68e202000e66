CONSTANTS
  Sender <- MCSender
  Other <- MCOther
  Nobody = "nobody"
  FeeCollector = "feeCollector"
  Distribution = "distribution"
  Contract = "contract"
  Blocked = {"feeCollector"}
  Txs <- BlockTxs
  NoTx = NoTx
  NoSend = NoSend
  Params <- BlockParams
  London = TRUE
  Hooks = TRUE
  Refunds = {0}
  Payload = {"x", "y"}
  EvmLogs <- MCEvmLogs
  HookLogs <- NoLogs
  Overhead = {1}
  MinGasPrice = 1
  NodeGasPrice = 1
  Multiplier <- Half
  BlockGasLimit = 5
  GenesisSeq <- MCGenesisSeq
  GenesisBank <- MCGenesisBank_rich
  MaxTxs = 3
  MaxMempool = 0
SPECIFICATION Spec
INVARIANTS FeesMatchGas NoncesSpent   LogsNumbered BloomMatchesLogs BlockGasShown ReceiptsExplainFees 
