CONSTANTS
  Sender <- MCSender
  Other <- MCOther
  Nobody = "nobody"
  FeeCollector = "feeCollector"
  Distribution = "distribution"
  Contract = "contract"
  Blocked = {"feeCollector"}
  Txs <- MempoolTxs
  NoTx = NoTx
  NoSend = NoSend
  Params <- MempoolParams
  London = FALSE
  Hooks = FALSE
  Refunds = {0, 3}
  Payload = {"x", "y"}
  EvmLogs <- NoLogs
  HookLogs <- NoLogs
  Overhead = {1}
  MinGasPrice = 0
  NodeGasPrice = 1
  Multiplier <- Half
  BlockGasLimit = 0
  GenesisSeq <- MCGenesisSeq_new
  GenesisBank <- MCGenesisBank
  MaxTxs = 2
  MaxMempool = 2
SPECIFICATION Spec
INVARIANTS PendingGapless RefundCovered
