\* Every query on a chain of up to four blocks.
SPECIFICATION Spec
CONSTANTS
  Nil = Nil
  Block <- MCBlock
  MaxHeight = 4
  TxGas = 2
  GasCap = 6
  GasArg <- MCGasArg
  MaxGas <- MCMaxGas
  Uint64 = 16
  Criteria <- MCCriteria
  Address <- MCAddress
  Topic <- MCTopic
  LogsCap = 4
  BlockRangeCap = 2
  maxToOverhang = 1
  FeeHistoryCap = 2
  Percentiles <- MCPercentiles
  Refused <- MCRefused
  MaxKeys = 2
  Args <- MCArgs
  GasLimits = {2}
  RPCGasCap = 6
  RPCMinGasPrice = 2
  MinGasPriceParam = 1
  DecScale = 4
  Elasticity = 4
  Denominator = 2
  FullBlock = 8
INVARIANTS
  EstimateTight
  EstimateLeast
  SearchComplete
  HistoryFaithful
  TraceOnOwnState
  AnswerOfAskedBlock
  LatestServed
  
CHECK_DEADLOCK FALSE
