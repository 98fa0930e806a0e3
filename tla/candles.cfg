SPECIFICATION Spec
CONSTANTS
  Symbols = {1}
  Benchmark = 1
  Listed <- MCListed
  Weekend = {6}
  FirstDay = 5
  LastDay = 7
  Lead = 1
  Window = 2
  Overlap = 1
  Modes = {"live"}
  TxDays = {2}
  MaxTx = 1
  MaxFailures = 1
INVARIANTS CacheSound HistoryCurrent
