CONSTANTS
  Job = {j1}
  Worker = {w1, w2}
  Relayer = {}
  Actor = {w1, w2}
  NoOne = NoOne
  NoJob = NoJob
  MaxAttempts = 2
  Disturbances = 0
  HeartbeatsKeepUp = FALSE
SPECIFICATION PoolSpec
PROPERTIES
  ResultsCountForTheirOwnAttempt
