CONSTANTS
  Job = {j1, j2}
  Worker = {w1, w2}
  Relayer = {r1}
  Actor = {w1, w2, r1}
  NoOne = NoOne
  NoJob = NoJob
  MaxAttempts = 2
  Disturbances = 1
  HeartbeatsKeepUp = TRUE
SPECIFICATION PoolSpec
SYMMETRY Symmetry
INVARIANTS
  PoolTypeOK
  WorkersHoldTheirLease
  ProofComesFromTheLastAttempt
PROPERTIES
  ResultsCountForTheirOwnAttempt
  OnlySubmissionFailsAProvedJob
