CONSTANTS
  Job = {j1, j2}
  Call = {j1, j2}
  Relayer = {r1, r2}
  Account = {r1, r2}
  Actor = {r1, r2, w1}
  NullifierOf <- SharedNullifier
  Sound = {j1, j2}
  NoOne = NoOne
  Nothing = Nothing
  MaxAttempts = 3
  Confirmations = 2
  MaxPrice = 2
  MaxReorgs = 0
  Evictions = 0
  Changes = 0
  LateInclusion = TRUE
  Disturbances = 1
  TableKept = FALSE
SPECIFICATION RelaySpec
CHECK_DEADLOCK FALSE
INVARIANTS
  RelayTypeOK
  FailedIsNotSettled
  FailureIsDeserved
  LiveSettlementIsLatest
  NullifierSpentOnce
