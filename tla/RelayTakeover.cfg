CONSTANTS
  Job = {j1}
  Call = {j1}
  Relayer = {r1, r2}
  Account = {r1, r2}
  Actor = {r1, r2, w1}
  NullifierOf <- OwnNullifiers
  Sound = {j1}
  NoOne = NoOne
  Nothing = Nothing
  MaxAttempts = 2
  Confirmations = 2
  MaxPrice = 2
  MaxReorgs = 0
  Evictions = 0
  Changes = 0
  LateInclusion = FALSE
  Disturbances = 1
  TableKept = TRUE
SPECIFICATION RelaySpec
CHECK_DEADLOCK FALSE
PROPERTIES
  OneNoncePerSettlement
