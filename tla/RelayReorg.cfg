CONSTANTS
  Job = {j1, j2}
  Call = {j1, j2}
  Relayer = {r1}
  Account = {r1}
  Actor = {r1, w1}
  NullifierOf <- OwnNullifiers
  Sound = {j1, j2}
  NoOne = NoOne
  Nothing = Nothing
  MaxAttempts = 2
  Confirmations = 1
  MaxPrice = 2
  MaxReorgs = 1
  Evictions = 1
  Changes = 0
  LateInclusion = FALSE
  Disturbances = 1
  TableKept = TRUE
SPECIFICATION RelaySpec
CHECK_DEADLOCK FALSE
INVARIANTS
  RowNamesTrackedTransaction
  GapStaysOpen
PROPERTIES
  OneNoncePerSettlement
  RelaysAsThePoolAssumes
