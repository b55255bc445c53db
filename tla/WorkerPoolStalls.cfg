CONSTANTS
  Job = {j1}
  Worker = {w1, w2}
  Relayer = {r1}
  Actor = {w1, w2, r1}
  NoOne = NoOne
  NoJob = NoJob
  MaxAttempts = 2
  Disturbances = 2
  HeartbeatsKeepUp = FALSE
SPECIFICATION FairPoolSpec
INVARIANTS
  LeaseIsWhole
  RetryIsOnAQueue
  AttemptsMatchRows
  OneSuccessPerJob
PROPERTIES
  ImplementsContract
  ProofIsFinal
  SpentJobsComeBackOnlyByHandBack
  EveryJobIsDecided
