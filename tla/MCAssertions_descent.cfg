SPECIFICATION Spec
CONSTANTS
  p1 = p1
  p2 = p2
  p3 = p3
  r1 = r1
  r2 = r2
  Party <- MCParty2
  Treasury = treasury
  Admin = p1
  Root <- MCRoot
  GenesisRoot = r1
  Batch <- MCBatch
  TraceLength = {1}
  Bond = {3}
  minimum_bond = 2
  requested_window = 1
  requested_age = 0
  CHALLENGE_WINDOW_FLOOR = 1
  MAX_FUTURE_DRIFT_SECS = 0
  MIN_MAX_BATCH_AGE_SECS = 2
  MAX_MAX_BATCH_AGE_SECS = 2
  InitialFunds = 9
  MaxAssertions = 4
  LastPost = 1
  LastTimestamp = 0
  MaxTime = 2
INVARIANTS
  EscrowBacksBonds
PROPERTIES
  KeepsThePromise
CHECK_DEADLOCK FALSE
