SPECIFICATION Spec
CONSTANTS
  p1 = p1
  p2 = p2
  p3 = p3
  r1 = r1
  r2 = r2
  Party <- MCParty3
  Treasury = treasury
  Admin = p1
  Root = {r1}
  GenesisRoot = r1
  Batch <- MCBatch
  TraceLength = {0, 1}
  Bond = {1, 3}
  minimum_bond = 2
  requested_window = 1
  requested_age = 3
  CHALLENGE_WINDOW_FLOOR = 2
  MAX_FUTURE_DRIFT_SECS = 1
  MIN_MAX_BATCH_AGE_SECS = 0
  MAX_MAX_BATCH_AGE_SECS = 0
  InitialFunds = 6
  MaxAssertions = 3
  LastPost = 1
  LastTimestamp = 2
  MaxTime = 3
INVARIANTS
  FinalizedIsSettled
  AlwaysExtendable
CHECK_DEADLOCK FALSE
