SPECIFICATION L1FairSpec
CONSTANTS
  p1 = p1
  p2 = p2
  p3 = p3
  r1 = r1
  r2 = r2
  Party <- MCParty2
  Treasury = treasury
  Admin = p1
  Root <- MCRoot
  GenesisRoot = r1
  Batch <- MCSteps
  TraceLength = {2}
  Bond = {2}
  minimum_bond = 2
  requested_window = 4
  requested_age = 0
  CHALLENGE_WINDOW_FLOOR = 4
  MAX_FUTURE_DRIFT_SECS = 0
  MIN_MAX_BATCH_AGE_SECS = 6
  MAX_MAX_BATCH_AGE_SECS = 6
  InitialFunds = 4
  MaxAssertions = 2
  LastPost = 0
  LastTimestamp = 0
  MaxTime = 6
  ARITY = 2
  MOVE_TIMEOUT = 1
  CLOCK_BUDGET_DIVISOR = 4
  UNCOMPILABLE = uncompilable
  Exec <- MCExec
  Program <- MCProgram
  HonestParty = {}
  LastOpen = 3
PROPERTIES
  EveryDisputeConcludes
CHECK_DEADLOCK FALSE
