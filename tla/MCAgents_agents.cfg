SPECIFICATION AgentSpec
CONSTANTS
  p1 = p1
  p2 = p2
  p3 = p3
  r1 = r1
  r2 = r2
  stuck = stuck
  Party <- MCParty
  Treasury = treasury
  Admin = p1
  Root <- MCRoot
  GenesisRoot = r1
  Batch <- MCBatch
  TraceLength = {2, 3}
  Bond = {2}
  minimum_bond = 2
  requested_window = 4
  requested_age = 0
  CHALLENGE_WINDOW_FLOOR = 4
  MAX_FUTURE_DRIFT_SECS = 0
  MIN_MAX_BATCH_AGE_SECS = 8
  MAX_MAX_BATCH_AGE_SECS = 8
  InitialFunds = 6
  MaxAssertions = 4
  LastPost = 8
  LastTimestamp = 8
  MaxTime = 6
  ARITY = 2
  MOVE_TIMEOUT = 1
  CLOCK_BUDGET_DIVISOR = 4
  UNCOMPILABLE = uncompilable
  Exec <- MCExec
  Program <- MCProgram
  HonestParty = {}
  LastOpen = 8
  relayer = p1
  watcher = p2
  relayer_bond = 2
  watcher_bond = 2
  Sealable <- MCSealable
  Claims <- MCClaims
  Keyless = {"k", "x"}
  POSEIDON_STEPS = 2
  keyless_steps_per_tx = 2
  MaxBlocks = 2
  LastSeal = 0
  MaxForeign = 1
  LastForeign = 1
  MaxFaults = 2
  MaxEvents = 3
INVARIANTS
  RelayerBooksTrue
  RelayerKeepsUp
  
  UnsoundFinalOnlyUnseen
  WatcherStandsOnTruth
CHECK_DEADLOCK FALSE
