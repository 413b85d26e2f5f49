SPECIFICATION MCSpec
CONSTANTS
  usdc = usdc
  tx1 = tx1
  tx2 = tx2
  r0 = r0
  r1 = r1
  r2 = r2
  ann = ann
  ben = ben
  Keys <- MCKeys
  Values <- MCValues
  Balances <- MCBalances
  MaxWrites = 4
  Txs = {tx1, tx2}
  StepsOf <- MCSteps
  MaxBatch = 5
  Cells = {0, 1, 2}
  MaxCells = 6
  ZERO = ZERO
  CHALLENGE_WINDOW_FLOOR = 2
  configured_window = 1
  minimum_bond = 1
  PostRoots = {r0}
  Contestants = {ann, ben}
  MaxPosted = 3
  MaxChainTime = 2
  STUCK = STUCK
  Roots = {r0, r1, r2}
  genesis_root = r0
  Programs <- MCPrograms
  TraceLengths = {1, 2, 5, 6}
  ARITY = 3
  MOVE_TIMEOUT = 2
  CLOCK_BUDGET_DIVISOR = 4
  window = 8
  Reaction = 1
  MaxBlocks = 2
  MaxTime = 9
  Claim = {0, 1, 2}
  RootClaim = 0
  NoClaim = NoClaim
  Users = {ann, ben}
  HeldAt <- MCHeldAt
  AMOUNT_MAX = 3
  Amounts = {0, 1, 2}
  Funds = 3
  MaxDeposits = 2
  FORCED_INCLUSION_TIMEOUT = 1
  Entries = {1}
  MaxBridgeTime = 2
  Candidates <- MCCandidates
  Windows = {0, 1, 2, 3, 4, 5, 6, 7, 8, 9, 10, 11, 12}
CHECK_DEADLOCK FALSE
INVARIANTS
  RootCanonical
  StepSettled
  BelievedIsTrue
  ServedIsAccepted
  LeavesOpen
  OneEncoding
  
  GamesAgree
  SameWinner
  
  PaidOnceAndFinal
  DisputesFitAnyWindow
PROPERTIES
  
  OverdueUntilIncluded
