SPECIFICATION Spec
CONSTANTS
  ARITY = 3
  MOVE_TIMEOUT = 2
  CLOCK_BUDGET_DIVISOR = 4
  HonestRoles <- OnlyChallenger
  TraceLength = {1, 2, 5, 11}
  window = 16
  Reaction = 1
  MaxTime = 9
INVARIANTS
  HonestNeverLoses
CHECK_DEADLOCK FALSE
