SPECIFICATION Spec
CONSTANTS
  alice = alice
  bob = bob
  sequencer = sequencer
  usdc = usdc
  iss = iss
  jwk = jwk
  idc = idc
  epk = epk
  ZERO = zero
  FEE_VAULT = vault
  RATE_SCALE = 10
  PRICE_SCALE = 64
  SHARE_SCALE = 10
  MAX_GAS_LIMIT = 200
  MAX_FEE_BENEFICIARIES = 2
  DEFAULT_BASE_FEE_FLOOR = 8
  DEFAULT_GAS_TARGET = 75
  U128_MAX = 100000
  U64_MAX = 1000
  GOVERNABLE_PARAMETERS <- MCParameters
  MAX_TRANSACTION_BYTES = 1
  MAX_COUNCIL_SIGNATURES = 1
  mempool_capacity = 3
  MAX_BATCH_BYTES = 2
  CHALLENGE_WINDOW_FLOOR = 2
  configured_window = 1
  minimum_bond = 1
  Offered <- MCOffered
  Wallets <- MCWallets
  genesis <- MCGenesis
  identity = 1
  sequencer_bond = 1
  fee_recipient = sequencer
  keyless_config <- MCKeyless
  fee_asset_limits <- MCNoLimits
  ADMISSION_EXPIRY_MARGIN_SECS = 1
  block_interval_secs = 1
  persist_interval_secs = 2
  max_block_transactions = 2
  MaxTime = 3
  MaxRestarts = 1
  MaxClockLag = 1
CHECK_DEADLOCK FALSE
INVARIANTS
  ValueConserved
  AuthorisationsUsedOnce
  PoolIndexed
  AdmittedSeals
  ReplayAgrees
  FinalBlocksKept
  QuoteLasts
  WalletTransfersAdmitted
