SPECIFICATION ImportSpec
CONSTANTS
  GENESIS_TIMESTAMP = 1
  PERIOD_SECONDS = 2
  MaxUint64 = 2
  ZeroRounds = {}
  Skew = 0
  Relayers = {p1}
  None = none
  MaxTime = 3
  ImportRounds = {2}
  MaxAttempts = 1
  MaxTimer = 1
  MaxSafeInteger = 3
  MaxTx = 1
INVARIANTS FetchesWhenScheduled
