SPECIFICATION ImportSpec
CONSTANTS
  GENESIS_TIMESTAMP = 1
  PERIOD_SECONDS = 2
  MaxUint64 = 2
  ZeroRounds = {1}
  Skew = 1
  Relayers = {p1}
  None = none
  MaxTime = 3
  ImportRounds = {2}
  MaxAttempts = 2
  MaxTimer = 1
  MaxSafeInteger = 2
  MaxTx = 2
INVARIANTS OnlyAuthenticBeacons NoCommitmentToKnownRound SimulatedImportSucceeds  DaemonPaysOnce
PROPERTIES Spec ImportsEnd
