SPECIFICATION Spec
CONSTANTS
  Rounds = {r1, r2}
  None = none
  NumConsumers = 1
  StartBlock = 1
  MaxBlockRange = 2
  WeakTag = TRUE
  MaxBlocks = 3
  MaxReorgs = 1
  MaxFaults = 2
  MaxTrouble = 2
SYMMETRY Symmetry
INVARIANTS DaemonInv
PROPERTIES CheckpointOnlyAdvances DecisionIsSound
