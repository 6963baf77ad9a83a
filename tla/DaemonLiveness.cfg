SPECIFICATION FairSpec
CONSTANTS
  Rounds = {r1}
  None = none
  NumConsumers = 2
  StartBlock = 1
  MaxBlockRange = 1
  WeakTag = FALSE
  MaxBlocks = 2
  MaxReorgs = 1
  MaxFaults = 1
  MaxTrouble = 1
PROPERTIES DurableRequestsAreServed CheckpointCatchesUp
