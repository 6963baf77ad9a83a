SPECIFICATION Spec
CONSTANTS
  a1 = a1
  a2 = a2
  AttemptIds = {a1, a2}
  Foreign = foreign
  None = none
  MaxBlocks = 3
  MaxForeign = 1
  WorkOf <- SameWork
  MaxBlockRange = 1
  MaxRepairs = 1
  MaxRetained = 2
  HeadBrackets = TRUE
SYMMETRY Symmetry
INVARIANTS OneTransactionPerWork ResolutionIsDurable GroundsAreSound
PROPERTIES JournalOnlyAdvances
