SPECIFICATION SyncSpec
CONSTANTS
  a1 = a1
  a2 = a2
  AttemptIds = {a1}
  Foreign = foreign
  None = none
  MaxBlocks = 3
  MaxForeign = 3
  WorkOf <- TwoWorks
  MaxBlockRange = 1
  MaxRepairs = 2
  MaxRetained = 2
  HeadBrackets = FALSE
SYMMETRY Symmetry
INVARIANTS SyncInv ForeignActivityIsFound ResolutionsAreTrue
PROPERTIES RepairsAreSound
