SPECIFICATION CycleSafety
CONSTANTS
  a1 = a1
  a2 = a2
  AttemptIds = {a1, a2}
  Foreign = foreign
  None = none
  MaxBlocks = 3
  MaxForeign = 1
  WorkOf <- TwoWorks
  MaxBlockRange = 1
  MaxRepairs = 1
  MaxRetained = 2
  HeadBrackets = FALSE
  CalmAfter = 2
  MaxFaults = 1
SYMMETRY Symmetry
INVARIANTS CycleInv PreparedIsSendable
PROPERTIES ResendsAreSpaced
