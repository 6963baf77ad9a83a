SPECIFICATION Spec
CONSTANTS
  a1 = a1
  a2 = a2
  AttemptIds = {a1, a2}
  Foreign = foreign
  None = none
  MaxBlocks = 3
  MaxForeign = 0
  WorkOf <- TwoWorks
  MaxBlockRange = 1
  MaxRepairs = 1
  MaxRetained = 2
  HeadBrackets = FALSE
SYMMETRY Symmetry
INVARIANTS EscapedIsJournaled NoEquivocation NoStrandedNonce AuthorityIsSound StatusIsHonest
PROPERTIES AuthorityByInspection
