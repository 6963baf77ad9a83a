SPECIFICATION Spec
CONSTANTS
  Procs = {p1, p2}
  None = none
  MaxVersion = 2
  MaxInode = 2
SYMMETRY Symmetry
INVARIANTS DirectoryInv
PROPERTIES NothingStaleIsUsed BootstrapIsFirstUse ExitTellsTheTruth
