SPECIFICATION Spec
CONSTANTS
  s1 = s1
  s2 = s2
  s3 = s3
  Snapshots <- MCSnapshots
  None = none
  Torn = torn
INVARIANTS JournalInv
PROPERTIES ImplementsAtomicJournal
