SPECIFICATION FairSpec
CONSTANTS
  Procs = {p1, p2}
  Payloads = {a, b}
  NoProc = NoProc
  MaxRevision = 2
INVARIANTS
  TypeOK
  SingleWriter
  AckedStays
PROPERTIES
  EveryCallEnds
  ImplementsRevisionedFile
