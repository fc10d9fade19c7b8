SPECIFICATION FairStreamSpec
CONSTANTS
  Clients = {w1, w2}
  RunIds = {r1}
  Bodies <- MCBodies
  CallerKinds = {"recorded"}
  Stated = {FALSE}
  MaxEvents = 12
  MaxTears = 0
  Results <- MCResults
  MaxCompactions = 1
  MaxFaults = 1
  MaxDays = 1
INVARIANTS
  JournalIsPrefix
  Parity
  RefusedOnlyAfterCompaction
PROPERTIES
  StreamRecorded
