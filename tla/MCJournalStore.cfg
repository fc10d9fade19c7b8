SPECIFICATION Spec
CONSTANTS
  Clients = {c1, c2}
  RunIds = {r1, r2}
  Bodies = {a}
  CallerKinds = {"recorded"}
  Stated = {FALSE}
  MaxEvents = 3
  MaxTears = 1
SYMMETRY ClientSymmetry
INVARIANTS
  TypeOK
  AlwaysReadable
  ConfirmedIsRecorded
PROPERTIES
  AppendOnly
  RetryIsNoConflict
