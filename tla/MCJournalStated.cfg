SPECIFICATION Spec
CONSTANTS
  Clients = {c1, c2}
  RunIds = {r1}
  Bodies = {a, b}
  CallerKinds = {"recorded"}
  Stated = {TRUE}
  MaxEvents = 3
  MaxTears = 0
SYMMETRY ClientSymmetry
PROPERTIES
  RetryIsNoConflict
