SPECIFICATION Spec
CONSTANTS
  Clients = {c1, c2}
  RunIds = {r1}
  Bodies = {a, b}
  CallerKinds = {"run_started", "recorded"}
  Stated = {FALSE}
  MaxEvents = 3
  MaxTears = 0
SYMMETRY ClientSymmetry
INVARIANTS
  OneRunStarted
