SPECIFICATION Spec
CONSTANTS
  a = a
  Clients = {c1}
  Urls = {1}
  Terms = {a}
  Contexts = {1, 2}
  Pages <- ThreePages
  NoPage = NoPage
  MaxPages = 1
  MaxDecisions = 2
  RefreshDays = 2
  RetryDays = 1
  InitialCatalog <- ListedTwice
  LastDay = 1
  MaxRevision = 3
  MaxEdits = 0
CHECK_DEADLOCK FALSE
INVARIANTS
  InactiveIsHistorical
