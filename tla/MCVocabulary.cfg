SPECIFICATION Spec
CONSTANTS
  a = a
  Clients = {c1, c2}
  Urls = {1}
  Terms = {a}
  Contexts = {1, 2}
  Pages <- TwoPages
  NoPage = NoPage
  MaxPages = 1
  MaxDecisions = 2
  RefreshDays = 2
  RetryDays = 1
  InitialCatalog <- Listed
  LastDay = 1
  MaxRevision = 3
  MaxEdits = 2
SYMMETRY Same
CHECK_DEADLOCK FALSE
INVARIANTS
  TypeOK
  ActiveIsSupported
PROPERTIES
  NotOvertaken
  DecisionsStand
  HistoryKept
  LostWithReason
