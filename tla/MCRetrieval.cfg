SPECIFICATION Spec
CONSTANTS
  MaxRedirects = 2
  Threads = {t1, t2}
  Urls = {"a", "b"}
  Selected = "a"
  Resource = "resource"
  NoUrl = "none"
  NoThread = NoThread
  Statuses = {"ok", "gone"}
  MaxResources = 3
  MaxBytes = 2
  Origins = {"o", "p"}
  Paths <- SomePaths
  Published <- TwoFiles
  Missing = Missing
  NoOrigin = "none"
  MaxHops = 1
  MaxResponse = 1
  MaxSession = 3
  Patience = 2
CHECK_DEADLOCK FALSE
INVARIANTS
  TypeOK
  Metered
PROPERTIES
  OneDocument
  Courteous
  RetrievalEnds
