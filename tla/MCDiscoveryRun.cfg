SPECIFICATION Spec
CONSTANTS
  r1 = r1
  r2 = r2
  g = g
  u = u
  v1 = v1
  v2 = v2
  Vocabularies = {v1, v2}
  NoVocabulary = none
  Names = {"a", "b", "c", "d", "e", "k", "r"}
  Known = {"k"}
  ModelResponses <- SomeAnswers
  MaxIterations = 2
  MaxCandidates = 3
  MaxAliases = 1
  MaxExclusions = 3
  Trusted <- Inventory
  Title <- Titles
  GroupSize = 2
  MaxGroups = 2
  Results = {r1, r2}
  Leads = {r1, r2}
  Cursors = {1}
  BadCursors = {}
  NoCursor = 0
  MaxPages = 2
  MaxResults = 1
  Channels = {g, u}
  Paginated = {g}
  Queries = {"q", "follow_up"}
  Bases = {"t", "iso", "x", "y"}
  Terms = {"x", "y", "t"}
  RawLeads <- TwoLeads
  Initial <- FirstQueries
  Formulations <- OneFormulation
  Recall <- OneRecall
  PageResponses <- SomePages
  MaxLeads = 4
  MaxTerms = 2
  MaxFollowUps = 1
  MaxInterrupts = 1
CHECK_DEADLOCK FALSE
INVARIANTS
  TypeOK
  AskedOnce
  Retraced
  LeadsAgree
  PlannedQueried
  ExhaustionEarned
  EveryNameOnce
PROPERTIES
  FollowUpsExclude
  Terminates
