SPECIFICATION Spec
CONSTANTS
  corpus = corpus
  tool = tool
  corpus_ohg = corpus_ohg
  tool_ohg = tool_ohg
  rc = rc
  rt = rt
  none = none
  cand = cand
  other = other
  p1 = p1
  p2 = p2
  p3 = p3
  q1 = q1
  stray = stray
  nocell = nocell
  Clients = {c1, c2}
  Categories = {corpus, tool}
  Cells = {corpus_ohg}
  CellCategory <- CellCategories
  CandidateIds = {cand}
  Resources = {rc}
  ResourceCategory <- ResourceCategories
  NoResource = none
  Inventory <- Trusted
  PassIds = {p1, p2}
  PassCell <- PassCells
  NoCell = nocell
  Days = {1}
  Verdicts = {"pending", "added"}
  MaxRevision = 4
SYMMETRY Alike
INVARIANTS
  CompletePassSettled
