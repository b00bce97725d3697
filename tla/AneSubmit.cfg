SPECIFICATION FairSpec
CONSTANTS
  Clients = {c1, c2}
  Bos = {b1, b2}
  Hws = {"H13", "H14"}
  MaxJobs = 2
  None = None
  Orphan = Orphan
INVARIANTS TypeOK EngineRunsOwnRequest OkMeansRan
PROPERTIES SubmitReturns
