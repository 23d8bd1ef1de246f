SPECIFICATION FairSpec
CONSTANTS
  Instances = {i1, i2}
  CandidateCount = 1
  MaxVersion = 1
  OwnIds = {}
  Requested <- MCRequested
  Auths = {a1, a2}
  NoAnswer = nothing
  Library <- MCLibrary
  Offered = {"reading", "map", "leaking", "code"}
  Snapshot <- MCSnapshot
  RetrievalChoices = {"SUCCEEDED"}
  FateChoices = {"answers", "silent"}
  MaxOutages = 1
  MaxDeliveries = 1
  QueueBound = 1
  MaxMatches = 2
  MaxStringLength = 100
  FaultKinds = {"timeout", "module", "ttl"}
  FaultBudget = 1
CHECK_DEADLOCK FALSE
INVARIANT
  ReleasedOnce
PROPERTIES
  DecidedByOneExecution
  EventuallyDecided
