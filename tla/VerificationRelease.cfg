SPECIFICATION Spec
CONSTANTS
  Instances = {i1}
  CandidateCount = 1
  MaxVersion = 2
  OwnIds = {}
  Requested <- MCRequested
  Auths = {a1}
  NoAnswer = nothing
  Library <- MCLibrary
  Offered = {"quiz", "hidden", "sampled", "personal"}
  Snapshot <- MCSnapshot
  RetrievalChoices = {"SUCCEEDED"}
  FateChoices = {"answers", "silent"}
  MaxOutages = 1
  MaxDeliveries = 2
  QueueBound = 1
  MaxMatches = 2
  MaxStringLength = 100
  FaultKinds = {"crash", "db", "queue", "deadline", "module"}
  FaultBudget = 1
CHECK_DEADLOCK FALSE
INVARIANT
  PublishedIsVerified
