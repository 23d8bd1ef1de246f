SPECIFICATION Spec
CONSTANTS
  Processes = {"p1", "p2"}
  Requests <- MCRequests
  Command <- MCCommand
  SourceParts <- MCSourceParts
  ShardParts <- MCShardParts
  NoBase = "none"
  NoRequest = "none"
  MaxStarts = 4
  Fragile = {"sections", "faiss"}
  FaultBudget = 2
INVARIANTS AnswersFromActive RegisteredIsStored ReadyChain LockHeldByLoader
CHECK_DEADLOCK FALSE
