SPECIFICATION FairSpec
CONSTANTS
  Processes = {p1, p2}
  TaskCount = 2
  TaskAttempts = 2
  MaxParallelism = 2
  AllowPartial = TRUE
  Drafts <- MCDrafts
  Failures <- MCFailures
  Retriable <- MCRetriable
  Nothing = nothing
  QueueAttempts = 2
  Worlds <- RecoveryWorlds
INVARIANTS
  FinalResultStands
  GroundedOnPersisted
PROPERTIES
  WorkflowFinishes
CHECK_DEADLOCK FALSE
