SPECIFICATION FairSpec
CONSTANTS
  Workers = {w1, w2}
  Partitions = {p}
  NoWorker = none
  NoOwner = none
  Length = 2
  MaxAttempts = 3
  BatchSize = 2
  FaultBudget = 2
  FaultKinds = {"crash", "close", "db", "timeout", "handler", "claimStall"}
INVARIANTS
  PublishedPrefix
  PublishedIsAccepted
  RunsWithinAttempts
  HandlersExclusive
PROPERTIES
  HandledInOrder
  NoRunAfterCompletion
  SettledIsFinal
  DeliversInOrder
  EventuallyPublished
