SPECIFICATION QueueSpec
CONSTANTS
  Tasks = {"t1", "t2", "t3"}
  Workers = {"w1", "w2"}
  Unregistered = {"t3"}
  Urgent = {"t2"}
  NoTask = NoTask
  Capacity = 1
  Concurrency = 1
  Threshold = 2
  MaxAttempts = 2
  Burst = 1
INVARIANTS  ProbeHasCall CloseAnswersAccepted
PROPERTIES AcceptedIsAnswered
CHECK_DEADLOCK FALSE
