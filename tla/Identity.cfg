SPECIFICATION Spec
CONSTANTS
  Requests = {"ra", "rb", "rc", "ma", "mb", "mc", "md"}
  Keys = {"g1", "g2", "p", "c", "s"}
  KeyOf <- MCKeyOf
  OpOf <- MCOpOf
  UsesOf <- MCUsesOf
  Challenges = {"h1", "h2", "h3"}
  Workers = {"w1", "w2"}
  MaxAttempts = 2
  MaxTries = 2
  MaxSends = 2
  MaxFaults = 2
  Worlds <- MCWorlds
INVARIANTS  CompletedHasUser CommittedOncePerKey SettledAgree
PROPERTIES EndedJobStands CompensationSettles
CHECK_DEADLOCK FALSE
