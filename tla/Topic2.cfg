SPECIFICATION Spec
CONSTANTS
  Events <- MCEvents
  Point <- MCPoint
  Occurred <- MCOccurred
  Graphs <- MCGraphs
  Ops <- MCOps
  Worlds <- MCWorlds
  KindOf <- MCKindOf
  Asks <- MCAsks
  Rankings <- MCRankings
  Calls = {c1, c2}
  MinSample = 2
  BatchLimit = 2
  MaxCalls = 3
  MaxClock = 2
SYMMETRY MCSymmetry
INVARIANTS  CountedOnce OnlyOvertakenMissed EvidenceKept PathKeepsPrerequisites
CHECK_DEADLOCK FALSE
