SPECIFICATION Spec
CONSTANTS
  Clients = {c1, c2}
  Events = 3
  Matching = {0, 2}
  ReplayLimit = 3
  QueueSize = 1
  BufferSize = 2
  NoteSize = 1
  Worlds <- SafeWorlds
SYMMETRY ClientSymmetry
CHECK_DEADLOCK FALSE
INVARIANTS
  NoSilentGap
  CursorAccountsForAll
