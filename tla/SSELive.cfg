SPECIFICATION FairSpec
CONSTANTS
  Clients = {c1}
  Events = 3
  Matching = {0, 1, 2}
  ReplayLimit = 3
  QueueSize = 1
  BufferSize = 2
  NoteSize = 1
  Worlds <- LiveWorlds
CHECK_DEADLOCK FALSE
PROPERTIES
  EventuallySeen
  LiveSubscriberCatchesUp
