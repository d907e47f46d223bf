\* One stream, two rooms, upserts and a shutdown.
CONSTANTS
  Streams = {s1}
  Rooms = {r1, r2}
  NoStream = NoStream
  NoRoom = NoRoom
  Main = Main
  MaxRecordings = 2
  MaxBoundaries = 0
  MayShutDown = TRUE
  Shelves = TRUE
  Compositer = TRUE
SPECIFICATION FairSpec
CHECK_DEADLOCK FALSE
INVARIANTS
  OutcomesFollowStop
  SessionsFollowStop
PROPERTIES
  DisconnectFinalizes
  ShutdownEnds
