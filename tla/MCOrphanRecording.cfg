\* Both streams of an SFU end, the replaced one first.
CONSTANTS
  Streams = {s1, s2}
  Rooms = {r1}
  NoStream = NoStream
  NoRoom = NoRoom
  Main = Main
  MaxRecordings = 1
  MaxBoundaries = 0
  MayShutDown = FALSE
  Shelves = TRUE
  Compositer = TRUE
SPECIFICATION Spec
CHECK_DEADLOCK FALSE
INVARIANT NoRecordingWithoutStream
