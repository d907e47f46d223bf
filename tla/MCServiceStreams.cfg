\* Two streams, one room, a shutdown.
CONSTANTS
  Streams = {s1, s2}
  Rooms = {r1}
  NoStream = NoStream
  NoRoom = NoRoom
  Main = Main
  MaxRecordings = 2
  MaxBoundaries = 1
  MayShutDown = TRUE
  Shelves = FALSE
  Compositer = TRUE
SPECIFICATION Spec
SYMMETRY Symmetry
CHECK_DEADLOCK FALSE
INVARIANTS
  TypeOK
  OneKeeper
  LiveIsRegistered
  
PROPERTY ImplementsManagerContract
