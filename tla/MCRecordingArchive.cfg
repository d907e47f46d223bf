\* Two recordings of a room, crashes and restarts, with and without a reliable store.
CONSTANTS
  Producers = {p1, p2}
  MaxRecordings = 2
  MaxTracks = 2
  MaxPackets = 2
  SegmentLimit = 2
  MayFail = TRUE
  MaxRestarts = 1
SPECIFICATION Spec
SYMMETRY Symmetry
CHECK_DEADLOCK FALSE
INVARIANTS
  TypeOK
  SealedIsComplete
  NeverUnmarked
  CrashCostsOpenSegments
PROPERTY PastIsKept
