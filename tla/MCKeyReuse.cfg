\* A producer leaves and returns within a recording; nothing fails.
CONSTANTS
  Producers = {p1}
  MaxRecordings = 1
  MaxTracks = 2
  MaxPackets = 2
  SegmentLimit = 3
  MayFail = FALSE
  MaxRestarts = 0
SPECIFICATION Spec
CHECK_DEADLOCK FALSE
INVARIANT RemovedTracksAreKept
