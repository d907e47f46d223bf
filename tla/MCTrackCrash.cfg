\* A rotation that cannot open the next segment, then a packet.
CONSTANTS
  MaxPackets = 2
  MaxSegments = 2
  MaxTime = 1
  SegmentDuration = 2
  SegmentMaxBytes = 4
  PartSize = 50
  LengthBits = 2
  PayloadLength <- Payloads
SPECIFICATION Spec
CHECK_DEADLOCK FALSE
INVARIANT FailuresAreGraceful
