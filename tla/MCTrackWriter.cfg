\* Rotations by age, by size and at boundaries, with and without a reliable store.
CONSTANTS
  MaxPackets = 4
  MaxSegments = 3
  MaxTime = 2
  SegmentDuration = 2
  SegmentMaxBytes = 8
  PartSize = 50
  LengthBits = 2
  PayloadLength <- Payloads
SPECIFICATION Spec
CHECK_DEADLOCK FALSE
INVARIANTS
  TypeOK
  Conservation
  UploadsSettled
  CountsMatchObjects
  ObjectsReadable
  SegmentsInOrder
PROPERTY ImplementsTrackContract
