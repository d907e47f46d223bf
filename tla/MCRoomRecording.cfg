\* Safety with a faulty object store: two goroutines, two producers, two tracks.
CONSTANTS
  Threads = {t1, t2}
  Producers = {p1, p2}
  Peers = {u1}
  MaxTracks = 2
  MaxPackets = 1
  MaxEvents = 3
  StorageFaults = TRUE
SPECIFICATION Spec
SYMMETRY Symmetry
CHECK_DEADLOCK FALSE
INVARIANTS
  TypeOK
  CompletedIsSealed
  WriterAccounted
  CountsAreFinal
  FinalCatalogue
  SnapshotsExplained
  OneFinalizer
PROPERTIES
  FinishedStaysFinished
  ImplementsContract
