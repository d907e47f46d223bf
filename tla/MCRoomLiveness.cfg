\* Termination of Stop with a faulty object store.
CONSTANTS
  Threads = {t1, t2}
  Producers = {p1}
  Peers = {}
  MaxTracks = 1
  MaxPackets = 1
  MaxEvents = 3
  StorageFaults = TRUE
SPECIFICATION FairSpec
CHECK_DEADLOCK FALSE
PROPERTY StopTerminates
