\* A boundary snapshot under way while Stop writes the final metadata.
CONSTANTS
  Threads = {t1, t2}
  Producers = {p1}
  Peers = {u1}
  MaxTracks = 1
  MaxPackets = 1
  MaxEvents = 2
  StorageFaults = FALSE
SPECIFICATION Spec
CHECK_DEADLOCK FALSE
INVARIANT CompletedMetadataIsFinal
