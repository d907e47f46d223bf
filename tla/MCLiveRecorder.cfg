\* Policies with every combination of parts, with and without a reliable compositer.
CONSTANTS
  Unit = 2
  Second = 2
  Requests <- PolicyRequests
  MaxTime = 13
SPECIFICATION FairSpec
CHECK_DEADLOCK FALSE
INVARIANTS
  ExportedOnce
  AnnouncedAgree
  PartsAccounted
  ListsTile
  ExportsWanted
PROPERTY StopEndsLive
