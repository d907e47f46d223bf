\* Two SFUs that register, or one that registers twice, and the stop of the server.
CONSTANTS
  Streams = {s1, s2}
  MaxRegistrations = 2
SPECIFICATION FairSpec
CHECK_DEADLOCK FALSE
PROPERTIES
  KeepsBeating
  DeadLoopsEnd
  StopEndsLoops
