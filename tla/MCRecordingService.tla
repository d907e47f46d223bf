------------------------ MODULE MCRecordingService ------------------------
(* Instances of RecordingService for TLC.                                   *)
EXTENDS RecordingService, TLC

Symmetry == Permutations(Streams) \cup Permutations(Rooms)
=============================================================================
