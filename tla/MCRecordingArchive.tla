------------------------- MODULE MCRecordingArchive -------------------------
(* Instances of RecordingArchive for TLC.                                   *)
EXTENDS RecordingArchive, TLC

Symmetry == Permutations(Producers)
=============================================================================
