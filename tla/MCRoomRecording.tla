--------------------------- MODULE MCRoomRecording ---------------------------
(* Instances of RoomRecording for TLC.                                      *)
EXTENDS RoomRecording, TLC

Symmetry == Permutations(Threads)
=============================================================================
