--------------------------- MODULE MCTrackWriter ---------------------------
(* Instances of TrackWriter for TLC.                                        *)
EXTENDS TrackWriter

(* With two bits of length the third packet is too long.                    *)
Payloads == [n \in 1..MaxPackets |-> <<1, 2, 4, 1>>[n]]
=============================================================================
