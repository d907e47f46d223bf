---------------------------- MODULE TrackContract ----------------------------
(***************************************************************************)
(* What a recorded track promises, without buffers, uploads and locks: the *)
(* packets accepted in the current segment are stored in one object, all   *)
(* of them and in order; a track that may lose packets, because its store  *)
(* fails, loses whole packets and nothing else.  A closed track accepts    *)
(* no more packets and opens no more segments.                             *)
(***************************************************************************)
EXTENDS Integers

CONSTANTS
  MaxPackets,   \* bound: packets accepted
  MaxSegments   \* bound: segments

VARIABLES
  lossy,     \* may the track lose packets?
  accepted,  \* number of packets accepted
  current,   \* index of the current segment
  first,     \* its first packet, once there is one
  stored,    \* packets in the object of each segment
  closed

vars == <<lossy, accepted, current, first, stored, closed>>

NothingStored == <<>>

Init ==
  /\ lossy \in BOOLEAN
  /\ accepted = 0
  /\ current = 1 /\ first = 1
  /\ stored = [i \in 1..MaxSegments |-> NothingStored]
  /\ closed = FALSE

Unstored == stored[current] = NothingStored

Accept ==
  /\ ~closed /\ Unstored
  /\ accepted < MaxPackets
  /\ accepted' = accepted + 1
  /\ UNCHANGED <<lossy, current, first, stored, closed>>

(* How many packets the current segment has accepted.                       *)
CurrentPackets == accepted - first + 1

(* The object of the current segment appears in the store: the packets of   *)
(* the segment, or some of them if the track may lose packets, in order.    *)
Store ==
  /\ Unstored
  /\ \E n \in 1..CurrentPackets : \E kept \in [1..n -> first..accepted] :
       /\ \A i, j \in 1..n : i < j => kept[i] < kept[j]
       /\ lossy \/ n = CurrentPackets
       /\ stored' = [stored EXCEPT ![current] = kept]
  /\ UNCHANGED <<lossy, accepted, current, first, closed>>

(* A segment of a track that loses nothing is left empty or stored.  The    *)
(* index of one that could not be opened is skipped.                        *)
NextSegment ==
  /\ ~closed /\ current < MaxSegments
  /\ lossy \/ first > accepted \/ ~Unstored
  /\ current' = current + 1
  /\ first' = accepted + 1 \/ (lossy /\ UNCHANGED first)
  /\ UNCHANGED <<lossy, accepted, stored, closed>>

Close ==
  /\ ~closed /\ closed' = TRUE
  /\ UNCHANGED <<lossy, accepted, current, first, stored>>

Next == Accept \/ Store \/ NextSegment \/ Close

Spec == Init /\ [][Next]_vars
==============================================================================
