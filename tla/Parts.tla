-------------------------------- MODULE Parts --------------------------------
(***************************************************************************)
(* The parts into which a recording is cut for export                       *)
(* (buildParts and buildRecordingPartsForPolicy, internal/grpc/handlers.go; *)
(* buildPart, internal/grpc/live_recorder.go).  Durations are in any unit;  *)
(* Milliseconds rounds them down as time.Duration does, with Unit units in  *)
(* a millisecond.                                                           *)
(***************************************************************************)
EXTENDS Integers

CONSTANT Unit

ASSUME UnitAssumption == Unit \in Nat \ {0}

Milliseconds(d) == d \div Unit

Part(index, from, to) ==
  [index |-> index, start |-> Milliseconds(from), end |-> Milliseconds(to),
   duration |-> Milliseconds(to - from)]

TruncatedCount(duration, part) == duration \div part  \* mutant

(* The last part may be shorter than the others.                            *)
PartCount(duration, part) ==
  LET whole == duration \div part
      count == IF duration % part # 0 THEN whole + 1 ELSE whole
  IN  IF count <= 0 THEN 1 ELSE count

PartEnd(i, duration, part) == IF i * part > duration THEN duration ELSE i * part

BuildParts(duration, part) ==
  IF part <= 0 THEN <<>>
  ELSE [i \in 1..PartCount(duration, part) |->
          Part(i, (i - 1) * part, PartEnd(i, duration, part))]

PartsUnasked(duration, enabled, part) ==  \* mutant
  IF duration > 0 THEN BuildParts(duration, part) ELSE <<>>

(* No part for a recording of no duration or a policy that wants none.      *)
PolicyParts(duration, enabled, part) ==
  IF duration > 0 /\ enabled THEN BuildParts(duration, part) ELSE <<>>

(* The part a live boundary announces: it is never cut short.               *)
LivePart(i, part) == Part(i, (i - 1) * part, i * part)
-----------------------------------------------------------------------------
(* What a list of parts is for                                              *)

(* The parts follow each other without gap or overlap from the start of the *)
(* recording to its end, and each says how long it is.                      *)
Tiles(list, duration) ==
  /\ list # <<>>
  /\ list[1].start = 0
  /\ \A i \in DOMAIN list :
       /\ list[i].index = i
       /\ list[i].duration = list[i].end - list[i].start
       /\ i + 1 \in DOMAIN list => list[i].end = list[i + 1].start
       /\ i + 1 \notin DOMAIN list => list[i].end = Milliseconds(duration)
==============================================================================
