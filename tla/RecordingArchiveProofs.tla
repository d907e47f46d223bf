------------------------ MODULE RecordingArchiveProofs ------------------------
(***************************************************************************)
(* Proofs about RecordingArchive for any producers and any bounds on       *)
(* recordings, packets and restarts.  The inductive invariant has three    *)
(* layers: TypeInv, with what the map of rooms holds; MarkInv, what each   *)
(* step of Stop leaves in the bucket; and ContentInv, where each packet    *)
(* accepted is.                                                            *)
(***************************************************************************)
EXTENDS RecordingArchive, SequenceTheorems, TLAPS

TypeInv ==
  /\ TypeOK
  /\ active # NoRecording => step[active] = "running"

Catalogued(n) == metadata[n] = Document(completed[n])

(* With a reliable store: a recording has its .recording marker until the   *)
(* first request of FinalizeRecording, when no track is open any more and   *)
(* metadata.json lists all of them, and .completed after the second.        *)
MarkInv ==
  ~faults => \A n \in Recordings :
    /\ step[n] \in {"policy", "running", "closing", "metadata", "unmark"} =>
         ".recording" \in markers[n]
    /\ step[n] \in {"metadata", "unmark", "seal", "completed"} => Open(n) = {}
    /\ step[n] \in {"unmark", "seal", "completed"} => Catalogued(n)
    /\ ".completed" \in markers[n] <=> step[n] = "completed"
    /\ step[n] = "lost" => ".recording" \in markers[n] \/ (Catalogued(n) /\ Open(n) = {})
    /\ step[n] # "failed"

(* The writer of a producer carries its name and shares no packet of its    *)
(* open segment with another; each segment closed had a packet, but for the *)
(* last one of a track.                                                     *)
WritersOf(n) ==
  /\ \A p \in Open(n) :
       /\ writers[n][p].producer = p
       /\ Len(writers[n][p].segments) + (IF writers[n][p].current = {} THEN 0 ELSE 1)
            <= accepted[n]
  /\ \A i \in DOMAIN completed[n] : Len(completed[n][i].segments) <= accepted[n] + 1
  /\ \A p \in Producers :
       /\ writers[n][p].current \subseteq 1..accepted[n]
       /\ \A q \in Producers : q # p => writers[n][p].current \cap writers[n][q].current = {}
  /\ \A k \in Keys : objects[n][k] \subseteq 1..accepted[n]

(* Is k the key of a segment that the writer or TrackInfo t has closed?     *)
Has(t, k) == t.producer = k[1] /\ k[2] \in DOMAIN t.segments

(* With a reliable store, an object belongs to a segment that an open track *)
(* has closed or that a track of the catalogue has.                         *)
ObjectsOf(n) ==
  \A k \in Keys : objects[n][k] # {} =>
    \/ \E p \in Open(n) : Has(writers[n][p], k)
    \/ \E i \in DOMAIN completed[n] : Has(completed[n][i], k)

(* With a reliable store, unless a producer returned, each segment closed   *)
(* is the object of its key and what is not in an object is in an open      *)
(* segment.                                                                 *)
SegmentsOf(n) ==
  ~Returned(n) =>
    /\ \A p \in Open(n) : AsListed(n, writers[n][p])
    /\ \A i \in DOMAIN completed[n] : AsListed(n, completed[n][i])
    /\ 1..accepted[n] \ Stored(n) = UNION {writers[n][p].current : p \in Producers}

WritersInv == \A n \in Recordings : WritersOf(n)
ObjectsInv == ~faults => \A n \in Recordings : ObjectsOf(n)
SegmentsInv == ~faults => \A n \in Recordings : SegmentsOf(n)
ContentInv == WritersInv /\ ObjectsInv /\ SegmentsInv

IInv == TypeInv /\ MarkInv /\ ContentInv
-----------------------------------------------------------------------------
(* Tracks and the requests of the store.                                    *)

LEMMA TrackType ==
  /\ NoTrack.current = {} /\ NoTrack.segments = <<>> /\ NoTrack \notin Tracks
  /\ \A p \in Producers : /\ Track(p) \in Tracks /\ Track(p) # NoTrack
                          /\ Track(p).producer = p /\ Track(p).current = {}
                          /\ Track(p).segments = <<>>
<1>1. <<>> \in Seq(SUBSET Packets)
  OBVIOUS
<1> QED
  BY <1>1, ArchiveAssumption DEF NoTrack, Track, Tracks

LEMMA EndedType ==
  ASSUME NEW t \in Tracks
  PROVE  /\ Ended(t) \in Tracks /\ Ended(t).current = {}
         /\ Ended(t).producer = t.producer
         /\ Ended(t).segments = Append(t.segments, t.current)
         /\ Len(Ended(t).segments) = Len(t.segments) + 1
         /\ \A c \in SUBSET Packets :
              /\ [Ended(t) EXCEPT !.current = c] \in Tracks
              /\ [Ended(t) EXCEPT !.current = c].current = c
              /\ [Ended(t) EXCEPT !.current = c].producer = t.producer
              /\ [Ended(t) EXCEPT !.current = c].segments = Ended(t).segments
<1>1. t.segments \in Seq(SUBSET Packets) /\ t.current \in SUBSET Packets
  BY DEF Tracks
<1>2. Append(t.segments, t.current) \in Seq(SUBSET Packets)
      /\ Len(Append(t.segments, t.current)) = Len(t.segments) + 1
  BY <1>1, AppendProperties
<1> QED
  BY <1>1, <1>2 DEF Ended, Tracks

LEMMA OpenType ==
  ASSUME TypeInv, NEW n \in Recordings, NEW p \in Producers
  PROVE  /\ p \in Open(n) => writers[n][p] \in Tracks
         /\ p \notin Open(n) => writers[n][p] = NoTrack
         /\ writers[n][p].current \subseteq Packets
BY TrackType DEF TypeInv, TypeOK, Open, Tracks

(* What the end of a segment does to the objects: at most the object of its *)
(* key changes, and it gets packets of the segment; all of them, when the   *)
(* store is reliable.                                                       *)
LEMMA Stores ==
  ASSUME TypeInv, NEW n \in Recordings, NEW t \in Tracks, StoreSegment(n, t)
  PROVE  /\ objects' \in [Recordings -> [Keys -> SUBSET Packets]]
         /\ \A m \in Recordings \ {n} : objects'[m] = objects[m]
         /\ \A k \in Keys \ {NextKey(t)} : objects'[n][k] = objects[n][k]
         /\ NextKey(t) \in Keys =>
              \/ objects'[n][NextKey(t)] = objects[n][NextKey(t)]
              \/ objects'[n][NextKey(t)] \subseteq t.current
         /\ ~faults /\ NextKey(t) \in Keys =>
              objects'[n][NextKey(t)] = IF t.current = {} THEN objects[n][NextKey(t)] ELSE t.current
<1>1. PICK kept \in Kept(t.current) :
        objects' = IF kept = {} THEN objects ELSE [objects EXCEPT ![n][NextKey(t)] = kept]
  BY DEF StoreSegment
<1>2. kept \subseteq t.current /\ (~faults => kept = t.current) /\ t.current \subseteq Packets
  BY DEF Kept, Tracks
<1>3. objects \in [Recordings -> [Keys -> SUBSET Packets]]
  BY DEF TypeInv, TypeOK
<1>4. CASE kept = {}
  BY <1>1, <1>2, <1>3, <1>4
<1>5. CASE kept # {}
  <2>1. objects' = [objects EXCEPT ![n] = [objects[n] EXCEPT ![NextKey(t)] = kept]]
    BY <1>1, <1>5
  <2> QED
    BY <1>2, <1>3, <1>5, <2>1
<1> QED
  BY <1>4, <1>5

LEMMA Replaces ==
  ASSUME TypeInv, NEW n \in Recordings, NEW p \in Producers, NEW t \in Tracks \cup {NoTrack},
         writers' = [writers EXCEPT ![n][p] = t]
  PROVE  /\ writers' \in [Recordings -> [Producers -> Tracks \cup {NoTrack}]]
         /\ \A m \in Recordings \ {n} : writers'[m] = writers[m]
         /\ \A q \in Producers : writers'[n][q] = IF q = p THEN t ELSE writers[n][q]
<1>1. writers' = [writers EXCEPT ![n] = [writers[n] EXCEPT ![p] = t]]
  OBVIOUS
<1> QED
  BY <1>1 DEF TypeInv, TypeOK

LEMMA Lists ==
  ASSUME TypeInv, NEW n \in Recordings, NEW t \in Tracks,
         completed' = [completed EXCEPT ![n] = Append(@, t)]
  PROVE  /\ completed' \in [Recordings -> Seq(Tracks)]
         /\ \A m \in Recordings \ {n} : completed'[m] = completed[m]
         /\ Len(completed[n]) \in Nat
         /\ DOMAIN completed[n] = 1..Len(completed[n])
         /\ DOMAIN completed'[n] = 1..Len(completed[n]) + 1
         /\ \A i \in DOMAIN completed[n] : completed'[n][i] = completed[n][i]
         /\ completed'[n][Len(completed[n]) + 1] = t
<1>1. completed[n] \in Seq(Tracks) /\ completed'[n] = Append(completed[n], t)
  BY DEF TypeInv, TypeOK
<1> QED
  BY <1>1, AppendProperties, LenProperties DEF TypeInv, TypeOK

(* What the two outcomes of WritePacket do to the writer of the producer.   *)
LEMMA Writes ==
  ASSUME TypeInv, NEW n \in Recordings, NEW p \in Producers, WritePacket(n, p)
  PROVE  /\ p \in Open(n) /\ writers[n][p] \in Tracks
         /\ accepted[n] + 1 \in Packets
         /\ accepted' = [accepted EXCEPT ![n] = accepted[n] + 1]
         /\ UNCHANGED <<processVars, step, completed, faults, bucket, markers, metadata>>
         /\ \E t \in Tracks :
              /\ writers' = [writers EXCEPT ![n][p] = t]
              /\ t.producer = writers[n][p].producer
              /\ \/ /\ t.current = writers[n][p].current \cup {accepted[n] + 1}
                    /\ t.segments = writers[n][p].segments
                    /\ UNCHANGED objects
                 \/ /\ writers[n][p].current # {}
                    /\ StoreSegment(n, writers[n][p])
                    /\ t.current = {accepted[n] + 1}
                    /\ t.segments = Ended(writers[n][p]).segments
<1> DEFINE w == writers[n][p]
           packet == accepted[n] + 1
<1>1. /\ p \in Open(n) /\ packet \in Packets
      /\ accepted' = [accepted EXCEPT ![n] = packet]
      /\ UNCHANGED <<processVars, step, completed, faults, bucket, markers, metadata>>
  BY DEF WritePacket
<1>2. w \in Tracks
  BY <1>1, OpenType
<1>3. CASE /\ writers' = [writers EXCEPT ![n][p].current = @ \cup {packet}]
           /\ UNCHANGED objects
  <2>1. writers' = [writers EXCEPT ![n][p] = [w EXCEPT !.current = w.current \cup {packet}]]
    BY <1>3
  <2>2. /\ [w EXCEPT !.current = w.current \cup {packet}] \in Tracks
        /\ [w EXCEPT !.current = w.current \cup {packet}].producer = w.producer
        /\ [w EXCEPT !.current = w.current \cup {packet}].current = w.current \cup {packet}
        /\ [w EXCEPT !.current = w.current \cup {packet}].segments = w.segments
    BY <1>1, <1>2 DEF Tracks
  <2> QED
    BY <1>1, <1>2, <1>3, <2>1, <2>2
<1>4. CASE /\ w.current # {} /\ StoreSegment(n, w)
           /\ writers' = [writers EXCEPT ![n][p] = [Ended(w) EXCEPT !.current = {packet}]]
  <2> DEFINE t == [Ended(w) EXCEPT !.current = {packet}]
  <2>1. {packet} \in SUBSET Packets
    BY <1>1
  <2>2. /\ t \in Tracks /\ t.producer = w.producer /\ t.current = {packet}
        /\ t.segments = Ended(w).segments
    BY <1>2, <2>1, EndedType
  <2> HIDE DEF t
  <2>3. writers' = [writers EXCEPT ![n][p] = t]
    BY <1>4 DEF t
  <2> QED
    BY <1>1, <1>2, <1>4, <2>2, <2>3
<1> QED
  BY <1>3, <1>4 DEF WritePacket, Full

LEMMA WritesType ==
  ASSUME TypeInv, NEW n \in Recordings, NEW p \in Producers, WritePacket(n, p)
  PROVE  /\ writers' \in [Recordings -> [Producers -> Tracks \cup {NoTrack}]]
         /\ objects' \in [Recordings -> [Keys -> SUBSET Packets]]
         /\ accepted' \in [Recordings -> 0..MaxPackets]
         /\ \E t \in Tracks : writers' = [writers EXCEPT ![n][p] = t]
<1>1. PICK t \in Tracks : writers' = [writers EXCEPT ![n][p] = t]
  BY Writes
<1>2. objects' = objects \/ StoreSegment(n, writers[n][p])
  BY Writes
<1>3. accepted[n] + 1 \in 0..MaxPackets /\ accepted' = [accepted EXCEPT ![n] = accepted[n] + 1]
  BY Writes DEF Packets
<1>4. writers' \in [Recordings -> [Producers -> Tracks \cup {NoTrack}]]
  BY <1>1, Replaces
<1>5. objects' \in [Recordings -> [Keys -> SUBSET Packets]]
  BY <1>2, Writes, Stores DEF TypeInv, TypeOK
<1> QED
  BY <1>1, <1>3, <1>4, <1>5 DEF TypeInv, TypeOK

-----------------------------------------------------------------------------
(* Types, and the recording of the map.                                     *)

LEMMA InitTypeInv == Init => TypeInv
<1>1. <<>> \in Seq(Tracks) /\ NoDocument \in [exists : BOOLEAN, tracks : Seq(Tracks)]
  BY DEF NoDocument
<1>2. Init => /\ writers \in [Recordings -> [Producers -> Tracks \cup {NoTrack}]]
              /\ completed \in [Recordings -> Seq(Tracks)]
              /\ metadata \in [Recordings -> [exists : BOOLEAN, tracks : Seq(Tracks)]]
              /\ objects \in [Recordings -> [Keys -> SUBSET Packets]]
              /\ markers \in [Recordings -> SUBSET {".recording", ".completed"}]
  BY <1>1 DEF Init
<1>3. Init => /\ restarts \in 0..MaxRestarts
              /\ accepted \in [Recordings -> 0..MaxPackets]
              /\ faults \in BOOLEAN
  <2>1. MaxRestarts \in Nat /\ MaxPackets \in Nat /\ MayFail \in BOOLEAN
    BY ArchiveAssumption
  <2>2. Init => faults \in BOOLEAN
    BY <2>1 DEF Init
  <2>3. Init => restarts \in 0..MaxRestarts
    BY <2>1 DEF Init
  <2>4. Init => accepted \in [Recordings -> 0..MaxPackets]
    BY <2>1 DEF Init
  <2> QED
    BY <2>2, <2>3, <2>4
<1>4. Init => active = NoRecording /\ taken = NoRecording
  BY DEF Init
<1>5. Init => /\ main \in {"starting", "serving", "stopping", "shutdown", "down"}
              /\ bucket \in BOOLEAN
              /\ step \in [Recordings -> {"none", "refused", "policy", "running", "closing",
                              "metadata", "unmark", "seal", "completed", "failed", "lost"}]
  BY DEF Init
<1> QED
  BY <1>2, <1>3, <1>4, <1>5 DEF TypeInv, TypeOK

LEMMA NextTypeInv == TypeInv /\ [Next]_vars => TypeInv'
<1> SUFFICES ASSUME TypeInv, [Next]_vars PROVE TypeInv'
  OBVIOUS
<1> USE DEF TypeInv, TypeOK, vars, processVars, recordingVars, bucketVars, contentVars
<1>1. ASSUME Start PROVE TypeInv'
  BY <1>1, ArchiveAssumption DEF Start, Unlocked, Up, Creating, Recordings, NoRecording
<1>2. ASSUME ReceiveSignal PROVE TypeInv'
  BY <1>2, ArchiveAssumption DEF ReceiveSignal, Unlocked, Up, Creating, Recordings, NoRecording
<1>3. ASSUME Shutdown PROVE TypeInv'
  BY <1>3, ArchiveAssumption DEF Shutdown, Unlocked, Up, Creating, Recordings, NoRecording
<1>4. ASSUME Exit PROVE TypeInv'
  BY <1>4, ArchiveAssumption DEF Exit, Down, Unlocked, Up, Creating, Recordings, NoRecording
<1>5. ASSUME Crash PROVE TypeInv'
  BY <1>5, ArchiveAssumption DEF Crash, Down, Unlocked, Up, Creating, Recordings, NoRecording
<1>6. ASSUME Restart PROVE TypeInv'
  BY <1>6, ArchiveAssumption DEF Restart, Unlocked, Up, Creating, Recordings, NoRecording
<1>7. ASSUME NEW n \in Recordings, StartRecording(n) PROVE TypeInv'
  BY <1>7, ArchiveAssumption DEF StartRecording, Unlocked, Up, Creating, Recordings, NoRecording
<1>8. ASSUME NEW n \in Recordings, WritePolicy(n) PROVE TypeInv'
  BY <1>8, ArchiveAssumption DEF WritePolicy, Unlocked, Up, Creating, Recordings, NoRecording
<1>9. ASSUME NEW n \in Recordings, NEW p \in Producers, AddTrack(n, p) PROVE TypeInv'
  BY <1>9, TrackType, Replaces DEF AddTrack
<1>10. ASSUME NEW n \in Recordings, NEW p \in Producers, WritePacket(n, p) PROVE TypeInv'
  <2>1. UNCHANGED <<main, restarts, active, taken, step, completed, faults, bucket, markers, metadata>>
    BY <1>10 DEF WritePacket
  <2>2. /\ writers' \in [Recordings -> [Producers -> Tracks \cup {NoTrack}]]
        /\ objects' \in [Recordings -> [Keys -> SUBSET Packets]]
        /\ accepted' \in [Recordings -> 0..MaxPackets]
    BY <1>10, WritesType
  <2> QED
    BY <2>1, <2>2
<1>11. ASSUME NEW n \in Recordings, NEW p \in Producers, RemoveTrack(n, p) PROVE TypeInv'
  BY <1>11, OpenType, EndedType, Stores, Replaces, Lists DEF RemoveTrack
<1>12. ASSUME NEW n \in Recordings, StopRecording(n) PROVE TypeInv'
  BY <1>12, ArchiveAssumption DEF StopRecording, Unlocked, Up, Creating, Recordings, NoRecording
<1>13. ASSUME NEW n \in Recordings, NEW p \in Producers, CloseTrack(n, p) PROVE TypeInv'
  <2>1. writers' \in [Recordings -> [Producers -> Tracks \cup {NoTrack}]]
    BY <1>13, Replaces DEF CloseTrack
  <2>2. writers[n][p] \in Tracks /\ Ended(writers[n][p]) \in Tracks
    BY <1>13, OpenType, EndedType DEF CloseTrack
  <2>3. completed' \in [Recordings -> Seq(Tracks)]
    BY <1>13, <2>2, Lists DEF CloseTrack
  <2>4. objects' \in [Recordings -> [Keys -> SUBSET Packets]]
    BY <1>13, <2>2, Stores DEF CloseTrack
  <2> QED
    BY <1>13, <2>1, <2>3, <2>4 DEF CloseTrack
<1>14. ASSUME NEW n \in Recordings, TracksClosed(n) PROVE TypeInv'
  BY <1>14, ArchiveAssumption DEF TracksClosed, Unlocked, Up, Creating, Recordings, NoRecording
<1>15. ASSUME NEW n \in Recordings, WriteMetadata(n) PROVE TypeInv'
  BY <1>15 DEF WriteMetadata, Document, Recordings, NoRecording
<1>16. ASSUME NEW n \in Recordings, DeleteRecordingMarker(n) PROVE TypeInv'
  BY <1>16, ArchiveAssumption DEF DeleteRecordingMarker, Unlocked, Up, Creating, Recordings, NoRecording
<1>17. ASSUME NEW n \in Recordings, PutCompletedMarker(n) PROVE TypeInv'
  <2>1. PICK s \in {"completed", "failed"} : step' = [step EXCEPT ![n] = s]
    BY <1>17 DEF PutCompletedMarker
  <2> QED
    BY <1>17, <2>1 DEF PutCompletedMarker, Recordings, NoRecording
<1>18. CASE UNCHANGED vars
  BY <1>18
<1> QED
  BY <1>1, <1>2, <1>3, <1>4, <1>5, <1>6, <1>7, <1>8, <1>9, <1>10, <1>11, <1>12, <1>13, <1>14, <1>15, <1>16, <1>17, <1>18
     DEF Next, Process, Call

-----------------------------------------------------------------------------
(* What the steps of a recording leave in the bucket.                       *)

LEMMA InitMarkInv == Init => MarkInv
BY TrackType DEF Init, MarkInv, Open

LEMMA Starts ==
  ASSUME NEW n \in Recordings, StartRecording(n)
  PROVE  \E outcome \in Outcomes :
           /\ markers' = IF outcome.effect /\ bucket
                         THEN [markers EXCEPT ![n] = @ \cup {".recording"}] ELSE markers
           /\ step' = [step EXCEPT ![n] = IF outcome.ok /\ bucket THEN "policy" ELSE "refused"]
BY DEF StartRecording

LEMMA StartMarkInv ==
  ASSUME TypeInv, MarkInv, NEW n \in Recordings, StartRecording(n)
  PROVE  MarkInv'
<1> SUFFICES ASSUME ~faults PROVE MarkInv'
  BY DEF StartRecording, MarkInv
<1>1. step[n] = "none" /\ UNCHANGED <<faults, writers, completed, metadata>>
  BY DEF StartRecording, FreshId
<1>2. PICK outcome \in Outcomes :
        /\ markers' = IF outcome.effect /\ bucket
                      THEN [markers EXCEPT ![n] = @ \cup {".recording"}] ELSE markers
        /\ step' = [step EXCEPT ![n] = IF outcome.ok /\ bucket THEN "policy" ELSE "refused"]
  BY Starts
<1>3. outcome.effect /\ outcome.ok
  BY DEF Outcomes, Answered
<1>4. \A m \in Recordings : Open(m)' = Open(m) /\ (Catalogued(m)' <=> Catalogued(m))
  BY <1>1 DEF Open, Catalogued
<1>5. CASE bucket
  <2>1. /\ step' = [step EXCEPT ![n] = "policy"]
        /\ markers' = [markers EXCEPT ![n] = @ \cup {".recording"}]
    BY <1>2, <1>3, <1>5
  <2>2. \A m \in Recordings :
          /\ step'[m] = IF m = n THEN "policy" ELSE step[m]
          /\ markers'[m] = IF m = n THEN markers[n] \cup {".recording"} ELSE markers[m]
    BY <2>1 DEF TypeInv, TypeOK
  <2> QED
    BY <1>1, <1>4, <2>2 DEF MarkInv
<1>6. CASE ~bucket
  <2>1. step' = [step EXCEPT ![n] = "refused"] /\ markers' = markers
    BY <1>2, <1>3, <1>6
  <2>2. \A m \in Recordings : step'[m] = IF m = n THEN "refused" ELSE step[m]
    BY <2>1 DEF TypeInv, TypeOK
  <2> QED
    BY <1>1, <1>4, <2>1, <2>2 DEF MarkInv
<1> QED
  BY <1>5, <1>6

LEMMA DownMarkInv ==
  ASSUME TypeInv, MarkInv, Down
  PROVE  MarkInv'
<1>1. /\ step' = [n \in Recordings |-> IF Unfinished(n) THEN "lost" ELSE step[n]]
      /\ UNCHANGED <<faults, markers, metadata, writers, completed>>
  BY DEF Down, recordingVars, bucketVars, contentVars
<1>2. \A n \in Recordings :
        /\ step'[n] = IF Unfinished(n) THEN "lost" ELSE step[n]
        /\ Open(n)' = Open(n) /\ (Catalogued(n)' <=> Catalogued(n))
  BY <1>1 DEF Open, Catalogued
<1> QED
  BY <1>1, <1>2 DEF MarkInv, Unfinished, TypeInv, TypeOK

LEMMA NextMarkInv == TypeInv /\ MarkInv /\ [Next]_vars => MarkInv'
<1> SUFFICES ASSUME TypeInv, MarkInv, [Next]_vars PROVE MarkInv'
  OBVIOUS
<1> USE DEF TypeInv, TypeOK, vars, processVars, recordingVars, bucketVars, contentVars, MarkInv
<1>1. ASSUME Start PROVE MarkInv'
  BY <1>1 DEF Start, Open, Catalogued, Outcomes, Answered, Recording
<1>2. ASSUME ReceiveSignal PROVE MarkInv'
  BY <1>2 DEF ReceiveSignal, Open, Catalogued, Outcomes, Answered, Recording
<1>3. ASSUME Shutdown PROVE MarkInv'
  BY <1>3 DEF Shutdown, Open, Catalogued, Outcomes, Answered, Recording
<1>4. ASSUME Exit PROVE MarkInv'
  BY <1>4, DownMarkInv DEF Exit
<1>5. ASSUME Crash PROVE MarkInv'
  BY <1>5, DownMarkInv DEF Crash
<1>6. ASSUME Restart PROVE MarkInv'
  BY <1>6 DEF Restart, Open, Catalogued, Outcomes, Answered, Recording
<1>7. ASSUME NEW n \in Recordings, StartRecording(n) PROVE MarkInv'
  BY <1>7, StartMarkInv
<1>8. ASSUME NEW n \in Recordings, WritePolicy(n) PROVE MarkInv'
  BY <1>8 DEF WritePolicy, Creating, Open, Catalogued
<1>9. ASSUME NEW n \in Recordings, NEW p \in Producers, AddTrack(n, p) PROVE MarkInv'
  BY <1>9 DEF AddTrack, Open, Catalogued, Outcomes, Answered, Recording
<1>10. ASSUME NEW n \in Recordings, NEW p \in Producers, WritePacket(n, p) PROVE MarkInv'
  <2>1. /\ step[n] = "running" /\ UNCHANGED <<step, faults, markers, metadata, completed>>
        /\ \E t \in Tracks : writers' = [writers EXCEPT ![n][p] = t]
    <3>1. \E t \in Tracks : writers' = [writers EXCEPT ![n][p] = t]
      BY <1>10, WritesType
    <3> QED
      BY <1>10, <3>1 DEF WritePacket, Recording
  <2>2. \A m \in Recordings \ {n} : Open(m)' = Open(m)
    BY <2>1 DEF Open
  <2> QED
    BY <2>1, <2>2 DEF Catalogued
<1>11. ASSUME NEW n \in Recordings, NEW p \in Producers, RemoveTrack(n, p) PROVE MarkInv'
  BY <1>11 DEF RemoveTrack, Open, Catalogued, Outcomes, Answered, Recording
<1>12. ASSUME NEW n \in Recordings, StopRecording(n) PROVE MarkInv'
  BY <1>12 DEF StopRecording, Open, Catalogued, Outcomes, Answered, Recording
<1>13. ASSUME NEW n \in Recordings, NEW p \in Producers, CloseTrack(n, p) PROVE MarkInv'
  BY <1>13 DEF CloseTrack, Open, Catalogued, Outcomes, Answered, Recording
<1>14. ASSUME NEW n \in Recordings, TracksClosed(n) PROVE MarkInv'
  BY <1>14 DEF TracksClosed, Open, Catalogued, Outcomes, Answered, Recording
<1>15. ASSUME NEW n \in Recordings, WriteMetadata(n) PROVE MarkInv'
  BY <1>15 DEF WriteMetadata, Open, Catalogued, Outcomes, Answered, Recording
<1>16. ASSUME NEW n \in Recordings, DeleteRecordingMarker(n) PROVE MarkInv'
  BY <1>16 DEF DeleteRecordingMarker, Open, Catalogued, Outcomes, Answered, Recording
<1>17. ASSUME NEW n \in Recordings, PutCompletedMarker(n) PROVE MarkInv'
  BY <1>17 DEF PutCompletedMarker, Open, Catalogued, Outcomes, Answered, Recording
<1>18. CASE UNCHANGED vars
  BY <1>18 DEF Open, Catalogued
<1> QED
  BY <1>1, <1>2, <1>3, <1>4, <1>5, <1>6, <1>7, <1>8, <1>9, <1>10, <1>11, <1>12, <1>13, <1>14, <1>15, <1>16, <1>17, <1>18
     DEF Next, Process, Call

-----------------------------------------------------------------------------
(* Where the packets are.                                                   *)

LEMMA Segments ==
  ASSUME NEW t \in Tracks
  PROVE  /\ Len(t.segments) \in Nat /\ DOMAIN t.segments = 1..Len(t.segments)
         /\ DOMAIN Ended(t).segments = 1..Len(t.segments) + 1
         /\ \A i \in DOMAIN Ended(t).segments :
              Ended(t).segments[i] = IF i = Len(t.segments) + 1 THEN t.current ELSE t.segments[i]
<1>1. t.segments \in Seq(SUBSET Packets)
  BY DEF Tracks
<1> QED
  BY <1>1, EndedType, AppendProperties, LenProperties

(* The key of the next object of an open track is a key.                    *)
LEMMA NewKey ==
  ASSUME TypeInv, WritersInv, NEW n \in Recordings, NEW p \in Open(n)
  PROVE  /\ p \in Producers /\ writers[n][p] \in Tracks /\ writers[n][p].producer = p
         /\ NextKey(writers[n][p]) = <<p, Len(writers[n][p].segments) + 1>>
         /\ NextKey(writers[n][p]) \in Keys
         /\ accepted[n] \in Nat /\ accepted[n] <= MaxPackets
<1>1. p \in Producers /\ writers[n][p] \in Tracks
  BY OpenType DEF Open
<1>2. Len(writers[n][p].segments) \in Nat
  BY <1>1, Segments
<1>3. accepted[n] \in Nat /\ accepted[n] <= MaxPackets /\ MaxPackets \in Nat
  BY ArchiveAssumption DEF TypeInv, TypeOK
<1>4. writers[n][p].producer = p /\ Len(writers[n][p].segments) <= accepted[n]
  <2>1. /\ writers[n][p].producer = p
        /\ Len(writers[n][p].segments) + (IF writers[n][p].current = {} THEN 0 ELSE 1)
             <= accepted[n]
    BY DEF WritersInv, WritersOf
  <2>2. CASE writers[n][p].current = {}
    BY <1>2, <1>3, <2>1, <2>2
  <2>3. CASE writers[n][p].current # {}
    <3>1. Len(writers[n][p].segments) + 1 <= accepted[n]
      BY <2>1, <2>3
    <3> QED
      BY <1>2, <1>3, <2>1, <3>1
  <2> QED
    BY <2>2, <2>3
<1>5. Len(writers[n][p].segments) + 1 \in 1..MaxPackets + 1
  BY <1>2, <1>3, <1>4
<1> QED
  BY <1>1, <1>3, <1>4, <1>5 DEF NextKey, Keys

(* ... and no object has it, unless the producer returned.                  *)
LEMMA KeyIsFree ==
  ASSUME TypeInv, WritersInv, ObjectsInv, ~faults, NEW n \in Recordings, ~Returned(n),
         NEW p \in Open(n)
  PROVE  /\ objects[n][NextKey(writers[n][p])] = {}
         /\ \A q \in Open(n), i \in Nat :
              i \in DOMAIN writers[n][q].segments =>
                <<writers[n][q].producer, i>> # NextKey(writers[n][p])
         /\ \A j \in DOMAIN completed[n], i \in Nat :
              <<completed[n][j].producer, i>> # NextKey(writers[n][p])
<1> DEFINE k == NextKey(writers[n][p])
<1>1. k \in Keys /\ k = <<p, Len(writers[n][p].segments) + 1>>
      /\ writers[n][p].producer = p
      /\ DOMAIN writers[n][p].segments = 1..Len(writers[n][p].segments)
      /\ Len(writers[n][p].segments) \in Nat
  BY NewKey, Segments
<1>2. \A q \in Open(n) : writers[n][q].producer = q
  BY NewKey
<1>3. \A j \in DOMAIN completed[n] : completed[n][j].producer # p
  BY DEF Returned
<1>4. \A q \in Open(n) : ~Has(writers[n][q], k)
  BY <1>1, <1>2 DEF Has
<1>5. \A j \in DOMAIN completed[n] : ~Has(completed[n][j], k)
  BY <1>1, <1>3 DEF Has
<1>6. objects[n][k] = {}
  BY <1>1, <1>4, <1>5 DEF ObjectsInv, ObjectsOf
<1> QED
  BY <1>1, <1>2, <1>3, <1>6

LEMMA ListedKeys ==
  ASSUME TypeInv, WritersInv, NEW n \in Recordings
  PROVE  /\ \A q \in Open(n) : \A i \in DOMAIN writers[n][q].segments :
              i \in Nat /\ <<writers[n][q].producer, i>> \in Keys
         /\ \A j \in DOMAIN completed[n] :
              /\ completed[n][j] \in Tracks
              /\ \A i \in DOMAIN completed[n][j].segments :
                   i \in Nat /\ <<completed[n][j].producer, i>> \in Keys
<1>1. accepted[n] \in Nat /\ accepted[n] <= MaxPackets /\ MaxPackets \in Nat
  BY ArchiveAssumption DEF TypeInv, TypeOK
<1>2. ASSUME NEW q \in Open(n), NEW i \in DOMAIN writers[n][q].segments
      PROVE  i \in Nat /\ <<writers[n][q].producer, i>> \in Keys
  <2>1. /\ q \in Producers /\ writers[n][q] \in Tracks /\ writers[n][q].producer = q
        /\ NextKey(writers[n][q]) = <<q, Len(writers[n][q].segments) + 1>>
        /\ NextKey(writers[n][q]) \in Keys
    BY NewKey
  <2>2. /\ Len(writers[n][q].segments) \in Nat
        /\ i \in 1..Len(writers[n][q].segments)
    BY <2>1, Segments
  <2>3. Len(writers[n][q].segments) + 1 \in 1..MaxPackets + 1
    BY <2>1 DEF Keys
  <2> QED
    BY <1>1, <2>1, <2>2, <2>3 DEF Keys
<1>3. ASSUME NEW j \in DOMAIN completed[n]
      PROVE  /\ completed[n][j] \in Tracks
             /\ \A i \in DOMAIN completed[n][j].segments :
                  i \in Nat /\ <<completed[n][j].producer, i>> \in Keys
  <2>1. completed[n] \in Seq(Tracks)
    BY DEF TypeInv, TypeOK
  <2>2. completed[n][j] \in Tracks
    BY <2>1, ElementOfSeq
  <2>3. Len(completed[n][j].segments) <= accepted[n] + 1
    BY DEF WritersInv, WritersOf
  <2>4. ASSUME NEW i \in DOMAIN completed[n][j].segments
        PROVE  i \in Nat /\ <<completed[n][j].producer, i>> \in Keys
    <3>1. Len(completed[n][j].segments) \in Nat /\ i \in 1..Len(completed[n][j].segments)
      BY <2>2, Segments
    <3>2. i \in 1..MaxPackets + 1
      BY <1>1, <2>3, <3>1
    <3>3. completed[n][j].producer \in Producers
      BY <2>2 DEF Tracks
    <3> QED
      BY <3>1, <3>2, <3>3 DEF Keys
  <2> QED
    BY <2>2, <2>4
<1> QED
  BY <1>2, <1>3

(* The end of a segment of an open track, whatever becomes of the track.    *)
LEMMA SegmentStored ==
  ASSUME TypeInv, ContentInv, NEW n \in Recordings, NEW p \in Open(n),
         StoreSegment(n, writers[n][p])
  PROVE  /\ \A m \in Recordings \ {n} : objects'[m] = objects[m]
         /\ \A k \in Keys : objects'[n][k] \subseteq 1..accepted[n]
         /\ ~faults => \A k \in Keys :
              objects'[n][k] # {} => objects[n][k] # {} \/ k = NextKey(writers[n][p])
         /\ ~faults /\ ~Returned(n) =>
              /\ objects'[n][NextKey(writers[n][p])] = writers[n][p].current
              /\ \A q \in Open(n) : \A i \in DOMAIN writers[n][q].segments :
                   objects'[n][<<writers[n][q].producer, i>>] = writers[n][q].segments[i]
              /\ \A j \in DOMAIN completed[n] : \A i \in DOMAIN completed[n][j].segments :
                   objects'[n][<<completed[n][j].producer, i>>] = completed[n][j].segments[i]
              /\ Stored(n)' = Stored(n) \cup writers[n][p].current
<1> DEFINE w == writers[n][p]
           key == NextKey(w)
<1>1. /\ w \in Tracks /\ key \in Keys /\ n \in Recordings
      /\ w.current \subseteq 1..accepted[n]
  BY NewKey DEF ContentInv, WritersInv, WritersOf
<1>2. /\ \A m \in Recordings \ {n} : objects'[m] = objects[m]
      /\ \A k \in Keys \ {key} : objects'[n][k] = objects[n][k]
      /\ objects'[n][key] = objects[n][key] \/ objects'[n][key] \subseteq w.current
      /\ ~faults => objects'[n][key] = IF w.current = {} THEN objects[n][key] ELSE w.current
  BY <1>1, Stores
<1>3. \A k \in Keys : objects[n][k] \subseteq 1..accepted[n]
  BY DEF ContentInv, WritersInv, WritersOf
<1>4. \A k \in Keys : objects'[n][k] \subseteq 1..accepted[n]
  BY <1>1, <1>2, <1>3
<1>5. \A k \in Keys : objects'[n][k] # {} => objects[n][k] # {} \/ k = key
  BY <1>2
<1>6. ASSUME ~faults, ~Returned(n)
      PROVE  /\ objects'[n][key] = w.current
             /\ \A q \in Open(n) : \A i \in DOMAIN writers[n][q].segments :
                  objects'[n][<<writers[n][q].producer, i>>] = writers[n][q].segments[i]
             /\ \A j \in DOMAIN completed[n] : \A i \in DOMAIN completed[n][j].segments :
                  objects'[n][<<completed[n][j].producer, i>>] = completed[n][j].segments[i]
             /\ Stored(n)' = Stored(n) \cup w.current
  <2>1. /\ objects[n][key] = {}
        /\ \A q \in Open(n), i \in Nat :
             i \in DOMAIN writers[n][q].segments => <<writers[n][q].producer, i>> # key
        /\ \A j \in DOMAIN completed[n], i \in Nat : <<completed[n][j].producer, i>> # key
    BY <1>6, KeyIsFree DEF ContentInv
  <2>2. objects'[n][key] = w.current
    BY <1>2, <1>6, <2>1
  <2>3. \A q \in Open(n) : \A i \in DOMAIN writers[n][q].segments :
          objects[n][<<writers[n][q].producer, i>>] = writers[n][q].segments[i]
    BY <1>6 DEF ContentInv, SegmentsInv, SegmentsOf, AsListed
  <2>4. \A j \in DOMAIN completed[n] : \A i \in DOMAIN completed[n][j].segments :
          objects[n][<<completed[n][j].producer, i>>] = completed[n][j].segments[i]
    BY <1>6 DEF ContentInv, SegmentsInv, SegmentsOf, AsListed
  <2>5. ASSUME NEW q \in Open(n), NEW i \in DOMAIN writers[n][q].segments
        PROVE  objects'[n][<<writers[n][q].producer, i>>] = writers[n][q].segments[i]
    <3>1. i \in Nat /\ <<writers[n][q].producer, i>> \in Keys
      BY ListedKeys DEF ContentInv
    <3> QED
      BY <1>2, <2>1, <2>3, <3>1
  <2>6. ASSUME NEW j \in DOMAIN completed[n], NEW i \in DOMAIN completed[n][j].segments
        PROVE  objects'[n][<<completed[n][j].producer, i>>] = completed[n][j].segments[i]
    <3>1. i \in Nat /\ <<completed[n][j].producer, i>> \in Keys
      BY ListedKeys DEF ContentInv
    <3> QED
      BY <1>2, <2>1, <2>4, <3>1
  <2>7. \A k \in Keys : objects'[n][k] = IF k = key THEN w.current ELSE objects[n][k]
    BY <1>2, <2>2
  <2>8. Stored(n)' = Stored(n) \cup w.current
    BY <1>1, <2>1, <2>7 DEF Stored
  <2> QED
    BY <2>2, <2>5, <2>6, <2>8
<1> QED
  BY <1>2, <1>4, <1>5, <1>6

(* What depends on one recording only stays as it is when another changes.  *)
LEMMA OthersKept ==
  ASSUME NEW m \in Recordings,
         writers'[m] = writers[m], completed'[m] = completed[m],
         accepted'[m] = accepted[m], objects'[m] = objects[m]
  PROVE  /\ WritersOf(m) => WritersOf(m)'
         /\ ObjectsOf(m) => ObjectsOf(m)'
         /\ SegmentsOf(m) => SegmentsOf(m)'
<1>1. Open(m)' = Open(m)
  BY DEF Open
<1>2. (Returned(m)' <=> Returned(m)) /\ Stored(m)' = Stored(m)
  BY <1>1 DEF Returned, Stored
<1>3. WritersOf(m) => WritersOf(m)'
  BY <1>1 DEF WritersOf
<1>4. ObjectsOf(m) => ObjectsOf(m)'
  BY <1>1 DEF ObjectsOf, Has
<1>5. SegmentsOf(m) => SegmentsOf(m)'
  BY <1>1, <1>2 DEF SegmentsOf, AsListed
<1> QED
  BY <1>3, <1>4, <1>5

LEMMA OneRecording ==
  ASSUME ContentInv, NEW n \in Recordings, faults' = faults,
         \A m \in Recordings \ {n} :
           /\ writers'[m] = writers[m] /\ completed'[m] = completed[m]
           /\ accepted'[m] = accepted[m] /\ objects'[m] = objects[m],
         WritersOf(n)', ~faults => ObjectsOf(n)' /\ SegmentsOf(n)'
  PROVE  ContentInv'
<1>1. \A m \in Recordings \ {n} : /\ WritersOf(m)'
                                  /\ ~faults => ObjectsOf(m)' /\ SegmentsOf(m)'
  BY OthersKept DEF ContentInv, WritersInv, ObjectsInv, SegmentsInv
<1> QED
  BY <1>1 DEF ContentInv, WritersInv, ObjectsInv, SegmentsInv

LEMMA AddTrackContent ==
  ASSUME TypeInv, ContentInv, NEW n \in Recordings, NEW p \in Producers, AddTrack(n, p)
  PROVE  ContentInv'
<1>1. /\ p \notin Open(n) /\ writers' = [writers EXCEPT ![n][p] = Track(p)]
      /\ UNCHANGED <<completed, accepted, faults, objects>>
  BY DEF AddTrack, bucketVars, contentVars
<1>2. /\ \A m \in Recordings \ {n} : writers'[m] = writers[m]
      /\ \A q \in Producers : writers'[n][q] = IF q = p THEN Track(p) ELSE writers[n][q]
  BY <1>1, TrackType, Replaces
<1>3. Open(n)' = Open(n) \cup {p}
  BY <1>2, TrackType DEF Open
<1>4. /\ Track(p).producer = p /\ Track(p).current = {} /\ Track(p).segments = <<>>
      /\ writers[n][p].current = {} /\ accepted[n] \in Nat
  BY <1>1, TrackType, OpenType DEF TypeInv, TypeOK
<1>5. \A q \in Producers : writers'[n][q].current = writers[n][q].current
  BY <1>2, <1>4
<1>6. WritersOf(n)'
  <2>1. WritersOf(n)
    BY DEF ContentInv, WritersInv
  <2>2. ASSUME NEW q \in Open(n)'
        PROVE  /\ writers'[n][q].producer = q
               /\ Len(writers'[n][q].segments) + (IF writers'[n][q].current = {} THEN 0 ELSE 1)
                    <= accepted'[n]
    <3>1. CASE q = p
      <4>1. writers'[n][q] = Track(p) /\ accepted'[n] = accepted[n] /\ Len(<<>>) = 0
        BY <1>1, <1>2, <3>1
      <4> QED
        BY <1>4, <3>1, <4>1
    <3>2. CASE q # p
      <4>1. q \in Open(n) /\ writers'[n][q] = writers[n][q] /\ accepted'[n] = accepted[n]
        BY <1>1, <1>2, <1>3, <3>2 DEF Open
      <4>2. /\ writers[n][q].producer = q
            /\ Len(writers[n][q].segments) + (IF writers[n][q].current = {} THEN 0 ELSE 1)
                 <= accepted[n]
        BY <2>1, <4>1 DEF WritersOf
      <4> QED
        BY <4>1, <4>2
    <3> QED
      BY <3>1, <3>2
  <2> QED
    BY <1>1, <1>5, <2>1, <2>2 DEF WritersOf
<1>7. ASSUME ~faults PROVE ObjectsOf(n)'
  <2>1. ObjectsOf(n)
    BY <1>7 DEF ContentInv, ObjectsInv
  <2> QED
    BY <1>1, <1>2, <1>3, <2>1 DEF ObjectsOf, Open
<1>8. ASSUME ~faults PROVE SegmentsOf(n)'
  <2> SUFFICES ASSUME ~Returned(n)' PROVE SegmentsOf(n)'
    BY DEF SegmentsOf
  <2>1. ~Returned(n)
    BY <1>1, <1>3 DEF Returned
  <2>2. SegmentsOf(n)
    BY <1>8 DEF ContentInv, SegmentsInv
  <2>4. ASSUME NEW q \in Open(n)', NEW i \in DOMAIN writers'[n][q].segments
        PROVE  objects'[n][<<writers'[n][q].producer, i>>] = writers'[n][q].segments[i]
    <3>1. CASE q = p
      BY <1>2, <1>4, <2>4, <3>1
    <3>2. CASE q # p
      BY <1>1, <1>2, <1>3, <2>1, <2>2, <3>2 DEF SegmentsOf, AsListed, Open
    <3> QED
      BY <3>1, <3>2
  <2>5. \A i \in DOMAIN completed'[n] : AsListed(n, completed[n][i])'
    BY <1>1, <2>1, <2>2 DEF SegmentsOf, AsListed
  <2>6. Stored(n)' = Stored(n)
    BY <1>1 DEF Stored
  <2>7. UNION {writers'[n][q].current : q \in Producers} = UNION {writers[n][q].current : q \in Producers}
    BY <1>5
  <2> QED
    BY <1>1, <2>1, <2>2, <2>4, <2>5, <2>6, <2>7 DEF SegmentsOf, AsListed
<1> QED
  BY <1>1, <1>2, <1>6, <1>7, <1>8, OneRecording

(* RemoveTrack and CloseTrack: the last segment is stored and the track     *)
(* joins the catalogue, unless the close failed.                            *)
LEMMA TrackEndsContent ==
  ASSUME TypeInv, ContentInv, NEW n \in Recordings, NEW p \in Open(n),
         StoreSegment(n, writers[n][p]),
         writers' = [writers EXCEPT ![n][p] = NoTrack],
         \/ completed' = [completed EXCEPT ![n] = Append(@, Ended(writers[n][p]))]
         \/ faults /\ UNCHANGED completed,
         UNCHANGED <<accepted, faults>>
  PROVE  ContentInv'
<1> DEFINE w == writers[n][p]
           key == NextKey(w)
<1>1. /\ p \in Producers /\ w \in Tracks /\ w.producer = p /\ Ended(w) \in Tracks
      /\ key = <<p, Len(w.segments) + 1>> /\ key \in Keys /\ Ended(w).producer = p
      /\ Len(Ended(w).segments) = Len(w.segments) + 1 /\ Len(w.segments) \in Nat
      /\ accepted[n] \in Nat
  <2>1. /\ p \in Producers /\ w \in Tracks /\ w.producer = p
        /\ key = <<p, Len(w.segments) + 1>> /\ key \in Keys /\ accepted[n] \in Nat
    BY NewKey DEF ContentInv
  <2>2. /\ Ended(w) \in Tracks /\ Ended(w).producer = w.producer
        /\ Len(Ended(w).segments) = Len(w.segments) + 1
    BY <2>1, EndedType
  <2> QED
    BY <2>1, <2>2, Segments
<1>2. /\ \A m \in Recordings \ {n} : writers'[m] = writers[m]
      /\ \A q \in Producers : writers'[n][q] = IF q = p THEN NoTrack ELSE writers[n][q]
  BY <1>1, Replaces
<1>3. Open(n)' = Open(n) \ {p}
  BY <1>1, <1>2 DEF Open
<1>4. /\ \A m \in Recordings \ {n} : objects'[m] = objects[m]
      /\ \A k \in Keys : objects'[n][k] \subseteq 1..accepted[n]
  BY SegmentStored
<1>5. \A m \in Recordings \ {n} : completed'[m] = completed[m]
  BY <1>1, Lists
<1>6. WritersOf(n)'
  <2>1. WritersOf(n)
    BY DEF ContentInv, WritersInv
  <2>2. ASSUME NEW i \in DOMAIN completed'[n]
        PROVE  Len(completed'[n][i].segments) <= accepted[n] + 1
    <3>1. Len(w.segments) + 1 <= accepted[n] + 1
      <4>1. Len(w.segments) + (IF w.current = {} THEN 0 ELSE 1) <= accepted[n]
        BY <2>1 DEF WritersOf
      <4>2. CASE w.current = {}
        BY <1>1, <4>1, <4>2
      <4>3. CASE w.current # {}
        <5>1. Len(w.segments) + 1 <= accepted[n]
          BY <4>1, <4>3
        <5> QED
          BY <1>1, <5>1
      <4> QED
        BY <4>2, <4>3
    <3>2. CASE completed' = completed
      BY <2>1, <3>2 DEF WritersOf
    <3>3. CASE completed' = [completed EXCEPT ![n] = Append(@, Ended(w))]
      BY <1>1, <2>1, <3>1, <3>3, Lists DEF WritersOf
    <3> QED
      BY <3>2, <3>3
  <2>3. /\ writers'[n][p].current = {}
        /\ \A q \in Producers \ {p} : writers'[n][q].current = writers[n][q].current
    BY <1>1, <1>2, TrackType
  <2>4. \A q \in Open(n)' : q \in Open(n) /\ writers'[n][q] = writers[n][q]
    BY <1>2, <1>3 DEF Open
  <2>5. accepted'[n] = accepted[n]
    OBVIOUS
  <2>6. \A q \in Producers :
          /\ writers'[n][q].current \subseteq 1..accepted[n]
          /\ \A q2 \in Producers : q2 # q => writers'[n][q].current \cap writers'[n][q2].current = {}
    BY <2>1, <2>3 DEF WritersOf
  <2>7. \A q \in Open(n)' :
          /\ writers'[n][q].producer = q
          /\ Len(writers'[n][q].segments) + (IF writers'[n][q].current = {} THEN 0 ELSE 1)
               <= accepted[n]
    BY <2>1, <2>4 DEF WritersOf
  <2> QED
    BY <1>4, <2>2, <2>5, <2>6, <2>7 DEF WritersOf
<1>7. ASSUME ~faults PROVE ObjectsOf(n)' /\ SegmentsOf(n)'
  <2>1. completed' = [completed EXCEPT ![n] = Append(@, Ended(w))]
    BY <1>7
  <2>2. PICK last \in Nat :
          /\ last = Len(completed[n]) + 1 /\ last \notin DOMAIN completed[n]
          /\ DOMAIN completed'[n] = DOMAIN completed[n] \cup {last}
          /\ \A i \in DOMAIN completed[n] : completed'[n][i] = completed[n][i]
          /\ completed'[n][last] = Ended(w)
    <3>1. /\ Len(completed[n]) \in Nat
          /\ DOMAIN completed[n] = 1..Len(completed[n])
          /\ DOMAIN completed'[n] = 1..Len(completed[n]) + 1
          /\ \A i \in DOMAIN completed[n] : completed'[n][i] = completed[n][i]
          /\ completed'[n][Len(completed[n]) + 1] = Ended(w)
      BY <1>1, <2>1, Lists
    <3> QED
      BY <3>1
  <2>3. DOMAIN completed'[n] = DOMAIN completed[n] \cup {last} /\ last \notin DOMAIN completed[n]
    BY <2>2
  <2>4. /\ DOMAIN w.segments = 1..Len(w.segments)
        /\ DOMAIN Ended(w).segments = 1..Len(w.segments) + 1
        /\ \A i \in DOMAIN Ended(w).segments :
             Ended(w).segments[i] = IF i = Len(w.segments) + 1 THEN w.current ELSE w.segments[i]
    BY <1>1, Segments
  <2>5. ObjectsOf(n)'
    <3>1. ObjectsOf(n)
      BY <1>7 DEF ContentInv, ObjectsInv
    <3> SUFFICES ASSUME NEW k \in Keys, objects'[n][k] # {}
                 PROVE  \/ \E q \in Open(n)' : Has(writers'[n][q], k)
                        \/ \E i \in DOMAIN completed'[n] : Has(completed'[n][i], k)
      BY DEF ObjectsOf, Has
    <3>2. CASE k = key
      <4>1. Has(Ended(w), k)
        BY <1>1, <2>4, <3>2 DEF Has
      <4> QED
        BY <2>2, <2>3, <4>1
    <3>3. CASE Has(w, k)
      <4>1. Has(Ended(w), k)
        BY <1>1, <2>4, <3>3 DEF Has
      <4> QED
        BY <2>2, <2>3, <4>1
    <3>4. ASSUME NEW q \in Open(n), q # p, Has(writers[n][q], k)
          PROVE  \E q2 \in Open(n)' : Has(writers'[n][q2], k)
      BY <1>2, <1>3, <3>4 DEF Open
    <3>5. ASSUME NEW i \in DOMAIN completed[n], Has(completed[n][i], k)
          PROVE  \E j \in DOMAIN completed'[n] : Has(completed'[n][j], k)
      BY <2>2, <2>3, <3>5
    <3>6. objects[n][k] # {} \/ k = key
      BY <1>7, SegmentStored
    <3> QED
      BY <3>1, <3>2, <3>3, <3>4, <3>5, <3>6 DEF ObjectsOf
  <2>6. SegmentsOf(n)'
    <3> SUFFICES ASSUME ~Returned(n)' PROVE SegmentsOf(n)'
      BY DEF SegmentsOf
    <3>1. ~Returned(n)
      <4>1. ASSUME NEW i \in DOMAIN completed[n], NEW j \in DOMAIN completed[n], i # j,
                   completed[n][i].producer = completed[n][j].producer
            PROVE  FALSE
        BY <2>2, <2>3, <4>1 DEF Returned
      <4>2. ASSUME NEW i \in DOMAIN completed[n], completed[n][i].producer \in Open(n)
            PROVE  FALSE
        <5>1. CASE completed[n][i].producer = p
          <6>1. completed'[n][i].producer = completed'[n][last].producer
                /\ i \in DOMAIN completed'[n] /\ last \in DOMAIN completed'[n] /\ i # last
            BY <1>1, <2>2, <2>3, <5>1
          <6> QED
            BY <6>1 DEF Returned
        <5>2. CASE completed[n][i].producer # p
          BY <1>3, <2>2, <2>3, <4>2, <5>2 DEF Returned
        <5> QED
          BY <5>1, <5>2
      <4> QED
        BY <4>1, <4>2 DEF Returned
    <3>2. /\ objects'[n][key] = w.current
          /\ \A q \in Open(n) : \A i \in DOMAIN writers[n][q].segments :
               objects'[n][<<writers[n][q].producer, i>>] = writers[n][q].segments[i]
          /\ \A j \in DOMAIN completed[n] : \A i \in DOMAIN completed[n][j].segments :
               objects'[n][<<completed[n][j].producer, i>>] = completed[n][j].segments[i]
          /\ Stored(n)' = Stored(n) \cup w.current
      BY <1>7, <3>1, SegmentStored
    <3>3. \A q \in Open(n)' : \A i \in DOMAIN writers'[n][q].segments :
            objects'[n][<<writers'[n][q].producer, i>>] = writers'[n][q].segments[i]
      BY <1>2, <1>3, <3>2 DEF Open
    <3>4. ASSUME NEW j \in DOMAIN completed'[n], NEW i \in DOMAIN completed'[n][j].segments
          PROVE  objects'[n][<<completed'[n][j].producer, i>>] = completed'[n][j].segments[i]
      <4>1. CASE j \in DOMAIN completed[n]
        BY <2>2, <3>2, <4>1
      <4>2. CASE j = last /\ i = Len(w.segments) + 1
        BY <1>1, <2>2, <2>4, <3>2, <4>2
      <4>3. CASE j = last /\ i # Len(w.segments) + 1
        <5>1. i \in DOMAIN w.segments /\ Ended(w).segments[i] = w.segments[i]
          <6>1. i \in 1..Len(w.segments) + 1
            BY <2>2, <2>4, <4>3
          <6>2. i \in 1..Len(w.segments)
            BY <1>1, <4>3, <6>1
          <6> QED
            BY <2>4, <4>3, <6>1, <6>2
        <5> QED
          BY <1>1, <2>2, <3>2, <4>3, <5>1
      <4> QED
        BY <2>3, <4>1, <4>2, <4>3
    <3>5. 1..accepted[n] \ Stored(n) = UNION {writers[n][q].current : q \in Producers}
      BY <1>7, <3>1 DEF ContentInv, SegmentsInv, SegmentsOf
    <3>6. /\ writers'[n][p].current = {}
          /\ \A q \in Producers \ {p} : writers'[n][q].current = writers[n][q].current
      BY <1>1, <1>2, TrackType
    <3>7. \A q \in Producers : q # p => w.current \cap writers[n][q].current = {}
      BY <1>1 DEF ContentInv, WritersInv, WritersOf
    <3>8. 1..accepted[n] \ Stored(n)' = UNION {writers'[n][q].current : q \in Producers}
      BY <1>1, <3>2, <3>5, <3>6, <3>7
    <3> QED
      BY <3>3, <3>4, <3>8 DEF SegmentsOf, AsListed
  <2> QED
    BY <2>5, <2>6
<1> QED
  BY <1>2, <1>4, <1>5, <1>6, <1>7, OneRecording

(* A packet joins the open segment, or the next one when the segment was    *)
(* full and has been stored.                                                *)
LEMMA WritePacketContent ==
  ASSUME TypeInv, ContentInv, NEW n \in Recordings, NEW p \in Producers, WritePacket(n, p)
  PROVE  ContentInv'
<1> DEFINE w == writers[n][p]
           packet == accepted[n] + 1
           key == NextKey(w)
<1>1. /\ p \in Open(n) /\ w \in Tracks /\ packet \in Packets
      /\ accepted' = [accepted EXCEPT ![n] = packet]
      /\ completed' = completed /\ faults' = faults
  BY Writes
<1>2. PICK t \in Tracks :
        /\ writers' = [writers EXCEPT ![n][p] = t]
        /\ t.producer = w.producer
        /\ \/ /\ t.current = w.current \cup {packet} /\ t.segments = w.segments
              /\ UNCHANGED objects
           \/ /\ w.current # {} /\ StoreSegment(n, w)
              /\ t.current = {packet} /\ t.segments = Ended(w).segments
  BY Writes
<1>3. /\ w.producer = p /\ accepted[n] \in Nat /\ accepted'[n] = accepted[n] + 1
      /\ key = <<p, Len(w.segments) + 1>> /\ key \in Keys /\ Len(w.segments) \in Nat
      /\ \A m \in Recordings \ {n} : accepted'[m] = accepted[m]
  BY <1>1, NewKey, Segments DEF ContentInv, TypeInv, TypeOK
<1>4. /\ \A m \in Recordings \ {n} : writers'[m] = writers[m]
      /\ \A q \in Producers : writers'[n][q] = IF q = p THEN t ELSE writers[n][q]
  BY <1>2, Replaces
<1>5. Open(n)' = Open(n)
  BY <1>1, <1>4, TrackType DEF Open
<1>6. /\ \A m \in Recordings \ {n} : objects'[m] = objects[m]
      /\ \A k \in Keys : objects'[n][k] \subseteq 1..accepted[n]
  BY <1>1, <1>2, SegmentStored DEF ContentInv, WritersInv, WritersOf
<1>7. WritersOf(n)
  BY DEF ContentInv, WritersInv
<1>8. /\ \A x : x \in 1..accepted[n] => x \in 1..packet
      /\ packet \in 1..packet /\ packet \notin 1..accepted[n]
      /\ \A x \in 1..packet : x \in 1..accepted[n] \/ x = packet
  BY <1>3
<1>9. /\ \A q \in Producers : writers[n][q].current \subseteq 1..accepted[n]
      /\ \A q, q2 \in Producers :
           q # q2 => writers[n][q].current \cap writers[n][q2].current = {}
  BY <1>7 DEF WritersOf
<1>10. packet \in t.current /\ t.current \subseteq w.current \cup {packet}
  BY <1>2
<1>11. WritersOf(n)'
  <2>1. \A q \in Producers :
          /\ writers'[n][q].current \subseteq 1..packet
          /\ \A q2 \in Producers : q2 # q => writers'[n][q].current \cap writers'[n][q2].current = {}
    BY <1>4, <1>8, <1>9, <1>10
  <2>2. Len(t.segments) + 1 <= packet
    <3>1. Len(w.segments) + (IF w.current = {} THEN 0 ELSE 1) <= accepted[n]
      BY <1>1, <1>7 DEF WritersOf
    <3>2. CASE t.segments = w.segments
      <4>1. Len(w.segments) <= accepted[n]
        <5>1. CASE w.current = {}
          BY <1>3, <3>1, <5>1
        <5>2. CASE w.current # {}
          <6>1. Len(w.segments) + 1 <= accepted[n]
            BY <3>1, <5>2
          <6> QED
            BY <1>3, <6>1
        <5> QED
          BY <5>1, <5>2
      <4> QED
        BY <1>3, <3>2, <4>1
    <3>3. CASE w.current # {} /\ t.segments = Ended(w).segments
      <4>1. Len(w.segments) + 1 <= accepted[n] /\ Len(t.segments) = Len(w.segments) + 1
        BY <1>1, <3>1, <3>3, EndedType
      <4> QED
        BY <1>3, <4>1
    <3> QED
      BY <1>2, <3>2, <3>3
  <2>3. ASSUME NEW q \in Open(n)
        PROVE  /\ writers'[n][q].producer = q
               /\ Len(writers'[n][q].segments) + (IF writers'[n][q].current = {} THEN 0 ELSE 1)
                    <= packet
    <3>1. CASE q = p
      <4>1. writers'[n][q] = t /\ t.producer = p /\ t.current # {}
        BY <1>2, <1>3, <1>4, <1>10, <3>1
      <4> QED
        BY <2>2, <3>1, <4>1
    <3>2. CASE q # p
      <4>1. writers'[n][q] = writers[n][q] /\ q \in Producers
        BY <1>4, <3>2 DEF Open
      <4>2. /\ writers[n][q].producer = q
            /\ Len(writers[n][q].segments) + (IF writers[n][q].current = {} THEN 0 ELSE 1)
                 <= accepted[n]
        BY <1>7 DEF WritersOf
      <4>3. Len(writers[n][q].segments) \in Nat
        BY NewKey, Segments DEF ContentInv
      <4>4. CASE writers[n][q].current = {}
        BY <1>3, <4>1, <4>2, <4>3, <4>4
      <4>5. CASE writers[n][q].current # {}
        <5>1. Len(writers[n][q].segments) + 1 <= accepted[n]
          BY <4>2, <4>5
        <5>2. Len(writers[n][q].segments) + 1 <= packet
          BY <1>3, <4>3, <5>1
        <5> QED
          BY <4>1, <4>2, <4>5, <5>2
      <4> QED
        BY <4>4, <4>5
    <3> QED
      BY <3>1, <3>2
  <2>4. \A i \in DOMAIN completed[n] : Len(completed[n][i].segments) <= packet + 1
    <3> SUFFICES ASSUME NEW i \in DOMAIN completed[n]
                 PROVE  Len(completed[n][i].segments) <= packet + 1
      OBVIOUS
    <3>1. Len(completed[n][i].segments) \in Nat
      BY ListedKeys, Segments DEF ContentInv
    <3>2. Len(completed[n][i].segments) <= accepted[n] + 1
      BY <1>7 DEF WritersOf
    <3> QED
      BY <1>3, <3>1, <3>2
  <2>5. \A k \in Keys : objects'[n][k] \subseteq 1..packet
    BY <1>6, <1>8
  <2>6. accepted'[n] = packet /\ completed'[n] = completed[n]
    BY <1>1, <1>3
  <2>7. \A q \in Open(n)' :
          /\ writers'[n][q].producer = q
          /\ Len(writers'[n][q].segments) + (IF writers'[n][q].current = {} THEN 0 ELSE 1)
               <= accepted'[n]
    BY <1>5, <2>3, <2>6
  <2>8. \A i \in DOMAIN completed'[n] : Len(completed'[n][i].segments) <= accepted'[n] + 1
    BY <2>4, <2>6
  <2>9. /\ \A q \in Producers :
             /\ writers'[n][q].current \subseteq 1..accepted'[n]
             /\ \A q2 \in Producers :
                  q2 # q => writers'[n][q].current \cap writers'[n][q2].current = {}
        /\ \A k \in Keys : objects'[n][k] \subseteq 1..accepted'[n]
    BY <2>1, <2>5, <2>6
  <2> QED
    BY <2>7, <2>8, <2>9 DEF WritersOf
<1>12. ASSUME ~faults PROVE ObjectsOf(n)'
  <2>1. ObjectsOf(n)
    BY <1>12 DEF ContentInv, ObjectsInv
  <2>2. ASSUME NEW k, Has(w, k) PROVE Has(t, k)
    BY <1>1, <1>2, <1>3, <2>2, Segments DEF Has
  <2>3. \A q \in Open(n), k \in Keys : Has(writers[n][q], k) => Has(writers'[n][q], k)
    BY <1>4, <2>2 DEF Open
  <2>4. ASSUME StoreSegment(n, w), t.segments = Ended(w).segments
        PROVE  Has(writers'[n][p], key)
    BY <1>1, <1>2, <1>3, <1>4, <2>4, Segments DEF Has
  <2>5. CASE UNCHANGED objects
    BY <1>1, <1>5, <2>1, <2>3, <2>5 DEF ObjectsOf, Has
  <2>6. CASE StoreSegment(n, w) /\ t.segments = Ended(w).segments
    <3>1. \A k \in Keys : objects'[n][k] # {} => objects[n][k] # {} \/ k = key
      BY <1>1, <1>12, <2>6, SegmentStored
    <3> SUFFICES ASSUME NEW k \in Keys, objects'[n][k] # {}
                 PROVE  \/ \E q \in Open(n) : Has(writers'[n][q], k)
                        \/ \E i \in DOMAIN completed[n] : Has(completed[n][i], k)
      BY <1>1, <1>5 DEF ObjectsOf, Has
    <3>2. CASE k = key
      BY <1>1, <2>4, <2>6, <3>2
    <3>3. CASE objects[n][k] # {}
      BY <2>1, <2>3, <3>3 DEF ObjectsOf
    <3> QED
      BY <3>1, <3>2, <3>3
  <2> QED
    BY <1>2, <2>5, <2>6
<1>13. ASSUME ~faults PROVE SegmentsOf(n)'
  <2> SUFFICES ASSUME ~Returned(n)' PROVE SegmentsOf(n)'
    BY DEF SegmentsOf
  <2>1. ~Returned(n)
    BY <1>1, <1>5 DEF Returned
  <2>2. SegmentsOf(n)
    BY <1>13 DEF ContentInv, SegmentsInv
  <2>3. CASE /\ t.current = w.current \cup {packet} /\ t.segments = w.segments
             /\ UNCHANGED objects
    <3>1. \A q \in Open(n) : /\ writers'[n][q].segments = writers[n][q].segments
                             /\ writers'[n][q].producer = writers[n][q].producer
      BY <1>2, <1>4, <2>3 DEF Open
    <3>2. Stored(n)' = Stored(n)
      BY <2>3 DEF Stored
    <3>3. Stored(n) \subseteq 1..accepted[n]
      BY <1>7 DEF WritersOf, Stored
    <3>4. 1..packet \ Stored(n) = UNION {writers'[n][q].current : q \in Producers}
      <4>1. 1..accepted[n] \ Stored(n) = UNION {writers[n][q].current : q \in Producers}
        BY <2>1, <2>2 DEF SegmentsOf
      <4>2. \A q \in Producers : writers'[n][q].current =
              IF q = p THEN w.current \cup {packet} ELSE writers[n][q].current
        BY <1>4, <2>3
      <4> QED
        BY <1>8, <3>3, <4>1, <4>2
    <3> QED
      BY <1>1, <1>3, <1>5, <2>1, <2>2, <2>3, <3>1, <3>2, <3>4 DEF SegmentsOf, AsListed
  <2>4. CASE /\ StoreSegment(n, w) /\ t.current = {packet}
             /\ t.segments = Ended(w).segments
    <3>1. /\ objects'[n][key] = w.current
          /\ \A q \in Open(n) : \A i \in DOMAIN writers[n][q].segments :
               objects'[n][<<writers[n][q].producer, i>>] = writers[n][q].segments[i]
          /\ \A j \in DOMAIN completed[n] : \A i \in DOMAIN completed[n][j].segments :
               objects'[n][<<completed[n][j].producer, i>>] = completed[n][j].segments[i]
          /\ Stored(n)' = Stored(n) \cup w.current
      BY <1>1, <1>13, <2>1, <2>4, SegmentStored
    <3>2. ASSUME NEW q \in Open(n), NEW i \in DOMAIN writers'[n][q].segments
          PROVE  objects'[n][<<writers'[n][q].producer, i>>] = writers'[n][q].segments[i]
      <4>1. CASE q # p
        BY <1>4, <3>1, <4>1 DEF Open
      <4>2. CASE q = p
        <5>1. /\ i \in DOMAIN Ended(w).segments /\ writers'[n][q].producer = p
              /\ writers'[n][q].segments[i] = Ended(w).segments[i]
          BY <1>2, <1>3, <1>4, <2>4, <4>2
        <5>2. /\ i \in 1..Len(w.segments) + 1 /\ DOMAIN w.segments = 1..Len(w.segments)
              /\ Ended(w).segments[i] = IF i = Len(w.segments) + 1 THEN w.current ELSE w.segments[i]
          BY <1>1, <5>1, Segments
        <5>3. CASE i = Len(w.segments) + 1
          BY <1>3, <3>1, <5>1, <5>2, <5>3
        <5>4. CASE i # Len(w.segments) + 1
          <6>1. i \in DOMAIN w.segments
            BY <1>3, <5>2, <5>4
          <6> QED
            BY <1>1, <1>3, <3>1, <5>1, <5>2, <5>4, <6>1
        <5> QED
          BY <5>3, <5>4
      <4> QED
        BY <4>1, <4>2
    <3>3. Stored(n) \subseteq 1..accepted[n]
      BY <1>7 DEF WritersOf, Stored
    <3>4. 1..packet \ Stored(n)' = UNION {writers'[n][q].current : q \in Producers}
      <4>1. 1..accepted[n] \ Stored(n) = UNION {writers[n][q].current : q \in Producers}
        BY <2>1, <2>2 DEF SegmentsOf
      <4>2. \A q \in Producers : writers'[n][q].current =
              IF q = p THEN {packet} ELSE writers[n][q].current
        BY <1>4, <2>4
      <4>3. p \in Producers
        OBVIOUS
      <4>4. ASSUME NEW x
            PROVE  x \in 1..packet \ Stored(n)' <=> \E q \in Producers : x \in writers'[n][q].current
        <5>1. CASE x = packet
          BY <1>8, <1>9, <3>1, <3>3, <4>2, <5>1
        <5>2. CASE x # packet
          BY <1>8, <1>9, <3>1, <4>1, <4>2, <5>2
        <5> QED
          BY <5>1, <5>2
      <4> QED
        BY <4>4
    <3> QED
      BY <1>1, <1>3, <1>5, <3>1, <3>2, <3>4 DEF SegmentsOf, AsListed
  <2> QED
    BY <1>2, <2>3, <2>4
<1> QED
  BY <1>1, <1>3, <1>4, <1>6, <1>11, <1>12, <1>13, OneRecording

LEMMA InitContentInv == Init => ContentInv
<1> SUFFICES ASSUME Init PROVE ContentInv
  OBVIOUS
<1>1. ASSUME NEW n \in Recordings
      PROVE  /\ Open(n) = {} /\ completed[n] = <<>> /\ accepted[n] = 0
             /\ \A k \in Keys : objects[n][k] = {}
             /\ \A p \in Producers : writers[n][p].current = {}
  BY TrackType DEF Init, Open
<1>2. ASSUME NEW n \in Recordings
      PROVE  WritersOf(n) /\ ObjectsOf(n) /\ SegmentsOf(n)
  <2>1. Stored(n) = {} /\ 1..0 = {}
    BY <1>1 DEF Stored
  <2>2. WritersOf(n) /\ ObjectsOf(n)
    <3>1. /\ \A p \in Open(n) :
               /\ writers[n][p].producer = p
               /\ Len(writers[n][p].segments) + (IF writers[n][p].current = {} THEN 0 ELSE 1)
                    <= accepted[n]
          /\ \A i \in DOMAIN completed[n] : Len(completed[n][i].segments) <= accepted[n] + 1
      <4>1. DOMAIN completed[n] = {}
        BY <1>1
      <4> QED
        BY <1>1, <4>1
    <3>2. /\ \A p \in Producers :
               /\ writers[n][p].current \subseteq 1..accepted[n]
               /\ \A q \in Producers :
                    q # p => writers[n][p].current \cap writers[n][q].current = {}
          /\ \A k \in Keys : objects[n][k] \subseteq 1..accepted[n]
      BY <1>1
    <3> QED
      BY <1>1, <3>1, <3>2 DEF WritersOf, ObjectsOf
  <2>3. SegmentsOf(n)
    BY <1>1, <2>1 DEF SegmentsOf
  <2> QED
    BY <2>2, <2>3
<1> QED
  BY <1>2 DEF ContentInv, WritersInv, ObjectsInv, SegmentsInv

LEMMA NextContentInv == TypeInv /\ ContentInv /\ [Next]_vars => ContentInv'
<1> SUFFICES ASSUME TypeInv, ContentInv, [Next]_vars PROVE ContentInv'
  OBVIOUS
<1>1. ASSUME UNCHANGED <<writers, completed, accepted, faults, objects>>
      PROVE  ContentInv'
  <2>1. \A m \in Recordings : /\ WritersOf(m) => WritersOf(m)'
                              /\ ObjectsOf(m) => ObjectsOf(m)'
                              /\ SegmentsOf(m) => SegmentsOf(m)'
    BY <1>1, OthersKept
  <2> QED
    BY <1>1, <2>1 DEF ContentInv, WritersInv, ObjectsInv, SegmentsInv
<1>2. ASSUME NEW n \in Recordings, NEW p \in Producers, AddTrack(n, p) PROVE ContentInv'
  BY <1>2, AddTrackContent
<1>3. ASSUME NEW n \in Recordings, NEW p \in Producers, WritePacket(n, p) PROVE ContentInv'
  BY <1>3, WritePacketContent
<1>4. ASSUME NEW n \in Recordings, NEW p \in Producers, RemoveTrack(n, p) PROVE ContentInv'
  BY <1>4, TrackEndsContent DEF RemoveTrack
<1>5. ASSUME NEW n \in Recordings, NEW p \in Producers, CloseTrack(n, p) PROVE ContentInv'
  BY <1>5, TrackEndsContent DEF CloseTrack
<1>6. ASSUME Process PROVE UNCHANGED <<writers, completed, accepted, faults, objects>>
  BY <1>6 DEF Process, Start, ReceiveSignal, Shutdown, Exit, Crash, Restart, Down,
     recordingVars, bucketVars, contentVars
<1>7. ASSUME NEW n \in Recordings,
             \/ StartRecording(n) \/ WritePolicy(n) \/ StopRecording(n) \/ TracksClosed(n)
             \/ WriteMetadata(n) \/ DeleteRecordingMarker(n) \/ PutCompletedMarker(n)
      PROVE  UNCHANGED <<writers, completed, accepted, faults, objects>>
  BY <1>7 DEF StartRecording, WritePolicy, StopRecording, TracksClosed, WriteMetadata,
     DeleteRecordingMarker, PutCompletedMarker, recordingVars, bucketVars, contentVars
<1>8. CASE UNCHANGED vars
  BY <1>1, <1>8 DEF vars, recordingVars, bucketVars, contentVars
<1> QED
  BY <1>1, <1>2, <1>3, <1>4, <1>5, <1>6, <1>7, <1>8 DEF Next, Call

-----------------------------------------------------------------------------
(* The theorems.                                                            *)

LEMMA Inductive == Spec => []IInv
<1>1. Init => IInv
  BY InitTypeInv, InitMarkInv, InitContentInv DEF IInv
<1>2. IInv /\ [Next]_vars => IInv'
  BY NextTypeInv, NextMarkInv, NextContentInv DEF IInv
<1> QED
  BY <1>1, <1>2, PTL DEF Spec

(* Through any crashes, restarts and failures of the store the map of       *)
(* rooms, the steps of the calls, the writers and what is in the bucket     *)
(* have their types, for any producers and bounds.                          *)
THEOREM ArchiveTypeCorrect == Spec => []TypeOK
<1>1. IInv => TypeOK
  BY DEF IInv, TypeInv
<1> QED
  BY <1>1, Inductive, PTL

(* With a reliable store, no recording that NewRoomRecording created is     *)
(* without trace, whatever the order of the requests of FinalizeRecording   *)
(* and a crash: it is marked, or its metadata.json lists all its tracks.    *)
THEOREM ArchiveNeverUnmarked == Spec => []NeverUnmarked
<1>1. IInv => NeverUnmarked
  BY DEF IInv, TypeInv, TypeOK, MarkInv, NeverUnmarked, Catalogued
<1> QED
  BY <1>1, Inductive, PTL

(* With a reliable store, a crash at any moment of any number of recordings *)
(* costs the tracks no packet but those of the segments they were writing,  *)
(* unless a producer returned (trackPath numbers the segments per writer).  *)
THEOREM ArchiveCrashCostsOpenSegments == Spec => []CrashCostsOpenSegments
<1>1. IInv => CrashCostsOpenSegments
  BY DEF IInv, ContentInv, SegmentsInv, SegmentsOf, CrashCostsOpenSegments
<1> QED
  BY <1>1, Inductive, PTL

LEMMA Sealed == IInv => SealedIsComplete
<1> SUFFICES ASSUME IInv, ~faults, NEW n \in Recordings, ".completed" \in markers[n]
             PROVE  /\ metadata[n].exists
                    /\ \A k \in Keys : objects[n][k] # {} =>
                         \E i \in DOMAIN Catalogue(n) : k \in KeysOf(Catalogue(n)[i])
                    /\ ~Returned(n) =>
                         /\ \A i \in DOMAIN Catalogue(n) : AsListed(n, Catalogue(n)[i])
                         /\ Stored(n) = 1..accepted[n]
  BY DEF SealedIsComplete
<1>1. step[n] = "completed" /\ Open(n) = {} /\ metadata[n] = Document(completed[n])
  BY DEF IInv, MarkInv, Catalogued
<1>2. metadata[n].exists /\ Catalogue(n) = completed[n]
  BY <1>1 DEF Document, Catalogue
<1>3. ASSUME NEW k \in Keys, objects[n][k] # {}
      PROVE  \E i \in DOMAIN Catalogue(n) : k \in KeysOf(Catalogue(n)[i])
  <2>1. PICK i \in DOMAIN completed[n] : Has(completed[n][i], k)
    BY <1>1, <1>3 DEF IInv, ContentInv, ObjectsInv, ObjectsOf
  <2>2. k = <<completed[n][i].producer, k[2]>> /\ k[2] \in DOMAIN completed[n][i].segments
    BY <2>1 DEF Has, Keys
  <2> QED
    BY <1>2, <2>1, <2>2 DEF KeysOf
<1>4. ASSUME ~Returned(n)
      PROVE  /\ \A i \in DOMAIN Catalogue(n) : AsListed(n, Catalogue(n)[i])
             /\ Stored(n) = 1..accepted[n]
  <2>1. SegmentsOf(n) /\ WritersOf(n)
    BY DEF IInv, ContentInv, SegmentsInv, WritersInv
  <2>2. \A p \in Producers : writers[n][p].current = {}
    BY <1>1, TrackType DEF Open
  <2>3. 1..accepted[n] \subseteq Stored(n)
    BY <1>4, <2>1, <2>2 DEF SegmentsOf
  <2>4. Stored(n) \subseteq 1..accepted[n]
    BY <2>1 DEF WritersOf, Stored
  <2> QED
    BY <1>2, <1>4, <2>1, <2>3, <2>4 DEF SegmentsOf
<1> QED
  BY <1>2, <1>3, <1>4

(* With a reliable store, what a reader finds under .completed is complete: *)
(* metadata.json was written, it lists the segment of every object, and,    *)
(* unless a producer returned, each segment listed is an object with its    *)
(* packets and no packet accepted is missing.                               *)
THEOREM ArchiveSealedIsComplete == Spec => []SealedIsComplete
BY Sealed, Inductive, PTL

Past == {"refused", "completed", "failed", "lost"}

PastStep ==
  \A n \in Recordings : step[n] \in Past =>
    /\ markers'[n] = markers[n] /\ metadata'[n] = metadata[n]
    /\ objects'[n] = objects[n] /\ step'[n] = step[n]

(* The steps of Stop and the tracks are of a recording that is not past.    *)
LEMMA PastStays == TypeInv /\ [Next]_vars => PastStep
<1> SUFFICES ASSUME TypeInv, [Next]_vars PROVE PastStep
  OBVIOUS
<1>1. CASE Process
  BY <1>1 DEF Process, Start, ReceiveSignal, Shutdown, Exit, Crash, Restart, Down, PastStep, Past,
     TypeInv, TypeOK, Unfinished, recordingVars, bucketVars, contentVars
<1>2. ASSUME NEW n \in Recordings, step[n] \notin Past,
             \A m \in Recordings \ {n} :
               /\ markers'[m] = markers[m] /\ metadata'[m] = metadata[m]
               /\ objects'[m] = objects[m] /\ step'[m] = step[m]
      PROVE  PastStep
  BY <1>2 DEF PastStep
<1>3. ASSUME NEW n \in Recordings,
             \/ StartRecording(n) \/ WritePolicy(n) \/ StopRecording(n) \/ TracksClosed(n)
             \/ WriteMetadata(n) \/ DeleteRecordingMarker(n) \/ PutCompletedMarker(n)
      PROVE  PastStep
  <2>1. step[n] \notin Past
    BY <1>3 DEF Past, StartRecording, FreshId, WritePolicy, Creating, StopRecording, Recording,
       TracksClosed, WriteMetadata, DeleteRecordingMarker, PutCompletedMarker
  <2>2. \A m \in Recordings \ {n} :
          /\ markers'[m] = markers[m] /\ metadata'[m] = metadata[m]
          /\ objects'[m] = objects[m] /\ step'[m] = step[m]
    BY <1>3 DEF StartRecording, WritePolicy, StopRecording, TracksClosed, WriteMetadata,
       DeleteRecordingMarker, PutCompletedMarker, TypeInv, TypeOK, recordingVars, bucketVars,
       contentVars
  <2> QED
    BY <1>2, <2>1, <2>2
<1>4. ASSUME NEW n \in Recordings, NEW p \in Producers,
             AddTrack(n, p) \/ WritePacket(n, p) \/ RemoveTrack(n, p) \/ CloseTrack(n, p)
      PROVE  PastStep
  <2>1. step[n] \notin Past /\ UNCHANGED <<step, markers, metadata>>
    BY <1>4 DEF Past, AddTrack, WritePacket, RemoveTrack, CloseTrack, Recording, recordingVars,
       bucketVars, contentVars
  <2>2. CASE UNCHANGED objects
    BY <1>2, <2>1, <2>2
  <2>3. CASE p \in Open(n) /\ StoreSegment(n, writers[n][p])
    <3>1. writers[n][p] \in Tracks
      BY <2>3, OpenType
    <3>2. \A m \in Recordings \ {n} : objects'[m] = objects[m]
      BY <2>3, <3>1, Stores
    <3> QED
      BY <1>2, <2>1, <3>2
  <2> QED
    BY <1>4, <2>2, <2>3 DEF AddTrack, WritePacket, RemoveTrack, CloseTrack, bucketVars, contentVars
<1>5. CASE UNCHANGED vars
  BY <1>5 DEF PastStep, vars, recordingVars, bucketVars, contentVars
<1> QED
  BY <1>1, <1>3, <1>4, <1>5 DEF Next, Call

(* No step of a later recording or of a later process, whatever fails,      *)
(* touches what a recording that is finished, refused or lost has left.     *)
THEOREM ArchivePastIsKept == Spec => PastIsKept
<1>1. IInv /\ [Next]_vars =>
        [\A n \in Recordings :
           step[n] \in {"refused", "completed", "failed", "lost"} =>
             /\ markers'[n] = markers[n] /\ metadata'[n] = metadata[n]
             /\ objects'[n] = objects[n] /\ step'[n] = step[n]]_vars
  BY PastStays DEF IInv, PastStep, Past
<1> QED
  BY <1>1, Inductive, PTL DEF Spec, PastIsKept
===============================================================================
