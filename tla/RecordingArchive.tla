--------------------------- MODULE RecordingArchive ---------------------------
(***************************************************************************)
(* What the recordings of one room leave in the bucket over the lifetimes  *)
(* of the process: their creation (NewRoomRecording under the lock of      *)
(* Manager.StartRecording), the segments of their tracks, and the steps of *)
(* Stop, with a crash and a restart between any two requests to the object *)
(* store (internal/recording, internal/storage/minio.go, main.go).         *)
(*                                                                         *)
(* The recordings have no live exports, so that metadata.json is written   *)
(* by Stop only and segments rotate by size.  A track is the summary       *)
(* TrackContract gives of it: when its segment is closed, an object with   *)
(* the packets of the segment appears, some of them if the store fails.    *)
(* Packets are numbered within a recording.                                *)
(***************************************************************************)
EXTENDS Integers, Sequences, FiniteSets, FiniteSetsExt

CONSTANTS
  Producers,
  MaxRecordings,  \* bound: recordings created
  MaxTracks,      \* bound: track writers, of all recordings together
  MaxPackets,     \* bound: packets accepted, of all recordings together
  SegmentLimit,   \* SegmentMaxBytes, for packets of size 1
  MayFail,        \* may the object store fail?
  MaxRestarts     \* bound: restarts of the process

ASSUME ArchiveAssumption ==
  /\ {MaxRecordings, MaxTracks, MaxPackets, MaxRestarts} \subseteq Nat
  /\ SegmentLimit \in Nat \ {0} /\ MayFail \in BOOLEAN
  /\ "none" \notin Producers

VARIABLES
  main,       \* where main() is
  restarts,
  active,     \* m.rooms: the recording of the room
  taken,      \* the recording Manager.Shutdown is stopping
  step,       \* next step of the call that creates or stops each recording
  writers,    \* r.tracks
  completed,  \* r.completedTracks
  accepted,   \* number of packets accepted
  faults,     \* do requests fail in this behaviour?
  bucket,     \* does the bucket exist?
  markers,    \* .recording and .completed of each recording
  metadata,   \* its metadata.json, a list of tracks
  objects     \* packets in each of its .rtp objects, none if it does not exist

processVars == <<main, restarts, active, taken>>
recordingVars == <<step, writers, completed, accepted>>
contentVars == <<markers, metadata, objects>>
bucketVars == <<faults, bucket, contentVars>>
vars == <<processVars, recordingVars, bucketVars>>

-----------------------------------------------------------------------------
Recordings == 1..MaxRecordings
NoRecording == 0
Packets == 1..MaxPackets
Document(tracks) == [exists |-> TRUE, tracks |-> tracks]
NoDocument == [exists |-> FALSE, tracks |-> <<>>]

(* A track writer or TrackInfo: its closed segments, whose index is their   *)
(* position, and the packets of the segment that is open.                   *)
Track(p) == [producer |-> p, segments |-> <<>>, current |-> {}]
NoTrack == Track("none")

(* trackPath: the key says nothing of the writer but its producer.  (The    *)
(* index of a segment that could not be opened is used again here, which    *)
(* only a store that fails shows.)                                          *)
Keys == Producers \X (1..MaxPackets + 1)
SameKey(t) == <<t.producer, 1>>  \* mutant
NextKey(t) == <<t.producer, Len(t.segments) + 1>>

Init ==
  /\ main = "starting" /\ restarts = 0
  /\ active = NoRecording /\ taken = NoRecording
  /\ step = [n \in Recordings |-> "none"]
  /\ writers = [n \in Recordings |-> [p \in Producers |-> NoTrack]]
  /\ completed = [n \in Recordings |-> <<>>]
  /\ accepted = [n \in Recordings |-> 0]
  /\ faults \in {FALSE, MayFail}
  /\ bucket \in BOOLEAN
  /\ markers = [n \in Recordings |-> {}]
  /\ metadata = [n \in Recordings |-> NoDocument]
  /\ objects = [n \in Recordings |-> [k \in Keys |-> {}]]

Up == main \in {"serving", "stopping", "shutdown"}

(* A request took effect or not and was answered or failed.                 *)
Answered == [effect |-> TRUE, ok |-> TRUE]
Outcomes ==
  IF faults THEN {Answered, [effect |-> TRUE, ok |-> FALSE], [effect |-> FALSE, ok |-> FALSE]}
            ELSE {Answered}

-----------------------------------------------------------------------------
(* main()                                                                   *)

(* EnsureBucket; when it fails, main warns and goes on.                     *)
Start ==
  /\ main = "starting"
  /\ bucket' = TRUE \/ (faults /\ UNCHANGED bucket)
  /\ main' = "serving"
  /\ UNCHANGED <<restarts, active, taken, recordingVars, faults, contentVars>>

(* A signal; streams that are open go on being read.                        *)
ReceiveSignal ==
  /\ main = "serving" /\ main' = "stopping"
  /\ UNCHANGED <<restarts, active, taken, recordingVars, bucketVars>>

Creating(n) == step[n] = "policy"

(* Manager.Shutdown, which waits for the lock while a recording is created. *)
Shutdown ==
  /\ main = "stopping" /\ \A n \in Recordings : ~Creating(n)
  /\ main' = "shutdown"
  /\ taken' = active /\ active' = NoRecording
  /\ step' = IF active = NoRecording THEN step ELSE [step EXCEPT ![active] = "closing"]
  /\ UNCHANGED <<restarts, writers, completed, accepted, bucketVars>>

Unfinished(n) == step[n] \in {"policy", "running", "closing", "metadata", "unmark", "seal"}

(* The process is gone; what it had in memory is kept here only to speak of *)
(* what is lost.                                                            *)
Down ==
  /\ main' = "down"
  /\ active' = NoRecording /\ taken' = NoRecording
  /\ step' = [n \in Recordings |-> IF Unfinished(n) THEN "lost" ELSE step[n]]
  /\ UNCHANGED <<restarts, writers, completed, accepted, bucketVars>>

(* main returns; nobody waits for a recording that another goroutine has    *)
(* taken out of the map or started since.                                   *)
Exit ==
  /\ main = "shutdown"
  /\ ~(taken \in Recordings /\ Unfinished(taken))
  /\ Down

(* A crash, or logger.Fatal when Serve returns an error.                    *)
Crash == Up /\ Down

(* Nothing is read back from the bucket.                                    *)
Restart ==
  /\ main = "down" /\ restarts < MaxRestarts
  /\ main' = "starting" /\ restarts' = restarts + 1
  /\ UNCHANGED <<active, taken, recordingVars, bucketVars>>

-----------------------------------------------------------------------------
(* Manager.StartRecording, which holds m.mu from the first request to the   *)
(* last: the other calls of the manager wait.                               *)

Unlocked == Up /\ \A n \in Recordings : ~Creating(n)

ReusedId(n) == n = 1 /\ step[n] \in {"none", "lost"}  \* mutant

(* uuid.New(): an id that no recording has had, in any process.             *)
FreshId(n) == step[n] = "none" /\ \A k \in 1..n - 1 : step[k] # "none"

(* CreateRecording puts .recording; when that fails the id is given up,     *)
(* with or without its marker.                                              *)
StartRecording(n) ==
  /\ Unlocked /\ active = NoRecording
  /\ FreshId(n)
  /\ \E outcome \in Outcomes :
       LET ok == outcome.ok /\ bucket IN
       /\ markers' = IF outcome.effect /\ bucket
                     THEN [markers EXCEPT ![n] = @ \cup {".recording"}] ELSE markers
       /\ step' = [step EXCEPT ![n] = IF ok THEN "policy" ELSE "refused"]
  /\ UNCHANGED <<processVars, writers, completed, accepted, faults, bucket, metadata, objects>>

(* A policy.json that cannot be written is only logged; the recording joins *)
(* the map.                                                                 *)
WritePolicy(n) ==
  /\ Up /\ Creating(n)
  /\ step' = [step EXCEPT ![n] = "running"]
  /\ active' = n
  /\ UNCHANGED <<main, restarts, taken, writers, completed, accepted, bucketVars>>

-----------------------------------------------------------------------------
(* Tracks of the active recording                                           *)

Recording(n) == Unlocked /\ active = n /\ step[n] = "running"

Open(n) == {p \in Producers : writers[n][p] # NoTrack}

TracksOf(n) == Len(completed[n]) + Cardinality(Open(n))
Total(Count(_)) == MapThenSumSet(Count, Recordings)

AddTrack(n, p) ==
  /\ Recording(n) /\ p \notin Open(n)
  /\ Total(TracksOf) < MaxTracks
  /\ writers' = [writers EXCEPT ![n][p] = Track(p)]
  /\ UNCHANGED <<processVars, step, completed, accepted, bucketVars>>

Kept(packets) == IF faults THEN SUBSET packets ELSE {packets}

(* The end of a segment: its object, unless no data arrived.                *)
StoreSegment(n, t) ==
  \E kept \in Kept(t.current) :
    objects' = IF kept = {} THEN objects ELSE [objects EXCEPT ![n][NextKey(t)] = kept]

Ended(t) == [t EXCEPT !.segments = Append(@, t.current), !.current = {}]

Full(t) == Cardinality(t.current) + 1 >= SegmentLimit /\ t.current # {}

(* A packet that does not fit any more goes to the next segment.  (One that *)
(* is refused because the rotation failed changes nothing here.)            *)
WritePacket(n, p) ==
  LET t == writers[n][p]
      packet == accepted[n] + 1
  IN  /\ Recording(n) /\ p \in Open(n)
      /\ packet \in Packets /\ Total(LAMBDA k : accepted[k]) < MaxPackets
      /\ \/ /\ ~Full(t)
            /\ writers' = [writers EXCEPT ![n][p].current = @ \cup {packet}]
            /\ UNCHANGED objects
         \/ /\ Full(t)
            /\ StoreSegment(n, t)
            /\ writers' = [writers EXCEPT ![n][p] = [Ended(t) EXCEPT !.current = {packet}]]
      /\ accepted' = [accepted EXCEPT ![n] = packet]
      /\ UNCHANGED <<processVars, step, completed, faults, bucket, markers, metadata>>

RemoveUnlisted(n, p) ==  \* mutant
  /\ Recording(n) /\ p \in Open(n)
  /\ StoreSegment(n, writers[n][p])
  /\ writers' = [writers EXCEPT ![n][p] = NoTrack]
  /\ UNCHANGED <<processVars, step, completed, accepted, faults, bucket, markers, metadata>>

RemoveThenList(n, p) ==  \* mutant
  /\ Recording(n) /\ p \in Open(n)
  /\ StoreSegment(n, writers[n][p])
  /\ writers' = [writers EXCEPT ![n][p] = NoTrack]
  /\ completed' = [completed EXCEPT ![n] = Append(@, Ended(writers'[n][p]))]
  /\ UNCHANGED <<processVars, step, accepted, faults, bucket, markers, metadata>>

(* The track is listed even when its writer could not be closed.            *)
RemoveTrack(n, p) ==
  /\ Recording(n) /\ p \in Open(n)
  /\ StoreSegment(n, writers[n][p])
  /\ completed' = [completed EXCEPT ![n] = Append(@, Ended(writers[n][p]))]
  /\ writers' = [writers EXCEPT ![n][p] = NoTrack]
  /\ UNCHANGED <<processVars, step, accepted, faults, bucket, markers, metadata>>

-----------------------------------------------------------------------------
(* Stop                                                                     *)

(* Manager.StopRecording: the recording leaves the map first, so that the   *)
(* room can have its next one while this one is being stopped.              *)
StopRecording(n) ==
  /\ Recording(n)
  /\ active' = NoRecording
  /\ step' = [step EXCEPT ![n] = "closing"]
  /\ UNCHANGED <<main, restarts, taken, writers, completed, accepted, bucketVars>>

(* One track after the other; one whose close fails is not listed.          *)
CloseTrack(n, p) ==
  /\ Up /\ step[n] = "closing" /\ p \in Open(n)
  /\ StoreSegment(n, writers[n][p])
  /\ \/ completed' = [completed EXCEPT ![n] = Append(@, Ended(writers[n][p]))]
     \/ faults /\ UNCHANGED completed
  /\ writers' = [writers EXCEPT ![n][p] = NoTrack]
  /\ UNCHANGED <<processVars, step, accepted, faults, bucket, markers, metadata>>

TracksClosed(n) ==
  /\ Up /\ step[n] = "closing" /\ Open(n) = {}
  /\ step' = [step EXCEPT ![n] = "metadata"]
  /\ UNCHANGED <<processVars, writers, completed, accepted, bucketVars>>

MetadataLater(n) ==  \* mutant
  /\ Up /\ step[n] = "metadata"
  /\ step' = [step EXCEPT ![n] = "unmark"]
  /\ UNCHANGED <<processVars, writers, completed, accepted, bucketVars>>

(* A failure is logged and Stop goes on; so it does for timeline.json.      *)
WriteMetadata(n) ==
  /\ Up /\ step[n] = "metadata"
  /\ \E outcome \in Outcomes :
       metadata' = IF outcome.effect THEN [metadata EXCEPT ![n] = Document(completed[n])] ELSE metadata
  /\ step' = [step EXCEPT ![n] = "unmark"]
  /\ UNCHANGED <<processVars, writers, completed, accepted, faults, bucket, markers, objects>>

(* FinalizeRecording                                                        *)
DeleteRecordingMarker(n) ==
  /\ Up /\ step[n] = "unmark"
  /\ \E outcome \in Outcomes :
       markers' = IF outcome.effect THEN [markers EXCEPT ![n] = @ \ {".recording"}] ELSE markers
  /\ step' = [step EXCEPT ![n] = "seal"]
  /\ UNCHANGED <<processVars, writers, completed, accepted, faults, bucket, metadata, objects>>

PutCompletedMarker(n) ==
  /\ Up /\ step[n] = "seal"
  /\ \E outcome \in Outcomes :
       /\ markers' = IF outcome.effect THEN [markers EXCEPT ![n] = @ \cup {".completed"}]
                     ELSE markers
       /\ step' = [step EXCEPT ![n] = IF outcome.ok THEN "completed" ELSE "failed"]
  /\ UNCHANGED <<processVars, writers, completed, accepted, faults, bucket, metadata, objects>>

-----------------------------------------------------------------------------
Process == Start \/ ReceiveSignal \/ Shutdown \/ Exit \/ Crash \/ Restart

Call(n) ==
  \/ StartRecording(n) \/ WritePolicy(n)
  \/ \E p \in Producers :
       AddTrack(n, p) \/ WritePacket(n, p) \/ RemoveTrack(n, p) \/ CloseTrack(n, p)
  \/ StopRecording(n) \/ TracksClosed(n) \/ WriteMetadata(n)
  \/ DeleteRecordingMarker(n) \/ PutCompletedMarker(n)

Next == Process \/ \E n \in Recordings : Call(n)

Spec == Init /\ [][Next]_vars
-----------------------------------------------------------------------------
(* Properties                                                               *)

Tracks == [producer : Producers, segments : Seq(SUBSET Packets), current : SUBSET Packets]

(* Every variable has its type.                                             *)
TypeOK ==
  /\ main \in {"starting", "serving", "stopping", "shutdown", "down"}
  /\ restarts \in 0..MaxRestarts
  /\ {active, taken} \subseteq Recordings \cup {NoRecording}
  /\ step \in [Recordings -> {"none", "refused", "policy", "running", "closing", "metadata",
                              "unmark", "seal", "completed", "failed", "lost"}]
  /\ writers \in [Recordings -> [Producers -> Tracks \cup {NoTrack}]]
  /\ completed \in [Recordings -> Seq(Tracks)]
  /\ accepted \in [Recordings -> 0..MaxPackets]
  /\ faults \in BOOLEAN /\ bucket \in BOOLEAN
  /\ markers \in [Recordings -> SUBSET {".recording", ".completed"}]
  /\ metadata \in [Recordings -> [exists : BOOLEAN, tracks : Seq(Tracks)]]
  /\ objects \in [Recordings -> [Keys -> SUBSET Packets]]

KeysOf(t) == {<<t.producer, i>> : i \in DOMAIN t.segments}

(* Did a producer return within the recording, as a track of the same name? *)
Returned(n) ==
  \/ \E i, j \in DOMAIN completed[n] : i # j /\ completed[n][i].producer = completed[n][j].producer
  \/ \E i \in DOMAIN completed[n] : completed[n][i].producer \in Open(n)

AsListed(n, t) == \A i \in DOMAIN t.segments : objects[n][<<t.producer, i>>] = t.segments[i]
Stored(n) == UNION {objects[n][k] : k \in Keys}
Catalogue(n) == metadata[n].tracks

(* What a reader finds under .completed, with a reliable store: a document  *)
(* whose tracks are the objects there are, each segment with the packets it *)
(* was given, and no packet that was accepted is missing; unless a producer *)
(* returned, also when other recordings of the room were made, stopped and  *)
(* interrupted meanwhile.  This is about recordings without live exports: a *)
(* live snapshot may still replace the document (CompletedMetadataIsFinal   *)
(* of RoomRecording).                                                       *)
SealedIsComplete ==
  \A n \in Recordings : ".completed" \in markers[n] /\ ~faults =>
    /\ metadata[n].exists
    /\ \A k \in Keys : objects[n][k] # {} =>
         \E i \in DOMAIN Catalogue(n) : k \in KeysOf(Catalogue(n)[i])
    /\ ~Returned(n) =>
         /\ \A i \in DOMAIN Catalogue(n) : AsListed(n, Catalogue(n)[i])
         /\ Stored(n) = 1..accepted[n]

(* With a reliable store a recording that was created is never without      *)
(* trace: until .completed is there it has its .recording marker, or, when  *)
(* the process died between the two requests of FinalizeRecording, the      *)
(* document of all its tracks.                                              *)
NeverUnmarked ==
  \A n \in Recordings : step[n] \notin {"none", "refused"} /\ ~faults =>
    (markers[n] = {} => metadata[n] = Document(completed[n]) /\ Open(n) = {})

(* A crash costs each track no more than the segment it was writing, with a *)
(* reliable store and unless a producer returned: every other packet        *)
(* accepted is in an object.                                                *)
CrashCostsOpenSegments ==
  \A n \in Recordings : ~faults /\ ~Returned(n) =>
    1..accepted[n] \ Stored(n) = UNION {writers[n][p].current : p \in Producers}

(* Whatever fails and whenever the process dies, a restart does not touch   *)
(* what an earlier process left: nothing of a recording that is finished,   *)
(* refused or lost changes, and no interrupted recording becomes completed. *)
(* Again of recordings without live exports.                                *)
PastIsKept ==
  [][\A n \in Recordings :
       step[n] \in {"refused", "completed", "failed", "lost"} =>
         /\ markers'[n] = markers[n] /\ metadata'[n] = metadata[n]
         /\ objects'[n] = objects[n] /\ step'[n] = step[n]]_vars

-----------------------------------------------------------------------------
(* A statement of the documentation that the code does not keep             *)

(* The data of a track that was removed stays as it was written             *)
(* (docs/RECORDING-SERVICE.md: "finalizes the track data (writes the `.rtp` *)
(* file) and removes the track from the active recording. Data is not       *)
(* deleted.").                                                              *)
RemovedTracksAreKept ==
  ~faults => \A n \in Recordings : \A i \in DOMAIN completed[n] : AsListed(n, completed[n][i])
===============================================================================
