---------------------------- MODULE RoomRecording ----------------------------
(***************************************************************************)
(* One room recording (internal/recording/room.go) together with the       *)
(* objects it leaves in the object store (internal/storage/minio.go).      *)
(*                                                                         *)
(* Threads are the goroutines that hold a pointer to the recording: the    *)
(* gRPC handlers of each SFU stream, the live recorder of the room and the *)
(* shutdown of the process.  Any of them may call any method.  A critical  *)
(* section of r.mu is one action; what the code does outside the lock -    *)
(* the unlocked append in Stop, the use of a looked-up TrackWriter, the    *)
(* object store requests - is split where other goroutines can run.        *)
(* A track writer is a number: tracks are numbered as they are opened.     *)
(***************************************************************************)
EXTENDS Integers, Sequences, FiniteSets

CONSTANTS
  Threads,        \* goroutines that hold the recording
  Producers,      \* mediasoup producers of the room
  Peers,          \* participants of the room
  MaxTracks,      \* bound: track writers ever opened
  MaxPackets,     \* bound: packets per track writer
  MaxEvents,      \* bound: timeline length up to which handlers append
  StorageFaults   \* may requests to the object store fail?

ASSUME MaxTracksAssumption == MaxTracks \in Nat
ASSUME MaxPacketsAssumption == MaxPackets \in Nat
ASSUME StorageFaultsAssumption == StorageFaults \in BOOLEAN

VARIABLES
  status,           \* r.status
  tracks,           \* r.tracks: the writer of each producer, or NoWriter
  created,          \* number of track writers opened so far
  writer,           \* state of each TrackWriter
  packets,          \* packets each TrackWriter has accepted
  completedTracks,  \* r.completedTracks, as a set of writers
  reported,         \* packet count in the TrackInfo kept for a writer
  participants,     \* r.participants
  timeline,         \* r.timeline.Events
  lost,             \* ghost: events the unlocked append has discarded
  cancelled,        \* has r.storageCancel() been called?
  metadata,         \* object metadata.json
  timelineObject,   \* object timeline.json
  markers,          \* which of .recording and .completed exist
  pc,               \* what each thread is doing
  cur,              \* track writer a thread in WritePacket has looked up
  seen,             \* timeline length loaded by the unlocked append
  doc,              \* metadata a thread has built
  events            \* timeline a thread has built

roomVars == <<status, tracks, created, completedTracks, participants>>
writerVars == <<writer, packets, reported>>
timelineVars == <<timeline, lost>>
storeVars == <<metadata, timelineObject, markers>>
threadVars == <<pc, cur, seen, doc, events>>
vars == <<roomVars, writerVars, timelineVars, storeVars, threadVars, cancelled>>

-----------------------------------------------------------------------------
Writers == 1..MaxTracks
NoWriter == 0

Event(type, id) == [type |-> type, id |-> id]
EventTypes == {"recording_started", "recording_stopped", "track_added",
               "track_removed", "peer_joined", "peer_left", "activity"}
Events == [type : EventTypes, id : Writers \cup {NoWriter} \cup Peers]

(* The parts of storage.RecordingMetadata the properties tell apart.  The   *)
(* document is also the only thing a thread needs to know which of Snapshot *)
(* ("recording") and Stop ("completed") it is executing.                    *)
Documents == [status : {"absent", "recording", "completed"},
              tracks : SUBSET Writers,
              peers  : SUBSET Peers,
              count  : Nat]
NoDocument == [status |-> "absent", tracks |-> {}, peers |-> {}, count |-> 0]

ActiveWriters == {tracks[p] : p \in Producers} \ {NoWriter}

(* r.status == StatusRecording                                              *)
RecordingOrStopping == status \in {"recording", "stopping"}          \* mutant
Recording == status = "recording"

(* Does r.tracks hold a writer for producer p?                              *)
NeverHasTrack(p) == FALSE                                            \* mutant
HasTrack(p) == tracks[p] # NoWriter

(* TrackWriter.WritePacket refuses packets once t.closed is set.            *)
WasOpened(w) == writer[w] # "none"                                   \* mutant
Accepts(w) == writer[w] = "open"

(* TrackCount of r.Stats()                                                  *)
ActiveTrackCount == Cardinality(ActiveWriters)                       \* mutant
TrackDifference == Cardinality(ActiveWriters) - Cardinality(completedTracks) \* mutant
TrackCount == Cardinality(ActiveWriters) + Cardinality(completedTracks)

(* buildTimelineSnapshot                                                    *)
TimelineButLast == SubSeq(timeline, 1, Len(timeline) - 1)            \* mutant
TimelineSnapshot == timeline

(* What a request to the object store can do: take effect or not, and be    *)
(* answered or fail.  Cancelling r.storageCtx can fail a request that is    *)
(* already under way, before or after it has taken effect.                  *)
Outcomes == [effect : BOOLEAN, ok : BOOLEAN]
Outcome(o) ==
  /\ o.ok => o.effect
  /\ StorageFaults \/ cancelled \/ o.ok

Goto(q, label) == pc' = [pc EXCEPT ![q] = label]

Init ==
  /\ status = "recording"
  /\ tracks = [p \in Producers |-> NoWriter]
  /\ created = 0
  /\ writer = [w \in Writers |-> "none"]
  /\ packets = [w \in Writers |-> 0]
  /\ completedTracks = {}
  /\ reported = [w \in Writers |-> 0]
  /\ participants = [p \in Peers |-> "absent"]
  /\ timeline = <<Event("recording_started", NoWriter)>>
  /\ lost = 0
  /\ cancelled = FALSE
  /\ metadata = NoDocument
  /\ timelineObject = <<>>
  /\ markers = {".recording"}
  /\ pc = [q \in Threads |-> "idle"]
  /\ cur = [q \in Threads |-> NoWriter]
  /\ seen = [q \in Threads |-> 0]
  /\ doc = [q \in Threads |-> NoDocument]
  /\ events = [q \in Threads |-> <<>>]

-----------------------------------------------------------------------------
(* Handlers that run entirely under r.mu.                                   *)

(* addTimelineEventAt, called with r.mu held *)
AppendEvent(e) ==
  /\ Len(timeline) < MaxEvents
  /\ timeline' = Append(timeline, e)
  /\ UNCHANGED lost

AddTrack(q, p) ==
  /\ pc[q] = "idle"
  /\ Recording
  /\ ~HasTrack(p)
  /\ created < MaxTracks
  /\ created' = created + 1
  /\ tracks' = [tracks EXCEPT ![p] = created + 1]
  /\ writer' = [writer EXCEPT ![created + 1] = "open"]
  /\ AppendEvent(Event("track_added", created + 1))
  /\ UNCHANGED <<status, completedTracks, participants, packets, reported,
                 storeVars, threadVars, cancelled>>

(* AddTrack of a type the policy excludes, or whose first segment could not *)
(* be opened: the event is in the timeline, no track is.                    *)
AddTrackNotOpened(q, p) ==
  /\ pc[q] = "idle"
  /\ Recording
  /\ ~HasTrack(p)
  /\ AppendEvent(Event("track_added", NoWriter))
  /\ UNCHANGED <<roomVars, writerVars, storeVars, threadVars, cancelled>>

(* RemoveTrack keeps the TrackInfo of a track whose close failed.           *)
RemoveTrack(q, p) ==
  /\ pc[q] = "idle"
  /\ HasTrack(p)
  /\ \/ /\ writer' = [writer EXCEPT ![tracks[p]] = "closed"]
        /\ reported' = [reported EXCEPT ![tracks[p]] = packets[tracks[p]]]
     \/ /\ StorageFaults
        /\ writer' = [writer EXCEPT ![tracks[p]] = "broken"]
        /\ \E n \in 0..packets[tracks[p]] :
             reported' = [reported EXCEPT ![tracks[p]] = n]
  /\ tracks' = [tracks EXCEPT ![p] = NoWriter]
  /\ completedTracks' = completedTracks \cup {tracks[p]}
  /\ AppendEvent(Event("track_removed", tracks[p]))
  /\ UNCHANGED <<status, created, participants, packets,
                 storeVars, threadVars, cancelled>>

RemoveUnknownTrack(q, p) ==
  /\ pc[q] = "idle"
  /\ ~HasTrack(p)
  /\ AppendEvent(Event("track_removed", NoWriter))
  /\ UNCHANGED <<roomVars, writerVars, storeVars, threadVars, cancelled>>

AddParticipant(q, p) ==
  /\ pc[q] = "idle"
  /\ participants' = [participants EXCEPT ![p] = "joined"]
  /\ AppendEvent(Event("peer_joined", p))
  /\ UNCHANGED <<status, tracks, created, completedTracks, writerVars,
                 storeVars, threadVars, cancelled>>

RemoveParticipant(q, p) ==
  /\ pc[q] = "idle"
  /\ participants[p] # "absent"
  /\ participants' = [participants EXCEPT ![p] = "left"]
  /\ AppendEvent(Event("peer_left", p))
  /\ UNCHANGED <<status, tracks, created, completedTracks, writerVars,
                 storeVars, threadVars, cancelled>>

(* SetActiveSpeaker, RecordProducerPaused and RecordProducerResumed         *)
RecordActivity(q, p) ==
  /\ pc[q] = "idle"
  /\ AppendEvent(Event("activity", p))
  /\ UNCHANGED <<roomVars, writerVars, storeVars, threadVars, cancelled>>

-----------------------------------------------------------------------------
(* WritePacket looks the track up under r.mu and uses it after RUnlock.     *)

LookupTrack(q, p) ==
  /\ pc[q] = "idle"
  /\ Recording
  /\ HasTrack(p)
  /\ packets[tracks[p]] + Cardinality({r \in Threads : cur[r] = tracks[p]}) < MaxPackets
  /\ cur' = [cur EXCEPT ![q] = tracks[p]]
  /\ Goto(q, "writing")
  /\ UNCHANGED <<roomVars, writerVars, timelineVars, storeVars, seen, doc, events, cancelled>>

(* TrackWriter.WritePacket: refused once the writer is closed, and able to  *)
(* fail when the segment has to be rotated and the object store is down.    *)
WriteToTrack(q) ==
  /\ pc[q] = "writing"
  /\ \/ /\ Accepts(cur[q])
        /\ packets' = [packets EXCEPT ![cur[q]] = @ + 1]
     \/ /\ ~Accepts(cur[q]) \/ StorageFaults
        /\ UNCHANGED packets
  /\ cur' = [cur EXCEPT ![q] = NoWriter]
  /\ Goto(q, "idle")
  /\ UNCHANGED <<roomVars, writer, reported, timelineVars, storeVars, seen, doc, events,
                 cancelled>>

-----------------------------------------------------------------------------
(* Building and writing metadata.json and timeline.json, shared by Snapshot *)
(* and Stop: both build the metadata, write it, build the timeline and      *)
(* write it, in this order.                                                 *)

CopyMetadata(q, recordingStatus) ==
  /\ doc' = [doc EXCEPT ![q] =
       [status |-> recordingStatus,
        tracks |-> ActiveWriters \cup completedTracks,
        peers  |-> {p \in Peers : participants[p] # "absent"},
        count  |-> 0]]
  /\ Goto(q, "copied")
  /\ UNCHANGED <<roomVars, writerVars, timelineVars, storeVars, cur, seen, events, cancelled>>

(* Snapshot has no status check: it may be called at any time.              *)
Snapshot(q) == pc[q] = "idle" /\ CopyMetadata(q, "recording")

(* A request made under the cancelled context fails without being sent, and *)
(* Snapshot returns the error.  (Stop cancels the context after its last    *)
(* request, so it never meets a cancelled one.)                             *)
Refused(q) == cancelled /\ doc[q].status = "recording"
LeaveSnapshot(q) == Goto(q, "idle") /\ doc' = [doc EXCEPT ![q] = NoDocument]

(* r.Stats() takes the lock again: the count may be newer than the list.    *)
CountTracks(q) ==
  /\ pc[q] = "copied"
  /\ \/ /\ Refused(q)
        /\ LeaveSnapshot(q)
     \/ /\ ~Refused(q)
        /\ doc' = [doc EXCEPT ![q].count = TrackCount]
        /\ Goto(q, "metadataPut")
  /\ UNCHANGED <<roomVars, writerVars, timelineVars, storeVars, cur, seen, events, cancelled>>

(* Snapshot returns on an error, Stop only logs it.                         *)
PutMetadata(q) ==
  /\ pc[q] = "metadataPut"
  /\ \E o \in Outcomes :
       /\ Outcome(o)
       /\ metadata' = IF o.effect THEN doc[q] ELSE metadata
       /\ IF o.ok \/ doc[q].status = "completed"
            THEN Goto(q, "metadataDone") /\ UNCHANGED doc
            ELSE LeaveSnapshot(q)
  /\ UNCHANGED <<roomVars, writerVars, timelineVars, timelineObject, markers,
                 cur, seen, events, cancelled>>

CopyTimeline(q) ==
  /\ pc[q] = "metadataDone"
  /\ \/ Refused(q) /\ LeaveSnapshot(q) /\ UNCHANGED events
     \/ /\ ~Refused(q)
        /\ events' = [events EXCEPT ![q] = TimelineSnapshot]
        /\ Goto(q, "timelinePut")
        /\ UNCHANGED doc
  /\ UNCHANGED <<roomVars, writerVars, timelineVars, storeVars, cur, seen, cancelled>>

PutTimeline(q) ==
  /\ pc[q] = "timelinePut"
  /\ \E o \in Outcomes :
       /\ Outcome(o)
       /\ timelineObject' = IF o.effect THEN events[q] ELSE timelineObject
  /\ events' = [events EXCEPT ![q] = <<>>]
  /\ IF doc[q].status = "completed"
       THEN Goto(q, "finalizing") /\ UNCHANGED doc
       ELSE LeaveSnapshot(q)
  /\ UNCHANGED <<roomVars, writerVars, timelineVars, metadata, markers, cur, seen, cancelled>>

-----------------------------------------------------------------------------
(* Stop                                                                     *)

ClaimStop(q) ==
  /\ pc[q] = "idle"
  /\ Recording
  /\ status' = "stopping"
  /\ Goto(q, "claimed")
  /\ UNCHANGED <<tracks, created, completedTracks, participants, writerVars,
                 timelineVars, storeVars, cur, seen, doc, events, cancelled>>

(* addTimelineEvent("recording_stopped") runs without r.mu: the slice is    *)
(* read here ...                                                            *)
LoadTimeline(q) ==
  /\ pc[q] = "claimed"
  /\ seen' = [seen EXCEPT ![q] = Len(timeline)]
  /\ Goto(q, "appending")
  /\ UNCHANGED <<roomVars, writerVars, timelineVars, storeVars, cur, doc, events, cancelled>>

(* ... and written back here.  If a handler has appended meanwhile, the two *)
(* race: this append wins and drops the others, it overwrites the slot of   *)
(* the first of them, or it is itself dropped.                              *)
RacyAppends(n, e) ==
  {Append(SubSeq(timeline, 1, n), e)} \cup
  IF Len(timeline) > n THEN {timeline, [timeline EXCEPT ![n + 1] = e]} ELSE {}

StoreTimeline(q) ==
  /\ pc[q] = "appending"
  /\ timeline' \in RacyAppends(seen[q], Event("recording_stopped", NoWriter))
  /\ lost' = lost + (Len(timeline) + 1 - Len(timeline'))
  /\ seen' = [seen EXCEPT ![q] = 0]
  /\ Goto(q, "closing")
  /\ UNCHANGED <<roomVars, writerVars, storeVars, cur, doc, events, cancelled>>

(* Close every track under the lock.  A track whose close fails is not      *)
(* added to completedTracks.                                                *)
CloseTracks(q) ==
  /\ pc[q] = "closing"
  /\ \E failed \in SUBSET ActiveWriters :
       /\ StorageFaults \/ failed = {}
       /\ writer' = [w \in Writers |->
            IF w \in failed THEN "broken"
            ELSE IF w \in ActiveWriters THEN "closed" ELSE writer[w]]
       /\ reported' = [w \in Writers |->
            IF w \in ActiveWriters \ failed THEN packets[w] ELSE reported[w]]
       /\ completedTracks' = completedTracks \cup (ActiveWriters \ failed)
  /\ tracks' = [p \in Producers |-> NoWriter]
  /\ Goto(q, "closed")
  /\ UNCHANGED <<status, created, participants, packets, timelineVars,
                 storeVars, cur, seen, doc, events, cancelled>>

WriteCompletedMetadata(q) == pc[q] = "closed" /\ CopyMetadata(q, "completed")

(* FinalizeRecording: deleting .recording may fail and is only logged.      *)
DeleteRecordingMarker(q) ==
  /\ pc[q] = "finalizing"
  /\ \E o \in Outcomes :
       /\ Outcome(o)
       /\ markers' = IF o.effect THEN markers \ {".recording"} ELSE markers
  /\ Goto(q, "marking")
  /\ UNCHANGED <<roomVars, writerVars, timelineVars, metadata, timelineObject,
                 cur, seen, doc, events, cancelled>>

FinalizeIgnoringError(q) ==                                          \* mutant
  /\ pc[q] = "marking"
  /\ \E o \in Outcomes :
       /\ Outcome(o)
       /\ markers' = IF o.effect THEN markers \cup {".completed"} ELSE markers
  /\ Goto(q, "completing")
  /\ UNCHANGED <<roomVars, writerVars, timelineVars, metadata, timelineObject,
                 cur, seen, doc, events, cancelled>>

PutCompletedMarker(q) ==
  /\ pc[q] = "marking"
  /\ \E o \in Outcomes :
       /\ Outcome(o)
       /\ markers' = IF o.effect THEN markers \cup {".completed"} ELSE markers
       /\ Goto(q, IF o.ok THEN "completing" ELSE "failing")
  /\ UNCHANGED <<roomVars, writerVars, timelineVars, metadata, timelineObject,
                 cur, seen, doc, events, cancelled>>

FinishStopOnSuccess(q) ==                                            \* mutant
  /\ pc[q] = "completing" /\ status' = "completed" /\ cancelled' = TRUE
  /\ doc' = [doc EXCEPT ![q] = NoDocument]
  /\ Goto(q, "idle")
  /\ UNCHANGED <<tracks, created, completedTracks, participants, writerVars,
                 timelineVars, storeVars, cur, seen, events>>

(* Only the successful end of Stop cancels the storage context.             *)
FinishStop(q) ==
  /\ \/ pc[q] = "completing" /\ status' = "completed" /\ cancelled' = TRUE
     \/ pc[q] = "failing" /\ status' = "failed" /\ UNCHANGED cancelled
  /\ doc' = [doc EXCEPT ![q] = NoDocument]
  /\ Goto(q, "idle")
  /\ UNCHANGED <<tracks, created, completedTracks, participants, writerVars,
                 timelineVars, storeVars, cur, seen, events>>

-----------------------------------------------------------------------------
Handle(q) ==
  \/ \E p \in Producers :
       AddTrack(q, p) \/ AddTrackNotOpened(q, p) \/ RemoveTrack(q, p)
         \/ RemoveUnknownTrack(q, p) \/ LookupTrack(q, p)
  \/ \E p \in Peers : AddParticipant(q, p) \/ RemoveParticipant(q, p) \/ RecordActivity(q, p)
  \/ Snapshot(q)
  \/ ClaimStop(q)

(* A step of a call already under way.                                      *)
Continue(q) ==
  \/ WriteToTrack(q)
  \/ CountTracks(q) \/ PutMetadata(q) \/ CopyTimeline(q) \/ PutTimeline(q)
  \/ LoadTimeline(q) \/ StoreTimeline(q) \/ CloseTracks(q) \/ WriteCompletedMetadata(q)
  \/ DeleteRecordingMarker(q) \/ PutCompletedMarker(q) \/ FinishStop(q)

Next == \E q \in Threads : Handle(q) \/ Continue(q)

Spec == Init /\ [][Next]_vars

(* A goroutine that is inside a call keeps running, and the object store    *)
(* answers every request.  Nothing obliges anyone to make a call.           *)
FairSpec == Spec /\ \A q \in Threads : WF_vars(Continue(q))
-----------------------------------------------------------------------------
(* Properties                                                               *)

StopLabels == {"claimed", "appending", "closing", "closed", "finalizing", "marking",
               "completing", "failing"}
DocumentLabels == {"copied", "metadataPut", "metadataDone", "timelinePut"}

(* Is thread q executing Stop, past the claim of the status?                *)
Stopping(q) == \/ pc[q] \in StopLabels
               \/ pc[q] \in DocumentLabels /\ doc[q].status = "completed"

(* Every variable has its type.                                             *)
TypeOK ==
  /\ status \in {"recording", "stopping", "completed", "failed"}
  /\ tracks \in [Producers -> Writers \cup {NoWriter}]
  /\ created \in 0..MaxTracks
  /\ writer \in [Writers -> {"none", "open", "closed", "broken"}]
  /\ packets \in [Writers -> Nat]
  /\ completedTracks \in SUBSET Writers
  /\ reported \in [Writers -> Nat]
  /\ participants \in [Peers -> {"absent", "joined", "left"}]
  /\ timeline \in Seq(Events)
  /\ lost \in Nat
  /\ cancelled \in BOOLEAN
  /\ metadata \in Documents
  /\ timelineObject \in Seq(Events)
  /\ markers \in SUBSET {".recording", ".completed"}
  /\ pc \in [Threads -> {"idle", "writing"} \cup StopLabels \cup DocumentLabels]
  /\ cur \in [Threads -> Writers \cup {NoWriter}]
  /\ seen \in [Threads -> Nat]
  /\ doc \in [Threads -> Documents]
  /\ events \in [Threads -> Seq(Events)]

(* A reader that finds the .completed object finds a recording that nobody  *)
(* will add to: Stop closes every track before FinalizeRecording, AddTrack  *)
(* opens none once the status has left "recording".                         *)
CompletedIsSealed ==
  ".completed" \in markers =>
    /\ status # "recording"
    /\ ActiveWriters = {}
    /\ \A w \in Writers : writer[w] # "open"

(* No track writer leaks: each one ever opened is held by exactly one       *)
(* producer while it is open, and afterwards is either catalogued or was    *)
(* given up because closing it failed.                                      *)
WriterAccounted ==
  \A w \in Writers :
    /\ writer[w] = "open" <=> w \in ActiveWriters
    /\ w \in ActiveWriters => w \notin completedTracks
    /\ writer[w] = "closed" => w \in completedTracks
    /\ \A p1, p2 \in Producers : tracks[p1] = w /\ tracks[p2] = w => p1 = p2

(* The packet count catalogued for a closed track is the count of packets   *)
(* the track accepted, although WritePacket uses the writer it looked up    *)
(* after releasing r.mu and may come after the close.                       *)
CountsAreFinal ==
  \A w \in completedTracks : writer[w] = "closed" => reported[w] = packets[w]

(* Metadata that says "completed" lists the catalogue as it will stay, and  *)
(* its statistics count the same tracks, although r.Stats() is taken in a   *)
(* second critical section.                                                 *)
FinalCatalogue ==
  metadata.status = "completed" =>
    /\ metadata.tracks = completedTracks
    /\ metadata.count = Cardinality(completedTracks)

(* A timeline explains the metadata written just before it: each track and  *)
(* each peer the metadata lists has its event in the timeline, because both *)
(* callers build the timeline after the metadata.  Only the events that the *)
(* unlocked append in Stop discards may be missing.                         *)
SnapshotsExplained ==
  \A q \in Threads : pc[q] = "timelinePut" =>
    Cardinality({w \in doc[q].tracks :
        \A i \in DOMAIN events[q] : events[q][i] # Event("track_added", w)})
    + Cardinality({p \in doc[q].peers :
        \A i \in DOMAIN events[q] : events[q][i] # Event("peer_joined", p)}) <= lost

(* A recording is finalized by one goroutine at a time, and only while its  *)
(* status is "stopping": the claim of the status under r.mu serialises      *)
(* StopRecording, the disconnect of an SFU and the shutdown.                *)
OneFinalizer ==
  /\ \A q, r \in Threads : Stopping(q) /\ Stopping(r) => q = r
  /\ \A q \in Threads : Stopping(q) => status = "stopping"

(* Once a recording is finished its outcome and its catalogue never change, *)
(* whatever calls are still made on it.                                     *)
FinishedStaysFinished ==
  [][(status = "completed" \/ status = "failed") =>
       UNCHANGED <<status, completedTracks, writer, packets>>]_vars

(* Every stop ends, in success or in failure.                               *)
StopTerminates == status = "stopping" ~> status \in {"completed", "failed"}

(* The recording implements its contract.                                   *)
Contract == INSTANCE RecordingContract WITH
  Tracks <- Writers,
  phase <- status,
  open <- {w \in Writers : writer[w] = "open"},
  catalogue <- completedTracks,
  dropped <- {w \in Writers : writer[w] = "broken" /\ w \notin completedTracks},
  sealed <- ".completed" \in markers

(* Every step of the recording is a step its contract allows.               *)
ImplementsContract == Contract!ContractSpec

-----------------------------------------------------------------------------
(* Statements of the documentation that the code does not keep              *)

(* After a normal stop the metadata says "completed"                        *)
(* (docs/RECORDING_END_TO_END.md: "recording -> completed (normal stop)").  *)
CompletedMetadataIsFinal == status = "completed" => metadata.status = "completed"

(* The timeline contains the room events                                    *)
(* (docs/RECORDING_END_TO_END.md: "timeline.json contains chronological     *)
(* room events").                                                           *)
NoEventLost == lost = 0

(* A recording whose finalization failed is not published as completed      *)
(* (docs/RECORDING_END_TO_END.md: "recording -> failed (SFU disconnect or   *)
(* finalize error)").                                                       *)
FailedIsNotPublishedCompleted == status = "failed" => metadata.status # "completed"

(* The tracks of a completed recording are in its catalogue, the ones that  *)
(* could not be closed included (docs/ARCHITECTURE-PLAN.md: "Failure modes: *)
(* Graceful (partial tracks)").                                             *)
PartialTracksAreKept == status = "completed" => 1..created \subseteq completedTracks
=============================================================================
