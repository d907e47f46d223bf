# Verification of the recording service

The Brollyhub Recorder receives the RTP packets of video rooms from an SFU over
a bidirectional gRPC stream, stores each track as `.rtp` segments in an S3
object store next to `metadata.json` and `timeline.json`, cuts recordings into
parts that an external compositer exports, and tells the Shelves service about
every change of a recording's status. This directory holds TLA+ models of that
program, TLC runs over small instances of them, and proofs for all instances.

Contents: [inventory](#1-inventory), [modules](#2-modules-and-how-they-correspond-to-the-code),
[runs](#3-runs), [bounds](#4-bounds), [fairness](#5-fairness), [proofs](#6-proofs),
[disagreements](#7-where-the-code-and-its-documents-disagree),
[what is left out](#8-what-is-not-modelled), [plan](#9-plan).

## 1. Inventory

### Parts of the system

| part | source | state | operations |
|---|---|---|---|
| room recording | `internal/recording/room.go` | `status`, `tracks`, `completedTracks`, `participants`, `timeline`, `storageCtx` | `AddTrack`, `RemoveTrack`, `WritePacket`, `AddParticipant`, `RemoveParticipant`, activity events, `RotateSegmentsAt`, `Snapshot`, `Stop` |
| track writer | `internal/recording/track.go` | `segments`, current `rtpWriter` and `segmentWriter`, counters, `closed` | `WritePacket`, `RotateAt`, `CloseAt` |
| RTP file writer | `internal/rtp/writer.go` | byte buffer, `closed`, flush goroutine | `WritePacket`, `Flush`, `Close`, `flushLoop` |
| object storage | `internal/storage/minio.go` | the bucket; per upload: buffered part, list of uploaded parts, `closed` | `EnsureBucket`, `CreateRecording`, `GetTrackWriter`, `Write`, `Close`, `WriteMetadata`, `WriteTimeline`, `FinalizeRecording` |
| manager | `internal/recording/manager.go` | map of room to recording | `StartRecording`, `StopRecording`, `GetRecording`, `Shutdown` |
| policy | `internal/recording/policy.go` | none | `PolicyFromProto` with `withDefaults`, `CanRecord`, `ShouldRecordTrack` |
| gRPC server | `internal/grpc/server.go` | `connectedSFU`, `done`, heartbeat ticker | `Connect`, `startHeartbeat`, `handleDisconnect`, `Stop` |
| handlers | `internal/grpc/handlers.go` | none of their own | one per message; `notifyRoomRecording`, `buildParts` |
| live recorder | `internal/grpc/live_recorder.go` | map of room to `liveSession` with its list of quick parts | `startLiveRecorder`, `runLiveRecorder`, `processQuickAccessBoundary`, `stopLiveRecorder`, `queueFinalExports` |
| Shelves and compositer clients | `internal/shelves`, `internal/compositer` | none | `UpsertRoomRecording`, `CreateExport` |
| process | `cmd/recording-service/main.go` | none | start, signal, shutdown |
| configuration, packet parser, protocol, deployment | | none | not modelled, see section 8 |

### How they interact

One goroutine per SFU stream reads a message at a time and runs its handler to
the end; when the stream ends, the same stream runs `handleDisconnect`. A new
SFU may register while the old stream is still open. Handlers reach recordings
through the manager's map (under `m.mu`) and call them (under `r.mu`). Each
recording with quick access has a live goroutine that, at each boundary,
rotates the segments of all tracks, writes a snapshot, upserts to Shelves and
requests an export. A stop cancels the live session without waiting for it.
Each `rtp.Writer` has a flush goroutine under its own lock `w.mu`. Each
registration starts a goroutine that sends heartbeats. Every upsert
to Shelves is a goroutine of its own. On SIGTERM, main stops the gRPC server
(gracefully for 30 s, then by force), calls `Manager.Shutdown` and exits.

### What is hard, and what makes each part correct

* *Room recording.* Stop requests, disconnects and shutdown race for the stop;
  live snapshots and handlers run beside it; `WritePacket` uses a writer it
  looked up before; each object store request may fail at either side.
  Correct: one finalizer, no writer leaked, final metadata that matches the
  catalogue, nothing accepted after the end, every stop terminates.
* *Track writer.* Three causes of rotation meet packets, the flush goroutine
  and failing uploads. Correct: every accepted packet is attributed to one
  segment and stored once, in order; counts match objects; uploads are settled.
* *Service.* Several streams, a disconnect, a shutdown and live goroutines act
  on one map and one registry. Correct: every unfinished recording is the
  business of exactly one party, a room has one active recording, live
  goroutines stay cancellable, disconnect and shutdown come to an end.
* *Archive.* The process may die between any two requests to the object store,
  and nothing is read back at the next start. Correct: a sealed recording is
  complete, an unsealed one can be found, a crash costs the open segments only,
  and a later process leaves what it finds alone.
* *Heartbeats.* Goroutines of all streams share one ticker that registrations
  replace without a lock. Correct: an open stream keeps getting heartbeats, the
  goroutines of ended streams and of a stopped server end.
* *Live exports.* The live goroutine and the final exports of a stop share the
  list of parts. Correct: no part exported twice, every part exported by one of
  them (which does not hold for a part whose request the stop cancels, see
  section 7), and the parts tile the recording.

`PROJECT.json` lists the hazards line by line with the properties that address
each of them.

## 2. Modules and how they correspond to the code

| module | models | abstract counterpart |
|---|---|---|
| `RecordingContract` | what a room recording promises, without goroutines or storage | |
| `RoomRecording` | `room.go` and the objects it writes | implements `RecordingContract` |
| `RoomRecordingProofs` | theorems about `RoomRecording` | |
| `RtpFile` | the file format of `rtp/writer.go`, written and read | pure operators |
| `TrackContract` | what a track promises, without buffers, uploads and locks | |
| `TrackWriter` | `track.go`, `rtp/writer.go`, `S3StreamWriter` of `minio.go` | implements `TrackContract` |
| `RecordingArchive` | the recordings of a room in the bucket over the lifetimes of the process: `manager.go`, `room.go`, `minio.go`, `main.go` | uses the summary of `TrackWriter` that `TrackContract` gives |
| `ManagerContract` | what the service promises about the recordings of its rooms | |
| `RecordingService` | `server.go`, `handlers.go`, `manager.go`, sessions of `live_recorder.go`, `main.go` | implements `ManagerContract`; uses the summary of `RoomRecording` (stop once, end in completed or failed) |
| `Heartbeats` | `startHeartbeat`, registrations and `Stop` of `server.go` | |
| `Policy` | `policy.go` | pure operators |
| `Parts` | `buildParts`, `buildPart` | pure operators |
| `LiveRecorder` | one session: `live_recorder.go` and the export side of `handleStopRecording` | |
| `TrackWriterProofs`, `RecordingServiceProofs`, `RecordingArchiveProofs`, `LiveRecorderProofs` | theorems about the module each is named after | |
| `RtpFileProofs` | lemmas: what the readers of `RtpFile` find in what its writer wrote | |
| `SequenceFacts` | lemmas: induction, folds of numbers, functions defined step by step, concatenations | |
| `MC*` | instances for TLC (symmetry sets) | |

A definition marked `\* mutant` is not part of a model: it is a plausible error
in the definition that follows it, kept so that every property can be shown to
notice an error. `PROJECT.json` says which property each of them breaks.

### `RoomRecording`

Threads are whatever goroutines hold the pointer: handlers, live goroutine,
shutdown. A critical section of `r.mu` is one action. Split into several
actions are exactly the places where the code runs without the lock:

* `Stop` is `ClaimStop` (status under the lock), `LoadTimeline` and
  `StoreTimeline` (the append of `recording_stopped` outside the lock, a data
  race with handlers: the result is any of `RacyAppends`), `CloseTracks`,
  then the metadata and timeline writes, `DeleteRecordingMarker`,
  `PutCompletedMarker` and `FinishStop`.
* `Snapshot` and `Stop` share `CopyMetadata`, `CountTracks` (`Stats()` takes
  the lock a second time), `PutMetadata`, `CopyTimeline` and `PutTimeline`.
* `WritePacket` is `LookupTrack` and `WriteToTrack`.

A request to the object store has an `Outcome`: it takes effect or not and is
answered or fails; what was answered has taken effect. Cancelling
`storageCtx`, which only a successful stop does, makes later requests of
snapshots fail and may cut off one that is under way. A track writer is reduced to
open, closed or broken (its close failed) and to its packet count; the
documents are reduced to status, tracks, peers and count. The ghost `lost`
counts timeline events that the unlocked append has discarded. A room event of
an activity carries the peer only.

### `TrackWriter`

`WritePacket`, `RotateAt` and `CloseAt` hold `t.mu`, so at most one is under
way: `op` is that call, `pc` its next step. Between its steps `FlushTick` (the
flush goroutine, which takes only `w.mu`) and the clock may run. `closeRtp`
flushes the rtp.Writer, `closeS3` closes the upload (`CompleteUpload`,
`AbortEmptyUpload`, `UploadFails`, or `CloseAgain` for an upload that is closed
already), `start` opens the next segment or fails to. Packets are numbers in
the order of acceptance with the payload lengths `PayloadLength` gives; what is
buffered, uploaded and stored is a sequence of packets and the file header,
whose bytes `RtpFile` counts. The choice `faults` in `Init` says whether the store may fail in
this behaviour, so that one run checks the statements for a reliable store and
those for any store.

### `RecordingService`

One thread per stream and `Main`. `pc` walks through the handlers:
start (`StartRecording`, `AnswerStarted`, `StartLiveRecorder`), stop
(`StopRecording`, `StopLiveRecorder`, `TakeRecording`, `BeginStop`,
`FinishStop`, `NotifyStopped`), disconnect (`Disconnect`,
`ListActiveRecordings`, `NextRoom`, then the stop of each room) and shutdown
(`ReceiveSignal`, `GracefulStop` or `ForceStop`, `TakeAll`, `StopNext`, then
`BeginStop` and `FinishStop`, `Exit`). A recording is a number and `state` is
its status; `rooms` and `sessions` are the two maps. `held` is the recording a
goroutine has taken out of the map, `rec` the one it read before. Upserts are a
set in flight that may be delivered in any order or lost. When main has exited
nothing else runs.

### `Parts` and `LiveRecorder`

`Parts` holds the arithmetic with integer division as Go does it; `Tiles` is
the reference definition: the parts cover the recording without gap, in order,
and end with it. `LiveRecorder` follows one session: `ProcessBoundary` adds the
part to the shared list, `RequestExport` and `ExportBoundary` ask the
compositer, `EndLive` takes the cancellation; the handler side is `ReadStats`,
`StopLiveRecorder`, `StopRecording`, `QueueFinalExports`, `QueueNextExport`.

The policy of the recording is what `Policy` makes of one of `Requests`, so the
run covers requests that leave values out or carry numbers without a name.

### `RtpFile`

`File` is the sequence of fields the writer produces for a sequence of packets;
`ReadHeader` and `ReadPackets` read it back as `rtp.ReadHeader` and
`rtp.ReadPacket` do. A length is stored modulo `2^LengthBits` while the payload
is written in full, so the reader is lost after a payload too long for it.

### `RecordingArchive`

`step[n]` is how far the call is that creates or stops recording `n`:
`StartRecording` puts `.recording`, `WritePolicy` adds the recording to the map
(both under `m.mu`, which makes everybody else wait: `Unlocked`), `CloseTrack`,
`WriteMetadata`, `DeleteRecordingMarker` and `PutCompletedMarker` are the
requests of `Stop`. `main` is where `main()` is; `Crash` is possible at any
point, `Exit` only when the recording taken by `Shutdown` is finished, and
`Restart` keeps the bucket and nothing else. `writers`, `completed` and
`accepted` of a lost recording are kept in the model as a record of what was lost.
A track is a list of closed segments and an open one, and `NextKey` is what
`trackPath` makes of it. The recordings have no live exports, so segments rotate
by size and the metadata is written by `Stop` only.

### `Heartbeats`

A ticker and the goroutine that sends (a *loop*) have the number of the
registration that made them. A loop reads the server's ticker (`ReadTicker`, a
data race with `handleRegister`: it finds any ticker since the last one it
found), waits for a tick or for `done`, and sends. `Tick` fills a channel of one
place. `Register` and `Respond` hold `s.mu` between them.

## 3. Runs

| run | checks | shows |
|---|---|---|
| `room_safety` | `TypeOK`, `CompletedIsSealed`, `WriterAccounted`, `CountsAreFinal`, `FinalCatalogue`, `SnapshotsExplained`, `OneFinalizer`, `FinishedStaysFinished`, `ImplementsContract` | with two goroutines, two producers and a faulty store, a recording is finalized once, leaks no writer and publishes the final catalogue; it implements its contract |
| `room_liveness` | `StopTerminates` | every stop ends in completed or failed although each request may fail |
| `track` | `TypeOK`, `Conservation`, `UploadsSettled`, `CountsMatchObjects`, `ObjectsReadable`, `SegmentsInOrder`, `ImplementsTrackContract` | rotation by age, size and boundary loses, repeats and misattributes no packet with a reliable store, and the objects are read back; with any store nothing is stored twice, out of order or in another segment, and no object is replaced |
| `archive` | `TypeOK`, `SealedIsComplete`, `NeverUnmarked`, `CrashCostsOpenSegments`, `PastIsKept` | whenever the process dies and is started again, with a reliable store a sealed recording is complete, an unsealed one is marked and only open segments are lost; nothing an earlier process left changes |
| `service_streams` | `TypeOK`, `OneKeeper`, `LiveIsRegistered`, `ReportsEnded`, `ImplementsManagerContract` | two streams, a disconnect and a shutdown over one room: no recording is forgotten or stopped twice, the room has one active recording and what was taken from it ends once, no live goroutine becomes unreachable, and the recording a stop reports to Shelves is no longer active |
| `service_one_stream` | `OutcomesFollowStop`, `SessionsFollowStop`, `DisconnectFinalizes`, `ShutdownEnds` | with a single stream, an outcome is upserted only of a recording that has one, and COMPLETED only of a completed one, sessions end with the stop, a disconnect finalizes all rooms, a shutdown ends |
| `live` | `ExportedOnce`, `AnnouncedAgree`, `PartsAccounted`, `ListsTile`, `ExportsWanted`, `StopEndsLive` | at every duration up to the bound, for every policy of the instance and every interleaving of boundary and stop, parts tile the recording, none is exported twice or unasked, the live goroutine leaves out none between its first export and its cancellation, and the stop exports what was not announced |
| `heartbeats` | `KeepsBeating`, `DeadLoopsEnd`, `StopEndsLoops` | an SFU keeps getting heartbeats while others register and replace the ticker; loops of ended streams and of a stopped server end |
| `late_snapshot`, `track_crash`, `key_reuse`, `orphan_recording` | one statement each | violated: see section 7 |

Two properties are restricted to one stream (`OutcomesFollowStop`,
`SessionsFollowStop`) because they are false with two: a handler of another
stream may stop, and restart, the room between the read of the recording and
its stop, or before the live session is registered. Then a recording is
reported COMPLETED whose own stop may have failed, and the one that was stopped
is not reported; what is left with several streams is `ReportsEnded`, that the
recording reported has been taken from its room, and `LiveIsRegistered`, that
the session left behind can still be cancelled. `OutcomesFollowStop` allows
FAILED of completed recordings as well as of failed ones: the code reports
FAILED after a disconnect whose stop succeeded and reports nothing when
finalizing fails, which is not what the documents say (section 7).
`PartsAccounted` counts an announced part as the live goroutine's business,
whether its export came about or not. `SegmentsInOrder` leaves
out the last segment, whose end `CloseAt` takes from its caller without moving
it up. `CHECK_DEADLOCK FALSE` is set in every configuration because each model
really stops: a recording is finished and its bounds are used up, the process
has exited, a track is closed.

## 4. Bounds

| bound | value | why it is enough |
|---|---|---|
| `Threads` | 2 | each race of the room is between two calls: a stop and another call, or two stops |
| `Producers`, `MaxTracks` | 2, 2 | two tracks with different fates in one `CloseTracks`. A producer that returns takes four events and is not reached with `MaxEvents` 3; four make the run too long, so the theorems of section 6 alone cover it for the room, and the run `archive` for the objects |
| `MaxPackets` (room) | 1 | distinguishes a count taken before a packet from one taken after it |
| `MaxEvents` | 3 (2 where a run needs one race only) | `recording_started`, one event before and one during the unlocked append |
| `MaxPackets`, `MaxSegments` (track) | 4, 3 | a full segment and a remainder, or up to three segments by age and boundaries; a part uploaded before and one at the close |
| `PayloadLength`, `LengthBits` | 1, 2, 4, 1 and 2 | the third packet is too long for its length field |
| `SegmentMaxBytes`, `PartSize` | 8, 50 | a rotation by size before the fourth packet; a part is full after the header and two packets, so a segment that closes with three packets has data both in uploaded parts and in the buffer |
| `SegmentDuration`, `MaxTime` (track) | 2, 2 | a rotation by age, by size and at a boundary in the past |
| `Streams`, `Rooms` | 2 and 1, or 1 and 2 | a replaced stream; a disconnect with several rooms to stop |
| `MaxRecordings` | 2 | a recording of the room after the one that is being stopped, or after a restart |
| `MaxTracks`, `MaxPackets`, `SegmentLimit` (archive) | 2, 2, 2 | of all recordings together: two tracks, or one that returns; a full segment and an open one |
| `MaxRestarts` | 1 | a recording of an earlier process beside one of the next |
| `MaxRegistrations` | 2 | two SFUs that replace each other, or one that registers twice |
| `MaxBoundaries` | 1 (0 where live upserts play no role) | one upsert beside the stop |
| `Requests`, `Unit`, `Second`, `MaxTime` (live) | 7 policies, 2, 2, 13 | a clock in half milliseconds, so that offsets and durations are rounded down; part lengths of 1 to 3, missing, zero and negative ones, unknown numbers; durations of 0, multiples and remainders, up to three boundaries |

Where a handler would exceed a bound its guard is false (`Len(timeline) <
MaxEvents`, `created < MaxTracks`, `packetCount < MaxPackets` and so on); steps
of a call under way are never blocked by a bound, except that `FlushTick` stops
retrying a failing flush once the byte count exceeds all packets,
and opening a segment beyond `MaxSegments`. Symmetry is used for threads and
streams, rooms in safety runs only.

## 5. Fairness

* `RoomRecording!FairSpec`: weak fairness of `Continue(q)`: a goroutine inside
  a call keeps running and the object store answers, in success or failure
  (the S3 client's requests end). No caller is obliged to call anything, so
  nothing is assumed about tracks, packets or the SFU.
* `RecordingService!FairSpec`: weak fairness of the goroutines of streams and
  of main. No message, break or signal is assumed to happen. `ShutdownEnds`
  relies on the 30 s context of main, which makes `ForceStop` possible whenever
  a stream is left.
* `LiveRecorder!FairSpec`: weak fairness of both goroutines and strong fairness
  of `EndLive`: a `select` with both cases ready chooses at random, so it does
  not take the timer for ever.
* `Heartbeats!FairSpec`: weak fairness of the goroutines and of the tickers,
  strong fairness of `TakeTick` and `SeeDone`: goroutines that wait for one
  channel are served in the order of their arrival, and the `select` chooses at
  random. A `Send` ends, because keepalive breaks a dead connection.

## 6. Proofs

Every invariant and every action property that the passing runs check is also a
theorem, for every value of the constants, and so are the three refinements.
Each theorem is `Spec => []P` (or `Spec => P` for an action property and a
refinement) for the definition `P` named beside it. What remains with TLC is
liveness.

The assumptions are those the modules name on their constants: bounds are
natural numbers, limits and part sizes are natural or positive, a model value
such as `NoRoom` is none of the values it stands beside. Sets of threads,
producers, peers, streams and rooms may be infinite. `FormatAssumption` says
both that `LengthBits` is natural and that `2^LengthBits` is a positive natural
number: the second follows from the first, but the provers know nothing of
exponentiation. Where a theorem is about a reliable store, that is in the
property (`~faults => ...`) and not an assumption of the theorem; the run and
the theorem say the same.

### Room recording (`RoomRecordingProofs`)

| theorem | property |
|---|---|
| `TypeCorrect` | `TypeOK` |
| `SingleFinalizer` | `OneFinalizer` |
| `CompletedSealed` | `CompletedIsSealed` |
| `NoWriterLeaks` | `WriterAccounted` |
| `CatalogueCounts` | `CountsAreFinal` |
| `MetadataIsCatalogue` | `FinalCatalogue` |
| `TimelinesExplainMetadata` | `SnapshotsExplained` |
| `FinishedIsFinal` | `FinishedStaysFinished` |
| `Refinement` | `ImplementsContract` |

None of these invariants is inductive alone. The inductive one is
`IInv == FinalizerInv /\ CatalogueInv /\ WritingInv`, in layers:

1. `FinalizerInv`: types; a thread inside `Stop` is alone and the status is
   "stopping"; what it saw of the timeline is a prefix. It is inductive without
   the other layers: the claim of the status under the lock is all it needs.
2. `CatalogueInv`: each producer's writer is open, held once and uncatalogued,
   and writers above `created` do not exist (`WritersInv`); once anything relies
   on the catalogue (`Sealed`: the marker, completed metadata, a finished
   status, or a thread past `CloseTracks`) no track is open and the status is
   not "recording" (`SealedInv`); each completed document equals the catalogue
   (`DocumentsInv`). `SealedInv` uses layer 1: only one thread can be
   between closing the tracks and the end, and `AddTrack` needs "recording".
3. `WritingInv`: a thread in `WritePacket` holds a real writer; one about to
   report success has put the `.completed` object.
4. `SnapshotInv`, beside `IInv`, for `TimelinesExplainMetadata`: the timeline
   has the events of *all* tracks ever opened and *all* peers that ever joined,
   but for at most `lost` of them, and a thread between its metadata and its
   timeline has copied one that explains its metadata. The timeline only grows
   except in the unlocked append of `Stop`, which drops no more events than it
   adds to `lost`. The property speaks of a
   thread that is about to put its timeline, the documents it has copied.

The refinement maps `ClaimStop` to `BeginStop`, `CloseTracks` to `ReleaseAll`,
`PutCompletedMarker` to `Seal`, `FinishStop` to `Finish`, `AddTrack` to
`Accept`, `RemoveTrack` to `Release`, and everything else to a stutter.

### Tracks (`TrackWriterProofs`, `RtpFileProofs`)

| theorem | property |
|---|---|
| `TrackTypeCorrect` | `TypeOK` |
| `TrackConserves` | `Conservation` |
| `TrackSettlesUploads` | `UploadsSettled` |
| `TrackCountsMatch` | `CountsMatchObjects` |
| `TrackSegmentsInOrder` | `SegmentsInOrder` |
| `TrackObjectsReadable` | `ObjectsReadable` |
| `TrackImplementsContract` | `ImplementsTrackContract` |

They hold for any payload lengths, segment limits, part size and width of the
length field. The inductive invariant (`TrackInvariant: Spec => []IInv`) is:

1. `OperationInv`: where the call under way can be and what it found; a call
   between its steps has the lock, so `closed` and the segment stay its own.
2. `SegmentsInv`: all segments but the newest have ended, indexes rise (those of
   segments that could not be opened are skipped), and the packets counted in
   the list and in the current segment add up to `packetCount`.
3. `StoreInv`: there is no object yet for the segment being written.
4. With a reliable store: every call reaches its end (`ReliableCalls`), nothing
   accepted is missing from the objects followed by what is pending and the
   counts are those of the objects (`ReliableContent`), and the times follow
   each other (`ReliableOrder`).

`Conservation` follows from 2 and 4 only because `ReliableContent` ties the
counters of the current segment to what is pending: a flush moves bytes between
the two buffers and the parts at any point between the steps of a call, and the
count copied by `EndSegment` is right because `counted` follows every flush.

`ObjectsReadable` needs `ShapeInv`: a header is only ever the first of the
items of a segment, whichever parts a failing store has dropped from the middle,
and the first item is the header with a reliable store. What such an item
sequence is read back as is `FileReadsBack` in `RtpFileProofs`: the calls of
`ReadPacket` are a function defined from the end of the file backwards
(`ReadsExist`), each packet starts where the ones before it end (`FileLayout`),
and the reader follows the writer from packet to packet as long as none is too
long (`PacketsRead`).

The refinement of `TrackContract` uses `PendingInv`: whatever fails, what is on
its way to the store are packets of the current segment, in order. `AppendPacket`
maps to `Accept` (or stutters when the packet is refused), `CompleteUpload` and
a completion that only seems to fail in `UploadFails` to `Store`, `StartSegment`
to `NextSegment`, `CloseAt` to `Close`, and every other step to a stutter.

### Service (`RecordingServiceProofs`)

| theorem | property |
|---|---|
| `ServiceTypeCorrect` | `TypeOK` |
| `ServiceOneKeeper` | `OneKeeper` |
| `ServiceLiveIsRegistered` | `LiveIsRegistered` |
| `ServiceImplementsManagerContract` | `ImplementsManagerContract` |
| `ServiceReportsEnded` | `ReportsEnded` |
| `OneStreamOutcomesFollowStop` | `OutcomesFollowStop`, assuming `OneStream` |
| `OneStreamSessionsFollowStop` | `SessionsFollowStop`, assuming `OneStream` |

`IInv` is `TypeInv` and `CallInv` (where each goroutine can be and what it then
holds), `KeeperInv` (a recording that is not finished is in the map under its
own room, or with one goroutine that took it out, or with the shutdown) and
`LiveIsRegistered`. The contract maps a recording in the map to "active" and
one that was taken out to "ending", so `KeeperInv` is what the refinement rests
on. `ReportInv`, beside `IInv`, follows what a stop has read: until the stop
takes the recording of its room, the one it has read is there or in no room at
all, and nothing comes back into the map. The last two theorems assume that there is one stream (`OneStream`), as the
run does and for the reason given in section 3; `OneStreamInv` adds that a stop
takes the recording it has read and that sessions belong to the map's recording.

### Archive (`RecordingArchiveProofs`)

| theorem | property |
|---|---|
| `ArchiveTypeCorrect` | `TypeOK` |
| `ArchiveNeverUnmarked` | `NeverUnmarked` |
| `ArchiveCrashCostsOpenSegments` | `CrashCostsOpenSegments` |
| `ArchiveSealedIsComplete` | `SealedIsComplete` |
| `ArchivePastIsKept` | `PastIsKept` |

`TypeInv` has what the map of rooms holds, `MarkInv` what each step of `Stop`
has left in the bucket when the process dies after it, `ContentInv` where every
packet accepted is: in the open segment of one writer, or in the object its
track lists it under. A crash changes none of the bucket, so each layer holds
in the dead process as it did in the living one.

### Live exports (`LiveRecorderProofs`)

| theorem | property |
|---|---|
| `LiveExportedOnce` | `ExportedOnce` |
| `LiveExportsWanted` | `ExportsWanted` |
| `LivePartsAccounted` | `PartsAccounted` |
| `LiveAnnouncedAgree` | `AnnouncedAgree` |
| `LiveListsTile` | `ListsTile` |
| `LiveDocumentedAsEnforced` | `DocumentedAsEnforced`, a fact about each policy that no run checks |

First the arithmetic of `Parts`: the quotients that `buildParts` rounds down tile
every duration, because each part starts where the one before it ends before
rounding. Then `LiveInv` (the parts announced are the first boundaries),
`ExportInv` (which of the two goroutines may still ask for a part: the stop
cancels before it lists), `UnbrokenInv` (before the cancellation no part after
the first exported one was left out, because there is a track from then on) and
`CoverInv` (the stop has what was not announced).

### How the proofs use induction

The library's induction theorems take a predicate as a parameter, which the
provers cannot instantiate. `SequenceFacts` states induction over the natural
numbers and over sequences for a *set* instead (`Induction`,
`SequenceInduction`) and derives it from the library's theorem on minimal
elements of a well-founded relation. From these follow what `FoldSeq` with
addition computes (`SumTotals`: the fold chooses elements in no particular
order, `SumAny` shows that the order does not matter), that functions defined
step by step exist (`Recursion`), and how `FlattenSeq` grows. `Bytes`,
`TotalPackets`, `PacketsOf`, `ReadPackets` and `File` are reasoned about through
these lemmas. They are written as folds and as recursive functions for that
reason; no module declares a RECURSIVE operator.

### Only model-checked

Every liveness property (`StopTerminates`, `DisconnectFinalizes`,
`ShutdownEnds`, `StopEndsLive`, and all of `Heartbeats`: `KeepsBeating`,
`DeadLoopsEnd`, `StopEndsLoops`): fairness and ENABLED are outside the provers'
reach. The four violations of section 7 are counterexamples TLC found.

## 7. Where the code and its documents disagree

Each is a statement of a document or comment, formulated as a property that TLC
refutes on what the code does (`findings` in `PROJECT.json` quotes the lines).

| run | statement | what happens |
|---|---|---|
| `late_snapshot` | `CompletedMetadataIsFinal` | the PUT of a live snapshot lands after the final one: a completed recording keeps metadata "recording" |
| `track_crash` | `FailuresAreGraceful` | a rotation fails to open a segment; the next packet dereferences a nil writer |
| `key_reuse` | `RemovedTracksAreKept` | a producer that returns within a recording has its objects under the keys of its first track, and overwrites them |
| `orphan_recording` | `NoRecordingWithoutStream` | the end of a replaced stream clears the connected SFU; the next disconnect stops nothing |

Further statements that do not hold are defined in the modules, without a run:

| module | statement | what happens |
|---|---|---|
| `RoomRecording` | `FailedIsNotPublishedCompleted` | finalizing fails after "completed" metadata was written; it stays published as completed |
| `RoomRecording` | `NoEventLost` | the unlocked append of `Stop` drops events |
| `RoomRecording` | `PartialTracksAreKept` | `Stop` drops a track whose close failed |
| `TrackWriter` | `EndedSegmentsAreStored` | a close that is retried reports success |
| `RecordingService` | `ShutdownFinalizesAll` | after a forced stop, stream goroutines run beside `Shutdown`; main exits before a recording they hold or start is finalized |
| `RecordingService` | `DisconnectStopsOwn` | a disconnect stops the recordings of every SFU |
| `RecordingService` | `ShelvesKeepsOutcome` | an upsert of RECORDING overtakes the one of COMPLETED |
| `RecordingService` | `FinalizeErrorIsReported` | docs/RECORDING_END_TO_END.md:261 says "recording -> failed (SFU disconnect or finalize error)"; when finalizing fails, `handleStopRecording` answers with an error and upserts nothing (handlers.go:162-177), `handleDisconnect` only logs (server.go:227-231), and Shelves stays at RECORDING |
| `RecordingService` | `ReportedFailedIsFailed` | the same line: after a disconnect Shelves is told FAILED of a recording that was finalized and is "completed" in its metadata (server.go:234-236) |
| `LiveRecorder` | `AllPartsExported` | a part announced just before the stop has its request cancelled, and the final exports leave it out |
| `Heartbeats` | `SendsAreSerial` | a loop and a handler call `Send` on one stream at the same time |

The configuration reads `max_tracks_per_room` (docs/RECORDING-SERVICE.md:92) and
`heartbeat_interval`, and nothing uses them.

## 8. What is not modelled

* *The packet parser*: nothing in the recording path calls it.
* *Configuration, construction of the process, health endpoint, dialling,
  logging*: I/O without state the properties tell apart. *Generated protocol code, containers and
  scripts*: no logic.
* The wording of events and documents, statistics other than track count, real
  time (clocks are bounded counters), and the deadlines of requests (a request
  ends in success or failure).

## 9. Plan

Done, in this order: `RecordingContract`, `RoomRecording` with its runs and
proofs, `TrackWriter`, `RecordingService`, `Parts` and `LiveRecorder`, `RtpFile`,
`TrackContract`, `Policy`, `RecordingArchive`, `Heartbeats`, `ManagerContract`;
then the proofs about `RecordingService`, `RecordingArchive`, `LiveRecorder` and
`TrackWriter` with `RtpFile`, the refinements of `ManagerContract` and
`TrackContract` among them, and `SnapshotsExplained` of `RoomRecording`.

Next, modelling: the rotation and snapshots of `LiveRecorder` composed with
`RoomRecording`, so that metadata written live names the segments the boundary
has just closed; live exports in `RecordingArchive`.

Next, proving: the safety parts of the liveness arguments, such as the mutual
exclusion on `s.mu` and the tickers that loops may wait for in `Heartbeats`, and
the step that a stop of `RoomRecording` gets closer to its end.
