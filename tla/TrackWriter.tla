----------------------------- MODULE TrackWriter -----------------------------
(***************************************************************************)
(* One recorded track: the TrackWriter (internal/recording/track.go), the  *)
(* rtp.Writer that buffers the packets of its current segment              *)
(* (internal/rtp/writer.go) and the S3StreamWriter that uploads the        *)
(* segment in parts (internal/storage/minio.go).                           *)
(*                                                                         *)
(* WritePacket, RotateAt and CloseAt hold t.mu; the one under way is the   *)
(* operation `op', run step by step, because the flush goroutine of the    *)
(* rtp.Writer only takes w.mu and runs between the steps.  Packets are     *)
(* numbered in the order in which WritePacket accepts them; what is        *)
(* buffered and stored are items of RtpFile, the header and packets.       *)
(***************************************************************************)
EXTENDS RtpFile

CONSTANTS
  MaxPackets,       \* bound: packets accepted
  MaxSegments,      \* bound: segments opened
  MaxTime,          \* bound: the clock
  SegmentDuration,  \* rotation by age, 0 when off
  SegmentMaxBytes,  \* rotation by size, 0 when off
  PartSize          \* size at which the S3StreamWriter uploads a part

ASSUME BoundsAssumption ==
  /\ MaxPackets \in Nat /\ MaxSegments \in Nat \ {0} /\ MaxTime \in Nat
  /\ SegmentDuration \in Nat /\ SegmentMaxBytes \in Nat /\ PartSize \in Nat \ {0}
  /\ DOMAIN PayloadLength = 1..MaxPackets

VARIABLES
  closed,         \* t.closed
  segments,       \* t.segments
  segmentIndex,   \* t.segmentIndex
  open,           \* are t.rtpWriter and t.segmentWriter set?
  segmentStart,   \* t.segmentStart
  segmentBytes,   \* t.segmentBytes: of payload, of the file once the segment is closed
  segmentPackets, \* t.segmentPackets
  packetCount,    \* t.packetCount
  buffer,         \* rtp.Writer.buffer, as a sequence of items
  rtpClosed,      \* rtp.Writer.closed
  part,           \* S3StreamWriter.buffer
  parts,          \* the data of the parts uploaded, in order
  s3Closed,       \* S3StreamWriter.closed
  counted,        \* countingWriteCloser.n, in bytes
  objects,        \* content of the .rtp object of each segment index
  uploads,        \* state of the multipart upload of each segment index
  op,             \* operation under way and its argument
  pc,             \* its next step
  now,            \* the clock
  faults,         \* may requests to the object store fail in this behaviour?
  crashed         \* has the process died of a nil dereference?

trackVars == <<closed, segments, segmentIndex, open, segmentStart, segmentBytes,
               segmentPackets, packetCount>>
writerVars == <<buffer, rtpClosed>>
uploadVars == <<part, parts, s3Closed, counted>>
storeVars == <<objects, uploads, faults>>
callVars == <<op, pc>>
vars == <<trackVars, writerVars, uploadVars, storeVars, callVars, now, crashed>>

-----------------------------------------------------------------------------
Packets == 1..MaxPackets
Indexes == 1..MaxSegments
Times == 0..MaxTime
NoTime == -1
Items == {Header} \cup Packets
NoObject == <<>>

(* TrackSegmentInfo; its file name is its index.                            *)
SegmentInfo == [index : Indexes, start : Times, end : Times \cup {NoTime},
                bytes : Nat, packets : Nat]
ZeroBasedSegment(i, t) ==  \* mutant
  [index |-> i - 1, start |-> t, end |-> NoTime, bytes |-> 0, packets |-> 0]
NewSegment(i, t) ==
  [index |-> i, start |-> t, end |-> NoTime, bytes |-> 0, packets |-> 0]

Operations == [kind : {"none", "write", "rotate", "close"}, at : Times]
NoOperation == [kind |-> "none", at |-> 0]

(* NewTrackWriter has opened the first segment.                             *)
Init ==
  /\ closed = FALSE
  /\ segments = <<NewSegment(1, 0)>>
  /\ segmentIndex = 1
  /\ open = TRUE
  /\ segmentStart = 0 /\ segmentBytes = 0 /\ segmentPackets = 0
  /\ packetCount = 0
  /\ buffer = <<>> /\ rtpClosed = FALSE
  /\ part = <<>> /\ parts = <<>> /\ s3Closed = FALSE /\ counted = 0
  /\ objects = [i \in Indexes |-> NoObject]
  /\ uploads = [i \in Indexes |-> IF i = 1 THEN "open" ELSE "none"]
  /\ op = NoOperation /\ pc = "idle"
  /\ now = 0
  /\ faults \in BOOLEAN
  /\ crashed = FALSE

-----------------------------------------------------------------------------
(* Calls                                                                    *)

Begin(kind, at, step) ==
  /\ op' = [kind |-> kind, at |-> at]
  /\ pc' = step
  /\ UNCHANGED <<writerVars, uploadVars, storeVars, now, crashed>>

Return == op' = NoOperation /\ pc' = "idle"

CanCall == pc = "idle" /\ ~closed /\ ~crashed

NextPacket == packetCount + 1

ShouldRotate ==
  \/ SegmentDuration > 0 /\ now - segmentStart >= SegmentDuration
  \/ SegmentMaxBytes > 0 /\ segmentBytes + PayloadLength[NextPacket] >= SegmentMaxBytes

WritePacket ==
  /\ CanCall
  /\ packetCount < MaxPackets
  /\ Begin("write", now, IF ShouldRotate THEN "closeRtp" ELSE "append")
  /\ UNCHANGED trackVars

RotateUnclamped(cutoff) ==  \* mutant
  CanCall /\ cutoff <= now /\ Begin("rotate", cutoff, "closeRtp") /\ UNCHANGED trackVars

(* The cutoff is moved up to the start of the segment when it is earlier.   *)
RotateAt(cutoff) ==
  /\ CanCall
  /\ cutoff <= now
  /\ Begin("rotate", IF cutoff < segmentStart THEN segmentStart ELSE cutoff, "closeRtp")
  /\ UNCHANGED trackVars

CloseAt(end) ==
  /\ CanCall
  /\ closed' = TRUE
  /\ Begin("close", end, "closeRtp")
  /\ UNCHANGED <<segments, segmentIndex, open, segmentStart, segmentBytes, segmentPackets,
                 packetCount>>

HeaderOncePerTrack == IF packetCount = 0 THEN <<Header>> ELSE <<>>  \* mutant

(* The header precedes the first packet of a segment: headerWritten of its  *)
(* rtp.Writer is true as soon as the segment has a packet.                  *)
HeaderDue == IF segmentPackets = 0 THEN <<Header>> ELSE <<>>

(* rtp.Writer.WritePacket, once the segment has been rotated if need be.    *)
(* Nothing checks that there still is an rtpWriter.                         *)
AppendPacket ==
  /\ pc = "append"
  /\ \/ /\ open /\ ~rtpClosed
        /\ buffer' = buffer \o HeaderDue \o <<NextPacket>>
        /\ packetCount' = packetCount + 1
        /\ segmentPackets' = segmentPackets + 1
        /\ segmentBytes' = segmentBytes + PayloadLength[NextPacket]
        /\ UNCHANGED crashed
     \/ /\ open /\ rtpClosed
        /\ UNCHANGED <<buffer, packetCount, segmentPackets, segmentBytes, crashed>>
     \/ /\ ~open
        /\ crashed' = TRUE
        /\ UNCHANGED <<buffer, packetCount, segmentPackets, segmentBytes>>
  /\ Return
  /\ UNCHANGED <<closed, segments, segmentIndex, open, segmentStart, rtpClosed,
                 uploadVars, storeVars, now>>

-----------------------------------------------------------------------------
(* Flushing: rtp.Writer.flushLocked down to S3StreamWriter.Write.  A part   *)
(* that is full is uploaded at once; if that fails its data is gone, while  *)
(* the rtp.Writer keeps what it was flushing.                               *)
FlushedWithoutReset ==  \* mutant
  /\ ~s3Closed
  /\ counted' = counted + Bytes(buffer)
  /\ part' = part \o buffer
  /\ UNCHANGED <<buffer, parts>>

Flushed ==
  /\ ~s3Closed
  /\ counted' = counted + Bytes(buffer)
  /\ buffer' = <<>>
  /\ \/ /\ Bytes(part) + Bytes(buffer) < PartSize
        /\ part' = part \o buffer
        /\ UNCHANGED parts
     \/ /\ Bytes(part) + Bytes(buffer) >= PartSize
        /\ part' = <<>>
        /\ parts' = parts \o part \o buffer

FailedPartKept ==  \* mutant
  /\ faults /\ ~s3Closed
  /\ Bytes(part) + Bytes(buffer) >= PartSize
  /\ part' = part \o buffer
  /\ counted' = counted + Bytes(buffer)
  /\ UNCHANGED <<buffer, parts>>

FlushFailed ==
  /\ \/ /\ faults /\ ~s3Closed
        /\ Bytes(part) + Bytes(buffer) >= PartSize
        /\ part' = <<>>
        /\ counted' = counted + Bytes(buffer)
     \/ /\ s3Closed
        /\ UNCHANGED <<part, counted>>
  /\ UNCHANGED <<buffer, parts>>

(* A tick of flushLoop.  The loop may still choose the tick when closeChan  *)
(* has been closed, so rtpClosed does not prevent it.  (Bound: no further   *)
(* failure is tried once the bytes counted exceed those of all packets.)    *)
MaxCounted == HeaderSize + Bytes([n \in Packets |-> n])

FlushTick ==
  /\ open /\ buffer # <<>> /\ ~crashed
  /\ Flushed \/ (counted <= MaxCounted /\ FlushFailed)
  /\ UNCHANGED <<trackVars, rtpClosed, s3Closed, storeVars, callVars, now, crashed>>

-----------------------------------------------------------------------------
(* closeSegmentAt, first half: close the rtp.Writer, which flushes it.  A   *)
(* second Close of the same writer does nothing and succeeds.               *)

CloseRtp ==
  /\ pc = "closeRtp" /\ open
  /\ rtpClosed' = TRUE
  /\ \/ /\ rtpClosed \/ buffer = <<>>
        /\ pc' = "closeS3"
        /\ UNCHANGED <<buffer, part, parts, counted, op>>
     \/ /\ ~rtpClosed /\ buffer # <<>>
        /\ \/ Flushed /\ pc' = "closeS3" /\ UNCHANGED op
           \/ FlushFailed /\ Return
  /\ UNCHANGED <<trackVars, s3Closed, storeVars, now, crashed>>

(* Nothing to close: an earlier rotation closed the segment and could not   *)
(* open the next one.                                                       *)
SkipClose ==
  /\ pc = "closeRtp" /\ ~open
  /\ IF op.kind = "close" THEN Return ELSE pc' = "start" /\ UNCHANGED op
  /\ UNCHANGED <<trackVars, writerVars, uploadVars, storeVars, now, crashed>>

EndSegmentWithTotals ==  \* mutant
  /\ segments' = [segments EXCEPT ![Len(segments)].end = op.at,
                                  ![Len(segments)].bytes = counted,
                                  ![Len(segments)].packets = packetCount]
  /\ segmentBytes' = counted
  /\ open' = FALSE
  /\ IF op.kind = "close" THEN Return ELSE pc' = "start" /\ UNCHANGED op
  /\ UNCHANGED <<closed, segmentIndex, segmentStart, segmentPackets, packetCount>>

(* The bookkeeping of a segment that has been closed.                       *)
EndSegment ==
  /\ segments' = [segments EXCEPT ![Len(segments)].end = op.at,
                                  ![Len(segments)].bytes = counted,
                                  ![Len(segments)].packets = segmentPackets]
  /\ segmentBytes' = counted
  /\ open' = FALSE
  /\ IF op.kind = "close" THEN Return ELSE pc' = "start" /\ UNCHANGED op
  /\ UNCHANGED <<closed, segmentIndex, segmentStart, segmentPackets, packetCount>>

CloseFailed == Return /\ UNCHANGED trackVars

(* Second half: close the S3StreamWriter, which uploads what is left and    *)
(* completes the multipart upload, or aborts it when there is no data.      *)
CompleteUpload ==
  /\ pc = "closeS3" /\ ~s3Closed /\ parts \o part # <<>>
  /\ s3Closed' = TRUE
  /\ parts' = parts \o part /\ part' = <<>>
  /\ objects' = [objects EXCEPT ![segmentIndex] = parts \o part]
  /\ uploads' = [uploads EXCEPT ![segmentIndex] = "completed"]
  /\ EndSegment
  /\ UNCHANGED <<writerVars, counted, faults, now, crashed>>

LeaveEmptyUpload ==  \* mutant
  /\ pc = "closeS3" /\ ~s3Closed /\ parts \o part = <<>>
  /\ s3Closed' = TRUE
  /\ EndSegment
  /\ UNCHANGED <<writerVars, part, parts, counted, storeVars, now, crashed>>

AbortEmptyUpload ==
  /\ pc = "closeS3" /\ ~s3Closed /\ parts \o part = <<>>
  /\ s3Closed' = TRUE
  /\ \/ uploads' = [uploads EXCEPT ![segmentIndex] = "aborted"]
     \/ faults /\ UNCHANGED uploads
  /\ EndSegment
  /\ UNCHANGED <<writerVars, part, parts, counted, objects, faults, now, crashed>>

UploadFails ==
  /\ pc = "closeS3" /\ ~s3Closed /\ faults
  /\ s3Closed' = TRUE
  /\ \/ /\ part # <<>>            \* the last part: the upload is aborted, if that succeeds
        /\ \E u \in {"open", "aborted"} : uploads' = [uploads EXCEPT ![segmentIndex] = u]
        /\ part' = <<>>
        /\ UNCHANGED <<objects, parts>>
     \/ /\ parts \o part # <<>>   \* its completion, with or without effect
        /\ parts' = parts \o part /\ part' = <<>>
        /\ \/ UNCHANGED <<objects, uploads>>
           \/ /\ objects' = [objects EXCEPT ![segmentIndex] = parts \o part]
              /\ uploads' = [uploads EXCEPT ![segmentIndex] = "completed"]
  /\ CloseFailed
  /\ UNCHANGED <<writerVars, counted, faults, now, crashed>>

(* A retry after UploadFails: the writer is closed already and Close        *)
(* reports success.                                                         *)
CloseAgain ==
  /\ pc = "closeS3" /\ s3Closed
  /\ EndSegment
  /\ UNCHANGED <<writerVars, uploadVars, storeVars, now, crashed>>

(* startNewSegment: the index is consumed even when the upload cannot be    *)
(* created.                                                                 *)
NextSegment == segmentIndex + 1

NewS3StreamWriter ==
  /\ uploads' = [uploads EXCEPT ![NextSegment] = "open"]
  /\ part' = <<>> /\ parts' = <<>> /\ s3Closed' = FALSE /\ counted' = 0

(* Its goroutine flushLoop has started.                                     *)
NewRtpWriter == buffer' = <<>> /\ rtpClosed' = FALSE

StartSegment ==
  /\ pc = "start"
  /\ NextSegment <= MaxSegments
  /\ segmentIndex' = NextSegment
  /\ \/ /\ open' = TRUE
        /\ segmentStart' = op.at /\ segmentBytes' = 0 /\ segmentPackets' = 0
        /\ segments' = Append(segments, NewSegment(NextSegment, op.at))
        /\ NewS3StreamWriter /\ NewRtpWriter
        /\ IF op.kind = "write" THEN pc' = "append" /\ UNCHANGED op ELSE Return
     \/ /\ faults
        /\ Return
        /\ UNCHANGED <<open, segmentStart, segmentBytes, segmentPackets, segments, uploads,
                       writerVars, uploadVars>>
  /\ UNCHANGED <<closed, packetCount, objects, faults, now, crashed>>

-----------------------------------------------------------------------------
(* Time passes between calls; a call is short compared with its unit.       *)
Tick ==
  /\ pc = "idle" /\ now < MaxTime /\ ~crashed
  /\ now' = now + 1
  /\ UNCHANGED <<trackVars, writerVars, uploadVars, storeVars, callVars, crashed>>

Step == \/ AppendPacket \/ CloseRtp \/ SkipClose \/ CompleteUpload \/ AbortEmptyUpload
        \/ UploadFails \/ CloseAgain \/ StartSegment

Next ==
  \/ WritePacket
  \/ \E t \in Times : RotateAt(t) \/ CloseAt(t)
  \/ Step
  \/ FlushTick
  \/ Tick

Spec == Init /\ [][Next]_vars
-----------------------------------------------------------------------------
(* Properties                                                               *)

(* Every variable has its type.                                             *)
TypeOK ==
  /\ closed \in BOOLEAN /\ open \in BOOLEAN /\ crashed \in BOOLEAN /\ faults \in BOOLEAN
  /\ rtpClosed \in BOOLEAN /\ s3Closed \in BOOLEAN
  /\ segments \in Seq(SegmentInfo) /\ segments # <<>>
  /\ segmentIndex \in Indexes
  /\ segmentStart \in Times /\ now \in Times
  /\ segmentBytes \in Nat /\ segmentPackets \in Nat /\ counted \in Nat
  /\ packetCount \in 0..MaxPackets
  /\ buffer \in Seq(Items) /\ part \in Seq(Items) /\ parts \in Seq(Items)
  /\ objects \in [Indexes -> Seq(Items)]
  /\ uploads \in [Indexes -> {"none", "open", "completed", "aborted"}]
  /\ op \in Operations
  /\ pc \in {"idle", "append", "closeRtp", "closeS3", "start"}

Newest == Len(segments)
Ended(k) == segments[k].end # NoTime

(* The packets counted in the segments of a list and c more.                *)
TotalPackets(list, c) == FoldSeq(LAMBDA s, n : s.packets + n, c, list)

(* What the objects of all segments hold, and what of the current segment   *)
(* is still in one of the two buffers or in a part not yet completed.       *)
Stored == FlattenSeq(objects)
Pending == IF s3Closed THEN <<>> ELSE parts \o part \o buffer

(* Every packet accepted is counted in exactly one segment, failed closes,  *)
(* retries and failed starts included.  With a reliable store none is lost, *)
(* duplicated or reordered: the objects of the segments followed by what is *)
(* still pending are the packets WritePacket accepted, at every step of     *)
(* every rotation and whenever the flush goroutine runs.                    *)
Conservation ==
  /\ TotalPackets(segments, IF Ended(Newest) THEN 0 ELSE segmentPackets) = packetCount
  /\ ~faults => PacketsOf(Stored \o Pending) = [n \in 1..packetCount |-> n]

(* Once the track is closed, with a reliable store, no multipart upload is  *)
(* left open: segments with data are completed, empty ones aborted.         *)
UploadsSettled ==
  ~faults /\ closed /\ pc = "idle" =>
    \A k \in 1..Newest :
      uploads[segments[k].index] = IF segments[k].packets > 0 THEN "completed" ELSE "aborted"

(* With a reliable store, the byte count that closeSegmentAt copies from    *)
(* the countingWriteCloser and the packet count it copies from              *)
(* segmentPackets are those of the object of the segment.                   *)
CountsMatchObjects ==
  ~faults => \A k \in 1..Newest : Ended(k) =>
    LET object == objects[segments[k].index] IN
    /\ segments[k].packets = Len(PacketsOf(object))
    /\ segments[k].bytes = Bytes(object)

(* Every object that starts with the file header is read back as the        *)
(* packets it was given, up to the first one too long for its length field, *)
(* although flushes, part uploads, their failures and retries have cut it   *)
(* anywhere; with a reliable store every object does start with the header. *)
ObjectsReadable ==
  \A i \in Indexes : objects[i] # NoObject =>
    /\ ~faults => ReadHeader(File(objects[i]))
    /\ ReadHeader(File(objects[i])) => ReadsBack(objects[i])

(* The track keeps the contract of TrackContract: packets are stored once,  *)
(* in order and in the segment that accepted them, nothing replaces an      *)
(* object, and only a failing store loses any.                              *)
Contract == INSTANCE TrackContract WITH
  lossy <- faults, accepted <- packetCount, current <- segmentIndex,
  first <- packetCount - segmentPackets + 1,
  stored <- [i \in Indexes |-> PacketsOf(objects[i])]
ImplementsTrackContract == Contract!Spec

(* With a reliable store the segments follow each other in time: each one   *)
(* but the last, whose end CloseAt takes from its caller, ends no earlier   *)
(* than it starts and no later than the next one starts, however rotations  *)
(* by age, by size and at boundaries in the past interleave.  (When a       *)
(* rotation fails after the close, the next boundary may lie before it.)    *)
SegmentsInOrder ==
  ~faults => \A k \in 1..Newest - 1 :
    /\ Ended(k)
    /\ segments[k].start <= segments[k].end
    /\ segments[k].end <= segments[k + 1].start
    /\ segments[k].index < segments[k + 1].index

-----------------------------------------------------------------------------
(* Statements of the documentation that the code does not keep              *)

(* A failing store costs parts of tracks, not the service                   *)
(* (docs/ARCHITECTURE-PLAN.md: "Failure modes: Graceful (partial tracks)"). *)
FailuresAreGraceful == ~crashed

(* A segment that was ended has its data in its .rtp object                 *)
(* (docs/RECORDING-SERVICE.md: "finalizes the track data (writes the .rtp   *)
(* file)").                                                                 *)
EndedSegmentsAreStored ==
  \A k \in 1..Newest :
    Ended(k) /\ segments[k].packets > 0 => objects[segments[k].index] # NoObject
=============================================================================
