------------------------ MODULE RoomRecordingProofs ------------------------
(***************************************************************************)
(* Proofs about RoomRecording for any set of goroutines, producers and     *)
(* peers and any bounds.  The inductive invariant has layers:              *)
(* FinalizerInv says who may be inside Stop, CatalogueInv relates the      *)
(* tracks, their writers and what has been published about them,           *)
(* WritingInv what packets and the last steps of Stop rely on; beside      *)
(* them, SnapshotInv relates tracks and peers to the timeline.             *)
(***************************************************************************)
EXTENDS RoomRecording, FiniteSetTheorems, SequenceTheorems, TLAPS

(* Only the goroutine that claimed the status is inside Stop, and it still  *)
(* sees a prefix of the timeline when it writes its event back.             *)
FinalizerInv ==
  /\ TypeOK
  /\ OneFinalizer
  /\ \A q \in Threads : pc[q] = "appending" => seen[q] <= Len(timeline)

(* Has q, inside Stop, closed the tracks?                                   *)
Drained(q) == \/ pc[q] \in {"closed", "finalizing", "marking", "completing", "failing"}
              \/ pc[q] \in DocumentLabels /\ doc[q].status = "completed"

(* Does anything rely on the catalogue being final?                         *)
Sealed == \/ ".completed" \in markers
          \/ metadata.status = "completed"
          \/ status \in {"completed", "failed"}
          \/ \E q \in Threads : Drained(q)

(* The writer a producer holds is open and not catalogued, no two producers *)
(* share one, and the writers not yet opened are those above `created'.     *)
WritersInv ==
  /\ \A p \in Producers : HasTrack(p) =>
       /\ writer[tracks[p]] = "open"
       /\ \A p2 \in Producers : tracks[p2] = tracks[p] => p2 = p
  /\ \A w \in Writers :
       /\ writer[w] = "open" => \E p \in Producers : tracks[p] = w
       /\ writer[w] = "none" <=> w > created
       /\ w \in completedTracks => writer[w] \in {"closed", "broken"}
       /\ writer[w] = "closed" => w \in completedTracks /\ reported[w] = packets[w]

(* Once something relies on the catalogue no track is open and none can be  *)
(* added.                                                                   *)
SealedInv == Sealed => /\ status # "recording"
                       /\ \A p \in Producers : ~HasTrack(p)

(* The documents that say "completed" list the catalogue.                   *)
IsCatalogue(d) == d.tracks = completedTracks
DocumentsInv ==
  /\ metadata.status = "completed" =>
       IsCatalogue(metadata) /\ metadata.count = Cardinality(completedTracks)
  /\ \A q \in Threads :
       pc[q] \in DocumentLabels /\ doc[q].status = "completed" =>
         /\ IsCatalogue(doc[q])
         /\ pc[q] # "copied" => doc[q].count = Cardinality(completedTracks)

CatalogueInv == WritersInv /\ SealedInv /\ DocumentsInv

(* A goroutine inside WritePacket has looked a writer up; one that is about *)
(* to report success has created the .completed object.                     *)
WritingInv == \A q \in Threads : /\ pc[q] = "writing" => cur[q] \in Writers
                                 /\ pc[q] = "completing" => ".completed" \in markers

IInv == FinalizerInv /\ CatalogueInv /\ WritingInv
-----------------------------------------------------------------------------
(* Types of the pieces the actions are made of.                             *)

LEMMA CountType ==
  ASSUME TypeOK
  PROVE  /\ IsFiniteSet(Writers)
         /\ IsFiniteSet(ActiveWriters)
         /\ Cardinality(completedTracks) \in Nat
         /\ TrackCount \in Nat
<1>1. IsFiniteSet(Writers)
  BY FS_Interval, MaxTracksAssumption DEF Writers
<1>2. ActiveWriters \subseteq Writers /\ completedTracks \subseteq Writers
  BY DEF TypeOK, ActiveWriters
<1>3. Cardinality(ActiveWriters) \in Nat /\ Cardinality(completedTracks) \in Nat
      /\ IsFiniteSet(ActiveWriters)
  BY <1>1, <1>2, FS_Subset, FS_CardinalityType
<1> QED
  BY <1>1, <1>3 DEF TrackCount

LEMMA DocumentType ==
  /\ NoDocument \in Documents /\ NoDocument.status = "absent"
  /\ \A d \in Documents, n \in Nat :
       /\ [d EXCEPT !.count = n] \in Documents
       /\ [d EXCEPT !.count = n].status = d.status
       /\ [d EXCEPT !.count = n].tracks = d.tracks
       /\ [d EXCEPT !.count = n].count = n
BY DEF NoDocument, Documents

LEMMA NextWriter ==
  ASSUME TypeOK, created < MaxTracks
  PROVE  created + 1 \in Writers /\ created + 1 # NoWriter /\ created + 1 \in 0..MaxTracks
BY MaxTracksAssumption DEF TypeOK, Writers, NoWriter

LEMMA HeldWriter ==
  ASSUME TypeOK, NEW p \in Producers, HasTrack(p)
  PROVE  tracks[p] \in Writers /\ packets[tracks[p]] \in Nat
BY DEF TypeOK, HasTrack

LEMMA EventType ==
  /\ \A type \in EventTypes, w \in Writers \cup {NoWriter} : Event(type, w) \in Events
  /\ \A type \in EventTypes, u \in Peers : Event(type, u) \in Events
BY DEF Event, Events

LEMMA AppendEventType ==
  ASSUME TypeOK, NEW e \in Events, AppendEvent(e)
  PROVE  timeline' \in Seq(Events) /\ Len(timeline') = Len(timeline) + 1 /\ lost' = lost
BY AppendProperties DEF TypeOK, AppendEvent

(* What the unlocked append can leave behind.                               *)
LEMMA RacyAppendType ==
  ASSUME TypeOK, NEW n \in Nat, n <= Len(timeline), NEW e \in Events,
         NEW t \in RacyAppends(n, e)
  PROVE  t \in Seq(Events) /\ Len(t) \in Nat /\ Len(t) <= Len(timeline) + 1
<1>0. timeline \in Seq(Events) /\ Len(timeline) \in Nat
  BY LenProperties DEF TypeOK
<1>1. CASE t = Append(SubSeq(timeline, 1, n), e)
  <2>1. SubSeq(timeline, 1, n) \in Seq(Events) /\ Len(SubSeq(timeline, 1, n)) = n
    <3>1. \A i \in 1..n : timeline[i] \in Events
      BY <1>0, ElementOfSeq
    <3> QED BY <3>1, SubSeqProperties
  <2> QED BY <1>0, <1>1, <2>1, AppendProperties
<1>2. CASE Len(timeline) > n /\ t = timeline
  BY <1>0, <1>2
<1>3. CASE Len(timeline) > n /\ t = [timeline EXCEPT ![n + 1] = e]
  <2>1. n + 1 \in 1..Len(timeline)
    BY <1>0, <1>3
  <2> QED BY <1>0, <1>3, <2>1, ExceptSeq
<1> QED
  BY <1>1, <1>2, <1>3 DEF RacyAppends

-----------------------------------------------------------------------------
(* The first layer: types, and who may be inside Stop.                      *)

LEMMA FinalizerInit == Init => FinalizerInv
<1> SUFFICES ASSUME Init PROVE FinalizerInv
  OBVIOUS
<1>1. <<Event("recording_started", NoWriter)>> \in Seq(Events)
  BY EventType DEF EventTypes
<1>2. <<>> \in Seq(Events) /\ 0 \in 0..MaxTracks
  BY MaxTracksAssumption
<1>3. TypeOK
  BY <1>1, <1>2, DocumentType DEF Init, TypeOK
<1> QED
  BY <1>3 DEF Init, FinalizerInv, OneFinalizer, Stopping, StopLabels, DocumentLabels

LEMMA FinalizerNext == FinalizerInv /\ [Next]_vars => FinalizerInv'
<1> SUFFICES ASSUME FinalizerInv, [Next]_vars PROVE FinalizerInv'
  OBVIOUS
<1> USE DEF FinalizerInv
<1>1. CASE UNCHANGED vars
  BY <1>1 DEF vars, roomVars, writerVars, timelineVars, storeVars, threadVars,
     TypeOK, OneFinalizer, Stopping
<1>2. ASSUME NEW q \in Threads, NEW p \in Producers, AddTrack(q, p)
      PROVE  FinalizerInv'
  <2>1. timeline' \in Seq(Events) /\ Len(timeline') = Len(timeline) + 1 /\ lost' = lost
    BY <1>2, AppendEventType, EventType, NextWriter DEF AddTrack, EventTypes
  <2>2. TypeOK'
    BY <1>2, <2>1, NextWriter DEF AddTrack, TypeOK, roomVars, writerVars, timelineVars, storeVars, threadVars
  <2> QED
    BY <1>2, <2>1, <2>2, LenProperties DEF AddTrack, TypeOK, OneFinalizer, Stopping, roomVars, writerVars, timelineVars, storeVars, threadVars
<1>3. ASSUME NEW q \in Threads, NEW p \in Producers, AddTrackNotOpened(q, p)
      PROVE  FinalizerInv'
  <2>1. timeline' \in Seq(Events) /\ Len(timeline') = Len(timeline) + 1 /\ lost' = lost
    BY <1>3, AppendEventType, EventType DEF AddTrackNotOpened, EventTypes
  <2>2. TypeOK'
    BY <1>3, <2>1 DEF AddTrackNotOpened, TypeOK, roomVars, writerVars, timelineVars, storeVars, threadVars
  <2> QED
    BY <1>3, <2>1, <2>2, LenProperties DEF AddTrackNotOpened, TypeOK, OneFinalizer, Stopping, roomVars, writerVars, timelineVars, storeVars, threadVars
<1>4. ASSUME NEW q \in Threads, NEW p \in Producers, RemoveTrack(q, p)
      PROVE  FinalizerInv'
  <2>1. timeline' \in Seq(Events) /\ Len(timeline') = Len(timeline) + 1 /\ lost' = lost
    BY <1>4, AppendEventType, EventType, HeldWriter DEF RemoveTrack, EventTypes
  <2>0. /\ tracks[p] \in Writers
        /\ writer' \in [Writers -> {"none", "open", "closed", "broken"}]
        /\ reported' \in [Writers -> Nat]
    <3>1. tracks[p] \in Writers /\ packets[tracks[p]] \in Nat
      BY <1>4, HeldWriter DEF RemoveTrack
    <3>2. \A n \in 0..packets[tracks[p]] : [reported EXCEPT ![tracks[p]] = n] \in [Writers -> Nat]
      BY <3>1 DEF TypeOK
    <3>3. packets[tracks[p]] \in 0..packets[tracks[p]]
      BY <3>1
    <3>4. reported' \in [Writers -> Nat]
      BY <1>4, <3>2, <3>3 DEF RemoveTrack
    <3>5. writer' \in [Writers -> {"none", "open", "closed", "broken"}]
      BY <1>4, <3>1 DEF RemoveTrack, TypeOK
    <3> QED
      BY <3>1, <3>4, <3>5
  <2>2. TypeOK'
    BY <1>4, <2>0, <2>1 DEF RemoveTrack, TypeOK, roomVars, writerVars, timelineVars, storeVars, threadVars
  <2> QED
    BY <1>4, <2>1, <2>2, LenProperties DEF RemoveTrack, TypeOK, OneFinalizer, Stopping, roomVars, writerVars, timelineVars, storeVars, threadVars
<1>5. ASSUME NEW q \in Threads, NEW p \in Producers, RemoveUnknownTrack(q, p)
      PROVE  FinalizerInv'
  <2>1. timeline' \in Seq(Events) /\ Len(timeline') = Len(timeline) + 1 /\ lost' = lost
    BY <1>5, AppendEventType, EventType DEF RemoveUnknownTrack, EventTypes
  <2>2. TypeOK'
    BY <1>5, <2>1 DEF RemoveUnknownTrack, TypeOK, roomVars, writerVars, timelineVars, storeVars, threadVars
  <2> QED
    BY <1>5, <2>1, <2>2, LenProperties DEF RemoveUnknownTrack, TypeOK, OneFinalizer, Stopping, roomVars, writerVars, timelineVars, storeVars, threadVars
<1>6. ASSUME NEW q \in Threads, NEW p \in Peers, AddParticipant(q, p)
      PROVE  FinalizerInv'
  <2>1. timeline' \in Seq(Events) /\ Len(timeline') = Len(timeline) + 1 /\ lost' = lost
    BY <1>6, AppendEventType, EventType DEF AddParticipant, EventTypes
  <2>2. TypeOK'
    BY <1>6, <2>1 DEF AddParticipant, TypeOK, roomVars, writerVars, timelineVars, storeVars, threadVars
  <2> QED
    BY <1>6, <2>1, <2>2, LenProperties DEF AddParticipant, TypeOK, OneFinalizer, Stopping, roomVars, writerVars, timelineVars, storeVars, threadVars
<1>7. ASSUME NEW q \in Threads, NEW p \in Peers, RemoveParticipant(q, p)
      PROVE  FinalizerInv'
  <2>1. timeline' \in Seq(Events) /\ Len(timeline') = Len(timeline) + 1 /\ lost' = lost
    BY <1>7, AppendEventType, EventType DEF RemoveParticipant, EventTypes
  <2>2. TypeOK'
    BY <1>7, <2>1 DEF RemoveParticipant, TypeOK, roomVars, writerVars, timelineVars, storeVars, threadVars
  <2> QED
    BY <1>7, <2>1, <2>2, LenProperties DEF RemoveParticipant, TypeOK, OneFinalizer, Stopping, roomVars, writerVars, timelineVars, storeVars, threadVars
<1>8. ASSUME NEW q \in Threads, NEW p \in Peers, RecordActivity(q, p)
      PROVE  FinalizerInv'
  <2>1. timeline' \in Seq(Events) /\ Len(timeline') = Len(timeline) + 1 /\ lost' = lost
    BY <1>8, AppendEventType, EventType DEF RecordActivity, EventTypes
  <2>2. TypeOK'
    BY <1>8, <2>1 DEF RecordActivity, TypeOK, roomVars, writerVars, timelineVars, storeVars, threadVars
  <2> QED
    BY <1>8, <2>1, <2>2, LenProperties DEF RecordActivity, TypeOK, OneFinalizer, Stopping, roomVars, writerVars, timelineVars, storeVars, threadVars
<1>9. ASSUME NEW q \in Threads, NEW p \in Producers, LookupTrack(q, p)
      PROVE  FinalizerInv'
  <2>1. TypeOK'
    BY <1>9 DEF LookupTrack, Recording, HasTrack, Goto, TypeOK, roomVars, writerVars, timelineVars, storeVars, threadVars,
       StopLabels, DocumentLabels
  <2>2. OneFinalizer'
    BY <1>9 DEF LookupTrack, Recording, HasTrack, Goto, TypeOK, OneFinalizer, Stopping,
       StopLabels, DocumentLabels, roomVars, writerVars, timelineVars, storeVars, threadVars
  <2> QED
    BY <1>9, <2>1, <2>2 DEF LookupTrack, Recording, HasTrack, Goto, TypeOK, roomVars, writerVars, timelineVars, storeVars, threadVars
<1>10. ASSUME NEW q \in Threads, WriteToTrack(q)
      PROVE  FinalizerInv'
  <2>1. TypeOK'
    BY <1>10 DEF WriteToTrack, Accepts, Goto, TypeOK, roomVars, writerVars, timelineVars, storeVars, threadVars,
       StopLabels, DocumentLabels
  <2>2. OneFinalizer'
    BY <1>10 DEF WriteToTrack, Accepts, Goto, TypeOK, OneFinalizer, Stopping,
       StopLabels, DocumentLabels, roomVars, writerVars, timelineVars, storeVars, threadVars
  <2> QED
    BY <1>10, <2>1, <2>2 DEF WriteToTrack, Accepts, Goto, TypeOK, roomVars, writerVars, timelineVars, storeVars, threadVars
<1>11. ASSUME NEW q \in Threads, Snapshot(q)
      PROVE  FinalizerInv'
  <2>1. TypeOK'
    BY <1>11 DEF Snapshot, CopyMetadata, ActiveWriters, Documents, Goto, TypeOK, roomVars, writerVars, timelineVars, storeVars, threadVars,
       StopLabels, DocumentLabels
  <2>2. OneFinalizer'
    BY <1>11 DEF Snapshot, CopyMetadata, ActiveWriters, Documents, Goto, TypeOK, OneFinalizer, Stopping,
       StopLabels, DocumentLabels, roomVars, writerVars, timelineVars, storeVars, threadVars
  <2> QED
    BY <1>11, <2>1, <2>2 DEF Snapshot, CopyMetadata, ActiveWriters, Documents, Goto, TypeOK, roomVars, writerVars, timelineVars, storeVars, threadVars
<1>12. ASSUME NEW q \in Threads, CountTracks(q)
      PROVE  FinalizerInv'
  <2>1. /\ doc' \in [Threads -> Documents]
        /\ doc'[q].status \in {doc[q].status, "absent"}
        /\ \A r \in Threads \ {q} : doc'[r] = doc[r]
    <3>1. CASE LeaveSnapshot(q)
      BY <3>1, DocumentType DEF LeaveSnapshot, TypeOK
    <3>2. CASE doc' = [doc EXCEPT ![q] = [doc[q] EXCEPT !.count = TrackCount]]
      BY <3>2, CountType, DocumentType DEF TypeOK
    <3> QED
      BY <1>12, <3>1, <3>2 DEF CountTracks
  <2>2. TypeOK'
    BY <1>12, <2>1 DEF CountTracks, LeaveSnapshot, Refused, Goto, TypeOK, roomVars, writerVars, timelineVars,
       storeVars, threadVars, StopLabels, DocumentLabels
  <2>3. ASSUME NEW r \in Threads, Stopping(r)' PROVE Stopping(r)
    BY <1>12, <2>1, <2>3 DEF CountTracks, LeaveSnapshot, Refused, Goto, TypeOK, Stopping,
       StopLabels, DocumentLabels
  <2>4. OneFinalizer'
    BY <1>12, <2>3 DEF CountTracks, OneFinalizer, roomVars
  <2> QED
    BY <1>12, <2>2, <2>4 DEF CountTracks, LeaveSnapshot, Refused, Goto, TypeOK, timelineVars
<1>13. ASSUME NEW q \in Threads, PutMetadata(q)
      PROVE  FinalizerInv'
  <2>1. /\ doc' \in [Threads -> Documents]
        /\ doc'[q].status \in {doc[q].status, "absent"}
        /\ \A r \in Threads \ {q} : doc'[r] = doc[r]
    <3>1. CASE LeaveSnapshot(q)
      BY <3>1, DocumentType DEF LeaveSnapshot, TypeOK
    <3>2. CASE UNCHANGED doc
      BY <3>2 DEF TypeOK
    <3> QED
      BY <1>13, <3>1, <3>2 DEF PutMetadata
  <2>2. TypeOK'
    <3>1. pc' \in [Threads -> {"idle", "writing"} \cup StopLabels \cup DocumentLabels]
      BY <1>13 DEF PutMetadata, LeaveSnapshot, Goto, TypeOK, StopLabels, DocumentLabels
    <3>2. metadata' \in Documents
      BY <1>13 DEF PutMetadata, TypeOK
    <3> QED
      BY <1>13, <2>1, <3>1, <3>2 DEF PutMetadata, TypeOK, roomVars, writerVars, timelineVars, storeVars
  <2>3. ASSUME NEW r \in Threads, Stopping(r)' PROVE Stopping(r)
    BY <1>13, <2>1, <2>3 DEF PutMetadata, LeaveSnapshot, Goto, TypeOK, Stopping,
       StopLabels, DocumentLabels
  <2>4. OneFinalizer'
    BY <1>13, <2>3 DEF PutMetadata, OneFinalizer, roomVars
  <2> QED
    BY <1>13, <2>2, <2>4 DEF PutMetadata, LeaveSnapshot, Goto, TypeOK, timelineVars
<1>14. ASSUME NEW q \in Threads, CopyTimeline(q)
      PROVE  FinalizerInv'
  <2>1. /\ doc' \in [Threads -> Documents]
        /\ doc'[q].status \in {doc[q].status, "absent"}
        /\ \A r \in Threads \ {q} : doc'[r] = doc[r]
    <3>1. CASE LeaveSnapshot(q)
      BY <3>1, DocumentType DEF LeaveSnapshot, TypeOK
    <3>2. CASE UNCHANGED doc
      BY <3>2 DEF TypeOK
    <3> QED
      BY <1>14, <3>1, <3>2 DEF CopyTimeline
  <2>2. TypeOK'
    <3>1. pc' \in [Threads -> {"idle", "writing"} \cup StopLabels \cup DocumentLabels]
      BY <1>14 DEF CopyTimeline, LeaveSnapshot, Goto, TypeOK, StopLabels, DocumentLabels
    <3>2. events' \in [Threads -> Seq(Events)]
      BY <1>14 DEF CopyTimeline, TimelineSnapshot, TypeOK
    <3> QED
      BY <1>14, <2>1, <3>1, <3>2 DEF CopyTimeline, TypeOK, roomVars, writerVars, timelineVars, storeVars
  <2>3. ASSUME NEW r \in Threads, Stopping(r)' PROVE Stopping(r)
    BY <1>14, <2>1, <2>3 DEF CopyTimeline, LeaveSnapshot, Refused, TimelineSnapshot, Goto, TypeOK, Stopping,
       StopLabels, DocumentLabels
  <2>4. OneFinalizer'
    BY <1>14, <2>3 DEF CopyTimeline, OneFinalizer, roomVars
  <2> QED
    BY <1>14, <2>2, <2>4 DEF CopyTimeline, LeaveSnapshot, Refused, TimelineSnapshot, Goto, TypeOK, timelineVars
<1>15. ASSUME NEW q \in Threads, PutTimeline(q)
      PROVE  FinalizerInv'
  <2>0. events' \in [Threads -> Seq(Events)]
    <3>1. <<>> \in Seq(Events)
      OBVIOUS
    <3> QED
      BY <1>15, <3>1 DEF PutTimeline, TypeOK
  <2>1. /\ doc' \in [Threads -> Documents]
        /\ doc'[q].status \in {doc[q].status, "absent"}
        /\ \A r \in Threads \ {q} : doc'[r] = doc[r]
    <3>1. CASE LeaveSnapshot(q)
      BY <3>1, DocumentType DEF LeaveSnapshot, TypeOK
    <3>2. CASE UNCHANGED doc
      BY <3>2 DEF TypeOK
    <3> QED
      BY <1>15, <3>1, <3>2 DEF PutTimeline
  <2>2. TypeOK'
    <3>1. pc' \in [Threads -> {"idle", "writing"} \cup StopLabels \cup DocumentLabels]
      BY <1>15 DEF PutTimeline, LeaveSnapshot, Goto, TypeOK, StopLabels, DocumentLabels
    <3>2. timelineObject' \in Seq(Events) /\ events' \in [Threads -> Seq(Events)]
      BY <1>15, <2>0 DEF PutTimeline, TypeOK
    <3> QED
      BY <1>15, <2>1, <3>1, <3>2 DEF PutTimeline, TypeOK, roomVars, writerVars, timelineVars, storeVars
  <2>3. ASSUME NEW r \in Threads, Stopping(r)' PROVE Stopping(r)
    BY <1>15, <2>1, <2>3 DEF PutTimeline, LeaveSnapshot, Goto, TypeOK, Stopping,
       StopLabels, DocumentLabels
  <2>4. OneFinalizer'
    BY <1>15, <2>3 DEF PutTimeline, OneFinalizer, roomVars
  <2> QED
    BY <1>15, <2>2, <2>4 DEF PutTimeline, LeaveSnapshot, Goto, TypeOK, timelineVars
<1>16. ASSUME NEW q \in Threads, ClaimStop(q)
      PROVE  FinalizerInv'
  <2>1. TypeOK'
    BY <1>16 DEF ClaimStop, Recording, Goto, TypeOK, roomVars, writerVars, timelineVars, storeVars, threadVars,
       StopLabels, DocumentLabels
  <2>2. OneFinalizer'
    BY <1>16 DEF ClaimStop, Recording, Goto, TypeOK, OneFinalizer, Stopping,
       StopLabels, DocumentLabels, roomVars, writerVars, timelineVars, storeVars, threadVars
  <2> QED
    BY <1>16, <2>1, <2>2 DEF ClaimStop, Recording, Goto, TypeOK, roomVars, writerVars, timelineVars, storeVars, threadVars
<1>17. ASSUME NEW q \in Threads, LoadTimeline(q)
      PROVE  FinalizerInv'
  <2>1. TypeOK'
    BY <1>17, LenProperties DEF LoadTimeline, Goto, TypeOK, roomVars, writerVars, timelineVars, storeVars, threadVars,
       StopLabels, DocumentLabels
  <2>2. OneFinalizer'
    BY <1>17, LenProperties DEF LoadTimeline, Goto, TypeOK, OneFinalizer, Stopping,
       StopLabels, DocumentLabels, roomVars, writerVars, timelineVars, storeVars, threadVars
  <2> QED
    BY <1>17, <2>1, <2>2, LenProperties DEF LoadTimeline, Goto, TypeOK, roomVars, writerVars, timelineVars, storeVars, threadVars
<1>18. ASSUME NEW q \in Threads, CloseTracks(q)
      PROVE  FinalizerInv'
  <2>1. TypeOK'
    BY <1>18 DEF CloseTracks, ActiveWriters, Goto, TypeOK, roomVars, writerVars, timelineVars, storeVars, threadVars,
       StopLabels, DocumentLabels
  <2>2. OneFinalizer'
    BY <1>18 DEF CloseTracks, ActiveWriters, Goto, TypeOK, OneFinalizer, Stopping,
       StopLabels, DocumentLabels, roomVars, writerVars, timelineVars, storeVars, threadVars
  <2> QED
    BY <1>18, <2>1, <2>2 DEF CloseTracks, ActiveWriters, Goto, TypeOK, roomVars, writerVars, timelineVars, storeVars, threadVars
<1>19. ASSUME NEW q \in Threads, WriteCompletedMetadata(q)
      PROVE  FinalizerInv'
  <2>1. TypeOK'
    BY <1>19 DEF WriteCompletedMetadata, CopyMetadata, ActiveWriters, Documents, Goto, TypeOK, roomVars, writerVars, timelineVars, storeVars, threadVars,
       StopLabels, DocumentLabels
  <2>2. OneFinalizer'
    BY <1>19 DEF WriteCompletedMetadata, CopyMetadata, ActiveWriters, Documents, Goto, TypeOK, OneFinalizer, Stopping,
       StopLabels, DocumentLabels, roomVars, writerVars, timelineVars, storeVars, threadVars
  <2> QED
    BY <1>19, <2>1, <2>2 DEF WriteCompletedMetadata, CopyMetadata, ActiveWriters, Documents, Goto, TypeOK, roomVars, writerVars, timelineVars, storeVars, threadVars
<1>20. ASSUME NEW q \in Threads, DeleteRecordingMarker(q)
      PROVE  FinalizerInv'
  <2>1. TypeOK'
    BY <1>20 DEF DeleteRecordingMarker, Goto, TypeOK, roomVars, writerVars, timelineVars, storeVars, threadVars,
       StopLabels, DocumentLabels
  <2>2. OneFinalizer'
    BY <1>20 DEF DeleteRecordingMarker, Goto, TypeOK, OneFinalizer, Stopping,
       StopLabels, DocumentLabels, roomVars, writerVars, timelineVars, storeVars, threadVars
  <2> QED
    BY <1>20, <2>1, <2>2 DEF DeleteRecordingMarker, Goto, TypeOK, roomVars, writerVars, timelineVars, storeVars, threadVars
<1>21. ASSUME NEW q \in Threads, PutCompletedMarker(q)
      PROVE  FinalizerInv'
  <2>1. TypeOK'
    BY <1>21 DEF PutCompletedMarker, Goto, TypeOK, roomVars, writerVars, timelineVars, storeVars, threadVars,
       StopLabels, DocumentLabels
  <2>2. OneFinalizer'
    BY <1>21 DEF PutCompletedMarker, Goto, TypeOK, OneFinalizer, Stopping,
       StopLabels, DocumentLabels, roomVars, writerVars, timelineVars, storeVars, threadVars
  <2> QED
    BY <1>21, <2>1, <2>2 DEF PutCompletedMarker, Goto, TypeOK, roomVars, writerVars, timelineVars, storeVars, threadVars
<1>22. ASSUME NEW q \in Threads, FinishStop(q)
      PROVE  FinalizerInv'
  <2>1. TypeOK'
    BY <1>22, DocumentType DEF FinishStop, Goto, TypeOK, roomVars, writerVars, timelineVars, storeVars, threadVars,
       StopLabels, DocumentLabels
  <2>2. OneFinalizer'
    BY <1>22, DocumentType DEF FinishStop, Goto, TypeOK, OneFinalizer, Stopping,
       StopLabels, DocumentLabels, roomVars, writerVars, timelineVars, storeVars, threadVars
  <2> QED
    BY <1>22, <2>1, <2>2 DEF FinishStop, Goto, TypeOK, roomVars, writerVars, timelineVars, storeVars, threadVars
<1>23. ASSUME NEW q \in Threads, StoreTimeline(q)
      PROVE  FinalizerInv'
  <2>1. /\ timeline' \in Seq(Events) /\ Len(timeline') \in Nat
        /\ Len(timeline') <= Len(timeline) + 1
    BY <1>23, RacyAppendType, EventType DEF StoreTimeline, EventTypes, TypeOK
  <2>2. lost' \in Nat
    BY <1>23, <2>1, LenProperties DEF StoreTimeline, TypeOK
  <2>3. TypeOK'
    BY <1>23, <2>1, <2>2 DEF StoreTimeline, Goto, TypeOK, roomVars, writerVars, timelineVars, storeVars, threadVars,
       StopLabels, DocumentLabels
  <2>4. OneFinalizer'
    BY <1>23 DEF StoreTimeline, Goto, TypeOK, OneFinalizer, Stopping,
       StopLabels, DocumentLabels, roomVars, writerVars, timelineVars, storeVars, threadVars
  <2>5. \A r \in Threads : pc'[r] # "appending"
    BY <1>23 DEF StoreTimeline, Goto, TypeOK, OneFinalizer, Stopping, StopLabels
  <2> QED
    BY <2>3, <2>4, <2>5
<1> QED
  BY <1>1, <1>2, <1>3, <1>4, <1>5, <1>6, <1>7, <1>8, <1>9, <1>10, <1>11, <1>12, <1>13, <1>14, <1>15, <1>16, <1>17, <1>18, <1>19, <1>20, <1>21, <1>22, <1>23 DEF Next, Handle, Continue

-----------------------------------------------------------------------------
(* The second layer: tracks and writers.                                    *)

LEMMA ActiveWriterHeld ==
  ASSUME NEW w \in ActiveWriters
  PROVE  \E p \in Producers : HasTrack(p) /\ tracks[p] = w
BY DEF ActiveWriters, HasTrack

LEMMA NoneActive ==
  ASSUME TypeOK, \A p \in Producers : ~HasTrack(p)
  PROVE  ActiveWriters = {} /\ TrackCount = Cardinality(completedTracks)
<1>1. ActiveWriters = {}
  BY DEF ActiveWriters, HasTrack
<1> QED
  BY <1>1, CountType, FS_EmptySet DEF TrackCount

LEMMA WritersUnchanged ==
  ASSUME WritersInv,
         UNCHANGED <<tracks, created, writer, packets, completedTracks, reported>>
  PROVE  WritersInv'
BY DEF WritersInv, HasTrack

LEMMA WritersNext == FinalizerInv /\ WritersInv /\ [Next]_vars => WritersInv'
<1> SUFFICES ASSUME FinalizerInv, WritersInv, [Next]_vars PROVE WritersInv'
  OBVIOUS
<1>0. TypeOK
  BY DEF FinalizerInv
<1>1. ASSUME NEW q \in Threads, NEW p \in Producers, AddTrack(q, p)
      PROVE  WritersInv'
  <2> DEFINE n == created + 1
  <2>1. /\ n \in Writers /\ n # NoWriter /\ n > created /\ writer[n] = "none"
        /\ ~HasTrack(p)
    BY <1>0, <1>1, NextWriter DEF AddTrack, WritersInv, TypeOK
  <2>2. \A p2 \in Producers : tracks[p2] # n
    BY <2>1 DEF WritersInv, HasTrack
  <2>3. \A p2 \in Producers : HasTrack(p2)' =>
          /\ writer'[tracks'[p2]] = "open"
          /\ \A p3 \in Producers : tracks'[p3] = tracks'[p2] => p3 = p2
    <3> SUFFICES ASSUME NEW p2 \in Producers, HasTrack(p2)'
                 PROVE  /\ writer'[tracks'[p2]] = "open"
                        /\ \A p3 \in Producers : tracks'[p3] = tracks'[p2] => p3 = p2
      OBVIOUS
    <3>1. CASE p2 = p
      BY <1>0, <1>1, <2>1, <2>2, <3>1 DEF AddTrack, TypeOK
    <3>2. CASE p2 # p
      <4>1. HasTrack(p2) /\ tracks'[p2] = tracks[p2]
        BY <1>0, <1>1, <3>2 DEF AddTrack, TypeOK, HasTrack
      <4>2. tracks[p2] \in Writers /\ tracks[p2] # n
        BY <1>0, <2>2, <4>1, HeldWriter
      <4> QED
        BY <1>0, <1>1, <2>1, <2>2, <3>2, <4>1, <4>2 DEF AddTrack, TypeOK, WritersInv
    <3> QED
      BY <3>1, <3>2
  <2>4. ASSUME NEW w \in Writers
        PROVE  /\ writer'[w] = "open" => \E p2 \in Producers : tracks'[p2] = w
               /\ writer'[w] = "none" <=> w > created'
               /\ w \in completedTracks' => writer'[w] \in {"closed", "broken"}
               /\ writer'[w] = "closed" => w \in completedTracks' /\ reported'[w] = packets'[w]
    <3>0. w \in Nat /\ created \in Nat
      BY <1>0 DEF TypeOK, Writers
    <3>1. CASE w = n
      <4>1. /\ writer'[n] = "open" /\ tracks'[p] = n /\ created' = n
            /\ completedTracks' = completedTracks
        BY <1>0, <1>1, <2>1 DEF AddTrack, TypeOK
      <4>2. n \notin completedTracks
        BY <2>1 DEF WritersInv
      <4> QED
        BY <3>0, <3>1, <4>1, <4>2
    <3>2. CASE w # n
      <4>1. /\ writer'[w] = writer[w] /\ reported' = reported /\ packets' = packets
            /\ completedTracks' = completedTracks /\ created' = n
            /\ \A p2 \in Producers : tracks[p2] = w => tracks'[p2] = w
        BY <1>0, <1>1, <2>1, <3>2 DEF AddTrack, TypeOK, HasTrack, Writers, NoWriter
      <4>2. w > created' <=> w > created
        BY <3>0, <3>2, <4>1
      <4> QED
        BY <4>1, <4>2 DEF WritersInv
    <3> QED
      BY <3>1, <3>2
  <2> QED
    BY <2>3, <2>4 DEF WritersInv
<1>2. ASSUME NEW q \in Threads, NEW p \in Producers, RemoveTrack(q, p)
      PROVE  WritersInv'
  <2> DEFINE n == tracks[p]
  <2>1. /\ n \in Writers /\ HasTrack(p) /\ writer[n] = "open"
        /\ \A p2 \in Producers : tracks[p2] = n => p2 = p
    BY <1>0, <1>2, HeldWriter DEF RemoveTrack, WritersInv
  <2>2. /\ tracks'[p] = NoWriter
        /\ \A p2 \in Producers \ {p} : tracks'[p2] = tracks[p2]
        /\ completedTracks' = completedTracks \cup {n}
        /\ created' = created /\ packets' = packets
        /\ \A w \in Writers \ {n} : writer'[w] = writer[w] /\ reported'[w] = reported[w]
    BY <1>0, <1>2, <2>1 DEF RemoveTrack, TypeOK
  <2>3. \/ writer'[n] = "closed" /\ reported'[n] = packets[n]
        \/ writer'[n] = "broken"
    BY <1>0, <1>2, <2>1 DEF RemoveTrack, TypeOK
  <2>4. \A p2 \in Producers : HasTrack(p2)' =>
          /\ writer'[tracks'[p2]] = "open"
          /\ \A p3 \in Producers : tracks'[p3] = tracks'[p2] => p3 = p2
    <3> SUFFICES ASSUME NEW p2 \in Producers, HasTrack(p2)'
                 PROVE  /\ writer'[tracks'[p2]] = "open"
                        /\ \A p3 \in Producers : tracks'[p3] = tracks'[p2] => p3 = p2
      OBVIOUS
    <3>1. p2 # p /\ tracks'[p2] = tracks[p2] /\ HasTrack(p2) /\ tracks[p2] # n
      BY <2>1, <2>2 DEF HasTrack
    <3>2. tracks[p2] \in Writers
      BY <1>0, <3>1, HeldWriter
    <3> QED
      BY <2>2, <3>1, <3>2 DEF WritersInv, HasTrack
  <2>5. ASSUME NEW w \in Writers
        PROVE  /\ writer'[w] = "open" => \E p2 \in Producers : tracks'[p2] = w
               /\ writer'[w] = "none" <=> w > created'
               /\ w \in completedTracks' => writer'[w] \in {"closed", "broken"}
               /\ writer'[w] = "closed" => w \in completedTracks' /\ reported'[w] = packets'[w]
    <3>1. CASE w = n
      BY <2>1, <2>2, <2>3, <3>1 DEF WritersInv
    <3>2. CASE w # n
      BY <2>1, <2>2, <3>2 DEF WritersInv
    <3> QED
      BY <3>1, <3>2
  <2> QED
    BY <2>4, <2>5 DEF WritersInv
<1>3. ASSUME NEW q \in Threads, WriteToTrack(q)
      PROVE  WritersInv'
  <2>1. UNCHANGED <<tracks, created, writer, completedTracks, reported>>
    BY <1>3 DEF WriteToTrack, roomVars
  <2>2. CASE UNCHANGED packets
    BY <2>1, <2>2, WritersUnchanged
  <2>3. CASE Accepts(cur[q]) /\ packets' = [packets EXCEPT ![cur[q]] = @ + 1]
    <3>1. \A w \in Writers : writer[w] = "closed" => packets'[w] = packets[w]
      BY <1>0, <2>3 DEF Accepts, TypeOK
    <3> QED
      BY <2>1, <3>1 DEF WritersInv, HasTrack
  <2> QED
    BY <1>3, <2>2, <2>3 DEF WriteToTrack
<1>4. ASSUME NEW q \in Threads, CloseTracks(q)
      PROVE  WritersInv'
  <2>1. PICK failed \in SUBSET ActiveWriters :
          /\ writer' = [w \in Writers |-> IF w \in failed THEN "broken"
                          ELSE IF w \in ActiveWriters THEN "closed" ELSE writer[w]]
          /\ reported' = [w \in Writers |->
                          IF w \in ActiveWriters \ failed THEN packets[w] ELSE reported[w]]
          /\ completedTracks' = completedTracks \cup (ActiveWriters \ failed)
    BY <1>4 DEF CloseTracks
  <2>2. /\ \A p \in Producers : tracks'[p] = NoWriter
        /\ created' = created /\ packets' = packets
    BY <1>4 DEF CloseTracks
  <2>3. \A w \in Writers : w \in ActiveWriters <=> writer[w] = "open"
    BY ActiveWriterHeld DEF WritersInv, ActiveWriters, HasTrack, Writers, NoWriter
  <2>4. ASSUME NEW w \in Writers
        PROVE  /\ writer'[w] # "open"
               /\ writer'[w] = "none" <=> w > created'
               /\ w \in completedTracks' => writer'[w] \in {"closed", "broken"}
               /\ writer'[w] = "closed" => w \in completedTracks' /\ reported'[w] = packets'[w]
    <3>1. CASE w \in ActiveWriters
      BY <2>1, <2>2, <2>3, <3>1 DEF WritersInv
    <3>2. CASE w \notin ActiveWriters
      BY <2>1, <2>2, <2>3, <3>2 DEF WritersInv
    <3> QED
      BY <3>1, <3>2
  <2> QED
    BY <2>2, <2>4 DEF WritersInv, HasTrack
<1>5. CASE UNCHANGED <<tracks, created, writer, packets, completedTracks, reported>>
  BY <1>5, WritersUnchanged
<1>6. ASSUME NEW q \in Threads, Handle(q) \/ Continue(q)
      PROVE  \/ \E p \in Producers : AddTrack(q, p) \/ RemoveTrack(q, p)
             \/ WriteToTrack(q) \/ CloseTracks(q)
             \/ UNCHANGED <<tracks, created, writer, packets, completedTracks, reported>>
  BY <1>6 DEF Handle, Continue, AddTrackNotOpened, RemoveUnknownTrack, LookupTrack,
     AddParticipant, RemoveParticipant, RecordActivity, Snapshot, ClaimStop, CountTracks,
     PutMetadata, CopyTimeline, PutTimeline, LoadTimeline, StoreTimeline,
     WriteCompletedMetadata, CopyMetadata, DeleteRecordingMarker, PutCompletedMarker,
     FinishStop, roomVars, writerVars
<1>7. CASE UNCHANGED vars
  BY <1>7, WritersUnchanged DEF vars, roomVars, writerVars
<1> QED
  BY <1>1, <1>2, <1>3, <1>4, <1>5, <1>6, <1>7 DEF Next

-----------------------------------------------------------------------------
(* The second layer: what is sealed, and what has been published.           *)

LEMMA DrainedStops ==
  ASSUME NEW q \in Threads, Drained(q)
  PROVE  Stopping(q)
BY DEF Drained, Stopping, StopLabels

(* Steps that neither open nor release a track keep the seal unless they    *)
(* are the ones that make it.                                               *)
LEMMA SealedKept ==
  ASSUME SealedInv, Sealed' => Sealed,
         status' = status \/ status' # "recording", tracks' = tracks
  PROVE  SealedInv'
BY DEF SealedInv, HasTrack

LEMMA SealedNext == FinalizerInv /\ SealedInv /\ [Next]_vars => SealedInv'
<1> SUFFICES ASSUME FinalizerInv, SealedInv, [Next]_vars PROVE SealedInv'
  OBVIOUS
<1>0. TypeOK /\ OneFinalizer
  BY DEF FinalizerInv
<1>1. ASSUME NEW q \in Threads,
             \/ \E p \in Producers : AddTrack(q, p) \/ RemoveTrack(q, p)
             \/ ClaimStop(q)
      PROVE  SealedInv'
  <2>1. ~Sealed
    BY <1>1 DEF SealedInv, AddTrack, RemoveTrack, ClaimStop, Recording
  <2>2. /\ UNCHANGED <<metadata, markers, doc>>
        /\ status' \in {status, "stopping"}
    BY <1>1 DEF AddTrack, RemoveTrack, ClaimStop, storeVars, threadVars
  <2>3. \A r \in Threads : Drained(r)' => Drained(r)
    BY <1>0, <1>1, <2>2 DEF AddTrack, RemoveTrack, ClaimStop, Goto, threadVars, Drained,
       TypeOK, DocumentLabels
  <2>4. ~Sealed'
    BY <2>1, <2>2, <2>3 DEF Sealed
  <2> QED
    BY <2>4 DEF SealedInv
<1>2. ASSUME NEW q \in Threads, CloseTracks(q)
      PROVE  SealedInv'
  <2>1. status' = "stopping"
    BY <1>0, <1>2 DEF CloseTracks, OneFinalizer, Stopping, StopLabels
  <2>2. \A p \in Producers : ~HasTrack(p)'
    BY <1>2 DEF CloseTracks, HasTrack
  <2> QED
    BY <2>1, <2>2 DEF SealedInv
<1>3. ASSUME NEW q \in Threads,
             \/ PutMetadata(q) \/ CountTracks(q) \/ CopyTimeline(q) \/ PutTimeline(q)
             \/ WriteCompletedMetadata(q) \/ DeleteRecordingMarker(q)
             \/ PutCompletedMarker(q) \/ FinishStop(q)
      PROVE  SealedInv'
  <2>1. tracks' = tracks /\ (status' = status \/ status' # "recording")
    BY <1>3 DEF PutMetadata, CountTracks, CopyTimeline, PutTimeline,
       WriteCompletedMetadata, CopyMetadata, DeleteRecordingMarker, PutCompletedMarker,
       FinishStop, roomVars
  <2>2. \A r \in Threads \ {q} : Drained(r)' => Drained(r)
    BY <1>0, <1>3 DEF PutMetadata, CountTracks, CopyTimeline, PutTimeline, LeaveSnapshot,
       WriteCompletedMetadata, CopyMetadata, DeleteRecordingMarker, PutCompletedMarker,
       FinishStop, Goto, Drained, TypeOK
  <2>3. Drained(q)' => Drained(q)
    <3>1. CASE CountTracks(q) \/ PutMetadata(q) \/ CopyTimeline(q) \/ PutTimeline(q)
      <4>1. CASE CountTracks(q)
        <5>1. CASE LeaveSnapshot(q)
          BY <1>0, <5>1 DEF LeaveSnapshot, Goto, Drained, TypeOK, DocumentLabels
        <5>2. CASE doc' = [doc EXCEPT ![q] = [doc[q] EXCEPT !.count = TrackCount]]
          <6>1. doc'[q].status = doc[q].status /\ pc[q] = "copied"
            BY <1>0, <4>1, <5>2, DocumentType, CountType DEF CountTracks, TypeOK
          <6>2. CASE pc' = [pc EXCEPT ![q] = "metadataPut"]
            BY <1>0, <6>1, <6>2 DEF Drained, TypeOK, DocumentLabels
          <6> QED
            BY <4>1, <5>1, <6>2 DEF CountTracks, Goto
        <5> QED
          BY <4>1, <5>1, <5>2 DEF CountTracks
      <4>2. CASE PutMetadata(q)
        BY <1>0, <4>2 DEF PutMetadata, LeaveSnapshot, Goto, Drained, TypeOK, DocumentLabels
      <4>3. CASE CopyTimeline(q)
        BY <1>0, <4>3 DEF CopyTimeline, LeaveSnapshot, Goto, Drained, TypeOK, DocumentLabels
      <4>4. CASE PutTimeline(q)
        BY <1>0, <4>4 DEF PutTimeline, LeaveSnapshot, Goto, Drained, TypeOK, DocumentLabels
      <4> QED
        BY <3>1, <4>1, <4>2, <4>3, <4>4
    <3>2. CASE WriteCompletedMetadata(q) \/ DeleteRecordingMarker(q) \/ PutCompletedMarker(q)
               \/ FinishStop(q)
      BY <3>2 DEF WriteCompletedMetadata, DeleteRecordingMarker, PutCompletedMarker,
         FinishStop, Drained
    <3> QED
      BY <1>3, <3>1, <3>2
  <2>4. ".completed" \in markers' => ".completed" \in markers \/ Drained(q)
    BY <1>3 DEF PutMetadata, CountTracks, CopyTimeline, PutTimeline, storeVars,
       WriteCompletedMetadata, CopyMetadata, DeleteRecordingMarker, PutCompletedMarker,
       FinishStop, Drained
  <2>5. metadata'.status = "completed" => metadata.status = "completed" \/ Drained(q)
    BY <1>3 DEF PutMetadata, CountTracks, CopyTimeline, PutTimeline, storeVars,
       WriteCompletedMetadata, CopyMetadata, DeleteRecordingMarker, PutCompletedMarker,
       FinishStop, Drained, DocumentLabels
  <2>6. status' \in {"completed", "failed"} => status \in {"completed", "failed"} \/ Drained(q)
    BY <1>3 DEF PutMetadata, CountTracks, CopyTimeline, PutTimeline, roomVars,
       WriteCompletedMetadata, CopyMetadata, DeleteRecordingMarker, PutCompletedMarker,
       FinishStop, Drained
  <2> QED
    BY <2>1, <2>2, <2>3, <2>4, <2>5, <2>6, SealedKept DEF Sealed
<1>4. ASSUME NEW q \in Threads, Snapshot(q) \/ LoadTimeline(q) \/ StoreTimeline(q)
                                \/ WriteToTrack(q) \/ \E p \in Producers : LookupTrack(q, p)
      PROVE  SealedInv'
  <2>1. UNCHANGED <<status, tracks, metadata, markers>>
    BY <1>4 DEF Snapshot, CopyMetadata, LoadTimeline, StoreTimeline, WriteToTrack,
       LookupTrack, roomVars, storeVars
  <2>2. \A r \in Threads : Drained(r)' => Drained(r)
    <3>1. CASE Snapshot(q)
      <4>1. doc'[q].status = "recording" /\ pc'[q] = "copied"
        BY <1>0, <3>1 DEF Snapshot, CopyMetadata, Goto, TypeOK
      <4>2. \A r \in Threads \ {q} : doc'[r] = doc[r] /\ pc'[r] = pc[r]
        BY <1>0, <3>1 DEF Snapshot, CopyMetadata, Goto, TypeOK
      <4> QED
        BY <4>1, <4>2 DEF Drained
    <3>2. CASE LoadTimeline(q) \/ StoreTimeline(q)
               \/ WriteToTrack(q) \/ \E p \in Producers : LookupTrack(q, p)
      BY <1>0, <3>2 DEF LoadTimeline, StoreTimeline, WriteToTrack,
         LookupTrack, Goto, Drained, TypeOK, DocumentLabels
    <3> QED
      BY <1>4, <3>1, <3>2
  <2> QED
    BY <2>1, <2>2, SealedKept DEF Sealed
<1>5. CASE UNCHANGED <<status, tracks, metadata, markers, pc, doc>>
  BY <1>5, SealedKept DEF Sealed, Drained
<1>6. ASSUME NEW q \in Threads,
             \/ \E p \in Producers : AddTrackNotOpened(q, p) \/ RemoveUnknownTrack(q, p)
             \/ \E p \in Peers :
                  AddParticipant(q, p) \/ RemoveParticipant(q, p) \/ RecordActivity(q, p)
      PROVE  UNCHANGED <<status, tracks, metadata, markers, pc, doc>>
  BY <1>6 DEF AddTrackNotOpened, RemoveUnknownTrack, AddParticipant, RemoveParticipant,
     RecordActivity, roomVars, storeVars, threadVars
<1>7. CASE UNCHANGED vars
  BY <1>5, <1>7 DEF vars, roomVars, storeVars, threadVars
<1> QED
  BY <1>1, <1>2, <1>3, <1>4, <1>5, <1>6, <1>7 DEF Next, Handle, Continue

LEMMA DocumentsUnchanged ==
  ASSUME DocumentsInv, UNCHANGED <<completedTracks, metadata>>,
         \A r \in Threads : /\ pc'[r] \in DocumentLabels /\ doc'[r].status = "completed"
                            => /\ pc[r] \in DocumentLabels /\ doc[r].status = "completed"
                               /\ doc'[r] = doc[r] /\ (pc'[r] # "copied" => pc[r] # "copied")
  PROVE  DocumentsInv'
BY DEF DocumentsInv, IsCatalogue

LEMMA DocumentsNext ==
  FinalizerInv /\ SealedInv /\ DocumentsInv /\ [Next]_vars => DocumentsInv'
<1> SUFFICES ASSUME FinalizerInv, SealedInv, DocumentsInv, [Next]_vars PROVE DocumentsInv'
  OBVIOUS
<1>0. TypeOK /\ OneFinalizer
  BY DEF FinalizerInv
<1>1. ASSUME NEW q \in Threads, NEW p \in Producers, RemoveTrack(q, p)
      PROVE  DocumentsInv'
  <2>1. ~Sealed
    BY <1>1 DEF SealedInv, RemoveTrack
  <2>2. UNCHANGED <<metadata, doc, pc>>
    BY <1>1 DEF RemoveTrack, storeVars, threadVars
  <2> QED
    BY <2>1, <2>2 DEF DocumentsInv, Sealed, Drained
<1>2. ASSUME NEW q \in Threads, CloseTracks(q)
      PROVE  DocumentsInv'
  <2>1. UNCHANGED <<metadata, doc>> /\ pc[q] = "closing" /\ pc'[q] = "closed"
        /\ \A r \in Threads \ {q} : pc'[r] = pc[r]
    BY <1>0, <1>2 DEF CloseTracks, Goto, TypeOK, storeVars
  <2>2. Stopping(q)
    BY <2>1 DEF Stopping, StopLabels
  <2>3. \A r \in Threads : ~(pc'[r] \in DocumentLabels /\ doc'[r].status = "completed")
    BY <1>0, <2>1, <2>2 DEF OneFinalizer, Stopping, DocumentLabels
  <2>4. metadata.status = "completed" => completedTracks' = completedTracks
    BY <1>0, <1>2, NoneActive DEF CloseTracks, SealedInv, Sealed
  <2> QED
    BY <2>1, <2>3, <2>4 DEF DocumentsInv, IsCatalogue
<1>3. ASSUME NEW q \in Threads, WriteCompletedMetadata(q)
      PROVE  DocumentsInv'
  <2>1. /\ UNCHANGED <<metadata, completedTracks>>
        /\ pc'[q] = "copied"
        /\ doc'[q].tracks = ActiveWriters \cup completedTracks
        /\ \A r \in Threads \ {q} : pc'[r] = pc[r] /\ doc'[r] = doc[r]
    BY <1>0, <1>3 DEF WriteCompletedMetadata, CopyMetadata, Goto, TypeOK, storeVars, roomVars
  <2>2. ActiveWriters = {}
    BY <1>0, <1>3, NoneActive DEF WriteCompletedMetadata, SealedInv, Sealed, Drained
  <2> QED
    BY <2>1, <2>2 DEF DocumentsInv, IsCatalogue
<1>4. ASSUME NEW q \in Threads, CountTracks(q)
      PROVE  DocumentsInv'
  <2>1. /\ UNCHANGED <<metadata, completedTracks>>
        /\ \A r \in Threads \ {q} : pc'[r] = pc[r] /\ doc'[r] = doc[r]
        /\ pc[q] = "copied"
    <3>1. CASE LeaveSnapshot(q)
      BY <1>0, <1>4, <3>1 DEF CountTracks, LeaveSnapshot, Goto, TypeOK, storeVars, roomVars
    <3>2. CASE doc' = [doc EXCEPT ![q] = [doc[q] EXCEPT !.count = TrackCount]]
               /\ Goto(q, "metadataPut")
      BY <1>0, <1>4, <3>2 DEF CountTracks, Goto, TypeOK, storeVars, roomVars
    <3> QED
      BY <1>4, <3>1, <3>2 DEF CountTracks
  <2>2. pc'[q] \in DocumentLabels /\ doc'[q].status = "completed" =>
          /\ IsCatalogue(doc[q]) /\ doc'[q].tracks = doc[q].tracks
          /\ doc'[q].count = Cardinality(completedTracks)
    <3>1. CASE LeaveSnapshot(q)
      BY <1>0, <3>1 DEF LeaveSnapshot, Goto, TypeOK, DocumentLabels
    <3>2. CASE doc' = [doc EXCEPT ![q] = [doc[q] EXCEPT !.count = TrackCount]]
      <4>1. /\ doc'[q].status = doc[q].status /\ doc'[q].tracks = doc[q].tracks
            /\ doc'[q].count = TrackCount
        BY <1>0, <3>2, DocumentType, CountType DEF TypeOK
      <4>2. doc[q].status = "completed" => Sealed
        BY <2>1 DEF Sealed, Drained, DocumentLabels
      <4>3. doc[q].status = "completed" => TrackCount = Cardinality(completedTracks)
        BY <1>0, <4>2, NoneActive DEF SealedInv
      <4>4. doc[q].status = "completed" => IsCatalogue(doc[q])
        BY <2>1 DEF DocumentsInv, DocumentLabels
      <4> QED
        BY <4>1, <4>3, <4>4
    <3> QED
      BY <1>4, <3>1, <3>2 DEF CountTracks
  <2> QED
    BY <2>1, <2>2 DEF DocumentsInv, IsCatalogue
<1>5. ASSUME NEW q \in Threads, PutMetadata(q)
      PROVE  DocumentsInv'
  <2>1. /\ UNCHANGED completedTracks
        /\ \A r \in Threads \ {q} : pc'[r] = pc[r] /\ doc'[r] = doc[r]
        /\ pc[q] = "metadataPut"
        /\ metadata' \in {metadata, doc[q]}
    BY <1>0, <1>5 DEF PutMetadata, LeaveSnapshot, Goto, TypeOK, roomVars
  <2>2. \/ pc'[q] = "idle"
        \/ doc'[q] = doc[q]
    BY <1>0, <1>5 DEF PutMetadata, LeaveSnapshot, Goto, TypeOK
  <2>3. doc[q].status = "completed" =>
          IsCatalogue(doc[q]) /\ doc[q].count = Cardinality(completedTracks)
    BY <2>1 DEF DocumentsInv, DocumentLabels
  <2> QED
    BY <2>1, <2>2, <2>3 DEF DocumentsInv, IsCatalogue, DocumentLabels
<1>6. ASSUME NEW q \in Threads,
             \/ CopyTimeline(q) \/ PutTimeline(q) \/ Snapshot(q) \/ FinishStop(q)
      PROVE  DocumentsInv'
  <2>1. UNCHANGED <<completedTracks, metadata>>
    BY <1>6 DEF CopyTimeline, PutTimeline, Snapshot, CopyMetadata, FinishStop, roomVars,
       storeVars
  <2>2. \A r \in Threads \ {q} : pc'[r] = pc[r] /\ doc'[r] = doc[r]
    BY <1>0, <1>6 DEF CopyTimeline, PutTimeline, Snapshot, CopyMetadata, FinishStop,
       LeaveSnapshot, Goto, TypeOK
  <2>3. \/ pc'[q] \notin DocumentLabels
        \/ doc'[q].status = "recording"
        \/ /\ doc'[q] = doc[q] /\ pc[q] = "metadataDone"
    <3>1. CASE Snapshot(q)
      BY <1>0, <3>1 DEF Snapshot, CopyMetadata, TypeOK
    <3>2. CASE CopyTimeline(q)
      BY <1>0, <3>2 DEF CopyTimeline, LeaveSnapshot, Goto, TypeOK, DocumentLabels
    <3>3. CASE PutTimeline(q) \/ FinishStop(q)
      BY <1>0, <3>3 DEF PutTimeline, FinishStop, LeaveSnapshot, Goto, TypeOK, DocumentLabels
    <3> QED
      BY <1>6, <3>1, <3>2, <3>3
  <2> QED
    BY <2>1, <2>2, <2>3, DocumentsUnchanged DEF DocumentLabels
<1>7. ASSUME NEW q \in Threads,
             \/ \E p \in Producers : LookupTrack(q, p)
             \/ WriteToTrack(q) \/ ClaimStop(q) \/ LoadTimeline(q) \/ StoreTimeline(q)
             \/ DeleteRecordingMarker(q) \/ PutCompletedMarker(q)
      PROVE  DocumentsInv'
  <2>1. UNCHANGED <<completedTracks, metadata, doc>>
    BY <1>7 DEF LookupTrack, WriteToTrack, ClaimStop, LoadTimeline, StoreTimeline,
       DeleteRecordingMarker, PutCompletedMarker, roomVars, storeVars
  <2>2. \A r \in Threads : pc'[r] = pc[r] \/ pc'[r] \notin DocumentLabels
    BY <1>0, <1>7 DEF LookupTrack, WriteToTrack, ClaimStop, LoadTimeline, StoreTimeline,
       DeleteRecordingMarker, PutCompletedMarker, Goto, TypeOK, DocumentLabels
  <2> QED
    BY <2>1, <2>2, DocumentsUnchanged
<1>8. CASE UNCHANGED <<completedTracks, metadata, pc, doc>>
  BY <1>8, DocumentsUnchanged
<1>9. ASSUME NEW q \in Threads,
             \/ \E p \in Producers :
                  AddTrack(q, p) \/ AddTrackNotOpened(q, p) \/ RemoveUnknownTrack(q, p)
             \/ \E p \in Peers :
                  AddParticipant(q, p) \/ RemoveParticipant(q, p) \/ RecordActivity(q, p)
      PROVE  UNCHANGED <<completedTracks, metadata, pc, doc>>
  BY <1>9 DEF AddTrack, AddTrackNotOpened, RemoveUnknownTrack, AddParticipant,
     RemoveParticipant, RecordActivity, roomVars, storeVars, threadVars
<1>10. CASE UNCHANGED vars
  BY <1>8, <1>10 DEF vars, roomVars, storeVars, threadVars
<1> QED
  BY <1>1, <1>2, <1>3, <1>4, <1>5, <1>6, <1>7, <1>8, <1>9, <1>10 DEF Next, Handle, Continue

LEMMA WritingNext == FinalizerInv /\ WritingInv /\ [Next]_vars => WritingInv'
<1> SUFFICES ASSUME TypeOK, WritingInv, [Next]_vars PROVE WritingInv'
  BY DEF FinalizerInv
<1>1. ASSUME NEW q \in Threads, NEW p \in Producers, LookupTrack(q, p)
      PROVE  WritingInv'
  BY <1>1, HeldWriter DEF LookupTrack, Goto, TypeOK, WritingInv, storeVars
<1>2. ASSUME NEW q \in Threads, WriteToTrack(q)
      PROVE  WritingInv'
  BY <1>2 DEF WriteToTrack, Goto, TypeOK, WritingInv, storeVars
<1>3. ASSUME NEW q \in Threads,
             \/ Snapshot(q) \/ CountTracks(q) \/ PutMetadata(q) \/ CopyTimeline(q)
             \/ PutTimeline(q) \/ ClaimStop(q) \/ LoadTimeline(q) \/ StoreTimeline(q)
             \/ CloseTracks(q) \/ WriteCompletedMetadata(q) \/ DeleteRecordingMarker(q)
             \/ PutCompletedMarker(q) \/ FinishStop(q)
      PROVE  WritingInv'
  <2>1. UNCHANGED cur /\ \A r \in Threads \ {q} : pc'[r] = pc[r]
    BY <1>3 DEF Snapshot, CountTracks, PutMetadata, CopyTimeline, PutTimeline, ClaimStop,
       LoadTimeline, StoreTimeline, CloseTracks, WriteCompletedMetadata, CopyMetadata,
       DeleteRecordingMarker, PutCompletedMarker, FinishStop, LeaveSnapshot, Goto, TypeOK
  <2>2. pc'[q] # "writing"
    BY <1>3 DEF Snapshot, CountTracks, PutMetadata, CopyTimeline, PutTimeline, ClaimStop,
       LoadTimeline, StoreTimeline, CloseTracks, WriteCompletedMetadata, CopyMetadata,
       DeleteRecordingMarker, PutCompletedMarker, FinishStop, LeaveSnapshot, Goto, TypeOK
  <2>3. ".completed" \in markers => ".completed" \in markers'
    BY <1>3 DEF Snapshot, CountTracks, PutMetadata, CopyTimeline, PutTimeline, ClaimStop,
       LoadTimeline, StoreTimeline, CloseTracks, WriteCompletedMetadata, CopyMetadata,
       DeleteRecordingMarker, PutCompletedMarker, FinishStop, storeVars
  <2>4. pc'[q] = "completing" => ".completed" \in markers'
    <3>1. CASE PutCompletedMarker(q)
      BY <3>1 DEF PutCompletedMarker, Outcome, Goto, TypeOK
    <3>2. CASE ~PutCompletedMarker(q)
      BY <1>3, <3>2 DEF Snapshot, CountTracks, PutMetadata, CopyTimeline, PutTimeline,
         ClaimStop, LoadTimeline, StoreTimeline, CloseTracks, WriteCompletedMetadata,
         CopyMetadata, DeleteRecordingMarker, FinishStop, LeaveSnapshot, Goto, TypeOK
    <3> QED
      BY <3>1, <3>2
  <2> QED
    BY <2>1, <2>2, <2>3, <2>4 DEF WritingInv
<1>4. CASE UNCHANGED <<pc, cur, markers>>
  BY <1>4 DEF WritingInv
<1>5. ASSUME NEW q \in Threads,
             \/ \E p \in Producers : \/ AddTrack(q, p) \/ AddTrackNotOpened(q, p)
                                     \/ RemoveTrack(q, p) \/ RemoveUnknownTrack(q, p)
             \/ \E p \in Peers :
                  AddParticipant(q, p) \/ RemoveParticipant(q, p) \/ RecordActivity(q, p)
      PROVE  UNCHANGED <<pc, cur, markers>>
  BY <1>5 DEF AddTrack, AddTrackNotOpened, RemoveTrack, RemoveUnknownTrack,
     AddParticipant, RemoveParticipant, RecordActivity, threadVars, storeVars
<1>6. CASE UNCHANGED vars
  BY <1>4, <1>6 DEF vars, threadVars, storeVars
<1> QED
  BY <1>1, <1>2, <1>3, <1>4, <1>5, <1>6 DEF Next, Handle, Continue

-----------------------------------------------------------------------------
(* The theorems.                                                            *)

LEMMA Inductive == Spec => []IInv
<1>1. Init => IInv
  <2> SUFFICES ASSUME Init PROVE IInv
    OBVIOUS
  <2>1. WritersInv
    BY MaxTracksAssumption DEF Init, WritersInv, HasTrack, Writers
  <2>2. SealedInv
    BY DEF Init, SealedInv, Sealed, Drained, DocumentLabels, NoDocument
  <2>3. DocumentsInv
    BY DEF Init, DocumentsInv, DocumentLabels, NoDocument
  <2> QED
    BY <2>1, <2>2, <2>3, FinalizerInit DEF IInv, CatalogueInv, Init, WritingInv
<1>2. IInv /\ [Next]_vars => IInv'
  BY FinalizerNext, WritersNext, SealedNext, DocumentsNext, WritingNext DEF IInv, CatalogueInv
<1> QED
  BY <1>1, <1>2, PTL DEF Spec

(* Every variable of the recording keeps its type (room.go).                *)
THEOREM TypeCorrect == Spec => []TypeOK
<1>1. IInv => TypeOK
  BY DEF IInv, FinalizerInv
<1> QED
  BY <1>1, Inductive, PTL

(* Stop is executed by at most one goroutine, and only while the status is  *)
(* "stopping" (room.go, Stop).                                              *)
THEOREM SingleFinalizer == Spec => []OneFinalizer
<1>1. IInv => OneFinalizer
  BY DEF IInv, FinalizerInv
<1> QED
  BY <1>1, Inductive, PTL

(* The .completed object is only ever seen next to a recording with no open *)
(* track (room.go, Stop; minio.go, FinalizeRecording).                      *)
THEOREM CompletedSealed == Spec => []CompletedIsSealed
<1>1. IInv => CompletedIsSealed
  <2> SUFFICES ASSUME IInv, ".completed" \in markers
               PROVE  /\ status # "recording" /\ ActiveWriters = {}
                      /\ \A w \in Writers : writer[w] # "open"
    BY DEF CompletedIsSealed
  <2>1. status # "recording" /\ \A p \in Producers : ~HasTrack(p)
    BY DEF IInv, CatalogueInv, SealedInv, Sealed
  <2>2. ActiveWriters = {}
    BY <2>1, NoneActive DEF IInv, FinalizerInv
  <2>3. \A w \in Writers : writer[w] # "open"
    BY <2>1 DEF IInv, CatalogueInv, WritersInv, HasTrack, Writers, NoWriter
  <2> QED
    BY <2>1, <2>2, <2>3
<1> QED
  BY <1>1, Inductive, PTL

(* No track writer leaks (room.go, AddTrack, RemoveTrack and Stop).         *)
THEOREM NoWriterLeaks == Spec => []WriterAccounted
<1>1. IInv => WriterAccounted
  <2> SUFFICES ASSUME IInv, NEW w \in Writers
               PROVE  /\ writer[w] = "open" <=> w \in ActiveWriters
                      /\ w \in ActiveWriters => w \notin completedTracks
                      /\ writer[w] = "closed" => w \in completedTracks
                      /\ \A p1, p2 \in Producers : tracks[p1] = w /\ tracks[p2] = w => p1 = p2
    BY DEF WriterAccounted
  <2>1. WritersInv
    BY DEF IInv, CatalogueInv
  <2>2. w # NoWriter
    BY DEF Writers, NoWriter
  <2>3. w \in ActiveWriters <=> \E p \in Producers : tracks[p] = w
    BY <2>2 DEF ActiveWriters
  <2>4. writer[w] = "open" <=> w \in ActiveWriters
    BY <2>1, <2>2, <2>3 DEF WritersInv, HasTrack
  <2> QED
    BY <2>1, <2>2, <2>4 DEF WritersInv, HasTrack
<1> QED
  BY <1>1, Inductive, PTL

(* The packet count catalogued for a closed track is exact (room.go,        *)
(* RemoveTrack and Stop against WritePacket).                               *)
THEOREM CatalogueCounts == Spec => []CountsAreFinal
<1>1. IInv => CountsAreFinal
  BY DEF IInv, FinalizerInv, TypeOK, CatalogueInv, WritersInv, CountsAreFinal
<1> QED
  BY <1>1, Inductive, PTL

(* Metadata that says "completed" is the final catalogue (room.go,          *)
(* writeMetadata).                                                          *)
THEOREM MetadataIsCatalogue == Spec => []FinalCatalogue
<1>1. IInv => FinalCatalogue
  BY DEF IInv, CatalogueInv, DocumentsInv, IsCatalogue, FinalCatalogue
<1> QED
  BY <1>1, Inductive, PTL

(* The outcome and the catalogue of a finished recording never change       *)
(* (room.go, every method).                                                 *)
THEOREM FinishedIsFinal == Spec => FinishedStaysFinished
<1>1. IInv /\ [Next]_vars =>
        ((status = "completed" \/ status = "failed") =>
           UNCHANGED <<status, completedTracks, writer, packets>>)
  <2> SUFFICES ASSUME IInv, [Next]_vars, status = "completed" \/ status = "failed"
               PROVE  UNCHANGED <<status, completedTracks, writer, packets>>
    OBVIOUS
  <2>1. /\ status # "recording" /\ status # "stopping"
        /\ \A p \in Producers : ~HasTrack(p)
    BY DEF IInv, CatalogueInv, SealedInv, Sealed
  <2>2. \A q \in Threads : ~Stopping(q)
    BY <2>1 DEF IInv, FinalizerInv, OneFinalizer
  <2>3. \A w \in Writers : ~Accepts(w)
    BY <2>1 DEF IInv, CatalogueInv, WritersInv, HasTrack, Accepts, Writers, NoWriter
  <2>4. TypeOK /\ WritingInv
    BY DEF IInv, FinalizerInv
  <2>5. ASSUME NEW q \in Threads,
               \/ \E p \in Producers : AddTrack(q, p) \/ RemoveTrack(q, p)
               \/ ClaimStop(q)
        PROVE  FALSE
    BY <2>1, <2>5 DEF AddTrack, RemoveTrack, ClaimStop, Recording
  <2>6. ASSUME NEW q \in Threads, CloseTracks(q) \/ FinishStop(q)
        PROVE  FALSE
    BY <2>2, <2>6 DEF CloseTracks, FinishStop, Stopping, StopLabels
  <2>7. ASSUME NEW q \in Threads, WriteToTrack(q)
        PROVE  UNCHANGED <<status, completedTracks, writer, packets>>
    BY <2>3, <2>4, <2>7 DEF WriteToTrack, WritingInv, roomVars
  <2>8. ASSUME NEW q \in Threads,
               \/ \E p \in Producers : \/ AddTrackNotOpened(q, p) \/ RemoveUnknownTrack(q, p)
                                       \/ LookupTrack(q, p)
               \/ \E p \in Peers :
                    AddParticipant(q, p) \/ RemoveParticipant(q, p) \/ RecordActivity(q, p)
               \/ Snapshot(q) \/ CountTracks(q) \/ PutMetadata(q) \/ CopyTimeline(q)
               \/ PutTimeline(q) \/ LoadTimeline(q) \/ StoreTimeline(q)
               \/ WriteCompletedMetadata(q) \/ DeleteRecordingMarker(q)
               \/ PutCompletedMarker(q)
        PROVE  UNCHANGED <<status, completedTracks, writer, packets>>
    BY <2>8 DEF AddTrackNotOpened, RemoveUnknownTrack, LookupTrack, AddParticipant,
       RemoveParticipant, RecordActivity, Snapshot, CopyMetadata, CountTracks, PutMetadata,
       CopyTimeline, PutTimeline, LoadTimeline, StoreTimeline, WriteCompletedMetadata,
       DeleteRecordingMarker, PutCompletedMarker, roomVars, writerVars
  <2>9. CASE UNCHANGED vars
    BY <2>9 DEF vars, roomVars, writerVars
  <2> QED
    BY <2>5, <2>6, <2>7, <2>8, <2>9 DEF Next, Handle, Continue
<1> QED
  BY <1>1, Inductive, PTL DEF Spec, FinishedStaysFinished

(* Every behaviour of a recording is one its contract allows (room.go,      *)
(* RecordingContract).                                                      *)
THEOREM Refinement == Spec => ImplementsContract
<1> DEFINE OpenSet == {w \in Writers : writer[w] = "open"}
           Dropped == {w \in Writers : writer[w] = "broken" /\ w \notin completedTracks}
           IsSealed == ".completed" \in markers
<1>1. Init => Contract!Init
  BY DEF Init, Contract!Init
<1>2. IInv /\ [Next]_vars => [Contract!ContractNext]_(Contract!contractVars)
  <2> SUFFICES ASSUME IInv, [Next]_vars
               PROVE  Contract!ContractNext
                      \/ UNCHANGED <<status, OpenSet, completedTracks, Dropped, IsSealed>>
    BY DEF Contract!contractVars
  <2>0. TypeOK /\ OneFinalizer /\ WritersInv /\ SealedInv /\ WritingInv
    BY DEF IInv, FinalizerInv, CatalogueInv
  <2>1. ASSUME NEW q \in Threads, NEW p \in Producers, AddTrack(q, p)
        PROVE  \E t \in Writers : Contract!Accept(t)
    <3>1. created + 1 \in Writers /\ writer[created + 1] = "none"
      BY <2>0, <2>1, NextWriter DEF AddTrack, WritersInv, TypeOK
    <3>2. /\ status = "recording" /\ UNCHANGED <<status, completedTracks, markers>>
          /\ writer' = [writer EXCEPT ![created + 1] = "open"]
      BY <2>1 DEF AddTrack, Recording, storeVars
    <3>3. OpenSet' = OpenSet \cup {created + 1} /\ Dropped' = Dropped
      BY <2>0, <3>1, <3>2 DEF TypeOK
    <3>4. created + 1 \notin OpenSet \cup completedTracks \cup Dropped
      BY <2>0, <3>1 DEF WritersInv
    <3> QED
      BY <3>1, <3>2, <3>3, <3>4 DEF Contract!Accept
  <2>2. ASSUME NEW q \in Threads, NEW p \in Producers, RemoveTrack(q, p)
        PROVE  \E t \in Writers : Contract!Release(t)
    <3>1. tracks[p] \in Writers /\ writer[tracks[p]] = "open"
      BY <2>0, <2>2, HeldWriter DEF RemoveTrack, WritersInv
    <3>2. /\ UNCHANGED <<status, markers>>
          /\ completedTracks' = completedTracks \cup {tracks[p]}
          /\ \E s \in {"closed", "broken"} : writer' = [writer EXCEPT ![tracks[p]] = s]
      BY <2>2 DEF RemoveTrack, storeVars
    <3>3. OpenSet' = OpenSet \ {tracks[p]} /\ Dropped' = Dropped
      BY <2>0, <3>1, <3>2 DEF TypeOK
    <3> QED
      BY <3>1, <3>2, <3>3 DEF Contract!Release
  <2>3. ASSUME NEW q \in Threads, ClaimStop(q)
        PROVE  Contract!BeginStop
    BY <2>3 DEF ClaimStop, Recording, Contract!BeginStop, writerVars, storeVars
  <2>4. ASSUME NEW q \in Threads, CloseTracks(q)
        PROVE  Contract!ReleaseAll
    <3>1. status = "stopping" /\ UNCHANGED <<status, markers>>
      BY <2>0, <2>4 DEF CloseTracks, OneFinalizer, Stopping, StopLabels, storeVars
    <3>2. OpenSet = ActiveWriters
      BY <2>0, ActiveWriterHeld
         DEF WritersInv, ActiveWriters, HasTrack, Writers, NoWriter, TypeOK
    <3>3. PICK failed \in SUBSET ActiveWriters :
            /\ writer' = [w \in Writers |-> IF w \in failed THEN "broken"
                            ELSE IF w \in ActiveWriters THEN "closed" ELSE writer[w]]
            /\ completedTracks' = completedTracks \cup (ActiveWriters \ failed)
      BY <2>4 DEF CloseTracks
    <3>4. OpenSet' = {}
      BY <3>2, <3>3
    <3>5. Dropped' = Dropped \cup failed
      <4>1. \A w \in failed : w \notin completedTracks'
        BY <2>0, <3>2, <3>3 DEF WritersInv
      <4>2. \A w \in Writers \ ActiveWriters :
              writer'[w] = writer[w] /\ (w \in completedTracks' <=> w \in completedTracks)
        BY <3>3
      <4>3. \A w \in ActiveWriters : w \notin Dropped /\ (w \in Dropped' <=> w \in failed)
        BY <3>2, <3>3, <4>1
      <4> QED
        BY <3>2, <4>2, <4>3
    <3> QED
      BY <3>1, <3>2, <3>3, <3>4, <3>5 DEF Contract!ReleaseAll
  <2>5. ASSUME NEW q \in Threads, PutCompletedMarker(q)
        PROVE  Contract!Seal \/ UNCHANGED <<status, OpenSet, completedTracks, Dropped, IsSealed>>
    <3>1. status = "stopping" /\ UNCHANGED <<status, writer, completedTracks>>
      BY <2>0, <2>5 DEF PutCompletedMarker, OneFinalizer, Stopping, StopLabels, roomVars,
         writerVars
    <3>2. OpenSet = {}
      BY <2>0, <2>5 DEF PutCompletedMarker, SealedInv, Sealed, Drained, WritersInv, HasTrack,
         Writers, NoWriter
    <3>3. markers' = markers \/ ".completed" \in markers'
      BY <2>5 DEF PutCompletedMarker
    <3> QED
      BY <3>1, <3>2, <3>3 DEF Contract!Seal
  <2>6. ASSUME NEW q \in Threads, FinishStop(q)
        PROVE  Contract!Finish
    <3>1. status = "stopping" /\ UNCHANGED <<writer, completedTracks, markers>>
      BY <2>0, <2>6 DEF FinishStop, OneFinalizer, Stopping, StopLabels, writerVars, storeVars
    <3>2. OpenSet = {}
      BY <2>0, <2>6 DEF FinishStop, SealedInv, Sealed, Drained, WritersInv, HasTrack,
         Writers, NoWriter
    <3>3. (status' = "completed" /\ IsSealed) \/ status' = "failed"
      BY <2>0, <2>6 DEF FinishStop, WritingInv
    <3> QED
      BY <3>1, <3>2, <3>3 DEF Contract!Finish
  <2>7. ASSUME NEW q \in Threads,
               \/ \E p \in Producers : \/ AddTrackNotOpened(q, p) \/ RemoveUnknownTrack(q, p)
                                       \/ LookupTrack(q, p)
               \/ \E p \in Peers :
                    AddParticipant(q, p) \/ RemoveParticipant(q, p) \/ RecordActivity(q, p)
               \/ Snapshot(q) \/ WriteToTrack(q) \/ CountTracks(q) \/ PutMetadata(q)
               \/ CopyTimeline(q) \/ PutTimeline(q) \/ LoadTimeline(q) \/ StoreTimeline(q)
               \/ WriteCompletedMetadata(q) \/ DeleteRecordingMarker(q)
        PROVE  UNCHANGED <<status, OpenSet, completedTracks, Dropped, IsSealed>>
    <3>1. UNCHANGED <<status, writer, completedTracks>>
      BY <2>7 DEF AddTrackNotOpened, RemoveUnknownTrack, LookupTrack, AddParticipant,
         RemoveParticipant, RecordActivity, Snapshot, CopyMetadata, WriteToTrack,
         CountTracks, PutMetadata, CopyTimeline, PutTimeline, LoadTimeline, StoreTimeline,
         WriteCompletedMetadata, DeleteRecordingMarker, roomVars, writerVars
    <3>2. markers' \in {markers, markers \ {".recording"}}
      BY <2>7 DEF AddTrackNotOpened, RemoveUnknownTrack, LookupTrack, AddParticipant,
         RemoveParticipant, RecordActivity, Snapshot, CopyMetadata, WriteToTrack,
         CountTracks, PutMetadata, CopyTimeline, PutTimeline, LoadTimeline, StoreTimeline,
         WriteCompletedMetadata, DeleteRecordingMarker, storeVars
    <3>3. IsSealed' <=> IsSealed
      BY <3>2
    <3> QED
      BY <3>1, <3>3
  <2>8. CASE UNCHANGED vars
    BY <2>8 DEF vars, roomVars, writerVars, storeVars
  <2>9. (\E t \in Writers : Contract!Accept(t) \/ Contract!Release(t))
         \/ Contract!BeginStop \/ Contract!ReleaseAll \/ Contract!Seal \/ Contract!Finish
           => Contract!ContractNext
    BY DEF Contract!ContractNext
  <2> QED
    BY <2>1, <2>2, <2>3, <2>4, <2>5, <2>6, <2>7, <2>8, <2>9 DEF Next, Handle, Continue
<1> QED
  BY <1>1, <1>2, Inductive, PTL DEF Spec, ImplementsContract, Contract!ContractSpec

-----------------------------------------------------------------------------
(* The timelines that snapshots and stops write.                            *)

(* The events that a timeline owes the tracks ts and the peers ps, and the  *)
(* ones of them that are missing from it.                                   *)
Due(ts, ps) == {Event("track_added", w) : w \in ts} \cup {Event("peer_joined", p) : p \in ps}
Missing(ts, ps, list) == Due(ts, ps) \ {list[i] : i \in DOMAIN list}
Explained(ts, ps, list) ==
  /\ IsFiniteSet(Missing(ts, ps, list))
  /\ Cardinality(Missing(ts, ps, list)) <= lost

Present == {p \in Peers : participants[p] # "absent"}

(* The timeline explains all tracks ever opened and all peers that were     *)
(* ever there, which are more than any document lists.                      *)
OwedInv == Explained(1..created, Present, timeline)
ThreadInv(q) ==
  /\ doc[q].tracks \subseteq 1..created /\ doc[q].peers \subseteq Present
  /\ pc[q] = "timelinePut" => Explained(doc[q].tracks, doc[q].peers, events[q])
SnapshotInv == OwedInv /\ \A q \in Threads : ThreadInv(q)

LEMMA CardinalityWithin ==
  ASSUME NEW S, NEW T, IsFiniteSet(T), S \subseteq T, NEW n \in Nat, NEW m \in Nat,
         Cardinality(T) <= n, n <= m
  PROVE  IsFiniteSet(S) /\ Cardinality(S) <= m
<1>1. IsFiniteSet(S) /\ Cardinality(S) <= Cardinality(T)
  BY FS_Subset
<1>2. Cardinality(S) \in Nat /\ Cardinality(T) \in Nat
  BY <1>1, FS_CardinalityType
<1> QED
  BY <1>1, <1>2

(* Fewer tracks and peers, or more events lost, are explained too.          *)
LEMMA ExplainedLess ==
  ASSUME NEW ts, NEW ps, NEW us, NEW qs, NEW list, us \subseteq ts, qs \subseteq ps,
         Explained(ts, ps, list), lost \in Nat
  PROVE  Explained(us, qs, list)
<1>1. Missing(us, qs, list) \subseteq Missing(ts, ps, list)
  BY DEF Missing, Due
<1> QED
  BY <1>1, CardinalityWithin DEF Explained

LEMMA ExplainedLater ==
  ASSUME NEW ts, NEW ps, NEW list, Explained(ts, ps, list), lost \in Nat, lost' \in Nat,
         lost <= lost'
  PROVE  /\ IsFiniteSet(Missing(ts, ps, list))
         /\ Cardinality(Missing(ts, ps, list)) <= lost'
<1> DEFINE S == Missing(ts, ps, list)
<1>1. IsFiniteSet(S) /\ Cardinality(S) <= lost
  BY DEF Explained
<1> HIDE DEF S
<1>2. Cardinality(S) \in Nat
  BY <1>1, FS_CardinalityType
<1>3. Cardinality(S) <= lost'
  BY <1>1, <1>2
<1> QED
  BY <1>1, <1>3 DEF S

(* A handler that appends the event of what it adds.                        *)
LEMMA OwedAppend ==
  ASSUME TypeOK, OwedInv, NEW e \in Events, AppendEvent(e),
         Due(1..created', Present') \subseteq Due(1..created, Present) \cup {e}
  PROVE  OwedInv'
<1>1. timeline \in Seq(Events) /\ timeline' = Append(timeline, e) /\ lost' = lost /\ lost \in Nat
  BY DEF TypeOK, AppendEvent
<1>2. /\ Len(timeline) \in Nat /\ DOMAIN timeline = 1..Len(timeline)
      /\ DOMAIN timeline' = 1..Len(timeline) + 1
      /\ timeline'[Len(timeline) + 1] = e
      /\ \A i \in 1..Len(timeline) : timeline'[i] = timeline[i]
  BY <1>1, AppendProperties, LenProperties
<1>3. Len(timeline) + 1 \in DOMAIN timeline' /\ DOMAIN timeline \subseteq DOMAIN timeline'
  BY <1>2
<1>4. {timeline[i] : i \in DOMAIN timeline} \cup {e} \subseteq {timeline'[i] : i \in DOMAIN timeline'}
  BY <1>2, <1>3
<1>5. Missing(1..created', Present', timeline') \subseteq Missing(1..created, Present, timeline)
  BY <1>4 DEF Missing
<1> QED
  BY <1>1, <1>5, CardinalityWithin DEF OwedInv, Explained

(* The events that the unlocked append of Stop may discard are counted in   *)
(* `lost'.                                                                  *)
LEMMA OwedStore ==
  ASSUME FinalizerInv, OwedInv, NEW q \in Threads, StoreTimeline(q)
  PROVE  OwedInv' /\ lost' \in Nat /\ lost <= lost'
<1> DEFINE n == seen[q]
           m == Len(timeline)
           e == Event("recording_stopped", NoWriter)
           old == {timeline[i] : i \in DOMAIN timeline}
           new == {timeline'[i] : i \in DOMAIN timeline'}
           S == Missing(1..created, Present, timeline)
           S1 == Missing(1..created', Present', timeline')
<1>1. /\ timeline \in Seq(Events) /\ m \in Nat /\ n \in Nat /\ n <= m /\ lost \in Nat
      /\ e \in Events /\ DOMAIN timeline = 1..m
      /\ UNCHANGED <<created, participants>>
      /\ timeline' \in RacyAppends(n, e) /\ lost' = lost + (m + 1 - Len(timeline'))
  <2>1. e \in Events
    BY EventType DEF EventTypes
  <2> QED
    BY <2>1, LenProperties DEF FinalizerInv, TypeOK, StoreTimeline, roomVars
<1>2. IsFiniteSet(S) /\ Cardinality(S) <= lost /\ Cardinality(S) \in Nat
  BY FS_CardinalityType DEF OwedInv, Explained
<1>3. Due(1..created', Present') = Due(1..created, Present)
  BY <1>1 DEF Present
<1>4. \E D \in SUBSET (1..m) : /\ old \subseteq new \cup {timeline[i] : i \in D}
                              /\ IsFiniteSet(D)
                              /\ Len(timeline') + Cardinality(D) <= m + 1
                              /\ Len(timeline') \in Nat
  <2>1. CASE timeline' = Append(SubSeq(timeline, 1, n), e)
    <3> DEFINE s == SubSeq(timeline, 1, n)
               D == n + 1..m
    <3>1. \A i \in 1..n : timeline[i] \in Events
      BY <1>1, ElementOfSeq
    <3>2. s \in Seq(Events) /\ Len(s) = n /\ \A i \in 1..n : s[i] = timeline[i]
      BY <1>1, <3>1, SubSeqProperties
    <3> HIDE DEF s, e, n, m
    <3>3. Len(timeline') = n + 1 /\ DOMAIN timeline' = 1..n + 1
          /\ \A i \in 1..n : timeline'[i] = timeline[i]
      BY <1>1, <2>1, <3>2, AppendProperties, LenProperties DEF s
    <3>4. \A i \in 1..m : i \in 1..n \/ i \in D
      BY <1>1
    <3>5. 1..n \subseteq DOMAIN timeline'
      BY <1>1, <3>3
    <3>6. old \subseteq new \cup {timeline[i] : i \in D}
      BY <1>1, <3>3, <3>4, <3>5
    <3>7. IsFiniteSet(D) /\ Cardinality(D) = m - n
      <4>1. n + 1 \in Int /\ m \in Int
        BY <1>1
      <4>2. IsFiniteSet(D) /\ Cardinality(D) = IF n + 1 > m THEN 0 ELSE m - (n + 1) + 1
        BY <4>1, FS_Interval
      <4> HIDE DEF D
      <4> QED
        BY <1>1, <4>2
    <3>8. D \in SUBSET (1..m)
      BY <1>1
    <3> HIDE DEF old, new, D
    <3>9. Len(timeline') + Cardinality(D) <= m + 1 /\ Len(timeline') \in Nat
      BY <1>1, <3>3, <3>7
    <3> QED
      BY <3>6, <3>7, <3>8, <3>9
  <2>2. CASE timeline' = timeline
    <3>1. IsFiniteSet({}) /\ Cardinality({}) = 0
      BY FS_EmptySet
    <3>2. Len(timeline') + 0 <= m + 1 /\ Len(timeline') \in Nat
      BY <1>1, <2>2
    <3>3. old \subseteq new
      BY <2>2
    <3> HIDE DEF old, new, m
    <3> QED
      BY <3>1, <3>2, <3>3
  <2>3. CASE m > n /\ timeline' = [timeline EXCEPT ![n + 1] = e]
    <3> DEFINE k == n + 1
    <3> HIDE DEF e, n, m
    <3>1. k \in 1..m /\ DOMAIN timeline' = 1..m /\ Len(timeline') = m
      BY <1>1, <2>3, ExceptSeq, LenProperties DEF m
    <3>2. \A i \in 1..m : i # k => timeline'[i] = timeline[i]
      BY <1>1, <2>3
    <3>3. old \subseteq new \cup {timeline[i] : i \in {k}}
      BY <1>1, <3>1, <3>2
    <3>4. IsFiniteSet({k}) /\ Cardinality({k}) = 1 /\ {k} \in SUBSET (1..m)
      BY <3>1, FS_Singleton
    <3>5. Len(timeline') + 1 <= m + 1 /\ Len(timeline') \in Nat
      BY <1>1, <3>1
    <3> HIDE DEF old, new, k
    <3> QED
      BY <3>3, <3>4, <3>5
  <2> QED
    BY <1>1, <2>1, <2>2, <2>3 DEF RacyAppends
<1>5. PICK D \in SUBSET (1..m) : /\ old \subseteq new \cup {timeline[i] : i \in D}
                                 /\ IsFiniteSet(D)
                                 /\ Len(timeline') + Cardinality(D) <= m + 1
                                 /\ Len(timeline') \in Nat
  BY <1>4
<1> DEFINE G == {timeline[i] : i \in D}
<1>6. IsFiniteSet(G) /\ Cardinality(G) <= Cardinality(D)
  <2> DEFINE f == [i \in D |-> timeline[i]]
  <2>1. f \in Surjection(D, G)
    BY DEF Surjection
  <2> HIDE DEF f, G
  <2> QED
    BY <1>5, <2>1, FS_Surjection
<1>7. S1 \subseteq S \cup G
  BY <1>3, <1>5 DEF Missing
<1> HIDE DEF S, S1, G, old, new, m, n, e
<1>8. /\ IsFiniteSet(S \cup G) /\ Cardinality(S \cup G) <= Cardinality(S) + Cardinality(D)
      /\ Cardinality(S \cup G) \in Nat /\ Cardinality(D) \in Nat
  <2>1. IsFiniteSet(S \cup G) /\ IsFiniteSet(S \cap G)
        /\ Cardinality(S \cup G) = Cardinality(S) + Cardinality(G) - Cardinality(S \cap G)
    BY <1>2, <1>6, FS_Union, FS_Subset
  <2>2. Cardinality(S \cap G) \in Nat /\ Cardinality(G) \in Nat /\ Cardinality(D) \in Nat
        /\ Cardinality(S \cup G) \in Nat
    BY <1>5, <1>6, <2>1, FS_CardinalityType
  <2> QED
    BY <1>2, <1>6, <2>1, <2>2
<1>9. lost' \in Nat /\ lost <= lost' /\ Cardinality(S \cup G) <= lost'
  <2> DEFINE a == Cardinality(S)
             b == Cardinality(S \cup G)
             c == Cardinality(D)
             l == Len(timeline')
  <2>1. /\ a \in Nat /\ b \in Nat /\ c \in Nat /\ l \in Nat /\ m \in Nat /\ lost \in Nat
        /\ a <= lost /\ b <= a + c /\ l + c <= m + 1 /\ lost' = lost + (m + 1 - l)
    BY <1>1, <1>2, <1>5, <1>8
  <2> HIDE DEF a, b, c, l
  <2>2. lost' \in Nat /\ lost <= lost' /\ b <= lost'
    BY <2>1
  <2> QED
    BY <2>2 DEF b
<1>10. IsFiniteSet(S1) /\ Cardinality(S1) <= lost'
  BY <1>7, <1>8, <1>9, CardinalityWithin
<1> QED
  BY <1>9, <1>10 DEF OwedInv, Explained, S1

(* A document of what there is lists tracks and peers that were announced.  *)
LEMMA ListedOpened ==
  ASSUME TypeOK, WritersInv
  PROVE  ActiveWriters \cup completedTracks \subseteq 1..created
<1> SUFFICES ASSUME NEW w \in ActiveWriters \cup completedTracks PROVE w \in 1..created
  OBVIOUS
<1>1. w \in Writers /\ w # NoWriter
  <2>1. w \in Writers
    BY DEF TypeOK, ActiveWriters
  <2> QED
    BY <2>1, MaxTracksAssumption DEF Writers, NoWriter
<1>2. writer[w] # "none"
  BY <1>1 DEF ActiveWriters, WritersInv, HasTrack
<1>3. ~(w > created)
  BY <1>1, <1>2 DEF WritersInv
<1> QED
  BY <1>1, <1>3 DEF TypeOK, Writers

LEMMA SnapshotAppend ==
  ASSUME TypeOK, SnapshotInv, NEW e \in Events, AppendEvent(e), UNCHANGED threadVars,
         created \in Nat, created' \in Nat, created <= created', Present \subseteq Present',
         Due(1..created', Present') \subseteq Due(1..created, Present) \cup {e}
  PROVE  SnapshotInv'
<1>1. OwedInv'
  BY OwedAppend DEF SnapshotInv
<1>2. lost' = lost /\ 1..created \subseteq 1..created'
  BY DEF AppendEvent
<1>3. ASSUME NEW q \in Threads PROVE ThreadInv(q)'
  BY <1>2 DEF SnapshotInv, ThreadInv, threadVars, Explained
<1> QED
  BY <1>1, <1>3 DEF SnapshotInv

LEMMA SnapshotQuiet ==
  ASSUME SnapshotInv, NEW q \in Threads, UNCHANGED <<created, participants, timelineVars>>,
         \A r \in Threads \ {q} : doc'[r] = doc[r] /\ pc'[r] = pc[r] /\ events'[r] = events[r],
         doc'[q].tracks \subseteq 1..created, doc'[q].peers \subseteq Present,
         pc'[q] = "timelinePut" => Explained(doc'[q].tracks, doc'[q].peers, events'[q])
  PROVE  SnapshotInv'
<1>1. OwedInv' /\ Present' = Present /\ lost' = lost /\ created' = created
  BY DEF SnapshotInv, OwedInv, Present, timelineVars, Explained
<1>2. ASSUME NEW r \in Threads PROVE ThreadInv(r)'
  BY <1>1 DEF SnapshotInv, ThreadInv, Explained
<1> QED
  BY <1>1, <1>2 DEF SnapshotInv

LEMMA SnapshotStep ==
  ASSUME IInv, SnapshotInv, [Next]_vars
  PROVE  SnapshotInv'
<1>1. TypeOK /\ FinalizerInv /\ WritersInv /\ created \in Nat /\ lost \in Nat
  BY MaxTracksAssumption DEF IInv, FinalizerInv, CatalogueInv, TypeOK
<1>2. ASSUME NEW e \in Events, AppendEvent(e), UNCHANGED <<created, participants, threadVars>>
      PROVE  SnapshotInv'
  <2>1. Present' = Present
    BY <1>2 DEF Present
  <2> QED
    BY <1>1, <1>2, <2>1, SnapshotAppend
<1>3. ASSUME NEW q \in Threads, NEW p \in Producers, AddTrack(q, p) PROVE SnapshotInv'
  <2>1. created' = created + 1 /\ created + 1 \in Writers /\ Present' = Present
        /\ UNCHANGED threadVars /\ AppendEvent(Event("track_added", created + 1))
    BY <1>1, <1>3, MaxTracksAssumption DEF AddTrack, Present, Writers
  <2>2. Event("track_added", created + 1) \in Events
    BY <2>1, EventType DEF EventTypes
  <2>3. \A w \in 1..created + 1 : w \in 1..created \/ w = created + 1
    BY <1>1
  <2>4. Due(1..created + 1, Present) \subseteq
          Due(1..created, Present) \cup {Event("track_added", created + 1)}
    BY <2>3 DEF Due
  <2>5. created + 1 \in Nat /\ created <= created + 1
    BY <1>1
  <2> QED
    BY <1>1, <2>1, <2>2, <2>4, <2>5, SnapshotAppend
<1>4. ASSUME NEW q \in Threads, NEW p \in Producers,
             AddTrackNotOpened(q, p) \/ RemoveUnknownTrack(q, p)
      PROVE  SnapshotInv'
  <2>1. Event("track_added", NoWriter) \in Events /\ Event("track_removed", NoWriter) \in Events
    BY EventType DEF EventTypes
  <2> QED
    BY <1>2, <1>4, <2>1 DEF AddTrackNotOpened, RemoveUnknownTrack, roomVars
<1>5. ASSUME NEW q \in Threads, NEW p \in Producers, RemoveTrack(q, p) PROVE SnapshotInv'
  <2>1. Event("track_removed", tracks[p]) \in Events
    BY <1>1, EventType DEF EventTypes, TypeOK
  <2> QED
    BY <1>2, <1>5, <2>1 DEF RemoveTrack
<1>6. ASSUME NEW q \in Threads, NEW p \in Peers, AddParticipant(q, p) PROVE SnapshotInv'
  <2>1. Event("peer_joined", p) \in Events /\ AppendEvent(Event("peer_joined", p))
        /\ UNCHANGED <<created, threadVars>>
    BY <1>6, EventType DEF EventTypes, AddParticipant
  <2>2. Present' = Present \cup {p}
    BY <1>1, <1>6 DEF AddParticipant, Present, TypeOK
  <2>3. Due(1..created', Present') \subseteq
          Due(1..created, Present) \cup {Event("peer_joined", p)}
    BY <2>1, <2>2 DEF Due
  <2>4. created' \in Nat /\ created <= created' /\ Present \subseteq Present'
    BY <1>1, <2>1, <2>2
  <2> QED
    BY <1>1, <2>1, <2>3, <2>4, SnapshotAppend
<1>7. ASSUME NEW q \in Threads, NEW p \in Peers, RemoveParticipant(q, p) PROVE SnapshotInv'
  <2>1. Event("peer_left", p) \in Events /\ AppendEvent(Event("peer_left", p))
        /\ UNCHANGED <<created, threadVars>>
    BY <1>7, EventType DEF EventTypes, RemoveParticipant
  <2>2. Present' = Present
    BY <1>1, <1>7 DEF RemoveParticipant, Present, TypeOK
  <2> QED
    BY <1>1, <2>1, <2>2, SnapshotAppend
<1>8. ASSUME NEW q \in Threads, NEW p \in Peers, RecordActivity(q, p) PROVE SnapshotInv'
  <2>1. Event("activity", p) \in Events
    BY EventType DEF EventTypes
  <2> QED
    BY <1>2, <1>8, <2>1 DEF RecordActivity, roomVars
<1>9. ASSUME NEW q \in Threads, UNCHANGED <<created, participants, timelineVars>>,
             \A r \in Threads \ {q} : doc'[r] = doc[r] /\ pc'[r] = pc[r] /\ events'[r] = events[r],
             pc'[q] # "timelinePut",
             /\ doc'[q].tracks = doc[q].tracks /\ doc'[q].peers = doc[q].peers
             \/ doc'[q] = NoDocument
      PROVE  SnapshotInv'
  <2>1. doc'[q].tracks \subseteq 1..created /\ doc'[q].peers \subseteq Present
    BY <1>9 DEF SnapshotInv, ThreadInv, NoDocument
  <2> QED
    BY <1>9, <2>1, SnapshotQuiet
<1>10. ASSUME NEW q \in Threads, NEW p \in Producers, LookupTrack(q, p) PROVE SnapshotInv'
  BY <1>1, <1>9, <1>10 DEF LookupTrack, Goto, TypeOK, roomVars
<1>11. ASSUME NEW q \in Threads, WriteToTrack(q) PROVE SnapshotInv'
  BY <1>1, <1>9, <1>11 DEF WriteToTrack, Goto, TypeOK, roomVars
<1>12. ASSUME NEW q \in Threads, NEW s, CopyMetadata(q, s) PROVE SnapshotInv'
  <2>1. /\ doc'[q].tracks \subseteq 1..created /\ doc'[q].peers \subseteq Present
        /\ pc'[q] = "copied"
        /\ \A r \in Threads \ {q} : doc'[r] = doc[r] /\ pc'[r] = pc[r] /\ events'[r] = events[r]
    BY <1>1, <1>12, ListedOpened DEF CopyMetadata, Goto, TypeOK, Present
  <2>2. UNCHANGED <<created, participants, timelineVars>>
    BY <1>12 DEF CopyMetadata, roomVars
  <2> QED
    BY <2>1, <2>2, SnapshotQuiet
<1>13. ASSUME NEW q \in Threads, CountTracks(q) PROVE SnapshotInv'
  <2>1. /\ UNCHANGED <<created, participants, timelineVars>> /\ pc'[q] # "timelinePut"
        /\ \A r \in Threads \ {q} : doc'[r] = doc[r] /\ pc'[r] = pc[r] /\ events'[r] = events[r]
    BY <1>1, <1>13 DEF CountTracks, LeaveSnapshot, Goto, TypeOK, roomVars
  <2>2. CASE doc' = [doc EXCEPT ![q] = NoDocument]
    <3>1. doc'[q] = NoDocument
      BY <1>1, <2>2 DEF TypeOK
    <3> QED
      BY <1>9, <2>1, <3>1
  <2>3. CASE doc' = [doc EXCEPT ![q].count = TrackCount]
    <3>1. doc[q] \in Documents /\ doc'[q] = [doc[q] EXCEPT !.count = TrackCount]
      BY <1>1, <2>3 DEF TypeOK
    <3>2. doc'[q].tracks = doc[q].tracks /\ doc'[q].peers = doc[q].peers
      BY <3>1 DEF Documents
    <3> QED
      BY <1>9, <2>1, <3>2
  <2> QED
    BY <1>13, <2>2, <2>3 DEF CountTracks, LeaveSnapshot
<1>14. ASSUME NEW q \in Threads, PutMetadata(q) PROVE SnapshotInv'
  BY <1>1, <1>9, <1>14 DEF PutMetadata, LeaveSnapshot, Goto, TypeOK, roomVars
<1>15. ASSUME NEW q \in Threads, CopyTimeline(q) PROVE SnapshotInv'
  <2>1. CASE LeaveSnapshot(q) /\ UNCHANGED events
    BY <1>1, <1>9, <1>15, <2>1 DEF CopyTimeline, LeaveSnapshot, Goto, TypeOK, roomVars
  <2>2. CASE events' = [events EXCEPT ![q] = TimelineSnapshot] /\ UNCHANGED doc
             /\ Goto(q, "timelinePut")
    <3>1. doc[q].tracks \subseteq 1..created /\ doc[q].peers \subseteq Present
      BY DEF SnapshotInv, ThreadInv
    <3>2. Explained(doc[q].tracks, doc[q].peers, timeline)
      BY <1>1, <3>1, ExplainedLess DEF SnapshotInv, OwedInv
    <3>3. /\ doc'[q] = doc[q] /\ events'[q] = timeline
          /\ \A r \in Threads \ {q} : doc'[r] = doc[r] /\ pc'[r] = pc[r] /\ events'[r] = events[r]
      BY <1>1, <2>2 DEF TypeOK, Goto, TimelineSnapshot
    <3>4. UNCHANGED <<created, participants, timelineVars>>
      BY <1>15 DEF CopyTimeline, roomVars
    <3> QED
      BY <3>1, <3>2, <3>3, <3>4, SnapshotQuiet
  <2> QED
    BY <1>15, <2>1, <2>2 DEF CopyTimeline
<1>16. ASSUME NEW q \in Threads, PutTimeline(q) PROVE SnapshotInv'
  BY <1>1, <1>9, <1>16 DEF PutTimeline, LeaveSnapshot, Goto, TypeOK, roomVars
<1>17. ASSUME NEW q \in Threads, ClaimStop(q) PROVE SnapshotInv'
  BY <1>1, <1>9, <1>17 DEF ClaimStop, Goto, TypeOK
<1>18. ASSUME NEW q \in Threads, LoadTimeline(q) PROVE SnapshotInv'
  BY <1>1, <1>9, <1>18 DEF LoadTimeline, Goto, TypeOK, roomVars
<1>19. ASSUME NEW q \in Threads, StoreTimeline(q) PROVE SnapshotInv'
  <2>1. OwedInv' /\ lost' \in Nat /\ lost <= lost'
    BY <1>1, <1>19, OwedStore DEF SnapshotInv
  <2>2. UNCHANGED <<created, participants, doc, events>> /\ pc'[q] = "closing"
        /\ \A r \in Threads \ {q} : pc'[r] = pc[r]
    BY <1>1, <1>19 DEF StoreTimeline, Goto, TypeOK, roomVars
  <2>3. Present' = Present
    BY <2>2 DEF Present
  <2>4. ASSUME NEW r \in Threads PROVE ThreadInv(r)'
    <3>1. doc'[r].tracks \subseteq 1..created' /\ doc'[r].peers \subseteq Present'
      BY <2>2, <2>3 DEF SnapshotInv, ThreadInv
    <3>2. ASSUME pc'[r] = "timelinePut"
          PROVE  /\ IsFiniteSet(Missing(doc[r].tracks, doc[r].peers, events[r]))
                 /\ Cardinality(Missing(doc[r].tracks, doc[r].peers, events[r])) <= lost'
      BY <1>1, <2>1, <2>2, <3>2, ExplainedLater DEF SnapshotInv, ThreadInv
    <3> QED
      BY <2>2, <3>1, <3>2 DEF ThreadInv, Explained
  <2> QED
    BY <2>1, <2>4 DEF SnapshotInv
<1>20. ASSUME NEW q \in Threads, CloseTracks(q) PROVE SnapshotInv'
  BY <1>1, <1>9, <1>20 DEF CloseTracks, Goto, TypeOK
<1>21. ASSUME NEW q \in Threads, DeleteRecordingMarker(q) PROVE SnapshotInv'
  BY <1>1, <1>9, <1>21 DEF DeleteRecordingMarker, Goto, TypeOK, roomVars
<1>22. ASSUME NEW q \in Threads, PutCompletedMarker(q) PROVE SnapshotInv'
  BY <1>1, <1>9, <1>22 DEF PutCompletedMarker, Goto, TypeOK, roomVars
<1>23. ASSUME NEW q \in Threads, FinishStop(q) PROVE SnapshotInv'
  BY <1>1, <1>9, <1>23 DEF FinishStop, Goto, TypeOK
<1>24. CASE UNCHANGED vars
  <2>1. UNCHANGED <<created, participants, timelineVars, pc, doc, events>>
    BY <1>24 DEF vars, roomVars, threadVars
  <2> QED
    BY <2>1 DEF SnapshotInv, OwedInv, ThreadInv, Present, Explained, timelineVars
<1> QED
  BY <1>3, <1>4, <1>5, <1>6, <1>7, <1>8, <1>10, <1>11, <1>12, <1>13, <1>14, <1>15, <1>16, <1>17,
     <1>18, <1>19, <1>20, <1>21, <1>22, <1>23, <1>24
     DEF Next, Handle, Continue, Snapshot, WriteCompletedMetadata

(* The tracks and the peers without an event are as many as the events that *)
(* are missing.                                                             *)
LEMMA MissingCounted ==
  ASSUME NEW ts, NEW ps, NEW list, Explained(ts, ps, list), lost \in Nat
  PROVE  Cardinality({w \in ts : \A i \in DOMAIN list : list[i] # Event("track_added", w)})
         + Cardinality({p \in ps : \A i \in DOMAIN list : list[i] # Event("peer_joined", p)})
           <= lost
<1> DEFINE W == {w \in ts : \A i \in DOMAIN list : list[i] # Event("track_added", w)}
           P == {p \in ps : \A i \in DOMAIN list : list[i] # Event("peer_joined", p)}
           MW == {Event("track_added", w) : w \in W}
           MP == {Event("peer_joined", p) : p \in P}
           M == Missing(ts, ps, list)
           f == [w \in W |-> Event("track_added", w)]
           g == [p \in P |-> Event("peer_joined", p)]
<1>1. MW \cup MP \subseteq M /\ MW \cap MP = {}
  BY DEF Missing, Due, Event
<1>2. f \in Injection(W, MW) /\ g \in Injection(P, MP)
  <2>1. \A w, v : Event("track_added", w) = Event("track_added", v) => w = v
    BY DEF Event
  <2>2. \A w, v : Event("peer_joined", w) = Event("peer_joined", v) => w = v
    BY DEF Event
  <2>3. f \in [W -> MW] /\ \A a, b \in W : f[a] = f[b] => a = b
    <3> HIDE DEF W
    <3> QED
      BY <2>1
  <2>4. g \in [P -> MP] /\ \A a, b \in P : g[a] = g[b] => a = b
    <3> HIDE DEF P
    <3> QED
      BY <2>2
  <2> HIDE DEF f, g, MW, MP, W, P
  <2> QED
    BY <2>3, <2>4 DEF Injection, IsInjective
<1>3. IsFiniteSet(M) /\ Cardinality(M) <= lost
  BY DEF Explained
<1> HIDE DEF W, P, MW, MP, M, f, g
<1>4. IsFiniteSet(MW) /\ IsFiniteSet(MP) /\ IsFiniteSet(MW \cup MP)
      /\ Cardinality(MW \cup MP) <= Cardinality(M)
  BY <1>1, <1>3, FS_Subset
<1>5. Cardinality(MW \cup MP) = Cardinality(MW) + Cardinality(MP) - Cardinality({})
  BY <1>1, <1>4, FS_Union
<1>6. IsFiniteSet(W) /\ IsFiniteSet(P)
      /\ Cardinality(W) <= Cardinality(MW) /\ Cardinality(P) <= Cardinality(MP)
  BY <1>2, <1>4, FS_Injection
<1>7. /\ Cardinality(W) \in Nat /\ Cardinality(P) \in Nat /\ Cardinality(MW) \in Nat
      /\ Cardinality(MP) \in Nat /\ Cardinality(M) \in Nat /\ Cardinality({}) = 0
  BY <1>3, <1>4, <1>6, FS_CardinalityType, FS_EmptySet
<1>8. Cardinality(W) + Cardinality(P) <= lost
  BY <1>3, <1>4, <1>5, <1>6, <1>7
<1> QED
  BY <1>8 DEF W, P

(* The timeline written after a metadata.json, by Snapshot or Stop, has the *)
(* event of every track and of every peer that the metadata lists, except   *)
(* for at most as many as the unlocked append of Stop has discarded.        *)
THEOREM TimelinesExplainMetadata == Spec => []SnapshotsExplained
<1>1. Init => SnapshotInv
  <2> SUFFICES ASSUME Init PROVE SnapshotInv
    OBVIOUS
  <2>1. 1..created = {} /\ Present = {}
    BY DEF Init, Present
  <2>2. Missing(1..created, Present, timeline) = {}
    BY <2>1 DEF Missing, Due
  <2>3. IsFiniteSet({}) /\ Cardinality({}) = 0
    BY FS_EmptySet
  <2>4. lost = 0
    BY DEF Init
  <2>5. OwedInv
    <3> HIDE DEF Init
    <3> QED
      BY <2>2, <2>3, <2>4 DEF OwedInv, Explained
  <2>6. \A q \in Threads : ThreadInv(q)
    BY DEF Init, ThreadInv, NoDocument
  <2> QED
    BY <2>5, <2>6 DEF SnapshotInv
<1>2. IInv /\ SnapshotInv /\ [Next]_vars => SnapshotInv'
  BY SnapshotStep
<1>3. IInv /\ SnapshotInv => SnapshotsExplained
  <2> SUFFICES ASSUME IInv, SnapshotInv, NEW q \in Threads, pc[q] = "timelinePut"
               PROVE  Cardinality({w \in doc[q].tracks :
                          \A i \in DOMAIN events[q] : events[q][i] # Event("track_added", w)})
                      + Cardinality({p \in doc[q].peers :
                          \A i \in DOMAIN events[q] : events[q][i] # Event("peer_joined", p)})
                        <= lost
    BY DEF SnapshotsExplained
  <2>1. Explained(doc[q].tracks, doc[q].peers, events[q]) /\ lost \in Nat
    BY DEF SnapshotInv, ThreadInv, IInv, FinalizerInv, TypeOK
  <2> QED
    BY <2>1, MissingCounted
<1> QED
  BY <1>1, <1>2, <1>3, Inductive, PTL DEF Spec
=============================================================================
