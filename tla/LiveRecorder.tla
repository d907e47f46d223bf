----------------------------- MODULE LiveRecorder -----------------------------
(***************************************************************************)
(* The exports of one recording: the live goroutine that announces a part   *)
(* at each quick-access boundary (internal/grpc/live_recorder.go) and the   *)
(* handler that stops the recording, which cancels it, builds the list of   *)
(* parts and queues the exports that remain (internal/grpc/handlers.go).    *)
(*                                                                          *)
(* The session's lists are shared by the two under its own lock; what the   *)
(* compositer has accepted is the state of an external service.  Rotation   *)
(* and snapshots at a boundary are steps of RoomRecording and TrackWriter.  *)
(***************************************************************************)
EXTENDS Parts, Policy, Sequences, FiniteSets

CONSTANTS
  Requests,  \* the policies of start requests; durations in seconds
  Second,    \* units of the clock in a second
  MaxTime    \* bound: the clock

ASSUME LiveAssumption ==
  /\ MaxTime \in Nat
  /\ Second \in Nat \ {0} /\ Second % Unit = 0
  /\ Requests \subseteq Policies \cup {NoPolicy}

VARIABLES
  policy,          \* rec.policy
  compositer,      \* is the compositer client enabled?
  now,             \* time since the recording started
  tracks,          \* has the recording a track, open or completed?
  live,            \* next step of the live goroutine
  nextQuickIndex,  \* session.nextQuickIndex
  quickParts,      \* session.quickParts
  cancelled,       \* has the session been cancelled?
  handler,         \* next step of handleStopRecording
  duration,        \* stats.Duration, read before the stop
  queue,           \* exports that queueFinalExports has still to request
  exports,         \* how often the compositer accepted each part
  faults           \* may its requests fail in this behaviour?

liveVars == <<live, nextQuickIndex, quickParts>>
handlerVars == <<cancelled, handler, duration, queue>>
compositerVars == <<exports, faults>>
givenVars == <<policy, compositer>>
vars == <<givenVars, now, tracks, liveVars, handlerVars, compositerVars>>

-----------------------------------------------------------------------------
Indexes == 1..(MaxTime + 1)
Exports == [kind : {"quick_access", "late_composite"}, index : Indexes]
Quick(i) == [kind |-> "quick_access", index |-> i]
Late(i) == [kind |-> "late_composite", index |-> i]

(* The lengths of the parts, in units of the clock.                         *)
QuickDuration == policy.quickDuration * Second
LateDuration == policy.lateDuration * Second

(* A live goroutine with boundaries is only started for quick access in     *)
(* parts of some length.                                                    *)
HasBoundaries == compositer /\ policy.quickAccess /\ QuickDuration > 0

(* A start request has been accepted, and startLiveRecorder called for the  *)
(* new recording.                                                           *)
Init ==
  /\ \E request \in Requests, requestedBy \in {"system", "peer"} :
       /\ policy = PolicyFromProto(request)
       /\ Accepted(policy, requestedBy)
  /\ compositer \in BOOLEAN
  /\ now = 0 /\ tracks = FALSE
  /\ live = IF HasBoundaries THEN "waiting" ELSE "done"
  /\ nextQuickIndex = 1 /\ quickParts = <<>>
  /\ cancelled = FALSE
  /\ handler = "none" /\ duration = 0 /\ queue = {}
  /\ exports = [e \in Exports |-> 0] /\ faults \in BOOLEAN

Tick ==
  /\ now < MaxTime
  /\ now' = now + 1
  /\ UNCHANGED <<givenVars, tracks, liveVars, handlerVars, compositerVars>>

(* A track of any type the protocol can send, also one it does not name.    *)
SubscribeTrack ==
  /\ ~tracks /\ \E t \in 0..4 : ShouldRecordTrack(policy, TrackTypeFromProto(t))
  /\ tracks' = TRUE
  /\ UNCHANGED <<givenVars, now, liveVars, handlerVars, compositerVars>>

(* CreateExport.                                                            *)
Export(e) ==
  /\ \/ exports' = [exports EXCEPT ![e] = @ + 1]
     \/ faults /\ UNCHANGED exports
  /\ UNCHANGED faults

-----------------------------------------------------------------------------
(* runLiveRecorder and processQuickAccessBoundary                           *)

(* The timer has fired.  A session already cancelled may still take it: the *)
(* select chooses between the two at random.                                *)
BoundaryEarly == now >= (nextQuickIndex - 1) * QuickDuration  \* mutant
BoundaryReached == now >= nextQuickIndex * QuickDuration

(* The part joins the session's list before its export is requested.        *)
ProcessBoundary ==
  /\ live = "waiting"
  /\ BoundaryReached
  /\ quickParts' = Append(quickParts, LivePart(nextQuickIndex, QuickDuration))
  /\ live' = "announced"
  /\ UNCHANGED <<givenVars, now, tracks, nextQuickIndex, handlerVars, compositerVars>>

(* No export without a track, and none is requested under a cancelled       *)
(* context; a request under way may have reached the compositer or not when *)
(* its context is cancelled.                                                *)
RequestExport ==
  /\ live = "announced"
  /\ \/ tracks /\ ~cancelled /\ live' = "requesting" /\ UNCHANGED nextQuickIndex
     \/ (~tracks \/ cancelled) /\ live' = "waiting" /\ nextQuickIndex' = nextQuickIndex + 1
  /\ UNCHANGED <<givenVars, now, tracks, quickParts, handlerVars, compositerVars>>

ExportBoundary ==
  /\ live = "requesting"
  /\ Export(Quick(nextQuickIndex)) \/ (cancelled /\ UNCHANGED compositerVars)
  /\ nextQuickIndex' = nextQuickIndex + 1
  /\ live' = "waiting"
  /\ UNCHANGED <<givenVars, now, tracks, quickParts, handlerVars>>

EndLive ==
  /\ live = "waiting" /\ cancelled
  /\ live' = "done"
  /\ UNCHANGED <<givenVars, now, tracks, nextQuickIndex, quickParts, handlerVars, compositerVars>>

-----------------------------------------------------------------------------
(* handleStopRecording                                                      *)

ReadStats ==
  /\ handler = "none"
  /\ duration' = now
  /\ handler' = "stopLive"
  /\ UNCHANGED <<givenVars, now, tracks, liveVars, cancelled, queue, compositerVars>>

StopLiveLater ==  \* mutant
  handler = "stopLive" /\ handler' = "stop"
    /\ UNCHANGED <<givenVars, now, tracks, liveVars, cancelled, duration, queue, compositerVars>>

StopLiveRecorder ==
  /\ handler = "stopLive"
  /\ cancelled' = TRUE
  /\ handler' = "stop"
  /\ UNCHANGED <<givenVars, now, tracks, liveVars, duration, queue, compositerVars>>

(* Manager.StopRecording and the answer to the SFU; when either fails no    *)
(* export is queued.                                                        *)
StopRecording ==
  /\ handler = "stop"
  /\ handler' \in {"export", "failed"}
  /\ UNCHANGED <<givenVars, now, tracks, liveVars, cancelled, duration, queue, compositerVars>>

QuickList == PolicyParts(duration, policy.quickAccess, QuickDuration)
LateList == PolicyParts(duration, policy.lateComposite, LateDuration)

Announced == {quickParts[k].index : k \in DOMAIN quickParts}

AllButFirst == {i \in DOMAIN QuickList : i > Len(quickParts) + 1}  \* mutant

(* The indexes of the live session's parts are left out.                    *)
Remaining == {i \in DOMAIN QuickList : QuickList[i].index \notin Announced}

QueueFinalExports ==
  /\ handler = "export"
  /\ queue' = IF compositer /\ duration > 0
               THEN {Quick(QuickList[i].index) : i \in Remaining}
                      \cup {Late(LateList[i].index) : i \in DOMAIN LateList}
               ELSE {}
  /\ handler' = "queueing"
  /\ UNCHANGED <<givenVars, now, tracks, liveVars, cancelled, duration, compositerVars>>

(* In the order of the parts, the quick ones first.                         *)
Before(e, f) == \/ e.kind = "quick_access" /\ f.kind = "late_composite"
                \/ e.kind = f.kind /\ e.index < f.index

QueueNextExport ==
  /\ handler = "queueing"
  /\ \/ /\ queue = {}
        /\ handler' = "done"
        /\ UNCHANGED <<queue, compositerVars>>
     \/ \E e \in queue :
          /\ \A f \in queue \ {e} : Before(e, f)
          /\ Export(e)
          /\ queue' = queue \ {e}
          /\ UNCHANGED handler
  /\ UNCHANGED <<givenVars, now, tracks, liveVars, cancelled, duration>>

-----------------------------------------------------------------------------
LiveStep == ProcessBoundary \/ RequestExport \/ ExportBoundary
HandlerStep == StopLiveRecorder \/ StopRecording \/ QueueFinalExports \/ QueueNextExport

Next == Tick \/ SubscribeTrack \/ LiveStep \/ EndLive \/ ReadStats \/ HandlerStep

Spec == Init /\ [][Next]_vars

(* Both goroutines keep running; a select in which ctx.Done() is ready      *)
(* again and again takes it at some time, because it chooses at random.     *)
FairSpec == Spec /\ WF_vars(LiveStep) /\ WF_vars(HandlerStep) /\ SF_vars(EndLive)
-----------------------------------------------------------------------------
(* Properties                                                               *)

(* No part is exported twice, by the live goroutine and by the stop: the    *)
(* session is cancelled before its list is read, and a part is in that list *)
(* before its export is requested.                                          *)
ExportedOnce == \A e \in Exports : exports[e] <= 1

(* The parts announced live are consecutive, from the start of the          *)
(* recording, and lie in the past, also when the goroutine lags behind; and  *)
(* they are the parts of the list upserted at the stop, except that its last *)
(* one ends with the recording.                                              *)
AnnouncedAgree ==
  /\ quickParts = [k \in 1..Len(quickParts) |-> LivePart(k, QuickDuration)]
  /\ Len(quickParts) * QuickDuration <= now
  /\ handler = "done" =>
       \A i \in 1..Len(QuickList) - 1 : i \in Announced => quickParts[i] = QuickList[i]

(* With a compositer that accepts what it is asked: until the stop cancels  *)
(* the session the live goroutine leaves out no part after the first it has *)
(* exported, and when the stop is done everything that goroutine did not    *)
(* announce was exported by the stop.  What may stay without an export are  *)
(* parts announced before there was a track, or at the cancellation (see    *)
(* AllPartsExported).                                                       *)
PartsAccounted ==
  ~faults /\ compositer =>
    /\ ~cancelled =>
         \A h, i \in Indexes :
           h < i /\ i < nextQuickIndex /\ exports[Quick(h)] = 1 => exports[Quick(i)] = 1
    /\ handler = "done" =>
         /\ \A i \in DOMAIN QuickList : exports[Quick(i)] = 1 \/ i \in Announced
         /\ \A i \in DOMAIN LateList : exports[Late(i)] = 1

(* The lists built at the stop cut the recording into parts that cover it   *)
(* from its start to its end (buildParts: the count is rounded up and the   *)
(* last part cut off).                                                      *)
ListsTile ==
  handler = "done" /\ duration > 0 =>
    /\ policy.quickAccess /\ QuickDuration > 0 => Tiles(QuickList, duration)
    /\ policy.lateComposite /\ LateDuration > 0 => Tiles(LateList, duration)

(* Nothing is exported that the policy does not want, nor at all while the  *)
(* compositer is disabled, whichever of the two goroutines asks for it.     *)
ExportsWanted ==
  \A e \in Exports : exports[e] > 0 =>
    /\ compositer
    /\ e.kind = "quick_access" => policy.quickAccess /\ QuickDuration > 0
    /\ e.kind = "late_composite" => policy.lateComposite /\ LateDuration > 0

(* policy.json says "unspecified" of who may record exactly when a host     *)
(* could not have started the recording (CanRecord and String agree on the  *)
(* numbers that name a value, also on numbers a newer SFU sends), and gives *)
(* no part a length of zero.                                                *)
DocumentedAsEnforced ==
  LET document == PolicyDocument(policy) IN
  /\ document.who = "unspecified" <=> ~CanRecord(policy, "host")
  /\ document.quickDuration # 0 /\ document.lateDuration # 0

(* A stop ends the live goroutine and comes to an end itself.               *)
StopEndsLive == handler = "stopLive" ~> live = "done" /\ handler \in {"failed", "done"}

-----------------------------------------------------------------------------
(* A statement of the documentation that the code does not keep             *)

(* After a stop every part of a recording with tracks has its export        *)
(* (docs/RECORDING_END_TO_END.md: "Queue any remaining exports").           *)
AllPartsExported ==
  handler = "done" /\ tracks /\ ~faults /\ compositer => \A i \in DOMAIN QuickList : exports[Quick(i)] > 0
===============================================================================
