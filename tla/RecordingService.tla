--------------------------- MODULE RecordingService ---------------------------
(***************************************************************************)
(* The gRPC service: the streams of the SFUs (internal/grpc/server.go), the *)
(* handlers that start and stop recordings (internal/grpc/handlers.go), the *)
(* Manager with its map of rooms (internal/recording/manager.go), the       *)
(* registry of live sessions (internal/grpc/live_recorder.go) and the       *)
(* shutdown of the process (cmd/recording-service/main.go).                 *)
(*                                                                          *)
(* A stream has one goroutine: it handles a message at a time and, when the *)
(* stream has ended, runs handleDisconnect.  A recording is the summary of  *)
(* module RoomRecording: it is stopped by one call that ends in completed   *)
(* or failed.  The handlers of tracks, packets and room events look the     *)
(* recording up and call it; they change nothing of this module's state and *)
(* are the calls of RoomRecording.                                          *)
(***************************************************************************)
EXTENDS Integers, FiniteSets

CONSTANTS
  Streams,        \* streams of SFUs, each an SFU instance or a reconnection
  Rooms,
  NoStream,
  NoRoom,
  Main,           \* the goroutine of main()
  MaxRecordings,  \* bound: recordings started
  MaxBoundaries,  \* bound: live boundaries of a recording
  MayShutDown,    \* may the process be told to shut down?
  Shelves,        \* is there a client of Shelves?
  Compositer      \* is the client of the compositer enabled?

ASSUME ServiceAssumption ==
  /\ NoStream \notin Streams /\ Main \notin Streams /\ NoRoom \notin Rooms
  /\ MaxRecordings \in Nat /\ MaxBoundaries \in Nat
  /\ MayShutDown \in BOOLEAN /\ Shelves \in BOOLEAN /\ Compositer \in BOOLEAN

VARIABLES
  stream,        \* new, connected, open (registered), broken or closed
  connectedSFU,  \* s.connectedSFU
  rooms,         \* m.rooms
  state,         \* r.status of each recording
  roomOf,        \* r.roomID
  startedBy,     \* the stream whose message started the recording
  sessions,      \* s.liveSessions, a recording for each room
  live,          \* the live goroutine of each recording
  cancelled,     \* recordings whose live session was cancelled
  boundaries,    \* boundaries processed
  pc,            \* next step of each goroutine
  room,          \* the room it works on
  rec,           \* the recording it read with GetRecording, or was told of
  held,          \* the recording it has taken out of m.rooms to stop it
  todo,          \* rooms (recordings, for Main) it has still to stop
  inFlight,      \* upserts to Shelves under way
  shelves        \* the status Shelves holds for each recording

connVars == <<stream, connectedSFU>>
recordingVars == <<rooms, state, roomOf, startedBy>>
liveVars == <<sessions, live, cancelled, boundaries>>
callVars == <<pc, room, rec, held, todo>>
shelvesVars == <<inFlight, shelves>>
vars == <<connVars, recordingVars, liveVars, callVars, shelvesVars>>

-----------------------------------------------------------------------------
Threads == Streams \cup {Main}
Recordings == 1..MaxRecordings
NoRecording == 0
Created == {n \in Recordings : state[n] # "none"}
Finished == {"completed", "failed"}
Upserts == [rec : Recordings, status : {"RECORDING", "COMPLETED", "FAILED"}]

Init ==
  /\ stream = [s \in Streams |-> "new"]
  /\ connectedSFU = NoStream
  /\ rooms = [r \in Rooms |-> NoRecording]
  /\ state = [n \in Recordings |-> "none"]
  /\ roomOf = [n \in Recordings |-> NoRoom]
  /\ startedBy = [n \in Recordings |-> NoStream]
  /\ sessions = [r \in Rooms |-> NoRecording]
  /\ live = [n \in Recordings |-> "none"]
  /\ cancelled = {}
  /\ boundaries = [n \in Recordings |-> 0]
  /\ pc = [q \in Threads |-> IF q = Main THEN "serving" ELSE "idle"]
  /\ room = [q \in Threads |-> NoRoom]
  /\ rec = [q \in Threads |-> NoRecording]
  /\ held = [q \in Threads |-> NoRecording]
  /\ todo = [q \in Threads |-> {}]
  /\ inFlight = {}
  /\ shelves = [n \in Recordings |-> "none"]

Running == pc[Main] # "exited"
Goto(q, step) == pc' = [pc EXCEPT ![q] = step]

(* The end of a handler, whose variables are no longer of use.              *)
Leave(q, step) ==
  /\ Goto(q, step)
  /\ room' = [room EXCEPT ![q] = NoRoom]
  /\ rec' = [rec EXCEPT ![q] = NoRecording]

(* notifyRoomRecording starts a goroutine for each upsert.                  *)
Notify(n, status) ==
  inFlight' = IF Shelves THEN inFlight \cup {[rec |-> n, status |-> status]} ELSE inFlight

-----------------------------------------------------------------------------
(* Streams                                                                  *)

(* A server that is stopping accepts no stream.                             *)
Connect(s) ==
  /\ stream[s] = "new" /\ pc[Main] = "serving"
  /\ stream' = [stream EXCEPT ![s] = "connected"]
  /\ UNCHANGED <<connectedSFU, recordingVars, liveVars, callVars, shelvesVars>>

(* handleRegister replaces the SFU of an earlier stream, which goes on      *)
(* being read and may register again.                                       *)
Register(s) ==
  /\ stream[s] \in {"connected", "open"} /\ pc[s] = "idle" /\ pc[Main] \in {"serving", "draining"}
  /\ stream' = [stream EXCEPT ![s] = "open"]
  /\ connectedSFU' = s
  /\ UNCHANGED <<recordingVars, liveVars, callVars, shelvesVars>>

(* The connection is lost; the goroutine of the stream will notice when it  *)
(* next sends or receives.                                                  *)
BreakStream(s) ==
  /\ Running /\ stream[s] = "open"
  /\ stream' = [stream EXCEPT ![s] = "broken"]
  /\ UNCHANGED <<connectedSFU, recordingVars, liveVars, callVars, shelvesVars>>

(* Recv returns EOF or an error and Connect goes on to handleDisconnect.    *)
EndStream(s) ==
  /\ Running /\ stream[s] \in {"connected", "open", "broken"} /\ pc[s] = "idle"
  /\ stream' = [stream EXCEPT ![s] = "closed"]
  /\ Goto(s, "disconnect")
  /\ UNCHANGED <<connectedSFU, recordingVars, liveVars, room, rec, held, todo, shelvesVars>>

(* A message received, before the break if there was one.  An SFU registers *)
(* before it sends any other message.                                       *)
Receives(s) == Running /\ stream[s] \in {"open", "broken"} /\ pc[s] = "idle"

-----------------------------------------------------------------------------
(* handleStartRecording of an enabled policy                                *)

(* Manager.StartRecording: one recording of a room at a time.  The other    *)
(* outcome, an error answered to the SFU, changes no state.                 *)
AlwaysUnused(r) == r \in Rooms  \* mutant
Unused(r) == rooms[r] = NoRecording

StartRecording(s, r) ==
  /\ Receives(s)
  /\ Unused(r)
  /\ \E n \in Recordings :
       /\ n = Cardinality(Created) + 1
       /\ rooms' = [rooms EXCEPT ![r] = n]
       /\ state' = [state EXCEPT ![n] = "recording"]
       /\ roomOf' = [roomOf EXCEPT ![n] = r]
       /\ startedBy' = [startedBy EXCEPT ![n] = s]
       /\ rec' = [rec EXCEPT ![s] = n]
  /\ room' = [room EXCEPT ![s] = r]
  /\ Goto(s, "started")
  /\ UNCHANGED <<connVars, liveVars, held, todo, shelvesVars>>

(* The answer cannot be sent: the recording goes on without an upsert and   *)
(* without a live session.                                                  *)
AnswerStarted(s) ==
  /\ Running /\ pc[s] = "started"
  /\ \/ /\ stream[s] = "open"
        /\ Notify(rec[s], "RECORDING")
        /\ Goto(s, "startLive")
        /\ UNCHANGED <<room, rec>>
     \/ /\ stream[s] = "broken"
        /\ Leave(s, "idle")
        /\ UNCHANGED inFlight
  /\ UNCHANGED <<connVars, recordingVars, liveVars, held, todo, shelves>>

StartLiveKeepingOld(s) ==  \* mutant
  /\ Running /\ pc[s] = "startLive" /\ Compositer
  /\ sessions' = [sessions EXCEPT ![room[s]] = rec[s]]
  /\ live' = [live EXCEPT ![rec[s]] = "waiting"]
  /\ Leave(s, "idle")
  /\ UNCHANGED <<connVars, recordingVars, cancelled, boundaries, held, todo, shelvesVars>>

(* startLiveRecorder: the session is registered whatever has become of the  *)
(* recording since; one of an earlier recording of the room is cancelled.   *)
(* Without quick access there is none.                                      *)
StartLiveRecorder(s) ==
  /\ Running /\ pc[s] = "startLive"
  /\ \/ UNCHANGED <<sessions, live, cancelled>>
     \/ /\ Compositer
        /\ cancelled' = cancelled \cup ({sessions[room[s]]} \ {NoRecording})
        /\ sessions' = [sessions EXCEPT ![room[s]] = rec[s]]
        /\ live' = [live EXCEPT ![rec[s]] = "waiting"]
  /\ Leave(s, "idle")
  /\ UNCHANGED <<connVars, recordingVars, boundaries, held, todo, shelvesVars>>

-----------------------------------------------------------------------------
(* handleStopRecording and handleDisconnect share the steps of one stop.    *)

(* GetRecording, or else the recording the SFU names (n).                   *)
StopRecording(s, r, n) ==
  /\ Receives(s)
  /\ n \in Created /\ roomOf[n] = r
  /\ room' = [room EXCEPT ![s] = r]
  /\ rec' = [rec EXCEPT ![s] = IF rooms[r] # NoRecording THEN rooms[r] ELSE n]
  /\ Goto(s, "stopLive")
  /\ UNCHANGED <<connVars, recordingVars, liveVars, held, todo, shelvesVars>>

Disconnect(s) ==
  /\ Running /\ pc[s] = "disconnect"
  /\ connectedSFU' = NoStream
  /\ Goto(s, IF connectedSFU = NoStream THEN "gone" ELSE "list")
  /\ UNCHANGED <<stream, recordingVars, liveVars, room, rec, held, todo, shelvesVars>>

ListActiveRecordings(s) ==
  /\ Running /\ pc[s] = "list"
  /\ todo' = [todo EXCEPT ![s] = {r \in Rooms : rooms[r] # NoRecording}]
  /\ Goto(s, "next")
  /\ UNCHANGED <<connVars, recordingVars, liveVars, room, rec, held, shelvesVars>>

NextRoom(s) ==
  /\ Running /\ pc[s] = "next"
  /\ \/ /\ todo[s] = {}
        /\ Goto(s, "gone")
        /\ UNCHANGED <<room, rec, todo>>
     \/ \E r \in todo[s] :
          /\ todo' = [todo EXCEPT ![s] = @ \ {r}]
          /\ room' = [room EXCEPT ![s] = r]
          /\ rec' = [rec EXCEPT ![s] = rooms[r]]
          /\ Goto(s, "stopLive")
  /\ UNCHANGED <<connVars, recordingVars, liveVars, held, shelvesVars>>

CancelLiveRecorder(s) ==  \* mutant
  /\ Running /\ pc[s] = "stopLive"
  /\ cancelled' = cancelled \cup ({sessions[room[s]]} \ {NoRecording})
  /\ Goto(s, "take")
  /\ UNCHANGED <<connVars, recordingVars, sessions, live, boundaries, room, rec, held, todo,
                 shelvesVars>>

(* stopLiveRecorder: whatever session the room has now.                     *)
StopLiveRecorder(s) ==
  /\ Running /\ pc[s] = "stopLive"
  /\ cancelled' = cancelled \cup ({sessions[room[s]]} \ {NoRecording})
  /\ sessions' = [sessions EXCEPT ![room[s]] = NoRecording]
  /\ Goto(s, "take")
  /\ UNCHANGED <<connVars, recordingVars, live, boundaries, room, rec, held, todo, shelvesVars>>

(* What a goroutine does after one stop.                                    *)
AfterStop(q) ==
  IF q = Main THEN "stopAll" ELSE IF stream[q] = "closed" THEN "next" ELSE "idle"

TakeWithoutDelete(s) ==  \* mutant
  /\ Running /\ pc[s] = "take" /\ rooms[room[s]] # NoRecording
  /\ held' = [held EXCEPT ![s] = rooms[room[s]]]
  /\ Goto(s, "stop")
  /\ UNCHANGED <<connVars, recordingVars, liveVars, room, rec, todo, shelvesVars>>

DeleteWithoutStop(s) ==  \* mutant
  /\ Running /\ pc[s] = "take"
  /\ rooms' = [rooms EXCEPT ![room[s]] = NoRecording]
  /\ Leave(s, AfterStop(s))
  /\ UNCHANGED <<connVars, state, roomOf, startedBy, liveVars, held, todo, shelvesVars>>

(* Manager.StopRecording takes the recording out of the map, under m.mu.    *)
TakeRecording(s) ==
  /\ Running /\ pc[s] = "take"
  /\ \/ /\ rooms[room[s]] = NoRecording
        /\ Leave(s, AfterStop(s))
        /\ UNCHANGED <<rooms, held>>
     \/ /\ rooms[room[s]] # NoRecording
        /\ held' = [held EXCEPT ![s] = rooms[room[s]]]
        /\ rooms' = [rooms EXCEPT ![room[s]] = NoRecording]
        /\ Goto(s, "stop")
        /\ UNCHANGED <<room, rec>>
  /\ UNCHANGED <<connVars, state, roomOf, startedBy, liveVars, todo, shelvesVars>>

(* RoomRecording.Stop claims the status, or refuses.                        *)
BeginStop(q) ==
  /\ Running /\ pc[q] = "stop"
  /\ \/ /\ state[held[q]] = "recording"
        /\ state' = [state EXCEPT ![held[q]] = "stopping"]
        /\ Goto(q, "stopping")
        /\ UNCHANGED <<held, room, rec>>
     \/ /\ state[held[q]] # "recording"
        /\ held' = [held EXCEPT ![q] = NoRecording]
        /\ Leave(q, AfterStop(q))
        /\ UNCHANGED state
  /\ UNCHANGED <<connVars, rooms, roomOf, startedBy, liveVars, todo, shelvesVars>>

FinishIgnoringError(q) ==  \* mutant
  /\ Running /\ pc[q] = "stopping"
  /\ held' = [held EXCEPT ![q] = NoRecording]
  /\ \E outcome \in Finished : state' = [state EXCEPT ![held[q]] = outcome]
  /\ Goto(q, IF q = Main THEN "stopAll" ELSE "stopped")
  /\ UNCHANGED <<connVars, rooms, roomOf, startedBy, liveVars, room, rec, todo, shelvesVars>>

FinishThenRead(q) ==  \* mutant
  /\ Running /\ pc[q] = "stopping"
  /\ held' = [held EXCEPT ![q] = NoRecording]
  /\ state' = [state EXCEPT ![held[q]] = "completed"]
  /\ Goto(q, IF q = Main THEN "stopAll" ELSE "stopped")
  /\ rec' = [rec EXCEPT ![q] =
               IF q # Main /\ rooms[room[q]] # NoRecording THEN rooms[room[q]] ELSE @]
  /\ UNCHANGED <<connVars, rooms, roomOf, startedBy, liveVars, room, todo, shelvesVars>>

(* RoomRecording.Stop returns.                                              *)
FinishStop(q) ==
  /\ Running /\ pc[q] = "stopping"
  /\ held' = [held EXCEPT ![q] = NoRecording]
  /\ \/ /\ state' = [state EXCEPT ![held[q]] = "completed"]
        /\ Goto(q, IF q = Main THEN "stopAll" ELSE "stopped")
        /\ UNCHANGED <<room, rec>>
     \/ /\ state' = [state EXCEPT ![held[q]] = "failed"]
        /\ Leave(q, AfterStop(q))
  /\ UNCHANGED <<connVars, rooms, roomOf, startedBy, liveVars, todo, shelvesVars>>

(* After a stop that succeeded the recording read first is upserted: as     *)
(* COMPLETED once the answer was sent, as FAILED by handleDisconnect.       *)
NotifyStopped(s) ==
  /\ Running /\ pc[s] = "stopped"
  /\ \/ stream[s] = "open" /\ Notify(rec[s], "COMPLETED")
     \/ stream[s] = "broken" /\ UNCHANGED inFlight
     \/ stream[s] = "closed" /\ rec[s] # NoRecording /\ Notify(rec[s], "FAILED")
     \/ stream[s] = "closed" /\ rec[s] = NoRecording /\ UNCHANGED inFlight
  /\ Leave(s, AfterStop(s))
  /\ UNCHANGED <<connVars, recordingVars, liveVars, held, todo, shelves>>

-----------------------------------------------------------------------------
(* Live goroutines                                                          *)

(* The timer of the next boundary; select may choose it although the        *)
(* session has been cancelled.                                              *)
ReachBoundary(n) ==
  /\ Running /\ live[n] = "waiting" /\ boundaries[n] < MaxBoundaries
  /\ live' = [live EXCEPT ![n] = "boundary"]
  /\ boundaries' = [boundaries EXCEPT ![n] = @ + 1]
  /\ UNCHANGED <<connVars, recordingVars, sessions, cancelled, callVars, shelvesVars>>

NotifyBoundary(n) ==
  /\ Running /\ live[n] = "boundary"
  /\ Notify(n, "RECORDING")
  /\ live' = [live EXCEPT ![n] = "waiting"]
  /\ UNCHANGED <<connVars, recordingVars, sessions, cancelled, boundaries, callVars, shelves>>

EndLive(n) ==
  /\ Running /\ live[n] = "waiting" /\ n \in cancelled
  /\ live' = [live EXCEPT ![n] = "done"]
  /\ UNCHANGED <<connVars, recordingVars, sessions, cancelled, boundaries, callVars, shelvesVars>>

(* An upsert arrives, in any order, or fails and is not retried.            *)
Deliver(u) ==
  /\ Running /\ u \in inFlight
  /\ inFlight' = inFlight \ {u}
  /\ shelves' = [shelves EXCEPT ![u.rec] = u.status]
  /\ UNCHANGED <<connVars, recordingVars, liveVars, callVars>>

LoseUpsert(u) ==
  /\ Running /\ u \in inFlight
  /\ inFlight' = inFlight \ {u}
  /\ UNCHANGED <<connVars, recordingVars, liveVars, callVars, shelves>>

-----------------------------------------------------------------------------
(* Shutdown                                                                 *)

ReceiveSignal ==
  /\ MayShutDown /\ pc[Main] = "serving"
  /\ Goto(Main, "draining")
  /\ UNCHANGED <<connVars, recordingVars, liveVars, room, rec, held, todo, shelvesVars>>

(* Server.Stop: GracefulStop returns when no stream is left.                *)
GracefulStop ==
  /\ pc[Main] = "draining"
  /\ \A s \in Streams : stream[s] = "new" \/ pc[s] = "gone"
  /\ Goto(Main, "drained")
  /\ UNCHANGED <<connVars, recordingVars, liveVars, room, rec, held, todo, shelvesVars>>

NoForceStop == FALSE  \* mutant

(* The context of the shutdown expires: grpcServer.Stop closes every        *)
(* connection and does not wait for the goroutines of the streams.          *)
ForceStop ==
  /\ pc[Main] = "draining"
  /\ \E s \in Streams : stream[s] # "new" /\ pc[s] # "gone"
  /\ stream' = [s \in Streams |-> IF stream[s] = "open" THEN "broken" ELSE stream[s]]
  /\ Goto(Main, "drained")
  /\ UNCHANGED <<connectedSFU, recordingVars, liveVars, room, rec, held, todo, shelvesVars>>

TakeAllWithEmpty ==  \* mutant
  /\ pc[Main] = "drained"
  /\ todo' = [todo EXCEPT ![Main] = {rooms[r] : r \in Rooms}]
  /\ rooms' = [r \in Rooms |-> NoRecording]
  /\ Goto(Main, "stopAll")
  /\ UNCHANGED <<connVars, state, roomOf, startedBy, liveVars, room, rec, held, shelvesVars>>

(* Manager.Shutdown takes every recording out of the map, then stops them.  *)
TakeAll ==
  /\ pc[Main] = "drained"
  /\ todo' = [todo EXCEPT ![Main] = {rooms[r] : r \in Rooms} \ {NoRecording}]
  /\ rooms' = [r \in Rooms |-> NoRecording]
  /\ Goto(Main, "stopAll")
  /\ UNCHANGED <<connVars, state, roomOf, startedBy, liveVars, room, rec, held, shelvesVars>>

StopNext ==
  /\ pc[Main] = "stopAll"
  /\ \E n \in todo[Main] :
       /\ todo' = [todo EXCEPT ![Main] = @ \ {n}]
       /\ held' = [held EXCEPT ![Main] = n]
  /\ Goto(Main, "stop")
  /\ UNCHANGED <<connVars, recordingVars, liveVars, room, rec, shelvesVars>>

Exit ==
  /\ pc[Main] = "stopAll" /\ todo[Main] = {}
  /\ Goto(Main, "exited")
  /\ UNCHANGED <<connVars, recordingVars, liveVars, room, rec, held, todo, shelvesVars>>

-----------------------------------------------------------------------------
(* A step a goroutine takes by itself once it has something to do.          *)
Continue(q) ==
  \/ q \in Streams /\ \/ AnswerStarted(q) \/ StartLiveRecorder(q)
                      \/ Disconnect(q) \/ ListActiveRecordings(q) \/ NextRoom(q)
                      \/ StopLiveRecorder(q) \/ TakeRecording(q) \/ NotifyStopped(q)
  \/ BeginStop(q) \/ FinishStop(q)
  \/ q = Main /\ (GracefulStop \/ ForceStop \/ TakeAll \/ StopNext \/ Exit)

Message(s) ==
  \/ Connect(s) \/ Register(s) \/ BreakStream(s) \/ EndStream(s)
  \/ \E r \in Rooms : \/ StartRecording(s, r)
                      \/ \E n \in Recordings : StopRecording(s, r, n)

Live(n) == ReachBoundary(n) \/ NotifyBoundary(n) \/ EndLive(n)

Next ==
  \/ \E q \in Threads : Continue(q)
  \/ \E s \in Streams : Message(s)
  \/ \E n \in Recordings : Live(n)
  \/ \E u \in Upserts : Deliver(u) \/ LoseUpsert(u)
  \/ ReceiveSignal

Spec == Init /\ [][Next]_vars

(* The goroutines of the streams and of main keep running.                  *)
FairSpec == Spec /\ \A q \in Threads : WF_vars(Continue(q))

-----------------------------------------------------------------------------
(* Properties                                                               *)

Labels == {"idle", "started", "startLive", "stopLive", "take", "stop", "stopping", "stopped",
           "disconnect", "list", "next", "gone",
           "serving", "draining", "drained", "stopAll", "exited"}

(* Every variable has its type.                                             *)
TypeOK ==
  /\ stream \in [Streams -> {"new", "connected", "open", "broken", "closed"}]
  /\ connectedSFU \in Streams \cup {NoStream}
  /\ rooms \in [Rooms -> Recordings \cup {NoRecording}]
  /\ state \in [Recordings -> {"none", "recording", "stopping", "completed", "failed"}]
  /\ roomOf \in [Recordings -> Rooms \cup {NoRoom}]
  /\ startedBy \in [Recordings -> Streams \cup {NoStream}]
  /\ sessions \in [Rooms -> Recordings \cup {NoRecording}]
  /\ live \in [Recordings -> {"none", "waiting", "boundary", "done"}]
  /\ cancelled \in SUBSET Recordings
  /\ boundaries \in [Recordings -> 0..MaxBoundaries]
  /\ pc \in [Threads -> Labels]
  /\ room \in [Threads -> Rooms \cup {NoRoom}]
  /\ rec \in [Threads -> Recordings \cup {NoRecording}]
  /\ held \in [Threads -> Recordings \cup {NoRecording}]
  /\ \A q \in Threads : todo[q] \in SUBSET (IF q = Main THEN Recordings ELSE Rooms)
  /\ inFlight \in SUBSET Upserts
  /\ shelves \in [Recordings -> {"none", "RECORDING", "COMPLETED", "FAILED"}]

Mapped(n) == \E r \in Rooms : rooms[r] = n
Holders(n) == {q \in Threads : held[q] = n} \cup (IF n \in todo[Main] THEN {Main} ELSE {})

(* Every recording that is not finished is the business of exactly one      *)
(* party: the map, while it is recording, or one goroutine that took it out *)
(* of the map to stop it.  Handlers on several streams, a disconnect and    *)
(* the shutdown neither forget a recording nor stop one twice.              *)
OneKeeper ==
  \A n \in Recordings :
    LET keepers == Cardinality(Holders(n)) + Cardinality({r \in Rooms : rooms[r] = n}) IN
    /\ state[n] \in {"recording", "stopping"} => keepers = 1
    /\ state[n] \in Finished \cup {"none"} => keepers = 0
    /\ state[n] = "stopping" => ~Mapped(n)

Phase(n) ==
  IF state[n] \in Finished \cup {"none"} THEN state[n]
  ELSE IF rooms[roomOf[n]] = n THEN "active" ELSE "ending"

Contract == INSTANCE ManagerContract WITH
  phase <- [n \in Recordings |-> Phase(n)], place <- roomOf

(* The service keeps the contract of its manager: a room has one active     *)
(* recording, which starts only when the room has none; once taken from the *)
(* map it is ended, once, and never active again.                           *)
ImplementsManagerContract == Contract!Spec

(* A live goroutine that nobody has cancelled is registered as the session  *)
(* of its room, so that the next stop or start in the room cancels it.      *)
LiveIsRegistered ==
  \A n \in Recordings :
    live[n] \in {"waiting", "boundary"} /\ n \notin cancelled => sessions[roomOf[n]] = n

(* What a stop is about to report to Shelves as COMPLETED or FAILED is no   *)
(* longer the active recording of any room.  The handler reads the          *)
(* recording before the stop and upserts it after the stop: meanwhile       *)
(* another stream may have stopped it and started the next one, which this  *)
(* stop then takes, but the recording reported has ended, by whatever stop. *)
ReportsEnded ==
  \A s \in Streams : pc[s] = "stopped" /\ rec[s] # NoRecording => ~Mapped(rec[s])

(* With one stream, Shelves is told an outcome only when the recording has  *)
(* one, and COMPLETED only when it is "completed": the recording read       *)
(* before the stop is the one that the stop took from the map.  FAILED is   *)
(* told of either outcome; that it is not told of each failure, and of more *)
(* than failures, is FinalizeErrorIsReported and ReportedFailedIsFailed.    *)
OutcomesFollowStop ==
  \A u \in inFlight :
    /\ u.status = "COMPLETED" => state[u.rec] = "completed"
    /\ u.status = "FAILED" => state[u.rec] \in Finished

(* With one stream, a finished recording keeps no live session, unless the  *)
(* shutdown stopped it.                                                     *)
SessionsFollowStop ==
  \A n \in Recordings :
    state[n] \in Finished /\ pc[Main] \in {"serving", "draining"} => sessions[roomOf[n]] # n

(* A recording active when a registered SFU disconnects is finalized, if    *)
(* the process lives on.                                                    *)
DisconnectFinalizes ==
  \A s \in Streams, n \in Recordings :
    pc[s] = "list" /\ state[n] = "recording" ~> state[n] \in Finished \/ ~Running

(* A shutdown ends, whatever the streams do.                                *)
ShutdownEnds == pc[Main] = "draining" ~> pc[Main] = "exited"

-----------------------------------------------------------------------------
(* Statements of the comments and the documentation that the code does not  *)
(* keep                                                                     *)

(* Shutdown stops all recordings                                            *)
(* (internal/recording/manager.go: "Shutdown gracefully stops all           *)
(* recordings").                                                            *)
ShutdownFinalizesAll == pc[Main] = "exited" => \A n \in Created : state[n] \in Finished

(* A disconnect stops recordings of the SFU that disconnected               *)
(* (internal/grpc/server.go: "Stop all active recordings from this SFU").   *)
DisconnectStopsOwn ==
  \A s \in Streams :
    stream[s] = "closed" /\ held[s] # NoRecording => startedBy[held[s]] = s

(* Once an SFU's stream is gone its recordings do not go on                 *)
(* (docs/RECORDING_END_TO_END.md: "On SFU disconnect, active recordings are *)
(* stopped").                                                               *)
NoRecordingWithoutStream ==
  \A n \in Recordings :
    state[n] = "recording" /\ Mapped(n) => \E s \in Streams : pc[s] # "gone" /\ stream[s] # "new"

(* Shelves ends up with the outcome of a recording                          *)
(* (docs/RECORDING_END_TO_END.md: "Status transitions: recording ->         *)
(* completed (normal stop)").                                               *)
ShelvesKeepsOutcome ==
  [][\A n \in Recordings : shelves[n] = "COMPLETED" => shelves'[n] # "RECORDING"]_vars

(* Shelves is told FAILED of a recording whose finalization failed          *)
(* (docs/RECORDING_END_TO_END.md: "recording -> failed (SFU disconnect or   *)
(* finalize error)"); neither a stop, a disconnect nor the shutdown does.   *)
FinalizeErrorIsReported ==
  \A n \in Recordings :
    state[n] = "failed" ~> [rec |-> n, status |-> "FAILED"] \in inFlight \/ ~Running

(* What Shelves is told has failed has failed (the same sentence): the      *)
(* recordings of a disconnect are reported FAILED once they are completed.  *)
ReportedFailedIsFailed ==
  \A u \in inFlight : u.status = "FAILED" => state[u.rec] = "failed"
===============================================================================
