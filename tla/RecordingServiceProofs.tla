------------------------ MODULE RecordingServiceProofs ------------------------
(***************************************************************************)
(* Proofs about RecordingService for any streams and rooms, with or        *)
(* without a client of Shelves and of the compositer, and any bounds.  The *)
(* inductive invariant has three layers: TypeInv, where each goroutine can *)
(* be and what it then has in its variables (CallInv), and who has to stop *)
(* each recording (KeeperInv).                                             *)
(***************************************************************************)
EXTENDS RecordingService, FiniteSetTheorems, TLAPS

MainLabels == {"serving", "draining", "drained", "stopAll", "stop", "stopping", "exited"}
StreamLabels == {"idle", "started", "startLive", "stopLive", "take", "stop", "stopping",
                 "stopped", "disconnect", "list", "next", "gone"}
StartLabels == {"started", "startLive"}
StopLabels == {"stopLive", "take", "stop", "stopping", "stopped"}
EndLabels == {"disconnect", "list", "next", "gone"}
StopOfManager == {"stop", "stopping"}

TypeInv == TypeOK /\ DOMAIN todo = Threads

(* A handler that starts a recording or stops one works on a room, and on   *)
(* the recording that it has started or, if a message asked it to stop one, *)
(* that it was told of; only the end of a stream can leave it without one.  *)
(* Inside Manager.StopRecording, and only there, it holds the recording     *)
(* that it took out of the map.                                             *)
CallInv ==
  /\ pc[Main] \in MainLabels
  /\ todo[Main] # {} => pc[Main] \in {"stopAll"} \cup StopOfManager
  /\ \A q \in Threads : held[q] # NoRecording <=> pc[q] \in StopOfManager
  /\ \A s \in Streams :
       /\ pc[s] \in StreamLabels
       /\ pc[s] \in StartLabels \cup StopLabels => room[s] \in Rooms
       /\ pc[s] \in StartLabels => /\ rec[s] \in Created
                                   /\ roomOf[rec[s]] = room[s]
       /\ pc[s] \in StopLabels /\ stream[s] # "closed" => rec[s] \in Created
       /\ pc[s] \in EndLabels => stream[s] = "closed"

(* The recordings started are the first ones.                               *)
CreatedInv ==
  /\ \A m, n \in Recordings : m < n /\ state[n] # "none" => state[m] # "none"
  /\ \A n \in Recordings :
       /\ state[n] = "none" => live[n] = "none" /\ roomOf[n] = NoRoom
       /\ state[n] # "none" => roomOf[n] \in Rooms

(* What the map, a goroutine, or the shutdown keeps is not finished, and no *)
(* two of them keep the same recording.                                     *)
KeptInv ==
  /\ \A r \in Rooms : rooms[r] # NoRecording =>
       state[rooms[r]] = "recording" /\ roomOf[rooms[r]] = r
  /\ \A n \in todo[Main] : state[n] = "recording" /\ ~Mapped(n)
  /\ \A q \in Threads : held[q] # NoRecording =>
       /\ state[held[q]] = IF pc[q] = "stop" THEN "recording" ELSE "stopping"
       /\ ~Mapped(held[q]) /\ held[q] \notin todo[Main]
       /\ \A p \in Threads : held[p] = held[q] => p = q

(* A recording that is not finished is kept by one of them.                 *)
UnfinishedInv ==
  \A n \in Recordings : state[n] \in {"recording", "stopping"} =>
    Mapped(n) \/ n \in todo[Main] \/ \E q \in Threads : held[q] = n

KeeperInv == CreatedInv /\ KeptInv /\ UnfinishedInv

IInv == TypeInv /\ CallInv /\ KeeperInv /\ LiveIsRegistered
-----------------------------------------------------------------------------
(* Pieces of the actions.                                                   *)

LEMMA AfterStopType ==
  ASSUME NEW q \in Threads
  PROVE  /\ AfterStop(q) \in {"stopAll", "next", "idle"}
         /\ AfterStop(q) \in Labels
BY DEF AfterStop, Labels

LEMMA NotifyType ==
  ASSUME TypeOK, NEW n \in Recordings, NEW status \in {"RECORDING", "COMPLETED", "FAILED"},
         Notify(n, status)
  PROVE  inFlight' \in SUBSET Upserts
BY DEF TypeOK, Notify, Upserts

-----------------------------------------------------------------------------
(* Types.                                                                   *)

LEMMA InitTypeInv == Init => TypeInv
BY ServiceAssumption DEF Init, TypeInv, TypeOK, Threads, Recordings, NoRecording, Labels

LEMMA NextTypeInv == TypeInv /\ CallInv /\ [Next]_vars => TypeInv'
<1> SUFFICES ASSUME TypeInv, CallInv, [Next]_vars PROVE TypeInv'
  OBVIOUS
<1> USE DEF TypeInv, TypeOK, Goto, Leave, vars, connVars, recordingVars, liveVars, callVars,
        shelvesVars
<1>1. ASSUME NEW s \in Streams, Connect(s) PROVE TypeInv'
  BY <1>1 DEF Connect, Labels
<1>2. ASSUME NEW s \in Streams, Register(s) PROVE TypeInv'
  BY <1>2 DEF Register, Labels
<1>3. ASSUME NEW s \in Streams, BreakStream(s) PROVE TypeInv'
  BY <1>3 DEF BreakStream, Labels
<1>4. ASSUME NEW s \in Streams, EndStream(s) PROVE TypeInv'
  BY <1>4 DEF EndStream, Labels
<1>5. ASSUME NEW s \in Streams, NEW r \in Rooms, StartRecording(s, r) PROVE TypeInv'
  BY <1>5 DEF StartRecording, Labels, Threads
<1>6. ASSUME NEW s \in Streams, AnswerStarted(s) PROVE TypeInv'
  BY <1>6, NotifyType DEF AnswerStarted, Labels, Threads, CallInv, StartLabels, Created, NoRecording
<1>7. ASSUME NEW s \in Streams, StartLiveRecorder(s) PROVE TypeInv'
  BY <1>7 DEF StartLiveRecorder, Labels, Threads, CallInv, StartLabels, Created
<1>8. ASSUME NEW s \in Streams, NEW r \in Rooms, NEW n \in Recordings, StopRecording(s, r, n) PROVE TypeInv'
  BY <1>8 DEF StopRecording, Labels, Threads, NoRecording
<1>9. ASSUME NEW s \in Streams, Disconnect(s) PROVE TypeInv'
  BY <1>9 DEF Disconnect, Labels
<1>10. ASSUME NEW s \in Streams, ListActiveRecordings(s) PROVE TypeInv'
  BY <1>10, ServiceAssumption DEF ListActiveRecordings, Labels, Threads
<1>11. ASSUME NEW s \in Streams, NextRoom(s) PROVE TypeInv'
  BY <1>11, ServiceAssumption DEF NextRoom, Labels, Threads
<1>12. ASSUME NEW s \in Streams, StopLiveRecorder(s) PROVE TypeInv'
  BY <1>12 DEF StopLiveRecorder, CallInv, StopLabels, Labels, Threads, NoRecording
<1>13. ASSUME NEW s \in Streams, TakeRecording(s) PROVE TypeInv'
  <2>1. room[s] \in Rooms /\ s \in Threads
    BY <1>13 DEF TakeRecording, CallInv, StopLabels, Threads
  <2>2. CASE rooms[room[s]] = NoRecording
    BY <1>13, <2>1, <2>2, AfterStopType DEF TakeRecording, NoRecording
  <2>3. CASE rooms[room[s]] # NoRecording
    BY <1>13, <2>1, <2>3 DEF TakeRecording, Labels
  <2> QED
    BY <2>2, <2>3
<1>14. ASSUME NEW s \in Streams, NotifyStopped(s) PROVE TypeInv'
  BY <1>14, NotifyType, AfterStopType DEF NotifyStopped, Threads, CallInv, StopLabels, Created, NoRecording
<1>15. ASSUME NEW q \in Threads, BeginStop(q) PROVE TypeInv'
  BY <1>15, AfterStopType DEF BeginStop, CallInv, StopOfManager, Labels, NoRecording
<1>16. ASSUME NEW q \in Threads, FinishStop(q) PROVE TypeInv'
  BY <1>16, AfterStopType DEF FinishStop, CallInv, StopOfManager, Labels, NoRecording
<1>17. ASSUME GracefulStop PROVE TypeInv'
  BY <1>17 DEF GracefulStop, Labels
<1>18. ASSUME ForceStop PROVE TypeInv'
  BY <1>18 DEF ForceStop, Labels
<1>19. ASSUME TakeAll PROVE TypeInv'
  BY <1>19 DEF TakeAll, Labels, NoRecording, Threads
<1>20. ASSUME StopNext PROVE TypeInv'
  BY <1>20 DEF StopNext, Labels, Threads
<1>21. ASSUME Exit PROVE TypeInv'
  BY <1>21 DEF Exit, Labels
<1>22. ASSUME ReceiveSignal PROVE TypeInv'
  BY <1>22 DEF ReceiveSignal, Labels
<1>23. ASSUME NEW n \in Recordings, ReachBoundary(n) PROVE TypeInv'
  BY <1>23, ServiceAssumption DEF ReachBoundary, Labels
<1>24. ASSUME NEW n \in Recordings, NotifyBoundary(n) PROVE TypeInv'
  BY <1>24, NotifyType DEF NotifyBoundary, Labels
<1>25. ASSUME NEW n \in Recordings, EndLive(n) PROVE TypeInv'
  BY <1>25 DEF EndLive, Labels
<1>26. ASSUME NEW u \in Upserts, Deliver(u) PROVE TypeInv'
  BY <1>26 DEF Deliver, Upserts
<1>27. ASSUME NEW u \in Upserts, LoseUpsert(u) PROVE TypeInv'
  BY <1>27 DEF LoseUpsert, Labels
<1>28. CASE UNCHANGED vars
  BY <1>28
<1> QED
  BY <1>1, <1>2, <1>3, <1>4, <1>5, <1>6, <1>7, <1>8, <1>9, <1>10, <1>11, <1>12, <1>13, <1>14, <1>15, <1>16, <1>17, <1>18, <1>19, <1>20, <1>21, <1>22, <1>23, <1>24, <1>25, <1>26, <1>27, <1>28
     DEF Next, Continue, Message, Live

LEMMA Distinct ==
  /\ NoRecording \notin Recordings /\ Main \notin Streams
  /\ NoRoom \notin Rooms /\ NoStream \notin Streams
BY ServiceAssumption DEF Recordings, NoRecording

(* The number that StartRecording gives is that of no earlier recording,    *)
(* and the recordings started remain the first ones.                        *)
LEMMA NextIsFresh ==
  ASSUME TypeInv, CreatedInv, NEW n \in Recordings, n = Cardinality(Created) + 1
  PROVE  /\ state[n] = "none"
         /\ \A m \in Recordings : m < n => state[m] # "none"
<1>1. IsFiniteSet(Recordings)
  BY FS_Interval, ServiceAssumption DEF Recordings
<1>2. IsFiniteSet(Created) /\ Cardinality(Created) \in Nat
  BY <1>1, FS_Subset, FS_CardinalityType DEF Created
<1>3. ASSUME state[n] # "none" PROVE FALSE
  <2>1. 1..n \subseteq Created
    <3>1. n \in 1..MaxRecordings /\ \A m \in 1..n : m \in 1..MaxRecordings
      BY ServiceAssumption DEF Recordings
    <3>2. \A m \in 1..n : m = n \/ m < n
      BY <3>1
    <3> QED
      BY <1>3, <3>1, <3>2 DEF CreatedInv, Created, Recordings
  <2>2. Cardinality(1..n) <= Cardinality(Created)
    BY <1>2, <2>1, FS_Subset
  <2>3. Cardinality(1..n) = n
    BY FS_Interval DEF Recordings
  <2> QED
    BY <1>2, <2>2, <2>3 DEF Recordings
<1>4. ASSUME NEW m \in Recordings, m < n, state[m] = "none" PROVE FALSE
  <2>1. Created \subseteq 1..m - 1
    BY <1>4 DEF CreatedInv, Created, Recordings
  <2>2. Cardinality(1..m - 1) = m - 1 /\ IsFiniteSet(1..m - 1)
    <3>1. m - 1 \in Nat /\ 1 <= m
      BY DEF Recordings
    <3> QED
      BY <3>1, FS_Interval
  <2>3. Cardinality(Created) <= m - 1
    BY <2>1, <2>2, FS_Subset
  <2> QED
    BY <1>2, <1>4, <2>3 DEF Recordings
<1> QED
  BY <1>3, <1>4

LEMMA StartsFresh ==
  ASSUME TypeInv, CreatedInv, NEW s \in Streams, NEW r \in Rooms, StartRecording(s, r)
  PROVE  \E n \in Recordings :
           /\ state[n] = "none"
           /\ \A m \in Recordings : m < n => state[m] # "none"
           /\ rooms[r] = NoRecording
           /\ rooms' = [rooms EXCEPT ![r] = n]
           /\ state' = [state EXCEPT ![n] = "recording"]
           /\ roomOf' = [roomOf EXCEPT ![n] = r]
           /\ rec' = [rec EXCEPT ![s] = n] /\ room' = [room EXCEPT ![s] = r]
           /\ pc[s] = "idle" /\ pc' = [pc EXCEPT ![s] = "started"]
           /\ stream[s] # "closed"
           /\ UNCHANGED <<connVars, liveVars, held, todo, shelvesVars>>
BY NextIsFresh DEF StartRecording, Unused, Receives, Goto

-----------------------------------------------------------------------------
(* Where the goroutines are.                                                *)

LEMMA InitCallInv == Init => CallInv
BY ServiceAssumption DEF Init, CallInv, Threads, NoRecording, MainLabels, StreamLabels,
   StopOfManager, StartLabels, StopLabels, EndLabels

LEMMA NextCallInv == TypeInv /\ CallInv /\ KeeperInv /\ [Next]_vars => CallInv'
<1> SUFFICES ASSUME TypeInv, CallInv, KeeperInv, [Next]_vars PROVE CallInv'
  OBVIOUS
<1> USE DEF TypeInv, TypeOK, CallInv, Goto, Leave, vars, connVars, recordingVars, liveVars, callVars,
        shelvesVars, Threads, StreamLabels, MainLabels, StartLabels, StopLabels, EndLabels,
        StopOfManager, Created
<1>1. ASSUME NEW s \in Streams, Connect(s) PROVE CallInv'
  BY <1>1, Distinct DEF Connect
<1>2. ASSUME NEW s \in Streams, Register(s) PROVE CallInv'
  BY <1>2, Distinct DEF Register
<1>3. ASSUME NEW s \in Streams, BreakStream(s) PROVE CallInv'
  BY <1>3, Distinct DEF BreakStream
<1>4. ASSUME NEW s \in Streams, EndStream(s) PROVE CallInv'
  BY <1>4, Distinct DEF EndStream
<1>5. ASSUME NEW s \in Streams, NEW r \in Rooms, StartRecording(s, r) PROVE CallInv'
  BY <1>5, Distinct, StartsFresh DEF KeeperInv
<1>6. ASSUME NEW s \in Streams, AnswerStarted(s) PROVE CallInv'
  BY <1>6, Distinct DEF AnswerStarted
<1>7. ASSUME NEW s \in Streams, StartLiveRecorder(s) PROVE CallInv'
  BY <1>7, Distinct DEF StartLiveRecorder
<1>8. ASSUME NEW s \in Streams, NEW r \in Rooms, NEW n \in Recordings, StopRecording(s, r, n) PROVE CallInv'
  BY <1>8, Distinct DEF StopRecording, Receives, KeeperInv, KeptInv
<1>9. ASSUME NEW s \in Streams, Disconnect(s) PROVE CallInv'
  BY <1>9, Distinct DEF Disconnect
<1>10. ASSUME NEW s \in Streams, ListActiveRecordings(s) PROVE CallInv'
  BY <1>10, Distinct DEF ListActiveRecordings
<1>11. ASSUME NEW s \in Streams, NextRoom(s) PROVE CallInv'
  BY <1>11, Distinct DEF NextRoom
<1>12. ASSUME NEW s \in Streams, StopLiveRecorder(s) PROVE CallInv'
  BY <1>12, Distinct DEF StopLiveRecorder
<1>13. ASSUME NEW s \in Streams, TakeRecording(s) PROVE CallInv'
  BY <1>13, Distinct DEF TakeRecording, AfterStop
<1>14. ASSUME NEW s \in Streams, NotifyStopped(s) PROVE CallInv'
  BY <1>14, Distinct DEF NotifyStopped, AfterStop
<1>15. ASSUME NEW q \in Threads, BeginStop(q) PROVE CallInv'
  BY <1>15, Distinct DEF BeginStop, AfterStop
<1>16. ASSUME NEW q \in Threads, FinishStop(q) PROVE CallInv'
  BY <1>16, Distinct DEF FinishStop, AfterStop
<1>17. ASSUME GracefulStop PROVE CallInv'
  BY <1>17, Distinct DEF GracefulStop
<1>18. ASSUME ForceStop PROVE CallInv'
  BY <1>18, Distinct DEF ForceStop
<1>19. ASSUME TakeAll PROVE CallInv'
  BY <1>19, Distinct DEF TakeAll
<1>20. ASSUME StopNext PROVE CallInv'
  BY <1>20, Distinct DEF StopNext
<1>21. ASSUME Exit PROVE CallInv'
  BY <1>21, Distinct DEF Exit
<1>22. ASSUME ReceiveSignal PROVE CallInv'
  BY <1>22, Distinct DEF ReceiveSignal
<1>23. ASSUME NEW n \in Recordings, ReachBoundary(n) PROVE CallInv'
  BY <1>23, Distinct DEF ReachBoundary
<1>24. ASSUME NEW n \in Recordings, NotifyBoundary(n) PROVE CallInv'
  BY <1>24, Distinct DEF NotifyBoundary
<1>25. ASSUME NEW n \in Recordings, EndLive(n) PROVE CallInv'
  BY <1>25, Distinct DEF EndLive
<1>26. ASSUME NEW u \in Upserts, Deliver(u) PROVE CallInv'
  BY <1>26, Distinct DEF Deliver
<1>27. ASSUME NEW u \in Upserts, LoseUpsert(u) PROVE CallInv'
  BY <1>27, Distinct DEF LoseUpsert
<1>28. CASE UNCHANGED vars
  BY <1>28
<1> QED
  BY <1>1, <1>2, <1>3, <1>4, <1>5, <1>6, <1>7, <1>8, <1>9, <1>10, <1>11, <1>12, <1>13, <1>14, <1>15, <1>16, <1>17, <1>18, <1>19, <1>20, <1>21, <1>22, <1>23, <1>24, <1>25, <1>26, <1>27, <1>28
     DEF Next, Continue, Message, Live

-----------------------------------------------------------------------------
(* Who keeps each recording.                                                *)

LEMMA InitKeeperInv == Init => KeeperInv
BY Distinct DEF Init, KeeperInv, CreatedInv, KeptInv, UnfinishedInv, Mapped, Threads,
   NoRecording

LEMMA NextCreatedInv == TypeInv /\ CallInv /\ KeeperInv /\ [Next]_vars => CreatedInv'
<1> SUFFICES ASSUME TypeInv, CallInv, KeeperInv, [Next]_vars PROVE CreatedInv'
  OBVIOUS
<1> USE DEF TypeInv, TypeOK, Goto, Leave, vars, connVars, recordingVars, liveVars, callVars,
        shelvesVars, KeeperInv, CreatedInv
<1>1. ASSUME NEW s \in Streams, Connect(s) PROVE CreatedInv'
  BY <1>1, Distinct DEF Connect
<1>2. ASSUME NEW s \in Streams, Register(s) PROVE CreatedInv'
  BY <1>2, Distinct DEF Register
<1>3. ASSUME NEW s \in Streams, BreakStream(s) PROVE CreatedInv'
  BY <1>3, Distinct DEF BreakStream
<1>4. ASSUME NEW s \in Streams, EndStream(s) PROVE CreatedInv'
  BY <1>4, Distinct DEF EndStream
<1>5. ASSUME NEW s \in Streams, NEW r \in Rooms, StartRecording(s, r) PROVE CreatedInv'
  <2>1. PICK n \in Recordings :
          /\ \A m \in Recordings : m < n => state[m] # "none"
          /\ state' = [state EXCEPT ![n] = "recording"]
          /\ roomOf' = [roomOf EXCEPT ![n] = r] /\ live' = live
    BY <1>5, StartsFresh
  <2>2. \A m \in Recordings : state'[m] = IF m = n THEN "recording" ELSE state[m]
    BY <2>1
  <2>3. \A m, k \in Recordings : m < k /\ state'[k] # "none" => state'[m] # "none"
    BY <2>1, <2>2
  <2> QED
    BY <2>1, <2>2, <2>3, Distinct
<1>6. ASSUME NEW s \in Streams, AnswerStarted(s) PROVE CreatedInv'
  BY <1>6, Distinct DEF AnswerStarted
<1>7. ASSUME NEW s \in Streams, StartLiveRecorder(s) PROVE CreatedInv'
  BY <1>7, Distinct DEF StartLiveRecorder, CallInv, StartLabels, Created
<1>8. ASSUME NEW s \in Streams, NEW r \in Rooms, NEW n \in Recordings, StopRecording(s, r, n) PROVE CreatedInv'
  BY <1>8, Distinct DEF StopRecording
<1>9. ASSUME NEW s \in Streams, Disconnect(s) PROVE CreatedInv'
  BY <1>9, Distinct DEF Disconnect
<1>10. ASSUME NEW s \in Streams, ListActiveRecordings(s) PROVE CreatedInv'
  BY <1>10, Distinct DEF ListActiveRecordings
<1>11. ASSUME NEW s \in Streams, NextRoom(s) PROVE CreatedInv'
  BY <1>11, Distinct DEF NextRoom
<1>12. ASSUME NEW s \in Streams, StopLiveRecorder(s) PROVE CreatedInv'
  BY <1>12, Distinct DEF StopLiveRecorder
<1>13. ASSUME NEW s \in Streams, TakeRecording(s) PROVE CreatedInv'
  BY <1>13, Distinct DEF TakeRecording
<1>14. ASSUME NEW s \in Streams, NotifyStopped(s) PROVE CreatedInv'
  BY <1>14, Distinct DEF NotifyStopped
<1>15. ASSUME NEW q \in Threads, BeginStop(q) PROVE CreatedInv'
  BY <1>15, Distinct DEF BeginStop
<1>16. ASSUME NEW q \in Threads, FinishStop(q) PROVE CreatedInv'
  BY <1>16, Distinct DEF FinishStop, CallInv, StopOfManager, KeptInv
<1>17. ASSUME GracefulStop PROVE CreatedInv'
  BY <1>17, Distinct DEF GracefulStop
<1>18. ASSUME ForceStop PROVE CreatedInv'
  BY <1>18, Distinct DEF ForceStop
<1>19. ASSUME TakeAll PROVE CreatedInv'
  BY <1>19, Distinct DEF TakeAll
<1>20. ASSUME StopNext PROVE CreatedInv'
  BY <1>20, Distinct DEF StopNext
<1>21. ASSUME Exit PROVE CreatedInv'
  BY <1>21, Distinct DEF Exit
<1>22. ASSUME ReceiveSignal PROVE CreatedInv'
  BY <1>22, Distinct DEF ReceiveSignal
<1>23. ASSUME NEW n \in Recordings, ReachBoundary(n) PROVE CreatedInv'
  BY <1>23, Distinct DEF ReachBoundary
<1>24. ASSUME NEW n \in Recordings, NotifyBoundary(n) PROVE CreatedInv'
  BY <1>24, Distinct DEF NotifyBoundary
<1>25. ASSUME NEW n \in Recordings, EndLive(n) PROVE CreatedInv'
  BY <1>25, Distinct DEF EndLive
<1>26. ASSUME NEW u \in Upserts, Deliver(u) PROVE CreatedInv'
  BY <1>26, Distinct DEF Deliver
<1>27. ASSUME NEW u \in Upserts, LoseUpsert(u) PROVE CreatedInv'
  BY <1>27, Distinct DEF LoseUpsert
<1>28. CASE UNCHANGED vars
  BY <1>28
<1> QED
  BY <1>1, <1>2, <1>3, <1>4, <1>5, <1>6, <1>7, <1>8, <1>9, <1>10, <1>11, <1>12, <1>13, <1>14, <1>15, <1>16, <1>17, <1>18, <1>19, <1>20, <1>21, <1>22, <1>23, <1>24, <1>25, <1>26, <1>27, <1>28
     DEF Next, Continue, Message, Live

LEMMA NextKeptInv == TypeInv /\ CallInv /\ KeeperInv /\ [Next]_vars => KeptInv'
<1> SUFFICES ASSUME TypeInv, CallInv, KeeperInv, [Next]_vars PROVE KeptInv'
  OBVIOUS
<1> USE DEF TypeInv, TypeOK, Goto, Leave, vars, connVars, recordingVars, liveVars, callVars,
        shelvesVars,
        KeeperInv, KeptInv, Mapped
<1>1. ASSUME NEW s \in Streams, Connect(s) PROVE KeptInv'
  BY <1>1, Distinct DEF Connect, CallInv, StopOfManager, Threads
<1>2. ASSUME NEW s \in Streams, Register(s) PROVE KeptInv'
  BY <1>2, Distinct DEF Register, CallInv, StopOfManager, Threads
<1>3. ASSUME NEW s \in Streams, BreakStream(s) PROVE KeptInv'
  BY <1>3, Distinct DEF BreakStream, CallInv, StopOfManager, Threads
<1>4. ASSUME NEW s \in Streams, EndStream(s) PROVE KeptInv'
  BY <1>4, Distinct DEF EndStream, CallInv, StopOfManager, Threads
<1>5. ASSUME NEW s \in Streams, NEW r \in Rooms, StartRecording(s, r) PROVE KeptInv'
  BY <1>5, Distinct, StartsFresh DEF CallInv, StopOfManager, Threads, CreatedInv
<1>6. ASSUME NEW s \in Streams, AnswerStarted(s) PROVE KeptInv'
  BY <1>6, Distinct DEF AnswerStarted, CallInv, StopOfManager, Threads
<1>7. ASSUME NEW s \in Streams, StartLiveRecorder(s) PROVE KeptInv'
  BY <1>7, Distinct DEF StartLiveRecorder, CallInv, StopOfManager, Threads
<1>8. ASSUME NEW s \in Streams, NEW r \in Rooms, NEW n \in Recordings, StopRecording(s, r, n) PROVE KeptInv'
  BY <1>8, Distinct DEF StopRecording, Receives, CallInv, StopOfManager, Threads
<1>9. ASSUME NEW s \in Streams, Disconnect(s) PROVE KeptInv'
  BY <1>9, Distinct DEF Disconnect, CallInv, StopOfManager, Threads
<1>10. ASSUME NEW s \in Streams, ListActiveRecordings(s) PROVE KeptInv'
  BY <1>10, Distinct DEF ListActiveRecordings, CallInv, StopOfManager, Threads
<1>11. ASSUME NEW s \in Streams, NextRoom(s) PROVE KeptInv'
  BY <1>11, Distinct DEF NextRoom, CallInv, StopOfManager, Threads
<1>12. ASSUME NEW s \in Streams, StopLiveRecorder(s) PROVE KeptInv'
  BY <1>12, Distinct DEF StopLiveRecorder, CallInv, StopOfManager, Threads
<1>13. ASSUME NEW s \in Streams, TakeRecording(s) PROVE KeptInv'
  <2>0. /\ s \in Threads /\ s # Main /\ room[s] \in Rooms
        /\ pc[s] = "take" /\ held[s] = NoRecording
    BY <1>13, Distinct DEF TakeRecording, CallInv, StopLabels, StopOfManager, Threads
  <2>1. CASE rooms[room[s]] = NoRecording
    BY <1>13, <2>0, <2>1 DEF TakeRecording, AfterStop, CallInv, StopOfManager
  <2>2. CASE rooms[room[s]] # NoRecording
    <3>1. /\ held' = [held EXCEPT ![s] = rooms[room[s]]]
          /\ rooms' = [rooms EXCEPT ![room[s]] = NoRecording]
          /\ pc' = [pc EXCEPT ![s] = "stop"]
          /\ UNCHANGED <<state, roomOf, todo>>
      BY <1>13, <2>2 DEF TakeRecording
    <3> DEFINE n == rooms[room[s]]
    <3>2. /\ n \in Recordings /\ state[n] = "recording" /\ roomOf[n] = room[s]
          /\ n \notin todo[Main] /\ \A q \in Threads : held[q] # n
      BY <2>0, <2>2, Distinct
    <3>3. \A x \in Rooms : rooms'[x] = IF x = room[s] THEN NoRecording ELSE rooms[x]
      BY <2>0, <3>1
    <3>4. \A m \in Recordings : Mapped(m)' => Mapped(m) /\ m # n
      BY <2>0, <3>2, <3>3, Distinct
    <3>5. \A q \in Threads : /\ held'[q] = IF q = s THEN n ELSE held[q]
                             /\ pc'[q] = IF q = s THEN "stop" ELSE pc[q]
      BY <2>0, <3>1
    <3>6. \A r \in Rooms : rooms'[r] # NoRecording =>
            state'[rooms'[r]] = "recording" /\ roomOf'[rooms'[r]] = r
      BY <3>1, <3>3
    <3>7. \A m \in todo'[Main] : state'[m] = "recording" /\ ~Mapped(m)'
      BY <3>1, <3>4 DEF Threads
    <3>8. ASSUME NEW q \in Threads, held'[q] # NoRecording
          PROVE  /\ state'[held'[q]] = IF pc'[q] = "stop" THEN "recording" ELSE "stopping"
                 /\ ~(\E r \in Rooms : rooms'[r] = held'[q]) /\ held'[q] \notin todo'[Main]
                 /\ \A p \in Threads : held'[p] = held'[q] => p = q
      <4>1. CASE q = s
        BY <3>1, <3>2, <3>4, <3>5, <4>1
      <4>2. CASE q # s
        BY <3>1, <3>2, <3>4, <3>5, <3>8, <4>2
      <4> QED
        BY <4>1, <4>2
    <3> QED
      BY <3>6, <3>7, <3>8
  <2> QED
    BY <2>1, <2>2
<1>14. ASSUME NEW s \in Streams, NotifyStopped(s) PROVE KeptInv'
  BY <1>14, Distinct DEF NotifyStopped, CallInv, StopOfManager, Threads
<1>15. ASSUME NEW q \in Threads, BeginStop(q) PROVE KeptInv'
  BY <1>15, Distinct DEF BeginStop, CallInv, StopOfManager, Threads
<1>16. ASSUME NEW q \in Threads, FinishStop(q) PROVE KeptInv'
  BY <1>16, Distinct DEF FinishStop, CallInv, StopOfManager, Threads
<1>17. ASSUME GracefulStop PROVE KeptInv'
  BY <1>17, Distinct DEF GracefulStop, CallInv, StopOfManager, Threads
<1>18. ASSUME ForceStop PROVE KeptInv'
  BY <1>18, Distinct DEF ForceStop, CallInv, StopOfManager, Threads
<1>19. ASSUME TakeAll PROVE KeptInv'
  BY <1>19, Distinct DEF TakeAll, CallInv, StopOfManager, Threads
<1>20. ASSUME StopNext PROVE KeptInv'
  BY <1>20, Distinct DEF StopNext, CallInv, StopOfManager, Threads
<1>21. ASSUME Exit PROVE KeptInv'
  BY <1>21, Distinct DEF Exit, CallInv, StopOfManager, Threads
<1>22. ASSUME ReceiveSignal PROVE KeptInv'
  BY <1>22, Distinct DEF ReceiveSignal, CallInv, StopOfManager, Threads
<1>23. ASSUME NEW n \in Recordings, ReachBoundary(n) PROVE KeptInv'
  BY <1>23, Distinct DEF ReachBoundary, CallInv, StopOfManager, Threads
<1>24. ASSUME NEW n \in Recordings, NotifyBoundary(n) PROVE KeptInv'
  BY <1>24, Distinct DEF NotifyBoundary, CallInv, StopOfManager, Threads
<1>25. ASSUME NEW n \in Recordings, EndLive(n) PROVE KeptInv'
  BY <1>25, Distinct DEF EndLive, CallInv, StopOfManager, Threads
<1>26. ASSUME NEW u \in Upserts, Deliver(u) PROVE KeptInv'
  BY <1>26, Distinct DEF Deliver, CallInv, StopOfManager, Threads
<1>27. ASSUME NEW u \in Upserts, LoseUpsert(u) PROVE KeptInv'
  BY <1>27, Distinct DEF LoseUpsert, CallInv, StopOfManager, Threads
<1>28. CASE UNCHANGED vars
  BY <1>28
<1> QED
  BY <1>1, <1>2, <1>3, <1>4, <1>5, <1>6, <1>7, <1>8, <1>9, <1>10, <1>11, <1>12, <1>13, <1>14, <1>15, <1>16, <1>17, <1>18, <1>19, <1>20, <1>21, <1>22, <1>23, <1>24, <1>25, <1>26, <1>27, <1>28
     DEF Next, Continue, Message, Live

LEMMA NextUnfinishedInv == TypeInv /\ CallInv /\ KeeperInv /\ [Next]_vars => UnfinishedInv'
<1> SUFFICES ASSUME TypeInv, CallInv, KeeperInv, [Next]_vars PROVE UnfinishedInv'
  OBVIOUS
<1> USE DEF TypeInv, TypeOK, Goto, Leave, vars, connVars, recordingVars, liveVars, callVars,
        shelvesVars,
        KeeperInv, UnfinishedInv, Mapped
<1>1. ASSUME NEW s \in Streams, Connect(s) PROVE UnfinishedInv'
  BY <1>1, Distinct DEF Connect, CallInv, StopOfManager, Threads
<1>2. ASSUME NEW s \in Streams, Register(s) PROVE UnfinishedInv'
  BY <1>2, Distinct DEF Register, CallInv, StopOfManager, Threads
<1>3. ASSUME NEW s \in Streams, BreakStream(s) PROVE UnfinishedInv'
  BY <1>3, Distinct DEF BreakStream, CallInv, StopOfManager, Threads
<1>4. ASSUME NEW s \in Streams, EndStream(s) PROVE UnfinishedInv'
  BY <1>4, Distinct DEF EndStream, CallInv, StopOfManager, Threads
<1>5. ASSUME NEW s \in Streams, NEW r \in Rooms, StartRecording(s, r) PROVE UnfinishedInv'
  BY <1>5, Distinct, StartsFresh
<1>6. ASSUME NEW s \in Streams, AnswerStarted(s) PROVE UnfinishedInv'
  BY <1>6, Distinct DEF AnswerStarted, CallInv, StopOfManager, Threads
<1>7. ASSUME NEW s \in Streams, StartLiveRecorder(s) PROVE UnfinishedInv'
  BY <1>7, Distinct DEF StartLiveRecorder, CallInv, StopOfManager, Threads
<1>8. ASSUME NEW s \in Streams, NEW r \in Rooms, NEW n \in Recordings, StopRecording(s, r, n) PROVE UnfinishedInv'
  BY <1>8, Distinct DEF StopRecording, CallInv, StopOfManager, Threads
<1>9. ASSUME NEW s \in Streams, Disconnect(s) PROVE UnfinishedInv'
  BY <1>9, Distinct DEF Disconnect, CallInv, StopOfManager, Threads
<1>10. ASSUME NEW s \in Streams, ListActiveRecordings(s) PROVE UnfinishedInv'
  BY <1>10, Distinct DEF ListActiveRecordings, CallInv, StopOfManager, Threads
<1>11. ASSUME NEW s \in Streams, NextRoom(s) PROVE UnfinishedInv'
  BY <1>11, Distinct DEF NextRoom, CallInv, StopOfManager, Threads
<1>12. ASSUME NEW s \in Streams, StopLiveRecorder(s) PROVE UnfinishedInv'
  BY <1>12, Distinct DEF StopLiveRecorder, CallInv, StopOfManager, Threads
<1>13. ASSUME NEW s \in Streams, TakeRecording(s) PROVE UnfinishedInv'
  BY <1>13, Distinct DEF TakeRecording, CallInv, StopOfManager, Threads
<1>14. ASSUME NEW s \in Streams, NotifyStopped(s) PROVE UnfinishedInv'
  BY <1>14, Distinct DEF NotifyStopped, CallInv, StopOfManager, Threads
<1>15. ASSUME NEW q \in Threads, BeginStop(q) PROVE UnfinishedInv'
  <2>1. /\ held[q] \in Recordings /\ state[held[q]] = "recording"
        /\ state' = [state EXCEPT ![held[q]] = "stopping"]
        /\ UNCHANGED <<held, rooms, roomOf, todo>>
    BY <1>15, Distinct DEF BeginStop, CallInv, StopOfManager, KeptInv
  <2> QED
    BY <2>1
<1>16. ASSUME NEW q \in Threads, FinishStop(q) PROVE UnfinishedInv'
  BY <1>16, Distinct DEF FinishStop, CallInv, StopOfManager, Threads
<1>17. ASSUME GracefulStop PROVE UnfinishedInv'
  BY <1>17, Distinct DEF GracefulStop, CallInv, StopOfManager, Threads
<1>18. ASSUME ForceStop PROVE UnfinishedInv'
  BY <1>18, Distinct DEF ForceStop, CallInv, StopOfManager, Threads
<1>19. ASSUME TakeAll PROVE UnfinishedInv'
  BY <1>19, Distinct DEF TakeAll, CallInv, StopOfManager, Threads
<1>20. ASSUME StopNext PROVE UnfinishedInv'
  BY <1>20, Distinct DEF StopNext, CallInv, StopOfManager, Threads
<1>21. ASSUME Exit PROVE UnfinishedInv'
  BY <1>21, Distinct DEF Exit, CallInv, StopOfManager, Threads
<1>22. ASSUME ReceiveSignal PROVE UnfinishedInv'
  BY <1>22, Distinct DEF ReceiveSignal, CallInv, StopOfManager, Threads
<1>23. ASSUME NEW n \in Recordings, ReachBoundary(n) PROVE UnfinishedInv'
  BY <1>23, Distinct DEF ReachBoundary, CallInv, StopOfManager, Threads
<1>24. ASSUME NEW n \in Recordings, NotifyBoundary(n) PROVE UnfinishedInv'
  BY <1>24, Distinct DEF NotifyBoundary, CallInv, StopOfManager, Threads
<1>25. ASSUME NEW n \in Recordings, EndLive(n) PROVE UnfinishedInv'
  BY <1>25, Distinct DEF EndLive, CallInv, StopOfManager, Threads
<1>26. ASSUME NEW u \in Upserts, Deliver(u) PROVE UnfinishedInv'
  BY <1>26, Distinct DEF Deliver, CallInv, StopOfManager, Threads
<1>27. ASSUME NEW u \in Upserts, LoseUpsert(u) PROVE UnfinishedInv'
  BY <1>27, Distinct DEF LoseUpsert, CallInv, StopOfManager, Threads
<1>28. CASE UNCHANGED vars
  BY <1>28
<1> QED
  BY <1>1, <1>2, <1>3, <1>4, <1>5, <1>6, <1>7, <1>8, <1>9, <1>10, <1>11, <1>12, <1>13, <1>14, <1>15, <1>16, <1>17, <1>18, <1>19, <1>20, <1>21, <1>22, <1>23, <1>24, <1>25, <1>26, <1>27, <1>28
     DEF Next, Continue, Message, Live

-----------------------------------------------------------------------------
(* Live sessions.                                                           *)

LEMMA InitLiveIsRegistered == Init => LiveIsRegistered
BY DEF Init, LiveIsRegistered

LEMMA NextLiveIsRegistered == TypeInv /\ CallInv /\ KeeperInv /\ LiveIsRegistered /\ [Next]_vars => LiveIsRegistered'
<1> SUFFICES ASSUME TypeInv, CallInv, KeeperInv, LiveIsRegistered, [Next]_vars PROVE LiveIsRegistered'
  OBVIOUS
<1> USE DEF TypeInv, TypeOK, Goto, Leave, vars, connVars, recordingVars, liveVars, callVars,
        shelvesVars,
        CreatedInv, KeeperInv, LiveIsRegistered
<1>1. ASSUME NEW s \in Streams, Connect(s) PROVE LiveIsRegistered'
  BY <1>1, Distinct DEF Connect, CallInv, StartLabels, StopLabels
<1>2. ASSUME NEW s \in Streams, Register(s) PROVE LiveIsRegistered'
  BY <1>2, Distinct DEF Register, CallInv, StartLabels, StopLabels
<1>3. ASSUME NEW s \in Streams, BreakStream(s) PROVE LiveIsRegistered'
  BY <1>3, Distinct DEF BreakStream, CallInv, StartLabels, StopLabels
<1>4. ASSUME NEW s \in Streams, EndStream(s) PROVE LiveIsRegistered'
  BY <1>4, Distinct DEF EndStream, CallInv, StartLabels, StopLabels
<1>5. ASSUME NEW s \in Streams, NEW r \in Rooms, StartRecording(s, r) PROVE LiveIsRegistered'
  BY <1>5, Distinct, StartsFresh
<1>6. ASSUME NEW s \in Streams, AnswerStarted(s) PROVE LiveIsRegistered'
  BY <1>6, Distinct DEF AnswerStarted, CallInv, StartLabels, StopLabels
<1>7. ASSUME NEW s \in Streams, StartLiveRecorder(s) PROVE LiveIsRegistered'
  BY <1>7, Distinct DEF StartLiveRecorder, CallInv, StartLabels, StopLabels
<1>8. ASSUME NEW s \in Streams, NEW r \in Rooms, NEW n \in Recordings, StopRecording(s, r, n) PROVE LiveIsRegistered'
  BY <1>8, Distinct DEF StopRecording, CallInv, StartLabels, StopLabels
<1>9. ASSUME NEW s \in Streams, Disconnect(s) PROVE LiveIsRegistered'
  BY <1>9, Distinct DEF Disconnect, CallInv, StartLabels, StopLabels
<1>10. ASSUME NEW s \in Streams, ListActiveRecordings(s) PROVE LiveIsRegistered'
  BY <1>10, Distinct DEF ListActiveRecordings, CallInv, StartLabels, StopLabels
<1>11. ASSUME NEW s \in Streams, NextRoom(s) PROVE LiveIsRegistered'
  BY <1>11, Distinct DEF NextRoom, CallInv, StartLabels, StopLabels
<1>12. ASSUME NEW s \in Streams, StopLiveRecorder(s) PROVE LiveIsRegistered'
  BY <1>12, Distinct DEF StopLiveRecorder, CallInv, StartLabels, StopLabels
<1>13. ASSUME NEW s \in Streams, TakeRecording(s) PROVE LiveIsRegistered'
  BY <1>13, Distinct DEF TakeRecording, CallInv, StartLabels, StopLabels
<1>14. ASSUME NEW s \in Streams, NotifyStopped(s) PROVE LiveIsRegistered'
  BY <1>14, Distinct DEF NotifyStopped, CallInv, StartLabels, StopLabels
<1>15. ASSUME NEW q \in Threads, BeginStop(q) PROVE LiveIsRegistered'
  BY <1>15, Distinct DEF BeginStop, CallInv, StartLabels, StopLabels
<1>16. ASSUME NEW q \in Threads, FinishStop(q) PROVE LiveIsRegistered'
  BY <1>16, Distinct DEF FinishStop, CallInv, StartLabels, StopLabels
<1>17. ASSUME GracefulStop PROVE LiveIsRegistered'
  BY <1>17, Distinct DEF GracefulStop, CallInv, StartLabels, StopLabels
<1>18. ASSUME ForceStop PROVE LiveIsRegistered'
  BY <1>18, Distinct DEF ForceStop, CallInv, StartLabels, StopLabels
<1>19. ASSUME TakeAll PROVE LiveIsRegistered'
  BY <1>19, Distinct DEF TakeAll, CallInv, StartLabels, StopLabels
<1>20. ASSUME StopNext PROVE LiveIsRegistered'
  BY <1>20, Distinct DEF StopNext, CallInv, StartLabels, StopLabels
<1>21. ASSUME Exit PROVE LiveIsRegistered'
  BY <1>21, Distinct DEF Exit, CallInv, StartLabels, StopLabels
<1>22. ASSUME ReceiveSignal PROVE LiveIsRegistered'
  BY <1>22, Distinct DEF ReceiveSignal, CallInv, StartLabels, StopLabels
<1>23. ASSUME NEW n \in Recordings, ReachBoundary(n) PROVE LiveIsRegistered'
  BY <1>23, Distinct DEF ReachBoundary, CallInv, StartLabels, StopLabels
<1>24. ASSUME NEW n \in Recordings, NotifyBoundary(n) PROVE LiveIsRegistered'
  BY <1>24, Distinct DEF NotifyBoundary, CallInv, StartLabels, StopLabels
<1>25. ASSUME NEW n \in Recordings, EndLive(n) PROVE LiveIsRegistered'
  BY <1>25, Distinct DEF EndLive, CallInv, StartLabels, StopLabels
<1>26. ASSUME NEW u \in Upserts, Deliver(u) PROVE LiveIsRegistered'
  BY <1>26, Distinct DEF Deliver, CallInv, StartLabels, StopLabels
<1>27. ASSUME NEW u \in Upserts, LoseUpsert(u) PROVE LiveIsRegistered'
  BY <1>27, Distinct DEF LoseUpsert, CallInv, StartLabels, StopLabels
<1>28. CASE UNCHANGED vars
  BY <1>28
<1> QED
  BY <1>1, <1>2, <1>3, <1>4, <1>5, <1>6, <1>7, <1>8, <1>9, <1>10, <1>11, <1>12, <1>13, <1>14, <1>15, <1>16, <1>17, <1>18, <1>19, <1>20, <1>21, <1>22, <1>23, <1>24, <1>25, <1>26, <1>27, <1>28
     DEF Next, Continue, Message, Live

-----------------------------------------------------------------------------
(* The inductive invariant and what follows from it.                        *)

LEMMA Inductive == Spec => []IInv
<1>1. Init => IInv
  BY InitTypeInv, InitCallInv, InitKeeperInv, InitLiveIsRegistered DEF IInv
<1>2. IInv /\ [Next]_vars => IInv'
  <2>1. KeeperInv <=> CreatedInv /\ KeptInv /\ UnfinishedInv
    BY DEF KeeperInv
  <2>2. KeeperInv' <=> CreatedInv' /\ KeptInv' /\ UnfinishedInv'
    BY DEF KeeperInv
  <2> QED
    BY <2>1, <2>2, NextTypeInv, NextCallInv, NextCreatedInv, NextKeptInv, NextUnfinishedInv,
       NextLiveIsRegistered DEF IInv
<1> QED
  BY <1>1, <1>2, PTL DEF Spec

(* Every variable of the service keeps its type: no step of a handler, of   *)
(* the manager or of main uses a room or a recording that it does not have. *)
THEOREM ServiceTypeCorrect == Spec => []TypeOK
<1>1. IInv => TypeOK
  BY DEF IInv, TypeInv
<1> QED
  BY <1>1, Inductive, PTL

(* A recording is kept either by the map, under its own room, or by the     *)
(* goroutine that holds it, or by the shutdown.                             *)
LEMMA KeptByOne ==
  ASSUME TypeInv, CallInv, KeeperInv, NEW n \in Recordings
  PROVE  LET inMap == {r \in Rooms : rooms[r] = n} IN
         /\ state[n] \in {"recording", "stopping"} =>
              \/ inMap = {roomOf[n]} /\ Holders(n) = {} /\ state[n] = "recording"
              \/ inMap = {} /\ \E q \in Threads : Holders(n) = {q}
         /\ state[n] \notin {"recording", "stopping"} => inMap = {} /\ Holders(n) = {}
<1> DEFINE inMap == {r \in Rooms : rooms[r] = n}
<1>0. n # NoRecording /\ Main \in Threads
  BY Distinct DEF Threads
<1>1. CASE Mapped(n)
  <2>1. state[n] = "recording" /\ inMap = {roomOf[n]}
    BY <1>0, <1>1 DEF Mapped, KeeperInv, KeptInv
  <2>2. Holders(n) = {}
    BY <1>0, <1>1 DEF Holders, KeeperInv, KeptInv
  <2> QED
    BY <2>1, <2>2
<1>2. CASE ~Mapped(n) /\ n \in todo[Main]
  <2>1. state[n] = "recording" /\ \A q \in Threads : held[q] # n
    BY <1>0, <1>2 DEF KeeperInv, KeptInv
  <2>2. Holders(n) = {Main} /\ inMap = {}
    BY <1>2, <2>1 DEF Holders, Mapped
  <2> QED
    BY <1>0, <2>1, <2>2
<1>3. ASSUME ~Mapped(n), NEW q \in Threads, held[q] = n
      PROVE  /\ state[n] \in {"recording", "stopping"} 
             /\ inMap = {} /\ Holders(n) = {q}
  <2>1. state[n] \in {"recording", "stopping"} /\ n \notin todo[Main]
        /\ \A p \in Threads : held[p] = n => p = q
    BY <1>0, <1>3 DEF KeeperInv, KeptInv
  <2> QED
    BY <1>3, <2>1 DEF Holders, Mapped
<1>4. CASE ~Mapped(n) /\ n \notin todo[Main] /\ \A q \in Threads : held[q] # n
  BY <1>4 DEF Holders, Mapped, KeeperInv, UnfinishedInv
<1> QED
  BY <1>1, <1>2, <1>3, <1>4

(* A recording that is not finished has exactly one keeper, the map of the  *)
(* manager or a goroutine that took it out to stop it, however the handlers *)
(* of the streams, their disconnects and the shutdown interleave.           *)
THEOREM ServiceOneKeeper == Spec => []OneKeeper
<1>1. IInv => OneKeeper
  <2> SUFFICES ASSUME IInv, NEW n \in Recordings
               PROVE  LET keepers == Cardinality(Holders(n)) + Cardinality({r \in Rooms : rooms[r] = n}) IN
                      /\ state[n] \in {"recording", "stopping"} => keepers = 1
                      /\ state[n] \in Finished \cup {"none"} => keepers = 0
                      /\ state[n] = "stopping" => ~Mapped(n)
    BY DEF OneKeeper
  <2> DEFINE inMap == {r \in Rooms : rooms[r] = n}
  <2>1. \A x : Cardinality({x}) = 1
    BY FS_Singleton
  <2>2. Cardinality({}) = 0
    BY FS_EmptySet
  <2>3. CASE state[n] \in {"recording", "stopping"}
    <3>1. \/ inMap = {roomOf[n]} /\ Holders(n) = {} /\ state[n] = "recording"
          \/ inMap = {} /\ \E q \in Threads : Holders(n) = {q}
      BY <2>3, KeptByOne DEF IInv
    <3>2. Cardinality(Holders(n)) + Cardinality(inMap) = 1
      <4>1. CASE inMap = {roomOf[n]} /\ Holders(n) = {}
        <5>1. Cardinality(inMap) = 1 /\ Cardinality(Holders(n)) = 0
          BY <2>1, <2>2, <4>1
        <5> QED
          BY <5>1
      <4>2. CASE inMap = {} /\ \E q \in Threads : Holders(n) = {q}
        <5>1. Cardinality(inMap) = 0 /\ Cardinality(Holders(n)) = 1
          BY <2>1, <2>2, <4>2
        <5> QED
          BY <5>1
      <4> QED
        BY <3>1, <4>1, <4>2
    <3>3. state[n] = "stopping" => ~Mapped(n)
      BY <3>1 DEF Mapped
    <3> QED
      BY <2>3, <3>2, <3>3 DEF Finished
  <2>4. CASE state[n] \notin {"recording", "stopping"}
    <3>1. inMap = {} /\ Holders(n) = {}
      BY <2>4, KeptByOne DEF IInv
    <3> QED
      BY <2>2, <2>4, <3>1 DEF Finished
  <2> QED
    BY <2>3, <2>4
<1> QED
  BY <1>1, Inductive, PTL

(* A live goroutine whose session was not cancelled is the one registered   *)
(* for its room, so that startLiveRecorder and stopLiveRecorder reach it.   *)
THEOREM ServiceLiveIsRegistered == Spec => []LiveIsRegistered
<1>1. IInv => LiveIsRegistered
  BY DEF IInv
<1> QED
  BY <1>1, Inductive, PTL

-----------------------------------------------------------------------------
(* The service implements the contract of the manager.                      *)

LEMMA PhaseValue ==
  ASSUME NEW n \in Recordings
  PROVE  /\ Phase(n) = (IF state[n] \in {"none", "completed", "failed"} THEN state[n]
                        ELSE IF rooms[roomOf[n]] = n THEN "active" ELSE "ending")
         /\ Phase(n)' = (IF state'[n] \in {"none", "completed", "failed"} THEN state'[n]
                         ELSE IF rooms'[roomOf'[n]] = n THEN "active" ELSE "ending")
BY DEF Phase, Finished

LEMMA PhaseOf ==
  ASSUME TypeInv, KeeperInv, NEW n \in Recordings
  PROVE  /\ Phase(n) = "none" <=> state[n] = "none"
         /\ Phase(n) = "active" <=> Mapped(n)
         /\ state[n] \in {"recording", "stopping"} /\ ~Mapped(n) => Phase(n) = "ending"
         /\ Mapped(n) => state[n] = "recording" /\ rooms[roomOf[n]] = n
<1>1. Mapped(n) <=> rooms[roomOf[n]] = n /\ state[n] = "recording"
  BY Distinct DEF Mapped, KeeperInv, KeptInv, CreatedInv
<1>2. state[n] \in {"none", "recording", "stopping", "completed", "failed"}
  BY DEF TypeInv, TypeOK
<1>3. state[n] = "stopping" => ~Mapped(n) /\ rooms[roomOf[n]] # n
  BY Distinct DEF Mapped, KeeperInv, KeptInv, CreatedInv
<1> QED
  BY <1>1, <1>2, <1>3, PhaseValue

(* The service keeps the contract of its manager: one active recording of a *)
(* room at a time, begun only when the room has none; taken once, by a      *)
(* stop, a disconnect or the shutdown; and ended once.                      *)
THEOREM ServiceImplementsManagerContract == Spec => ImplementsManagerContract
<1>1. Init => Contract!Init
  BY PhaseValue DEF Init, Contract!Init
<1>2. IInv /\ [Next]_vars => [Contract!Next]_Contract!vars
  <2> SUFFICES ASSUME IInv, [Next]_vars PROVE Contract!Next \/ UNCHANGED Contract!vars
    OBVIOUS
  <2> USE DEF IInv
  <2>1. ASSUME NEW s \in Streams, NEW r \in Rooms, StartRecording(s, r)
        PROVE  \E n \in Recordings : Contract!Begin(n, r)
    <3>1. PICK n \in Recordings :
            /\ state[n] = "none" /\ rooms[r] = NoRecording
            /\ rooms' = [rooms EXCEPT ![r] = n]
            /\ state' = [state EXCEPT ![n] = "recording"]
            /\ roomOf' = [roomOf EXCEPT ![n] = r]
      BY <2>1, StartsFresh DEF KeeperInv
    <3>2. Phase(n) = "none" /\ Phase(n)' = "active"
      BY <3>1, PhaseValue DEF TypeInv, TypeOK, KeeperInv, CreatedInv
    <3>3. \A m \in Recordings : roomOf[m] = r => Phase(m) # "active"
      BY <3>1, Distinct, PhaseOf DEF TypeInv, TypeOK
    <3>4. ASSUME NEW m \in Recordings \ {n} PROVE Phase(m)' = Phase(m)
      <4>1. state'[m] = state[m] /\ roomOf'[m] = roomOf[m]
        BY <3>1 DEF TypeInv, TypeOK
      <4>2. rooms'[roomOf[m]] = m <=> rooms[roomOf[m]] = m
        BY <3>1, <3>4, Distinct DEF TypeInv, TypeOK
      <4> QED
        BY <4>1, <4>2 DEF Phase
    <3> QED
      BY <3>1, <3>2, <3>3, <3>4 DEF Contract!Begin, Contract!Active
  <2>2. ASSUME NEW s \in Streams, TakeRecording(s), rooms[room[s]] # NoRecording
        PROVE  \E n \in Recordings : Contract!Take({n})
    <3>1. PICK n \in Recordings :
            n = rooms[room[s]] /\ room[s] \in Rooms /\ roomOf[n] = room[s] /\ state[n] = "recording"
      BY <2>2 DEF TakeRecording, CallInv, StopLabels, KeeperInv, KeptInv, TypeInv, TypeOK
    <3>2. rooms' = [rooms EXCEPT ![room[s]] = NoRecording] /\ UNCHANGED <<state, roomOf>>
      BY <2>2 DEF TakeRecording
    <3>3. Phase(n) = "active" /\ Phase(n)' = "ending"
      BY <3>1, <3>2, Distinct, PhaseValue DEF TypeInv, TypeOK
    <3>4. ASSUME NEW m \in Recordings \ {n} PROVE Phase(m)' = Phase(m)
      <4>1. rooms'[roomOf[m]] = m <=> rooms[roomOf[m]] = m
        BY <3>1, <3>2, <3>4, Distinct DEF TypeInv, TypeOK
      <4> QED
        BY <3>2, <4>1 DEF Phase
    <3> QED
      BY <3>1, <3>2, <3>3, <3>4 DEF Contract!Take
  <2>3. ASSUME TakeAll
        PROVE  \/ Contract!Take({n \in Recordings : Phase(n) = "active"})
               \/ UNCHANGED Contract!vars
    <3>1. rooms' = [r \in Rooms |-> NoRecording] /\ UNCHANGED <<state, roomOf>>
      BY <2>3 DEF TakeAll
    <3>2. ASSUME NEW n \in Recordings, Mapped(n) PROVE Phase(n)' = "ending"
      <4>1. state[n] = "recording" /\ roomOf[n] \in Rooms
        BY <3>2, PhaseOf DEF KeeperInv, CreatedInv
      <4> QED
        BY <3>1, <4>1, Distinct DEF Phase, Finished
    <3>3. ASSUME NEW n \in Recordings, ~Mapped(n) PROVE Phase(n)' = Phase(n)
      <4>1. state[n] # "none" => roomOf[n] \in Rooms /\ rooms[roomOf[n]] # n /\ rooms'[roomOf[n]] # n
        BY <3>1, <3>3, Distinct DEF KeeperInv, CreatedInv, Mapped
      <4> QED
        BY <3>1, <4>1 DEF Phase, Finished
    <3>4. \A n \in Recordings : Phase(n) = "active" <=> Mapped(n)
      BY PhaseOf
    <3> DEFINE taken == {n \in Recordings : Phase(n) = "active"}
    <3>5. CASE taken = {}
      BY <3>1, <3>3, <3>4, <3>5 DEF Contract!vars
    <3>6. CASE taken # {}
      BY <3>1, <3>2, <3>3, <3>4, <3>6 DEF Contract!Take
    <3> QED
      BY <3>5, <3>6
  <2>4. ASSUME NEW q \in Threads, BeginStop(q)
        PROVE  UNCHANGED Contract!vars
    <3>1. PICK n \in Recordings :
            /\ n = held[q] /\ state[n] = "recording" /\ ~Mapped(n)
            /\ state' = [state EXCEPT ![n] = "stopping"]
            /\ UNCHANGED <<rooms, roomOf>>
      BY <2>4, Distinct DEF BeginStop, CallInv, StopOfManager, KeeperInv, KeptInv, TypeInv, TypeOK
    <3>2. Phase(n) = "ending" /\ Phase(n)' = "ending"
      BY <3>1, PhaseValue DEF Mapped, TypeInv, TypeOK, KeeperInv, CreatedInv
    <3>3. \A m \in Recordings \ {n} : Phase(m)' = Phase(m)
      BY <3>1 DEF Phase, TypeInv, TypeOK
    <3> QED
      BY <3>1, <3>2, <3>3 DEF Contract!vars
  <2>5. ASSUME NEW q \in Threads, FinishStop(q)
        PROVE  \E n \in Recordings, outcome \in {"completed", "failed"} : Contract!End(n, outcome)
    <3>1. PICK n \in Recordings :
            /\ n = held[q] /\ state[n] = "stopping" /\ ~Mapped(n)
            /\ UNCHANGED <<rooms, roomOf>>
      BY <2>5, Distinct DEF FinishStop, CallInv, StopOfManager, KeeperInv, KeptInv, TypeInv, TypeOK
    <3>2. PICK outcome \in {"completed", "failed"} : state' = [state EXCEPT ![n] = outcome]
      BY <2>5, <3>1 DEF FinishStop
    <3>3. Phase(n) = "ending" /\ Phase(n)' = outcome
      BY <3>1, <3>2, PhaseValue DEF Mapped, TypeInv, TypeOK, KeeperInv, CreatedInv
    <3>4. \A m \in Recordings \ {n} : Phase(m)' = Phase(m)
      BY <3>1, <3>2 DEF Phase, TypeInv, TypeOK
    <3> QED
      BY <3>1, <3>2, <3>3, <3>4 DEF Contract!End
  <2>6. ASSUME UNCHANGED <<rooms, state, roomOf>>
        PROVE  UNCHANGED Contract!vars
    BY <2>6 DEF Contract!vars, Phase
  <2>7. ASSUME NEW s \in Streams,
               \/ Connect(s) \/ Register(s) \/ BreakStream(s) \/ EndStream(s)
               \/ \E r \in Rooms, n \in Recordings : StopRecording(s, r, n)
               \/ AnswerStarted(s) \/ StartLiveRecorder(s) \/ Disconnect(s)
               \/ ListActiveRecordings(s) \/ NextRoom(s) \/ StopLiveRecorder(s)
               \/ NotifyStopped(s)
               \/ TakeRecording(s) /\ rooms[room[s]] = NoRecording
        PROVE  UNCHANGED <<rooms, state, roomOf>>
    BY <2>7 DEF Connect, Register, BreakStream, EndStream, StopRecording, AnswerStarted,
       StartLiveRecorder, Disconnect, ListActiveRecordings, NextRoom, StopLiveRecorder,
       NotifyStopped, TakeRecording, recordingVars
  <2>8. ASSUME \/ GracefulStop \/ ForceStop \/ StopNext \/ Exit \/ ReceiveSignal
               \/ \E n \in Recordings : Live(n)
               \/ \E u \in Upserts : Deliver(u) \/ LoseUpsert(u)
        PROVE  UNCHANGED <<rooms, state, roomOf>>
    BY <2>8 DEF GracefulStop, ForceStop, StopNext, Exit, ReceiveSignal, Live, ReachBoundary,
       NotifyBoundary, EndLive, Deliver, LoseUpsert, recordingVars
  <2>9. CASE UNCHANGED vars
    BY <2>6, <2>9 DEF vars, recordingVars
  <2> QED
    BY <2>1, <2>2, <2>3, <2>4, <2>5, <2>6, <2>7, <2>8, <2>9
       DEF Next, Continue, Message, Contract!Next
<1> QED
  BY <1>1, <1>2, Inductive, PTL DEF Spec, ImplementsManagerContract, Contract!Spec

-----------------------------------------------------------------------------
(* What a stop reports.                                                     *)

(* The recording that a stop has read is one that was started.  Until the   *)
(* stop takes the recording of the room, what it has read is in the map at  *)
(* that room or not at all, so that it is in no room when the stop has      *)
(* taken what it found there, and no recording comes back into the map.     *)
ReportInv ==
  \A s \in Streams : pc[s] \in StopLabels /\ rec[s] # NoRecording =>
    /\ rec[s] \in Created
    /\ pc[s] \in {"stopLive", "take"} /\ Mapped(rec[s]) => rooms[room[s]] = rec[s]
    /\ pc[s] \notin {"stopLive", "take"} => ~Mapped(rec[s])

LEMMA NextReportInv == IInv /\ ReportInv /\ [Next]_vars => ReportInv'
<1> SUFFICES ASSUME IInv, ReportInv, [Next]_vars PROVE ReportInv'
  OBVIOUS
<1> USE DEF IInv, TypeInv, TypeOK, Goto, Leave, vars, connVars, recordingVars, liveVars, callVars,
        shelvesVars, ReportInv, StopLabels, Mapped, Created
<1>1. ASSUME NEW s \in Streams, Connect(s) PROVE ReportInv'
  BY <1>1, Distinct DEF Connect, AfterStop, Threads
<1>2. ASSUME NEW s \in Streams, Register(s) PROVE ReportInv'
  BY <1>2, Distinct DEF Register, AfterStop, Threads
<1>3. ASSUME NEW s \in Streams, BreakStream(s) PROVE ReportInv'
  BY <1>3, Distinct DEF BreakStream, AfterStop, Threads
<1>4. ASSUME NEW s \in Streams, EndStream(s) PROVE ReportInv'
  BY <1>4, Distinct DEF EndStream, AfterStop, Threads
<1>5. ASSUME NEW s \in Streams, NEW r \in Rooms, StartRecording(s, r) PROVE ReportInv'
  <2>1. PICK n \in Recordings :
          /\ state[n] = "none" /\ rooms[r] = NoRecording
          /\ rooms' = [rooms EXCEPT ![r] = n] /\ state' = [state EXCEPT ![n] = "recording"]
          /\ rec' = [rec EXCEPT ![s] = n] /\ room' = [room EXCEPT ![s] = r]
          /\ pc' = [pc EXCEPT ![s] = "started"]
    BY <1>5, StartsFresh DEF KeeperInv
  <2>2. ASSUME NEW t \in Streams, pc'[t] \in StopLabels, rec'[t] # NoRecording
        PROVE  /\ t # s /\ pc'[t] = pc[t] /\ rec'[t] = rec[t] /\ room'[t] = room[t]
               /\ rec[t] \in Created /\ rec[t] \in Recordings /\ rec[t] # n
    BY <2>1, <2>2 DEF Threads
  <2>3. ASSUME NEW t \in Streams, pc'[t] \in StopLabels, rec'[t] # NoRecording
        PROVE  Mapped(rec[t])' => Mapped(rec[t])
    BY <2>1, <2>2, <2>3
  <2>4. ASSUME NEW t \in Streams, pc'[t] \in StopLabels, rec'[t] # NoRecording
        PROVE  /\ rec'[t] \in Created'
               /\ pc'[t] \in {"stopLive", "take"} /\ Mapped(rec[t])' => rooms'[room'[t]] = rec'[t]
               /\ pc'[t] \notin {"stopLive", "take"} => ~Mapped(rec[t])'
    BY <2>1, <2>2, <2>3, <2>4, Distinct DEF CallInv, Threads
  <2> QED
    BY <2>2, <2>4
<1>6. ASSUME NEW s \in Streams, AnswerStarted(s) PROVE ReportInv'
  BY <1>6, Distinct DEF AnswerStarted, AfterStop, Threads
<1>7. ASSUME NEW s \in Streams, StartLiveRecorder(s) PROVE ReportInv'
  BY <1>7, Distinct DEF StartLiveRecorder, AfterStop, Threads
<1>8. ASSUME NEW s \in Streams, NEW r \in Rooms, NEW n \in Recordings, StopRecording(s, r, n) PROVE ReportInv'
  BY <1>8, Distinct DEF StopRecording, Receives, AfterStop, Threads, CallInv, KeeperInv, KeptInv
<1>9. ASSUME NEW s \in Streams, Disconnect(s) PROVE ReportInv'
  BY <1>9, Distinct DEF Disconnect, AfterStop, Threads
<1>10. ASSUME NEW s \in Streams, ListActiveRecordings(s) PROVE ReportInv'
  BY <1>10, Distinct DEF ListActiveRecordings, AfterStop, Threads
<1>11. ASSUME NEW s \in Streams, NextRoom(s) PROVE ReportInv'
  BY <1>11, Distinct DEF NextRoom, Receives, AfterStop, Threads, CallInv, KeeperInv, KeptInv
<1>12. ASSUME NEW s \in Streams, StopLiveRecorder(s) PROVE ReportInv'
  BY <1>12, Distinct DEF StopLiveRecorder, AfterStop, Threads
<1>13. ASSUME NEW s \in Streams, TakeRecording(s) PROVE ReportInv'
  BY <1>13, Distinct DEF TakeRecording, Receives, AfterStop, Threads, CallInv, KeeperInv, KeptInv
<1>14. ASSUME NEW s \in Streams, NotifyStopped(s) PROVE ReportInv'
  BY <1>14, Distinct DEF NotifyStopped, AfterStop, Threads
<1>15. ASSUME NEW q \in Threads, BeginStop(q) PROVE ReportInv'
  BY <1>15, Distinct DEF BeginStop, AfterStop, Threads, CallInv, KeeperInv, KeptInv, StopOfManager
<1>16. ASSUME NEW q \in Threads, FinishStop(q) PROVE ReportInv'
  BY <1>16, Distinct DEF FinishStop, AfterStop, Threads, CallInv, KeeperInv, KeptInv, StopOfManager
<1>17. ASSUME GracefulStop PROVE ReportInv'
  BY <1>17, Distinct DEF GracefulStop, AfterStop, Threads
<1>18. ASSUME ForceStop PROVE ReportInv'
  BY <1>18, Distinct DEF ForceStop, AfterStop, Threads
<1>19. ASSUME TakeAll PROVE ReportInv'
  BY <1>19, Distinct DEF TakeAll, AfterStop, Threads
<1>20. ASSUME StopNext PROVE ReportInv'
  BY <1>20, Distinct DEF StopNext, AfterStop, Threads
<1>21. ASSUME Exit PROVE ReportInv'
  BY <1>21, Distinct DEF Exit, AfterStop, Threads
<1>22. ASSUME ReceiveSignal PROVE ReportInv'
  BY <1>22, Distinct DEF ReceiveSignal, AfterStop, Threads
<1>23. ASSUME NEW n \in Recordings, ReachBoundary(n) PROVE ReportInv'
  BY <1>23, Distinct DEF ReachBoundary, AfterStop, Threads
<1>24. ASSUME NEW n \in Recordings, NotifyBoundary(n) PROVE ReportInv'
  BY <1>24, Distinct DEF NotifyBoundary, AfterStop, Threads
<1>25. ASSUME NEW n \in Recordings, EndLive(n) PROVE ReportInv'
  BY <1>25, Distinct DEF EndLive, AfterStop, Threads
<1>26. ASSUME NEW u \in Upserts, Deliver(u) PROVE ReportInv'
  BY <1>26, Distinct DEF Deliver, AfterStop, Threads
<1>27. ASSUME NEW u \in Upserts, LoseUpsert(u) PROVE ReportInv'
  BY <1>27, Distinct DEF LoseUpsert, AfterStop, Threads
<1>28. CASE UNCHANGED vars
  BY <1>28
<1> QED
  BY <1>1, <1>2, <1>3, <1>4, <1>5, <1>6, <1>7, <1>8, <1>9, <1>10, <1>11, <1>12, <1>13, <1>14, <1>15, <1>16, <1>17, <1>18, <1>19, <1>20, <1>21, <1>22, <1>23, <1>24, <1>25, <1>26, <1>27, <1>28
     DEF Next, Continue, Message, Live

(* Whatever several streams do between the read of the recording and the    *)
(* end of the stop, what is reported to Shelves as COMPLETED or FAILED is   *)
(* not the active recording of a room.                                      *)
THEOREM ServiceReportsEnded == Spec => []ReportsEnded
<1>1. Init => ReportInv
  BY Distinct DEF Init, ReportInv, StopLabels, Threads
<1>2. ReportInv => ReportsEnded
  BY DEF ReportInv, ReportsEnded, StopLabels
<1> QED
  BY <1>1, <1>2, NextReportInv, Inductive, PTL DEF Spec

-----------------------------------------------------------------------------
(* One stream.  Handlers of several streams can stop a recording while      *)
(* another still works on its room; with one, only the shutdown can.        *)

OneStream == \A s, t \in Streams : s = t

(* The recording a stop has read is the one it takes from the map, unless   *)
(* the shutdown was faster.                                                 *)
StopsWhatItRead ==
  \A s \in Streams :
    /\ pc[s] \in {"stopLive", "take"} /\ rooms[room[s]] # NoRecording => rec[s] = rooms[room[s]]
    /\ pc[s] \in StopOfManager => rec[s] = held[s]
    /\ pc[s] = "stopped" => rec[s] \in Recordings /\ state[rec[s]] = "completed"

(* Until the shutdown takes the recordings, a session is that of the        *)
(* recording its room has, also when a handler is about to register it, and *)
(* it is gone before the recording is taken.                                *)
SessionIsOfMapped ==
  pc[Main] \in {"serving", "draining"} =>
    /\ \A r \in Rooms : sessions[r] # NoRecording => rooms[r] = sessions[r]
    /\ \A s \in Streams :
         /\ pc[s] \in StartLabels => rooms[room[s]] = rec[s]
         /\ pc[s] = "take" => sessions[room[s]] = NoRecording

OneStreamInv == StopsWhatItRead /\ OutcomesFollowStop /\ SessionIsOfMapped

LEMMA NextStopsWhatItRead == OneStream /\ IInv /\ StopsWhatItRead /\ [Next]_vars => StopsWhatItRead'
<1> SUFFICES ASSUME OneStream, IInv, StopsWhatItRead, [Next]_vars PROVE StopsWhatItRead'
  OBVIOUS
<1> USE DEF IInv, TypeInv, TypeOK, Goto, Leave, vars, connVars, recordingVars, liveVars, callVars,
        shelvesVars,
        OneStream, StopsWhatItRead
<1>1. ASSUME NEW s \in Streams, Connect(s) PROVE StopsWhatItRead'
  BY <1>1, Distinct DEF Connect, CallInv, StopOfManager, StopLabels, Threads, AfterStop, KeeperInv, KeptInv
<1>2. ASSUME NEW s \in Streams, Register(s) PROVE StopsWhatItRead'
  BY <1>2, Distinct DEF Register, CallInv, StopOfManager, StopLabels, Threads, AfterStop, KeeperInv, KeptInv
<1>3. ASSUME NEW s \in Streams, BreakStream(s) PROVE StopsWhatItRead'
  BY <1>3, Distinct DEF BreakStream, CallInv, StopOfManager, StopLabels, Threads, AfterStop, KeeperInv, KeptInv
<1>4. ASSUME NEW s \in Streams, EndStream(s) PROVE StopsWhatItRead'
  BY <1>4, Distinct DEF EndStream, CallInv, StopOfManager, StopLabels, Threads, AfterStop, KeeperInv, KeptInv
<1>5. ASSUME NEW s \in Streams, NEW r \in Rooms, StartRecording(s, r) PROVE StopsWhatItRead'
  BY <1>5, Distinct, StartsFresh DEF KeeperInv, StopOfManager
<1>6. ASSUME NEW s \in Streams, AnswerStarted(s) PROVE StopsWhatItRead'
  BY <1>6, Distinct DEF AnswerStarted, CallInv, StopOfManager, StopLabels, Threads, AfterStop, KeeperInv, KeptInv
<1>7. ASSUME NEW s \in Streams, StartLiveRecorder(s) PROVE StopsWhatItRead'
  BY <1>7, Distinct DEF StartLiveRecorder, CallInv, StopOfManager, StopLabels, Threads, AfterStop, KeeperInv, KeptInv
<1>8. ASSUME NEW s \in Streams, NEW r \in Rooms, NEW n \in Recordings, StopRecording(s, r, n) PROVE StopsWhatItRead'
  BY <1>8, Distinct DEF StopRecording, CallInv, StopOfManager, StopLabels, Threads, AfterStop, KeeperInv, KeptInv
<1>9. ASSUME NEW s \in Streams, Disconnect(s) PROVE StopsWhatItRead'
  BY <1>9, Distinct DEF Disconnect, CallInv, StopOfManager, StopLabels, Threads, AfterStop, KeeperInv, KeptInv
<1>10. ASSUME NEW s \in Streams, ListActiveRecordings(s) PROVE StopsWhatItRead'
  BY <1>10, Distinct DEF ListActiveRecordings, CallInv, StopOfManager, StopLabels, Threads, AfterStop, KeeperInv, KeptInv
<1>11. ASSUME NEW s \in Streams, NextRoom(s) PROVE StopsWhatItRead'
  BY <1>11, Distinct DEF NextRoom, CallInv, StopOfManager, StopLabels, Threads, AfterStop, KeeperInv, KeptInv
<1>12. ASSUME NEW s \in Streams, StopLiveRecorder(s) PROVE StopsWhatItRead'
  BY <1>12, Distinct DEF StopLiveRecorder, CallInv, StopOfManager, StopLabels, Threads, AfterStop, KeeperInv, KeptInv
<1>13. ASSUME NEW s \in Streams, TakeRecording(s) PROVE StopsWhatItRead'
  BY <1>13, Distinct DEF TakeRecording, CallInv, StopOfManager, StopLabels, Threads, AfterStop, KeeperInv, KeptInv
<1>14. ASSUME NEW s \in Streams, NotifyStopped(s) PROVE StopsWhatItRead'
  BY <1>14, Distinct DEF NotifyStopped, CallInv, StopOfManager, StopLabels, Threads, AfterStop, KeeperInv, KeptInv
<1>15. ASSUME NEW q \in Threads, BeginStop(q) PROVE StopsWhatItRead'
  BY <1>15, Distinct DEF BeginStop, CallInv, StopOfManager, StopLabels, Threads, AfterStop, KeeperInv, KeptInv
<1>16. ASSUME NEW q \in Threads, FinishStop(q) PROVE StopsWhatItRead'
  BY <1>16, Distinct DEF FinishStop, CallInv, StopOfManager, StopLabels, Threads, AfterStop, KeeperInv, KeptInv
<1>17. ASSUME GracefulStop PROVE StopsWhatItRead'
  BY <1>17, Distinct DEF GracefulStop, CallInv, StopOfManager, StopLabels, Threads, AfterStop, KeeperInv, KeptInv
<1>18. ASSUME ForceStop PROVE StopsWhatItRead'
  BY <1>18, Distinct DEF ForceStop, CallInv, StopOfManager, StopLabels, Threads, AfterStop, KeeperInv, KeptInv
<1>19. ASSUME TakeAll PROVE StopsWhatItRead'
  BY <1>19, Distinct DEF TakeAll, CallInv, StopOfManager, StopLabels, Threads, AfterStop, KeeperInv, KeptInv
<1>20. ASSUME StopNext PROVE StopsWhatItRead'
  BY <1>20, Distinct DEF StopNext, CallInv, StopOfManager, StopLabels, Threads, AfterStop, KeeperInv, KeptInv
<1>21. ASSUME Exit PROVE StopsWhatItRead'
  BY <1>21, Distinct DEF Exit, CallInv, StopOfManager, StopLabels, Threads, AfterStop, KeeperInv, KeptInv
<1>22. ASSUME ReceiveSignal PROVE StopsWhatItRead'
  BY <1>22, Distinct DEF ReceiveSignal, CallInv, StopOfManager, StopLabels, Threads, AfterStop, KeeperInv, KeptInv
<1>23. ASSUME NEW n \in Recordings, ReachBoundary(n) PROVE StopsWhatItRead'
  BY <1>23, Distinct DEF ReachBoundary, CallInv, StopOfManager, StopLabels, Threads, AfterStop, KeeperInv, KeptInv
<1>24. ASSUME NEW n \in Recordings, NotifyBoundary(n) PROVE StopsWhatItRead'
  BY <1>24, Distinct DEF NotifyBoundary, CallInv, StopOfManager, StopLabels, Threads, AfterStop, KeeperInv, KeptInv
<1>25. ASSUME NEW n \in Recordings, EndLive(n) PROVE StopsWhatItRead'
  BY <1>25, Distinct DEF EndLive, CallInv, StopOfManager, StopLabels, Threads, AfterStop, KeeperInv, KeptInv
<1>26. ASSUME NEW u \in Upserts, Deliver(u) PROVE StopsWhatItRead'
  BY <1>26, Distinct DEF Deliver, CallInv, StopOfManager, StopLabels, Threads, AfterStop, KeeperInv, KeptInv
<1>27. ASSUME NEW u \in Upserts, LoseUpsert(u) PROVE StopsWhatItRead'
  BY <1>27, Distinct DEF LoseUpsert, CallInv, StopOfManager, StopLabels, Threads, AfterStop, KeeperInv, KeptInv
<1>28. CASE UNCHANGED vars
  BY <1>28
<1> QED
  BY <1>1, <1>2, <1>3, <1>4, <1>5, <1>6, <1>7, <1>8, <1>9, <1>10, <1>11, <1>12, <1>13, <1>14, <1>15, <1>16, <1>17, <1>18, <1>19, <1>20, <1>21, <1>22, <1>23, <1>24, <1>25, <1>26, <1>27, <1>28
     DEF Next, Continue, Message, Live

LEMMA NextOutcomesFollowStop == IInv /\ StopsWhatItRead /\ OutcomesFollowStop /\ [Next]_vars => OutcomesFollowStop'
<1> SUFFICES ASSUME IInv, StopsWhatItRead, OutcomesFollowStop, [Next]_vars PROVE OutcomesFollowStop'
  OBVIOUS
<1> USE DEF IInv, TypeInv, TypeOK, Goto, Leave, vars, connVars, recordingVars, liveVars, callVars,
        shelvesVars,
        OutcomesFollowStop, Finished
<1>1. ASSUME NEW s \in Streams, Connect(s) PROVE OutcomesFollowStop'
  BY <1>1, Distinct DEF Connect, Notify, Upserts, StopsWhatItRead
<1>2. ASSUME NEW s \in Streams, Register(s) PROVE OutcomesFollowStop'
  BY <1>2, Distinct DEF Register, Notify, Upserts, StopsWhatItRead
<1>3. ASSUME NEW s \in Streams, BreakStream(s) PROVE OutcomesFollowStop'
  BY <1>3, Distinct DEF BreakStream, Notify, Upserts, StopsWhatItRead
<1>4. ASSUME NEW s \in Streams, EndStream(s) PROVE OutcomesFollowStop'
  BY <1>4, Distinct DEF EndStream, Notify, Upserts, StopsWhatItRead
<1>5. ASSUME NEW s \in Streams, NEW r \in Rooms, StartRecording(s, r) PROVE OutcomesFollowStop'
  BY <1>5, Distinct, StartsFresh DEF KeeperInv, Upserts
<1>6. ASSUME NEW s \in Streams, AnswerStarted(s) PROVE OutcomesFollowStop'
  BY <1>6, Distinct DEF AnswerStarted, Notify, Upserts, StopsWhatItRead
<1>7. ASSUME NEW s \in Streams, StartLiveRecorder(s) PROVE OutcomesFollowStop'
  BY <1>7, Distinct DEF StartLiveRecorder, Notify, Upserts, StopsWhatItRead
<1>8. ASSUME NEW s \in Streams, NEW r \in Rooms, NEW n \in Recordings, StopRecording(s, r, n) PROVE OutcomesFollowStop'
  BY <1>8, Distinct DEF StopRecording, Notify, Upserts, StopsWhatItRead
<1>9. ASSUME NEW s \in Streams, Disconnect(s) PROVE OutcomesFollowStop'
  BY <1>9, Distinct DEF Disconnect, Notify, Upserts, StopsWhatItRead
<1>10. ASSUME NEW s \in Streams, ListActiveRecordings(s) PROVE OutcomesFollowStop'
  BY <1>10, Distinct DEF ListActiveRecordings, Notify, Upserts, StopsWhatItRead
<1>11. ASSUME NEW s \in Streams, NextRoom(s) PROVE OutcomesFollowStop'
  BY <1>11, Distinct DEF NextRoom, Notify, Upserts, StopsWhatItRead
<1>12. ASSUME NEW s \in Streams, StopLiveRecorder(s) PROVE OutcomesFollowStop'
  BY <1>12, Distinct DEF StopLiveRecorder, Notify, Upserts, StopsWhatItRead
<1>13. ASSUME NEW s \in Streams, TakeRecording(s) PROVE OutcomesFollowStop'
  BY <1>13, Distinct DEF TakeRecording, Notify, Upserts, StopsWhatItRead
<1>14. ASSUME NEW s \in Streams, NotifyStopped(s) PROVE OutcomesFollowStop'
  BY <1>14, Distinct DEF NotifyStopped, Notify, Upserts, StopsWhatItRead
<1>15. ASSUME NEW q \in Threads, BeginStop(q) PROVE OutcomesFollowStop'
  BY <1>15, Distinct DEF BeginStop, Upserts
<1>16. ASSUME NEW q \in Threads, FinishStop(q) PROVE OutcomesFollowStop'
  BY <1>16, Distinct DEF FinishStop, CallInv, StopOfManager, KeeperInv, KeptInv, Upserts
<1>17. ASSUME GracefulStop PROVE OutcomesFollowStop'
  BY <1>17, Distinct DEF GracefulStop, Notify, Upserts, StopsWhatItRead
<1>18. ASSUME ForceStop PROVE OutcomesFollowStop'
  BY <1>18, Distinct DEF ForceStop, Notify, Upserts, StopsWhatItRead
<1>19. ASSUME TakeAll PROVE OutcomesFollowStop'
  BY <1>19, Distinct DEF TakeAll, Notify, Upserts, StopsWhatItRead
<1>20. ASSUME StopNext PROVE OutcomesFollowStop'
  BY <1>20, Distinct DEF StopNext, Notify, Upserts, StopsWhatItRead
<1>21. ASSUME Exit PROVE OutcomesFollowStop'
  BY <1>21, Distinct DEF Exit, Notify, Upserts, StopsWhatItRead
<1>22. ASSUME ReceiveSignal PROVE OutcomesFollowStop'
  BY <1>22, Distinct DEF ReceiveSignal, Notify, Upserts, StopsWhatItRead
<1>23. ASSUME NEW n \in Recordings, ReachBoundary(n) PROVE OutcomesFollowStop'
  BY <1>23, Distinct DEF ReachBoundary, Notify, Upserts, StopsWhatItRead
<1>24. ASSUME NEW n \in Recordings, NotifyBoundary(n) PROVE OutcomesFollowStop'
  BY <1>24, Distinct DEF NotifyBoundary, Notify, Upserts, StopsWhatItRead
<1>25. ASSUME NEW n \in Recordings, EndLive(n) PROVE OutcomesFollowStop'
  BY <1>25, Distinct DEF EndLive, Notify, Upserts, StopsWhatItRead
<1>26. ASSUME NEW u \in Upserts, Deliver(u) PROVE OutcomesFollowStop'
  BY <1>26, Distinct DEF Deliver, Notify, Upserts, StopsWhatItRead
<1>27. ASSUME NEW u \in Upserts, LoseUpsert(u) PROVE OutcomesFollowStop'
  BY <1>27, Distinct DEF LoseUpsert, Notify, Upserts, StopsWhatItRead
<1>28. CASE UNCHANGED vars
  BY <1>28
<1> QED
  BY <1>1, <1>2, <1>3, <1>4, <1>5, <1>6, <1>7, <1>8, <1>9, <1>10, <1>11, <1>12, <1>13, <1>14, <1>15, <1>16, <1>17, <1>18, <1>19, <1>20, <1>21, <1>22, <1>23, <1>24, <1>25, <1>26, <1>27, <1>28
     DEF Next, Continue, Message, Live

LEMMA NextSessionIsOfMapped == OneStream /\ IInv /\ SessionIsOfMapped /\ [Next]_vars => SessionIsOfMapped'
<1> SUFFICES ASSUME OneStream, IInv, SessionIsOfMapped, [Next]_vars PROVE SessionIsOfMapped'
  OBVIOUS
<1> USE DEF IInv, TypeInv, TypeOK, Goto, Leave, vars, connVars, recordingVars, liveVars, callVars,
        shelvesVars,
        OneStream, SessionIsOfMapped
<1>1. ASSUME NEW s \in Streams, Connect(s) PROVE SessionIsOfMapped'
  BY <1>1, Distinct DEF Connect, CallInv, StartLabels, StopLabels, Threads, AfterStop
<1>2. ASSUME NEW s \in Streams, Register(s) PROVE SessionIsOfMapped'
  BY <1>2, Distinct DEF Register, CallInv, StartLabels, StopLabels, Threads, AfterStop
<1>3. ASSUME NEW s \in Streams, BreakStream(s) PROVE SessionIsOfMapped'
  BY <1>3, Distinct DEF BreakStream, CallInv, StartLabels, StopLabels, Threads, AfterStop
<1>4. ASSUME NEW s \in Streams, EndStream(s) PROVE SessionIsOfMapped'
  BY <1>4, Distinct DEF EndStream, CallInv, StartLabels, StopLabels, Threads, AfterStop
<1>5. ASSUME NEW s \in Streams, NEW r \in Rooms, StartRecording(s, r) PROVE SessionIsOfMapped'
  BY <1>5, Distinct, StartsFresh DEF KeeperInv, StartLabels, Threads
<1>6. ASSUME NEW s \in Streams, AnswerStarted(s) PROVE SessionIsOfMapped'
  BY <1>6, Distinct DEF AnswerStarted, CallInv, StartLabels, StopLabels, Threads, AfterStop
<1>7. ASSUME NEW s \in Streams, StartLiveRecorder(s) PROVE SessionIsOfMapped'
  BY <1>7, Distinct DEF StartLiveRecorder, CallInv, StartLabels, StopLabels, Threads, AfterStop
<1>8. ASSUME NEW s \in Streams, NEW r \in Rooms, NEW n \in Recordings, StopRecording(s, r, n) PROVE SessionIsOfMapped'
  BY <1>8, Distinct DEF StopRecording, CallInv, StartLabels, StopLabels, Threads, AfterStop
<1>9. ASSUME NEW s \in Streams, Disconnect(s) PROVE SessionIsOfMapped'
  BY <1>9, Distinct DEF Disconnect, CallInv, StartLabels, StopLabels, Threads, AfterStop
<1>10. ASSUME NEW s \in Streams, ListActiveRecordings(s) PROVE SessionIsOfMapped'
  BY <1>10, Distinct DEF ListActiveRecordings, CallInv, StartLabels, StopLabels, Threads, AfterStop
<1>11. ASSUME NEW s \in Streams, NextRoom(s) PROVE SessionIsOfMapped'
  BY <1>11, Distinct DEF NextRoom, CallInv, StartLabels, StopLabels, Threads, AfterStop
<1>12. ASSUME NEW s \in Streams, StopLiveRecorder(s) PROVE SessionIsOfMapped'
  BY <1>12, Distinct DEF StopLiveRecorder, CallInv, StartLabels, StopLabels, Threads, AfterStop
<1>13. ASSUME NEW s \in Streams, TakeRecording(s) PROVE SessionIsOfMapped'
  BY <1>13, Distinct DEF TakeRecording, CallInv, StartLabels, StopLabels, Threads, AfterStop
<1>14. ASSUME NEW s \in Streams, NotifyStopped(s) PROVE SessionIsOfMapped'
  BY <1>14, Distinct DEF NotifyStopped, CallInv, StartLabels, StopLabels, Threads, AfterStop
<1>15. ASSUME NEW q \in Threads, BeginStop(q) PROVE SessionIsOfMapped'
  BY <1>15, Distinct DEF BeginStop, CallInv, StartLabels, StopLabels, Threads, AfterStop
<1>16. ASSUME NEW q \in Threads, FinishStop(q) PROVE SessionIsOfMapped'
  BY <1>16, Distinct DEF FinishStop, CallInv, StartLabels, StopLabels, Threads, AfterStop
<1>17. ASSUME GracefulStop PROVE SessionIsOfMapped'
  BY <1>17, Distinct DEF GracefulStop, CallInv, StartLabels, StopLabels, Threads, AfterStop
<1>18. ASSUME ForceStop PROVE SessionIsOfMapped'
  BY <1>18, Distinct DEF ForceStop, CallInv, StartLabels, StopLabels, Threads, AfterStop
<1>19. ASSUME TakeAll PROVE SessionIsOfMapped'
  BY <1>19, Distinct DEF TakeAll, CallInv, StartLabels, StopLabels, Threads, AfterStop
<1>20. ASSUME StopNext PROVE SessionIsOfMapped'
  BY <1>20, Distinct DEF StopNext, CallInv, StartLabels, StopLabels, Threads, AfterStop
<1>21. ASSUME Exit PROVE SessionIsOfMapped'
  BY <1>21, Distinct DEF Exit, CallInv, StartLabels, StopLabels, Threads, AfterStop
<1>22. ASSUME ReceiveSignal PROVE SessionIsOfMapped'
  BY <1>22, Distinct DEF ReceiveSignal, CallInv, StartLabels, StopLabels, Threads, AfterStop
<1>23. ASSUME NEW n \in Recordings, ReachBoundary(n) PROVE SessionIsOfMapped'
  BY <1>23, Distinct DEF ReachBoundary, CallInv, StartLabels, StopLabels, Threads, AfterStop
<1>24. ASSUME NEW n \in Recordings, NotifyBoundary(n) PROVE SessionIsOfMapped'
  BY <1>24, Distinct DEF NotifyBoundary, CallInv, StartLabels, StopLabels, Threads, AfterStop
<1>25. ASSUME NEW n \in Recordings, EndLive(n) PROVE SessionIsOfMapped'
  BY <1>25, Distinct DEF EndLive, CallInv, StartLabels, StopLabels, Threads, AfterStop
<1>26. ASSUME NEW u \in Upserts, Deliver(u) PROVE SessionIsOfMapped'
  BY <1>26, Distinct DEF Deliver, CallInv, StartLabels, StopLabels, Threads, AfterStop
<1>27. ASSUME NEW u \in Upserts, LoseUpsert(u) PROVE SessionIsOfMapped'
  BY <1>27, Distinct DEF LoseUpsert, CallInv, StartLabels, StopLabels, Threads, AfterStop
<1>28. CASE UNCHANGED vars
  BY <1>28
<1> QED
  BY <1>1, <1>2, <1>3, <1>4, <1>5, <1>6, <1>7, <1>8, <1>9, <1>10, <1>11, <1>12, <1>13, <1>14, <1>15, <1>16, <1>17, <1>18, <1>19, <1>20, <1>21, <1>22, <1>23, <1>24, <1>25, <1>26, <1>27, <1>28
     DEF Next, Continue, Message, Live

LEMMA OneStreamInductive ==
  ASSUME OneStream
  PROVE  Spec => []OneStreamInv
<1>1. Init => OneStreamInv
  BY Distinct DEF Init, OneStreamInv, StopsWhatItRead, OutcomesFollowStop, SessionIsOfMapped,
     StopOfManager, StartLabels, Threads, NoRecording
<1>2. IInv /\ OneStreamInv /\ [Next]_vars => OneStreamInv'
  BY OneStream, NextStopsWhatItRead, NextOutcomesFollowStop, NextSessionIsOfMapped
     DEF OneStreamInv
<1> QED
  BY <1>1, <1>2, Inductive, PTL DEF Spec

(* With one stream, handleStopRecording and handleDisconnect report a       *)
(* recording to Shelves as COMPLETED or FAILED only after it was finalized, *)
(* although they report the one they read before the stop and not the one   *)
(* that Manager.StopRecording took.                                         *)
THEOREM OneStreamOutcomesFollowStop ==
  ASSUME OneStream
  PROVE  Spec => []OutcomesFollowStop
<1>1. OneStreamInv => OutcomesFollowStop
  BY DEF OneStreamInv
<1> QED
  BY <1>1, OneStreamInductive, PTL

(* With one stream, a recording that is finished while the service serves   *)
(* keeps no live session: the stop removed it before it took the recording, *)
(* and no handler registers it later.                                       *)
THEOREM OneStreamSessionsFollowStop ==
  ASSUME OneStream
  PROVE  Spec => []SessionsFollowStop
<1>1. IInv /\ OneStreamInv => SessionsFollowStop
  <2> SUFFICES ASSUME IInv, OneStreamInv, NEW n \in Recordings, state[n] \in Finished,
                      pc[Main] \in {"serving", "draining"}, sessions[roomOf[n]] = n
               PROVE  FALSE
    BY DEF SessionsFollowStop
  <2>1. roomOf[n] \in Rooms
    BY DEF IInv, KeeperInv, CreatedInv, Finished
  <2>2. rooms[roomOf[n]] = n
    BY <2>1, Distinct DEF OneStreamInv, SessionIsOfMapped
  <2> QED
    BY <2>1, <2>2, Distinct DEF IInv, KeeperInv, KeptInv, Finished
<1> QED
  BY <1>1, Inductive, OneStreamInductive, PTL
===============================================================================
