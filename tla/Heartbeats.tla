------------------------------ MODULE Heartbeats ------------------------------
(***************************************************************************)
(* The heartbeats the server sends to the SFUs (internal/grpc/server.go,   *)
(* handleRegister in handlers.go).  Each registration replaces the one     *)
(* ticker of the server, without stopping the old one, and starts a        *)
(* goroutine for its stream, the loop below.  A loop reads the server's    *)
(* ticker, without a lock, before each select, so that after a while the   *)
(* loops of all streams wait for the same ticker.                          *)
(*                                                                         *)
(* A ticker is the number of its registration; its channel has room for    *)
(* one tick.  Recordings are in RecordingService.                          *)
(***************************************************************************)
EXTENDS Integers, FiniteSets

CONSTANTS
  Streams,
  MaxRegistrations   \* bound: registrations the server receives

ASSUME HeartbeatsAssumption == MaxRegistrations \in Nat

VARIABLES
  stream,    \* each Connect: not begun, open, broken, or returned
  handler,   \* the goroutine that receives from the stream
  mu,        \* who holds s.mu during a Send
  server,    \* how far Server.Stop is
  ticker,    \* s.heartbeatTicker, 0 when nil
  running,   \* tickers that tick
  ready,     \* tickers with a tick in their channel
  loop       \* the goroutine of each registration

streamVars == <<stream, handler, mu>>
tickerVars == <<ticker, running, ready>>
vars == <<streamVars, server, tickerVars, loop>>

-----------------------------------------------------------------------------
Nobody == "nobody"
Loops == 1..MaxRegistrations
NoLoop == [stream |-> Nobody, pc |-> "none", on |-> 0]

Init ==
  /\ stream = [s \in Streams |-> "none"]
  /\ handler = [s \in Streams |-> "idle"]
  /\ mu = Nobody
  /\ server = "serving"
  /\ ticker = 0 /\ running = {} /\ ready = {}
  /\ loop = [i \in Loops |-> NoLoop]

Done == server # "serving"

-----------------------------------------------------------------------------
(* Streams.  Once GracefulStop has begun no stream is accepted.             *)

Connect(s) ==
  /\ stream[s] = "none" /\ server \in {"serving", "done"}
  /\ stream' = [stream EXCEPT ![s] = "open"]
  /\ UNCHANGED <<handler, mu, server, tickerVars, loop>>

StartStoppingOld(s) ==  \* mutant
  /\ ticker' = ticker + 1
  /\ running' = {ticker'}
  /\ loop' = [loop EXCEPT ![ticker'] = [stream |-> s, pc |-> "reading", on |-> ticker']]

(* startHeartbeat                                                           *)
StartHeartbeat(s) ==
  /\ ticker' = ticker + 1
  /\ running' = running \cup {ticker'}
  /\ loop' = [loop EXCEPT ![ticker'] = [stream |-> s, pc |-> "reading", on |-> ticker']]

(* handleRegister, which answers with s.mu held.  A stream may register     *)
(* more than once, and while the server is being stopped.                   *)
Register(s) ==
  /\ stream[s] = "open" /\ handler[s] = "idle" /\ mu = Nobody
  /\ ticker < MaxRegistrations
  /\ StartHeartbeat(s)
  /\ mu' = s
  /\ handler' = [handler EXCEPT ![s] = "responding"]
  /\ UNCHANGED <<stream, server, ready>>

(* The answer is sent, or refused because the stream has broken.            *)
Respond(s) ==
  /\ handler[s] = "responding"
  /\ handler' = [handler EXCEPT ![s] = "idle"]
  /\ mu' = Nobody
  /\ UNCHANGED <<stream, server, tickerVars, loop>>

BreakStream(s) ==
  /\ stream[s] = "open"
  /\ stream' = [stream EXCEPT ![s] = "broken"]
  /\ UNCHANGED <<handler, mu, server, tickerVars, loop>>

(* Recv fails, handleDisconnect takes s.mu, Connect returns.                *)
EndStream(s) ==
  /\ stream[s] = "broken" /\ handler[s] = "idle" /\ mu = Nobody
  /\ stream' = [stream EXCEPT ![s] = "returned"]
  /\ UNCHANGED <<handler, mu, server, tickerVars, loop>>

-----------------------------------------------------------------------------
(* The loop of a registration                                               *)

Goto(i, pc) == loop' = [loop EXCEPT ![i].pc = pc]

(* The select evaluates s.heartbeatTicker.C: a read beside the writes of    *)
(* handleRegister, which finds any ticker since the one it found before.    *)
ReadTicker(i) ==
  /\ loop[i].pc = "reading"
  /\ \E t \in loop[i].on..ticker :
       loop' = [loop EXCEPT ![i].pc = "selecting", ![i].on = t]
  /\ UNCHANGED <<streamVars, server, tickerVars>>

TakeTick(i) ==
  /\ loop[i].pc = "selecting" /\ loop[i].on \in ready
  /\ ready' = ready \ {loop[i].on}
  /\ Goto(i, "sending")
  /\ UNCHANGED <<streamVars, server, ticker, running>>

SeeDoneFirst(i) ==  \* mutant
  /\ loop[i].pc = "reading" /\ Done
  /\ Goto(i, "ended")
  /\ UNCHANGED <<streamVars, server, tickerVars>>

SeeDone(i) ==
  /\ loop[i].pc = "selecting" /\ Done
  /\ Goto(i, "ended")
  /\ UNCHANGED <<streamVars, server, tickerVars>>

SendAnyway(i) ==  \* mutant
  /\ loop[i].pc = "sending"
  /\ Goto(i, "reading")
  /\ UNCHANGED <<streamVars, server, tickerVars>>

(* A loop ends when its stream takes no message any more.                   *)
SendHeartbeat(i) ==
  /\ loop[i].pc = "sending"
  /\ Goto(i, IF stream[loop[i].stream] = "open" THEN "reading" ELSE "ended")
  /\ UNCHANGED <<streamVars, server, tickerVars>>

(* time.Ticker drops a tick that nobody has taken.                          *)
Tick(t) ==
  /\ t \in running \ ready
  /\ ready' = ready \cup {t}
  /\ UNCHANGED <<streamVars, server, ticker, running, loop>>

-----------------------------------------------------------------------------
(* Server.Stop                                                              *)

CloseDone ==
  /\ server = "serving" /\ server' = "done"
  /\ UNCHANGED <<streamVars, tickerVars, loop>>

(* The ticker is read beside handleRegister here too.                       *)
StopTicker ==
  /\ server = "done" /\ server' = "draining"
  /\ \E t \in 0..ticker : running' = running \ {t}
  /\ UNCHANGED <<streamVars, ticker, ready, loop>>

(* grpcServer.Stop, when streams are left after 30 s.                       *)
ForceStop ==
  /\ server = "draining" /\ \E s \in Streams : stream[s] \in {"open", "broken"}
  /\ server' = "stopped"
  /\ stream' = [s \in Streams |-> IF stream[s] = "open" THEN "broken" ELSE stream[s]]
  /\ UNCHANGED <<handler, mu, tickerVars, loop>>

-----------------------------------------------------------------------------
StreamNext(s) == Connect(s) \/ Register(s) \/ Respond(s) \/ BreakStream(s) \/ EndStream(s)
LoopNext(i) == ReadTicker(i) \/ TakeTick(i) \/ SeeDone(i) \/ SendHeartbeat(i)
StopNext == CloseDone \/ StopTicker \/ ForceStop

Next ==
  \/ \E s \in Streams : StreamNext(s)
  \/ \E i \in Loops : LoopNext(i) \/ Tick(i)
  \/ StopNext

(* Goroutines run and tickers tick.  The loops that wait for one channel    *)
(* are served in the order of their arrival, and a select of which both     *)
(* cases are ready chooses at random: neither misses its chance for ever.   *)
Fairness ==
  /\ \A s \in Streams : WF_vars(Respond(s)) /\ WF_vars(EndStream(s))
  /\ \A i \in Loops :
       /\ WF_vars(ReadTicker(i)) /\ WF_vars(SendHeartbeat(i)) /\ WF_vars(Tick(i))
       /\ SF_vars(TakeTick(i)) /\ SF_vars(SeeDone(i))

Spec == Init /\ [][Next]_vars
FairSpec == Spec /\ Fairness
-----------------------------------------------------------------------------
(* Properties                                                               *)

Registered(s) == \E i \in Loops : loop[i].stream = s
Beating(s) == \E i \in Loops : loop[i].stream = s /\ loop[i].pc = "sending"

(* Until the server is stopped, an SFU that has registered gets heartbeats  *)
(* as long as its stream is open, whoever registers after it and replaces   *)
(* the ticker its loop is waiting for.                                      *)
KeepsBeating ==
  \A s \in Streams : Registered(s) ~> (Beating(s) \/ stream[s] # "open" \/ Done)

(* The loop of a stream that has ended goes away although it learns of the  *)
(* end only from a Send, for which it needs a tick it shares with others.   *)
DeadLoopsEnd ==
  \A i \in Loops :
    (loop[i].pc # "none" /\ stream[loop[i].stream] # "open") ~> (loop[i].pc = "ended" \/ Done)

(* Server.Stop ends every loop, also those of tickers it has not stopped    *)
(* and of registrations that arrive meanwhile.                              *)
StopEndsLoops ==
  \A i \in Loops : (Done /\ loop[i].pc # "none") ~> loop[i].pc = "ended"

-----------------------------------------------------------------------------
(* Does not hold: gRPC allows one Send on a stream at a time, but loops and *)
(* handlers do not know of each other.                                      *)
SendsAreSerial ==
  \A s \in Streams :
    Cardinality({i \in Loops : loop[i].stream = s /\ loop[i].pc = "sending"})
      + (IF handler[s] = "responding" THEN 1 ELSE 0) <= 1
===============================================================================
