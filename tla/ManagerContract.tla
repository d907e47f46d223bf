---------------------------- MODULE ManagerContract ----------------------------
(***************************************************************************)
(* What the service promises about the recordings of its rooms, whatever   *)
(* streams, disconnects and shutdowns do: a room has one active recording  *)
(* at a time, a recording that was taken from its room is never active     *)
(* again, and it ends once.  RecordingService implements it.               *)
(***************************************************************************)
EXTENDS Integers

CONSTANTS Rooms, NoRoom, Recordings

VARIABLES
  phase,   \* none, active, ending, completed or failed
  place    \* the room of each recording

vars == <<phase, place>>

Active(r) == {n \in Recordings : place[n] = r /\ phase[n] = "active"}

Init ==
  /\ phase = [n \in Recordings |-> "none"]
  /\ place = [n \in Recordings |-> NoRoom]

Begin(n, r) ==
  /\ phase[n] = "none" /\ Active(r) = {}
  /\ phase' = [phase EXCEPT ![n] = "active"]
  /\ place' = [place EXCEPT ![n] = r]

(* Recordings are taken to be stopped: one by a stop or a disconnect, all   *)
(* there are by the shutdown.                                               *)
Take(taken) ==
  /\ taken # {} /\ \A n \in taken : phase[n] = "active"
  /\ phase' = [n \in Recordings |-> IF n \in taken THEN "ending" ELSE phase[n]]
  /\ UNCHANGED place

End(n, outcome) ==
  /\ phase[n] = "ending"
  /\ phase' = [phase EXCEPT ![n] = outcome]
  /\ UNCHANGED place

Next ==
  \/ \E n \in Recordings, r \in Rooms : Begin(n, r)
  \/ \E n \in Recordings : Take({n})
  \/ Take({n \in Recordings : phase[n] = "active"})
  \/ \E n \in Recordings, outcome \in {"completed", "failed"} : End(n, outcome)

Spec == Init /\ [][Next]_vars
===============================================================================
