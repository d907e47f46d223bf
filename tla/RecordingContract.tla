-------------------------- MODULE RecordingContract --------------------------
(***************************************************************************)
(* What a room recording promises, whatever the order in which handlers,   *)
(* live recorder and shutdown reach it: tracks are accepted only while it  *)
(* is recording, every accepted track is released exactly once (and then   *)
(* either listed in the catalogue or given up), stopping happens once, and *)
(* a recording is declared finished, and marked so in the object store,    *)
(* only when no track is open any more.                                    *)
(***************************************************************************)
EXTENDS FiniteSets

CONSTANT Tracks        \* every track that may be accepted

VARIABLES
  phase,       \* "recording", "stopping", "completed" or "failed"
  open,        \* tracks accepted and not yet released
  catalogue,   \* released tracks the recording lists
  dropped,     \* released tracks the recording has given up
  sealed       \* is the recording marked as completed in the store?

contractVars == <<phase, open, catalogue, dropped, sealed>>

Init ==
  /\ phase = "recording"
  /\ open = {} /\ catalogue = {} /\ dropped = {}
  /\ sealed = FALSE

Accept(t) ==
  /\ phase = "recording"
  /\ t \notin open \cup catalogue \cup dropped
  /\ open' = open \cup {t}
  /\ UNCHANGED <<phase, catalogue, dropped, sealed>>

Release(t) ==
  /\ t \in open
  /\ open' = open \ {t}
  /\ catalogue' = catalogue \cup {t}
  /\ UNCHANGED <<phase, dropped, sealed>>

BeginStop ==
  /\ phase = "recording"
  /\ phase' = "stopping"
  /\ UNCHANGED <<open, catalogue, dropped, sealed>>

(* All remaining tracks are released at once; some may have to be given up. *)
ReleaseAll ==
  /\ phase = "stopping"
  /\ open' = {}
  /\ \E failed \in SUBSET open :
       /\ dropped' = dropped \cup failed
       /\ catalogue' = catalogue \cup (open \ failed)
  /\ UNCHANGED <<phase, sealed>>

Seal ==
  /\ phase = "stopping" /\ open = {}
  /\ sealed' = TRUE
  /\ UNCHANGED <<phase, open, catalogue, dropped>>

Finish ==
  /\ phase = "stopping" /\ open = {}
  /\ \/ phase' = "completed" /\ sealed
     \/ phase' = "failed"
  /\ UNCHANGED <<open, catalogue, dropped, sealed>>

ContractNext ==
  \/ \E t \in Tracks : Accept(t) \/ Release(t)
  \/ BeginStop \/ ReleaseAll \/ Seal \/ Finish

ContractSpec == Init /\ [][ContractNext]_contractVars
=============================================================================
