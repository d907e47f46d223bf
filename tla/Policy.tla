------------------------------- MODULE Policy --------------------------------
(***************************************************************************)
(* Recording policies (internal/recording/policy.go): how the policy of a  *)
(* start request becomes the one a recording keeps, what it allows, and    *)
(* what policy.json says of it.  Enumerations are the numbers of the       *)
(* protocol, which may be numbers that name no value.  The flag AutoRecord *)
(* and the list of accessors are stored and never read.                    *)
(***************************************************************************)
EXTENDS Integers

NoPolicy == [absent |-> TRUE]

HostOnly == 1
CoHostAndHost == 2
Anyone == 3

LayoutGrid == 1

Audio == 1
Video == 2
Screenshare == 3

DefaultDuration == 720

(* The fields of a policy, of a request or of a recording.                  *)
Policies ==
  [enabled : BOOLEAN, who : Int, quickAccess : BOOLEAN, quickDuration : Int,
   lateComposite : BOOLEAN, lateDuration : Int, recorded : SUBSET {Audio, Video, Screenshare},
   access : Int, layout : Int]

-----------------------------------------------------------------------------
(* Zero stands for "not given"; negative durations are kept.                *)
WithDefaults(p) ==
  [p EXCEPT !.layout = IF @ = 0 THEN LayoutGrid ELSE @,
            !.quickDuration = IF @ = 0 THEN DefaultDuration ELSE @,
            !.lateDuration = IF @ = 0 THEN DefaultDuration ELSE @]

DefaultPolicy ==
  WithDefaults([enabled |-> TRUE, who |-> HostOnly, quickAccess |-> FALSE,
                lateComposite |-> FALSE, recorded |-> {Audio, Video, Screenshare},
                access |-> 0, layout |-> LayoutGrid,
                quickDuration |-> DefaultDuration, lateDuration |-> DefaultDuration])

(* The numbers of the enumerations are taken over as they are.              *)
PolicyFromProto(request) == IF request = NoPolicy THEN DefaultPolicy ELSE WithDefaults(request)

-----------------------------------------------------------------------------
(* What a policy allows                                                     *)

CanRecord(policy, role) ==
  /\ policy.enabled
  /\ \/ policy.who = HostOnly /\ role = "host"
     \/ policy.who = CoHostAndHost /\ role \in {"host", "coHost"}
     \/ policy.who = Anyone

(* handleStartRecording: a request of the system itself only needs a policy *)
(* that is enabled; any other is taken for one of the host.                 *)
Accepted(policy, requestedBy) ==
  policy.enabled /\ (requestedBy = "system" \/ CanRecord(policy, "host"))

TrackTypeFromProto(t) == IF t \in {Audio, Video, Screenshare} THEN t ELSE 0

ShouldRecordTrack(policy, type) == type \in policy.recorded

-----------------------------------------------------------------------------
(* What policy.json says                                                    *)

WhoCanRecordName(who) ==
  CASE who = HostOnly -> "host_only"
    [] who = CoHostAndHost -> "co_host_and_host"
    [] who = Anyone -> "anyone"
    [] OTHER -> "unspecified"

AccessName(access) ==
  CASE access = 1 -> "all"
    [] access = 2 -> "host"
    [] access = 3 -> "logged_in"
    [] access = 4 -> "selected"
    [] OTHER -> "unspecified"

LayoutName(layout) == IF layout = LayoutGrid THEN "grid" ELSE "unspecified"

PolicyDocument(policy) ==
  [policy EXCEPT !.who = WhoCanRecordName(@), !.access = AccessName(@),
                 !.layout = LayoutName(@)]
==============================================================================
