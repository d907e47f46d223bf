--------------------------- MODULE MCLiveRecorder ---------------------------
(* Instances of LiveRecorder for TLC.                                       *)
EXTENDS LiveRecorder

Request(who, quickAccess, quickDuration, lateComposite, lateDuration, types) ==
  [enabled |-> TRUE, who |-> who, quickAccess |-> quickAccess,
   quickDuration |-> quickDuration, lateComposite |-> lateComposite,
   lateDuration |-> lateDuration, recorded |-> types, access |-> 0, layout |-> 0]

(* Both kinds of parts with lengths of their own, a length that is missing, *)
(* negative or zero, and values of enumerations that name nothing.          *)
PolicyRequests ==
  {NoPolicy,
   Request(HostOnly, TRUE, 2, TRUE, 3, {Audio}),
   Request(CoHostAndHost, TRUE, 3, FALSE, 0, {Video, Screenshare}),
   Request(7, FALSE, 2, TRUE, -1, {}),
   Request(0, TRUE, 0, TRUE, 2, {Audio}),
   Request(Anyone, TRUE, -2, TRUE, 1, {Audio, Video, Screenshare}),
   [Request(Anyone, TRUE, 2, TRUE, 2, {}) EXCEPT !.enabled = FALSE]}
=============================================================================
