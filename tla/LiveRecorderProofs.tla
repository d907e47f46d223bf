-------------------------- MODULE LiveRecorderProofs --------------------------
(***************************************************************************)
(* Proofs about LiveRecorder for any policies, any lengths of the parts and *)
(* any unit of the clock.  First the arithmetic of the parts; then the      *)
(* inductive invariant: LiveInv, the parts the live goroutine has           *)
(* announced; ExportInv, which of the two goroutines may still ask for a    *)
(* part; UnbrokenInv, that the live goroutine leaves out no part before it  *)
(* is cancelled; and CoverInv, that the stop has what was not announced.    *)
(***************************************************************************)
EXTENDS LiveRecorder, SequenceTheorems, TLAPS

Types ==
  /\ policy \in Policies /\ policy.enabled
  /\ policy.quickDuration # 0 /\ policy.lateDuration # 0
  /\ compositer \in BOOLEAN /\ faults \in BOOLEAN /\ tracks \in BOOLEAN /\ cancelled \in BOOLEAN
  /\ now \in 0..MaxTime /\ duration \in 0..MaxTime
  /\ live \in {"waiting", "announced", "requesting", "done"}
  /\ nextQuickIndex \in Nat \ {0}
  /\ handler \in {"none", "stopLive", "stop", "export", "queueing", "failed", "done"}
  /\ queue \subseteq Exports
  /\ exports \in [Exports -> Nat]

(* How many parts the live goroutine has announced: it counts a boundary    *)
(* when it is through with it.                                              *)
Boundaries == IF live \in {"announced", "requesting"} THEN nextQuickIndex ELSE nextQuickIndex - 1

LiveInv ==
  /\ ~HasBoundaries => live = "done" /\ nextQuickIndex = 1
  /\ quickParts = [k \in 1..Boundaries |-> LivePart(k, QuickDuration)]
  /\ Boundaries * QuickDuration <= now

Wanted(e) ==
  /\ compositer
  /\ e.kind = "quick_access" => policy.quickAccess /\ QuickDuration > 0
  /\ e.kind = "late_composite" => policy.lateComposite /\ LateDuration > 0

(* Until the stop has built its list only the live goroutine exports, part  *)
(* after part; the stop cancels it before, so that it starts no request     *)
(* any more, and leaves out the part it may be asking for.                  *)
ExportInv ==
  /\ handler \notin {"none", "stopLive"} => cancelled
  /\ handler # "queueing" => queue = {}
  /\ handler \notin {"queueing", "done"} =>
       \A e \in Exports : exports[e] > 0 => e.kind = "quick_access" /\ e.index < nextQuickIndex
  /\ live = "requesting" =>
       \A e \in Exports : e = Quick(nextQuickIndex) => exports[e] = 0 /\ e \notin queue
  /\ \A e \in queue : exports[e] = 0
  /\ \A e \in Exports : /\ exports[e] <= 1
                        /\ exports[e] > 0 \/ e \in queue => Wanted(e)

(* Before the stop cancels the session there are exports only because there *)
(* was a track, and there still is, so that no later part was left out.     *)
UnbrokenInv ==
  /\ live = "requesting" => tracks
  /\ ~faults /\ ~cancelled =>
       \A h \in Indexes : exports[Quick(h)] = 1 =>
         /\ tracks
         /\ \A i \in Indexes : h < i /\ i < nextQuickIndex => exports[Quick(i)] = 1

(* A part of the lists built at the stop is still to be requested, or it    *)
(* was exported or announced.                                               *)
CoverInv ==
  handler \in {"queueing", "done"} /\ ~faults /\ compositer =>
    /\ \A i \in DOMAIN QuickList : Quick(i) \in queue \/ exports[Quick(i)] = 1 \/ i \in Announced
    /\ \A i \in DOMAIN LateList : Late(i) \in queue \/ exports[Late(i)] = 1

IInv == Types /\ LiveInv /\ ExportInv /\ UnbrokenInv /\ CoverInv
-----------------------------------------------------------------------------
(* The parts of a recording.                                                *)

LEMMA Division ==
  ASSUME NEW a \in Int, NEW q \in Nat \ {0}
  PROVE  /\ a \div q \in Int
         /\ (a \div q) * q <= a /\ a < (a \div q) * q + q
         /\ a % q = 0 <=> (a \div q) * q = a
<1>1. a \div q \in Int
  OBVIOUS
<1>2. (a \div q) * q <= a
  OBVIOUS
<1>3. a < (a \div q) * q + q
  OBVIOUS
<1>4. a % q = 0 => (a \div q) * q = a
  OBVIOUS
<1>5. (a \div q) * q = a => a % q = 0
  OBVIOUS
<1> QED
  BY <1>1, <1>2, <1>3, <1>4, <1>5

LEMMA Product ==
  ASSUME NEW a \in Int, NEW b \in Int, NEW q \in Nat \ {0}
  PROVE  /\ a * q \in Int
         /\ a <= b => a * q <= b * q
         /\ (a + 1) * q = a * q + q /\ (a - 1) * q = a * q - q
         /\ a \in Nat => a <= a * q
<1>1. a <= b => a * q <= b * q
  OBVIOUS
<1>2. a \in Nat => a <= a * q
  OBVIOUS
<1>3. (a + 1) * q = a * q + q /\ (a - 1) * q = a * q - q
  OBVIOUS
<1> QED
  BY <1>1, <1>2, <1>3

(* The count is rounded up: the last part is not empty and reaches the end. *)
LEMMA Rounded ==
  ASSUME NEW d \in Nat \ {0}, NEW part \in Nat \ {0}
  PROVE  /\ PartCount(d, part) \in Nat \ {0}
         /\ (PartCount(d, part) - 1) * part < d /\ d <= PartCount(d, part) * part
         /\ PartCount(d, part) <= d
<1> DEFINE whole == d \div part
           count == IF d % part # 0 THEN whole + 1 ELSE whole
<1>1. whole \in Int /\ whole * part <= d /\ d < whole * part + part
      /\ (d % part = 0 <=> whole * part = d)
  BY Division
<1>2. whole >= 0
  <2>1. (whole + 1) * part > 0
    BY <1>1, Product
  <2>2. whole + 1 > 0
    BY <1>1, <2>1
  <2> QED
    BY <1>1, <2>2
<1> HIDE DEF whole
<1>3. CASE d % part # 0
  <2>1. count = whole + 1 /\ PartCount(d, part) = count
    BY <1>1, <1>2, <1>3 DEF PartCount, whole
  <2>2. whole * part < d /\ d <= (whole + 1) * part
    BY <1>1, <1>3, Product
  <2>3. whole <= whole * part
    BY <1>1, <1>2, Product
  <2>4. whole + 1 <= d
    <3>1. whole * part \in Int
      BY <1>1, Product
    <3> QED
      BY <1>1, <2>2, <2>3, <3>1
  <2> QED
    BY <1>1, <1>2, <2>1, <2>2, <2>4
<1>4. CASE d % part = 0
  <2>1. whole * part = d /\ whole # 0
    BY <1>1, <1>4
  <2>2. PartCount(d, part) = whole
    BY <1>1, <1>2, <1>4, <2>1 DEF PartCount, whole
  <2>3. (whole - 1) * part < d
    BY <1>1, <2>1, Product
  <2>4. whole <= d
    BY <1>1, <1>2, <2>1, Product
  <2> QED
    BY <1>1, <1>2, <2>1, <2>2, <2>3, <2>4
<1> QED
  BY <1>3, <1>4

LEMMA Lists ==
  ASSUME NEW d \in Nat, NEW enabled \in BOOLEAN, NEW part \in Int
  PROVE  /\ d > 0 /\ enabled /\ part > 0 =>
              /\ PolicyParts(d, enabled, part) = BuildParts(d, part)
              /\ DOMAIN PolicyParts(d, enabled, part) = 1..PartCount(d, part)
         /\ ~(d > 0 /\ enabled /\ part > 0) => DOMAIN PolicyParts(d, enabled, part) = {}
         /\ \A i \in DOMAIN PolicyParts(d, enabled, part) :
              /\ i \in 1..d /\ part > 0
              /\ PolicyParts(d, enabled, part)[i] = Part(i, (i - 1) * part, PartEnd(i, d, part))
              /\ PolicyParts(d, enabled, part)[i].index = i
<1>1. CASE d > 0 /\ enabled /\ part > 0
  <2>1. PolicyParts(d, enabled, part) =
          [i \in 1..PartCount(d, part) |-> Part(i, (i - 1) * part, PartEnd(i, d, part))]
    BY <1>1 DEF PolicyParts, BuildParts
  <2>2. PartCount(d, part) \in Nat \ {0} /\ PartCount(d, part) <= d
    BY <1>1, Rounded
  <2>3. \A i \in 1..PartCount(d, part) : i \in 1..d
    BY <2>2
  <2>4. PolicyParts(d, enabled, part) = BuildParts(d, part)
    BY <1>1 DEF PolicyParts
  <2>5. \A i \in 1..PartCount(d, part) :
          PolicyParts(d, enabled, part)[i] = Part(i, (i - 1) * part, PartEnd(i, d, part))
    BY <2>1
  <2>6. \A i, a, b : Part(i, a, b).index = i
    BY DEF Part
  <2>7. DOMAIN PolicyParts(d, enabled, part) = 1..PartCount(d, part)
    BY <2>1
  <2>8. ASSUME NEW i \in DOMAIN PolicyParts(d, enabled, part)
        PROVE  /\ i \in 1..d /\ part > 0
               /\ PolicyParts(d, enabled, part)[i] = Part(i, (i - 1) * part, PartEnd(i, d, part))
               /\ PolicyParts(d, enabled, part)[i].index = i
    <3>1. i \in 1..PartCount(d, part)
      BY <2>7, <2>8
    <3>2. PolicyParts(d, enabled, part)[i] = Part(i, (i - 1) * part, PartEnd(i, d, part))
      BY <2>5, <3>1
    <3>3. PolicyParts(d, enabled, part)[i].index = i
      BY <2>6, <3>2, Zenon
    <3> QED
      BY <1>1, <2>3, <3>1, <3>2, <3>3
  <2> QED
    BY <1>1, <2>4, <2>7, <2>8
<1>2. CASE ~(d > 0 /\ enabled /\ part > 0)
  <2>1. PolicyParts(d, enabled, part) = <<>>
    BY <1>2 DEF PolicyParts, BuildParts
  <2> QED
    BY <1>2, <2>1
<1> QED
  BY <1>1, <1>2

LEMMA ListIndexes ==
  ASSUME NEW d \in Nat, NEW enabled \in BOOLEAN, NEW part \in Int,
         NEW i \in DOMAIN PolicyParts(d, enabled, part)
  PROVE  /\ PolicyParts(d, enabled, part)[i].index = i
         /\ i \in 1..d /\ part > 0 /\ enabled /\ d > 0
<1>1. /\ PolicyParts(d, enabled, part)[i].index = i
      /\ i \in 1..d /\ part > 0
  BY Lists
<1>2. ~(d > 0 /\ enabled /\ part > 0) => DOMAIN PolicyParts(d, enabled, part) = {}
  BY Lists
<1> QED
  BY <1>1, <1>2

(* A part that starts at a whole millisecond is as long in milliseconds as  *)
(* its ends are apart, although each of the three is rounded.               *)
LEMMA RoundedEnds ==
  ASSUME NEW a \in Int, NEW c \in Int
  PROVE  Milliseconds(a - c * Unit) = Milliseconds(a) - Milliseconds(c * Unit)
<1>1. (a - c * Unit) \div Unit = a \div Unit - c
  BY UnitAssumption
<1>2. (c * Unit) \div Unit = c
  BY UnitAssumption
<1> QED
  BY <1>1, <1>2 DEF Milliseconds

LEMMA PartsTile ==
  ASSUME NEW d \in Nat \ {0}, NEW part \in Nat \ {0}, NEW c \in Int, part = c * Unit
  PROVE  Tiles(BuildParts(d, part), d)
<1> DEFINE list == BuildParts(d, part)
           count == PartCount(d, part)
<1>1. /\ list = [i \in 1..count |-> Part(i, (i - 1) * part, PartEnd(i, d, part))]
  BY DEF BuildParts
<1>2. count \in Nat \ {0} /\ (count - 1) * part < d /\ d <= count * part
  BY Rounded
<1> HIDE DEF list, count
<1>3. DOMAIN list = 1..count /\ 1 \in 1..count /\ list # <<>>
  <2>1. DOMAIN list = 1..count /\ 1 \in 1..count
    BY <1>1, <1>2
  <2>2. DOMAIN <<>> = {}
    OBVIOUS
  <2> QED
    BY <2>1, <2>2
<1>4. list[1].start = 0
  <2>1. list[1].start = Milliseconds((1 - 1) * part)
    BY <1>1, <1>3 DEF Part
  <2>2. Milliseconds(0) = 0
    BY UnitAssumption DEF Milliseconds
  <2> QED
    BY <2>1, <2>2
<1>5. ASSUME NEW i \in 1..count, i < count
      PROVE  PartEnd(i, d, part) = i * part
  <2>1. i \in Int /\ i <= count - 1 /\ count - 1 \in Int
    BY <1>2, <1>5
  <2>2. i * part <= (count - 1) * part /\ i * part \in Int /\ (count - 1) * part \in Int
    BY <2>1, Product
  <2> QED
    BY <1>2, <2>2 DEF PartEnd
<1>6. PartEnd(count, d, part) = d
  <2>1. count * part \in Int
    BY <1>2, Product
  <2> QED
    BY <1>2, <2>1 DEF PartEnd
<1>7. ASSUME NEW i \in 1..count
      PROVE  /\ list[i].index = i
             /\ list[i].duration = list[i].end - list[i].start
             /\ i + 1 \in 1..count => list[i].end = list[i + 1].start
             /\ i + 1 \notin 1..count => list[i].end = Milliseconds(d)
  <2>1. /\ list[i].index = i
        /\ list[i].start = Milliseconds((i - 1) * part)
        /\ list[i].end = Milliseconds(PartEnd(i, d, part))
        /\ list[i].duration = Milliseconds(PartEnd(i, d, part) - (i - 1) * part)
    BY <1>1 DEF Part
  <2>2. PartEnd(i, d, part) \in Int
    BY Product DEF PartEnd
  <2>3. (i - 1) * part = ((i - 1) * c) * Unit /\ (i - 1) * c \in Int
    BY UnitAssumption
  <2>4. list[i].duration = list[i].end - list[i].start
    BY <2>1, <2>2, <2>3, RoundedEnds
  <2>5. ASSUME i + 1 \in 1..count PROVE list[i].end = list[i + 1].start
    <3>1. i < count /\ (i + 1) - 1 = i
      BY <1>2, <2>5
    <3>2. list[i + 1].start = Milliseconds(((i + 1) - 1) * part)
      BY <1>1, <2>5 DEF Part
    <3> QED
      BY <1>5, <2>1, <3>1, <3>2
  <2>6. ASSUME i + 1 \notin 1..count PROVE list[i].end = Milliseconds(d)
    <3>1. i = count
      BY <1>2, <2>6
    <3> QED
      BY <1>6, <2>1, <3>1
  <2> QED
    BY <2>1, <2>4, <2>5, <2>6
<1> QED
  BY <1>3, <1>4, <1>7 DEF Tiles, list

-----------------------------------------------------------------------------
(* What does not change, and the lists.                                     *)

LEMMA Lengths ==
  ASSUME Types
  PROVE  /\ QuickDuration \in Int /\ LateDuration \in Int
         /\ \E c \in Int : QuickDuration = c * Unit
         /\ \E c \in Int : LateDuration = c * Unit
<1>1. Second \in Nat \ {0} /\ Second % Unit = 0 /\ Unit \in Nat \ {0}
  BY LiveAssumption, UnitAssumption
<1>2. policy.quickDuration \in Int /\ policy.lateDuration \in Int
  BY DEF Types, Policies
<1>3. Second \div Unit \in Int /\ Second = (Second \div Unit) * Unit
  BY <1>1, Division
<1>4. ASSUME NEW n \in Int
      PROVE  n * Second \in Int /\ n * Second = (n * (Second \div Unit)) * Unit
                                /\ n * (Second \div Unit) \in Int
  BY <1>1, <1>3
<1> QED
  BY <1>2, <1>4 DEF QuickDuration, LateDuration

LEMMA AnnouncedIs ==
  ASSUME Types, LiveInv
  PROVE  /\ Boundaries \in Nat
         /\ DOMAIN quickParts = 1..Boundaries
         /\ \A i \in 1..Boundaries : quickParts[i] = LivePart(i, QuickDuration)
         /\ Announced = 1..Boundaries
<1>1. Boundaries \in Nat
  BY DEF Types, Boundaries
<1>2. DOMAIN quickParts = 1..Boundaries
  BY DEF LiveInv
<1>3. \A i \in 1..Boundaries : quickParts[i] = LivePart(i, QuickDuration)
  BY DEF LiveInv
<1>4. \A i, q : LivePart(i, q).index = i
  BY DEF LivePart, Part
<1>5. \A i \in 1..Boundaries : quickParts[i].index = i
  BY <1>3, <1>4, Zenon
<1> QED
  BY <1>1, <1>2, <1>3, <1>5 DEF Announced

(* The lists of a recording: their parts are numbered from 1 and not more   *)
(* than the units of its duration.                                          *)
LEMMA ListsOf ==
  ASSUME Types
  PROVE  /\ \A i \in DOMAIN QuickList :
              /\ i \in Indexes /\ QuickList[i].index = i
              /\ policy.quickAccess /\ QuickDuration > 0 /\ duration > 0
         /\ \A i \in DOMAIN LateList :
              /\ i \in Indexes /\ LateList[i].index = i
              /\ policy.lateComposite /\ LateDuration > 0 /\ duration > 0
<1>1. duration \in Nat /\ duration <= MaxTime /\ MaxTime \in Nat
  BY LiveAssumption DEF Types
<1>2. policy.quickAccess \in BOOLEAN /\ policy.lateComposite \in BOOLEAN
  BY DEF Types, Policies
<1>3. QuickDuration \in Int /\ LateDuration \in Int
  BY Lengths
<1>4. 1..duration \subseteq Indexes
  BY <1>1 DEF Indexes
<1>5. \A i \in DOMAIN QuickList :
        /\ i \in Indexes /\ QuickList[i].index = i
        /\ policy.quickAccess /\ QuickDuration > 0 /\ duration > 0
  <2>1. ASSUME NEW i \in DOMAIN PolicyParts(duration, policy.quickAccess, QuickDuration)
        PROVE  /\ PolicyParts(duration, policy.quickAccess, QuickDuration)[i].index = i
               /\ i \in 1..duration /\ QuickDuration > 0 /\ policy.quickAccess /\ duration > 0
    BY <1>1, <1>2, <1>3, ListIndexes
  <2> QED
    BY <1>4, <2>1 DEF QuickList
<1>6. \A i \in DOMAIN LateList :
        /\ i \in Indexes /\ LateList[i].index = i
        /\ policy.lateComposite /\ LateDuration > 0 /\ duration > 0
  <2>1. ASSUME NEW i \in DOMAIN PolicyParts(duration, policy.lateComposite, LateDuration)
        PROVE  /\ PolicyParts(duration, policy.lateComposite, LateDuration)[i].index = i
               /\ i \in 1..duration /\ LateDuration > 0 /\ policy.lateComposite /\ duration > 0
    BY <1>1, <1>2, <1>3, ListIndexes
  <2> QED
    BY <1>4, <2>1 DEF LateList
<1> QED
  BY <1>5, <1>6

LEMMA ExportNames ==
  /\ \A i \in Indexes : Quick(i) \in Exports /\ Late(i) \in Exports
  /\ \A i, j : /\ Quick(i) # Late(j)
               /\ Quick(i) = Quick(j) => i = j
               /\ Quick(i).kind = "quick_access" /\ Quick(i).index = i
               /\ Late(i).kind = "late_composite" /\ Late(i).index = i
  /\ \A e \in Exports : /\ e.index \in Indexes
                        /\ e = Quick(e.index) \/ e = Late(e.index)
BY DEF Quick, Late, Exports

LEMMA InitPolicy ==
  ASSUME Init
  PROVE  /\ policy \in Policies /\ policy.enabled
         /\ policy.quickDuration # 0 /\ policy.lateDuration # 0
<1>1. PICK request \in Requests, requestedBy \in {"system", "peer"} :
        policy = PolicyFromProto(request) /\ Accepted(policy, requestedBy)
  BY DEF Init
<1>2. ASSUME NEW p \in Policies
      PROVE  /\ WithDefaults(p) \in Policies
             /\ WithDefaults(p).quickDuration # 0 /\ WithDefaults(p).lateDuration # 0
  <2> DEFINE a == IF p.layout = 0 THEN LayoutGrid ELSE p.layout
             b == IF p.quickDuration = 0 THEN DefaultDuration ELSE p.quickDuration
             c == IF p.lateDuration = 0 THEN DefaultDuration ELSE p.lateDuration
  <2>1. p.layout \in Int /\ p.quickDuration \in Int /\ p.lateDuration \in Int
    BY DEF Policies
  <2>2. a \in Int /\ b \in Int \ {0} /\ c \in Int \ {0}
    BY <2>1 DEF LayoutGrid, DefaultDuration
  <2>3. WithDefaults(p) = [p EXCEPT !.layout = a, !.quickDuration = b, !.lateDuration = c]
    BY DEF WithDefaults
  <2> HIDE DEF a, b, c
  <2> QED
    BY <2>2, <2>3 DEF Policies
<1>3. (policy = WithDefaults(request) /\ request \in Policies) \/ policy = DefaultPolicy
  BY <1>1, LiveAssumption DEF PolicyFromProto
<1>4. \E p \in Policies : DefaultPolicy = WithDefaults(p)
  <2> DEFINE p == [enabled |-> TRUE, who |-> HostOnly, quickAccess |-> FALSE,
                   lateComposite |-> FALSE, recorded |-> {Audio, Video, Screenshare},
                   access |-> 0, layout |-> LayoutGrid,
                   quickDuration |-> DefaultDuration, lateDuration |-> DefaultDuration]
  <2>1. p \in Policies
    BY DEF Policies, HostOnly, LayoutGrid, DefaultDuration
  <2>2. DefaultPolicy = WithDefaults(p)
    BY DEF DefaultPolicy
  <2> QED
    BY <2>1, <2>2
<1> QED
  BY <1>1, <1>2, <1>3, <1>4 DEF Accepted

LEMMA InitInv == Init => IInv
<1> SUFFICES ASSUME Init PROVE IInv
  OBVIOUS
<1>1. Types
  <2>1. exports \in [Exports -> Nat] /\ queue \subseteq Exports
    BY DEF Init
  <2>2. now \in 0..MaxTime /\ duration \in 0..MaxTime
    BY LiveAssumption DEF Init
  <2>3. /\ compositer \in BOOLEAN /\ faults \in BOOLEAN /\ tracks \in BOOLEAN
        /\ cancelled \in BOOLEAN
        /\ live \in {"waiting", "announced", "requesting", "done"}
        /\ nextQuickIndex \in Nat \ {0}
        /\ handler \in {"none", "stopLive", "stop", "export", "queueing", "failed", "done"}
    <3>1. compositer \in BOOLEAN /\ faults \in BOOLEAN
      BY Zenon DEF Init
    <3>2. tracks \in BOOLEAN /\ cancelled \in BOOLEAN
      BY Zenon DEF Init
    <3>3. live \in {"waiting", "announced", "requesting", "done"}
      BY DEF Init
    <3>4. nextQuickIndex \in Nat \ {0}
      BY DEF Init
    <3>5. handler \in {"none", "stopLive", "stop", "export", "queueing", "failed", "done"}
      BY DEF Init
    <3> QED
      BY <3>1, <3>2, <3>3, <3>4, <3>5
  <2> QED
    BY <2>1, <2>2, <2>3, InitPolicy DEF Types
<1>2. LiveInv
  <2>1. Boundaries = 0
    BY DEF Init, Boundaries
  <2>2. quickParts = [k \in 1..0 |-> LivePart(k, QuickDuration)]
    BY DEF Init
  <2>3. 0 * QuickDuration = 0
    BY <1>1, Lengths
  <2> QED
    BY <2>1, <2>2, <2>3 DEF Init, LiveInv
<1>3. ExportInv
  BY DEF Init, ExportInv
<1>4. UnbrokenInv
  <2>1. \A h \in Indexes : exports[Quick(h)] = 0
    BY ExportNames DEF Init
  <2> QED
    BY <2>1 DEF Init, UnbrokenInv
<1>5. CoverInv
  BY DEF Init, CoverInv
<1> QED
  BY <1>1, <1>2, <1>3, <1>4, <1>5 DEF IInv

-----------------------------------------------------------------------------
(* The steps.                                                               *)

(* What CreateExport does to the compositer, for a part of any index.       *)
LEMMA ExportStep ==
  ASSUME Types, NEW e, Export(e)
  PROVE  /\ exports' \in [Exports -> Nat] /\ faults' = faults
         /\ \A f \in Exports \ {e} : exports'[f] = exports[f]
         /\ e \in Exports => exports'[e] \in {exports[e], exports[e] + 1}
         /\ e \in Exports /\ ~faults => exports'[e] = exports[e] + 1
<1>1. exports \in [Exports -> Nat]
  BY DEF Types
<1>2. CASE exports' = [exports EXCEPT ![e] = @ + 1]
  <2>1. exports' = [exports EXCEPT ![e] = exports[e] + 1] /\ faults' = faults
    BY <1>2 DEF Export
  <2>2. CASE e \in Exports
    <3>1. exports[e] + 1 \in Nat
      BY <1>1, <2>2
    <3> QED
      BY <1>1, <2>1, <2>2, <3>1
  <2>3. CASE e \notin Exports
    BY <1>1, <2>1, <2>3
  <2> QED
    BY <2>2, <2>3
<1>3. CASE faults /\ UNCHANGED exports
  BY <1>1, <1>3 DEF Export
<1> QED
  BY <1>2, <1>3 DEF Export

LEMMA FinalQueue ==
  ASSUME Types, QueueFinalExports
  PROVE  /\ handler = "export" /\ handler' = "queueing"
         /\ UNCHANGED <<givenVars, now, tracks, liveVars, cancelled, duration, compositerVars>>
         /\ compositer /\ duration > 0 =>
              queue' = {Quick(i) : i \in {j \in DOMAIN QuickList : j \notin Announced}}
                         \cup {Late(i) : i \in DOMAIN LateList}
         /\ ~(compositer /\ duration > 0) => queue' = {}
         /\ queue' \subseteq Exports
<1>1. /\ handler = "export" /\ handler' = "queueing"
      /\ UNCHANGED <<givenVars, now, tracks, liveVars, cancelled, duration, compositerVars>>
      /\ ~(compositer /\ duration > 0) => queue' = {}
  BY DEF QueueFinalExports
<1>2. ASSUME compositer, duration > 0
      PROVE  queue' = {Quick(i) : i \in {j \in DOMAIN QuickList : j \notin Announced}}
                         \cup {Late(i) : i \in DOMAIN LateList}
  <2>1. queue' = {Quick(QuickList[i].index) : i \in Remaining}
                   \cup {Late(LateList[i].index) : i \in DOMAIN LateList}
    BY <1>2 DEF QueueFinalExports
  <2>2. \A i \in DOMAIN QuickList : QuickList[i].index = i
    BY ListsOf
  <2>3. \A i \in DOMAIN LateList : LateList[i].index = i
    BY ListsOf
  <2>4. Remaining = {j \in DOMAIN QuickList : j \notin Announced}
    BY <2>2 DEF Remaining
  <2>5. {Quick(QuickList[i].index) : i \in Remaining}
          = {Quick(i) : i \in {j \in DOMAIN QuickList : j \notin Announced}}
    BY <2>2, <2>4
  <2>6. {Late(LateList[i].index) : i \in DOMAIN LateList} = {Late(i) : i \in DOMAIN LateList}
    BY <2>3
  <2> QED
    BY <2>1, <2>5, <2>6
<1>3. queue' \subseteq Exports
  <2>1. CASE compositer /\ duration > 0
    <3>1. \A i \in DOMAIN QuickList : Quick(i) \in Exports
      BY ListsOf, ExportNames
    <3>2. \A i \in DOMAIN LateList : Late(i) \in Exports
      BY ListsOf, ExportNames
    <3> QED
      BY <1>2, <2>1, <3>1, <3>2
  <2> QED
    BY <1>1, <2>1
<1> QED
  BY <1>1, <1>2, <1>3

LEMMA NextTypes == Types /\ [Next]_vars => Types'
<1> SUFFICES ASSUME Types, [Next]_vars PROVE Types'
  OBVIOUS
<1> USE DEF givenVars, liveVars, handlerVars, compositerVars
<1>1. ASSUME Tick PROVE Types'
  <2>1. now' \in 0..MaxTime
    BY <1>1, LiveAssumption DEF Tick, Types
  <2> QED
    BY <1>1, <2>1 DEF Tick, Types
<1>2. ASSUME SubscribeTrack PROVE Types'
  BY <1>2 DEF SubscribeTrack, Types
<1>3. ASSUME ProcessBoundary PROVE Types'
  BY <1>3 DEF ProcessBoundary, Types
<1>4. ASSUME RequestExport PROVE Types'
  BY <1>4 DEF RequestExport, Types
<1>5. ASSUME ExportBoundary PROVE Types'
  <2>1. exports' \in [Exports -> Nat] /\ faults' = faults
    BY <1>5, ExportStep DEF ExportBoundary, Types
  <2> QED
    BY <1>5, <2>1 DEF ExportBoundary, Types
<1>6. ASSUME EndLive PROVE Types'
  BY <1>6 DEF EndLive, Types
<1>7. ASSUME ReadStats PROVE Types'
  BY <1>7 DEF ReadStats, Types
<1>8. ASSUME StopLiveRecorder PROVE Types'
  BY <1>8 DEF StopLiveRecorder, Types
<1>9. ASSUME StopRecording PROVE Types'
  BY <1>9 DEF StopRecording, Types
<1>10. ASSUME QueueFinalExports PROVE Types'
  <2>1. /\ handler' = "queueing" /\ queue' \subseteq Exports
        /\ UNCHANGED <<givenVars, now, tracks, liveVars, cancelled, duration, compositerVars>>
    BY <1>10, FinalQueue
  <2> QED
    BY <2>1 DEF Types
<1>11. ASSUME QueueNextExport PROVE Types'
  <2>1. exports' \in [Exports -> Nat] /\ faults' = faults
    BY <1>11, ExportStep DEF QueueNextExport, Types
  <2> QED
    BY <1>11, <2>1 DEF QueueNextExport, Types
<1>12. CASE UNCHANGED vars
  BY <1>12 DEF vars, Types
<1> QED
  BY <1>1, <1>2, <1>3, <1>4, <1>5, <1>6, <1>7, <1>8, <1>9, <1>10, <1>11, <1>12
  DEF Next, LiveStep, HandlerStep

(* A boundary adds its part after the others.                               *)
LEMMA Announces ==
  ASSUME Types, LiveInv, ProcessBoundary
  PROVE  /\ DOMAIN quickParts' = 1..Boundaries + 1
         /\ \A k \in 1..Boundaries : quickParts'[k] = quickParts[k]
         /\ quickParts'[Boundaries + 1] = LivePart(nextQuickIndex, QuickDuration)
         /\ quickParts' = [k \in DOMAIN quickParts' |-> quickParts'[k]]
<1> DEFINE S == {LivePart(k, QuickDuration) : k \in Int}
<1>1. Boundaries \in Nat
  BY AnnouncedIs
<1>2. quickParts \in Seq(S) /\ Len(quickParts) = Boundaries
  BY <1>1, IsASeq, LenProperties DEF LiveInv
<1>3. LivePart(nextQuickIndex, QuickDuration) \in S
  BY DEF Types
<1> HIDE DEF S
<1>4. quickParts' = Append(quickParts, LivePart(nextQuickIndex, QuickDuration))
  BY DEF ProcessBoundary
<1>5. quickParts' \in Seq(S)
  BY <1>2, <1>3, <1>4, AppendProperties
<1>6. PICK n \in Nat : quickParts' \in [1..n -> S]
  BY <1>5, SeqDef
<1>7. quickParts' = [k \in DOMAIN quickParts' |-> quickParts'[k]]
  BY <1>6
<1> QED
  BY <1>2, <1>3, <1>4, <1>5, <1>7, AppendProperties, LenProperties

LEMMA NextLiveInv == Types /\ LiveInv /\ [Next]_vars => LiveInv'
<1> SUFFICES ASSUME Types, LiveInv, [Next]_vars PROVE LiveInv'
  OBVIOUS
<1> USE DEF givenVars, liveVars, handlerVars, compositerVars
<1>1. policy' = policy /\ compositer' = compositer
  BY DEF Next, LiveStep, HandlerStep, Tick, SubscribeTrack, ProcessBoundary, RequestExport,
     ExportBoundary, EndLive, ReadStats, StopLiveRecorder, StopRecording, QueueFinalExports,
     QueueNextExport, vars
<1>2. /\ QuickDuration' = QuickDuration /\ QuickDuration \in Int
      /\ (HasBoundaries <=> HasBoundaries')
  BY <1>1, Lengths DEF QuickDuration, HasBoundaries
<1>3. Boundaries \in Nat /\ Boundaries * QuickDuration \in Int /\ now \in Nat
  BY <1>2, AnnouncedIs DEF Types
<1>4. ASSUME Boundaries' = Boundaries, quickParts' = quickParts, now' >= now, now' \in Nat,
             HasBoundaries \/ UNCHANGED <<live, nextQuickIndex>>
      PROVE  LiveInv'
  <2>1. quickParts' = [k \in 1..Boundaries' |-> LivePart(k, QuickDuration')]
    BY <1>2, <1>4 DEF LiveInv
  <2>2. Boundaries' * QuickDuration' <= now'
    BY <1>2, <1>3, <1>4 DEF LiveInv
  <2> QED
    BY <1>2, <1>4, <2>1, <2>2 DEF LiveInv
<1>5. ASSUME UNCHANGED <<live, nextQuickIndex, quickParts>>, now' >= now, now' \in Nat
      PROVE  LiveInv'
  BY <1>4, <1>5 DEF Boundaries
<1>6. ASSUME Tick PROVE LiveInv'
  BY <1>3, <1>5, <1>6 DEF Tick
<1>7. ASSUME ProcessBoundary PROVE LiveInv'
  <2>1. /\ live = "waiting" /\ live' = "announced" /\ nextQuickIndex' = nextQuickIndex /\ now' = now
        /\ now >= nextQuickIndex * QuickDuration
        /\ quickParts' = Append(quickParts, LivePart(nextQuickIndex, QuickDuration))
    BY <1>7 DEF ProcessBoundary, BoundaryReached
  <2>2. HasBoundaries
    BY <2>1 DEF LiveInv
  <2>3. nextQuickIndex = Boundaries + 1 /\ Boundaries' = nextQuickIndex
    BY <2>1 DEF Boundaries, Types
  <2>6. /\ DOMAIN quickParts' = 1..Boundaries + 1
        /\ \A k \in 1..Boundaries : quickParts'[k] = quickParts[k]
        /\ quickParts'[Boundaries + 1] = LivePart(nextQuickIndex, QuickDuration)
        /\ quickParts' = [k \in DOMAIN quickParts' |-> quickParts'[k]]
    BY <1>7, Announces
  <2>7. \A k \in 1..Boundaries + 1 : quickParts'[k] = LivePart(k, QuickDuration)
    BY <1>3, <2>3, <2>6 DEF LiveInv
  <2>8. quickParts' = [k \in 1..Boundaries + 1 |-> LivePart(k, QuickDuration)]
    BY <2>6, <2>7
  <2> QED
    BY <1>2, <2>1, <2>2, <2>3, <2>8 DEF LiveInv
<1>8. ASSUME RequestExport PROVE LiveInv'
  <2>1. HasBoundaries
    BY <1>8 DEF RequestExport, LiveInv
  <2>2. Boundaries' = Boundaries
    BY <1>8 DEF RequestExport, Boundaries, Types
  <2> QED
    BY <1>3, <1>4, <1>8, <2>1, <2>2 DEF RequestExport
<1>9. ASSUME ExportBoundary PROVE LiveInv'
  <2>1. HasBoundaries
    BY <1>9 DEF ExportBoundary, LiveInv
  <2>2. Boundaries' = Boundaries
    BY <1>9 DEF ExportBoundary, Boundaries, Types
  <2> QED
    BY <1>3, <1>4, <1>9, <2>1, <2>2 DEF ExportBoundary
<1>10. ASSUME EndLive PROVE LiveInv'
  <2>1. HasBoundaries
    BY <1>10 DEF EndLive, LiveInv
  <2>2. Boundaries' = Boundaries
    BY <1>10 DEF EndLive, Boundaries, Types
  <2> QED
    BY <1>3, <1>4, <1>10, <2>1, <2>2 DEF EndLive
<1>11. ASSUME SubscribeTrack \/ ReadStats \/ HandlerStep \/ UNCHANGED vars PROVE LiveInv'
  <2>1. UNCHANGED <<live, nextQuickIndex, quickParts, now>>
    BY <1>11 DEF SubscribeTrack, ReadStats, HandlerStep, StopLiveRecorder, StopRecording,
       QueueFinalExports, QueueNextExport, vars
  <2> QED
    BY <1>3, <1>5, <2>1
<1> QED
  BY <1>6, <1>7, <1>8, <1>9, <1>10, <1>11 DEF Next, LiveStep

LEMMA NextExportInv == Types /\ LiveInv /\ ExportInv /\ [Next]_vars => ExportInv'
<1> SUFFICES ASSUME Types, LiveInv, ExportInv, [Next]_vars PROVE ExportInv'
  OBVIOUS
<1> USE DEF givenVars, liveVars, handlerVars, compositerVars
<1>1. policy' = policy /\ compositer' = compositer
  BY DEF Next, LiveStep, HandlerStep, Tick, SubscribeTrack, ProcessBoundary, RequestExport,
     ExportBoundary, EndLive, ReadStats, StopLiveRecorder, StopRecording, QueueFinalExports,
     QueueNextExport, vars
<1>2. \A e : Wanted(e)' <=> Wanted(e)
  BY <1>1 DEF Wanted, QuickDuration, LateDuration
<1>3. exports \in [Exports -> Nat] /\ queue \subseteq Exports /\ nextQuickIndex \in Nat \ {0}
      /\ Indexes \subseteq Nat
  BY LiveAssumption DEF Types, Indexes
<1>4. ASSUME UNCHANGED <<live, nextQuickIndex, cancelled, handler, queue, exports>>
      PROVE  ExportInv'
  BY <1>2, <1>4 DEF ExportInv
<1>5. ASSUME Tick \/ SubscribeTrack \/ ProcessBoundary \/ UNCHANGED vars PROVE ExportInv'
  <2>1. CASE ProcessBoundary
    BY <1>2, <2>1 DEF ProcessBoundary, ExportInv
  <2>2. CASE Tick \/ SubscribeTrack \/ UNCHANGED vars
    BY <1>4, <2>2 DEF Tick, SubscribeTrack, vars
  <2> QED
    BY <1>5, <2>1, <2>2
<1>6. ASSUME RequestExport PROVE ExportInv'
  <2>1. UNCHANGED <<cancelled, handler, queue, exports>>
    BY <1>6 DEF RequestExport
  <2>2. CASE ~cancelled /\ live' = "requesting" /\ nextQuickIndex' = nextQuickIndex
    <3>1. handler \in {"none", "stopLive"} /\ queue = {}
      BY <2>2 DEF ExportInv, Types
    <3>2. ASSUME NEW e \in Exports, e = Quick(nextQuickIndex) PROVE exports[e] = 0
      <4>1. e.index = nextQuickIndex
        BY <3>2, ExportNames
      <4> QED
        BY <1>3, <3>1, <4>1 DEF ExportInv
    <3> QED
      BY <1>2, <2>1, <2>2, <3>1, <3>2 DEF ExportInv
  <2>3. CASE live' = "waiting" /\ nextQuickIndex' = nextQuickIndex + 1
    <3>1. ASSUME NEW e \in Exports, e.index < nextQuickIndex
          PROVE  e.index < nextQuickIndex'
      <4>1. e.index \in Nat
        BY <1>3, ExportNames
      <4> QED
        BY <1>3, <2>3, <3>1, <4>1
    <3> QED
      BY <1>2, <2>1, <2>3, <3>1 DEF ExportInv
  <2> QED
    BY <1>6, <2>2, <2>3 DEF RequestExport
<1>7. ASSUME ExportBoundary PROVE ExportInv'
  <2> DEFINE f == Quick(nextQuickIndex)
  <2>1. /\ live = "requesting" /\ live' = "waiting" /\ nextQuickIndex' = nextQuickIndex + 1
        /\ UNCHANGED <<cancelled, handler, queue>>
        /\ Export(f) \/ UNCHANGED exports
    BY <1>7 DEF ExportBoundary
  <2>2. f \in Exports => exports[f] = 0 /\ f \notin queue
    BY <2>1 DEF ExportInv
  <2>3. /\ \A e \in Exports \ {f} : exports'[e] = exports[e]
        /\ f \in Exports => exports'[f] \in {0, 1}
    <3>1. CASE Export(f)
      BY <2>2, <3>1, ExportStep
    <3>2. CASE UNCHANGED exports
      BY <2>2, <3>2
    <3> QED
      BY <2>1, <3>1, <3>2
  <2>4. f \in Exports => f.index = nextQuickIndex /\ f.kind = "quick_access" /\ Wanted(f)
    <3>1. HasBoundaries
      BY <2>1 DEF LiveInv
    <3> QED
      BY <3>1, ExportNames DEF Wanted, HasBoundaries
  <2> HIDE DEF f
  <2>5. \A e \in Exports : e.index \in Nat
    BY <1>3, ExportNames
  <2>6. ASSUME NEW e \in Exports
        PROVE  /\ exports'[e] <= 1
               /\ exports'[e] > 0 \/ e \in queue => Wanted(e)
               /\ e \in queue => exports'[e] = 0
               /\ handler \notin {"queueing", "done"} =>
                    (exports'[e] > 0 => e.kind = "quick_access" /\ e.index < nextQuickIndex')
    <3>1. CASE e = f
      BY <1>3, <2>1, <2>2, <2>3, <2>4, <3>1
    <3>2. CASE e # f
      BY <1>3, <2>1, <2>3, <2>5, <3>2 DEF ExportInv
    <3> QED
      BY <3>1, <3>2
  <2> QED
    BY <1>2, <1>3, <2>1, <2>6 DEF ExportInv
<1>8. ASSUME EndLive PROVE ExportInv'
  BY <1>2, <1>8 DEF EndLive, ExportInv
<1>9. ASSUME ReadStats PROVE ExportInv'
  BY <1>2, <1>9 DEF ReadStats, ExportInv
<1>10. ASSUME StopLiveRecorder PROVE ExportInv'
  BY <1>2, <1>10 DEF StopLiveRecorder, ExportInv
<1>11. ASSUME StopRecording PROVE ExportInv'
  BY <1>2, <1>11 DEF StopRecording, ExportInv
<1>12. ASSUME QueueFinalExports PROVE ExportInv'
  <2>1. /\ handler = "export" /\ handler' = "queueing"
        /\ UNCHANGED <<live, nextQuickIndex, cancelled, exports>>
        /\ queue' \subseteq Exports
    BY <1>12, FinalQueue
  <2>2. Announced = 1..Boundaries
    BY AnnouncedIs
  <2>3. ASSUME NEW e \in queue'
        PROVE  /\ compositer
               /\ \/ \E i \in DOMAIN QuickList : e = Quick(i) /\ i \notin Announced
                  \/ \E i \in DOMAIN LateList : e = Late(i)
    BY <1>12, <2>3, FinalQueue
  <2>4. ASSUME NEW e \in queue'
        PROVE  /\ exports[e] = 0 /\ Wanted(e)
               /\ live = "requesting" => e # Quick(nextQuickIndex)
    <3>1. CASE \E i \in DOMAIN QuickList : e = Quick(i) /\ i \notin Announced
      <4>1. PICK i \in DOMAIN QuickList : e = Quick(i) /\ i \notin Announced
        BY <3>1
      <4>2. i \in Indexes /\ policy.quickAccess /\ QuickDuration > 0
        BY ListsOf
      <4>3. i \in Nat \ {0} /\ ~(i <= Boundaries) /\ Boundaries \in Nat
        BY <2>2, <4>1, <4>2, AnnouncedIs, LiveAssumption DEF Indexes
      <4>4. ~(i < nextQuickIndex) /\ (live = "requesting" => i # nextQuickIndex)
        BY <1>3, <4>3 DEF Boundaries
      <4>5. e.kind = "quick_access" /\ e.index = i /\ e \in Exports
        BY <2>1, <4>1, ExportNames
      <4>6. exports[e] = 0
        BY <1>3, <2>1, <4>4, <4>5 DEF ExportInv
      <4> QED
        BY <2>3, <4>1, <4>2, <4>4, <4>5, <4>6, ExportNames DEF Wanted
    <3>2. CASE \E i \in DOMAIN LateList : e = Late(i)
      <4>1. PICK i \in DOMAIN LateList : e = Late(i)
        BY <3>2
      <4>2. policy.lateComposite /\ LateDuration > 0
        BY ListsOf
      <4>3. e.kind = "late_composite" /\ e \in Exports /\ e # Quick(nextQuickIndex)
        BY <2>1, <4>1, ExportNames
      <4>4. exports[e] = 0
        BY <1>3, <2>1, <4>3 DEF ExportInv
      <4> QED
        BY <2>3, <4>2, <4>3, <4>4 DEF Wanted
    <3> QED
      BY <2>3, <3>1, <3>2
  <2> QED
    BY <1>2, <2>1, <2>4 DEF ExportInv
<1>13. ASSUME QueueNextExport PROVE ExportInv'
  <2>1. handler = "queueing" /\ UNCHANGED <<live, nextQuickIndex, cancelled>>
    BY <1>13 DEF QueueNextExport
  <2>2. CASE queue = {} /\ handler' = "done" /\ UNCHANGED <<queue, exports>>
    BY <1>2, <2>1, <2>2 DEF ExportInv
  <2>3. CASE \E e \in queue : Export(e) /\ queue' = queue \ {e} /\ handler' = handler
    <3>1. PICK e \in queue : Export(e) /\ queue' = queue \ {e} /\ handler' = handler
      BY <2>3
    <3>2. /\ \A g \in Exports \ {e} : exports'[g] = exports[g]
          /\ exports'[e] \in {0, 1} /\ e \in Exports /\ Wanted(e)
      BY <1>3, <3>1, ExportStep DEF ExportInv
    <3>3. live = "requesting" => e # Quick(nextQuickIndex)
      BY <1>3 DEF ExportInv
    <3>4. ASSUME NEW g \in Exports
          PROVE  /\ exports'[g] <= 1
                 /\ exports'[g] > 0 \/ g \in queue' => Wanted(g)
                 /\ g \in queue' => exports'[g] = 0
                 /\ live = "requesting" /\ g = Quick(nextQuickIndex) =>
                      exports'[g] = 0 /\ g \notin queue'
      <4>1. CASE g = e
        BY <3>1, <3>2, <3>3, <4>1
      <4>2. CASE g # e
        BY <3>1, <3>2, <4>2 DEF ExportInv
      <4> QED
        BY <4>1, <4>2
    <3> QED
      BY <1>2, <1>3, <2>1, <3>1, <3>4 DEF ExportInv
  <2> QED
    BY <1>13, <2>2, <2>3 DEF QueueNextExport
<1> QED
  BY <1>5, <1>6, <1>7, <1>8, <1>9, <1>10, <1>11, <1>12, <1>13 DEF Next, LiveStep, HandlerStep

LEMMA NextUnbrokenInv == Types /\ ExportInv /\ UnbrokenInv /\ [Next]_vars => UnbrokenInv'
<1> SUFFICES ASSUME Types, ExportInv, UnbrokenInv, [Next]_vars PROVE UnbrokenInv'
  OBVIOUS
<1> USE DEF givenVars, liveVars, handlerVars, compositerVars
<1>1. exports \in [Exports -> Nat] /\ nextQuickIndex \in Nat /\ Indexes \subseteq Nat
  BY LiveAssumption DEF Types, Indexes
<1>2. ASSUME UNCHANGED <<nextQuickIndex, exports, faults, live>>, tracks => tracks',
             ~cancelled' => ~cancelled
      PROVE  UnbrokenInv'
  <2>1. \A i : Quick(i)' = Quick(i)
    BY DEF Quick
  <2> QED
    BY <1>2, <2>1 DEF UnbrokenInv
<1>3. ASSUME Tick \/ SubscribeTrack \/ EndLive \/ ProcessBoundary \/ UNCHANGED vars
      PROVE  UnbrokenInv'
  <2>1. UNCHANGED <<nextQuickIndex, exports, faults, cancelled>> /\ (tracks => tracks')
    BY <1>3 DEF Tick, SubscribeTrack, EndLive, ProcessBoundary, vars
  <2>2. live' = "requesting" => live = "requesting"
    BY <1>3 DEF Tick, SubscribeTrack, EndLive, ProcessBoundary, vars
  <2> QED
    BY <2>1, <2>2 DEF UnbrokenInv, Quick
<1>4. ASSUME RequestExport PROVE UnbrokenInv'
  <2>1. UNCHANGED <<exports, faults, cancelled, tracks>>
    BY <1>4 DEF RequestExport
  <2>2. CASE tracks /\ live' = "requesting" /\ nextQuickIndex' = nextQuickIndex
    BY <2>1, <2>2 DEF UnbrokenInv, Quick
  <2>3. CASE (~tracks \/ cancelled) /\ live' = "waiting"
    BY <2>1, <2>3 DEF UnbrokenInv, Quick
  <2> QED
    BY <1>4, <2>2, <2>3 DEF RequestExport
<1>5. ASSUME ExportBoundary PROVE UnbrokenInv'
  <2> DEFINE f == Quick(nextQuickIndex)
  <2>1. /\ live = "requesting" /\ live' = "waiting" /\ nextQuickIndex' = nextQuickIndex + 1
        /\ UNCHANGED <<cancelled, tracks>> /\ tracks
        /\ Export(f) \/ (cancelled /\ UNCHANGED compositerVars)
    BY <1>5 DEF ExportBoundary, UnbrokenInv
  <2>2. CASE cancelled
    BY <2>1, <2>2 DEF UnbrokenInv
  <2>3. CASE ~cancelled /\ Export(f)
    <3>1. faults' = faults
      BY <2>3 DEF Export
    <3>2. /\ \A e \in Exports \ {f} : exports'[e] = exports[e]
          /\ ~faults /\ f \in Exports => exports'[f] = 1
      <4>1. f \in Exports => exports[f] = 0
        BY <2>1 DEF ExportInv
      <4>2. ~faults => exports' = [exports EXCEPT ![f] = @ + 1]
        BY <2>3 DEF Export
      <4> QED
        BY <1>1, <2>3, <4>1, <4>2, ExportStep
    <3>3. ASSUME NEW h \in Indexes, NEW i \in Indexes, ~faults, h < i, i < nextQuickIndex + 1,
                 exports'[Quick(h)] = 1
          PROVE  exports'[Quick(i)] = 1
      <4>1. h # nextQuickIndex /\ Quick(h) # f /\ Quick(h) \in Exports /\ Quick(i) \in Exports
        BY <1>1, <3>3, ExportNames
      <4>2. exports[Quick(h)] = 1
        BY <3>2, <3>3, <4>1
      <4>3. CASE i = nextQuickIndex
        BY <3>2, <3>3, <4>1, <4>3
      <4>4. CASE i # nextQuickIndex
        <5>1. i < nextQuickIndex /\ Quick(i) # f
          BY <1>1, <3>3, <4>4, ExportNames
        <5>2. exports[Quick(i)] = 1
          BY <2>3, <3>3, <4>2, <5>1 DEF UnbrokenInv
        <5> QED
          BY <3>2, <4>1, <5>1, <5>2
      <4> QED
        BY <4>3, <4>4
    <3> QED
      BY <2>1, <3>1, <3>3 DEF UnbrokenInv, Quick
  <2> QED
    BY <2>1, <2>2, <2>3
<1>6. ASSUME ReadStats \/ HandlerStep PROVE UnbrokenInv'
  <2>1. CASE ReadStats \/ StopLiveRecorder \/ StopRecording \/ QueueFinalExports
    <3>1. UNCHANGED <<nextQuickIndex, exports, faults, live, tracks>> /\ (~cancelled' => ~cancelled)
      BY <2>1 DEF ReadStats, StopLiveRecorder, StopRecording, QueueFinalExports
    <3> QED
      BY <1>2, <3>1
  <2>2. CASE QueueNextExport
    <3>1. cancelled' /\ live' = live /\ tracks' = tracks
      BY <2>2 DEF QueueNextExport, ExportInv
    <3> QED
      BY <3>1 DEF UnbrokenInv
  <2> QED
    BY <1>6, <2>1, <2>2 DEF HandlerStep
<1> QED
  BY <1>3, <1>4, <1>5, <1>6 DEF Next, LiveStep

LEMMA NextCoverInv == Types /\ LiveInv /\ ExportInv /\ CoverInv /\ [Next]_vars => CoverInv'
<1> SUFFICES ASSUME Types, LiveInv, ExportInv, CoverInv, [Next]_vars,
                    handler' \in {"queueing", "done"}, ~faults', compositer'
             PROVE  /\ \A i \in DOMAIN QuickList' :
                         Quick(i) \in queue' \/ exports'[Quick(i)] = 1 \/ i \in Announced'
                    /\ \A i \in DOMAIN LateList' : Late(i) \in queue' \/ exports'[Late(i)] = 1
  BY DEF CoverInv, Quick, Late
<1> USE DEF givenVars, liveVars, handlerVars, compositerVars
<1>1. /\ policy' = policy /\ compositer' = compositer /\ duration' = duration
      /\ handler \in {"export", "queueing", "done"}
      /\ faults' = faults
  <2>1. \A e : Export(e) => faults' = faults
    BY DEF Export
  <2> QED
    BY <2>1 DEF Next, LiveStep, HandlerStep, Tick, SubscribeTrack, ProcessBoundary, RequestExport,
     ExportBoundary, EndLive, ReadStats, StopLiveRecorder, StopRecording, QueueFinalExports,
     QueueNextExport, vars, Types
<1>2. QuickList' = QuickList /\ LateList' = LateList
  BY <1>1 DEF QuickList, LateList, QuickDuration, LateDuration
<1>3. /\ \A i \in DOMAIN QuickList : Quick(i) \in Exports /\ i \in Nat /\ duration > 0
      /\ \A i \in DOMAIN LateList : Late(i) \in Exports /\ duration > 0
  BY ListsOf, ExportNames, LiveAssumption DEF Indexes
<1>4. ASSUME handler \in {"queueing", "done"}
      PROVE  /\ \A i \in DOMAIN QuickList :
                  Quick(i) \in queue \/ exports[Quick(i)] = 1 \/ i \in Announced
             /\ \A i \in DOMAIN LateList : Late(i) \in queue \/ exports[Late(i)] = 1
  BY <1>1, <1>4 DEF CoverInv
<1>5. ASSUME UNCHANGED <<handler, queue, exports, quickParts>> PROVE Announced' = Announced
  BY <1>5 DEF Announced
<1>6. CASE UNCHANGED <<handler, queue, exports, quickParts>>
  BY <1>2, <1>4, <1>5, <1>6
<1>7. CASE ProcessBoundary
  <2>1. UNCHANGED <<handler, queue, exports>>
    BY <1>7 DEF ProcessBoundary
  <2>2. Announced \subseteq Announced'
    BY <1>7, AnnouncedIs, Announces DEF Announced
  <2> QED
    BY <1>2, <1>4, <2>1, <2>2, <1>1, <1>7
<1>8. CASE ExportBoundary
  <2>1. /\ UNCHANGED <<handler, queue, quickParts>>
        /\ Export(Quick(nextQuickIndex)) \/ UNCHANGED exports
        /\ live = "requesting"
    BY <1>8 DEF ExportBoundary
  <2>2. Announced' = Announced
    BY <2>1 DEF Announced
  <2>3. \A e \in Exports : exports[e] = 1 => exports'[e] = 1
    <3>1. CASE Export(Quick(nextQuickIndex))
      <4>1. \A e \in Exports \ {Quick(nextQuickIndex)} : exports'[e] = exports[e]
        BY <3>1, ExportStep
      <4>2. \A e \in Exports : exports[e] = 1 => e # Quick(nextQuickIndex)
        BY <2>1 DEF ExportInv
      <4> QED
        BY <4>1, <4>2
    <3>2. CASE UNCHANGED exports
      BY <3>2
    <3> QED
      BY <2>1, <3>1, <3>2
  <2> QED
    BY <1>1, <1>2, <1>3, <1>4, <2>1, <2>2, <2>3
<1>9. CASE QueueFinalExports
  <2>1. /\ compositer /\ UNCHANGED <<exports, quickParts>>
        /\ duration > 0 =>
             queue' = {Quick(i) : i \in {j \in DOMAIN QuickList : j \notin Announced}}
                        \cup {Late(i) : i \in DOMAIN LateList}
    BY <1>1, <1>9, FinalQueue
  <2>2. Announced' = Announced
    BY <2>1 DEF Announced
  <2> QED
    BY <1>2, <1>3, <2>1, <2>2
<1>10. CASE QueueNextExport
  <2>1. handler = "queueing" /\ UNCHANGED quickParts
    BY <1>10 DEF QueueNextExport
  <2>2. Announced' = Announced
    BY <2>1 DEF Announced
  <2>3. CASE UNCHANGED <<queue, exports>>
    BY <1>2, <1>4, <2>1, <2>2, <2>3
  <2>4. CASE \E e \in queue : Export(e) /\ queue' = queue \ {e}
    <3>1. PICK e \in queue : Export(e) /\ queue' = queue \ {e}
      BY <2>4
    <3>2. e \in Exports /\ exports[e] = 0 /\ exports'[e] = 1
          /\ \A f \in Exports \ {e} : exports'[f] = exports[f]
      BY <1>1, <3>1, ExportStep DEF Types, ExportInv
    <3>3. \A f \in Exports : f \in queue \/ exports[f] = 1 => f \in queue' \/ exports'[f] = 1
      BY <3>1, <3>2
    <3> QED
      BY <1>2, <1>3, <1>4, <2>1, <2>2, <3>3
  <2> QED
    BY <1>10, <2>3, <2>4 DEF QueueNextExport
<1>11. CASE Tick \/ SubscribeTrack \/ RequestExport \/ EndLive \/ UNCHANGED vars
  BY <1>6, <1>11 DEF Tick, SubscribeTrack, RequestExport, EndLive, vars
<1>12. CASE ReadStats \/ StopLiveRecorder \/ StopRecording
  BY <1>1, <1>12 DEF ReadStats, StopLiveRecorder, StopRecording
<1> QED
  BY <1>7, <1>8, <1>9, <1>10, <1>11, <1>12 DEF Next, LiveStep, HandlerStep
-----------------------------------------------------------------------------
(* The theorems.                                                            *)

LEMMA Inductive == Spec => []IInv
<1>1. IInv /\ [Next]_vars => IInv'
  BY NextTypes, NextLiveInv, NextExportInv, NextUnbrokenInv, NextCoverInv DEF IInv
<1> QED
  BY <1>1, InitInv, PTL DEF Spec

(* For any policy and any order of boundaries and a stop, no part is        *)
(* exported twice by the live goroutine and handleStopRecording.            *)
THEOREM LiveExportedOnce == Spec => []ExportedOnce
<1>1. IInv => ExportedOnce
  BY DEF IInv, ExportInv, ExportedOnce
<1> QED
  BY <1>1, Inductive, PTL

(* Nothing is exported that the policy does not want, nor anything while    *)
(* the compositer is disabled.                                              *)
THEOREM LiveExportsWanted == Spec => []ExportsWanted
<1>1. IInv => ExportsWanted
  BY DEF IInv, ExportInv, Wanted, ExportsWanted
<1> QED
  BY <1>1, Inductive, PTL

(* For parts of any length: until it is cancelled the live goroutine leaves *)
(* out no part after the first it has exported, and a stop that is done has *)
(* exported everything that goroutine did not announce.                     *)
THEOREM LivePartsAccounted == Spec => []PartsAccounted
<1>1. IInv => PartsAccounted
  BY DEF IInv, ExportInv, UnbrokenInv, CoverInv, PartsAccounted
<1> QED
  BY <1>1, Inductive, PTL

LEMMA Agree == IInv => AnnouncedAgree
<1> SUFFICES ASSUME IInv
             PROVE  /\ quickParts = [k \in 1..Len(quickParts) |-> LivePart(k, QuickDuration)]
                    /\ Len(quickParts) * QuickDuration <= now
                    /\ \A i \in 1..Len(QuickList) - 1 :
                         i \in Announced => quickParts[i] = QuickList[i]
  BY DEF AnnouncedAgree
<1> USE DEF IInv
<1>1. /\ Boundaries \in Nat /\ Announced = 1..Boundaries
      /\ \A i \in 1..Boundaries : quickParts[i] = LivePart(i, QuickDuration)
  BY AnnouncedIs
<1>2. Len(quickParts) = Boundaries
  BY <1>1 DEF LiveInv
<1>3. /\ quickParts = [k \in 1..Len(quickParts) |-> LivePart(k, QuickDuration)]
      /\ Len(quickParts) * QuickDuration <= now
  BY <1>2 DEF LiveInv
<1>4. ASSUME NEW i \in 1..Len(QuickList) - 1, i \in Announced
      PROVE  quickParts[i] = QuickList[i]
  <2> DEFINE count == PartCount(duration, QuickDuration)
  <2>1. /\ duration \in Nat /\ policy.quickAccess \in BOOLEAN /\ QuickDuration \in Int
    BY Lengths DEF Types, Policies
  <2>2. CASE duration > 0 /\ policy.quickAccess /\ QuickDuration > 0
    <3>1. QuickDuration \in Nat \ {0} /\ duration \in Nat \ {0}
      BY <2>1, <2>2
    <3>2. count \in Nat \ {0} /\ (count - 1) * QuickDuration < duration
      BY <3>1, Rounded
    <3>3. DOMAIN QuickList = 1..count /\ QuickList = BuildParts(duration, QuickDuration)
      BY <2>1, <2>2, Lists DEF QuickList
    <3> HIDE DEF count
    <3>4. Len(QuickList) = count
      <4>1. QuickList = [j \in 1..count |->
                           Part(j, (j - 1) * QuickDuration, PartEnd(j, duration, QuickDuration))]
        BY <3>1, <3>3 DEF BuildParts, count
      <4> QED
        BY <3>2, <4>1
    <3>5. i \in Int /\ i <= count - 1 /\ count - 1 \in Int /\ i \in DOMAIN QuickList
      BY <1>4, <3>2, <3>3, <3>4
    <3>6. i * QuickDuration <= (count - 1) * QuickDuration
          /\ i * QuickDuration \in Int /\ (count - 1) * QuickDuration \in Int
      BY <3>1, <3>5, Product
    <3>7. PartEnd(i, duration, QuickDuration) = i * QuickDuration
      BY <3>1, <3>2, <3>6 DEF PartEnd
    <3>8. QuickList[i] = Part(i, (i - 1) * QuickDuration, PartEnd(i, duration, QuickDuration))
      <4>1. QuickList = [j \in 1..count |->
                           Part(j, (j - 1) * QuickDuration, PartEnd(j, duration, QuickDuration))]
        BY <3>1, <3>3 DEF BuildParts, count
      <4> QED
        BY <3>3, <3>5, <4>1
    <3> QED
      BY <1>1, <1>4, <3>7, <3>8 DEF LivePart
  <2>3. CASE ~(duration > 0 /\ policy.quickAccess /\ QuickDuration > 0)
    <3>1. QuickList = <<>>
      BY <2>1, <2>3 DEF QuickList, PolicyParts, BuildParts
    <3> QED
      BY <1>4, <3>1
  <2> QED
    BY <2>2, <2>3
<1> QED
  BY <1>3, <1>4

(* However the goroutine lags, the parts announced live are consecutive     *)
(* from the start, lie in the past, and are those of the final list, whose  *)
(* last one alone is cut off.                                               *)
THEOREM LiveAnnouncedAgree == Spec => []AnnouncedAgree
BY Agree, Inductive, PTL

LEMMA ListsAreTiled == IInv => ListsTile
<1> SUFFICES ASSUME IInv, duration > 0 PROVE
       /\ policy.quickAccess /\ QuickDuration > 0 => Tiles(QuickList, duration)
       /\ policy.lateComposite /\ LateDuration > 0 => Tiles(LateList, duration)
  BY DEF ListsTile
<1>1. /\ duration \in Nat \ {0} /\ QuickDuration \in Int /\ LateDuration \in Int
      /\ policy.quickAccess \in BOOLEAN /\ policy.lateComposite \in BOOLEAN
  BY Lengths DEF IInv, Types, Policies
<1>2. ASSUME policy.quickAccess, QuickDuration > 0 PROVE Tiles(QuickList, duration)
  <2>1. PICK c \in Int : QuickDuration = c * Unit
    BY Lengths DEF IInv
  <2>2. QuickList = BuildParts(duration, QuickDuration)
    BY <1>1, <1>2 DEF QuickList, PolicyParts
  <2> QED
    BY <1>1, <1>2, <2>1, <2>2, PartsTile
<1>3. ASSUME policy.lateComposite, LateDuration > 0 PROVE Tiles(LateList, duration)
  <2>1. PICK c \in Int : LateDuration = c * Unit
    BY Lengths DEF IInv
  <2>2. LateList = BuildParts(duration, LateDuration)
    BY <1>1, <1>3 DEF LateList, PolicyParts
  <2> QED
    BY <1>1, <1>3, <2>1, <2>2, PartsTile
<1> QED
  BY <1>2, <1>3

(* For every duration and every part length in seconds, the lists that      *)
(* buildParts returns tile the recording, in milliseconds, without gap or   *)
(* overlap, although each offset and each length is rounded down.           *)
THEOREM LiveListsTile == Spec => []ListsTile
BY ListsAreTiled, Inductive, PTL

LEMMA Documented == IInv => DocumentedAsEnforced
<1> SUFFICES ASSUME IInv PROVE DocumentedAsEnforced
  OBVIOUS
<1>1. /\ policy \in Policies /\ policy.enabled
      /\ policy.quickDuration # 0 /\ policy.lateDuration # 0
  BY DEF IInv, Types
<1>2. \A w, a, l :
        LET q == [policy EXCEPT !.who = w, !.access = a, !.layout = l] IN
        /\ q.who = w /\ q.quickDuration = policy.quickDuration
        /\ q.lateDuration = policy.lateDuration
  BY <1>1 DEF Policies
<1>3. /\ PolicyDocument(policy).who = WhoCanRecordName(policy.who)
      /\ PolicyDocument(policy).quickDuration = policy.quickDuration
      /\ PolicyDocument(policy).lateDuration = policy.lateDuration
  BY <1>2 DEF PolicyDocument
<1>4. WhoCanRecordName(policy.who) = "unspecified" <=> ~CanRecord(policy, "host")
  BY <1>1 DEF WhoCanRecordName, CanRecord, HostOnly, CoHostAndHost, Anyone
<1> QED
  BY <1>1, <1>3, <1>4 DEF DocumentedAsEnforced

(* For every number a newer SFU may send as an enumeration, policy.json     *)
(* says "unspecified" exactly when CanRecord refuses a host, and it gives   *)
(* no part a length of zero.                                                *)
THEOREM LiveDocumentedAsEnforced == Spec => []DocumentedAsEnforced
BY Documented, Inductive, PTL
===============================================================================
