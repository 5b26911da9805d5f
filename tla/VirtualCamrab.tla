----------------------------- MODULE VirtualCamrab -----------------------------
(***************************************************************************)
(* The virtual camera-and-range-and-bearing sensor of the e-puck           *)
(* (ci_epuck_virtual_camrab_sensor.cpp,                                    *)
(* real_epuck_virtual_camrab_sensor.cpp): a thread takes the packets of    *)
(* the range-and-bearing sensor and the blobs of the camera, decides which *)
(* blobs are one robot, matches them with the packets by colour and angle, *)
(* and queues readings that the control step collects.                     *)
(*                                                                         *)
(* The thread takes and clears m_tPackets and looks at the blobs without   *)
(* any lock, while the control step adds packets and renews the blobs.  So *)
(* the camera is no variable here: what the thread looks at is any scene,  *)
(* be it new, old or freed.  Of m_tPackets the steps of ClearPackets are   *)
(* kept, deletion and pop_back apart; that the vector itself could break   *)
(* inside a push_back is left out.  Angles are in half degrees, so that no *)
(* criterion (atan) falls on an angle, and a packet's data is its first    *)
(* byte, which holds the colour too.  Distances are not fused here.        *)
(***************************************************************************)
EXTENDS Integers, FiniteSetsExt, SequencesExt

CONSTANTS
  NumberColors,    \* number_colors of the configuration
  MaxAngle,        \* the angle a robot takes at each distance: atan(7 / distance)
  Scenes,          \* sets of blobs the camera may show
  Messages,        \* what robots say: [Color, Data, Bearing]
  MaxPackets       \* bound: packets that are received

ASSUME CamrabAssumption ==
  /\ NumberColors \in Nat \ {0} /\ MaxPackets \in Nat
  /\ MaxAngle \in [DOMAIN MaxAngle -> Nat] /\ DOMAIN MaxAngle \subseteq Nat
  /\ {} \in Scenes
  /\ \A s \in Scenes : /\ IsFiniteSet(s)
                        /\ s \subseteq [Color : 0..Min({NumberColors, 9}) - 1, Angle : 0..719,
                                       Distance : DOMAIN MaxAngle]
  /\ \A m \in Messages :
       m.Data \in 0..255 /\ m.Color \in 0..Min({NumberColors, 9}) - 1 /\ m.Bearing \in 0..719

VARIABLES
  m_tQueuedPackets, m_tPackets,    \* of the range-and-bearing sensor: numbers of packets
  spoken,          \* the message behind each number
  deleted,         \* packets whose memory was freed
  thread,          \* program counter of the thread
  vec_packets,     \* its copy of m_tPackets
  scene,           \* the blobs it looked at
  todo,            \* the readings it has still to queue
  round,           \* history: how often it matched
  m_tQueuedReadings, m_tReadings,
  main             \* program counter of the control step

packetVars == <<m_tQueuedPackets, m_tPackets, spoken, deleted>>
threadVars == <<vec_packets, scene, todo, round>>
vars == <<packetVars, thread, threadVars, m_tQueuedReadings, m_tReadings, main>>

Circle == 720
Degrees(n) == 2 * n

-----------------------------------------------------------------------------
(* One byte for the colour and the data. *)
m_unNumberColors == IF NumberColors > 9 THEN 9 ELSE NumberColors

\* faulty variant: the logarithm is rounded down
BitsRoundedDown == Max({b \in 0..4 : 2^b <= m_unNumberColors})
m_unNumberBitsToShift == Min({b \in 0..4 : 2^b >= m_unNumberColors})

Shift == 2^m_unNumberBitsToShift
Sent(m) == (m.Data * Shift + m.Color) % 256
ColorOf(byte) == byte % Shift       \* & m_unColorMask
DataOf(byte) == byte \div Shift     \* >> m_unNumberBitsToShift

-----------------------------------------------------------------------------
(* Which blobs are one robot. *)
RelativelyCloseDistance(d1, d2) == d2 \in d1 - 10..d1 + 10

(* A criterion stands for itself and a fraction of a half degree, so that  *)
(* one that ends at the circle's end is beyond it.                         *)
\* faulty variant: the circle has an end
CloseOnLine(a1, a2, criterion) == a2 \in a1 - criterion..a1 + criterion
RelativelyCloseAngle(a1, a2, criterion) ==
  LET turned == a1 - criterion < 0 \/ a1 + criterion >= Circle
      turn(a) == LET b == IF turned THEN a + Circle \div 2 ELSE a
                 IN  IF b >= Circle THEN b - Circle ELSE b
  IN  turn(a2) \in turn(a1 - criterion)..turn(a1 + criterion)

BelongingToSameRobot(ref, b) ==
  /\ RelativelyCloseDistance(ref.Distance, b.Distance)
  /\ RelativelyCloseAngle(ref.Angle, b.Angle, MaxAngle[ref.Distance])

Before(l, r) == l.Angle < r.Angle \/ (l.Angle = r.Angle /\ l.Distance < r.Distance)
SortByAngle(blobs) ==
  [k \in 1..Cardinality(blobs) |->
     CHOOSE b \in blobs : Cardinality({a \in blobs : Before(a, b)}) = k - 1]

Straight(angle, first) ==
  IF (angle - first) \div 2 > 300 /\ angle > Degrees(300) THEN angle - Circle ELSE angle
AverageAngle(blobs) ==
  LET first == Min({b.Angle : b \in blobs})
  IN  SumFunction([b \in blobs |-> Straight(b.Angle, first)]) \div Cardinality(blobs)

MergeBlobs(blobs) ==
  [Color |-> (CHOOSE b \in blobs : TRUE).Color, Angle |-> AverageAngle(blobs) % Circle,
   Distance |-> Min({b.Distance : b \in blobs})]

(* The blobs at the end of the circle that the first one takes with it: it *)
(* goes backward until a blob is not of its robot, or none is left.        *)
Backward(blobs) ==
  LET Taken(k) == \A i \in Len(blobs) - k + 1..Len(blobs) : BelongingToSameRobot(blobs[1], blobs[i])
  IN  Max({k \in 0..Len(blobs) - 1 : Taken(k)})

(* The groups of a colour, in order; the reference of a group is the blob  *)
(* it began with.                                                          *)
Extend(acc, b) ==
  IF BelongingToSameRobot(acc.ref, b)
  THEN [acc EXCEPT !.group = @ \cup {b}]
  ELSE [ref |-> b, group |-> {b}, merged |-> Append(acc.merged, MergeBlobs(acc.group))]

Groups(blobs, back) ==
  LET first == [ref |-> blobs[1], merged |-> <<>>,
                group |-> {blobs[1]} \cup {blobs[i] : i \in Len(blobs) - back + 1..Len(blobs)}]
      last == FoldLeft(Extend, first, SubSeq(blobs, 2, Len(blobs) - back))
  IN  Append(last.merged, MergeBlobs(last.group))

(* bGoBackward is not set again for the colours after the one that found a *)
(* blob that is not of the first one's robot.                              *)
AddColor(acc, color, vec_blobs) ==
  LET blobs == SortByAngle({b \in vec_blobs : b.Color = color})
      back  == IF acc.bGoBackward THEN Backward(blobs) ELSE 0
  IN  IF blobs = <<>> THEN acc
      ELSE [bGoBackward |-> acc.bGoBackward /\ back = Len(blobs) - 1,
            filtered |-> acc.filtered \o Groups(blobs, back)]

FilterBlobs(vec_blobs) ==
  FoldLeft(LAMBDA acc, color : AddColor(acc, color, vec_blobs), [bGoBackward |-> TRUE, filtered |-> <<>>],
           [c \in 1..m_unNumberColors |-> c - 1]).filtered

Filtered == [s \in Scenes |-> FilterBlobs(s)]

-----------------------------------------------------------------------------
(* Matching packets with robots. *)
NoBlob == [Color |-> NumberColors]

CreateReading(p, blob, n) ==
  LET byte == Sent(spoken[p])
  IN  [packet |-> p, round |-> n, blob |-> blob, Data |-> DataOf(byte),
       Color |-> IF blob = NoBlob THEN ColorOf(byte) ELSE blob.Color]

(* All the blobs of the packet's colour are gone through, and a reading is *)
(* made at each one once a blob is elected.  When blobs of the colour are  *)
(* seen, but none within ten degrees, no reading is made.                  *)
SameColor(b, erased, p) == b.Color = ColorOf(Sent(spoken[p])) /\ b \notin erased
Diff(b, p) == IF b.Angle < spoken[p].Bearing THEN spoken[p].Bearing - b.Angle
              ELSE b.Angle - spoken[p].Bearing

Elect(acc, b, erased, p, n) ==
  LET elected == IF Diff(b, p) < acc.min /\ Diff(b, p) < Degrees(10) THEN b ELSE acc.elected
  IN  IF ~SameColor(b, erased, p) THEN acc
      ELSE [elected |-> elected, min |-> IF elected = b THEN Diff(b, p) ELSE acc.min,
            readings |-> IF elected = NoBlob THEN acc.readings
                         ELSE Append(acc.readings, CreateReading(p, elected, n))]

Match(blobs, erased, p, n) ==
  IF spoken[p].Bearing = 0 \/ \A i \in DOMAIN blobs : ~SameColor(blobs[i], erased, p)
  THEN <<CreateReading(p, NoBlob, n)>>
  ELSE FoldLeft(LAMBDA acc, b : Elect(acc, b, erased, p, n),
                [elected |-> NoBlob, min |-> Degrees(1000), readings |-> <<>>], blobs).readings

(* An elected blob is kept from the packets that follow. *)
\* faulty variant: the elected blobs stay
KeepElected(erased, readings) == erased
Erase(erased, readings) == erased \cup {r.blob : r \in ToSet(readings)}

MatchNext(acc, p, blobs, n) ==
  LET readings == Match(blobs, acc.erased, p, n)
  IN  [erased |-> Erase(acc.erased, readings), readings |-> acc.readings \o readings]

InferRobots(blobs, packets, n) ==
  FoldLeft(LAMBDA acc, p : MatchNext(acc, p, blobs, n), [erased |-> {}, readings |-> <<>>], packets).readings

-----------------------------------------------------------------------------
Init ==
  /\ m_tQueuedPackets = <<>> /\ m_tPackets = <<>> /\ spoken = <<>> /\ deleted = {}
  /\ thread = "get" /\ vec_packets = <<>> /\ scene = {} /\ todo = <<>> /\ round = 0
  /\ m_tQueuedReadings = <<>> /\ m_tReadings = <<>>
  /\ main = "rab"

Running == thread # "aborted"

(* The fetcher of the range-and-bearing sensor queues a packet, unless the *)
(* control step has its queue locked.                                      *)
Hear ==
  /\ Running /\ main \notin {"push", "pop"}
  /\ Len(spoken) < MaxPackets
  /\ \E m \in Messages : spoken' = Append(spoken, m)
  /\ m_tQueuedPackets' = Append(m_tQueuedPackets, Len(spoken'))
  /\ UNCHANGED <<m_tPackets, deleted, thread, threadVars, m_tQueuedReadings, m_tReadings, main>>

(* The thread. *)
GetPackets ==
  /\ thread = "get"
  /\ vec_packets' = m_tPackets
  /\ thread' = IF m_tPackets = <<>> THEN "clear" ELSE "look"
  /\ UNCHANGED <<packetVars, scene, todo, round, m_tQueuedReadings, m_tReadings, main>>

Look ==
  /\ thread = "look"
  /\ \E s \in Scenes : scene' = s
  /\ round' = round + 1
  /\ todo' = InferRobots(Filtered[scene'], vec_packets, round')
  /\ thread' = "queue"
  /\ UNCHANGED <<packetVars, vec_packets, m_tQueuedReadings, m_tReadings, main>>

QueueReading ==
  /\ thread = "queue" /\ todo # <<>>
  /\ m_tQueuedReadings' = Append(m_tQueuedReadings, Head(todo))
  /\ todo' = Tail(todo)
  /\ UNCHANGED <<packetVars, thread, vec_packets, scene, round, m_tReadings, main>>

Inferred ==
  /\ thread = "queue" /\ todo = <<>>
  /\ vec_packets' = <<>> /\ scene' = {}
  /\ thread' = "clear"
  /\ UNCHANGED <<packetVars, todo, round, m_tQueuedReadings, m_tReadings, main>>

(* ClearPackets: what is deleted is the last packet, and so is what is     *)
(* popped after it, but a packet may come in between; then the deleted one *)
(* stays, and to delete it again aborts the program.                       *)
DeleteLast ==
  /\ thread = "clear" /\ m_tPackets # <<>>
  /\ IF Last(m_tPackets) \in deleted
     THEN thread' = "aborted" /\ UNCHANGED deleted
     ELSE thread' = "pop" /\ deleted' = deleted \cup {Last(m_tPackets)}
  /\ UNCHANGED <<m_tQueuedPackets, m_tPackets, spoken, threadVars, m_tQueuedReadings, m_tReadings, main>>

PopLast ==
  /\ thread = "pop"
  /\ m_tPackets' = Front(m_tPackets)
  /\ thread' = "clear"
  /\ UNCHANGED <<m_tQueuedPackets, spoken, deleted, threadVars, m_tQueuedReadings, m_tReadings, main>>

Sleep ==
  /\ thread = "clear" /\ m_tPackets = <<>>
  /\ thread' = "get"
  /\ UNCHANGED <<packetVars, threadVars, m_tQueuedReadings, m_tReadings, main>>

(* The control step: the range-and-bearing sensor was made first. *)
PushPacket ==
  /\ Running /\ main \in {"rab", "push"} /\ m_tQueuedPackets # <<>>
  /\ m_tPackets' = Append(m_tPackets, Head(m_tQueuedPackets))
  /\ main' = "pop"
  /\ UNCHANGED <<m_tQueuedPackets, spoken, deleted, thread, threadVars, m_tQueuedReadings, m_tReadings>>

PopQueued ==
  /\ Running /\ main = "pop"
  /\ m_tQueuedPackets' = Tail(m_tQueuedPackets)
  /\ main' = IF m_tQueuedPackets' = <<>> THEN "readings" ELSE "push"
  /\ UNCHANGED <<m_tPackets, spoken, deleted, thread, threadVars, m_tQueuedReadings, m_tReadings>>

ReceiveData ==
  /\ Running
  /\ main = "readings" \/ (main = "rab" /\ m_tQueuedPackets = <<>>)
  /\ m_tReadings' = m_tReadings \o m_tQueuedReadings
  /\ m_tQueuedReadings' = <<>>
  /\ main' = "control"
  /\ UNCHANGED <<packetVars, thread, threadVars>>

(* The controller reads, and clears the readings or not. *)
ClearReadings ==
  /\ Running /\ main = "control"
  /\ m_tReadings' \in {m_tReadings, <<>>}
  /\ main' = "rab"
  /\ UNCHANGED <<packetVars, thread, threadVars, m_tQueuedReadings>>

Thread == GetPackets \/ Look \/ QueueReading \/ Inferred \/ DeleteLast \/ PopLast \/ Sleep
Main == PushPacket \/ PopQueued \/ ReceiveData \/ ClearReadings
Next == Hear \/ Thread \/ Main
Spec == Init /\ [][Next]_vars

-----------------------------------------------------------------------------
AllReadings == ToSet(todo) \cup ToSet(m_tQueuedReadings) \cup ToSet(m_tReadings)

(* The colour and the data of a reading are those one robot sent together, *)
(* through the shift, the byte and the mask, and also where the colour is  *)
(* that of a blob.  Claimed for data that fit beside the colour.           *)
HeardAsSent ==
  \A r \in AllReadings :
    spoken[r.packet].Data * Shift < 256 =>
      r.Color = spoken[r.packet].Color /\ r.Data = spoken[r.packet].Data

(* A packet is matched in one round only, although the thread takes copies *)
(* of the packets and clears them later, while others come; and within a   *)
(* round a robot that is seen speaks once: no blob is given to two packets.*)
MatchedOnce ==
  \A r, q \in AllReadings :
    /\ r.packet = q.packet => r.round = q.round
    /\ r.round = q.round /\ r.blob = q.blob /\ r.blob # NoBlob => r.packet = q.packet

(* The distance of two angles on the circle, which blobs are alike, and    *)
(* the robots they make when likeness tells robots apart.                  *)
Apart(a, b) == Min({(a - b) % Circle, (b - a) % Circle})
Alike(a, b) == /\ a.Color = b.Color /\ a.Distance - b.Distance \in -10..10
               /\ Apart(a.Angle, b.Angle) <= MaxAngle[a.Distance]
Robot(s, b) == {a \in s : Alike(b, a)}
Clear(s) == \A a \in s : \A b \in s : Alike(a, b) => Robot(s, a) = Robot(s, b)
Straddles(robot) == \E a, b \in robot : a.Angle - b.Angle > Circle \div 2

(* No blob of its colour is seen between two blobs of a robot but its own. *)
Between(a, c, b) == Apart(a.Angle, c.Angle) + Apart(c.Angle, b.Angle) = Apart(a.Angle, b.Angle)
SideBySide(s) == \A a, b, c \in s : a # b /\ Alike(a, b) /\ c.Color = a.Color /\ Between(a, c, b)
                                     => Alike(a, c)

(* One blob for each robot, between the blobs that the robot shows and as  *)
(* near as the nearest, wherever the robot is.  Claimed for scenes where   *)
(* blobs that are alike are one robot and none stands before another of    *)
(* its colour (a group ends at the first blob that is not of its robot, so *)
(* the robot behind is counted on both sides), and past the first colour   *)
(* for robots that are not seen on both sides of angle 0: bGoBackward is   *)
(* not set again, so that such a robot is counted twice.                   *)
Shows(f, robot) ==
  \E b \in robot :
    /\ f.Color = b.Color /\ f.Distance = Min({a.Distance : a \in robot})
    /\ \E w \in {Apart(a.Angle, b.Angle) : a \in robot} :
         \A a \in robot : Apart(f.Angle, a.Angle) <= w
FirstColor(s) == Min({b.Color : b \in s} \cup {NumberColors})
TellsApart(s) == /\ Clear(s) /\ SideBySide(s)
                 /\ \A b \in s : Straddles(Robot(s, b)) => b.Color = FirstColor(s)
OnePerRobot ==
  LET robots == {Robot(scene, b) : b \in scene}
  IN  TellsApart(scene) => /\ Len(Filtered[scene]) = Cardinality(robots)
                           /\ \A robot \in robots : \E i \in 1..Len(Filtered[scene]) :
                                Shows(Filtered[scene][i], robot)
=============================================================================
