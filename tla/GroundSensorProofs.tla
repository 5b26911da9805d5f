-------------------------- MODULE GroundSensorProofs --------------------------
(***************************************************************************)
(* Proofs about GroundSensor and the Wi-Fi station it comes back through:  *)
(* the types, the event group, the calibrations in flash and what mission  *)
(* 2 makes of them, for every number of channels, calibration tasks,       *)
(* readings and faults.                                                    *)
(*                                                                         *)
(* The first invariant is about the flash (StoreInv): a colour that is not *)
(* torn has at most one writer, whose keys so far all hold its mean, and   *)
(* none of its keys is pending once that writer has committed - which is   *)
(* what a restart, that may keep any part of what is pending, rests on.    *)
(* The second is about the window of mission 2 (WindowInv): its readings   *)
(* and those of the last window, against the number of good readings since *)
(* the floor changed.                                                      *)
(***************************************************************************)
EXTENDS GroundSensor, Integers, FiniteSetTheorems, TLAPS

(* What the station keeps: the group is there as long as a handler is.     *)
StationInv ==
  /\ WifiTypeOK
  /\ phase \in {"off", "group", "done"} => handlers = {}
  /\ phase = "wifi" => handlers \subseteq {"WIFI"}
  /\ phase \in {"wait", "ip", "wifi", "group"} => group # NoGroup

Parts == 1..Len(Channels)
Values == Means \cup {Absent}
Calibrated == [Parts -> Means \cup {"zero", "garbage"}]
Missions == [on : BOOLEAN, color_floor : Targets \cup {"none"}, cal : [Colors -> Calibrated \cup {<<>>}],
             index : 0..(size - 1), seen : SUBSET (Floors \cup {"bad"}),
             ground : {"UNKNOWN", "WHITE", "BLACK", "GRAY"},
             previous : {"UNKNOWN", "WHITE", "BLACK", "GRAY"}, known : BOOLEAN]
MoreTypes == m2 \in Missions /\ (m2.on => m2.cal \in [Colors -> Calibrated])

(* The flash and the calibrations that write to it. *)
Asleep == phase = "off" => pending = NothingPending /\ calib = [s \in Slots |-> NoCalibration]
Measured == \A s \in Slots : calib[s].set > 0 => Sampled(s)
Alone(c) == \A s, t \in Writing(c) : s = t
Written(c) ==
  \A s \in Writing(c) : \A i \in 1..calib[s].set : Store[<<c, Channels[i]>>] = Mean(calib[s].seen)
AllCommitted(c) == Writing(c) = {} => Whole(c) /\ \A i \in Parts : pending[<<c, Channels[i]>>] = Absent
ColourInv(c) == ~torn[c] => Alone(c) /\ Written(c) /\ AllCommitted(c)
StoreInv == Asleep /\ Measured /\ \A c \in Colors : ColourInv(c)

(* What was once committed whole stays complete in the flash. *)
KeptInv == \A c \in Colors : kept[c] => \A i \in Parts : flash[<<c, Channels[i]>>] # Absent

(* The window of mission 2 and the one before it. *)
CalibrationRight == \A c \in Colors : m2.cal[c] = Pure(c)
WindowInv ==
  /\ m2.index = 0 => m2.seen = {}
  /\ m2.on /\ rested >= m2.index /\ m2.index > 0 => m2.seen = {floor}
  /\ m2.on => m2.previous = m2.ground
  /\ m2.on /\ m2.ground # "UNKNOWN" => led = Shown(m2.ground, m2.color_floor)
  /\ m2.on /\ rested >= size + m2.index /\ CalibrationRight => m2.ground = Ground(floor)

-----------------------------------------------------------------------------
(* The queue of the event loop under its two operations. *)
LEMMA QueueOfEvents ==
  ASSUME NEW S, NEW q \in Seq(S)
  PROVE  /\ <<>> \in Seq(S)
         /\ \A e \in S : Append(q, e) \in Seq(S)
         /\ q # <<>> => Head(q) \in S /\ Tail(q) \in Seq(S)
OBVIOUS

(* The station keeps its invariant through every step of its own, and when *)
(* the device starts or restarts.                                          *)
LEMMA StationSteps ==
  ASSUME StationInv, WifiStep \/ wifi_init_sta \/ WifiReset \/ UNCHANGED wifiVars
  PROVE  StationInv'
<1> DEFINE Events == {"START", "GOT_IP", "DISCONNECTED"}
<1>1. events \in Seq(Events) /\ "START" \in Events /\ "GOT_IP" \in Events /\ "DISCONNECTED" \in Events
  BY DEF StationInv, WifiTypeOK
<1>2. /\ <<>> \in Seq(Events) /\ <<"START">> \in Seq(Events)
      /\ \A e \in Events : Append(events, e) \in Seq(Events)
      /\ events # <<>> => Head(events) \in Events /\ Tail(events) \in Seq(Events)
  <2> HIDE DEF Events
  <2>1. \A e \in Events : <<e>> \in Seq(Events)
    OBVIOUS
  <2>2. QED
    BY <1>1, <2>1, QueueOfEvents
<1> HIDE DEF Events
<1>3. StationInv <=>
        /\ phase \in {"off", "wait", "ip", "wifi", "group", "done"}
        /\ handlers \subseteq {"WIFI", "IP"}
        /\ group \in (SUBSET {"CONNECTED", "FAIL"}) \cup {NoGroup}
        /\ s_retry_num \in 0..EXAMPLE_ESP_MAXIMUM_RETRY
        /\ link \in {"down", "connecting", "associated", "up"}
        /\ events \in Seq(Events)
        /\ phase \in {"off", "group", "done"} => handlers = {}
        /\ phase = "wifi" => handlers \subseteq {"WIFI"}
        /\ phase \in {"wait", "ip", "wifi", "group"} => group # NoGroup
  BY DEF StationInv, WifiTypeOK, Events
<1>4. StationInv' <=>
        /\ phase' \in {"off", "wait", "ip", "wifi", "group", "done"}
        /\ handlers' \subseteq {"WIFI", "IP"}
        /\ group' \in (SUBSET {"CONNECTED", "FAIL"}) \cup {NoGroup}
        /\ s_retry_num' \in 0..EXAMPLE_ESP_MAXIMUM_RETRY
        /\ link' \in {"down", "connecting", "associated", "up"}
        /\ events' \in Seq(Events)
        /\ phase' \in {"off", "group", "done"} => handlers' = {}
        /\ phase' = "wifi" => handlers' \subseteq {"WIFI"}
        /\ phase' \in {"wait", "ip", "wifi", "group"} => group' # NoGroup
  BY DEF StationInv, WifiTypeOK, Events
<1>5. EXAMPLE_ESP_MAXIMUM_RETRY \in Nat
  BY RetryAssumption
<1>6. CASE WifiReset
  BY <1>2, <1>4, <1>5, <1>6 DEF WifiReset
<1>7. CASE wifi_init_sta
  <2>1. group' \in SUBSET {"CONNECTED", "FAIL"} /\ group' # NoGroup
    BY <1>7 DEF wifi_init_sta, NoGroup
  <2>2. QED
    BY <1>2, <1>3, <1>4, <1>5, <1>7, <2>1 DEF wifi_init_sta
<1>8. CASE UNCHANGED wifiVars
  BY <1>3, <1>4, <1>8 DEF wifiVars
<1>9. CASE RadioAssociates \/ RadioGetsAddress \/ RadioFails
  BY <1>1, <1>2, <1>3, <1>4, <1>9 DEF RadioAssociates, RadioGetsAddress, RadioFails
<1>10. CASE Deliver
  <2>1. events' \in Seq(Events) /\ UNCHANGED <<phase, handlers>>
    BY <1>2, <1>10 DEF Deliver
  <2>2. CASE UNCHANGED <<group, s_retry_num, link>>
    BY <1>3, <1>4, <2>1, <2>2
  <2>3. CASE Base(Head(events)) \in handlers /\ event_handler(Head(events))
    <3>1. group \in SUBSET {"CONNECTED", "FAIL"}
      BY <1>3, <2>3
    <3>2. \/ group' = group \/ group' = group \cup {"FAIL"} \/ group' = group \cup {"CONNECTED"}
      BY <2>3 DEF event_handler, WIFI_FAIL_BIT
    <3>3. link' = link \/ link' = "connecting"
      BY <2>3 DEF event_handler
    <3>4. s_retry_num' \in 0..EXAMPLE_ESP_MAXIMUM_RETRY
      <4>1. s_retry_num \in 0..EXAMPLE_ESP_MAXIMUM_RETRY
        BY <1>3
      <4>2. \/ s_retry_num' = s_retry_num \/ s_retry_num' = 0
            \/ s_retry_num < EXAMPLE_ESP_MAXIMUM_RETRY /\ s_retry_num' = s_retry_num + 1
        BY <2>3 DEF event_handler, MayRetry
      <4>3. QED
        BY <1>5, <4>1, <4>2
    <3>5. group' \in SUBSET {"CONNECTED", "FAIL"}
      BY <3>1, <3>2
    <3>6. group' # NoGroup
      BY <3>5 DEF NoGroup
    <3>7. link' \in {"down", "connecting", "associated", "up"}
      BY <1>3, <3>3
    <3>8. QED
      BY <1>3, <1>4, <2>1, <3>4, <3>5, <3>6, <3>7
  <2>4. QED
    BY <1>10, <2>2, <2>3 DEF Deliver
<1>11. CASE BitsSeen
  BY <1>3, <1>4, <1>11 DEF BitsSeen
<1>12. CASE TearDown
  <2>1. CASE phase = "ip"
    BY <1>3, <1>4, <1>12, <2>1 DEF TearDown, AfterCall
  <2>2. CASE phase = "wifi"
    BY <1>3, <1>4, <1>12, <2>2 DEF TearDown, AfterCall
  <2>3. CASE phase = "group"
    BY <1>2, <1>3, <1>4, <1>12, <2>3 DEF TearDown, AfterCall
  <2>4. phase \in {"ip", "wifi", "group"}
    BY <1>12 DEF TearDown
  <2>5. QED
    BY <2>1, <2>2, <2>3, <2>4
<1>13. QED
  BY <1>6, <1>7, <1>8, <1>9, <1>10, <1>11, <1>12 DEF WifiStep

(* Every action of the ground sensor takes the station by one of its own   *)
(* steps or leaves it alone.                                               *)
LEMMA StationAlways == Spec => []StationInv
<1>1. Init => StationInv
  <2>1. <<>> \in Seq({"START", "GOT_IP", "DISCONNECTED"})
    OBVIOUS
  <2>2. QED
    BY <2>1, RetryAssumption DEF Init, WifiInit, StationInv, WifiTypeOK
<1>2. [Next]_vars => WifiStep \/ wifi_init_sta \/ WifiReset \/ UNCHANGED wifiVars
  BY DEF Next, vars, Boot, Restart, Wifi, Move, Calibration, Sample, SetKey, Commit, StartCalibration,
         Mission2, mission2_loop, mission2_stop, mission2_start
<1>3. StationInv /\ [Next]_vars => StationInv'
  BY <1>2, StationSteps
<1>4. QED
  BY <1>1, <1>3, PTL DEF Spec

(* However late the events of the radio are delivered, the handler never   *)
(* sets a bit of an event group that is gone.                              *)
THEOREM HandlerHasGroupHolds == Spec => []HandlerHasGroup
<1>1. StationInv => HandlerHasGroup
  BY DEF StationInv, WifiTypeOK, HandlerHasGroup
<1>2. QED
  BY <1>1, StationAlways, PTL

-----------------------------------------------------------------------------
(* What the keys, the store and the mean of a calibration range over. *)
LEMMA KeysOfAColour ==
  /\ Parts \subseteq Nat /\ 1 \in Parts /\ Len(Channels) \in Parts
  /\ \A c \in Colors : \A i \in Parts : <<c, Channels[i]>> \in Keys
  /\ \A b, c \in Colors : \A i, j \in Parts :
       <<b, Channels[i]>> = <<c, Channels[j]>> => b = c
  BY GroundAssumption DEF Parts, Keys, Colors

LEMMA MeanOfReadings ==
  ASSUME NEW seen
  PROVE  Mean(seen) \in Means
<1>1. CASE Cardinality(seen) = 1 /\ seen \subseteq Floors
  <2>1. seen # {}
    BY <1>1, FS_EmptySet
  <2>2. (CHOOSE f \in seen : TRUE) \in seen
    BY <2>1
  <2>3. QED
    BY <1>1, <2>2 DEF Mean, Means
<1>2. QED
  BY <1>1 DEF Mean, Means

(* A window all on one floor has that floor for its mean. *)
LEMMA MeanOfOne ==
  ASSUME NEW f \in Floors
  PROVE  Mean({f}) = f
  BY FS_Singleton DEF Mean

LEMMA StoreTypes ==
  ASSUME TypeOK
  PROVE  Store \in [Keys -> Values] /\ NothingPending \in [Keys -> Values]
  BY DEF TypeOK, Store, NothingPending, Values

LEMMA NextKeyType ==
  ASSUME TypeOK, NEW s \in Slots, Sampled(s)
  PROVE  /\ calib[s].color \in Colors /\ calib[s].set \in 0..Len(Channels)
         /\ calib[s].set < Len(Channels) =>
              calib[s].set + 1 \in Parts /\ NextKey(s) \in Keys
<1>1. calib[s] \in Calibrations /\ calib[s].color # "none"
  BY DEF TypeOK, Sampled
<1>2. calib[s].color \in Colors /\ calib[s].set \in 0..Len(Channels)
  BY <1>1 DEF Calibrations
<1>3. calib[s].set < Len(Channels) => calib[s].set + 1 \in Parts
  BY <1>2, GroundAssumption DEF Parts
<1>4. QED
  BY <1>2, <1>3, KeysOfAColour DEF NextKey

LEMMA ReadFromFlash ==
  ASSUME TypeOK, NEW c \in Colors, NEW opened \in BOOLEAN
  PROVE  TCS34725_get_calibrated_values(c, opened) \in Calibrated
<1>1. \A i \in Parts : Store[<<c, Channels[i]>>] \in Values
  BY StoreTypes, KeysOfAColour
<1>2. \A i \in Parts : (IF Store[<<c, Channels[i]>>] = Absent THEN "zero" ELSE Store[<<c, Channels[i]>>])
                         \in Means \cup {"zero", "garbage"}
  BY <1>1 DEF Values
<1>3. QED
  BY <1>2 DEF TCS34725_get_calibrated_values, Garbage, Calibrated, Parts

(* The types of the variables, those of mission 2 among them. *)
TypesInv == TypeOK /\ MoreTypes

LEMMA TypesAlways == Spec => []TypesInv
<1>1. Init => TypesInv
  <2> SUFFICES ASSUME Init PROVE TypesInv
    OBVIOUS
  <2>1. WifiTypeOK
    <3>1. <<>> \in Seq({"START", "GOT_IP", "DISCONNECTED"})
      OBVIOUS
    <3>2. QED
      BY <3>1, RetryAssumption DEF Init, WifiInit, WifiTypeOK
  <2>2. NoMission \in Missions /\ ~NoMission.on /\ NoMission.index = 0
    BY GroundAssumption DEF NoMission, Missions
  <2>3. NoCalibration \in Calibrations
    BY GroundAssumption DEF NoCalibration, Calibrations
  <2>4. 0 \in 0..(size - 1) /\ 0 \in 0..Settled
    BY GroundAssumption DEF Settled
  <2>5. NothingPending \in [Keys -> Means \cup {Absent}]
    BY DEF NothingPending
  <2>6. QED
    BY <2>1, <2>2, <2>3, <2>4, <2>5, GroundAssumption DEF Init, TypesInv, TypeOK, MoreTypes
<1>2. TypesInv /\ WifiTypeOK' /\ [Next]_vars => TypesInv'
  <2> SUFFICES ASSUME TypesInv, WifiTypeOK', [Next]_vars
               PROVE  TypesInv'
    OBVIOUS
  <2> USE DEF TypesInv
  <2>1. NoMission \in Missions /\ ~NoMission.on /\ NoCalibration \in Calibrations
    BY GroundAssumption DEF NoMission, Missions, NoCalibration, Calibrations
  <2>2. NothingPending \in [Keys -> Means \cup {Absent}] /\ Store \in [Keys -> Means \cup {Absent}]
    BY StoreTypes DEF Values
  <2>3. m2 \in Missions => m2.index \in 0..(size - 1)
    BY DEF Missions
  <2>4. 0 \in 0..Settled
    BY GroundAssumption DEF Settled
  <2>5. TypeOK' <=> /\ WifiTypeOK' /\ floor' \in Floors
                    /\ flash' \in [Keys -> Means \cup {Absent}] /\ pending' \in [Keys -> Means \cup {Absent}]
                    /\ calib' \in [Slots -> Calibrations]
                    /\ m2'.index \in 0..(size - 1) /\ led' \in {"dark", "color 0", "color 2"}
                    /\ rested' \in 0..Settled
                    /\ kept' \in [Colors -> BOOLEAN] /\ torn' \in [Colors -> BOOLEAN]
    BY DEF TypeOK
  <2>6. MoreTypes' <=> m2' \in Missions /\ (m2'.on => m2'.cal \in [Colors -> Calibrated])
    BY DEF MoreTypes
  <2>7. m2' \in Missions => m2'.index \in 0..(size - 1)
    BY DEF Missions
  <2>8. CASE Boot
    BY <2>2, <2>5, <2>6, <2>8 DEF Boot, TypeOK, MoreTypes
  <2>9. CASE Restart
    <3>1. flash' \in [Keys -> Means \cup {Absent}]
      <4>1. PICK K \in SUBSET {k \in Keys : pending[k] # Absent} :
              flash' = [k \in Keys |-> IF k \in K THEN pending[k] ELSE flash[k]]
        BY <2>9 DEF Restart
      <4>2. QED
        BY <4>1 DEF TypeOK
    <3>2. torn' \in [Colors -> BOOLEAN]
      BY <2>9 DEF Restart, TypeOK
    <3>3. QED
      BY <2>1, <2>2, <2>4, <2>5, <2>6, <2>7, <2>9, <3>1, <3>2 DEF Restart, TypeOK
  <2>10. ASSUME NEW f \in Floors, Move(f) PROVE TypesInv'
    BY <2>4, <2>5, <2>6, <2>10 DEF Move, TypeOK, MoreTypes
  <2>11. CASE Wifi \/ UNCHANGED vars
    BY <2>5, <2>6, <2>11 DEF Wifi, vars, groundVars, TypeOK, MoreTypes
  <2>12. ASSUME NEW s \in Slots, Calibration(s) PROVE TypesInv'
    <3>1. calib \in [Slots -> Calibrations] /\ calib[s] \in Calibrations
      BY DEF TypeOK
    <3>2. UNCHANGED <<floor, m2, led, rested>>
      BY <2>12 DEF Calibration, Sample, SetKey, Commit, StartCalibration
    <3>3. calib' \in [Slots -> Calibrations]
      <4>1. ASSUME NEW c \in Colors, StartCalibration(s, c) PROVE calib' \in [Slots -> Calibrations]
        BY <2>1, <3>1, <4>1 DEF StartCalibration, Calibrations
      <4>2. CASE Sample(s)
        <5>1. PICK r \in Readings : calib' = [calib EXCEPT ![s].n = @ + 1, ![s].seen = @ \cup {r}]
          BY <4>2 DEF Sample
        <5>2. r \in Floors \cup {"bad"}
          BY DEF Readings, TypeOK
        <5>3. calib[s].n \in 0..sampling_size /\ calib[s].n < sampling_size
          BY <3>1, <4>2 DEF Sample, Calibrations
        <5>4. calib[s].n + 1 \in 0..sampling_size
          BY <5>3, GroundAssumption
        <5>5. QED
          BY <3>1, <5>1, <5>2, <5>4 DEF Calibrations
      <4>3. CASE SetKey(s)
        <5>1. calib' = [calib EXCEPT ![s].set = @ + 1] \/ calib' = [calib EXCEPT ![s] = NoCalibration]
          BY <4>3 DEF SetKey
        <5>2. calib[s].set \in 0..Len(Channels) /\ calib[s].set < Len(Channels)
          BY <3>1, <4>3 DEF SetKey, Calibrations
        <5>3. calib[s].set + 1 \in 0..Len(Channels)
          BY <5>2, GroundAssumption
        <5>4. [calib EXCEPT ![s].set = @ + 1] \in [Slots -> Calibrations]
          BY <3>1, <5>3 DEF Calibrations
        <5>5. QED
          BY <2>1, <3>1, <5>1, <5>4
      <4>4. CASE Commit(s)
        BY <2>1, <3>1, <4>4 DEF Commit
      <4>5. QED
        BY <2>12, <4>1, <4>2, <4>3, <4>4 DEF Calibration
    <3>4. /\ flash' \in [Keys -> Means \cup {Absent}] /\ pending' \in [Keys -> Means \cup {Absent}]
          /\ kept' \in [Colors -> BOOLEAN] /\ torn' \in [Colors -> BOOLEAN]
      <4>1. CASE Sample(s) \/ \E c \in Colors : StartCalibration(s, c)
        BY <4>1 DEF Sample, StartCalibration, TypeOK
      <4>2. CASE SetKey(s)
        <5>1. NextKey(s) \in Keys /\ calib[s].color \in Colors
          BY <4>2, NextKeyType DEF SetKey
        <5>2. Mean(calib[s].seen) \in Means
          BY MeanOfReadings
        <5>3. pending' \in [Keys -> Means \cup {Absent}]
          BY <4>2, <5>1, <5>2 DEF SetKey, TypeOK
        <5>4. torn' \in [Colors -> BOOLEAN]
          <6>1. \/ torn' = torn
                \/ torn' = [torn EXCEPT ![calib[s].color] = TRUE]
                \/ torn' = [torn EXCEPT ![calib[s].color] =
                              (@ /\ calib[s].set > 0) \/ Writing(calib[s].color) \ {s} # {}]
            BY <4>2 DEF SetKey
          <6>2. QED
            BY <5>1, <6>1 DEF TypeOK
        <5>5. QED
          BY <4>2, <5>3, <5>4 DEF SetKey, TypeOK
      <4>3. CASE Commit(s)
        <5>1. calib[s].color \in Colors
          BY <4>3, NextKeyType DEF Commit
        <5>2. /\ (flash' = flash /\ pending' = pending) \/ (flash' = Store /\ pending' = NothingPending)
              /\ \/ kept' = kept
                 \/ kept' = [kept EXCEPT ![calib[s].color] = @ \/ Complete(calib[s].color)]
              /\ torn' = torn \/ torn' = [torn EXCEPT ![calib[s].color] = TRUE]
          BY <4>3 DEF Commit, Committed
        <5>3. kept' \in [Colors -> BOOLEAN]
          BY <5>1, <5>2 DEF TypeOK
        <5>4. QED
          BY <2>2, <5>1, <5>2, <5>3 DEF TypeOK
      <4>4. QED
        BY <2>12, <4>1, <4>2, <4>3 DEF Calibration
    <3>5. QED
      BY <2>5, <2>6, <3>2, <3>3, <3>4 DEF TypeOK, MoreTypes
  <2>13. CASE Mission2
    <3>1. UNCHANGED <<floor, flash, pending, calib, kept, torn>>
      BY <2>13 DEF Mission2, mission2_loop, mission2_stop, mission2_start
    <3>2. CASE mission2_stop
      BY <2>1, <2>4, <2>5, <2>6, <2>7, <3>1, <3>2 DEF mission2_stop, TypeOK
    <3>3. ASSUME NEW f \in Targets, mission2_start(f) PROVE TypesInv'
      <4>1. PICK opened \in BOOLEAN :
              m2' = [NoMission EXCEPT !.on = TRUE, !.color_floor = f,
                       !.cal = [c \in Colors |-> TCS34725_get_calibrated_values(c, opened)],
                       !.known = opened /\ \A c \in Colors : kept[c]]
        BY <3>3 DEF mission2_start
      <4>2. [c \in Colors |-> TCS34725_get_calibrated_values(c, opened)] \in [Colors -> Calibrated]
        BY ReadFromFlash
      <4>3. (opened /\ \A c \in Colors : kept[c]) \in BOOLEAN
        OBVIOUS
      <4>4. m2' \in Missions /\ m2'.cal \in [Colors -> Calibrated]
        <5> DEFINE cal == [c \in Colors |-> TCS34725_get_calibrated_values(c, opened)]
                   known == opened /\ \A c \in Colors : kept[c]
        <5>1. m2' = [NoMission EXCEPT !.on = TRUE, !.color_floor = f, !.cal = cal, !.known = known]
          BY <4>1
        <5>2. cal \in [Colors -> Calibrated] /\ known \in BOOLEAN
          BY <4>2
        <5> HIDE DEF cal, known
        <5>3. cal \in [Colors -> Calibrated \cup {<<>>}]
          BY <5>2
        <5>4. m2' = [on |-> TRUE, color_floor |-> f, cal |-> cal, index |-> 0, seen |-> {},
                     ground |-> "UNKNOWN", previous |-> "UNKNOWN", known |-> known]
          BY <5>1 DEF NoMission
        <5>5. 0 \in 0..(size - 1)
          BY GroundAssumption
        <5>6. QED
          BY <5>2, <5>3, <5>4, <5>5 DEF Missions
      <4>5. rested' = 0 /\ led' = "dark"
        BY <3>3 DEF mission2_start
      <4>6. QED
        BY <2>4, <2>5, <2>6, <2>7, <3>1, <4>4, <4>5 DEF TypeOK
    <3>4. CASE mission2_loop
      <4>1. m2 \in Missions /\ m2.on /\ m2.cal \in [Colors -> Calibrated] /\ m2.index \in 0..(size - 1)
        BY <3>4 DEF MoreTypes, mission2_loop, TypeOK
      <4>2. PICK r \in Readings : /\ rested' = IF r = "bad" THEN 0 ELSE IF rested < Settled THEN rested + 1 ELSE rested
                                  /\ \/ /\ m2.index + 1 < size
                                        /\ m2' = [m2 EXCEPT !.index = @ + 1, !.seen = m2.seen \cup {r}]
                                        /\ UNCHANGED led
                                     \/ \E g \in Grounds(m2.seen \cup {r}, m2.cal) :
                                          /\ m2' = [m2 EXCEPT !.index = 0, !.seen = {}, !.ground = g, !.previous = g]
                                          /\ led' = IF g # m2.previous THEN Shown(g, m2.color_floor) ELSE led
        BY <3>4 DEF mission2_loop, NextWindow, NewPrevious
      <4>3. rested' \in 0..Settled
        <5>1. rested \in 0..Settled
          BY DEF TypeOK
        <5>2. Settled \in Nat
          BY GroundAssumption DEF Settled
        <5>3. rested' = 0 \/ rested' = rested \/ (rested < Settled /\ rested' = rested + 1)
          BY <4>2
        <5>4. QED
          BY <5>1, <5>2, <5>3
      <4>4. led' \in {"dark", "color 0", "color 2"}
        BY <4>2 DEF Shown, TypeOK
      <4>5. m2' \in Missions /\ m2'.cal = m2.cal
        <5>1. m2.seen \cup {r} \in SUBSET (Floors \cup {"bad"})
          <6>1. m2.seen \in SUBSET (Floors \cup {"bad"})
            BY <4>1 DEF Missions
          <6>2. r \in Floors \cup {"bad"}
            BY DEF Readings, TypeOK
          <6>3. QED
            BY <6>1, <6>2
        <5>2. CASE m2.index + 1 < size /\ m2' = [m2 EXCEPT !.index = @ + 1, !.seen = m2.seen \cup {r}]
          <6>1. m2.index + 1 \in 0..(size - 1)
            BY <4>1, <5>2, GroundAssumption
          <6>2. QED
            BY <4>1, <5>1, <5>2, <6>1 DEF Missions
        <5>3. ASSUME NEW g \in {"WHITE", "BLACK", "GRAY"},
                     m2' = [m2 EXCEPT !.index = 0, !.seen = {}, !.ground = g, !.previous = g]
              PROVE  m2' \in Missions /\ m2'.cal = m2.cal
          <6>1. 0 \in 0..(size - 1)
            BY GroundAssumption
          <6>2. QED
            BY <4>1, <5>3, <6>1 DEF Missions
        <5>4. Grounds(m2.seen \cup {r}, m2.cal) \subseteq {"WHITE", "BLACK", "GRAY"}
          BY DEF Grounds
        <5>5. QED
          BY <4>2, <5>2, <5>3, <5>4
      <4>6. QED
        BY <2>5, <2>6, <2>7, <3>1, <4>1, <4>3, <4>4, <4>5 DEF TypeOK
    <3>5. QED
      BY <2>13, <3>2, <3>3, <3>4 DEF Mission2
  <2>14. QED
    BY <2>8, <2>9, <2>10, <2>11, <2>12, <2>13 DEF Next
<1>3. StationInv => WifiTypeOK
  BY DEF StationInv
<1>4. QED
  BY <1>1, <1>2, <1>3, StationAlways, PTL DEF Spec

(* Type correctness of the ground sensor and of the station. *)
THEOREM TypeCorrect == Spec => []TypeOK
<1>1. TypesInv => TypeOK
  BY DEF TypesInv
<1>2. QED
  BY <1>1, TypesAlways, PTL

-----------------------------------------------------------------------------
(* A colour whose keys and writers a step leaves alone keeps its           *)
(* invariant.                                                              *)
LEMMA Untouched ==
  ASSUME NEW c \in Colors, ColourInv(c), Writing(c)' = Writing(c), torn[c] => torn'[c],
         \A s \in Writing(c) : calib'[s] = calib[s] /\ calib[s].set \in 0..Len(Channels),
         \A i \in Parts : Store'[<<c, Channels[i]>>] = Store[<<c, Channels[i]>>],
         \A i \in Parts : pending[<<c, Channels[i]>>] = Absent => pending'[<<c, Channels[i]>>] = Absent
  PROVE  ColourInv(c)'
<1> SUFFICES ASSUME ~torn'[c] PROVE Alone(c)' /\ Written(c)' /\ AllCommitted(c)'
  BY DEF ColourInv
<1>1. Alone(c) /\ Written(c) /\ AllCommitted(c)
  BY DEF ColourInv
<1>2. Alone(c)'
  BY <1>1 DEF Alone
<1>3. Written(c)'
  <2>1. \A s \in Writing(c) : \A i \in 1..calib[s].set : i \in Parts
    BY GroundAssumption DEF Parts
  <2>2. QED
    BY <1>1, <2>1 DEF Written
<1>4. AllCommitted(c)'
  BY <1>1, KeysOfAColour DEF AllCommitted, Whole, Parts
<1>5. QED
  BY <1>2, <1>3, <1>4

(* The store before and after a step, key by key. *)
LEMMA StoreByKey ==
  ASSUME NEW k \in Keys
  PROVE  /\ Store[k] = IF pending[k] # Absent THEN pending[k] ELSE flash[k]
         /\ Store'[k] = IF pending'[k] # Absent THEN pending'[k] ELSE flash'[k]
         /\ NothingPending[k] = Absent
  BY DEF Store, NothingPending

LEMMA SetKeyKeepsStore ==
  ASSUME TypeOK, TypeOK', StoreInv, NEW s \in Slots, SetKey(s)
  PROVE  StoreInv'
<1>0. PICK c \in Colors, n \in 0..Len(Channels) : c = calib[s].color /\ n = calib[s].set
  BY NextKeyType DEF SetKey
<1>1. /\ Sampled(s) /\ n < Len(Channels) /\ c \in Colors /\ n \in 0..Len(Channels) /\ n + 1 \in Parts
      /\ NextKey(s) = <<c, Channels[n + 1]>> /\ NextKey(s) \in Keys
  BY <1>0, NextKeyType DEF SetKey, NextKey
<1>2. calib \in [Slots -> Calibrations] /\ calib[s] \in Calibrations
  BY DEF TypeOK
<1>3. n \in Nat /\ n + 1 \in Nat /\ n + 1 > 0 /\ c # "none" /\ calib[s].n = sampling_size
  BY <1>0, <1>1, GroundAssumption DEF Sampled
<1>4. phase # "off" /\ phase' = phase /\ UNCHANGED <<flash, floor>>
  <2>1. phase # "off"
    BY <1>1, <1>2 DEF StoreInv, Asleep, Sampled, NoCalibration
  <2>2. QED
    BY <2>1 DEF SetKey, wifiVars
<1>5. Asleep'
  BY <1>4 DEF Asleep
<1>6. \/ calib' = [calib EXCEPT ![s] = NoCalibration]
      \/ calib' = [calib EXCEPT ![s].set = n + 1]
  BY <1>0 DEF SetKey
<1>7. \A t \in Slots \ {s} : calib'[t] = calib[t]
  BY <1>2, <1>6
<1>8. Measured'
  <2>1. calib'[s].set > 0 => calib'[s].color = c /\ calib'[s].n = sampling_size
    BY <1>0, <1>2, <1>3, <1>6 DEF NoCalibration, Calibrations
  <2>2. QED
    BY <1>3, <1>7, <2>1 DEF Measured, StoreInv, Sampled
<1>9. ASSUME NEW b \in Colors, b # c PROVE ColourInv(b)'
  <2>1. Writing(b)' = Writing(b)
    <3>1. s \notin Writing(b) /\ s \notin Writing(b)'
      BY <1>0, <1>2, <1>6, <1>9 DEF Writing, NoCalibration, Calibrations
    <3>2. QED
      BY <1>7, <3>1 DEF Writing
  <2>2. s \notin Writing(b)
    BY <1>0, <1>9 DEF Writing
  <2>3. torn'[b] = torn[b]
    <3>1. \/ torn' = torn
          \/ torn' = [torn EXCEPT ![c] = TRUE]
          \/ torn' = [torn EXCEPT ![c] = (@ /\ n > 0) \/ Writing(c) \ {s} # {}]
      BY <1>0 DEF SetKey
    <3>2. QED
      BY <1>1, <1>9, <3>1 DEF TypeOK
  <2>4. \A i \in Parts : pending'[<<b, Channels[i]>>] = pending[<<b, Channels[i]>>]
    <3>1. pending' = pending \/ pending' = [pending EXCEPT ![NextKey(s)] = Mean(calib[s].seen)]
      BY DEF SetKey
    <3>2. \A i \in Parts : <<b, Channels[i]>> # NextKey(s) /\ <<b, Channels[i]>> \in Keys
      BY <1>1, <1>9, KeysOfAColour
    <3>3. QED
      BY <3>1, <3>2 DEF TypeOK
  <2>5. \A i \in Parts : Store'[<<b, Channels[i]>>] = Store[<<b, Channels[i]>>]
    BY <1>4, <2>4, KeysOfAColour, StoreByKey
  <2>6. \A t \in Writing(b) : calib'[t] = calib[t] /\ calib[t].set \in 0..Len(Channels)
    BY <1>2, <1>7, <2>2 DEF Writing, Calibrations
  <2>7. QED
    BY <2>1, <2>3, <2>4, <2>5, <2>6, Untouched DEF StoreInv
<1>10. ColourInv(c)'
  <2>1. CASE torn'[c]
    BY <2>1 DEF ColourInv
  <2>2. CASE calib' = [calib EXCEPT ![s] = NoCalibration] /\ n = 0 /\ UNCHANGED <<pending, torn>>
    <3>1. s \notin Writing(c) /\ s \notin Writing(c)'
      <4>1. calib'[s] = NoCalibration /\ calib[s].set = 0
        BY <1>0, <1>2, <2>2
      <4>2. QED
        BY <4>1 DEF Writing, NoCalibration
    <3>2. Writing(c)' = Writing(c)
      BY <1>7, <3>1 DEF Writing
    <3>3. \A t \in Writing(c) : calib'[t] = calib[t] /\ calib[t].set \in 0..Len(Channels)
      BY <1>2, <1>7, <3>1 DEF Writing, Calibrations
    <3>4. \A i \in Parts : Store'[<<c, Channels[i]>>] = Store[<<c, Channels[i]>>]
      BY <1>1, <1>4, <2>2, KeysOfAColour, StoreByKey
    <3>5. ColourInv(c)
      BY <1>1 DEF StoreInv
    <3>6. QED
      BY <1>1, <2>2, <3>2, <3>3, <3>4, <3>5, Untouched
  <2>3. CASE /\ ~torn'[c]
             /\ pending' = [pending EXCEPT ![NextKey(s)] = Mean(calib[s].seen)]
             /\ torn' = [torn EXCEPT ![c] = (@ /\ n > 0) \/ Writing(c) \ {s} # {}]
             /\ calib' = [calib EXCEPT ![s].set = n + 1]
    <3>1. torn \in [Colors -> BOOLEAN] /\ pending \in [Keys -> Values]
      BY DEF TypeOK, Values
    <3>2. Writing(c) \ {s} = {} /\ (n = 0 \/ ~torn[c])
      <4>1. (torn[c] /\ n > 0) \/ Writing(c) \ {s} # {} => torn'[c]
        BY <1>1, <2>3, <3>1
      <4>2. QED
        BY <1>3, <2>3, <4>1
    <3>3. /\ calib'[s].set = n + 1 /\ calib'[s].color = c /\ calib'[s].seen = calib[s].seen
      BY <1>0, <1>2, <2>3 DEF Calibrations
    <3>4. Writing(c)' = {s}
      BY <1>0, <1>3, <1>7, <3>2, <3>3 DEF Writing
    <3>5. Alone(c)' /\ AllCommitted(c)'
      BY <3>4 DEF Alone, AllCommitted
    <3>6. Mean(calib[s].seen) \in Means /\ Mean(calib[s].seen) # Absent
      BY MeanOfReadings, GroundAssumption DEF Means, Absent
    <3>7. ASSUME NEW i \in 1..(n + 1) PROVE Store'[<<c, Channels[i]>>] = Mean(calib[s].seen)
      <4>1. i \in Parts /\ <<c, Channels[i]>> \in Keys
        BY <1>1, <1>3, KeysOfAColour, GroundAssumption DEF Parts
      <4>2. CASE <<c, Channels[i]>> = NextKey(s)
        <5>1. pending'[<<c, Channels[i]>>] = Mean(calib[s].seen)
          BY <1>1, <2>3, <3>1, <4>2
        <5>2. QED
          BY <3>6, <4>1, <5>1, StoreByKey
      <4>3. CASE <<c, Channels[i]>> # NextKey(s)
        <5>1. i # n + 1
          BY <1>1, <4>3
        <5>2. i \in 1..n /\ n > 0
          BY <1>3, <5>1
        <5>3. s \in Writing(c) /\ ~torn[c]
          BY <1>0, <3>2, <5>2 DEF Writing
        <5>4. Store[<<c, Channels[i]>>] = Mean(calib[s].seen)
          BY <1>0, <1>1, <5>2, <5>3 DEF StoreInv, ColourInv, Written
        <5>5. pending'[<<c, Channels[i]>>] = pending[<<c, Channels[i]>>] /\ flash' = flash
          BY <1>4, <2>3, <3>1, <4>1, <4>3
        <5>6. QED
          BY <4>1, <5>4, <5>5, StoreByKey
      <4>4. QED
        BY <4>2, <4>3
    <3>8. Written(c)'
      BY <3>3, <3>4, <3>7 DEF Written
    <3>9. QED
      BY <3>5, <3>8 DEF ColourInv
  <2>4. QED
    <3>1. torn \in [Colors -> BOOLEAN]
      BY DEF TypeOK
    <3>2. torn' = [torn EXCEPT ![c] = TRUE] => torn'[c]
      BY <1>1, <3>1
    <3>3. QED
      BY <1>0, <2>1, <2>2, <2>3, <3>2 DEF SetKey
<1>11. QED
  BY <1>5, <1>8, <1>9, <1>10 DEF StoreInv

LEMMA CommitKeepsStore ==
  ASSUME TypeOK, TypeOK', StoreInv, NEW s \in Slots, Commit(s)
  PROVE  StoreInv'
<1>0. PICK c \in Colors : c = calib[s].color
  BY NextKeyType DEF Commit
<1>1. /\ Sampled(s) /\ calib[s].set = Len(Channels) /\ c # "none"
      /\ calib \in [Slots -> Calibrations] /\ calib' = [calib EXCEPT ![s] = NoCalibration]
  BY <1>0 DEF Commit, TypeOK, Sampled
<1>2. calib'[s] = NoCalibration /\ \A t \in Slots \ {s} : calib'[t] = calib[t]
  BY <1>1
<1>3. s \in Writing(c) /\ \A b \in Colors : Writing(b)' = Writing(b) \ {s}
  <2>1. s \in Writing(c)
    BY <1>0, <1>1, GroundAssumption DEF Writing
  <2>2. ASSUME NEW b \in Colors PROVE Writing(b)' = Writing(b) \ {s}
    BY <1>2 DEF Writing, NoCalibration
  <2>3. QED
    BY <2>1, <2>2
<1>4. phase # "off" /\ phase' = phase
  <2>1. phase # "off"
    BY <1>0, <1>1 DEF StoreInv, Asleep, NoCalibration
  <2>2. QED
    BY <2>1 DEF Commit, wifiVars
<1>5. Asleep' /\ Measured'
  <2>1. ~(calib'[s].set > 0)
    BY <1>2 DEF NoCalibration
  <2>2. QED
    BY <1>2, <1>4, <2>1 DEF Asleep, Measured, StoreInv, Sampled
<1>6. \A k \in Keys : Store'[k] = Store[k] /\ (pending[k] = Absent => pending'[k] = Absent)
  <2>1. \/ flash' = Store /\ pending' = NothingPending
        \/ UNCHANGED <<flash, pending>>
    BY DEF Commit, Committed
  <2>2. QED
    BY <2>1, StoreByKey
<1>7. ASSUME NEW b \in Colors, b # c PROVE ColourInv(b)'
  <2>1. s \notin Writing(b)
    BY <1>0, <1>7 DEF Writing
  <2>2. Writing(b)' = Writing(b)
    BY <1>3, <2>1
  <2>3. \A t \in Writing(b) : calib'[t] = calib[t] /\ calib[t].set \in 0..Len(Channels)
    BY <1>1, <1>2, <2>1 DEF Writing, Calibrations
  <2>4. torn[b] => torn'[b]
    <3>1. torn' = torn \/ torn' = [torn EXCEPT ![c] = TRUE]
      BY <1>0 DEF Commit
    <3>2. QED
      BY <1>7, <3>1 DEF TypeOK
  <2>5. QED
    BY <1>6, <2>2, <2>3, <2>4, KeysOfAColour, Untouched DEF StoreInv
<1>8. ASSUME ~torn'[c] PROVE ColourInv(c)'
  <2>1. flash' = Store /\ pending' = NothingPending /\ torn' = torn
    <3>1. torn' = [torn EXCEPT ![c] = TRUE] => torn'[c]
      BY DEF TypeOK
    <3>2. QED
      BY <1>0, <1>8, <3>1 DEF Commit, Committed
  <2>2. Alone(c) /\ Written(c)
    BY <1>8, <2>1 DEF StoreInv, ColourInv
  <2>3. Writing(c)' = {}
    BY <1>3, <2>2 DEF Alone
  <2>4. Alone(c)' /\ Written(c)'
    BY <2>3 DEF Alone, Written
  <2>5. Whole(c)'
    <3>1. \A i \in Parts : Store[<<c, Channels[i]>>] = Mean(calib[s].seen)
      BY <1>1, <1>3, <2>2 DEF Written, Parts
    <3>2. \A i \in Parts : Store'[<<c, Channels[i]>>] = Mean(calib[s].seen)
      BY <1>6, <3>1, KeysOfAColour
    <3>3. QED
      BY <3>2, KeysOfAColour DEF Whole, Parts
  <2>6. \A i \in Parts : pending'[<<c, Channels[i]>>] = Absent
    BY <2>1, KeysOfAColour, StoreByKey
  <2>7. QED
    BY <2>4, <2>5, <2>6 DEF ColourInv, AllCommitted
<1>9. ColourInv(c)'
  BY <1>8 DEF ColourInv
<1>10. QED
  BY <1>5, <1>7, <1>9 DEF StoreInv

(* A restart finds nothing of an untorn colour half stored: what it may    *)
(* keep or lose of the pending keys is of the others.                      *)
LEMMA RestartKeepsStore ==
  ASSUME TypeOK, TypeOK', StoreInv, Restart
  PROVE  StoreInv'
<1>1. PICK K \in SUBSET {k \in Keys : pending[k] # Absent} :
        flash' = [k \in Keys |-> IF k \in K THEN pending[k] ELSE flash[k]]
  BY DEF Restart
<1>2. /\ pending' = NothingPending /\ calib' = [s \in Slots |-> NoCalibration]
      /\ torn' = [c \in Colors |-> torn[c] \/ Writing(c) # {}]
  BY DEF Restart
<1>3. Asleep' /\ Measured'
  BY <1>2 DEF Asleep, Measured, NoCalibration
<1>4. ASSUME NEW c \in Colors, ~torn'[c] PROVE Alone(c)' /\ Written(c)' /\ AllCommitted(c)'
  <2>1. ~torn[c] /\ Writing(c) = {}
    BY <1>2, <1>4
  <2>2. Whole(c) /\ \A i \in Parts : pending[<<c, Channels[i]>>] = Absent
    BY <2>1 DEF StoreInv, ColourInv, AllCommitted
  <2>3. Writing(c)' = {}
    BY <1>2 DEF Writing, NoCalibration
  <2>4. Alone(c)' /\ Written(c)'
    BY <2>3 DEF Alone, Written
  <2>5. \A i \in Parts : pending'[<<c, Channels[i]>>] = Absent
    BY <1>2, KeysOfAColour, StoreByKey
  <2>6. \A i \in Parts : Store'[<<c, Channels[i]>>] = Store[<<c, Channels[i]>>]
    <3>1. \A i \in Parts : flash'[<<c, Channels[i]>>] = flash[<<c, Channels[i]>>]
      BY <1>1, <2>2, KeysOfAColour
    <3>2. QED
      BY <2>2, <2>5, <3>1, KeysOfAColour, StoreByKey
  <2>7. Whole(c)'
    BY <2>2, <2>6, KeysOfAColour DEF Whole, Parts
  <2>8. QED
    BY <2>4, <2>5, <2>7 DEF AllCommitted
<1>5. QED
  BY <1>3, <1>4 DEF StoreInv, ColourInv

LEMMA BootKeepsStore ==
  ASSUME TypeOK, TypeOK', StoreInv, Boot
  PROVE  StoreInv'
<1>1. /\ phase = "off" /\ phase' = "wait" /\ UNCHANGED <<pending, calib>>
      /\ pending = NothingPending /\ calib = [s \in Slots |-> NoCalibration]
  BY DEF Boot, wifi_init_sta, StoreInv, Asleep
<1>2. Asleep' /\ Measured'
  BY <1>1 DEF Asleep, Measured, NoCalibration
<1>3. \A c \in Colors : Writing(c) = {} /\ Writing(c)' = {}
  BY <1>1 DEF Writing, NoCalibration
<1>4. CASE UNCHANGED <<flash, torn>>
  <2>1. \A c \in Colors : \A i \in Parts : Store'[<<c, Channels[i]>>] = Store[<<c, Channels[i]>>]
    BY <1>1, <1>4, KeysOfAColour, StoreByKey
  <2>2. ASSUME NEW c \in Colors PROVE ColourInv(c)'
    BY <1>1, <1>3, <1>4, <2>1, Untouched DEF StoreInv
  <2>3. QED
    BY <1>2, <2>2 DEF StoreInv
<1>5. CASE flash' = NothingPending
  <2>1. ASSUME NEW c \in Colors PROVE ColourInv(c)'
    <3>1. \A i \in Parts : Store'[<<c, Channels[i]>>] = Absent /\ pending'[<<c, Channels[i]>>] = Absent
      BY <1>1, <1>5, KeysOfAColour, StoreByKey
    <3>2. Whole(c)'
      BY <3>1, KeysOfAColour DEF Whole, Parts
    <3>3. QED
      BY <1>3, <3>1, <3>2 DEF ColourInv, Alone, Written, AllCommitted
  <2>2. QED
    BY <1>2, <2>1 DEF StoreInv
<1>6. QED
  BY <1>4, <1>5 DEF Boot

(* The steps that store nothing: they move no calibration that has begun   *)
(* to store.                                                               *)
LEMMA OthersKeepStore ==
  ASSUME TypeOK, TypeOK', StoreInv, StationInv,
         \/ Wifi \/ Mission2 \/ UNCHANGED vars \/ \E f \in Floors : Move(f)
         \/ \E s \in Slots : Sample(s) \/ \E c \in Colors : StartCalibration(s, c)
  PROVE  StoreInv'
<1>1. UNCHANGED <<flash, pending, torn>>
  BY DEF Wifi, Mission2, vars, groundVars, Move, Sample, StartCalibration,
         mission2_loop, mission2_stop, mission2_start
<1>2. calib \in [Slots -> Calibrations]
  BY DEF TypeOK
<1>3. ASSUME NEW s \in Slots, Sample(s)
      PROVE  /\ calib[s].set = 0 /\ calib'[s].set = 0 /\ phase # "off" /\ phase' = phase
             /\ \A t \in Slots \ {s} : calib'[t] = calib[t]
  <2>1. PICK r \in Readings : calib' = [calib EXCEPT ![s].n = @ + 1, ![s].seen = @ \cup {r}]
    BY <1>3 DEF Sample
  <2>2. ~Sampled(s) /\ calib[s].set \in 0..Len(Channels) /\ calib[s] \in Calibrations
    BY <1>2, <1>3, GroundAssumption DEF Sample, Sampled, Calibrations
  <2>3. calib[s].set = 0
    BY <2>2, GroundAssumption DEF StoreInv, Measured
  <2>4. phase # "off" /\ phase' = phase
    BY <1>3 DEF Sample, StoreInv, Asleep, NoCalibration, wifiVars
  <2>5. calib'[s].set = 0 /\ \A t \in Slots \ {s} : calib'[t] = calib[t]
    BY <1>2, <2>1, <2>2, <2>3 DEF Calibrations
  <2>6. QED
    BY <2>3, <2>4, <2>5
<1>4. ASSUME NEW s \in Slots, NEW c \in Colors, StartCalibration(s, c)
      PROVE  /\ calib[s].set = 0 /\ calib'[s].set = 0 /\ phase # "off" /\ phase' = phase
             /\ \A t \in Slots \ {s} : calib'[t] = calib[t]
  <2>1. calib[s].set \in 0..Len(Channels) /\ ~Sampled(s)
    BY <1>2, <1>4 DEF StartCalibration, Sampled, Calibrations
  <2>2. calib[s].set = 0
    BY <2>1, GroundAssumption DEF StoreInv, Measured
  <2>3. QED
    BY <1>2, <1>4, <2>2 DEF StartCalibration, NoCalibration, wifiVars
<1>5. \/ calib' = calib
      \/ /\ phase # "off" /\ phase' = phase
         /\ \A s \in Slots : calib'[s] = calib[s] \/ (calib[s].set = 0 /\ calib'[s].set = 0)
  <2>1. CASE calib' = calib
    BY <2>1
  <2>2. CASE \E s \in Slots : Sample(s) \/ \E c \in Colors : StartCalibration(s, c)
    <3>1. PICK s \in Slots : /\ calib[s].set = 0 /\ calib'[s].set = 0 /\ phase # "off" /\ phase' = phase
                             /\ \A t \in Slots \ {s} : calib'[t] = calib[t]
      BY <1>3, <1>4, <2>2
    <3>2. QED
      BY <3>1
  <2>3. QED
    BY <2>1, <2>2 DEF Wifi, Mission2, vars, groundVars, Move, mission2_loop, mission2_stop, mission2_start
<1>6. phase' = "off" => phase = "off"
  <2>1. Wifi => phase' = phase \/ phase' # "off"
    <3>1. BitsSeen \/ TearDown => phase' # "off"
      BY DEF BitsSeen, TearDown, AfterCall
    <3>2. Deliver \/ RadioAssociates \/ RadioGetsAddress \/ RadioFails => phase' = phase
      BY DEF Deliver, RadioAssociates, RadioGetsAddress, RadioFails
    <3>3. QED
      BY <3>1, <3>2 DEF Wifi, WifiStep
  <2>2. QED
    BY <1>3, <1>4, <2>1 DEF Mission2, vars, wifiVars, Move, mission2_loop, mission2_stop, mission2_start
<1>7. Asleep'
  BY <1>1, <1>5, <1>6 DEF StoreInv, Asleep
<1>8. Measured'
  BY <1>5 DEF StoreInv, Measured, Sampled
<1>9. ASSUME NEW c \in Colors PROVE ColourInv(c)'
  <2>1. Writing(c)' = Writing(c)
    BY <1>5 DEF Writing
  <2>2. \A s \in Writing(c) : calib'[s] = calib[s] /\ calib[s].set \in 0..Len(Channels)
    BY <1>2, <1>5 DEF Writing, Calibrations
  <2>3. \A i \in Parts : Store'[<<c, Channels[i]>>] = Store[<<c, Channels[i]>>]
    BY <1>1, KeysOfAColour, StoreByKey
  <2>4. QED
    BY <1>1, <2>1, <2>2, <2>3, Untouched DEF StoreInv
<1>10. QED
  BY <1>7, <1>8, <1>9 DEF StoreInv

LEMMA StoreAlways == Spec => []StoreInv
<1>1. Init => StoreInv
  <2> SUFFICES ASSUME Init PROVE StoreInv
    OBVIOUS
  <2>1. \A s \in Slots : calib[s].set = 0
    BY DEF Init, NoCalibration
  <2>2. Asleep /\ Measured
    BY <2>1 DEF Init, Asleep, Measured
  <2>3. ASSUME NEW c \in Colors PROVE ColourInv(c)
    <3>1. \A i \in Parts : Store[<<c, Channels[i]>>] = Absent /\ pending[<<c, Channels[i]>>] = Absent
      BY KeysOfAColour, StoreByKey DEF Init
    <3>2. Writing(c) = {}
      BY <2>1 DEF Writing
    <3>3. Whole(c)
      BY <3>1, KeysOfAColour DEF Whole, Parts
    <3>4. QED
      BY <3>1, <3>2, <3>3 DEF ColourInv, Alone, Written, AllCommitted
  <2>4. QED
    BY <2>2, <2>3 DEF StoreInv
<1>2. StoreInv /\ TypeOK /\ TypeOK' /\ StationInv /\ [Next]_vars => StoreInv'
  BY OthersKeepStore, BootKeepsStore, RestartKeepsStore, CommitKeepsStore, SetKeyKeepsStore
     DEF Next, Calibration
<1>3. QED
  BY <1>1, <1>2, TypeCorrect, StationAlways, PTL DEF Spec

(* The keys of a colour that is not being stored come from one             *)
(* calibration, unless its last one failed, met another one of its colour  *)
(* or was cut short: a restart at any step does not change that.           *)
THEOREM CalibrationWholeHolds == Spec => []CalibrationWhole
<1>1. StoreInv => CalibrationWhole
  BY DEF StoreInv, ColourInv, AllCommitted, CalibrationWhole
<1>2. QED
  BY <1>1, StoreAlways, PTL

-----------------------------------------------------------------------------
(* What mission 2 reads of a flash that holds both colours is no garbage.  *)
LEMMA ReadWhatIsThere ==
  ASSUME TypeOK, KeptInv, NEW c \in Colors, kept[c]
  PROVE  TCS34725_get_calibrated_values(c, TRUE) # Garbage
<1>1. ASSUME NEW i \in Parts PROVE Store[<<c, Channels[i]>>] \in Means
  <2>1. <<c, Channels[i]>> \in Keys /\ flash[<<c, Channels[i]>>] # Absent
    BY KeysOfAColour DEF KeptInv
  <2>2. QED
    BY <2>1, StoreTypes, StoreByKey DEF Values
<1>2. "garbage" \notin Means /\ Absent \notin Means
  BY GroundAssumption DEF Means, Absent
<1>3. \A i \in Parts : Store[<<c, Channels[i]>>] # Absent /\ Store[<<c, Channels[i]>>] # "garbage"
  BY <1>1, <1>2
<1>4. TCS34725_get_calibrated_values(c, TRUE) =
        [i \in Parts |-> IF Store[<<c, Channels[i]>>] = Absent THEN "zero" ELSE Store[<<c, Channels[i]>>]]
  BY <1>3, KeysOfAColour DEF TCS34725_get_calibrated_values, Parts
<1>5. TCS34725_get_calibrated_values(c, TRUE)[1] # "garbage" /\ Garbage[1] = "garbage"
  <2>1. 1 \in Parts
    BY KeysOfAColour
  <2>2. TCS34725_get_calibrated_values(c, TRUE)[1] = Store[<<c, Channels[1]>>]
    BY <1>3, <1>4, <2>1
  <2>3. Garbage[1] = "garbage"
    BY <2>1 DEF Garbage, Parts
  <2>4. QED
    BY <1>3, <2>1, <2>2, <2>3
<1>6. QED
  BY <1>5

(* A mission started after both colours were once committed whole never    *)
(* compares with uninitialised memory, however often the device restarted  *)
(* and whatever calibrations failed since.                                 *)
THEOREM ValuesKnownHolds == Spec => []ValuesKnown
<1> DEFINE KnownInv == KeptInv /\ ValuesKnown
<1>1. Init => KnownInv
  BY DEF Init, KeptInv, ValuesKnown, NoMission
<1>2. KnownInv /\ TypesInv /\ [Next]_vars => KnownInv'
  <2> SUFFICES ASSUME KeptInv, ValuesKnown, TypesInv, [Next]_vars
               PROVE  KeptInv' /\ ValuesKnown'
    OBVIOUS
  <2>1. TypeOK /\ MoreTypes
    BY DEF TypesInv
  <2>2. CASE UNCHANGED <<flash, kept, m2>>
    BY <2>2 DEF KeptInv, ValuesKnown, Garbage
  <2>3. CASE Boot
    <3>1. UNCHANGED m2
      BY <2>3 DEF Boot
    <3>2. CASE kept' = [c \in Colors |-> FALSE]
      BY <3>1, <3>2 DEF KeptInv, ValuesKnown, Garbage
    <3>3. QED
      BY <2>2, <2>3, <3>1, <3>2 DEF Boot
  <2>4. CASE Restart
    <3>1. ~m2'.known /\ kept' = kept
      BY <2>4 DEF Restart, NoMission
    <3>2. PICK K \in SUBSET {k \in Keys : pending[k] # Absent} :
            flash' = [k \in Keys |-> IF k \in K THEN pending[k] ELSE flash[k]]
      BY <2>4 DEF Restart
    <3>3. QED
      BY <3>1, <3>2, KeysOfAColour DEF KeptInv, ValuesKnown
  <2>5. ASSUME NEW s \in Slots, Commit(s), ~UNCHANGED <<flash, kept>>
        PROVE  KeptInv' /\ ValuesKnown'
    <3>1. PICK c \in Colors : c = calib[s].color
      BY <2>1, <2>5, NextKeyType DEF Commit
    <3>2. flash' = Store /\ kept' = [kept EXCEPT ![c] = @ \/ Complete(c)] /\ UNCHANGED m2
      BY <2>5, <3>1 DEF Commit, Committed
    <3>3. ASSUME NEW b \in Colors, kept'[b], NEW i \in Parts PROVE flash'[<<b, Channels[i]>>] # Absent
      <4>1. kept[b] \/ (b = c /\ Complete(c))
        <5>1. kept \in [Colors -> BOOLEAN]
          BY <2>1 DEF TypeOK
        <5>2. b # c => kept'[b] = kept[b]
          BY <3>2, <5>1
        <5>3. kept'[c] => kept[c] \/ Complete(c)
          BY <3>2, <5>1
        <5>4. QED
          BY <3>3, <5>2, <5>3
      <4>2. flash'[<<b, Channels[i]>>] = Store[<<b, Channels[i]>>] /\ <<b, Channels[i]>> \in Keys
        BY <3>2, KeysOfAColour
      <4>3. CASE kept[b]
        BY <4>2, <4>3, StoreByKey DEF KeptInv
      <4>4. CASE b = c /\ Complete(c)
        BY <4>2, <4>4 DEF Complete, Parts
      <4>5. QED
        BY <4>1, <4>3, <4>4
    <3>4. QED
      BY <3>2, <3>3 DEF KeptInv, ValuesKnown, Garbage
  <2>6. CASE Mission2
    <3>1. UNCHANGED <<flash, kept>>
      BY <2>6 DEF Mission2, mission2_loop, mission2_stop, mission2_start
    <3>2. CASE mission2_stop
      BY <3>1, <3>2 DEF mission2_stop, NoMission, KeptInv, ValuesKnown
    <3>3. ASSUME NEW f \in Targets, mission2_start(f) PROVE ValuesKnown'
      <4>1. PICK opened \in BOOLEAN :
              m2' = [NoMission EXCEPT !.on = TRUE, !.color_floor = f,
                       !.cal = [c \in Colors |-> TCS34725_get_calibrated_values(c, opened)],
                       !.known = opened /\ \A c \in Colors : kept[c]]
        BY <3>3 DEF mission2_start
      <4>2. /\ m2'.cal = [c \in Colors |-> TCS34725_get_calibrated_values(c, opened)]
            /\ m2'.known => opened /\ \A c \in Colors : kept[c]
        BY <4>1 DEF NoMission
      <4>3. QED
        BY <2>1, <4>2, ReadWhatIsThere DEF ValuesKnown, Garbage
    <3>4. CASE mission2_loop
      <4>1. m2'.known = m2.known /\ m2'.cal = m2.cal
        BY <2>1, <3>4 DEF mission2_loop, MoreTypes, Missions
      <4>2. QED
        BY <3>1, <4>1 DEF KeptInv, ValuesKnown, Garbage
    <3>5. QED
      BY <2>6, <3>1, <3>2, <3>3, <3>4 DEF Mission2, KeptInv
  <2>7. Wifi \/ UNCHANGED vars \/ (\E f \in Floors : Move(f))
        \/ (\E s \in Slots : Sample(s) \/ SetKey(s) \/ \E c \in Colors : StartCalibration(s, c))
        => UNCHANGED <<flash, kept, m2>>
    BY DEF Wifi, vars, groundVars, Move, Sample, SetKey, StartCalibration
  <2>8. \A s \in Slots : Commit(s) => UNCHANGED m2
    BY DEF Commit
  <2>9. QED
    BY <2>2, <2>3, <2>4, <2>5, <2>6, <2>7, <2>8 DEF Next, Calibration
<1>3. QED
  BY <1>1, <1>2, TypesAlways, PTL DEF Spec

-----------------------------------------------------------------------------
(* A window all on one floor tells that floor, when the calibrations are   *)
(* those of the right floors.                                              *)
LEMMA OneFloorTold ==
  ASSUME NEW f \in Floors, NEW cal \in [Colors -> Calibrated], \A c \in Colors : cal[c] = Pure(c)
  PROVE  Grounds({f}, cal) \subseteq {Ground(f)}
<1>1. \A g, h : Pure(g) = Pure(h) => g = h
  <2>1. \A g : Pure(g)[1] = g
    BY KeysOfAColour DEF Pure, Parts
  <2>2. QED
    BY <2>1
<1>2. ASSUME NEW c \in Colors PROVE Within({f}, cal[c]) = {c = f}
  <2>1. c \in Floors
    <3>1. cal[c][1] = c /\ cal[c][1] \in Means \cup {"zero", "garbage"}
      BY KeysOfAColour DEF Pure, Calibrated, Parts
    <3>2. QED
      BY <3>1 DEF Means, Colors
  <2>2. cal[c] = Pure(c) /\ Mean({f}) = f
    BY MeanOfOne
  <2>3. Within({f}, cal[c]) = {cal[c] = Pure(f)}
    BY <2>1, <2>2 DEF Within
  <2>4. (cal[c] = Pure(f)) = (c = f)
    BY <1>1, <2>2
  <2>5. QED
    BY <2>3, <2>4
<1>3. \A c \in Colors : (TRUE \in Within({f}, cal[c]) <=> c = f) /\ (FALSE \in Within({f}, cal[c]) <=> c # f)
  BY <1>2
<1>4. f \in {"white", "black", "gray"}
  BY GroundAssumption
<1>5. /\ TRUE \in Within({f}, cal["white"]) => f = "white"
      /\ FALSE \in Within({f}, cal["white"]) => f # "white"
      /\ TRUE \in Within({f}, cal["black"]) => f = "black"
      /\ FALSE \in Within({f}, cal["black"]) => f # "black"
  BY <1>3 DEF Colors
<1>6. ASSUME NEW g \in Grounds({f}, cal) PROVE g = Ground(f)
  <2>1. CASE g = "WHITE"
    BY <1>5, <1>6, <2>1 DEF Grounds, Ground
  <2>2. CASE g = "BLACK"
    BY <1>5, <1>6, <2>2 DEF Grounds, Ground
  <2>3. CASE g = "GRAY"
    BY <1>4, <1>5, <1>6, <2>3 DEF Grounds, Ground
  <2>4. QED
    BY <1>6, <2>1, <2>2, <2>3 DEF Grounds
<1>7. QED
  BY <1>6

(* After the object has rested for two windows the mission knows its floor *)
(* and shows the right colour, whatever windows it had before.             *)
THEOREM GroundSettlesHolds == Spec => []GroundSettles
<1>1. Init => WindowInv
  BY DEF Init, WindowInv, NoMission
<1>2. WindowInv /\ TypesInv /\ TypesInv' /\ [Next]_vars => WindowInv'
  <2> SUFFICES ASSUME WindowInv, TypesInv, TypesInv', [Next]_vars
               PROVE  WindowInv'
    OBVIOUS
  <2>1. size \in Nat \ {0} /\ Settled = 2 * size - 1 /\ Settled \in Nat
    BY GroundAssumption DEF Settled
  <2>2. m2 \in Missions /\ m2.index \in 0..(size - 1) /\ rested \in 0..Settled /\ floor \in Floors
    BY DEF TypesInv, TypeOK, MoreTypes
  <2>3. CASE UNCHANGED <<m2, floor, led, rested>>
    BY <2>3 DEF WindowInv, CalibrationRight, Pure, Shown, Ground
  <2>4. CASE m2' = NoMission
    BY <2>4 DEF WindowInv, NoMission
  <2>5. ASSUME NEW f \in Floors, Move(f) PROVE WindowInv'
    <3>1. rested' = 0 /\ UNCHANGED <<m2, led>>
      BY <2>5 DEF Move
    <3>2. ~(rested' >= m2'.index /\ m2'.index > 0) /\ ~(rested' >= size + m2'.index)
      BY <2>1, <2>2, <3>1
    <3>3. QED
      BY <3>1, <3>2 DEF WindowInv, Shown
  <2>6. ASSUME NEW f \in Targets, mission2_start(f) PROVE WindowInv'
    <3>1. rested' = 0
      BY <2>6 DEF mission2_start
    <3>2. m2'.index = 0 /\ m2'.seen = {} /\ m2'.previous = "UNKNOWN" /\ m2'.ground = "UNKNOWN"
      BY <2>6 DEF mission2_start, NoMission
    <3>3. ~(rested' >= size + m2'.index)
      BY <2>1, <3>1, <3>2
    <3>4. QED
      BY <3>2, <3>3 DEF WindowInv
  <2>7. CASE mission2_loop
    <3>1. m2.on /\ UNCHANGED floor
      BY <2>7 DEF mission2_loop
    <3>2. PICK r \in Readings :
            /\ rested' = IF r = "bad" THEN 0 ELSE IF rested < Settled THEN rested + 1 ELSE rested
            /\ \/ /\ m2.index + 1 < size
                  /\ m2' = [m2 EXCEPT !.index = @ + 1, !.seen = m2.seen \cup {r}]
                  /\ UNCHANGED led
               \/ /\ m2.index + 1 = size
                  /\ \E g \in Grounds(m2.seen \cup {r}, m2.cal) :
                       /\ m2' = [m2 EXCEPT !.index = 0, !.seen = {}, !.ground = g, !.previous = g]
                       /\ led' = IF g # m2.previous THEN Shown(g, m2.color_floor) ELSE led
      BY <2>7 DEF mission2_loop, NextWindow, NewPrevious
    <3>3. /\ r = floor \/ r = "bad"
          /\ r = "bad" => rested' = 0
          /\ rested' = 0 \/ rested' = rested \/ rested' = rested + 1
          /\ rested' = rested => rested = Settled \/ rested' = 0
      <4>1. rested' = IF r = "bad" THEN 0 ELSE IF rested < Settled THEN rested + 1 ELSE rested
        BY <3>2
      <4>2. r = floor \/ r = "bad"
        BY DEF Readings
      <4>3. rested <= Settled
        BY <2>1, <2>2
      <4>4. QED
        BY <2>1, <2>2, <4>1, <4>2, <4>3
    <3>4. rested' > m2.index => rested >= m2.index /\ r = floor
      BY <2>1, <2>2, <3>3
    <3>5. rested' > m2.index => m2.seen \cup {r} = {floor}
      BY <2>2, <3>1, <3>4 DEF WindowInv
    <3>6. CASE /\ m2.index + 1 < size
               /\ m2' = [m2 EXCEPT !.index = @ + 1, !.seen = m2.seen \cup {r}]
               /\ UNCHANGED led
      <4>1. /\ m2'.index = m2.index + 1 /\ m2'.seen = m2.seen \cup {r}
            /\ m2'.on = m2.on /\ m2'.previous = m2.previous /\ m2'.ground = m2.ground
            /\ m2'.color_floor = m2.color_floor /\ m2'.cal = m2.cal
        BY <2>2, <3>6 DEF Missions
      <4>2. rested' >= m2'.index => m2'.seen = {floor}
        BY <2>1, <2>2, <3>3, <3>5, <4>1
      <4>3. rested' >= size + m2'.index => rested >= size + m2.index
        BY <2>1, <2>2, <3>3, <4>1
      <4>4. m2'.index # 0
        BY <2>2, <4>1
      <4>5. QED
        BY <3>1, <3>6, <4>1, <4>2, <4>3, <4>4 DEF WindowInv, CalibrationRight, Pure, Shown, Ground
    <3>7. ASSUME NEW g \in Grounds(m2.seen \cup {r}, m2.cal),
                 m2.index + 1 = size,
                 m2' = [m2 EXCEPT !.index = 0, !.seen = {}, !.ground = g, !.previous = g],
                 led' = IF g # m2.previous THEN Shown(g, m2.color_floor) ELSE led
          PROVE  WindowInv'
      <4>1. /\ m2'.index = 0 /\ m2'.seen = {} /\ m2'.ground = g /\ m2'.previous = g /\ m2'.on = m2.on
            /\ m2'.color_floor = m2.color_floor /\ m2'.cal = m2.cal
        BY <2>2, <3>7 DEF Missions
      <4>2. g # "UNKNOWN"
        BY DEF Grounds
      <4>3. led' = Shown(g, m2.color_floor)
        BY <3>1, <3>7, <4>2 DEF WindowInv
      <4>4. ASSUME rested' >= size, CalibrationRight PROVE g = Ground(floor)
        <5>1. m2.seen \cup {r} = {floor}
          BY <2>1, <2>2, <3>3, <3>5, <3>7, <4>4
        <5>2. m2.cal \in [Colors -> Calibrated]
          BY <3>1 DEF TypesInv, MoreTypes
        <5>3. \A cal \in [Colors -> Calibrated] : \A f \in Floors :
                (\A c \in Colors : cal[c] = Pure(c)) => Grounds({f}, cal) \subseteq {Ground(f)}
          BY OneFloorTold
        <5>4. Grounds({floor}, m2.cal) \subseteq {Ground(floor)}
          BY <2>2, <4>4, <5>2, <5>3 DEF CalibrationRight
        <5>5. QED
          BY <5>1, <5>4
      <4>5. rested' >= size + m2'.index => rested' >= size
        BY <2>1, <2>2, <3>3, <4>1
      <4>6. CalibrationRight' => CalibrationRight
        BY <4>1 DEF CalibrationRight, Pure
      <4>7. floor' = floor
        BY <3>1
      <4>8. m2'.on /\ rested' >= size + m2'.index /\ CalibrationRight' => m2'.ground = Ground(floor')
        BY <4>1, <4>4, <4>5, <4>6, <4>7
      <4>9. led' = Shown(m2'.ground, m2'.color_floor)
        BY <4>1, <4>3
      <4>10. ~(m2'.index > 0)
        BY <4>1
      <4>11. QED
        BY <4>1, <4>8, <4>9, <4>10 DEF WindowInv, Shown, Ground
    <3>8. QED
      BY <3>2, <3>6, <3>7
  <2>8. Boot \/ Wifi \/ UNCHANGED vars \/ (\E s \in Slots : Calibration(s)) => UNCHANGED <<m2, floor, led, rested>>
    BY DEF Boot, Wifi, vars, groundVars, Calibration, Sample, SetKey, Commit, StartCalibration
  <2>9. Restart \/ mission2_stop => m2' = NoMission
    BY DEF Restart, mission2_stop
  <2>10. QED
    BY <2>3, <2>4, <2>5, <2>6, <2>7, <2>8, <2>9 DEF Next, Mission2
<1>3. WindowInv /\ TypesInv => GroundSettles
  <2> SUFFICES ASSUME WindowInv, TypesInv, m2.on, rested = Settled, CalibrationRight
               PROVE  m2.ground = Ground(floor) /\ led = Shown(m2.ground, m2.color_floor)
    BY DEF GroundSettles, CalibrationRight
  <2>1. m2.index \in 0..(size - 1) /\ floor \in {"white", "black", "gray"}
    BY GroundAssumption DEF TypesInv, TypeOK
  <2>2. rested >= size + m2.index
    BY <2>1, GroundAssumption DEF Settled
  <2>3. m2.ground = Ground(floor)
    BY <2>2 DEF WindowInv
  <2>4. Ground(floor) # "UNKNOWN"
    BY <2>1 DEF Ground
  <2>5. QED
    BY <2>3, <2>4 DEF WindowInv
<1>4. QED
  BY <1>1, <1>2, <1>3, TypesAlways, PTL DEF Spec
=============================================================================
