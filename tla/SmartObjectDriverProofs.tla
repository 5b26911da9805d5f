---------------------- MODULE SmartObjectDriverProofs ----------------------
(***************************************************************************)
(* The firmware, for every set of handles and every set of client          *)
(* messages: type correctness, the exclusion of two missions, the colours  *)
(* of successive displays, and what a stop leaves behind.                  *)
(*                                                                         *)
(* A display is a list of transfers of which a prefix has been done; the   *)
(* argument is about the rest: it darkens what is lit before it lights     *)
(* anything, and only one list can hold writes at a time.                  *)
(***************************************************************************)
EXTENDS SmartObjectDriver, FiniteSetTheorems, TLAPS

(* The lists of transfers are sequences of transfers, and stay so when one *)
(* is done.                                                                *)
LEMMA DisplaysAreTransfers ==
  /\ <<>> \in Seq(Ops)
  /\ <<Read>> \in Seq(Ops)
  /\ display_none \in Seq(Ops)
  /\ \A c \in Color : display_color_behavior(c) \in Seq(Ops)
  /\ \A c \in Color : <<Read>> \o display_color_behavior(c) \in Seq(Ops)
<1> USE DEF Ops, Color
<1>1. <<Read>> \in Seq(Ops)
  BY DEF Read
<1>2. display_none \in Seq(Ops)
  <2>1. \A c \in Color : Off(c) \in Ops
    BY DEF Off
  <2>2. QED
    BY <2>1 DEF display_none
<1>3. ASSUME NEW c \in Color
      PROVE  display_color_behavior(c) \in Seq(Ops)
  <2>1. On(c) \in Ops
    BY DEF On
  <2>2. QED
    BY <1>2, <2>1 DEF display_color_behavior
<1>4. QED
  BY <1>1, <1>2, <1>3

LEMMA TestIsTransfers ==
  ASSUME NEW head \in Digits, NEW lit \in BOOLEAN
  PROVE  test(head, lit) \in Seq(Ops)
<1>1. (IF head \in {2, 3} THEN head - 1 ELSE 0) \in Color
  BY DEF Digits, Color
<1>2. QED
  BY <1>1, DisplaysAreTransfers DEF test

(* The constants the variables start from have the types of the variables. *)
LEMMA StartingValues ==
  NoClient \in Message /\ NoCommand \in Commands /\ NoTask \in Tasks
BY DEF NoClient, NoCommand, NoTask, Message, Commands, Tasks, Kinds, Digits

(* So have the tasks the server creates. *)
LEMMA NewTasks ==
  /\ \A k \in Kinds : Fresh(k) \in Tasks
  /\ \A n \in Digits : KindOf(n) \in Kinds
BY DEF Fresh, KindOf, Tasks, Kinds

LEMMA RebootTypeOK == TypeOK /\ Reboot => TypeOK'
<1> SUFFICES ASSUME TypeOK, Reboot
             PROVE  TypeOK'
  OBVIOUS
<1>1. /\ conn' \in Message
      /\ cmd' \in Commands
      /\ task' \in [Handles -> Tasks]
  BY StartingValues DEF Reboot
<1>2. todo' \in [Users -> Seq(Ops)]
  BY DisplaysAreTransfers DEF Reboot
<1>3. led' \in [Color -> BOOLEAN] /\ lost' \subseteq Color /\ disturbed' \in BOOLEAN
  BY DEF Reboot, TypeOK, ledVars
<1>4. /\ main' \in {"start", "init", "done"}
      /\ installed' \in BOOLEAN
      /\ server' \in {"off", "listen", "accept", "id", "action", "config", "clear",
                 "write", "create", "close"}
  BY DEF Reboot
<1>5. sent' \in 0..3 /\ closed' \in BOOLEAN
  BY DEF Reboot
<1>6. xHandle' \in Handles \cup {NULL} /\ current_mission' \in Digits
  BY DEF Reboot, Digits
<1>7. argsColor' \in Digits /\ bus' \in Users \cup {"free", "orphan"}
  BY DEF Reboot, Digits
<1>8. QED
  BY <1>1, <1>2, <1>3, <1>4, <1>5, <1>6, <1>7 DEF TypeOK

(* A transfer that reaches the driver chip leaves the channels channels.   *)
LEMMA EffectTypeOK ==
  ASSUME TypeOK, NEW t, TakesEffect(t)
  PROVE  led' \in [Color -> BOOLEAN] /\ lost' \subseteq Color
<1>1. led \in [Color -> BOOLEAN] /\ lost \subseteq Color
  BY DEF TypeOK
<1>2. CASE t.op = "read"
  BY <1>1, <1>2 DEF TakesEffect
<1>3. CASE t.op # "read"
  <2>1. led' = [led EXCEPT ![t.ch] = (t.op = "on")] /\ lost' = lost \ {t.ch}
    BY <1>3 DEF TakesEffect
  <2>2. (t.op = "on") \in BOOLEAN
    OBVIOUS
  <2>3. QED
    BY <1>1, <2>1, <2>2
<1>4. QED
  BY <1>2, <1>3

LEMMA TypeOKInductive == TypeOK /\ [Next]_vars => TypeOK'
<1> SUFFICES ASSUME TypeOK, [Next]_vars
             PROVE  TypeOK'
  OBVIOUS
<1> USE DEF connVars, globals, ledVars
<1>1. ASSUME NEW u \in Users, BeginTransfer(u)
      PROVE  TypeOK'
  BY <1>1 DEF TypeOK, BeginTransfer
<1>2. ASSUME NEW u \in Users, EndTransfer(u)
      PROVE  TypeOK'
  <2>1. /\ Head(todo[u]) \in Ops
        /\ Tail(todo[u]) \in Seq(Ops)
    BY <1>2 DEF TypeOK, EndTransfer
  <2>2. led' \in [Color -> BOOLEAN] /\ lost' \subseteq Color
    BY <1>2, EffectTypeOK DEF EndTransfer
  <2>3. todo' \in [Users -> Seq(Ops)]
    BY <1>2, <2>1 DEF TypeOK, EndTransfer
  <2>4. QED
    BY <1>2, <2>2, <2>3 DEF TypeOK, EndTransfer
<1>3. ASSUME NEW u \in Users, FailTransfer(u)
      PROVE  TypeOK'
  <2>1. Tail(todo[u]) \in Seq(Ops)
    BY <1>3 DEF TypeOK, FailTransfer
  <2>2. todo' \in [Users -> Seq(Ops)]
    BY <1>3, <2>1 DEF TypeOK, FailTransfer
  <2>3. lost' \subseteq Color
    <3>1. Head(todo[u]) \in Ops
      BY <1>3 DEF TypeOK, FailTransfer
    <3>2. QED
      BY <1>3, <3>1 DEF TypeOK, FailTransfer, Ops
  <2>4. bus' \in Users \cup {"free", "orphan"}
    BY <1>3 DEF TypeOK, FailTransfer
  <2>5. UNCHANGED <<main, installed, server, connVars, cmd, globals, task, led, disturbed>>
    BY <1>3 DEF FailTransfer
  <2>6. QED
    BY <2>2, <2>3, <2>4, <2>5 DEF TypeOK
<1>4. CASE StartServer
  BY <1>4 DEF TypeOK, StartServer
<1>5. CASE smart_object_init
  BY <1>5, RebootTypeOK DEF TypeOK, smart_object_init
<1>6. CASE Listen
  BY <1>6, RebootTypeOK DEF TypeOK, Listen
<1>7. CASE Accept
  <2>1. conn' \in Message /\ closed' \in BOOLEAN /\ sent' = 0 /\ server' = "id"
    BY <1>7, MessagesAssumption, StartingValues DEF Accept
  <2>2. UNCHANGED <<main, installed, cmd, globals, task, todo, bus, ledVars>>
    BY <1>7 DEF Accept
  <2>3. QED
    BY <2>1, <2>2 DEF TypeOK
<1>8. CASE get_id
  BY <1>8 DEF TypeOK, get_id
<1>9. CASE get_action
  <2> USE DEF START, STOP, RESTART, TEST, MISSION_CONFIG, CALIBRATION_CONFIG
  <2>1. \A num \in Received(2, conn.action) : num \in Digits
    BY DEF TypeOK, Received, Message
  <2>2. CASE Reboot
    BY <2>2, RebootTypeOK
  <2>3. CASE ~Reboot
    <3>1. /\ server' \in {"close", "config"}
          /\ installed' \in BOOLEAN
          /\ cmd' \in Commands
      BY <1>9, <2>1, <2>3 DEF TypeOK, get_action, Commands
    <3>2. UNCHANGED <<main, connVars, globals, task, todo, bus, ledVars>>
      BY <1>9, <2>3 DEF get_action
    <3>3. QED
      BY <3>1, <3>2 DEF TypeOK
  <2>4. QED
    BY <2>2, <2>3
<1>10. CASE do_config
  <2> DEFINE head == IF sent = 3 THEN conn.head ELSE 0
             arg  == IF sent = 3 THEN conn.arg  ELSE 0
  <2>1. head \in Digits /\ arg \in Digits
    BY DEF TypeOK, Message, Digits
  <2>2. cmd' \in Commands
    BY <1>10, <2>1 DEF TypeOK, do_config, Commands
  <2>3. todo' \in [Users -> Seq(Ops)]
    <3>1. /\ test(head, arg # 0) \in Seq(Ops)
          /\ (IF head = 3 THEN <<Read>> ELSE <<>>) \in Seq(Ops)
      BY <2>1, TestIsTransfers, DisplaysAreTransfers
    <3>2. \/ todo' = [todo EXCEPT !["server"] = test(head, arg # 0)]
          \/ todo' = todo
          \/ todo' = [todo EXCEPT !["server"] = IF head = 3 THEN <<Read>> ELSE <<>>]
      BY <1>10 DEF do_config
    <3>3. QED
      BY <3>1, <3>2 DEF TypeOK
  <2>4. /\ argsColor' \in Digits
        /\ disturbed' \in BOOLEAN
        /\ server' \in {"write", "clear", "create", "close"}
    BY <1>10, <2>1 DEF TypeOK, do_config, MissionAlive
  <2>5. UNCHANGED <<main, installed, connVars, xHandle, current_mission, task, bus, led, lost>>
    BY <1>10 DEF do_config
  <2>6. QED
    BY <2>2, <2>3, <2>4, <2>5 DEF TypeOK
<1>22. CASE get_config
  BY <1>22, <1>10, RebootTypeOK DEF get_config
<1>11. CASE clear_task_handle
  <2> DEFINE stop == IF MissionToStop \in Missions THEN display_none ELSE <<>>
  <2>1. CASE Reboot
    BY <2>1, RebootTypeOK
  <2>2. CASE ~Reboot
    <3>1. /\ server' = "write"
          /\ UNCHANGED <<main, installed, connVars, cmd, globals, disturbed>>
          /\ UNCHANGED <<led, lost>> \/ TakesEffect(Head(todo[xHandle]))
      BY <1>11, <2>2 DEF clear_task_handle
    <3>7. led' \in [Color -> BOOLEAN] /\ lost' \subseteq Color
      BY <3>1, EffectTypeOK DEF TypeOK
    <3>2. stop \in Seq(Ops) /\ <<>> \in Seq(Ops)
      BY DisplaysAreTransfers
    <3>3. todo' \in [Users -> Seq(Ops)]
      BY <1>11, <2>2, <3>2 DEF clear_task_handle, TypeOK
    <3>4. task' \in [Handles -> Tasks]
      BY <1>11, <2>2, StartingValues DEF clear_task_handle, TypeOK
    <3>5. bus' \in Users \cup {"free", "orphan"}
      BY <1>11, <2>2 DEF clear_task_handle, TypeOK
    <3>6. QED
      BY <3>1, <3>3, <3>4, <3>5, <3>7 DEF TypeOK
  <2>3. QED
    BY <2>1, <2>2
<1>12. CASE Written
  BY <1>12 DEF TypeOK, Written
<1>13. CASE CreateMission
  <2>1. KindOf(cmd.head) \in Kinds
    BY NewTasks DEF TypeOK, Commands
  <2>2. task' \in [Handles -> Tasks] /\ xHandle' \in Handles \cup {NULL}
    BY <1>13, <2>1, NewTasks DEF TypeOK, CreateMission, xTaskCreate, StoreHandle
  <2>3. cmd.head \in Digits
    BY DEF TypeOK, Commands
  <2>4. /\ current_mission' \in Digits
        /\ server' = "close"
        /\ disturbed' \in BOOLEAN
        /\ UNCHANGED <<main, installed, connVars, cmd, argsColor, todo, bus, led, lost>>
    BY <1>13, <2>3 DEF CreateMission, TypeOK
  <2>5. QED
    BY <2>2, <2>4 DEF TypeOK
<1>14. CASE CreateCalibration
  <2>1. (IF cmd.head = 1 THEN "white" ELSE "black") \in Kinds
    BY DEF Kinds
  <2>2. task' \in [Handles -> Tasks]
    BY <1>14, <2>1, NewTasks DEF TypeOK, CreateCalibration, xTaskCreate
  <2>3. /\ server' = "close"
        /\ UNCHANGED <<main, installed, connVars, cmd, globals, todo, bus, ledVars>>
    BY <1>14 DEF CreateCalibration
  <2>4. QED
    BY <2>2, <2>3 DEF TypeOK
<1>15. CASE Close
  BY <1>15, StartingValues DEF TypeOK, Close
<1>16. CASE Client
  <2>1. sent' \in 0..3 /\ closed' \in BOOLEAN
    <3>1. conn.len \in 0..3 /\ sent \in 0..3 /\ closed \in BOOLEAN
      BY DEF TypeOK, Message
    <3>2. CASE ClientSends
      BY <3>1, <3>2 DEF ClientSends
    <3>3. CASE ClientCloses
      BY <3>1, <3>3 DEF ClientCloses
    <3>4. QED
      BY <1>16, <3>2, <3>3 DEF Client
  <2>2. UNCHANGED <<main, installed, server, conn, cmd, globals, task, todo, bus, ledVars>>
    BY <1>16 DEF Client, ClientSends, ClientCloses
  <2>3. QED
    BY <2>1, <2>2 DEF TypeOK
<1>17. ASSUME NEW h \in Handles, TaskStart(h)
       PROVE  TypeOK'
  <2>1. \A c \in StartColors(h) : c \in Color
    BY DEF StartColors, Color, TypeOK, Digits
  <2>2. todo' \in [Users -> Seq(Ops)]
    <3>1. 2 \in Color
      BY DEF Color
    <3>2. QED
      BY <1>17, <2>1, <3>1, DisplaysAreTransfers DEF TypeOK, TaskStart
  <2>3. task' \in [Handles -> Tasks]
    BY <1>17 DEF TypeOK, TaskStart, Tasks
  <2>4. UNCHANGED <<main, installed, server, connVars, cmd, globals, bus, ledVars>>
    BY <1>17 DEF TaskStart
  <2>5. QED
    BY <2>2, <2>3, <2>4 DEF TypeOK
<1>18. ASSUME NEW h \in Handles, TaskLoop(h)
       PROVE  TypeOK'
  <2>1. LoopColors(task[h].kind) \subseteq Color
    BY DEF LoopColors, Color
  <2>2. todo' \in [Users -> Seq(Ops)]
    BY <1>18, <2>1, DisplaysAreTransfers, ZenonT(60) DEF TypeOK, TaskLoop
  <2>3. UNCHANGED <<main, installed, server, connVars, cmd, globals, task, bus, ledVars>>
    BY <1>18 DEF TaskLoop
  <2>4. QED
    BY <2>2, <2>3 DEF TypeOK
<1>19. ASSUME NEW h \in Handles, CalibrationEnds(h)
       PROVE  TypeOK'
  BY <1>19, StartingValues DEF TypeOK, CalibrationEnds
<1>20. CASE UNCHANGED vars
  BY <1>20 DEF TypeOK, vars
<1>21. QED
  BY <1>1, <1>2, <1>3, <1>4, <1>5, <1>6, <1>7, <1>8, <1>9, <1>11, <1>12, <1>13, <1>14,
     <1>15, <1>16, <1>17, <1>18, <1>19, <1>20, <1>22 DEF Next, Server, Bus, Task

LEMMA InitTypeOK == Init => TypeOK
<1> SUFFICES ASSUME Init
             PROVE  TypeOK
  OBVIOUS
<1>1. /\ conn \in Message /\ cmd \in Commands
      /\ task \in [Handles -> Tasks]
      /\ todo \in [Users -> Seq(Ops)]
  BY StartingValues, DisplaysAreTransfers DEF Init
<1>2. /\ sent \in 0..3
      /\ argsColor \in Digits /\ current_mission \in Digits
  BY DEF Init, Digits
<1>3. QED
  BY <1>1, <1>2 DEF Init, TypeOK

(* Every variable of the firmware keeps its type: in particular no list of *)
(* transfers addresses a LED channel that does not exist, whatever the     *)
(* bytes a client sends or fails to send.                                  *)
THEOREM TypeCorrect == Spec => []TypeOK
BY InitTypeOK, TypeOKInductive, PTL DEF Spec

-----------------------------------------------------------------------------
(* The inductive invariant: the two parts hold each other up.  Clearing    *)
(* the handle removes every mission because OneMission says it names the   *)
(* only one; creating one keeps OneMission because there was none.         *)
MissionInv == TypeOK /\ OneMission /\ NoMissionBeforeCreation

(* A step that creates no task of a mission and leaves the handle alone.   *)
LEMMA NoNewMission ==
  ASSUME OneMission, UNCHANGED xHandle,
         \A h \in Handles : task'[h].kind \in MissionKinds => task[h].kind \in MissionKinds
  PROVE  OneMission' /\ (~MissionAlive => ~MissionAlive')
BY DEF OneMission, MissionAlive

LEMMA MissionInvInductive == MissionInv /\ [Next]_vars => MissionInv'
<1> SUFFICES ASSUME MissionInv, [Next]_vars
             PROVE  OneMission' /\ NoMissionBeforeCreation'
  BY TypeOKInductive DEF MissionInv
<1> USE DEF connVars, globals, ledVars
<1>1. CASE Reboot
  <2>1. \A h \in Handles : task'[h].kind \notin MissionKinds
    BY <1>1 DEF Reboot, NoTask, MissionKinds
  <2>2. QED
    BY <1>1, <2>1 DEF Reboot, OneMission, NoMissionBeforeCreation
<1>2. CASE UNCHANGED <<task, xHandle>> /\ (server' \in {"write", "create"} =>
             cmd'.action # MISSION_CONFIG \/ (server \in {"write", "create"} /\ cmd' = cmd))
  BY <1>2 DEF MissionInv, OneMission, NoMissionBeforeCreation, MissionAlive
<1>3. CASE get_action
  <2>1. \/ Reboot
        \/ UNCHANGED <<task, xHandle>> /\ server' \in {"close", "config"}
    BY <1>3 DEF get_action
  <2>2. QED
    BY <1>1, <1>2, <2>1
<1>4. CASE do_config
  <2>1. UNCHANGED <<task, xHandle>> /\ cmd'.action = cmd.action
    BY <1>4 DEF do_config, MissionInv, TypeOK, Commands
  <2>2. server' \in {"write", "create"} => cmd.action # MISSION_CONFIG
    BY <1>4 DEF do_config, TEST, MISSION_CONFIG, CALIBRATION_CONFIG
  <2>3. QED
    BY <1>2, <2>1, <2>2
<1>5. CASE clear_task_handle /\ ~Reboot
  <2>1. UNCHANGED xHandle
    BY <1>5 DEF clear_task_handle
  <2>2. ASSUME NEW h \in Handles
        PROVE  task'[h].kind \notin MissionKinds
    <3>1. CASE Exists(xHandle)
      <4>1. task' = [task EXCEPT ![xHandle] = NoTask]
        BY <1>5, <3>1 DEF clear_task_handle
      <4>2. QED
        BY <3>1, <4>1 DEF MissionInv, OneMission, TypeOK, NoTask, MissionKinds
    <3>2. CASE ~Exists(xHandle)
      <4>1. task' = task
        BY <1>5, <3>2 DEF clear_task_handle
      <4>2. QED
        BY <3>2, <4>1, HandlesAssumption DEF MissionInv, OneMission, Exists, MissionKinds
    <3>3. QED
      BY <3>1, <3>2
  <2>3. QED
    BY <2>1, <2>2 DEF OneMission, NoMissionBeforeCreation, MissionAlive
<1>6. CASE CreateMission
  <2>1. ~MissionAlive /\ server' = "close"
    BY <1>6 DEF CreateMission, MissionInv, NoMissionBeforeCreation
  <2>2. CASE UNCHANGED <<task, xHandle>>
    BY <2>1, <2>2, <1>2
  <2>3. CASE \E h \in Handles : xTaskCreate(KindOf(cmd.head), h) /\ StoreHandle(h)
    <3>1. PICK h \in Handles : xTaskCreate(KindOf(cmd.head), h) /\ StoreHandle(h)
      BY <2>3
    <3>2. \A g \in Handles : g # h => task'[g] = task[g]
      BY <3>1 DEF xTaskCreate, MissionInv, TypeOK
    <3>3. OneMission'
      BY <2>1, <3>1, <3>2 DEF OneMission, StoreHandle, MissionAlive
    <3>4. QED
      BY <2>1, <3>3 DEF NoMissionBeforeCreation
  <2>4. QED
    BY <1>6, <2>2, <2>3 DEF CreateMission
<1>7. CASE CreateCalibration
  <2>1. server' = "close" /\ UNCHANGED xHandle
    BY <1>7 DEF CreateCalibration
  <2>2. \A h \in Handles : task'[h].kind \in MissionKinds => task[h].kind \in MissionKinds
    BY <1>7 DEF CreateCalibration, xTaskCreate, Fresh, MissionInv, TypeOK, MissionKinds
  <2>3. QED
    BY <2>1, <2>2, NoNewMission DEF MissionInv, NoMissionBeforeCreation
<1>8. ASSUME NEW h \in Handles, TaskStart(h) \/ CalibrationEnds(h)
      PROVE  OneMission' /\ NoMissionBeforeCreation'
  <2>1. UNCHANGED <<xHandle, server, cmd>>
    BY <1>8 DEF TaskStart, CalibrationEnds
  <2>2. CASE TaskStart(h)
    <3>1. \A g \in Handles : task'[g].kind = task[g].kind
      BY <2>2 DEF TaskStart, MissionInv, TypeOK, Tasks
    <3>2. QED
      BY <2>1, <3>1, NoNewMission DEF MissionInv, NoMissionBeforeCreation
  <2>3. CASE CalibrationEnds(h)
    <3>1. \A g \in Handles : task'[g].kind \in MissionKinds => task[g].kind \in MissionKinds
      BY <2>3 DEF CalibrationEnds, MissionInv, TypeOK, NoTask, MissionKinds
    <3>2. QED
      BY <2>1, <3>1, NoNewMission DEF MissionInv, NoMissionBeforeCreation
  <2>4. QED
    BY <1>8, <2>2, <2>3
<1>9. ASSUME \/ StartServer \/ Accept \/ get_id \/ Written \/ Close \/ Client
             \/ \E u \in Users : Bus(u)
             \/ \E h \in Handles : TaskLoop(h)
             \/ UNCHANGED vars
      PROVE  OneMission' /\ NoMissionBeforeCreation'
  <2>1. UNCHANGED <<task, xHandle>>
    BY <1>9 DEF StartServer, Accept, get_id, Written, Close, Client, ClientSends, ClientCloses,
                Bus, BeginTransfer, EndTransfer, FailTransfer, TaskLoop, vars
  <2>2. server' \in {"write", "create"} => server \in {"write", "create"} /\ cmd' = cmd
    BY <1>9 DEF StartServer, Accept, get_id, Written, Close, Client, ClientSends, ClientCloses,
                Bus, BeginTransfer, EndTransfer, FailTransfer, TaskLoop, vars
  <2>3. QED
    BY <1>2, <2>1, <2>2
<1>10. CASE smart_object_init \/ Listen
  <2>1. \/ Reboot
        \/ UNCHANGED <<task, xHandle, cmd>> /\ (server' = "accept" \/ server' = server)
    BY <1>10 DEF smart_object_init, Listen
  <2>2. QED
    BY <1>1, <1>2, <2>1
<1>12. CASE get_config
  BY <1>12, <1>1, <1>4 DEF get_config
<1>11. QED
  BY <1>1, <1>3, <1>5, <1>6, <1>7, <1>8, <1>9, <1>10, <1>12 DEF Next, Server, Task

(* Two missions never share the device: for every set of task addresses    *)
(* and every client, the mission that runs is the one xHandle names, so    *)
(* the next command of clear_task_handle finds and deletes it.             *)
THEOREM OneMissionHolds == Spec => []OneMission
<1>1. Init => OneMission /\ NoMissionBeforeCreation
  BY DEF Init, OneMission, NoMissionBeforeCreation, NoTask, MissionKinds
<1>2. Init => TypeOK
  BY InitTypeOK
<1>3. Spec => []MissionInv
  BY <1>1, <1>2, MissionInvInductive, PTL DEF Spec, MissionInv
<1>4. QED
  BY <1>3, PTL DEF MissionInv

-----------------------------------------------------------------------------
(* What the display depends on: the transfers each user of the bus still   *)
(* has to do, next to the channels that are lit.  A list is prepared when  *)
(* it ends with the only write that lights a colour and every colour is    *)
(* dark by then, or will have been made so by the list.                    *)
OnlyReads(s) == \A i \in 1..Len(s) : s[i].op = "read"
Darkens(s, c, n) == \E j \in 1..n : s[j] = Off(c)
Prepared(s, lit) ==
  \A i \in 1..Len(s) : s[i].op = "on" =>
    i = Len(s) /\ \A c \in Color : ~lit[c] \/ Darkens(s, c, i - 1)
AtMostOne(lit) == \A c, d \in Color : lit[c] /\ lit[d] => c = d
After(s, lit) == IF Head(s).op = "read" THEN lit
                 ELSE [lit EXCEPT ![Head(s).ch] = (Head(s).op = "on")]

(* A colour counts as lit when it is and was meant to be, its last         *)
(* darkening write not being one that failed: a write that darkens takes   *)
(* it away from this set whether the bus takes the write or not.           *)
Meant == [c \in Color |-> led[c] /\ c \notin lost]

(* Only the mission and the server ever write, and the server only when    *)
(* there is no mission; each has a prepared list.                          *)
ReadersOnly == \A h \in Handles : task[h].kind \notin MissionKinds => OnlyReads(todo[h])
ServerWaits == server # "write" => todo["server"] = <<>>
ServerAlone == ~disturbed /\ MissionAlive => OnlyReads(todo["server"])
OneLit      == ~disturbed => AtMostOne(Meant)
AllPrepared == ~disturbed => \A u \in Users : Prepared(todo[u], Meant)

Started      == main = "start" => server = "off"
DisplayParts == ReadersOnly /\ ServerWaits /\ ServerAlone /\ OneLit /\ AllPrepared
DisplayInv   == MissionInv /\ DisplayParts /\ Started

(* A list of reads stays one when a transfer is done, and is prepared.     *)
LEMMA ReadsStay ==
  ASSUME NEW s \in Seq(Ops), OnlyReads(s)
  PROVE  /\ s # <<>> => OnlyReads(Tail(s))
         /\ \A lit : Prepared(s, lit)
BY DEF OnlyReads, Prepared

(* A transfer of a prepared list leaves the rest of the list prepared.     *)
LEMMA PreparedTail ==
  ASSUME NEW s \in Seq(Ops), s # <<>>, NEW lit \in [Color -> BOOLEAN], Prepared(s, lit)
  PROVE  Prepared(Tail(s), After(s, lit))
<1> DEFINE t == Tail(s)
<1>1. t \in Seq(Ops) /\ Len(t) = Len(s) - 1 /\ Len(s) \in Nat /\ \A i \in 1..Len(t) : t[i] = s[i + 1]
  OBVIOUS
<1>2. SUFFICES ASSUME NEW i \in 1..Len(t), t[i].op = "on"
               PROVE  i = Len(t) /\ \A c \in Color : ~After(s, lit)[c] \/ Darkens(t, c, i - 1)
  BY DEF Prepared
<1>3. i + 1 \in 1..Len(s) /\ s[i + 1].op = "on"
  BY <1>1, <1>2
<1>4. i + 1 = Len(s) /\ \A c \in Color : ~lit[c] \/ Darkens(s, c, i)
  <2>1. (i + 1) - 1 = i
    OBVIOUS
  <2>2. i + 1 = Len(s) /\ \A c \in Color : ~lit[c] \/ Darkens(s, c, (i + 1) - 1)
    BY <1>3 DEF Prepared
  <2>3. QED
    BY <2>1, <2>2
<1>5. Head(s) = s[1] /\ Head(s).ch \in Color /\ Len(s) > 1
  <2>1. Head(s) = s[1] /\ Head(s) \in Ops
    OBVIOUS
  <2>2. Len(s) > 1
    BY <1>1, <1>3
  <2>3. QED
    BY <2>1, <2>2 DEF Ops
<1>6. Head(s).op # "on"
  BY <1>5 DEF Prepared
<1>7. ASSUME NEW c \in Color, After(s, lit)[c]
      PROVE  Darkens(t, c, i - 1)
  <2>1. lit[c]
    BY <1>5, <1>6, <1>7 DEF After
  <2>2. PICK j \in 1..i : s[j] = Off(c)
    BY <1>4, <2>1 DEF Darkens
  <2>3. j # 1
    <3>1. SUFFICES ASSUME Head(s) = Off(c) PROVE FALSE
      BY <1>5, <2>2
    <3>2. ~After(s, lit)[c]
      <4>1. Head(s).op = "off" /\ Head(s).ch = c
        BY <3>1 DEF Off
      <4>2. QED
        BY <4>1 DEF After
    <3>3. QED
      BY <3>2, <1>7
  <2>4. j - 1 \in 1..(i - 1) /\ t[j - 1] = s[j]
    BY <2>2, <2>3, <1>1
  <2>5. QED
    BY <2>2, <2>4 DEF Darkens
<1>8. \A c \in Color : After(s, lit)[c] => Darkens(t, c, i - 1)
  BY <1>7
<1>9. i = Len(t)
  <2>0. i + 1 = Len(s)
    BY <1>4
  <2>1. Len(t) = Len(s) - 1
    BY <1>1
  <2>4. Len(s) \in Nat
    BY <1>1
  <2>5. Len(t) \in Nat
    BY <1>1
  <2>2. i \in Nat
    BY <1>1
  <2> HIDE DEF t
  <2>3. QED
    BY <2>0, <2>1, <2>2, <2>4, <2>5
<1>10. QED
  BY <1>8, <1>9

(* It leaves at most one colour lit, and darker or as it was unless it     *)
(* lights a colour.                                                        *)
LEMMA PreparedStep ==
  ASSUME NEW s \in Seq(Ops), s # <<>>, NEW lit \in [Color -> BOOLEAN], Prepared(s, lit), AtMostOne(lit)
  PROVE  AtMostOne(After(s, lit))
<1>1. Head(s) = s[1] /\ 1 \in 1..Len(s) /\ Head(s).op \in {"off", "on", "read"} /\ Head(s).ch \in Color
  <2>1. Head(s) = s[1] /\ Head(s) \in Ops
    OBVIOUS
  <2>2. 1 \in 1..Len(s)
    OBVIOUS
  <2>3. QED
    BY <2>1, <2>2 DEF Ops
<1>2. CASE Head(s).op = "on"
  <2>1. \A c \in Color : ~lit[c]
    BY <1>1, <1>2 DEF Prepared, Darkens
  <2>2. QED
    BY <1>1, <1>2, <2>1 DEF AtMostOne, After
<1>3. CASE Head(s).op # "on"
  BY <1>1, <1>3 DEF AtMostOne, After
<1>4. QED
  BY <1>2, <1>3

(* The lists of the other users stay prepared when the channels only get   *)
(* darker.                                                                 *)
LEMMA PreparedDims ==
  ASSUME NEW s, NEW lit, NEW dim, Prepared(s, lit), \A c \in Color : dim[c] => lit[c]
  PROVE  Prepared(s, dim)
BY DEF Prepared

LEMMA DisplayIsSequence ==
  ASSUME NEW c \in Color
  PROVE  /\ Len(display_color_behavior(c)) = 4
         /\ display_color_behavior(c)[1] = Off(0)
         /\ display_color_behavior(c)[2] = Off(1)
         /\ display_color_behavior(c)[3] = Off(2)
<1>1. /\ Len(display_none) = 3 /\ display_none[1] = Off(0)
      /\ display_none[2] = Off(1) /\ display_none[3] = Off(2)
  BY DEF display_none
<1>2. display_none \in Seq(Ops) /\ On(c) \in Ops
  BY DisplaysAreTransfers DEF On, Ops
<1>3. ASSUME NEW s \in Seq(Ops), NEW e \in Ops
      PROVE  /\ Len(Append(s, e)) = Len(s) + 1
             /\ \A i \in 1..Len(s) : Append(s, e)[i] = s[i]
  OBVIOUS
<1>4. /\ Len(Append(display_none, On(c))) = 3 + 1
      /\ \A i \in 1..3 : Append(display_none, On(c))[i] = display_none[i]
  BY <1>1, <1>2, <1>3
<1>5. QED
  BY <1>1, <1>4 DEF display_color_behavior

(* The lists the tasks and the server begin with are prepared, whatever is *)
(* lit.                                                                    *)
LEMMA DisplaysPrepared ==
  ASSUME NEW lit
  PROVE  /\ Prepared(<<>>, lit) /\ Prepared(<<Read>>, lit)
         /\ Prepared(display_none, lit)
         /\ \A c \in Color : /\ Prepared(display_color_behavior(c), lit)
                             /\ Prepared(<<Read>> \o display_color_behavior(c), lit)
<1>1. Prepared(<<>>, lit) /\ Prepared(<<Read>>, lit)
  BY DEF Prepared, Read
<1>2. Prepared(display_none, lit)
  BY DEF Prepared, display_none, Off
<1>3. ASSUME NEW c \in Color
      PROVE  Prepared(display_color_behavior(c), lit)
  <2> DEFINE s == display_color_behavior(c)
  <2>2. Len(s) = 4 /\ s[1] = Off(0) /\ s[2] = Off(1) /\ s[3] = Off(2)
    BY DisplayIsSequence
  <2>3. \A i \in 1..3 : s[i].op # "on"
    BY <2>2 DEF Off
  <2>4. \A d \in Color : Darkens(s, d, 3)
    BY <2>2 DEF Darkens, Color
  <2>5. QED
    BY <2>2, <2>3, <2>4 DEF Prepared
<1>4. ASSUME NEW c \in Color
      PROVE  Prepared(<<Read>> \o display_color_behavior(c), lit)
  <2> DEFINE s == <<Read>> \o display_color_behavior(c)
  <2>2. Len(s) = 5 /\ s[1] = Read /\ s[2] = Off(0) /\ s[3] = Off(1) /\ s[4] = Off(2)
    <3> DEFINE d == display_color_behavior(c)
    <3>1. d \in Seq(Ops) /\ <<Read>> \in Seq(Ops)
      BY DisplaysAreTransfers
    <3>2. Len(d) = 4 /\ d[1] = Off(0) /\ d[2] = Off(1) /\ d[3] = Off(2)
      BY DisplayIsSequence
    <3> HIDE DEF d
    <3>3. ASSUME NEW q \in Seq(Ops), NEW r \in Seq(Ops)
          PROVE  /\ Len(q \o r) = Len(q) + Len(r)
                 /\ \A i \in 1..Len(q) + Len(r) :
                      (q \o r)[i] = IF i <= Len(q) THEN q[i] ELSE r[i - Len(q)]
      OBVIOUS
    <3>4. /\ Len(<<Read>> \o d) = 1 + 4
          /\ \A i \in 1..1 + 4 :
               (<<Read>> \o d)[i] = IF i <= 1 THEN Read ELSE d[i - 1]
      <4> DEFINE q == <<Read>>
      <4>1. Len(q) = 1 /\ q[1] = Read /\ q \in Seq(Ops)
        BY <3>1
      <4> HIDE DEF q
      <4>2. /\ Len(q \o d) = Len(q) + Len(d)
            /\ \A i \in 1..Len(q) + Len(d) :
                 (q \o d)[i] = IF i <= Len(q) THEN q[i] ELSE d[i - Len(q)]
        BY <3>1, <3>3, <4>1
      <4>3. /\ Len(q \o d) = 1 + 4
            /\ \A i \in 1..1 + 4 : (q \o d)[i] = IF i <= 1 THEN q[i] ELSE d[i - 1]
        BY <3>2, <4>1, <4>2
      <4>4. QED
        BY <4>1, <4>3 DEF q
    <3>6. /\ (<<Read>> \o d)[1] = Read /\ (<<Read>> \o d)[2] = d[1]
          /\ (<<Read>> \o d)[3] = d[2] /\ (<<Read>> \o d)[4] = d[3]
      BY <3>4
    <3>5. QED
      BY <3>2, <3>4, <3>6 DEF d
  <2>3. \A i \in 1..4 : s[i].op # "on"
    BY <2>2 DEF Off, Read
  <2>4. \A d \in Color : Darkens(s, d, 4)
    BY <2>2 DEF Darkens, Color
  <2>5. QED
    BY <2>2, <2>3, <2>4 DEF Prepared
<1>5. QED
  BY <1>1, <1>2, <1>3, <1>4

LEMMA TestPrepared ==
  ASSUME NEW head \in Digits, NEW lit \in BOOLEAN, NEW l
  PROVE  Prepared(test(head, lit), l)
<1>1. (IF head \in {2, 3} THEN head - 1 ELSE 0) \in Color
  BY DEF Digits, Color
<1>2. QED
  BY <1>1, DisplaysPrepared DEF test

(* A step that gives one user a prepared list and touches no channel.      *)
LEMMA NewList ==
  ASSUME TypeOK, AllPrepared, NEW u \in Users, NEW s,
         UNCHANGED <<led, lost, disturbed>>,
         todo' = [todo EXCEPT ![u] = s], Prepared(s, Meant)
  PROVE  AllPrepared'
<1>1. \A v \in Users : todo'[v] = IF v = u THEN s ELSE todo[v]
  BY DEF TypeOK
<1>2. Meant' = Meant
  BY DEF Meant
<1>3. QED
  BY <1>1, <1>2 DEF AllPrepared

(* What a transfer does to the colours that are meant: if it goes through, *)
(* and if it fails, unless it was to light one, in which case nothing.     *)
LEMMA MeantAfter ==
  ASSUME TypeOK, NEW s \in Seq(Ops), s # <<>>
  PROVE  /\ Meant \in [Color -> BOOLEAN]
         /\ TakesEffect(Head(s)) => Meant' = After(s, Meant)
         /\ UNCHANGED <<led, lost>> => Meant' = Meant
<1>1. Meant \in [Color -> BOOLEAN] /\ led \in [Color -> BOOLEAN] /\ lost \subseteq Color
  BY DEF TypeOK, Meant
<1>2. Head(s) \in Ops
  OBVIOUS
<1> DEFINE e == Head(s)
<1>3. e.op \in {"off", "on", "read"} /\ e.ch \in Color
  BY <1>2 DEF Ops
<1>4. ASSUME TakesEffect(e)
      PROVE  Meant' = After(s, Meant)
  <2>1. CASE e.op = "read"
    BY <1>4, <2>1 DEF TakesEffect, Meant, After
  <2>2. CASE e.op # "read"
    <3>1. /\ led' = [led EXCEPT ![e.ch] = (e.op = "on")]
          /\ lost' = lost \ {e.ch}
          /\ After(s, Meant) = [Meant EXCEPT ![e.ch] = (e.op = "on")]
      BY <1>4, <2>2 DEF TakesEffect, After
    <3> HIDE DEF e
    <3>2. \A c \in Color : (led'[c] /\ c \notin lost') = IF c = e.ch THEN e.op = "on"
                                                       ELSE led[c] /\ c \notin lost
      BY <1>1, <1>3, <3>1
    <3>3. Meant' = [c \in Color |-> IF c = e.ch THEN e.op = "on" ELSE led[c] /\ c \notin lost]
      BY <3>2 DEF Meant
    <3>4. [Meant EXCEPT ![e.ch] = (e.op = "on")]
             = [c \in Color |-> IF c = e.ch THEN e.op = "on" ELSE led[c] /\ c \notin lost]
      BY <1>3 DEF Meant
    <3>5. QED
      BY <3>1, <3>3, <3>4
  <2>3. QED
    BY <2>1, <2>2
<1>5. UNCHANGED <<led, lost>> => Meant' = Meant
  BY DEF Meant
<1>6. QED
  BY <1>1, <1>4, <1>5

LEMMA MeantAfterFailure ==
  ASSUME TypeOK, NEW u \in Users, FailTransfer(u)
  PROVE  IF Head(todo[u]).op = "on" THEN Meant' = Meant ELSE Meant' = After(todo[u], Meant)
<1> DEFINE e == Head(todo[u])
<1>1. Meant \in [Color -> BOOLEAN] /\ led \in [Color -> BOOLEAN] /\ lost \subseteq Color
  BY DEF TypeOK, Meant
<1>2. e \in Ops
  BY DEF TypeOK, FailTransfer
<1>3. e.op \in {"off", "on", "read"} /\ e.ch \in Color
  BY <1>2 DEF Ops
<1>4. /\ led' = led
      /\ lost' = IF e.op = "off" /\ led[e.ch] THEN lost \cup {e.ch} ELSE lost
  BY DEF FailTransfer
<1>5. CASE e.op # "off"
  <2>1. Meant' = Meant
    BY <1>4, <1>5 DEF Meant
  <2>2. QED
    BY <1>3, <1>5, <2>1 DEF After
<1>6. CASE e.op = "off"
  <2>1. After(todo[u], Meant) = [Meant EXCEPT ![e.ch] = FALSE]
    BY <1>6 DEF After
  <2> HIDE DEF e
  <2>2. \A c \in Color : (led'[c] /\ c \notin lost') = IF c = e.ch THEN FALSE
                                                     ELSE led[c] /\ c \notin lost
    BY <1>1, <1>3, <1>4, <1>6
  <2>3. Meant' = [c \in Color |-> IF c = e.ch THEN FALSE ELSE led[c] /\ c \notin lost]
    BY <2>2 DEF Meant
  <2>4. [Meant EXCEPT ![e.ch] = FALSE]
           = [c \in Color |-> IF c = e.ch THEN FALSE ELSE led[c] /\ c \notin lost]
    BY <1>3 DEF Meant
  <2>5. QED
    BY <1>6, <2>1, <2>3, <2>4 DEF e
<1>7. QED
  BY <1>5, <1>6

(* Nothing is left of a prepared list behind the write that lights.        *)
LEMMA OnIsLast ==
  ASSUME NEW s \in Seq(Ops), s # <<>>, NEW lit, Prepared(s, lit), Head(s).op = "on"
  PROVE  Tail(s) = <<>>
<1>1. Head(s) = s[1] /\ 1 \in 1..Len(s)
  OBVIOUS
<1>2. Len(s) = 1
  BY <1>1 DEF Prepared
<1>3. Tail(s) \in Seq(Ops) /\ Len(Tail(s)) = 0
  BY <1>2
<1>4. \A q \in Seq(Ops) : Len(q) = 0 => q = <<>>
  OBVIOUS
<1>5. QED
  BY <1>3, <1>4

(* The server task is there once app_main has gone on, and not before.     *)
LEMMA StartedInductive == Started /\ [Next]_vars => Started'
<1> SUFFICES ASSUME Started, [Next]_vars
             PROVE  Started'
  OBVIOUS
<1>1. CASE Reboot
  BY <1>1 DEF Reboot, Started
<1>2. CASE Server /\ ~Reboot
  <2>1. server # "off" /\ UNCHANGED main
    BY <1>2 DEF Server, Listen, Accept, get_id, get_action, get_config, do_config, clear_task_handle,
                Written, CreateMission, CreateCalibration, Close
  <2>2. QED
    BY <2>1 DEF Started
<1>3. CASE (StartServer \/ smart_object_init) /\ ~Reboot
  BY <1>3 DEF StartServer, smart_object_init, Started
<1>4. CASE \/ Client
           \/ \E u \in Users : Bus(u)
           \/ \E h \in Handles : Task(h)
           \/ UNCHANGED vars
  BY <1>4 DEF Client, ClientSends, ClientCloses, Bus, BeginTransfer, EndTransfer, FailTransfer,
              Task, TaskStart, TaskLoop, CalibrationEnds, vars, Started
<1>5. QED
  BY <1>1, <1>2, <1>3, <1>4 DEF Next

LEMMA DisplayInductive == DisplayInv /\ [Next]_vars => DisplayParts'
<1> SUFFICES ASSUME DisplayInv, [Next]_vars
             PROVE  DisplayParts'
  OBVIOUS
<1>0. TypeOK /\ TypeOK' /\ OneMission /\ MissionInv'
  BY MissionInvInductive DEF DisplayInv, MissionInv
<1> USE DEF connVars, globals, ledVars
<1>1. CASE Reboot
  <2>1. \A u \in Users : todo'[u] = <<>>
    BY <1>1 DEF Reboot
  <2>2. "server" \in Users /\ Handles \subseteq Users
    BY DEF Users
  <2>3. ReadersOnly' /\ ServerWaits' /\ ServerAlone'
    BY <2>1, <2>2 DEF ReadersOnly, ServerWaits, ServerAlone, OnlyReads
  <2>4. AllPrepared'
    BY <2>1, DisplaysPrepared DEF AllPrepared
  <2>5. OneLit'
    <3>1. Meant' = Meant
      BY <1>1 DEF Reboot, Meant
    <3>2. QED
      BY <1>1, <3>1 DEF Reboot, OneLit, DisplayInv, DisplayParts
  <2>6. QED
    BY <2>3, <2>4, <2>5 DEF DisplayParts
<1>2. CASE /\ UNCHANGED <<task, todo, led, lost, disturbed>>
           /\ server = "write" => server' = "write" \/ todo["server"] = <<>>
  <2>0. Meant' = Meant
    BY <1>2 DEF Meant
  <2>1. AllPrepared'
    BY <1>2, <2>0 DEF AllPrepared, DisplayInv, DisplayParts
  <2>2. QED
    BY <1>2, <2>0, <2>1 DEF DisplayInv, DisplayParts, ReadersOnly, ServerWaits, ServerAlone, OneLit, MissionAlive
<1>3. ASSUME NEW u \in Users, EndTransfer(u) \/ FailTransfer(u)
      PROVE  DisplayParts'
  <2> DEFINE s == todo[u]
  <2>1. /\ s \in Seq(Ops) /\ s # <<>>
        /\ IF FailTransfer(u) /\ Head(s).op = "on" THEN Meant' = Meant
                                                   ELSE Meant' = After(s, Meant)
    <3>1. s \in Seq(Ops) /\ s # <<>>
      BY <1>3, <1>0 DEF EndTransfer, FailTransfer, TypeOK
    <3>2. CASE FailTransfer(u)
      BY <1>0, <3>1, <3>2, MeantAfterFailure
    <3>3. CASE ~FailTransfer(u)
      <4>1. TakesEffect(Head(s))
        BY <1>3, <3>3 DEF EndTransfer
      <4>2. QED
        BY <1>0, <3>1, <3>3, <4>1, MeantAfter
    <3>4. QED
      BY <3>1, <3>2, <3>3
  <2>2. \A v \in Users : todo'[v] = IF v = u THEN Tail(s) ELSE todo[v]
    BY <1>3, <1>0 DEF EndTransfer, FailTransfer, TypeOK
  <2>3. UNCHANGED <<task, server, disturbed>>
    BY <1>3 DEF EndTransfer, FailTransfer
  <2>4. ReadersOnly'
    <3>1. ASSUME NEW h \in Handles, task[h].kind \notin MissionKinds
          PROVE  OnlyReads(todo'[h])
      <4>1. OnlyReads(todo[h]) /\ h \in Users
        BY <3>1 DEF DisplayInv, DisplayParts, ReadersOnly, Users
      <4>2. QED
        BY <4>1, <2>1, <2>2, ReadsStay
    <3>2. QED
      BY <3>1, <2>3 DEF ReadersOnly
  <2>5. ServerWaits'
    BY <2>1, <2>2, <2>3 DEF ServerWaits, DisplayInv, DisplayParts, Users
  <2>6. ServerAlone'
    <3>1. ASSUME OnlyReads(todo["server"])
          PROVE  OnlyReads(todo'["server"])
      BY <3>1, <2>1, <2>2, ReadsStay DEF Users
    <3>2. QED
      BY <3>1, <2>3 DEF ServerAlone, DisplayInv, DisplayParts, MissionAlive
  <2>7. Meant \in [Color -> BOOLEAN]
    BY <1>0, <2>1, MeantAfter
  <2>8. ASSUME ~disturbed
        PROVE  Prepared(s, Meant) /\ AtMostOne(Meant)
    BY <2>7, <2>8 DEF DisplayInv, DisplayParts, AllPrepared, OneLit
  <2>9. OneLit'
    BY <2>1, <2>3, <2>7, <2>8, PreparedStep DEF OneLit
  <2>10. ASSUME ~disturbed, NEW v \in Users
         PROVE  Prepared(todo'[v], Meant')
    <3>1. CASE v = u
      <4>1. CASE FailTransfer(u) /\ Head(s).op = "on"
        <5>1. todo'[v] = <<>>
          BY <2>1, <2>2, <2>8, <2>10, <3>1, <4>1, OnIsLast
        <5>2. QED
          BY <5>1, DisplaysPrepared
      <4>2. CASE ~(FailTransfer(u) /\ Head(s).op = "on")
        BY <2>1, <2>2, <2>7, <2>8, <2>10, <3>1, <4>2, PreparedTail
      <4>3. QED
        BY <4>1, <4>2
    <3>2. CASE v # u /\ Head(s).op # "on"
      <4>1. Head(s) \in Ops
        BY <2>1
      <4>2. \A c \in Color : Meant'[c] => Meant[c]
        BY <2>1, <2>7, <3>2, <4>1 DEF After, Ops
      <4>3. Prepared(todo[v], Meant)
        BY <2>7, <2>10 DEF DisplayInv, DisplayParts, AllPrepared
      <4>4. QED
        BY <2>2, <3>2, <4>2, <4>3, PreparedDims
    <3>3. CASE v # u /\ Head(s).op = "on"
      <4>1. ~OnlyReads(s)
        <5>1. Head(s) = s[1] /\ 1 \in 1..Len(s)
          BY <2>1
        <5>2. QED
          BY <5>1, <3>3 DEF OnlyReads
      <4>2. OnlyReads(todo[v])
        <5>1. CASE u = "server"
          <6>1. ~MissionAlive
            BY <4>1, <5>1, <2>10 DEF DisplayInv, DisplayParts, ServerAlone
          <6>2. v \in Handles
            BY <5>1, <3>3 DEF Users
          <6>3. QED
            BY <6>1, <6>2 DEF DisplayInv, DisplayParts, ReadersOnly, MissionAlive
        <5>2. CASE u \in Handles
          <6>1. task[u].kind \in MissionKinds
            BY <4>1, <5>2 DEF DisplayInv, DisplayParts, ReadersOnly
          <6>2. CASE v = "server"
            BY <6>1, <6>2, <5>2, <2>10 DEF DisplayInv, DisplayParts, ServerAlone, MissionAlive
          <6>3. CASE v \in Handles
            BY <6>1, <6>3, <5>2, <3>3, <1>0 DEF DisplayInv, DisplayParts, ReadersOnly, OneMission
          <6>4. QED
            BY <6>2, <6>3 DEF Users
        <5>3. QED
          BY <5>1, <5>2 DEF Users
      <4>3. todo[v] \in Seq(Ops)
        BY <1>0 DEF TypeOK
      <4>4. QED
        BY <2>2, <3>3, <4>2, <4>3, ReadsStay
    <3>4. QED
      BY <3>1, <3>2, <3>3
  <2>11. AllPrepared'
    BY <2>10, <2>3 DEF AllPrepared
  <2>12. QED
    BY <2>4, <2>5, <2>6, <2>9, <2>11 DEF DisplayParts
<1>5. ASSUME do_config, server = "config"
      PROVE  DisplayParts'
  <2> DEFINE head == IF sent = 3 THEN conn.head ELSE 0
             arg  == IF sent = 3 THEN conn.arg  ELSE 0
  <2>1. head \in Digits /\ (arg # 0) \in BOOLEAN
    BY <1>0 DEF TypeOK, Message, Digits
  <2>0. UNCHANGED <<task, bus, led, lost>> /\ server = "config"
    BY <1>5 DEF do_config
  <2>2. UNCHANGED <<task, bus, Meant>> /\ todo["server"] = <<>> /\ "server" \in Users
    BY <2>0 DEF Meant, DisplayInv, DisplayParts, ServerWaits, Users
  <2>3. CASE cmd.action = TEST
    <3>1. /\ todo' = [todo EXCEPT !["server"] = test(head, arg # 0)] /\ server' = "write"
          /\ disturbed' = (disturbed \/ MissionAlive)
      BY <1>5, <2>3 DEF do_config, TEST, MISSION_CONFIG, CALIBRATION_CONFIG
    <3>2. \A v \in Users : todo'[v] = IF v = "server" THEN test(head, arg # 0) ELSE todo[v]
      BY <3>1, <1>0 DEF TypeOK
    <3>3. ReadersOnly'
      BY <2>2, <3>2, HandlesAssumption DEF ReadersOnly, DisplayInv, DisplayParts, Users
    <3>4. ServerWaits' /\ ServerAlone' /\ OneLit'
      BY <2>2, <3>1, <1>0 DEF ServerWaits, ServerAlone, OneLit, MissionAlive, DisplayInv, DisplayParts, TypeOK
    <3>5. AllPrepared'
      BY <2>1, <2>2, <3>1, <3>2, <1>0, TestPrepared DEF AllPrepared, DisplayInv, DisplayParts, TypeOK
    <3>6. QED
      BY <3>3, <3>4, <3>5 DEF DisplayParts
  <2>4. CASE cmd.action = CALIBRATION_CONFIG
    <3>1. PICK s \in {<<Read>>, <<>>} :
            /\ todo' = [todo EXCEPT !["server"] = s] /\ UNCHANGED disturbed
            /\ server' # "write" => s = <<>>
      BY <1>5, <2>4 DEF do_config, TEST, MISSION_CONFIG, CALIBRATION_CONFIG
    <3>2. \A v \in Users : todo'[v] = IF v = "server" THEN s ELSE todo[v]
      BY <3>1, <1>0 DEF TypeOK
    <3>3. OnlyReads(s)
      BY DEF OnlyReads, Read
    <3>4. ReadersOnly'
      BY <2>2, <3>2, HandlesAssumption DEF ReadersOnly, DisplayInv, DisplayParts, Users
    <3>5. ServerWaits' /\ ServerAlone' /\ OneLit'
      BY <2>2, <3>1, <3>2, <3>3 DEF ServerWaits, ServerAlone, OneLit, DisplayInv, DisplayParts
    <3>6. AllPrepared'
      BY <2>2, <3>1, <3>2, DisplaysPrepared DEF AllPrepared, DisplayInv, DisplayParts
    <3>7. QED
      BY <3>4, <3>5, <3>6 DEF DisplayParts
  <2>5. CASE cmd.action = MISSION_CONFIG
    <3>1. UNCHANGED <<todo, disturbed>> /\ server # "write"
      BY <1>5, <2>0, <2>5 DEF do_config, TEST, MISSION_CONFIG, CALIBRATION_CONFIG
    <3>2. QED
      BY <2>0, <3>1, <1>2
  <2>6. QED
    BY <1>5, <2>3, <2>4, <2>5 DEF do_config
<1>13. CASE get_config
  BY <1>13, <1>1, <1>5 DEF get_config
<1>6. CASE clear_task_handle /\ ~Reboot
  <2> DEFINE stop == IF MissionToStop \in Missions THEN display_none ELSE <<>>
  <2>1. UNCHANGED <<xHandle, disturbed>> /\ server' = "write"
    BY <1>6 DEF clear_task_handle
  <2> DEFINE S == IF Exists(xHandle) THEN {xHandle} ELSE {}
  <2>2. /\ \A v \in Users : todo'[v] = IF v = "server" THEN stop
                                       ELSE IF v \in S THEN <<>> ELSE todo[v]
        /\ \A h \in Handles : task'[h] = IF h \in S THEN NoTask ELSE task[h]
    <3>1. CASE Exists(xHandle)
      <4>1. xHandle \in Handles /\ S = {xHandle}
        BY <3>1, <1>0 DEF Exists, TypeOK
      <4>2. /\ todo' = [todo EXCEPT ![xHandle] = <<>>, !["server"] = stop]
            /\ task' = [task EXCEPT ![xHandle] = NoTask]
        BY <1>6, <3>1 DEF clear_task_handle
      <4> HIDE DEF S
      <4>3. \A v \in Users : todo'[v] = IF v = "server" THEN stop
                                        ELSE IF v \in S THEN <<>> ELSE todo[v]
        BY <4>1, <4>2, <1>0 DEF TypeOK
      <4>4. \A h \in Handles : task'[h] = IF h \in S THEN NoTask ELSE task[h]
        BY <4>1, <4>2, <1>0 DEF TypeOK
      <4>5. QED
        BY <4>3, <4>4
    <3>2. CASE ~Exists(xHandle)
      <4>1. todo' = [todo EXCEPT !["server"] = stop] /\ UNCHANGED task /\ S = {}
        BY <1>6, <3>2 DEF clear_task_handle
      <4>2. QED
        BY <4>1, <1>0 DEF TypeOK
    <3>3. QED
      BY <3>1, <3>2
  <2>3. \A h \in Handles : task'[h].kind \notin MissionKinds /\ h # "server" /\ h \in Users
    BY <2>2, <1>0, HandlesAssumption DEF OneMission, Exists, NoTask, MissionKinds, Users
  <2>4. ReadersOnly'
    <3>1. ASSUME NEW h \in Handles
          PROVE  OnlyReads(todo'[h])
      <4>1. CASE h \in S
        BY <4>1, <2>2, <2>3 DEF OnlyReads
      <4>2. CASE h \notin S
        BY <4>2, <2>2, <2>3 DEF ReadersOnly, DisplayInv, DisplayParts
      <4>3. QED
        BY <4>1, <4>2
    <3>2. QED
      BY <3>1 DEF ReadersOnly
  <2>5. ServerWaits' /\ ServerAlone'
    BY <2>1, <2>3 DEF ServerWaits, ServerAlone, MissionAlive
  <2>8. OneLit'
    <3>1. CASE UNCHANGED <<led, lost>>
      <4>1. Meant' = Meant
        BY <3>1 DEF Meant
      <4>2. QED
        BY <2>1, <4>1 DEF OneLit, DisplayInv, DisplayParts
    <3>2. CASE ~UNCHANGED <<led, lost>>
      <4>1. /\ Exists(xHandle) /\ todo[xHandle] # <<>>
            /\ TakesEffect(Head(todo[xHandle]))
        BY <1>6, <3>2 DEF clear_task_handle
      <4>2. xHandle \in Users /\ todo[xHandle] \in Seq(Ops)
        BY <4>1, <1>0 DEF Exists, TypeOK, Users
      <4>3. Meant' = After(todo[xHandle], Meant) /\ Meant \in [Color -> BOOLEAN]
        BY <1>0, <4>1, <4>2, MeantAfter
      <4>4. ~disturbed => Prepared(todo[xHandle], Meant) /\ AtMostOne(Meant)
        BY <4>2 DEF DisplayInv, DisplayParts, OneLit, AllPrepared
      <4>5. QED
        BY <2>1, <4>1, <4>2, <4>3, <4>4, PreparedStep DEF OneLit
    <3>3. QED
      BY <3>1, <3>2
  <2>6. AllPrepared'
    <3>1. ASSUME NEW v \in Users
          PROVE  Prepared(todo'[v], Meant')
      <4>1. CASE v = "server"
        BY <2>2, <4>1, DisplaysPrepared
      <4>2. CASE v # "server"
        <5>1. v \in Handles /\ OnlyReads(todo'[v]) /\ todo'[v] \in Seq(Ops)
          BY <2>3, <2>4, <4>2, <1>0 DEF Users, ReadersOnly, MissionInv, TypeOK
        <5>2. QED
          BY <5>1, ReadsStay
      <4>3. QED
        BY <4>1, <4>2
    <3>2. QED
      BY <3>1 DEF AllPrepared
  <2>7. QED
    BY <2>4, <2>5, <2>6, <2>8 DEF DisplayParts
<1>7. CASE CreateMission
  <2>1. UNCHANGED <<todo, Meant>> /\ server = "create" /\ server' = "close"
    BY <1>7 DEF CreateMission, Meant
  <2>2. todo["server"] = <<>> /\ ~MissionAlive
    BY <1>7, <2>1 DEF CreateMission, DisplayInv, DisplayParts, ServerWaits, MissionInv, NoMissionBeforeCreation
  <2>3. \A h \in Handles : OnlyReads(todo[h]) /\ todo[h] \in Seq(Ops)
    BY <2>2, <1>0 DEF DisplayInv, DisplayParts, ReadersOnly, MissionAlive, TypeOK, Users
  <2>4. ReadersOnly' /\ ServerWaits' /\ ServerAlone'
    BY <2>1, <2>2, <2>3 DEF ReadersOnly, ServerWaits, ServerAlone, OnlyReads
  <2>5. OneLit'
    <3>1. disturbed' = (disturbed /\ \E c \in Color : Meant[c])
      BY <1>7 DEF CreateMission, Meant, Lit
    <3>2. QED
      BY <2>1, <3>1 DEF OneLit, AtMostOne, DisplayInv, DisplayParts
  <2>6. AllPrepared'
    <3>1. \A u \in Users : Prepared(todo[u], Meant)
      BY <2>2, <2>3, ReadsStay, DisplaysPrepared DEF Users
    <3>2. QED
      BY <2>1, <3>1 DEF AllPrepared
  <2>7. QED
    BY <2>4, <2>5, <2>6 DEF DisplayParts
<1>8. CASE CreateCalibration
  <2>1. UNCHANGED <<todo, Meant, disturbed>> /\ server = "create" /\ server' = "close"
    BY <1>8 DEF CreateCalibration, Meant
  <2>2. todo["server"] = <<>>
    BY <2>1 DEF DisplayInv, DisplayParts, ServerWaits
  <2>3. \A h \in Handles : task'[h].kind \in MissionKinds => task[h].kind \in MissionKinds
    BY <1>8, <1>0 DEF CreateCalibration, xTaskCreate, Fresh, TypeOK, MissionKinds
  <2>4. \A h \in Handles : task[h].kind \in MissionKinds => task'[h].kind \in MissionKinds
    BY <1>8, <1>0 DEF CreateCalibration, xTaskCreate, Fresh, TypeOK, MissionKinds
  <2>5. QED
    BY <2>1, <2>2, <2>3, <2>4 DEF DisplayInv, DisplayParts, ReadersOnly, ServerWaits, ServerAlone, OnlyReads, OneLit, AllPrepared, AtMostOne
<1>9. ASSUME NEW h \in Handles, TaskStart(h) \/ TaskLoop(h)
      PROVE  DisplayParts'
  <2>1. UNCHANGED <<server, Meant, disturbed>>
    BY <1>9 DEF TaskStart, TaskLoop, Meant
  <2>2. \A g \in Handles : task'[g].kind = task[g].kind
    BY <1>9, <1>0 DEF TaskStart, TaskLoop, TypeOK, Tasks
  <2>3. PICK s : /\ todo' = [todo EXCEPT ![h] = s]
                 /\ s = todo[h] \/ Prepared(s, Meant)
                 /\ task[h].kind \in MissionKinds \/ OnlyReads(s)
    <3>1. \A c \in StartColors(h) : c \in Color
      BY <1>0 DEF StartColors, Color, TypeOK, Digits
    <3>2. LoopColors(task[h].kind) \subseteq Color /\ 2 \in Color
      BY DEF LoopColors, Color
    <3>3. CASE TaskStart(h)
      <4>1. CASE task[h].kind \in {"m1", "m3"}
        <5>1. PICK c \in Color : todo' = [todo EXCEPT ![h] = display_color_behavior(c)]
          BY <3>1, <3>2, <3>3, <4>1 DEF TaskStart
        <5>2. QED
          BY <5>1, <4>1, DisplaysPrepared DEF MissionKinds
      <4>2. CASE task[h].kind \notin {"m1", "m3"}
        <5>1. todo' = [todo EXCEPT ![h] = todo[h]]
          BY <3>3, <4>2, <1>0 DEF TaskStart, TypeOK
        <5>2. task[h].kind \in MissionKinds \/ OnlyReads(todo[h])
          BY DEF DisplayInv, DisplayParts, ReadersOnly
        <5>3. QED
          BY <5>1, <5>2
      <4>3. QED
        BY <4>1, <4>2
    <3>4. CASE TaskLoop(h)
      <4>1. CASE todo' = [todo EXCEPT ![h] = <<Read>>]
        <5>1. OnlyReads(<<Read>>)
          BY DEF OnlyReads, Read
        <5>2. QED
          BY <4>1, <5>1, DisplaysPrepared
      <4>2. CASE \E c \in LoopColors(task[h].kind) :
                   todo' = [todo EXCEPT ![h] = <<Read>> \o display_color_behavior(c)]
        <5>1. PICK c \in LoopColors(task[h].kind) :
                     todo' = [todo EXCEPT ![h] = <<Read>> \o display_color_behavior(c)]
          BY <4>2
        <5>2. task[h].kind \in MissionKinds
          BY <5>1 DEF LoopColors, MissionKinds
        <5>3. QED
          BY <3>2, <5>1, <5>2, DisplaysPrepared
      <4>3. QED
        BY <3>4, <4>1, <4>2 DEF TaskLoop
    <3>5. QED
      BY <1>9, <3>3, <3>4
  <2>4. \A v \in Users : todo'[v] = IF v = h THEN s ELSE todo[v]
    BY <2>3, <1>0 DEF TypeOK
  <2>5. h # "server" /\ h \in Users /\ "server" \in Users /\ Handles \subseteq Users
    BY HandlesAssumption DEF Users
  <2>6. ReadersOnly'
    BY <2>2, <2>3, <2>4, <2>5 DEF ReadersOnly, DisplayInv, DisplayParts
  <2>7. ServerWaits' /\ ServerAlone' /\ OneLit'
    BY <2>1, <2>2, <2>4, <2>5 DEF ServerWaits, ServerAlone, MissionAlive, OneLit, DisplayInv, DisplayParts
  <2>8. AllPrepared'
    BY <2>1, <2>3, <2>4 DEF AllPrepared, DisplayInv, DisplayParts
  <2>9. QED
    BY <2>6, <2>7, <2>8 DEF DisplayParts
<1>10. ASSUME NEW h \in Handles, CalibrationEnds(h)
       PROVE  DisplayParts'
  <2>1. UNCHANGED <<server, todo, Meant, disturbed>> /\ todo[h] = <<>>
    BY <1>10 DEF CalibrationEnds, Meant
  <2>2. \A g \in Handles : g # h => task'[g] = task[g]
    BY <1>10, <1>0 DEF CalibrationEnds, TypeOK
  <2>3. task'[h] = NoTask /\ task[h].kind \notin MissionKinds
    BY <1>10, <1>0 DEF CalibrationEnds, TypeOK, MissionKinds
  <2>4. MissionAlive' => MissionAlive
    BY <2>2, <2>3 DEF MissionAlive, NoTask, MissionKinds
  <2>5. ReadersOnly'
    BY <2>1, <2>2, <2>3 DEF ReadersOnly, DisplayInv, DisplayParts, OnlyReads
  <2>6. QED
    BY <2>1, <2>4, <2>5 DEF ServerWaits, ServerAlone, OneLit, AllPrepared, DisplayInv, DisplayParts
<1>11. ASSUME \/ StartServer \/ smart_object_init \/ Listen \/ Accept \/ get_id \/ get_action
              \/ Written \/ Close \/ Client \/ (\E u \in Users : BeginTransfer(u)) \/ UNCHANGED vars
       PROVE  DisplayParts'
  <2>1. CASE Reboot
    BY <2>1, <1>1
  <2>2. CASE ~Reboot
    <3>1. UNCHANGED <<task, todo, led, lost, disturbed>>
      BY <1>11, <2>2 DEF StartServer, smart_object_init, Listen, Accept, get_id, get_action, Written, Close,
                         Client, ClientSends, ClientCloses, BeginTransfer, vars
    <3>3. server = "write" => server' = "write" \/ todo["server"] = <<>>
      BY <1>11, <2>2 DEF StartServer, smart_object_init, Listen, Accept, get_id, get_action, Written, Close,
                         Client, ClientSends, ClientCloses, BeginTransfer, vars, DisplayInv, Started
    <3>4. QED
      BY <3>1, <3>3, <1>2
  <2>3. QED
    BY <2>1, <2>2
<1>12. QED
  BY <1>1, <1>3, <1>6, <1>7, <1>8, <1>9, <1>10, <1>11, <1>13 DEF Next, Server, Bus, Task

LEMMA DisplayInvHolds == Spec => []DisplayInv
<1>1. Init => DisplayInv
  <2> SUFFICES ASSUME Init
               PROVE  DisplayInv
    OBVIOUS
  <2>1. MissionInv
    BY InitTypeOK DEF Init, MissionInv, OneMission, NoMissionBeforeCreation, NoTask, MissionKinds
  <2>2. \A u \in Users : todo[u] = <<>>
    BY DEF Init
  <2>3. AllPrepared
    BY <2>2, DisplaysPrepared DEF AllPrepared
  <2>4. ReadersOnly /\ ServerWaits /\ ServerAlone
    BY <2>2 DEF ReadersOnly, ServerWaits, ServerAlone, OnlyReads, Users
  <2>5. OneLit /\ Started
    BY DEF Init, OneLit, AtMostOne, Started, Meant
  <2>6. QED
    BY <2>1, <2>3, <2>4, <2>5 DEF DisplayInv, DisplayParts
<1>2. DisplayInv /\ [Next]_vars => DisplayInv'
  BY MissionInvInductive, DisplayInductive, StartedInductive DEF DisplayInv
<1>3. QED
  BY <1>1, <1>2, PTL DEF Spec

(* The displays of successive missions never mix, whatever the commands,   *)
(* wherever a mission is deleted and whenever the processor restarts, and  *)
(* whichever transfers fail: the display that is interrupted has at most   *)
(* one colour lit that it wanted lit, and the one that follows tries to    *)
(* darken every colour before it lights its own; a second colour is one    *)
(* whose darkening write the bus did not take.                             *)
THEOREM OneColourHolds == Spec => []OneColour
<1>1. DisplayInv => OneColour
  <2> SUFFICES ASSUME DisplayInv, ~disturbed
               PROVE  Cardinality(Lit \ lost) <= 1
    BY DEF OneColour
  <2> DEFINE L == Lit \ lost
  <2>1. \A c, d \in L : c = d
    BY DEF DisplayInv, DisplayParts, OneLit, AtMostOne, Lit, Meant
  <2> HIDE DEF L
  <2>2. CASE L = {}
    BY <2>2, FS_EmptySet DEF L
  <2>3. CASE L # {}
    <3>1. PICK c \in L : L = {c}
      BY <2>1, <2>3
    <3>2. QED
      <4>1. Cardinality({c}) = 1
        BY FS_Singleton
      <4>2. QED
        BY <3>1, <4>1, SMTT(40) DEF L
  <2>4. QED
    BY <2>2, <2>3
<1>2. QED
  BY <1>1, DisplayInvHolds, PTL

-----------------------------------------------------------------------------
(* A stop: what the server has read of the command stays what it was until *)
(* the next one, and while the server darkens, each colour is dark or      *)
(* still in its list.                                                      *)
CommandOK ==
  /\ server \in {"off", "listen", "accept", "id", "action"} => cmd = NoCommand
  /\ cmd.action = MISSION_CONFIG =>
       /\ server \in {"clear", "write"} => cmd.head \in Missions \cup {9}
       /\ server = "create" => cmd.head \in Missions
  /\ current_mission \in Missions \cup {0}

Stopping == server \in {"write", "close"} /\ cmd.action = MISSION_CONFIG /\ cmd.head = 9

DarkOrWill(s, lit) == \A c \in Color : ~lit[c] \/ Darkens(s, c, Len(s))
StopInv ==
  Stopping =>
    /\ ~MissionAlive
    /\ \A i \in 1..Len(todo["server"]) : todo["server"][i].op # "on"
    /\ current_mission # 0 => DarkOrWill(todo["server"], Meant)

LEMMA CommandInductive == TypeOK /\ Started /\ CommandOK /\ [Next]_vars => CommandOK'
<1> SUFFICES ASSUME TypeOK, Started, CommandOK, [Next]_vars
             PROVE  CommandOK'
  OBVIOUS
<1> USE DEF connVars, globals, ledVars
<1>1. CASE Reboot
  BY <1>1 DEF Reboot, CommandOK, NoCommand, MISSION_CONFIG
<1>2. CASE /\ UNCHANGED <<cmd, current_mission>>
           /\ \/ server' = server
              \/ server' \in {"listen", "accept", "id", "action"} /\ server \in {"off", "listen", "accept", "id"}
              \/ server' \in {"close", "config"}
  BY <1>2 DEF CommandOK
<1>3. CASE get_action
  <2>1. CASE UNCHANGED cmd /\ ~Reboot
    BY <1>3, <2>1, <1>2 DEF get_action
  <2>2. CASE cmd' # cmd /\ ~Reboot
    <3>1. server' = "config" /\ UNCHANGED current_mission
      BY <1>3, <2>2 DEF get_action
    <3>2. QED
      BY <3>1 DEF CommandOK
  <2>3. QED
    BY <1>1, <2>1, <2>2
<1>4. CASE do_config
  <2> DEFINE head == IF sent = 3 THEN conn.head ELSE 0
  <2>1. cmd'.action = cmd.action /\ cmd'.head = head /\ UNCHANGED current_mission
    BY <1>4 DEF do_config, TypeOK, Commands
  <2>2. /\ server' \in {"write", "clear", "create", "close"}
        /\ cmd.action = MISSION_CONFIG => server' \in {"clear", "close"}
        /\ server' = "clear" => head \in Missions \cup {9}
    BY <1>4 DEF do_config, TEST, MISSION_CONFIG, CALIBRATION_CONFIG
  <2>3. QED
    BY <2>1, <2>2 DEF CommandOK
<1>5. CASE clear_task_handle /\ ~Reboot
  <2>1. UNCHANGED <<cmd, current_mission>> /\ server = "clear" /\ server' = "write"
    BY <1>5 DEF clear_task_handle
  <2>2. QED
    BY <2>1 DEF CommandOK
<1>6. CASE Written
  <2>1. /\ UNCHANGED <<cmd, current_mission>> /\ server = "write"
        /\ server' = IF cmd.action = MISSION_CONFIG /\ cmd.head # 9 THEN "create" ELSE "close"
    BY <1>6 DEF Written
  <2>2. QED
    BY <2>1 DEF CommandOK
<1>7. CASE CreateMission
  <2>1. server = "create" /\ cmd.action = MISSION_CONFIG /\ current_mission' = cmd.head /\ server' = "close"
    BY <1>7 DEF CreateMission
  <2>2. QED
    BY <2>1 DEF CommandOK
<1>8. CASE Close
  BY <1>8 DEF Close, CommandOK, NoCommand, MISSION_CONFIG
<1>9. CASE CreateCalibration
  BY <1>9, <1>2 DEF CreateCalibration
<1>10. CASE (StartServer \/ smart_object_init \/ Listen \/ Accept \/ get_id) /\ ~Reboot
  <2>1. CASE StartServer
    BY <2>1 DEF StartServer, Started, CommandOK
  <2>2. CASE (smart_object_init \/ Listen \/ Accept \/ get_id) /\ ~Reboot
    BY <2>2, <1>2 DEF smart_object_init, Listen, Accept, get_id
  <2>3. QED
    BY <1>10, <2>1, <2>2
<1>11. CASE \/ Client
            \/ \E u \in Users : Bus(u)
            \/ \E h \in Handles : Task(h)
            \/ UNCHANGED vars
  BY <1>11, <1>2 DEF Client, ClientSends, ClientCloses, Bus, BeginTransfer, EndTransfer, FailTransfer,
              Task, TaskStart, TaskLoop, CalibrationEnds, vars
<1>13. CASE get_config
  BY <1>13, <1>1, <1>4 DEF get_config
<1>12. QED
  BY <1>1, <1>3, <1>5, <1>6, <1>7, <1>8, <1>9, <1>10, <1>11, <1>13 DEF Next, Server

(* A transfer that does not light leaves a colour dark, or still to be     *)
(* darkened by the rest of the list.                                       *)
LEMMA DarkensOn ==
  ASSUME NEW s \in Seq(Ops), s # <<>>, NEW lit \in [Color -> BOOLEAN],
         \A i \in 1..Len(s) : s[i].op # "on", DarkOrWill(s, lit)
  PROVE  /\ \A i \in 1..Len(Tail(s)) : Tail(s)[i].op # "on"
         /\ DarkOrWill(Tail(s), After(s, lit))
<1> DEFINE t == Tail(s)
<1>1. t \in Seq(Ops) /\ Len(t) = Len(s) - 1 /\ Len(s) \in Nat /\ \A i \in 1..Len(t) : t[i] = s[i + 1]
  OBVIOUS
<1>2. \A i \in 1..Len(t) : i + 1 \in 1..Len(s)
  BY <1>1
<1>3. Head(s) = s[1] /\ Head(s).ch \in Color /\ Head(s).op # "on"
  <2>1. Head(s) = s[1] /\ Head(s) \in Ops
    OBVIOUS
  <2>2. 1 \in 1..Len(s)
    OBVIOUS
  <2>3. QED
    BY <2>1, <2>2 DEF Ops
<1>4. ASSUME NEW c \in Color, After(s, lit)[c]
      PROVE  Darkens(t, c, Len(t))
  <2>1. lit[c]
    BY <1>3, <1>4 DEF After
  <2>2. PICK j \in 1..Len(s) : s[j] = Off(c)
    BY <2>1 DEF DarkOrWill, Darkens
  <2>3. j # 1
    <3>1. SUFFICES ASSUME Head(s) = Off(c) PROVE FALSE
      BY <1>3, <2>2
    <3>2. Head(s).op = "off" /\ Head(s).ch = c
      BY <3>1 DEF Off
    <3>3. ~After(s, lit)[c]
      BY <3>2 DEF After
    <3>4. QED
      BY <3>3, <1>4
  <2>4. j - 1 \in 1..Len(t) /\ t[j - 1] = s[j]
    BY <2>2, <2>3, <1>1
  <2>5. QED
    BY <2>2, <2>4 DEF Darkens
<1>5. \A c \in Color : After(s, lit)[c] => Darkens(t, c, Len(t))
  BY <1>4
<1>6. DarkOrWill(t, After(s, lit))
  BY <1>5 DEF DarkOrWill
<1>7. \A i \in 1..Len(t) : t[i].op # "on"
  BY <1>1, <1>2
<1>8. QED
  BY <1>6, <1>7

(* The list with which a stop begins darkens every colour.                 *)
LEMMA StopList ==
  /\ \A i \in 1..Len(display_none) : display_none[i].op # "on"
  /\ \A lit : DarkOrWill(display_none, lit)
<1>1. /\ Len(display_none) = 3 /\ display_none[1] = Off(0)
      /\ display_none[2] = Off(1) /\ display_none[3] = Off(2)
  BY DEF display_none
<1>2. \A i \in 1..3 : display_none[i].op # "on"
  BY <1>1 DEF Off
<1>3. \A c \in Color : Darkens(display_none, c, 3)
  BY <1>1 DEF Darkens, Color
<1>4. QED
  BY <1>1, <1>2, <1>3 DEF DarkOrWill

LEMMA StopInductive ==
  DisplayInv /\ CommandOK /\ StopInv /\ [Next]_vars => StopInv'
<1> SUFFICES ASSUME DisplayInv, CommandOK, StopInv, [Next]_vars, Stopping'
             PROVE  /\ ~MissionAlive'
                    /\ \A i \in 1..Len(todo'["server"]) : todo'["server"][i].op # "on"
                    /\ current_mission' # 0 => DarkOrWill(todo'["server"], Meant')
  BY DEF StopInv
<1> DEFINE Goal == /\ ~MissionAlive'
                   /\ \A i \in 1..Len(todo'["server"]) : todo'["server"][i].op # "on"
                   /\ current_mission' # 0 => DarkOrWill(todo'["server"], Meant')
<1>0. TypeOK /\ OneMission /\ MissionInv'
  BY MissionInvInductive DEF DisplayInv, MissionInv
<1>a. "server" \in Users /\ todo["server"] \in Seq(Ops) /\ Meant \in [Color -> BOOLEAN]
  BY <1>0 DEF TypeOK, Users, Meant
<1> USE DEF connVars, globals, ledVars
<1>1. CASE Reboot
  BY <1>1 DEF Reboot, Stopping
<1>2. CASE Stopping /\ UNCHANGED <<current_mission, todo, Meant>> /\ (MissionAlive' => MissionAlive)
  BY <1>2 DEF StopInv
<1>3. ASSUME NEW u \in Users, EndTransfer(u) \/ FailTransfer(u)
      PROVE  Goal
  <2> DEFINE s == todo[u]
  <2>1. /\ s \in Seq(Ops) /\ s # <<>>
        /\ Head(s).op # "on" => Meant' = After(s, Meant)
    <3>1. s \in Seq(Ops) /\ s # <<>>
      BY <1>3, <1>0 DEF EndTransfer, FailTransfer, TypeOK
    <3>2. CASE FailTransfer(u)
      BY <1>0, <3>1, <3>2, MeantAfterFailure
    <3>3. CASE EndTransfer(u)
      <4>1. TakesEffect(Head(s))
        BY <3>3 DEF EndTransfer
      <4>2. QED
        BY <1>0, <3>1, <4>1, MeantAfter
    <3>4. QED
      BY <1>3, <3>1, <3>2, <3>3
  <2>2. \A v \in Users : todo'[v] = IF v = u THEN Tail(s) ELSE todo[v]
    BY <1>3, <1>0 DEF EndTransfer, FailTransfer, TypeOK
  <2>3. UNCHANGED <<task, server, cmd, current_mission>>
    BY <1>3 DEF EndTransfer, FailTransfer
  <2>4. Stopping /\ ~MissionAlive /\ ~MissionAlive'
    BY <2>3 DEF Stopping, StopInv, MissionAlive
  <2>8. Head(s) = s[1] /\ 1 \in 1..Len(s)
    BY <2>1
  <2>5. CASE u = "server"
    <3>1. /\ \A i \in 1..Len(s) : s[i].op # "on"
          /\ current_mission # 0 => DarkOrWill(s, Meant)
      BY <2>4, <2>5 DEF StopInv
    <3>2. todo'["server"] = Tail(s) /\ Meant' = After(s, Meant)
      BY <2>1, <2>2, <2>5, <2>8, <3>1, <1>a
    <3>3. CASE current_mission # 0
      <4>1. /\ \A i \in 1..Len(Tail(s)) : Tail(s)[i].op # "on"
            /\ DarkOrWill(Tail(s), After(s, Meant))
        BY <3>1, <3>3, <2>1, <1>a, DarkensOn
      <4>2. QED
        BY <4>1, <3>2, <2>4
    <3>4. CASE ~(current_mission # 0)
      <4>1. \A i \in 1..Len(Tail(s)) : i + 1 \in 1..Len(s) /\ Tail(s)[i] = s[i + 1]
        BY <2>1
      <4>2. QED
        BY <4>1, <3>1, <3>2, <3>4, <2>3, <2>4
    <3>5. QED
      BY <3>3, <3>4
  <2>6. CASE u # "server"
    <3>1. u \in Handles /\ OnlyReads(s)
      BY <2>4, <2>6 DEF Users, MissionAlive, DisplayInv, DisplayParts, ReadersOnly
    <3>2. Head(s).op = "read"
      BY <2>8, <3>1 DEF OnlyReads
    <3>3. Meant' = Meant /\ todo'["server"] = todo["server"]
      BY <2>1, <2>2, <2>6, <3>2, <1>a DEF After
    <3>4. QED
      BY <2>3, <2>4, <3>3 DEF StopInv
  <2>7. QED
    BY <2>5, <2>6
<1>5. CASE clear_task_handle /\ ~Reboot
  <2> DEFINE stop == IF MissionToStop \in Missions THEN display_none ELSE <<>>
  <2>1. UNCHANGED <<cmd, current_mission>> /\ server' = "write"
    BY <1>5 DEF clear_task_handle
  <2>2. todo'["server"] = stop
    <3>1. \/ todo' = [todo EXCEPT ![xHandle] = <<>>, !["server"] = stop]
          \/ todo' = [todo EXCEPT !["server"] = stop]
      BY <1>5 DEF clear_task_handle
    <3>2. QED
      BY <3>1, <1>0, <1>a DEF TypeOK
  <2>3. ~MissionAlive'
    BY <2>1, <1>0 DEF Stopping, MissionInv, NoMissionBeforeCreation
  <2>4. cmd.head = 9 /\ current_mission \in Missions \cup {0}
    BY <2>1 DEF Stopping, CommandOK
  <2>5. current_mission # 0 => stop = display_none
    BY <2>4 DEF MissionToStop
  <2>6. \A i \in 1..Len(<<>>) : <<>>[i].op # "on"
    OBVIOUS
  <2>7. QED
    BY <2>1, <2>2, <2>3, <2>5, <2>6, StopList
<1>6. CASE Written
  <2>1. UNCHANGED <<cmd, current_mission, todo, Meant, task>> /\ server = "write"
    BY <1>6 DEF Written, Meant
  <2>2. Stopping /\ (MissionAlive' => MissionAlive)
    BY <2>1 DEF Stopping, MissionAlive
  <2>3. QED
    BY <2>1, <2>2, <1>2
<1>7. CASE (do_config \/ CreateMission \/ CreateCalibration \/ get_action \/ get_id \/ Close
              \/ StartServer \/ smart_object_init \/ Listen \/ Accept) /\ ~Reboot
  <2>1. CASE do_config
    <3>1. cmd'.action = cmd.action /\ cmd'.head = IF sent = 3 THEN conn.head ELSE 0
      BY <2>1, <1>0 DEF do_config, TypeOK, Commands
    <3>2. cmd'.action = MISSION_CONFIG /\ cmd'.head = 9 => server' = "clear"
      BY <2>1, <3>1 DEF do_config, TEST, MISSION_CONFIG, CALIBRATION_CONFIG
    <3>3. QED
      BY <3>2 DEF Stopping
  <2>2. CASE CreateMission
    BY <2>2 DEF CreateMission, Stopping, CommandOK, Missions
  <2>3. CASE CreateCalibration
    BY <2>3 DEF CreateCalibration, Stopping, MISSION_CONFIG, CALIBRATION_CONFIG
  <2>4. CASE get_action \/ get_id
    <3>1. cmd = NoCommand
      BY <2>4 DEF get_action, get_id, CommandOK
    <3>2. server' \in {"config", "action"} \/ UNCHANGED cmd
      BY <2>4, <1>7 DEF get_action, get_id
    <3>3. QED
      BY <3>1, <3>2 DEF Stopping, NoCommand, MISSION_CONFIG
  <2>5. CASE (Close \/ StartServer \/ Listen \/ Accept) /\ ~Reboot
    BY <2>5 DEF Close, StartServer, Listen, Accept, Stopping
  <2>6. CASE smart_object_init /\ ~Reboot
    <3>1. UNCHANGED <<server, cmd, current_mission, todo, Meant, task>>
      BY <2>6 DEF smart_object_init, Meant
    <3>2. Stopping /\ (MissionAlive' => MissionAlive)
      BY <3>1 DEF Stopping, MissionAlive
    <3>3. QED
      BY <3>1, <3>2, <1>2
  <2>7. QED
    BY <1>7, <2>1, <2>2, <2>3, <2>4, <2>5, <2>6
<1>8. CASE Client \/ (\E u \in Users : BeginTransfer(u)) \/ UNCHANGED vars
  <2>1. UNCHANGED <<server, cmd, current_mission, todo, Meant, task>>
    BY <1>8 DEF Client, ClientSends, ClientCloses, BeginTransfer, vars, Meant
  <2>2. Stopping /\ (MissionAlive' => MissionAlive)
    BY <2>1 DEF Stopping, MissionAlive
  <2>3. QED
    BY <2>1, <2>2, <1>2
<1>9. ASSUME NEW h \in Handles, Task(h)
      PROVE  Goal
  <2>1. UNCHANGED <<server, cmd, current_mission, Meant>>
    BY <1>9 DEF Task, TaskStart, TaskLoop, CalibrationEnds, Meant
  <2>2. \A g \in Handles : task'[g].kind \in MissionKinds => task[g].kind \in MissionKinds
    BY <1>9, <1>0 DEF Task, TaskStart, TaskLoop, CalibrationEnds, TypeOK, Tasks, NoTask, MissionKinds
  <2>3. todo'["server"] = todo["server"]
    BY <1>9, <1>0, <1>a, HandlesAssumption DEF Task, TaskStart, TaskLoop, CalibrationEnds, TypeOK
  <2>4. Stopping /\ (MissionAlive' => MissionAlive)
    BY <2>1, <2>2 DEF Stopping, MissionAlive
  <2>5. QED
    BY <2>1, <2>3, <2>4 DEF StopInv
<1>11. CASE get_config
  BY <1>11, <1>1, <1>7 DEF get_config
<1>10. QED
  BY <1>1, <1>3, <1>5, <1>6, <1>7, <1>8, <1>9, <1>11 DEF Next, Server, Bus

(* When the server is done with a stop no mission runs, nobody is left who *)
(* would light anything, and a colour that is lit is one whose darkening   *)
(* write the bus did not take: the stop has tried each one.                *)
THEOREM StopDarkensHolds == Spec => []StopDarkens
<1>1. Init => CommandOK /\ StopInv
  BY DEF Init, CommandOK, StopInv, Stopping, MISSION_CONFIG, NoCommand
<1>2. DisplayInv => TypeOK /\ Started
  BY DEF DisplayInv, MissionInv
<1>3. DisplayInv /\ CommandOK /\ StopInv /\ [Next]_vars => CommandOK' /\ StopInv'
  BY <1>2, CommandInductive, StopInductive
<1>4. DisplayInv /\ CommandOK /\ StopInv => StopDarkens
  <2> SUFFICES ASSUME DisplayInv, CommandOK, StopInv,
                      server = "close", cmd.action = MISSION_CONFIG, cmd.head = 9
               PROVE  /\ ~MissionAlive
                      /\ current_mission # 0 =>
                           /\ Lit \subseteq lost
                           /\ \A u \in Users : \A i \in 1..Len(todo[u]) : todo[u][i].op = "read"
    BY DEF StopDarkens
  <2>1. Stopping /\ ~MissionAlive /\ todo["server"] = <<>>
    BY DEF Stopping, StopInv, DisplayInv, DisplayParts, ServerWaits
  <2>2. \A u \in Users : OnlyReads(todo[u])
    BY <2>1 DEF Users, MissionAlive, DisplayInv, DisplayParts, ReadersOnly, OnlyReads
  <2>3. ASSUME DarkOrWill(todo["server"], Meant)
        PROVE  Lit \subseteq lost
    <3>1. Len(todo["server"]) = 0
      BY <2>1
    <3>2. \A c \in Color : ~Meant[c]
      BY <2>3, <3>1 DEF DarkOrWill, Darkens
    <3>3. QED
      BY <3>2 DEF Meant, Lit
  <2>4. QED
    BY <2>1, <2>2, <2>3 DEF StopInv, OnlyReads
<1>5. QED
  BY <1>1, <1>3, <1>4, DisplayInvHolds, PTL DEF Spec
=============================================================================
