------------------------- MODULE SmartObjectDriver -------------------------
(***************************************************************************)
(* The firmware of the smart object (smart_object_driver/main): app_main,  *)
(* the TCP server task that serves one client at a time, the mission and   *)
(* calibration tasks it creates and deletes, and the I2C bus all of them   *)
(* use to reach the LED driver and the sensors.                            *)
(*                                                                         *)
(* Task handles are addresses of task control blocks: the block of a       *)
(* deleted task is free again, and a later task may get the same address.  *)
(* The 24 LED channels are folded into the three colours (channel mod 3),  *)
(* because every writer addresses the channels of one colour or all of     *)
(* them.  What a mission computes from its sensors is left open here: it   *)
(* may show any colour its code can show, at any time.                     *)
(***************************************************************************)
EXTENDS Naturals, Sequences, FiniteSets

CONSTANTS Handles,   \* addresses the heap can give to a task control block
          NULL,      \* the null handle
          Messages   \* what clients send, see Message

Digits == 0..9
Color  == 0..2
Missions == {1, 2, 3, 8}

(* One connection: the id byte, the action byte and the first two digits   *)
(* of the configuration; the client sends the first len of the three       *)
(* fields before it closes.                                                *)
Message == [id : Digits, action : Digits, head : Digits, arg : Digits, len : 0..3]

ASSUME HandlesAssumption  == NULL \notin Handles /\ "server" \notin Handles
                             /\ "free" \notin Handles /\ "orphan" \notin Handles
ASSUME MessagesAssumption == Messages \subseteq Message

identifier == 1
START == 1
STOP == 2
RESTART == 3
TEST == 4
MISSION_CONFIG == 5
CALIBRATION_CONFIG == 6

(* A failed accept() yields socket 1, on which nothing is ever received. *)
NoClient == [id |-> 0, action |-> 0, head |-> 0, arg |-> 0, len |-> 0]

Commands == [action : Digits, head : Digits, arg : Digits]
NoCommand == [action |-> 0, head |-> 0, arg |-> 0]

Users == Handles \cup {"server"}

VARIABLES
  main,       \* app_main: "start", "init" (server task created), "done"
  installed,  \* the I2C driver is installed
  server,     \* where tcp_server_task is
  conn, sent, closed,   \* the connection: message, fields sent, client closed
  cmd,        \* the action and the configuration the server has read
  xHandle, current_mission, argsColor,  \* the globals of main.c
  task,       \* the task each handle stands for
  todo,       \* bus transactions each user of the bus still has to do
  bus,        \* "free", the user in a transaction, or "orphan"
  led,        \* the channels of a colour are lit
  lost,       \* history: the lit colours whose last write, which was to
              \* darken them, failed
  disturbed   \* history: a test has run over a mission

connVars == <<conn, sent, closed>>
globals == <<xHandle, current_mission, argsColor>>
ledVars == <<led, lost, disturbed>>
vars == <<main, installed, server, conn, sent, closed, cmd, xHandle,
          current_mission, argsColor, task, todo, bus, led, lost, disturbed>>

NoTask == [kind |-> "none", started |-> FALSE]
Kinds == {"none", "m1", "m2", "m3", "m8", "white", "black"}
MissionKinds == {"m1", "m2", "m3", "m8"}
KindOf(n) == CASE n = 1 -> "m1" [] n = 2 -> "m2" [] n = 3 -> "m3" [] OTHER -> "m8"
Tasks == [kind : Kinds, started : BOOLEAN]
Fresh(k) == [kind |-> k, started |-> FALSE]

Lit == {c \in Color : led[c]}

-----------------------------------------------------------------------------
(* Bus transactions.  A transaction holds the bus between BeginTransfer    *)
(* and EndTransfer.                                                        *)
Off(c) == [op |-> "off", ch |-> c]
On(c)  == [op |-> "on",  ch |-> c]
Read   == [op |-> "read", ch |-> 0]
Ops    == [op : {"off", "on", "read"}, ch : Color]

display_none == <<Off(0), Off(1), Off(2)>>
\* faulty variant: a new colour is shown over the old one
ShowWithoutDark(c) == <<On(c)>>
display_color_behavior(c) == Append(display_none, On(c))
test(head, lit) == IF lit THEN display_color_behavior(IF head \in {2, 3} THEN head - 1 ELSE 0)
                   ELSE display_none

BeginTransfer(u) ==
  /\ todo[u] # <<>>
  /\ installed
  /\ bus = "free"
  /\ bus' = u
  /\ UNCHANGED <<main, installed, server, connVars, cmd, globals, task, todo, ledVars>>

TakesEffect(t) ==
  /\ led' = IF t.op = "read" THEN led ELSE [led EXCEPT ![t.ch] = (t.op = "on")]
  /\ lost' = IF t.op = "read" THEN lost ELSE lost \ {t.ch}

EndTransfer(u) ==
  /\ bus = u
  /\ todo[u] # <<>>
  /\ bus' = "free"
  /\ TakesEffect(Head(todo[u]))
  /\ todo' = [todo EXCEPT ![u] = Tail(@)]
  /\ UNCHANGED <<main, installed, server, connVars, cmd, globals, task, disturbed>>

(* The transaction fails, at any time: nobody acknowledges, the bus times  *)
(* out, there is no memory for the commands, no driver is installed, the   *)
(* lock was not free for 1000 ms.  write_to and read_from return false,    *)
(* and no caller looks at it.                                              *)
FailTransfer(u) ==
  /\ todo[u] # <<>>
  /\ LET t == Head(todo[u])
     IN lost' = IF t.op = "off" /\ led[t.ch] THEN lost \cup {t.ch} ELSE lost
  /\ bus' = IF bus = u THEN "free" ELSE bus
  /\ todo' = [todo EXCEPT ![u] = Tail(@)]
  /\ UNCHANGED <<main, installed, server, connVars, cmd, globals, task, led, disturbed>>

(* It fails in any case when no driver is installed, or when the lock of   *)
(* the bus belongs to a deleted task and the wait runs out.                *)
\* faulty variant: the wait for the bus has no timeout
WaitForBusForEver == ~installed
TransferFails == ~installed \/ bus = "orphan"

Refused(u) == TransferFails /\ FailTransfer(u)

-----------------------------------------------------------------------------
(* esp_restart(), a failed ESP_ERROR_CHECK and a panic: everything but the *)
(* LED driver chip starts again.                                           *)
Reboot ==
  /\ main' = "start"
  /\ installed' = FALSE
  /\ server' = "off"
  /\ conn' = NoClient /\ sent' = 0 /\ closed' = TRUE
  /\ cmd' = NoCommand
  /\ xHandle' = NULL /\ current_mission' = 0 /\ argsColor' = 0
  /\ task' = [h \in Handles |-> NoTask]
  /\ todo' = [u \in Users |-> <<>>]
  /\ bus' = "free"
  /\ UNCHANGED ledVars

(* app_main once the station is set up: the server task, then the devices. *)
StartServer ==
  /\ main = "start"
  /\ main' = "init"
  /\ server' = "listen"
  /\ UNCHANGED <<installed, connVars, cmd, globals, task, todo, bus, ledVars>>

smart_object_init ==
  /\ main = "init"
  /\ IF installed THEN Reboot
     ELSE /\ installed' = TRUE
          /\ main' = "done"
          /\ UNCHANGED <<server, connVars, cmd, globals, task, todo, bus, ledVars>>

(* tcp_server_init; when it fails the task function returns, which aborts. *)
Listen ==
  /\ server = "listen"
  /\ \/ /\ server' = "accept"
        /\ UNCHANGED <<main, installed, connVars, cmd, globals, task, todo, bus, ledVars>>
     \/ Reboot

-----------------------------------------------------------------------------
(* The client of the connection. *)
ClientSends ==
  /\ ~closed /\ sent < conn.len
  /\ sent' = sent + 1
  /\ UNCHANGED <<main, installed, server, conn, closed, cmd, globals, task, todo, bus, ledVars>>

ClientCloses ==
  /\ ~closed
  /\ closed' = TRUE
  /\ UNCHANGED <<main, installed, server, conn, sent, cmd, globals, task, todo, bus, ledVars>>

(* tcp_socket_listening *)
Accept ==
  /\ server = "accept"
  /\ server' = "id"
  /\ \/ /\ conn' \in Messages
        /\ closed' = FALSE
     \/ /\ conn' = NoClient
        /\ closed' = TRUE
  /\ sent' = 0
  /\ UNCHANGED <<main, installed, cmd, globals, task, todo, bus, ledVars>>

(* A one-byte recv(): it waits for the byte, or for the end of the stream, *)
(* and then the buffer on the stack was never written.                     *)
Received(n, field) == IF sent >= n THEN {field} ELSE IF closed THEN Digits ELSE {}

get_id ==
  /\ server = "id"
  /\ \E id \in Received(1, conn.id) :
       server' = IF id \in {identifier, 0} THEN "action" ELSE "close"
  /\ UNCHANGED <<main, installed, connVars, cmd, globals, task, todo, bus, ledVars>>

get_action ==
  /\ server = "action"
  /\ \E num \in Received(2, conn.action) :
       \/ /\ \/ num = RESTART
             \/ num = START /\ installed   \* i2c_driver_install refuses a second time
          /\ Reboot
       \/ /\ num = START /\ ~installed
          /\ installed' = TRUE
          /\ server' = "close"
          /\ UNCHANGED <<main, connVars, cmd, globals, task, todo, bus, ledVars>>
       \/ /\ num \in {TEST, MISSION_CONFIG, CALIBRATION_CONFIG}
          /\ server' = "config"
          /\ cmd' = [cmd EXCEPT !.action = num]
          /\ UNCHANGED <<main, installed, connVars, globals, task, todo, bus, ledVars>>
       \/ /\ num \notin {START, RESTART, TEST, MISSION_CONFIG, CALIBRATION_CONFIG}
          /\ server' = "close"
          /\ UNCHANGED <<main, installed, connVars, cmd, globals, task, todo, bus, ledVars>>

(* get_config asks for 13 bytes, so a configuration of 12 is complete when *)
(* the client closes; without one the number is 0.  Then test(),           *)
(* do_config_mission() and do_config_calibration() look at its digits.     *)
(* When the connection is reset instead, recv() returns -1: before the     *)
(* configuration that is the end of it as well, but behind 12 digits len   *)
(* counts down from 12 and they are appended to config[13] a dozen times,  *)
(* over the frames of the task, which panics.                              *)
MissionAlive == \E h \in Handles : task[h].kind \in MissionKinds

do_config ==
  /\ LET head == IF sent = 3 THEN conn.head ELSE 0
         arg  == IF sent = 3 THEN conn.arg  ELSE 0
     IN /\ cmd' = [cmd EXCEPT !.head = head, !.arg = arg]
        /\ \/ /\ cmd.action = TEST
              /\ server' = "write"
              /\ todo' = [todo EXCEPT !["server"] = test(head, arg # 0)]
              /\ disturbed' = (disturbed \/ MissionAlive)
              /\ UNCHANGED argsColor
           \/ /\ cmd.action = MISSION_CONFIG
              /\ server' = IF head \in Missions \cup {9} THEN "clear" ELSE "close"
              /\ argsColor' = IF head = 1 THEN arg ELSE argsColor
              /\ UNCHANGED <<todo, disturbed>>
           \/ /\ cmd.action = CALIBRATION_CONFIG
              /\ server' = CASE head \in {1, 2} -> "create" [] head = 3 -> "write"
                                [] OTHER -> "close"
              /\ todo' = [todo EXCEPT !["server"] = IF head = 3 THEN <<Read>> ELSE <<>>]
              /\ UNCHANGED <<argsColor, disturbed>>
  /\ UNCHANGED <<main, installed, connVars, xHandle, current_mission, task, bus, led, lost>>

get_config ==
  /\ server = "config"
  /\ closed
  /\ \/ do_config
     \/ sent = 3 /\ Reboot

(* clear_task_handle: the handle is not reset, so it may name no task any  *)
(* more, or another one.  Deleting a freed block corrupts the scheduler's  *)
(* lists or does nothing.  A transaction of the deleted task may still be  *)
(* carried out, by the interrupt handler of the driver.                    *)
\* faulty variant: a stop looks at its own digit, 9
StopByDigit == cmd.head
MissionToStop == IF cmd.head = 9 THEN current_mission ELSE cmd.head

Exists(h) == h # NULL /\ task[h].kind # "none"

clear_task_handle ==
  /\ server = "clear"
  /\ LET stop == IF MissionToStop \in Missions THEN display_none ELSE <<>>
     IN \/ /\ Exists(xHandle)
           /\ task' = [task EXCEPT ![xHandle] = NoTask]
           /\ todo' = [todo EXCEPT ![xHandle] = <<>>, !["server"] = stop]
           /\ bus' = IF bus = xHandle THEN "orphan" ELSE bus
           /\ server' = "write"
           /\ \/ UNCHANGED <<led, lost>>
              \/ /\ bus = xHandle /\ todo[xHandle] # <<>>
                 /\ TakesEffect(Head(todo[xHandle]))
           /\ UNCHANGED <<main, installed, connVars, cmd, globals, disturbed>>
        \/ /\ ~Exists(xHandle)
           /\ server' = "write"
           /\ todo' = [todo EXCEPT !["server"] = stop]
           /\ UNCHANGED <<main, installed, connVars, cmd, globals, task, bus, ledVars>>
        \/ /\ xHandle # NULL /\ ~Exists(xHandle)
           /\ Reboot

(* The server has done its transfers. *)
Written ==
  /\ server = "write"
  /\ todo["server"] = <<>>
  /\ server' = IF cmd.action = MISSION_CONFIG /\ cmd.head # 9 THEN "create" ELSE "close"
  /\ UNCHANGED <<main, installed, connVars, cmd, globals, task, todo, bus, ledVars>>

(* xTaskCreate; a mission's handle goes to xHandle, a calibration's        *)
(* nowhere.  It fails when there is no memory, and nobody looks.           *)
\* faulty variant: the handle of the new mission is not stored
HandleDropped(h) == xHandle' = xHandle
StoreHandle(h) == xHandle' = h

xTaskCreate(k, h) ==
  /\ task[h].kind = "none"
  /\ task' = [task EXCEPT ![h] = Fresh(k)]

CreateMission ==
  /\ server = "create"
  /\ cmd.action = MISSION_CONFIG
  /\ current_mission' = cmd.head
  /\ \/ \E h \in Handles : xTaskCreate(KindOf(cmd.head), h) /\ StoreHandle(h)
     \/ UNCHANGED <<task, xHandle>>
  /\ server' = "close"
  /\ disturbed' = (disturbed /\ Lit \ lost # {})
  /\ UNCHANGED <<main, installed, connVars, cmd, argsColor, todo, bus, led, lost>>

CreateCalibration ==
  /\ server = "create"
  /\ cmd.action = CALIBRATION_CONFIG
  /\ \/ \E h \in Handles : xTaskCreate(IF cmd.head = 1 THEN "white" ELSE "black", h)
     \/ UNCHANGED task
  /\ server' = "close"
  /\ UNCHANGED <<main, installed, connVars, cmd, globals, todo, bus, ledVars>>

Close ==
  /\ server = "close"
  /\ server' = "accept"
  /\ conn' = NoClient /\ sent' = 0 /\ closed' = TRUE
  /\ cmd' = NoCommand
  /\ UNCHANGED <<main, installed, globals, task, todo, bus, ledVars>>

-----------------------------------------------------------------------------
(* The tasks. *)
StartColors(h) ==
  IF argsColor = 3 THEN Color ELSE {argsColor % 3}

TaskStart(h) ==
  /\ task[h].kind # "none" /\ ~task[h].started
  /\ task' = [task EXCEPT ![h].started = TRUE]
  /\ \/ /\ task[h].kind = "m1"
        /\ \E c \in StartColors(h) : todo' = [todo EXCEPT ![h] = display_color_behavior(c)]
     \/ /\ task[h].kind = "m3"
        /\ todo' = [todo EXCEPT ![h] = display_color_behavior(2)]
     \/ /\ task[h].kind \notin {"m1", "m3"}
        /\ UNCHANGED todo
  /\ UNCHANGED <<main, installed, server, connVars, cmd, globals, bus, ledVars>>

(* One turn of the loop of mission 1, mission 2 or a calibration: read the *)
(* sensor and, in a mission, possibly show a colour.                       *)
LoopColors(k) == CASE k = "m1" -> Color [] k = "m2" -> {0, 2} [] OTHER -> {}

TaskLoop(h) ==
  /\ task[h].started
  /\ task[h].kind \in {"m1", "m2", "white", "black"}
  /\ todo[h] = <<>>
  /\ \/ todo' = [todo EXCEPT ![h] = <<Read>>]
     \/ \E c \in LoopColors(task[h].kind) :
          todo' = [todo EXCEPT ![h] = <<Read>> \o display_color_behavior(c)]
  /\ UNCHANGED <<main, installed, server, connVars, cmd, globals, task, bus, ledVars>>

(* A calibration has its samples, stores the means and deletes itself. *)
CalibrationEnds(h) ==
  /\ task[h].kind \in {"white", "black"} /\ task[h].started
  /\ todo[h] = <<>>
  /\ task' = [task EXCEPT ![h] = NoTask]
  /\ UNCHANGED <<main, installed, server, connVars, cmd, globals, todo, bus, ledVars>>

-----------------------------------------------------------------------------
Init ==
  /\ main = "start"
  /\ installed = FALSE
  /\ server = "off"
  /\ conn = NoClient /\ sent = 0 /\ closed = TRUE
  /\ cmd = NoCommand
  /\ xHandle = NULL /\ current_mission = 0 /\ argsColor = 0
  /\ task = [h \in Handles |-> NoTask]
  /\ todo = [u \in Users |-> <<>>]
  /\ bus = "free"
  /\ led = [c \in Color |-> FALSE]
  /\ lost = {}
  /\ disturbed = FALSE

Server == \/ Listen \/ Accept \/ get_id \/ get_action \/ get_config
          \/ clear_task_handle \/ Written \/ CreateMission \/ CreateCalibration \/ Close
Client == ClientSends \/ ClientCloses
Bus(u) == BeginTransfer(u) \/ EndTransfer(u) \/ FailTransfer(u)
Task(h) == TaskStart(h) \/ TaskLoop(h) \/ CalibrationEnds(h)

Next == \/ StartServer
        \/ smart_object_init
        \/ Server
        \/ Client
        \/ \E u \in Users : Bus(u)
        \/ \E h \in Handles : Task(h)

(* The scheduler runs every ready task; the client closes in the end; and  *)
(* since every loop of a task sleeps 100 ms between transactions that take *)
(* less than one, a user waiting for the bus gets it. A transaction need   *)
(* not fail unless it has to.                                              *)
Fairness ==
  /\ WF_vars(StartServer) /\ WF_vars(smart_object_init)
  /\ WF_vars(Server) /\ WF_vars(ClientCloses)
  /\ \A u \in Users : /\ SF_vars(BeginTransfer(u))
                      /\ WF_vars(EndTransfer(u)) /\ WF_vars(Refused(u))

Spec == Init /\ [][Next]_vars
FairSpec == Spec /\ Fairness
-----------------------------------------------------------------------------
TypeOK ==
  /\ main \in {"start", "init", "done"}
  /\ installed \in BOOLEAN
  /\ server \in {"off", "listen", "accept", "id", "action", "config", "clear",
                 "write", "create", "close"}
  /\ conn \in Message
  /\ sent \in 0..3
  /\ closed \in BOOLEAN
  /\ cmd \in Commands
  /\ xHandle \in Handles \cup {NULL}
  /\ current_mission \in Digits
  /\ argsColor \in Digits
  /\ task \in [Handles -> Tasks]
  /\ todo \in [Users -> Seq(Ops)]
  /\ bus \in Users \cup {"free", "orphan"}
  /\ led \in [Color -> BOOLEAN]
  /\ lost \subseteq Color
  /\ disturbed \in BOOLEAN

(* Although clear_task_handle never resets xHandle and a handle may come   *)
(* to name another task, whatever the commands the mission that runs is    *)
(* the one xHandle names: two missions never share the device, and the     *)
(* next command deletes the one there is.                                  *)
OneMission ==
  \A h \in Handles : task[h].kind \in MissionKinds => xHandle = h

(* What OneMission rests on: once the old mission is cleared nothing can   *)
(* create one before do_config_mission does.                               *)
NoMissionBeforeCreation ==
  (server \in {"write", "create"} /\ cmd.action = MISSION_CONFIG) => ~MissionAlive

(* The displays of successive missions never mix: two colours are lit at   *)
(* once only if the bus did not take the write that was to darken one of   *)
(* them, and until it takes one.  This holds at every instant of a         *)
(* display, across deletions at any point, across restarts (the LED chip   *)
(* keeps its state) and for commands that come before the I2C driver is    *)
(* installed, unless a TEST ran over a mission.                            *)
OneColour == ~disturbed => Cardinality(Lit \ lost) <= 1

(* When the server is done with a stop, no mission runs, nobody is about   *)
(* to light anything, and whatever is still lit is so because the bus did  *)
(* not take the write that was to darken it; a bus that was lost with the  *)
(* deleted task included.                                                  *)
StopDarkens ==
  (server = "close" /\ cmd.action = MISSION_CONFIG /\ cmd.head = 9) =>
    /\ ~MissionAlive
    /\ current_mission # 0 =>
         /\ Lit \subseteq lost
         /\ \A u \in Users : \A i \in 1..Len(todo[u]) : todo[u][i].op = "read"

(* Every client is served to the end, whatever the tasks do with the bus   *)
(* and even when it is lost: the server accepts again or restarts.         *)
ClientServed == (server = "id") ~> (server \in {"accept", "off"})
=============================================================================
