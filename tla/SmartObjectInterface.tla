------------------------ MODULE SmartObjectInterface ------------------------
(***************************************************************************)
(* The graphical interface (Controller.java, SmartObject.java) and what    *)
(* its messages make the smart objects show (test and do_config_mission    *)
(* of main.c). The interface keeps for each object it was told of the      *)
(* colour, brightness, configuration and group it believes in (and the     *)
(* mission, which it only displays),                                       *)
(* changes them before it sends, and never asks the object. Its windows    *)
(* are not modal: a dialog stays open while another object or group is     *)
(* selected, and acts on what is selected when it is used. To close one,   *)
(* which a dialog also does when it was used, is not to use it again.      *)
(*                                                                         *)
(* A message is the sequence of its digits; an object has Leds of them.    *)
(***************************************************************************)
EXTENDS Naturals, Sequences, SequencesExt, FiniteSetsExt

CONSTANTS Addresses, Leds, Groups, Colors, Brightnesses, Missions,  \* what the user enters
          Dialogs,     \* the dialogs the user opens
          MaxObjects   \* rows of the table

ASSUME InterfaceAssumption ==
  /\ Leds \in Nat \ {0} /\ MaxObjects \in Nat
  /\ Groups \subseteq Nat /\ Colors \subseteq 0..3
  /\ Brightnesses \subseteq 0..999 /\ Missions \subseteq {1, 2, 3, 8, 9}
  /\ Dialogs \subseteq {"Color", "Mission", "Config", "Brightness", "Group", "Message",
                        "GroupColor", "GroupMission", "GroupConfig", "GroupBrightness", "GroupMessage"}

VARIABLES
  smart_object_list,         \* the rows: what the interface believes of each object
  actual_smart_object,       \* the selected row, 0 when null
  actual_smart_object_list,  \* Table, or the rows the group had when it was selected
  windows, shownObject,      \* windows open; the row the object's window shows, 0 without one
  dialogs,                   \* windows of which dialogs were opened
  device,                    \* what the object at each address does
  chosen, misled,            \* the mission last chosen for it, 0 without one; where the messages
                             \* named another one than was chosen
  shown, unsent              \* row whose colours a device shows; rows changed but not sent

selectVars == <<actual_smart_object, actual_smart_object_list, windows, shownObject, dialogs>>
deviceVars == <<device, chosen, misled, shown, unsent>>
vars == <<smart_object_list, selectVars, deviceVars>>

Table == <<0>>   \* smart_object_list itself, with the rows it has now
Rows == 1..Len(smart_object_list)
Bits == {0, 1}

(* A window of the object or of the group is the parent of a dialog; the   *)
(* brightness and the message are entered in that window itself.           *)
GroupDialogs == {"GroupColor", "GroupMission", "GroupConfig", "GroupBrightness", "GroupMessage"}
Parent(d) == IF d \in GroupDialogs THEN "many" ELSE "object"
Inline == {"Brightness", "Message", "GroupBrightness", "GroupMessage"}
Usable(d) == d \in Dialogs /\ Parent(d) \in IF d \in Inline THEN windows ELSE dialogs

-----------------------------------------------------------------------------
(* The messages *)
Decimal(n) ==
  IF n < 10 THEN <<n>>
  ELSE IF n < 100 THEN <<n \div 10, n % 10>>
  ELSE <<n \div 100, (n \div 10) % 10, n % 10>>
Zeros(n) == [k \in 1..n |-> 0]

\* faulty variant: the brightness is left out
ColorOnly(o) == <<o.color>> \o o.Configuration
ColorMessage(o) ==
  IF o.color # 0 THEN <<o.color>> \o Decimal(o.brightness) \o o.Configuration
                 ELSE Zeros(4 + Leds)

(* Java adds the two numbers before it appends the zeros. *)
MissionMessage(o, mission) ==
  CASE mission = 0 -> Zeros(12)
    [] mission = 1 -> <<1 + o.color>> \o Zeros(10)
    [] OTHER       -> Decimal(mission) \o Zeros(11)

(* test: the first digit is the colour, three of brightness and one for    *)
(* each LED follow; what is missing at the end reads as no digit, or 0.    *)
(* How bright the LEDs become is left out: the three digits fill an array  *)
(* that has no room for their end, and atoi reads on behind it.            *)
Dark == [color |-> 0, lit |-> {}]
TestOf(digits) ==
  LET at(k) == IF k <= Len(digits) THEN digits[k] ELSE 0
      lit == {i \in 1..Leds : at(4 + i) = 1}
  IN  IF digits[1] = 0 \/ lit = {} THEN Dark ELSE [color |-> digits[1], lit |-> lit]

(* With a mission running, or maybe running, it is up to that what the     *)
(* LEDs show after a test; do_config_mission looks at the first digit: it  *)
(* runs one of these missions, stops it at 9, and passes over the others.  *)
Runnable == {1, 2, 3, 8}
Commands == Runnable \cup {9}
Doing(what, mission, leds) == [doing |-> what, mission |-> mission, leds |-> leds]

\* faulty variant: a test ends the mission
TestEndsMission(d, digits) == Doing("test", 0, TestOf(digits))
AfterTest(d, digits) ==
  IF d.doing \in {"mission", "unknown"} THEN d ELSE Doing("test", 0, TestOf(digits))

AfterMission(digit) ==
  IF digit = 9 THEN Doing("nothing", 0, Dark) ELSE Doing("mission", digit, Dark)

-----------------------------------------------------------------------------
(* The handlers that send: each row of targets is changed and then sent,   *)
(* in order, up to the first whose object cannot be reached: told of them  *)
(* hear of it. Several rows may be of one object, which hears them all.    *)
Reached(targets, told) == {targets[j] : j \in 1..told}
Touched(targets, told) == Reached(targets, Min({told + 1, Len(targets)}))
Senders(targets, told, a) == {i \in Reached(targets, told) : smart_object_list[i].Id = a}

Send(targets, told, rows) ==
  /\ smart_object_list' = [i \in Rows |-> IF i \in Touched(targets, told) THEN rows[i]
                                                                        ELSE smart_object_list[i]]
  /\ UNCHANGED selectVars

SendColors(targets, told, rows) ==
  /\ Send(targets, told, rows)
  /\ device' = [a \in Addresses |->
                 LET senders == Senders(targets, told, a)
                 IN  IF senders = {} THEN device[a] ELSE AfterTest(device[a], ColorMessage(rows[Max(senders)]))]
  /\ shown' = [a \in Addresses |-> LET senders == Senders(targets, told, a)
                                   IN  IF senders = {} THEN shown[a] ELSE Max(senders)]
  /\ unsent' = (unsent \ Reached(targets, told))
                 \cup (Touched(targets, told) \ Reached(targets, told))
  /\ UNCHANGED <<chosen, misled>>

(* Of the messages an object hears the last one counts that it acts on.    *)
Digit(i, mission) == MissionMessage(smart_object_list[i], mission)[1]
Acting(targets, told, mission, a) ==
  {i \in Senders(targets, told, a) : Digit(i, mission) \in Commands}

SendMission(targets, told, mission) ==
  /\ Send(targets, told, smart_object_list)
  /\ device' = [a \in Addresses |->
                 LET acting == Acting(targets, told, mission, a)
                 IN  IF acting = {} THEN device[a] ELSE AfterMission(Digit(Max(acting), mission))]
  /\ UNCHANGED <<shown, unsent>>

(* What the user chose, and whether the message of mission 1, to which the *)
(* colour is added, named it.                                              *)
Choose(targets, told, mission) ==
  LET heard == {a \in Addresses : Senders(targets, told, a) # {}}
      named(a) == \E i \in Acting(targets, told, mission, a) :
                    i = Max(Acting(targets, told, mission, a)) /\ Digit(i, mission) = mission
  IN  /\ chosen' = [a \in Addresses |-> IF a \notin heard THEN chosen[a]
                                        ELSE IF mission \in Runnable THEN mission ELSE 0]
      /\ misled' = (misled \ heard) \cup {a \in heard : mission = 1 /\ ~named(a)}

(* The rows as a dialog would change all of them. *)
WithColor(color) == [i \in Rows |-> [smart_object_list[i] EXCEPT !.color = color]]
WithConfiguration(config) == [i \in Rows |-> [smart_object_list[i] EXCEPT !.Configuration = config[i]]]
WithBrightness(brightness) == [i \in Rows |-> [smart_object_list[i] EXCEPT !.brightness = brightness]]

(* One object; without a selection the handler fails and nothing happens.  *)
One == <<actual_smart_object>>
Uses(d) == Usable(d) /\ actual_smart_object # 0

SetColor ==
  /\ Uses("Color")
  /\ \E color \in Colors, told \in 0..1 : SendColors(One, told, WithColor(color))

SetMission ==
  /\ Uses("Mission")
  /\ \E mission \in Missions, told \in 0..1 :
       SendMission(One, told, mission) /\ Choose(One, told, mission)

changeConfig(config, prevConfig) == [prevConfig EXCEPT ![config] = 1 - @]

SetConfig ==
  /\ Uses("Config")
  /\ \E config \in 1..Leds, told \in 0..1 :
       SendColors(One, told, WithConfiguration(
         [i \in Rows |-> changeConfig(config, smart_object_list[i].Configuration)]))

SetBrightness ==
  /\ Uses("Brightness")
  /\ \E brightness \in Brightnesses, told \in 0..1 :
       SendColors(One, told, WithBrightness(brightness))

(* What the user types goes out as it is, and may be anything.             *)
SendFree(targets, told) ==
  LET heard == {a \in Addresses : Senders(targets, told, a) # {}}
  IN  /\ device' = [a \in Addresses |-> IF a \in heard THEN Doing("unknown", 0, Dark) ELSE device[a]]
      /\ chosen' = [a \in Addresses |-> IF a \in heard THEN 0 ELSE chosen[a]]
      /\ UNCHANGED <<smart_object_list, selectVars, misled, shown, unsent>>

SendMessage ==
  /\ Uses("Message")
  /\ \E told \in 0..1 : SendFree(One, told)

AddToGroup ==
  /\ Uses("Group")
  /\ \E g \in Groups :
       smart_object_list' = [smart_object_list EXCEPT ![actual_smart_object].group = g]
  /\ UNCHANGED <<selectVars, deviceVars>>

-----------------------------------------------------------------------------
(* Many objects *)
Members ==
  IF actual_smart_object_list = Table THEN [i \in Rows |-> i] ELSE actual_smart_object_list

SetGroupColor ==
  /\ Usable("GroupColor")
  /\ \E color \in Colors, told \in 0..Len(Members) : SendColors(Members, told, WithColor(color))

SetGroupMission ==
  /\ Usable("GroupMission")
  /\ \E mission \in Missions, told \in 0..Len(Members) :
       SendMission(Members, told, mission) /\ Choose(Members, told, mission)

(* The configuration of the first row, changed, goes to all of them. *)
\* faulty variant: each row's own configuration is changed
EachItsOwn(config) == [i \in Rows |-> changeConfig(config, smart_object_list[i].Configuration)]
ForGroup(config) ==
  [i \in Rows |-> changeConfig(config, smart_object_list[Members[1]].Configuration)]

SetGroupConfig ==
  /\ Usable("GroupConfig") /\ Members # <<>>
  /\ \E config \in 1..Leds, told \in 0..Len(Members) :
       SendColors(Members, told, WithConfiguration(ForGroup(config)))

(* The brightness is sent as if it were a mission; the user chose none.    *)
SetGroupBrightness ==
  /\ Usable("GroupBrightness")
  /\ \E brightness \in Brightnesses, told \in 0..Len(Members) :
       /\ SendMission(Members, told, brightness)
       /\ misled' = misled \cup {a \in Addresses : Acting(Members, told, brightness, a) # {}}
       /\ UNCHANGED chosen

SendGroupMessage ==
  /\ Usable("GroupMessage")
  /\ \E told \in 0..Len(Members) : SendFree(Members, told)

-----------------------------------------------------------------------------
(* The table, the selection and the windows *)
CreateSmartObject ==
  /\ Len(smart_object_list) < MaxObjects
  /\ \E id \in Addresses :
       smart_object_list' = Append(smart_object_list,
         [Id |-> id, group |-> 0, color |-> 0, Configuration |-> [k \in 1..Leds |-> 1],
          brightness |-> 255])
  /\ UNCHANGED <<selectVars, deviceVars>>

\* faulty variant: a window that is open is used again
KeepWindow(i) == IF "object" \in windows THEN shownObject ELSE i
NewWindow(i) == i

(* With no row selected the selection is lost and the windows stay. *)
Select ==
  /\ \E i \in {0} \cup Rows :
       /\ actual_smart_object' = i
       /\ IF i = 0 THEN UNCHANGED <<windows, shownObject>>
                   ELSE windows' = {"object"} /\ shownObject' = NewWindow(i)
  /\ UNCHANGED <<smart_object_list, actual_smart_object_list, dialogs, deviceVars>>

SelectMany(list) ==
  /\ UNCHANGED <<smart_object_list, actual_smart_object, dialogs, deviceVars>>
  /\ actual_smart_object_list' = list
  /\ windows' = (IF Members' = <<>> THEN {} ELSE {"many"}) /\ shownObject' = 0

(* The rows of a set in the order of the table. *)
InOrder(set) ==
  {list \in [1..Cardinality(set) -> set] : \A j, k \in DOMAIN list : j < k => list[j] < list[k]}

SelectGroup ==
  \E g \in Groups : \E list \in InOrder({i \in Rows : smart_object_list[i].group = g}) :
    SelectMany(list)

SelectAll == SelectMany(Table)

OpenWindow ==
  /\ \E w \in windows : dialogs' = dialogs \cup {w}
  /\ UNCHANGED <<smart_object_list, actual_smart_object, actual_smart_object_list, windows, shownObject,
                 deviceVars>>

UserCloses ==
  /\ \E w \in windows :
       windows' = windows \ {w} /\ shownObject' = IF w = "object" THEN 0 ELSE shownObject
  /\ UNCHANGED <<smart_object_list, actual_smart_object, actual_smart_object_list, dialogs, deviceVars>>

Init ==
  /\ smart_object_list = <<>> /\ actual_smart_object = 0
  /\ actual_smart_object_list = Table
  /\ windows = {} /\ shownObject = 0 /\ dialogs = {}
  /\ device = [a \in Addresses |-> Doing("nothing", 0, Dark)]
  /\ chosen = [a \in Addresses |-> 0] /\ misled = {}
  /\ shown = [a \in Addresses |-> 0] /\ unsent = {}

OneObject == SetColor \/ SetMission \/ SetConfig \/ SetBrightness \/ SendMessage \/ AddToGroup
ManyObjects ==
  SetGroupColor \/ SetGroupMission \/ SetGroupConfig \/ SetGroupBrightness \/ SendGroupMessage

Next ==
  \/ OneObject \/ ManyObjects
  \/ CreateSmartObject \/ Select \/ SelectGroup \/ SelectAll \/ OpenWindow \/ UserCloses

Spec == Init /\ [][Next]_vars

-----------------------------------------------------------------------------
Objects == [Id : Addresses, group : Groups \cup {0}, color : Colors \cup {0},
            Configuration : [1..Leds -> Bits], brightness : Brightnesses \cup {255}]

(* The tables hold what the code puts in them, and rows only name rows. *)
TypeOK ==
  /\ smart_object_list \in Seq(Objects)
  /\ actual_smart_object \in {0} \cup Rows /\ shownObject \in {0} \cup Rows
  /\ actual_smart_object_list \in {Table} \cup Seq(Rows)
  /\ windows \subseteq {"object", "many"} /\ dialogs \subseteq {"object", "many"}
  /\ device \in [Addresses -> [doing : {"nothing", "test", "mission", "unknown"}, mission : Runnable \cup {0},
                              leds : [color : Colors \cup {0}, lit : SUBSET (1..Leds)]]]
  /\ chosen \in [Addresses -> Runnable \cup {0}] /\ misled \subseteq Addresses
  /\ shown \in [Addresses -> {0} \cup Rows] /\ unsent \subseteq Rows

(* What the interface believes a test sets.                                *)
Believed(o) ==
  LET lit == {i \in 1..Leds : o.Configuration[i] = 1}
  IN  IF o.color = 0 \/ lit = {} THEN Dark ELSE [color |-> o.color, lit |-> lit]

Hundreds == 100..999

(* After any sequence of changes, of one row or of many, that reach their  *)
(* objects or not, a device has set the LEDs, in the colour, that the row  *)
(* holds which spoke to it last, if that managed to send what it holds and *)
(* no mission runs or may run: test finds colour and LEDs where            *)
(* SendColorMessage wrote them, when the brightness has three digits.      *)
InStep ==
  \A a \in Addresses :
    LET o == smart_object_list[shown[a]]
    IN  device[a].doing = "test" /\ shown[a] # 0 /\ shown[a] \notin unsent
          /\ o.brightness \in Hundreds => device[a].leds = Believed(o)

RunsFor(addresses) ==
  \A a \in addresses :
    chosen[a] # 0 => device[a].doing = "mission" /\ device[a].mission = chosen[a]

(* An object runs the mission that was last chosen for it, by whichever    *)
(* row and alone or in a group, whatever colours, configurations and       *)
(* brightness are sent to it meanwhile. Not so where a message named       *)
(* another mission than the user chose: the one for mission 1 names the    *)
(* sum with the colour, and the brightness of a group that begins with the *)
(* digit of a mission or of the stop is obeyed as such.                    *)
RunsChosen == RunsFor(Addresses \ misled)

(* "Launch a given mission" and "Change the brightness" are two actions of *)
(* the interface, and mission 1 has a colour besides its number: an object *)
(* runs the mission last chosen for it in any colour, and after any other  *)
(* action than a free message. (The code does not keep this.)              *)
RunsLaunched == RunsFor(Addresses)

(* The window of an object shows the one the handlers act on.              *)
ActsOnShown == "object" \in windows /\ actual_smart_object # 0 => shownObject = actual_smart_object

Reconfigured(i) == smart_object_list[i].Configuration # smart_object_list'[i].Configuration

(* A change of the configuration of a group that reaches all its objects   *)
(* leaves them all with the same one, whatever they had before.            *)
GroupAlike ==
  [][(\E i \in Rows : Reconfigured(i)) /\ SetGroupConfig
         /\ (\A j \in 1..Len(Members) : Members[j] \notin unsent') =>
       \A j, k \in 1..Len(Members) :
         smart_object_list'[Members[j]].Configuration = smart_object_list'[Members[k]].Configuration]_vars
=============================================================================
