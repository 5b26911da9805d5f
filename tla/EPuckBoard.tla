----------------------------- MODULE EPuckBoard -----------------------------
(***************************************************************************)
(* A controller on a real e-puck (real_epuck_main.cpp, real_epuck.cpp):    *)
(* the program wakes the robot's PIC up over the serial line, sends it a   *)
(* configuration and then takes turns with it, sensors against actuators,  *)
(* until the time is up or a signal arrives; the destructor of CRealEPuck  *)
(* must leave the robot stopped, wherever the program was. The handler of  *)
(* the signals is also that of a segmentation fault, which it cannot end.  *)
(*                                                                         *)
(* The line carries bytes without any mark of where a packet begins; a     *)
(* packet is cut into Parts of them, which write and read may move one by  *)
(* one. Rounds are only counted to say which command a reading answers,    *)
(* modulo Rounds.                                                          *)
(***************************************************************************)
EXTENDS Naturals, Sequences

CONSTANTS Lengths,  \* steps an experiment may be configured for; 0: no limit
          Parts, Rounds,
          Faults    \* calls that may fail: open, configure, control, write, read

ASSUME BoardAssumption ==
  /\ Lengths \subseteq Nat /\ Lengths # {} /\ Parts \in Nat \ {0} /\ Rounds \in Nat \ {0}
  /\ Faults \subseteq {"open", "configure", "control", "write", "read"}

VARIABLES
  phase, fn, left,        \* main, destroy, over, aborted or faulting; the function; parts to go
  board,                  \* m_eBoardState
  fd, Reset,              \* serial port open; m_sActuatorState.Reset
  m_unExpDuration,        \* in steps; 0 without m_bTimeLimitSet
  m_unExperimentStepsLeft, synced, m_bGoHome,
  m_pcController,
  m_pcOmnidirectionalCameraSensor,  \* unset, or usable: a camera, or NULL by luck
  sensed, sent,           \* command the sensor state held answers; commands sent
  toPic, fromPic,         \* parts on the line
  pic, part, acted,       \* what the PIC does; parts it has to go; commands it obeyed
  broken                  \* a failed transfer left the two sides at different places

mainVars == <<m_unExpDuration, m_unExperimentStepsLeft, synced, m_pcController, m_pcOmnidirectionalCameraSensor>>
lineVars == <<toPic, fromPic>>
picVars == <<pic, part, acted>>
boardVars == <<phase, fn, left, board, fd, Reset, mainVars, m_bGoHome, sensed, sent, lineVars, picVars, broken>>

Functions == {"InitSerial", "WakeUpPic", "SendSensorConfiguration", "InitController",
              "SyncControlStep", "IsExperimentFinished", "ReceiveSensorData", "ControlStep",
              "SendActuatorData", "ResetPic30", "DestroySerial", "delete", "none"}
Sends == {"WakeUpPic", "SendSensorConfiguration", "SendActuatorData"}
Transfers == Sends \cup {"ReceiveSensorData"}

(* The states of the board in which a function is not out of sync.         *)
\* faulty variant: sensors are only received after the configuration
ReceiveOnce ==
  CASE fn = "InitSerial"              -> board = "WAITING"
    [] fn = "WakeUpPic"               -> board = "INITIALIZATION"
    [] fn = "SendSensorConfiguration" -> board = "WAKE_UP"
    [] fn = "ReceiveSensorData"       -> board = "SENDING_CONFIGURATION"
    [] fn = "SendActuatorData"        -> board = "RECEIVE"
    [] OTHER                          -> TRUE
InSync ==
  CASE fn = "InitSerial"              -> board = "WAITING"
    [] fn = "WakeUpPic"               -> board = "INITIALIZATION"
    [] fn = "SendSensorConfiguration" -> board = "WAKE_UP"
    [] fn = "ReceiveSensorData"       -> board \in {"SENDING_CONFIGURATION", "SEND"}
    [] fn = "SendActuatorData"        -> board = "RECEIVE"
    [] OTHER                          -> TRUE

(* The order in which the functions are called. *)
InMain(f) ==
  CASE f = "InitSerial"              -> "WakeUpPic"
    [] f = "WakeUpPic"               -> "SendSensorConfiguration"
    [] f = "SendSensorConfiguration" -> "InitController"
    [] f = "InitController"          -> "SyncControlStep"
    [] f = "SyncControlStep"         -> IF synced THEN "SendActuatorData" ELSE "IsExperimentFinished"
    [] f = "IsExperimentFinished"    -> "ReceiveSensorData"
    [] f = "ReceiveSensorData"       -> "ControlStep"
    [] f = "ControlStep"             -> "SyncControlStep"
    [] OTHER                         -> "IsExperimentFinished"

InDestructor(f) ==
  CASE f = "ResetPic30" ->
         (CASE board = "WAKE_UP"                           -> "SendSensorConfiguration"
            [] board \in {"SENDING_CONFIGURATION", "SEND"} -> "ReceiveSensorData"
            [] OTHER                                       -> "SendActuatorData")
    [] f = "SendSensorConfiguration" -> "ReceiveSensorData"
    [] f = "ReceiveSensorData"       -> "SendActuatorData"
    [] f = "SendActuatorData"        -> "DestroySerial"
    [] OTHER                         -> "delete"

Following(f) == IF phase = "destroy" THEN InDestructor(f) ELSE InMain(f)
Continue == fn' = Following(fn) /\ left' = 0 /\ UNCHANGED phase

(* An exception ends main, and the exit destroys the instance; in the      *)
(* destructor it ends the program at once.                                 *)
Throw ==
  /\ left' = 0
  /\ IF phase = "destroy" THEN phase' = "aborted" /\ fn' = "none"
                          ELSE phase' = "destroy" /\ fn' = "ResetPic30"

(* Any other exception, or a division by zero, ends the program where it is, without its destructors. *)
Abort == left' = 0 /\ phase' = "aborted" /\ fn' = "none"

-----------------------------------------------------------------------------
(* Init of the robot *)
OutOfSync ==
  /\ left = 0 /\ ~InSync
  /\ Continue
  /\ UNCHANGED <<board, fd, Reset, mainVars, m_bGoHome, sensed, sent, lineVars, picVars, broken>>

InitSerial ==
  /\ fn = "InitSerial" /\ InSync
  /\ board' = "INITIALIZATION"
  /\ \/ /\ fd' = TRUE /\ Reset' = "N" /\ fromPic' = <<>>
        /\ Continue
     \/ /\ "open" \in Faults
        /\ fd' \in BOOLEAN
        /\ Throw
        /\ UNCHANGED <<Reset, fromPic>>
  /\ UNCHANGED <<mainVars, m_bGoHome, sensed, sent, toPic, picVars, broken>>

(* The configuration may be wrong before or after the controller is made,  *)
(* and a division by its ticks_per_second ends the program when they are   *)
(* zero. It need not ask for a camera.                                     *)
InitController ==
  /\ fn = "InitController"
  /\ \/ /\ m_pcController' = "made"
        /\ m_unExpDuration' \in Lengths
        /\ m_unExperimentStepsLeft' = m_unExpDuration'
        /\ Continue
     \/ /\ "configure" \in Faults
        /\ m_pcController' \in {"unset", "made"}
        /\ m_unExpDuration' \in {m_unExpDuration} \cup Lengths
        /\ m_unExperimentStepsLeft' \in {m_unExperimentStepsLeft, m_unExpDuration'}
        /\ Throw \/ Abort
  /\ m_pcOmnidirectionalCameraSensor' \in {m_pcOmnidirectionalCameraSensor, "usable"}
  /\ UNCHANGED <<board, fd, Reset, synced, m_bGoHome, sensed, sent, lineVars, picVars, broken>>

-----------------------------------------------------------------------------
(* The main loop *)
\* faulty variant: the loop does not look at m_bGoHome
TimeOnly == Reset = "R" \/ (m_unExpDuration > 0 /\ m_unExperimentStepsLeft = 0)
Finished ==
  \/ Reset = "R"
  \/ m_unExpDuration > 0 /\ m_unExperimentStepsLeft = 0
  \/ m_bGoHome

IsExperimentFinished ==
  /\ fn = "IsExperimentFinished"
  /\ IF Finished
     THEN phase' = "destroy" /\ fn' = "ResetPic30" /\ left' = 0
     ELSE Continue
  /\ UNCHANGED <<board, fd, Reset, mainVars, m_bGoHome, sensed, sent, lineVars, picVars, broken>>

(* The readings are converted before the controller sees them, and a       *)
(* pointer to the camera that nothing has set is followed: the handler of  *)
(* the fault asks for the end of the loop and returns to the instruction   *)
(* that faulted, for ever.                                                 *)
Fault == left' = 0 /\ phase' = "faulting" /\ fn' = "none" /\ m_bGoHome' = TRUE

ControlStep ==
  /\ fn = "ControlStep"
  /\ IF m_pcOmnidirectionalCameraSensor = "unset"
     THEN Fault
     ELSE /\ Continue \/ ("control" \in Faults /\ (Throw \/ Abort))
          /\ UNCHANGED m_bGoHome
  /\ UNCHANGED <<board, fd, Reset, mainVars, sensed, sent, lineVars, picVars, broken>>

(* The first call only takes the time. *)
\* faulty variant: the first call counts as a step
CountFirst == m_unExpDuration > 0 /\ m_unExperimentStepsLeft > 0
Counts == synced /\ m_unExpDuration > 0

SyncControlStep ==
  /\ fn = "SyncControlStep"
  /\ m_unExperimentStepsLeft' = IF Counts THEN m_unExperimentStepsLeft - 1
                                          ELSE m_unExperimentStepsLeft
  /\ synced' = TRUE
  /\ Continue
  /\ UNCHANGED <<board, fd, Reset, m_unExpDuration, m_pcController, m_pcOmnidirectionalCameraSensor, m_bGoHome,
                 sensed, sent, lineVars, picVars, broken>>

-----------------------------------------------------------------------------
(* SendDataToPic and ReceiveDataFromPic *)
Packet == [kind |-> fn, at |-> left, reset |-> fn = "SendActuatorData" /\ Reset = "R"]

\* faulty variant: the symbol that wakes the PIC up is sent as an int
SizeOfInt == Parts
Size == IF fn = "WakeUpPic" THEN 1 ELSE Parts

(* Two of the states are entered before the packet is sent, the others     *)
(* when it is over.                                                        *)
Entering(f) ==
  CASE f = "WakeUpPic"               -> "WAKE_UP"
    [] f = "SendSensorConfiguration" -> "SENDING_CONFIGURATION"
    [] OTHER                         -> board
Leaving(f) ==
  CASE f = "SendActuatorData"  -> "SEND"
    [] f = "ReceiveSensorData" -> "RECEIVE"
    [] OTHER                   -> board

Begin ==
  /\ fn \in Transfers /\ left = 0 /\ InSync
  /\ left' = Size
  /\ board' = Entering(fn)
  /\ UNCHANGED <<phase, fn, fd, Reset, mainVars, m_bGoHome, sensed, sent, lineVars, picVars, broken>>

Moved ==
  IF left = 1 THEN Continue /\ board' = Leaving(fn)
              ELSE left' = left - 1 /\ UNCHANGED <<phase, fn, board>>

Write ==
  /\ fn \in Sends /\ left > 0
  /\ toPic' = Append(toPic, Packet)
  /\ sent' = IF fn = "SendActuatorData" /\ left = 1 THEN (sent + 1) % Rounds ELSE sent
  /\ Moved
  /\ UNCHANGED <<fd, Reset, mainVars, m_bGoHome, sensed, fromPic, picVars, broken>>

Read ==
  /\ fn = "ReceiveSensorData" /\ left > 0
  /\ fromPic # <<>>
  /\ fromPic' = Tail(fromPic)
  /\ sensed' = IF left = 1 THEN Head(fromPic).n ELSE sensed
  /\ Moved
  /\ UNCHANGED <<fd, Reset, mainVars, m_bGoHome, sent, toPic, picVars, broken>>

(* A transfer that fails before its first part does no harm in the main    *)
(* loop; later, or in a state entered before the packet is sent, the board *)
(* is taken for somewhere it is not.                                       *)
TransferFails ==
  /\ left > 0
  /\ \/ fn \in Sends /\ "write" \in Faults
     \/ fn = "ReceiveSensorData" /\ "read" \in Faults
  /\ broken' = (broken \/ left < Size \/ fn \in {"WakeUpPic", "SendSensorConfiguration"})
  /\ Throw
  /\ UNCHANGED <<board, fd, Reset, mainVars, m_bGoHome, sensed, sent, lineVars, picVars>>

-----------------------------------------------------------------------------
(* The destructor, from which on signals are ignored. *)
\* faulty variant: the actuators keep their last values
KeepActuators == Reset
Stopped == "R"

ResetPic30 ==
  /\ fn = "ResetPic30"
  /\ Reset' = Stopped
  /\ Continue
  /\ UNCHANGED <<board, fd, mainVars, m_bGoHome, sensed, sent, lineVars, picVars, broken>>

(* tcsetattr waits for the output and drops the input. *)
DestroySerial ==
  /\ fn = "DestroySerial"
  /\ fd' = FALSE
  /\ fromPic' = IF fd THEN <<>> ELSE fromPic
  /\ Continue
  /\ UNCHANGED <<board, Reset, mainVars, m_bGoHome, sensed, sent, toPic, picVars, broken>>

(* Before InitController the pointer holds whatever was in memory. *)
DeleteController ==
  /\ fn = "delete"
  /\ m_pcController' = "deleted"
  /\ fn' = "none"
  /\ phase' \in {"over"} \cup (IF m_pcController = "unset" THEN {"aborted"} ELSE {})
  /\ UNCHANGED <<left, board, fd, Reset, m_unExpDuration, m_unExperimentStepsLeft, synced,
                 m_pcOmnidirectionalCameraSensor, m_bGoHome, sensed, sent, lineVars, picVars, broken>>

(* A signal from outside; the handler may run between any two steps. *)
SignalHandler ==
  /\ phase = "main" /\ ~m_bGoHome
  /\ m_bGoHome' = TRUE
  /\ UNCHANGED <<phase, fn, left, board, fd, Reset, mainVars, sensed, sent, lineVars, picVars, broken>>

-----------------------------------------------------------------------------
(* The PIC, which knows packets only by their length; before the program   *)
(* starts it was reset.                                                    *)
PicWakes ==
  /\ pic = "asleep" /\ toPic # <<>>
  /\ toPic' = Tail(toPic)
  /\ pic' = "configure" /\ part' = Parts
  /\ UNCHANGED <<fromPic, acted>>

PicConfigures ==
  /\ pic = "configure" /\ toPic # <<>>
  /\ toPic' = Tail(toPic)
  /\ IF part = 1 THEN pic' = "sense" /\ part' = Parts
                  ELSE part' = part - 1 /\ UNCHANGED pic
  /\ UNCHANGED <<fromPic, acted>>

PicSenses ==
  /\ pic = "sense"
  /\ fromPic' = Append(fromPic, [n |-> acted, at |-> part])
  /\ IF part = 1 THEN pic' = "act" /\ part' = Parts
                  ELSE part' = part - 1 /\ UNCHANGED pic
  /\ UNCHANGED <<toPic, acted>>

PicActs ==
  /\ pic = "act" /\ toPic # <<>>
  /\ toPic' = Tail(toPic)
  /\ IF part > 1           THEN part' = part - 1 /\ UNCHANGED <<pic, acted>>
     ELSE IF Head(toPic).reset THEN pic' = "asleep" /\ part' = 1 /\ acted' = (acted + 1) % Rounds
                            ELSE pic' = "sense" /\ part' = Parts /\ acted' = (acted + 1) % Rounds
  /\ UNCHANGED fromPic

-----------------------------------------------------------------------------
BoardInit ==
  /\ phase = "main" /\ fn = "InitSerial" /\ left = 0
  /\ board = "WAITING" /\ fd = FALSE /\ Reset = "0"
  /\ m_unExpDuration = 0 /\ m_unExperimentStepsLeft = 0 /\ synced = FALSE /\ m_bGoHome = FALSE
  /\ m_pcController = "unset" /\ m_pcOmnidirectionalCameraSensor \in {"unset", "usable"}
  /\ sensed = 0 /\ sent = 0
  /\ toPic = <<>> /\ fromPic = <<>>
  /\ pic = "asleep" /\ part = 1 /\ acted = 0 /\ broken = FALSE

Ended == phase \in {"over", "aborted"}
Terminated == (Ended \/ phase = "faulting") /\ UNCHANGED boardVars

Program ==
  \/ OutOfSync \/ InitSerial \/ InitController
  \/ IsExperimentFinished \/ ControlStep \/ SyncControlStep
  \/ Begin \/ Write \/ Read \/ TransferFails
  \/ ResetPic30 \/ DestroySerial \/ DeleteController

programVars == <<phase, fn, left, board, fd, Reset, mainVars, m_bGoHome, sensed, sent, broken>>
Pic == (PicWakes \/ PicConfigures \/ PicSenses \/ PicActs) /\ UNCHANGED programVars

BoardNext == Program \/ Pic \/ SignalHandler \/ Terminated

BoardSpec == BoardInit /\ [][BoardNext]_boardVars

(* The program runs whenever it may, and an awake PIC keeps its turn. *)
FairBoardSpec == BoardSpec /\ WF_boardVars(Program) /\ WF_boardVars(Pic)

-----------------------------------------------------------------------------
(* Every variable has the values the code gives it; no more steps are      *)
(* counted than the experiment has (m_unExperimentStepsLeft is unsigned).  *)
TypeOK ==
  /\ phase \in {"main", "destroy", "over", "aborted", "faulting"}
  /\ fn \in Functions /\ left \in 0..Parts
  /\ board \in {"WAITING", "INITIALIZATION", "WAKE_UP", "SENDING_CONFIGURATION", "SEND", "RECEIVE"}
  /\ fd \in BOOLEAN /\ Reset \in {"0", "N", "R"}
  /\ m_unExpDuration \in Lengths \cup {0} /\ m_unExperimentStepsLeft \in 0..m_unExpDuration
  /\ synced \in BOOLEAN /\ m_bGoHome \in BOOLEAN
  /\ m_pcController \in {"unset", "made", "deleted"}
  /\ m_pcOmnidirectionalCameraSensor \in {"unset", "usable"}
  /\ sensed \in 0..Rounds - 1 /\ sent \in 0..Rounds - 1 /\ acted \in 0..Rounds - 1
  /\ toPic \in Seq([kind : Sends, at : 1..Parts, reset : BOOLEAN])
  /\ fromPic \in Seq([n : 0..Rounds - 1, at : 1..Parts])
  /\ pic \in {"asleep", "configure", "sense", "act"} /\ part \in 1..Parts /\ broken \in BOOLEAN

Expected ==
  CASE pic = "asleep"    -> "WakeUpPic"
    [] pic = "configure" -> "SendSensorConfiguration"
    [] OTHER             -> "SendActuatorData"

(* The two sides never speak at once, and each takes every part of a       *)
(* packet for what it is, although nothing on the line says so and a       *)
(* signal, a bad configuration, a failing controller or a transfer that    *)
(* fails at its beginning may send the program to its destructor in any    *)
(* state of the board.                                                     *)
Framed ==
  ~broken =>
    /\ toPic = <<>> \/ (fromPic = <<>> /\ pic # "sense")
    /\ toPic # <<>> => Head(toPic).kind = Expected /\ Head(toPic).at = part
    /\ fn = "ReceiveSensorData" /\ left > 0 /\ fromPic # <<>> => Head(fromPic).at = left

(* The controller decides on readings taken after the robot obeyed its     *)
(* last command.                                                           *)
Fresh == fn = "ControlStep" => sensed = sent

(* When the program has ended by its destructor and the PIC has heard all  *)
(* of it, the robot is at rest: the PIC was never woken up, or was reset (real_epuck.h:92   *)
(* promises the reset).                                                    *)
AtRest == phase = "over" /\ toPic = <<>> => pic = "asleep"

(* It is, wherever the program was, unless a transfer failed on the way.   *)
StoppedAtEnd == ~broken => AtRest

(* An experiment that ends by itself has had as many steps as its length   *)
(* says, the first call of SyncControlStep and the last one included.      *)
StepsDone ==
  [][IsExperimentFinished /\ phase' = "destroy" /\ ~m_bGoHome =>
       m_unExpDuration > 0 /\ sent = m_unExpDuration % Rounds]_boardVars

(* The program ends by its time limit, or soon after a signal or an        *)
(* exception: whatever it waits for, the destructor runs to its end. Only  *)
(* a program that followed a pointer to a camera it does not have goes on, *)
(* in the fault that its handler returns to.                               *)
Ends ==
  (m_unExpDuration > 0 \/ m_bGoHome \/ phase = "destroy")
     ~> (Ended \/ broken \/ (phase = "faulting" /\ m_pcOmnidirectionalCameraSensor = "unset"))
=============================================================================
