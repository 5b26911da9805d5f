------------------------ MODULE MCSmartObjectDriver ------------------------
(* Small instances of the firmware for TLC. *)
EXTENDS SmartObjectDriver, TLC

Send(action, head, arg) ==
  [id |-> 1, action |-> action, head |-> head, arg |-> arg, len |-> 3]

Mission1(c) == Send(MISSION_CONFIG, 1, c)
Mission(n)  == Send(MISSION_CONFIG, n, 0)
StopMission == Send(MISSION_CONFIG, 9, 0)
Test(c)     == Send(TEST, c, 1)
Calibrate(n) == Send(CALIBRATION_CONFIG, n, 0)
Start       == [Send(START, 0, 0) EXCEPT !.len = 2]

HandleSymmetry == Permutations(Handles)

(* Missions that show colours and a calibration that reuse each other's    *)
(* handles, stops and tests.                                               *)
DisplayMessages == {Mission1(1), Mission(3), StopMission, Test(3), Calibrate(1)}

(* The rest of the protocol: every action, wrong identifiers, silent and   *)
(* partial clients.                                                        *)
ProtocolMessages ==
  {Mission(2), StopMission, Calibrate(3), Start, [Start EXCEPT !.action = STOP],
   [Start EXCEPT !.action = RESTART], [Start EXCEPT !.id = 0, !.len = 1],
   [Start EXCEPT !.id = 2]}

=============================================================================
