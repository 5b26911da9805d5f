---------------------------- MODULE MCGroundSensor ----------------------------
(* The instance of GroundSensor that is checked: the first channel and the *)
(* last, the one whose error is looked at.                                 *)
EXTENDS GroundSensor
MCChannels == <<"red", "blue">>
=============================================================================
