----------------------------- MODULE MCNeatGenome -----------------------------
(* A starter genome of one sensor, linked to the output, and a bias that   *)
(* is not.                                                                 *)
EXTENDS NeatGenome
MCStarterLinks == << <<1, 3>> >>
=============================================================================
