------------------------ MODULE MCOmnidirectionalCamera ------------------------
(* Images of 4 x 3 pixels.  The first ones hold the pixels 5, 9 and 10 and *)
(* any of five others: arms that join further down, parts that touch       *)
(* nowhere, and a region whose labels meet twice.                          *)
EXTENDS OmnidirectionalCamera
MCFirstImages == {S \cup {5, 9, 10} : S \in SUBSET {3, 4, 7, 8, 11}}
MCImages == {{}, {1, 2, 5}}
=============================================================================
