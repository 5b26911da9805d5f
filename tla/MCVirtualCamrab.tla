---------------------------- MODULE MCVirtualCamrab ----------------------------
(* Up to four blobs in two colours, some of them around angle 0 and one      *)
(* before a robot behind it.                                                 *)
EXTENDS VirtualCamrab

MCMaxAngle == 5 :> 108 @@ 20 :> 38 @@ 30 :> 26
Blob(c, a, d) == [Color |-> c, Angle |-> a, Distance |-> d]
Reds == {Blob(0, a, 20) : a \in {10, 34, 380, 710}} \cup {Blob(0, 690, 30), Blob(0, 20, 5)}
Greens == {Blob(2, a, 20) : a \in {10, 700}} \cup {Blob(2, 120, 30)}
MCScenes == {s \in {r \cup g : r \in SUBSET Reds, g \in SUBSET Greens} : Cardinality(s) <= 4}
MCMessages == {[Color |-> 0, Data |-> 1, Bearing |-> 20], [Color |-> 2, Data |-> 3, Bearing |-> 0],
               [Color |-> 0, Data |-> 63, Bearing |-> 390], [Color |-> 2, Data |-> 64, Bearing |-> 705]}
=============================================================================
