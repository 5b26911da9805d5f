----------------------------- MODULE BlobDetector -----------------------------
(***************************************************************************)
(* The blob detector of the e-puck's camera (vision/blob_detector.cpp) for *)
(* one colour: it labels the accepted pixels row by row, remembers which   *)
(* labels touch, and adds up the pixels of equivalent labels.  Pixels are  *)
(* numbered 1..Width * Height, row by row; an image is the set of pixels   *)
(* that pass the colour filter.                                            *)
(***************************************************************************)
EXTENDS Naturals, Sequences, FiniteSets

CONSTANTS Width, Height, MinArea, MaxArea

ASSUME ImageAssumption == Width \in Nat \ {0} /\ Height \in Nat \ {0}
                          /\ MinArea \in Nat /\ MaxArea \in Nat

Pixels == 1..Width * Height
Smaller(a, b) == IF a < b THEN a ELSE b
Larger(a, b) == IF a < b THEN b ELSE a

(* One pixel of the first pass.  Labels is a function of the pixels, 0 for *)
(* none; LabelParentList of the labels given so far; met tells whether a   *)
(* label has lost one smaller label it touched to another.                 *)
North(Labels, p) == IF p > Width THEN Labels[p - Width] ELSE 0
West(Labels, p) == IF (p - 1) % Width > 0 THEN Labels[p - 1] ELSE 0

\* faulty variant: two labels that touch are not made equivalent
NoParent(parents, child, parent) == parents
SetParent(parents, child, parent) == [parents EXCEPT ![child] = parent]

NoLabels == [Labels |-> [p \in Pixels |-> 0], LabelParentList |-> <<>>, met |-> FALSE]

LabelPixel(s, p) ==
  LET north == North(s.Labels, p)
      west  == West(s.Labels, p)
      new   == Len(s.LabelParentList) + 1
      small == Smaller(north, west)
      large == Larger(north, west)
  IN  CASE large = 0 ->
             [s EXCEPT !.Labels[p] = new, !.LabelParentList = Append(@, new)]
        [] large # 0 /\ small = 0 ->
             [s EXCEPT !.Labels[p] = large]
        [] small # 0 /\ small = large ->
             [s EXCEPT !.Labels[p] = small]
        [] small # 0 /\ small # large ->
             [s EXCEPT !.Labels[p] = small,
                       !.LabelParentList = SetParent(@, large, small),
                       !.met = @ \/ s.LabelParentList[large] \notin {small, large}]

FirstPass(image) ==
  LET pass[p \in 0..Width * Height] ==
        IF p = 0 THEN NoLabels
        ELSE LET s == pass[p - 1] IN IF p \in image THEN LabelPixel(s, p) ELSE s
  IN  pass[Width * Height]

(* The second pass: the smallest label a label leads to, and the pixels of *)
(* each; only blobs with an area in the range are kept.                    *)
MinLabel(parents) ==
  LET root[l \in 1..Len(parents)] == IF parents[l] = l THEN l ELSE root[parents[l]]
  IN  root

Regions(s) ==
  LET root == MinLabel(s.LabelParentList)
  IN  {{p \in Pixels : s.Labels[p] # 0 /\ root[s.Labels[p]] = l} : l \in 1..Len(s.LabelParentList)} \ {{}}

LabelBlobs(s) == {B \in Regions(s) : Cardinality(B) \in MinArea..MaxArea}

(* Detect: what the two passes make of each image. *)
Detection ==
  [image \in SUBSET Pixels |->
     LET s == FirstPass(image) IN [blobs |-> LabelBlobs(s), met |-> s.met]]

-----------------------------------------------------------------------------
(* What the blobs should be: the regions of accepted pixels that touch     *)
(* side by side, with an area in the range.                                *)
Touch(p, q) == q \in {p + Width, p - Width} \/ (q = p + 1 /\ p % Width # 0)
                                           \/ (q = p - 1 /\ q % Width # 0)
Region(image, p) ==
  LET near[n \in 0..Width * Height] ==
        IF n = 0 THEN {p}
        ELSE LET S == near[n - 1] IN S \cup {q \in image : \E r \in S : Touch(r, q)}
  IN  near[Width * Height]

TrueBlobs ==
  [image \in SUBSET Pixels |->
     {S \in {Region(image, p) : p \in image} : Cardinality(S) \in MinArea..MaxArea}]
=============================================================================
