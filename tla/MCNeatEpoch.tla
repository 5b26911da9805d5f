------------------------------ MODULE MCNeatEpoch ------------------------------
(* Small populations for NeatEpoch: one species, two, and three that overlap. *)
EXTENDS NeatEpoch

MCPopulations == {<<6, 6, 6, 6, 6, 6>>, <<3, 4, 6, 6, 6, 6>>, <<2, 4, 4, 6, 6, 6>>}
MCAges == {<<1, 0>>, <<21, 20>>, <<21, 1>>}
MCRecords == {<<0, 0>>, <<4, 6>>}
MCFitnesses == {-3, 0, 5}
=============================================================================
