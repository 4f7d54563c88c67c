----------------------------- MODULE MCServers -----------------------------
(* Instances of Servers for TLC.  Names and Windows are sets of model       *)
(* values that no definition tells apart: permuting them is a symmetry of   *)
(* the safety properties.                                                   *)
EXTENDS Servers, TLC

Symmetry == Permutations(Names) \cup Permutations(Windows)
=============================================================================
