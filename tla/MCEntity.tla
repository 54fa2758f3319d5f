------------------------------ MODULE MCEntity ------------------------------
(***************************************************************************)
(* An instance of Entity for TLC.                                          *)
(***************************************************************************)
EXTENDS Entity

(* A title and an import have the same size: what a node holds of them is   *)
(* the subject of MCContainers.                                             *)
MCDataSizes == {1}

Symmetry == Permutations(Nodes) \cup Permutations(Objects)
=============================================================================
