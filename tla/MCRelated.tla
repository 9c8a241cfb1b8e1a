------------------------------ MODULE MCRelated ------------------------------
(***************************************************************************)
(* Instances of Related for TLC.                                           *)
(***************************************************************************)
EXTENDS Related

CONSTANTS e1, e2, e3    \* entities
CONSTANTS ChildOf, OwnedBy

Symmetric == Permutations(Entities)
=============================================================================
