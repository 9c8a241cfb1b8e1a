------------------------------ MODULE MCMapping ------------------------------
(***************************************************************************)
(* Instances of Mapping for TLC.                                           *)
(***************************************************************************)
EXTENDS Mapping

CONSTANTS s1, s2, s3    \* entities of the server

Symmetric == Permutations(ServerEntities)
=============================================================================
