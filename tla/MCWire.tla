------------------------------- MODULE MCWire -------------------------------
(***************************************************************************)
(* Instances of Wire for TLC.                                              *)
(***************************************************************************)
EXTENDS Wire, TLC

CONSTANTS c1, c2, e1, e2, a, b    \* clients, entities and components

\* The value of a is two bytes, b is a marker.
MCSize == (a :> 2) @@ (b :> 0)

Symmetric == Permutations(Clients)
=============================================================================
