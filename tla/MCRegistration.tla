--------------------------- MODULE MCRegistration ---------------------------
(* Instances of Registration for TLC. *)
EXTENDS Registration

CONSTANTS a, b

\* Rules that register the same FnsIds in one call or in two.
MCRules == {<<a>>, <<a, b>>}
=============================================================================
