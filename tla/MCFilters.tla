----------------------------- MODULE MCFilters -----------------------------
(* Instances of Filters for TLC. *)
EXTENDS Filters

CONSTANTS team, blind, red, blue

\* team is seen by a client of the same team, blind by a client without it.
MCSees == {<<team, v, v>> : v \in {red, blue}} \cup {<<blind, v, None>> : v \in {red, blue}}

=============================================================================
