------------------------- MODULE MCMutationHistory -------------------------
(* Instances of MutationHistory for TLC. *)
EXTENDS MutationHistory

\* The code records no cursor before there is one.
MCSource == {<<FALSE, TRUE>>, <<FALSE, FALSE>>}

\* Nor with it, for entities whose outdated diffs are not consumed.
MCDiffs == MCSource \cup {<<TRUE, FALSE>>}

=============================================================================
