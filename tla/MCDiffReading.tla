---------------------------- MODULE MCDiffReading ----------------------------
(* Instances of DiffReading for model checking. *)
EXTENDS DiffReading, TLC

CONSTANTS a, b

AskedBudgets == {-1, 1}

StrayNumbers == {-1, 1}

Symmetry == Permutations(Names)

=============================================================================
