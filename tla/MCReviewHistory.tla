--------------------------- MODULE MCReviewHistory ---------------------------
(* Instances of ReviewHistory for model checking. *)
EXTENDS ReviewHistory, TLC

Symmetry == Permutations(Jobs) \cup Permutations(Commits)

=============================================================================
