---------------------------- MODULE MCReviewGraph ----------------------------
(* Instances of ReviewGraph for model checking. *)
EXTENDS ReviewGraph, TLC

Symmetry == Permutations(Runs) \cup Permutations(Reviews)

\* One reviewer stands for all.
OneFails == {{}, {"security_issues"}}

=============================================================================
