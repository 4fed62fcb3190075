---------------------------- MODULE MCReviewQueue ----------------------------
(* Instances of ReviewQueue for model checking. *)
EXTENDS ReviewQueue, TLC

Symmetry == Permutations(Jobs) \cup Permutations(Workers)

=============================================================================
