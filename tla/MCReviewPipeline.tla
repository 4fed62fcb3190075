-------------------------- MODULE MCReviewPipeline --------------------------
(* Instances of ReviewPipeline for model checking. *)
EXTENDS ReviewPipeline, TLC

Symmetry == Permutations(Jobs)

=============================================================================
