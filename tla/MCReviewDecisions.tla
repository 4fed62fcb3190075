-------------------------- MODULE MCReviewDecisions --------------------------
(* Instances of ReviewDecisions for model checking; without symmetry, because *)
(* the run that checks the safety properties checks a liveness property too. *)
EXTENDS ReviewDecisions, TLC

=============================================================================
