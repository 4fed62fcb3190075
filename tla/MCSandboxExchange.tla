-------------------------- MODULE MCSandboxExchange --------------------------
(* Instances of SandboxExchange for model checking. *)
EXTENDS SandboxExchange, TLC

=============================================================================
