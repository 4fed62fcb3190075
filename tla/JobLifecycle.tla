---------------------------- MODULE JobLifecycle ----------------------------
(***************************************************************************)
(* What the durable job queue promises to whoever enqueues a review job,   *)
(* with no worker, lease or clock in sight.  A job is submitted at most    *)
(* once, is tried a number of times, and ends once: it succeeds after some *)
(* try, or it is given up after at least MaxAttempts tries.  Ended jobs    *)
(* never change.  ReviewQueue implements this specification.               *)
(***************************************************************************)
EXTENDS Naturals

CONSTANTS Jobs, MaxAttempts

VARIABLES
    phase,      \* what the submitter can learn about a job
    tries       \* how often a worker has begun the job

vars == <<phase, tries>>

Phase == {"absent", "pending", "succeeded", "given_up"}

TypeOK ==
    /\ phase \in [Jobs -> Phase]
    /\ tries \in [Jobs -> Nat]

Init ==
    /\ phase = [j \in Jobs |-> "absent"]
    /\ tries = [j \in Jobs |-> 0]

Submit(j) ==
    /\ phase[j] = "absent"
    /\ phase' = [phase EXCEPT ![j] = "pending"]
    /\ UNCHANGED tries

Try(j) ==
    /\ phase[j] = "pending"
    /\ tries' = [tries EXCEPT ![j] = @ + 1]
    /\ UNCHANGED phase

Succeed(j) ==
    /\ phase[j] = "pending"
    /\ tries[j] > 0
    /\ phase' = [phase EXCEPT ![j] = "succeeded"]
    /\ UNCHANGED tries

GiveUp(j) ==
    /\ phase[j] = "pending"
    /\ tries[j] >= MaxAttempts
    /\ phase' = [phase EXCEPT ![j] = "given_up"]
    /\ UNCHANGED tries

Next == \E j \in Jobs : Submit(j) \/ Try(j) \/ Succeed(j) \/ GiveUp(j)

Spec == Init /\ [][Next]_vars

=============================================================================
