----------------------------- MODULE ReviewQueue -----------------------------
(***************************************************************************)
(* The durable review queue of review_queue.py: the table review_jobs and  *)
(* the worker loops that claim jobs under a renewable lease.               *)
(*                                                                         *)
(* A member of Workers is one incarnation of a worker process: startup     *)
(* gives each process a fresh uuid as its worker id, so an id never comes  *)
(* back after a crash.  One SQL statement is one step.  Time is kept as    *)
(* ages: lockAge is NOW() - locked_at and wait is what is left until       *)
(* available_at, both moved by Tick.  A failed database call is a fault    *)
(* and may or may not have taken effect at the server.                     *)
(*                                                                         *)
(* A claim may take any candidate: FOR UPDATE SKIP LOCKED passes over rows *)
(* another statement holds, so ORDER BY promises no order among claims.    *)
(***************************************************************************)
EXTENDS Integers, FiniteSets

CONSTANTS
    Jobs,           \* idempotency keys of the events that may be delivered
    Workers,        \* worker incarnations
    NoWorker,       \* locked_by IS NULL
    NoJob,          \* a worker that holds no job
    Replicas,       \* how many worker processes are kept up
    MaxAttempts,    \* REVIEW_JOB_MAX_ATTEMPTS
    Lease,          \* REVIEW_JOB_LEASE_SECONDS
    BaseBackoff,    \* REVIEW_JOB_BACKOFF_SECONDS
    MaxBackoff,     \* REVIEW_JOB_MAX_BACKOFF_SECONDS
    MaxLateness,    \* environment: how late a heartbeat may run
    MaxFaults,      \* bound: crashes and failed database calls
    MaxClaims       \* bound: claims of one job

ASSUME SettingsValid ==
    /\ MaxAttempts \in Nat \ {0}
    /\ Lease \in Nat /\ Lease >= 3
    /\ BaseBackoff \in Nat \ {0}
    /\ MaxBackoff \in Nat \ {0}

ASSUME EnvironmentBounds ==
    /\ MaxLateness \in Nat
    /\ MaxFaults \in Nat
    /\ MaxClaims \in Nat
    /\ Replicas \in Nat \ {0}

ASSUME NullsDiffer == NoWorker \notin Workers /\ NoJob \notin Jobs

VARIABLES
    row,        \* the table review_jobs, one row per idempotency key
    worker,     \* the local state of review_worker_loop in each process
    faults      \* how many crashes and failed database calls there were

vars == <<row, worker, faults>>

-----------------------------------------------------------------------------
(* Types *)

Statuses == {"absent", "queued", "running", "retry", "completed", "failed"}

Terminal == {"completed", "failed"}

Row == [status   : Statuses,
        attempts : Nat,
        lockedBy : Workers \cup {NoWorker},
        lockAge  : 0 .. Lease + 1,
        wait     : 0 .. MaxBackoff]

\* pc: "ended" is a loop that an exception has left, "gone" a process that
\* crashed or was shut down.  beat is the state of the heartbeat task:
\* "stopped" after a renewal that matched no row, "raised" after an error.
WorkerState ==
    [pc      : {"absent", "polling", "handling", "completing", "failing",
                "callback", "ended", "gone"},
     job     : Jobs \cup {NoJob},
     attempt : Nat,
     beat    : {"off", "beating", "stopped", "raised"},
     beatAge : Nat]

NoRow == [status |-> "absent", attempts |-> 0, lockedBy |-> NoWorker,
          lockAge |-> 0, wait |-> 0]

QueuedRow == [NoRow EXCEPT !.status = "queued"]

Idle(pc) == [pc |-> pc, job |-> NoJob, attempt |-> 0,
             beat |-> "off", beatAge |-> 0]

TypeOK ==
    /\ row \in [Jobs -> Row]
    /\ worker \in [Workers -> WorkerState]
    /\ faults \in 0 .. MaxFaults

-----------------------------------------------------------------------------
(* Reading the state *)

\* Mutant: the heartbeat sleeps for a whole lease.
HeartbeatEveryLease == Lease

HeartbeatEvery ==
    LET third == Lease \div 3 IN
    IF third < 1 THEN 1 ELSE IF third > 30 THEN 30 ELSE third

\* Mutant: the cap of the backoff is forgotten.
RetryDelayUncapped(attempts) ==
    BaseBackoff * 2 ^ (IF attempts > 1 THEN attempts - 1 ELSE 0)

\* min(max_seconds, base_seconds * 2 ** (attempts - 1))
RetryDelay(attempts) ==
    LET raw == BaseBackoff * 2 ^ (IF attempts > 1 THEN attempts - 1 ELSE 0)
    IN  IF raw \in 0 .. MaxBackoff THEN raw ELSE MaxBackoff

\* Mutant: jobs with an expired lease are not candidates.
ClaimableWaiting(j) == row[j].status \in {"queued", "retry"} /\ row[j].wait = 0

\* Mutant: the age of the lock is not compared with the lease.
ClaimableRunning(j) ==
    \/ row[j].status \in {"queued", "retry"} /\ row[j].wait = 0
    \/ row[j].status = "running"

Claimable(j) ==
    \/ row[j].status \in {"queued", "retry"} /\ row[j].wait = 0
    \/ row[j].status = "running" /\ row[j].lockAge > Lease

\* Mutant: the statements do not compare locked_by.
HoldsRunning(w, j) == row[j].status = "running"

\* The guard of the heartbeat, complete and fail statements.
Holds(w, j) == row[j].status = "running" /\ row[j].lockedBy = w

Active(w) == worker[w].pc \in {"handling", "completing", "failing", "callback"}

Live(w) == worker[w].pc \notin {"absent", "ended", "gone"}

HeartbeatDue(w) ==
    /\ Active(w)
    /\ worker[w].beat = "beating"
    /\ worker[w].beatAge >= HeartbeatEvery

-----------------------------------------------------------------------------
(* What the statements write *)

\* Mutant: taking over an expired lease does not count as an attempt.
ClaimedUncounted(r, w) ==
    [status |-> "running",
     attempts |-> IF r.status = "running" THEN r.attempts ELSE r.attempts + 1,
     lockedBy |-> w, lockAge |-> 0, wait |-> r.wait]

Claimed(r, w) ==
    [status |-> "running", attempts |-> r.attempts + 1,
     lockedBy |-> w, lockAge |-> 0, wait |-> r.wait]

Released(r, status, wait) ==
    [status |-> status, attempts |-> r.attempts,
     lockedBy |-> NoWorker, lockAge |-> 0, wait |-> wait]

Completed(r) == Released(r, "completed", r.wait)

\* Mutants: the last attempt is off by one, in either direction.
FailedLate(r, attempt) ==
    IF attempt > MaxAttempts
    THEN Released(r, "failed", r.wait)
    ELSE Released(r, "retry", RetryDelay(attempt))

FailedEarly(r, attempt) ==
    IF attempt + 1 >= MaxAttempts
    THEN Released(r, "failed", r.wait)
    ELSE Released(r, "retry", RetryDelay(attempt))

Failed(r, attempt) ==
    IF attempt >= MaxAttempts
    THEN Released(r, "failed", r.wait)
    ELSE Released(r, "retry", RetryDelay(attempt))

\* UPDATE review_jobs SET ... WHERE id = j AND status = 'running' AND
\* locked_by = w: a worker that lost its lease updates no row.
UpdateHeld(w, j, new) ==
    row' = [row EXCEPT ![j] = IF Holds(w, j) THEN new ELSE @]

\* The heartbeat task after a renewal: it sleeps again, or is over.
Slept(t, beat) ==
    [pc |-> t.pc, job |-> t.job, attempt |-> t.attempt,
     beat |-> beat, beatAge |-> 0]

\* The finally clause awaits the cancelled heartbeat task and suppresses
\* only CancelledError: what the task raised earlier leaves the loop.
AfterFinally(w) ==
    Idle(IF worker[w].beat = "raised" THEN "ended" ELSE "polling")

Fault == faults < MaxFaults /\ faults' = faults + 1

-----------------------------------------------------------------------------
(* Actions *)

Init ==
    /\ row = [j \in Jobs |-> NoRow]
    /\ worker = [w \in Workers |-> Idle("absent")]
    /\ faults = 0

\* Mutant: ON CONFLICT DO UPDATE, a redelivered event queues its job again.
EnqueueAgain(j) ==
    /\ row' = [row EXCEPT ![j] = QueuedRow]
    /\ UNCHANGED <<worker, faults>>

\* INSERT ... ON CONFLICT (idempotency_key) DO NOTHING: a redelivered event
\* finds its row and changes nothing.
Enqueue(j) ==
    /\ row' = [row EXCEPT ![j] = IF @.status = "absent" THEN QueuedRow ELSE @]
    /\ UNCHANGED <<worker, faults>>

Claim(w, j) ==
    /\ worker[w].pc = "polling"
    /\ Claimable(j)
    /\ row[j].attempts < MaxClaims
    /\ row' = [row EXCEPT ![j] = Claimed(@, w)]
    /\ worker' = [worker EXCEPT ![w] =
                    [pc |-> "handling", job |-> j,
                     attempt |-> Claimed(row[j], w).attempts,
                     beat |-> "beating", beatAge |-> 0]]
    /\ UNCHANGED faults

\* The claim commits but its reply is lost: the loop logs and polls again,
\* and the job stays locked by a worker that does not know of it.
ClaimReplyLost(w, j) ==
    /\ worker[w].pc = "polling"
    /\ Claimable(j)
    /\ row[j].attempts < MaxClaims
    /\ row' = [row EXCEPT ![j] = Claimed(@, w)]
    /\ Fault
    /\ UNCHANGED worker

Heartbeat(w) ==
    LET j == worker[w].job IN
    /\ HeartbeatDue(w)
    /\ UpdateHeld(w, j, [row[j] EXCEPT !.lockAge = 0])
    /\ worker' = [worker EXCEPT ![w] =
                    Slept(@, IF Holds(w, j) THEN "beating" ELSE "stopped")]
    /\ UNCHANGED faults

\* The renewal raises, before or after it took effect: the heartbeat task
\* dies and the handler goes on without it.
HeartbeatError(w) ==
    LET j == worker[w].job IN
    /\ HeartbeatDue(w)
    /\ \/ UpdateHeld(w, j, [row[j] EXCEPT !.lockAge = 0])
       \/ UNCHANGED row
    /\ worker' = [worker EXCEPT ![w] = Slept(@, "raised")]
    /\ Fault

HandlerReturns(w) ==
    /\ worker[w].pc = "handling"
    /\ worker' = [worker EXCEPT ![w].pc = "completing"]
    /\ UNCHANGED <<row, faults>>

HandlerRaises(w) ==
    /\ worker[w].pc = "handling"
    /\ worker' = [worker EXCEPT ![w].pc = "failing"]
    /\ UNCHANGED <<row, faults>>

\* The loop ignores the result of complete_review_job, and an error after
\* the statement took effect is logged: both continue alike.
Complete(w) ==
    LET j == worker[w].job IN
    /\ worker[w].pc = "completing"
    /\ UpdateHeld(w, j, Completed(row[j]))
    /\ worker' = [worker EXCEPT ![w] = AfterFinally(w)]
    /\ UNCHANGED faults

CompleteError(w) ==
    /\ worker[w].pc = "completing"
    /\ worker' = [worker EXCEPT ![w] = AfterFinally(w)]
    /\ Fault
    /\ UNCHANGED row

\* Whether the job ends or is retried is decided from the attempt number the
\* worker read when it claimed the job.
Fail(w) ==
    LET j == worker[w].job IN
    /\ worker[w].pc = "failing"
    /\ UpdateHeld(w, j, Failed(row[j], worker[w].attempt))
    /\ worker' = [worker EXCEPT ![w].pc = "callback"]
    /\ UNCHANGED faults

\* fail_review_job raises: the loop continues without the failure callback.
FailError(w) ==
    LET j == worker[w].job IN
    /\ worker[w].pc = "failing"
    /\ \/ UpdateHeld(w, j, Failed(row[j], worker[w].attempt))
       \/ UNCHANGED row
    /\ worker' = [worker EXCEPT ![w] = AfterFinally(w)]
    /\ Fault

\* failure_handler returns or its exception is logged.
CallbackDone(w) ==
    /\ worker[w].pc = "callback"
    /\ worker' = [worker EXCEPT ![w] = AfterFinally(w)]
    /\ UNCHANGED <<row, faults>>

Start(w) ==
    /\ worker[w].pc = "absent"
    /\ Cardinality({v \in Workers : Live(v)}) < Replicas
    /\ worker' = [worker EXCEPT ![w] = Idle("polling")]
    /\ UNCHANGED <<row, faults>>

\* A crash, or a shutdown: cancellation leaves the loop with the job locked.
Crash(w) ==
    /\ Live(w)
    /\ worker' = [worker EXCEPT ![w] = Idle("gone")]
    /\ Fault
    /\ UNCHANGED row

Older(r) ==
    [status |-> r.status, attempts |-> r.attempts, lockedBy |-> r.lockedBy,
     lockAge |-> IF r.status = "running" /\ r.lockAge <= Lease
                 THEN r.lockAge + 1 ELSE r.lockAge,
     wait |-> IF r.wait > 0 THEN r.wait - 1 ELSE 0]

\* Time passes unless a heartbeat is already as late as it may be.
Tick ==
    /\ \A w \in Workers :
          HeartbeatDue(w) => worker[w].beatAge < HeartbeatEvery + MaxLateness
    /\ row' = [j \in Jobs |-> Older(row[j])]
    /\ worker' = [w \in Workers |->
          [worker[w] EXCEPT
             !.beatAge = IF Active(w) /\ worker[w].beat = "beating"
                         THEN @ + 1 ELSE @]]
    /\ UNCHANGED faults

WorkerStep(w) ==
    \/ \E j \in Jobs : Claim(w, j)
    \/ HandlerReturns(w) \/ HandlerRaises(w)
    \/ Complete(w) \/ Fail(w) \/ CallbackDone(w)

FaultStep(w) ==
    \/ \E j \in Jobs : ClaimReplyLost(w, j)
    \/ HeartbeatError(w) \/ CompleteError(w) \/ FailError(w) \/ Crash(w)

Next ==
    \/ \E j \in Jobs : Enqueue(j)
    \/ \E w \in Workers : WorkerStep(w) \/ Heartbeat(w) \/ FaultStep(w) \/ Start(w)
    \/ Tick

Spec == Init /\ [][Next]_vars

\* The event loop keeps scheduling the worker coroutine and its heartbeat,
\* handlers end (the calls they make have timeouts), the container runtime
\* restarts workers, and time passes.  Nothing is assumed of faults.
Fairness ==
    /\ \A w \in Workers :
          /\ WF_vars(WorkerStep(w))
          /\ WF_vars(Heartbeat(w))
          /\ WF_vars(Start(w))
    /\ WF_vars(Tick)

FairSpec == Spec /\ Fairness

-----------------------------------------------------------------------------
(* Properties *)

\* The attempt number is a fencing token: a worker whose lock statement guard
\* still matches is in the latest attempt of the job, no worker is ahead of
\* the row, and two workers busy with one job are in different attempts.
\* fail_review_job relies on it, deciding from the number it read long ago.
AttemptFencesWorkers ==
    /\ \A w \in Workers : Active(w) =>
          /\ worker[w].attempt <= row[worker[w].job].attempts
          /\ Holds(w, worker[w].job) =>
                worker[w].attempt = row[worker[w].job].attempts
    /\ \A v, w \in Workers :
          /\ v # w /\ Active(v) /\ Active(w)
          /\ worker[v].job = worker[w].job
          => worker[v].attempt # worker[w].attempt

\* A job waits for a retry only with attempts to spare, and is failed only
\* once all of max_attempts were used, whoever ran them and whatever crashed
\* in between.
RetriesAreAccounted ==
    \A j \in Jobs :
        /\ row[j].status = "retry" => row[j].attempts \in 1 .. MaxAttempts - 1
        /\ row[j].status = "failed" => row[j].attempts >= MaxAttempts
        /\ row[j].status = "completed" => row[j].attempts >= 1

\* A row that is completed or failed never changes again, whatever redelivery,
\* late heartbeat or late worker still touches it.
EndedRowsAreFinal ==
    [][\A j \in Jobs : row[j].status \in Terminal => row'[j] = row[j]]_vars

\* Only the worker in the job's latest attempt takes it out of 'running'
\* without claiming it: a worker that lost its lease to another cannot end
\* or reschedule what the other is doing.
OnlyLatestAttemptDecides ==
    [][\A j \in Jobs :
          row[j].status = "running" /\ row'[j].status # "running" =>
             \E w \in Workers :
                /\ worker[w].pc \in {"completing", "failing"}
                /\ worker[w].job = j
                /\ worker[w].attempt = row[j].attempts]_vars

\* While heartbeats run at most MaxLateness late, a job has at most one
\* worker that works on it with its heartbeat alive: the lease is exclusive.
\* (A worker whose heartbeat task died goes on unprotected.)
Protected(w) ==
    /\ worker[w].pc \in {"handling", "completing", "failing"}
    /\ worker[w].beat = "beating"

LeaseIsExclusive ==
    \A v, w \in Workers :
        Protected(v) /\ Protected(w) /\ worker[v].job = worker[w].job => v = w

\* With punctual heartbeats, every attempt beyond max_attempts was caused by
\* a crash or a failed database call of its own: nothing else spends
\* attempts.  (The claim statement itself has no limit.)
ExtraAttemptsComeFromFaults ==
    \A j \in Jobs : row[j].attempts <= MaxAttempts + faults

\* README, reliability model: "A process can stop at any point; an unfinished
\* job is recovered when its lease expires."  Every enqueued job ends, if
\* faults cease while a worker incarnation is left to start.
EnqueuedJobEnds ==
    \A j \in Jobs : row[j].status = "queued" ~> row[j].status \in Terminal

\* The docstring of review_worker_loop: "Continuously claim and process
\* durable jobs until shutdown."
LoopRunsUntilShutdown == \A w \in Workers : worker[w].pc # "ended"

\* What a submitter learns from the status column.
PhaseOf(status) == CASE status = "absent" -> "absent"
                     [] status = "completed" -> "succeeded"
                     [] status = "failed" -> "given_up"
                     [] OTHER -> "pending"

Lifecycle == INSTANCE JobLifecycle WITH
    phase <- [j \in Jobs |-> PhaseOf(row[j].status)],
    tries <- [j \in Jobs |-> row[j].attempts]

\* The queue implements what JobLifecycle promises its users: in particular a
\* job is given up only after MaxAttempts tries and ends only once.
ImplementsLifecycle == Lifecycle!Spec

=============================================================================
