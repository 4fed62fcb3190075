---------------------------- MODULE ReviewPipeline ----------------------------
(***************************************************************************)
(* How the jobs of one pull request head become one review: the handler    *)
(* process_opened_pr and the failure callback of main.py, run by workers   *)
(* that claim jobs from the durable queue.                                 *)
(*                                                                         *)
(* All jobs here name the same repository, pull request and commit, so     *)
(* they share the row get_or_create_review_version finds or creates.  The  *)
(* queue is the one JobLifecycle specifies, which ReviewQueue implements:  *)
(* a run is one attempt of one job, and only the latest attempt of a job   *)
(* ends it (ReviewQueue, AttemptFencesWorkers and OnlyLatestAttemptDecides).*)
(*                                                                         *)
(* One SQL statement or transaction and one call that may raise is one     *)
(* step.  Status comments and the context column are left out: neither     *)
(* can fail a run or change what another run does.                         *)
(***************************************************************************)
EXTENDS Naturals, FiniteSets

CONSTANTS
    Jobs,           \* deliveries for this commit, one idempotency key each
    Events,         \* what they may say, a subset of AllEvents
    Faults,         \* what may go wrong, a subset of AllFaults
    MaxAttempts,    \* REVIEW_JOB_MAX_ATTEMPTS
    MaxTries,       \* bound: claims of one job
    MaxKinds        \* bound: kinds of faults, failing analyses apart

\* "open" is opened, synchronize or reopened outside a draft, "draft" the
\* same in a draft, "ready" is ready_for_review.
AllEvents == {"open", "draft", "ready"}

\* "overlap": a job is claimed again while an earlier attempt of it still
\* runs, its lease being lost or its backoff shorter than its callback.
AllFaults == {"analysis", "github", "database", "crash", "overlap"}

ASSUME KindsKnown == Events \subseteq AllEvents /\ Faults \subseteq AllFaults

ASSUME BoundsAreNumbers == MaxAttempts \in Nat \ {0} /\ MaxTries \in Nat /\ MaxKinds \in Nat

VARIABLES
    phase,          \* the queue: what is known of each job
    tries,          \* the queue: attempts of each job so far
    event,          \* the event each job carries
    attached,       \* review_jobs.review_id is set
    review,         \* the row of pr_reviews
    run,            \* the local state of every attempt
    happened        \* history: faults, and "doubled" (see Taking)

vars == <<phase, tries, event, attached, review, run, happened>>

Queue == INSTANCE JobLifecycle

queue == <<phase, tries>>

-----------------------------------------------------------------------------
(* Types *)

Runs == Jobs \X (1 .. MaxTries)

\* "failure" is an error payload or a job_failure entry, "decision" what a
\* human decided, "unavailable" the result of a process without a graph.
Review == [status : {"absent", "pending", "queued", "retrying", "failed",
                     "awaiting_approval", "completed"},
           result : {"none", "queued", "analysis", "unavailable", "failure", "decision"}]

Row(status, result) == [status |-> status, result |-> result]

NoReview == Row("absent", "none")

(***************************************************************************)
(* known: the review id is in the job dictionary, where the callback looks.*)
(* owns: the run has taken the review upon itself and will write to it     *)
(* without a comparison: it created the row, won the compare-and-set of    *)
(* the gate, or carries a draft event and found a row without a result.    *)
(* view: the row as the run read it last, NoReview when it created the     *)
(* row, or the row it is about to write.                                   *)
(***************************************************************************)
Local(pc, known, owns, view) == [pc |-> pc, known |-> known, owns |-> owns, view |-> view]

Steps == {"idle", "version", "attach", "draft", "draft_write", "gate", "analyse", "sync",
          "store", "except_sync", "except_store", "complete", "fail", "callback",
          "callback_store", "over"}

RunState == [pc : Steps, known : BOOLEAN, owns : BOOLEAN, view : Review]

TypeOK ==
    /\ Queue!TypeOK
    /\ event \in [Jobs -> Events \cup {"none"}]
    /\ attached \in [Jobs -> BOOLEAN]
    /\ review \in Review
    /\ run \in [Runs -> RunState]
    /\ happened \subseteq Faults \cup {"doubled"}

Init ==
    /\ Queue!Init
    /\ event = [j \in Jobs |-> "none"]
    /\ attached = [j \in Jobs |-> FALSE]
    /\ review = NoReview
    /\ run = [p \in Runs |-> Local("idle", FALSE, FALSE, NoReview)]
    /\ happened = {}

-----------------------------------------------------------------------------
(* Steps of a run *)

At(p, pc) == run[p].pc = pc

Underway(p) == run[p].pc \notin {"idle", "over"}

EventOf(p) == event[p[1]]

Become(p, pc, known, owns, view) == run' = [run EXCEPT ![p] = Local(pc, known, owns, view)]

Goto(p, pc) == Become(p, pc, run[p].known, run[p].owns, run[p].view)

\* The try block of process_opened_pr is left.
Raise(p) == Become(p, "except_sync", TRUE, run[p].owns, NoReview)

Return(p) == Become(p, "complete", TRUE, run[p].owns, NoReview)

End(p) == Become(p, "over", FALSE, FALSE, NoReview)

Fault(what) ==
    /\ what \in Faults
    /\ happened' = happened \cup {what}
    /\ Cardinality(happened' \ {"analysis", "doubled"}) <= MaxKinds

\* A run takes the review upon itself: "doubled" says that another run that
\* has done so is still underway.
Taking(p) ==
    happened' = IF \E q \in Runs \ {p} : run[q].owns THEN happened \cup {"doubled"} ELSE happened

\* A statement whose reply is an error has written or has not.
Write(new) == review' = new

MaybeWritten(new) == review' \in {review, new}

Terminal(p) == p[2] >= MaxAttempts

Latest(p) == phase[p[1]] = "pending" /\ tries[p[1]] = p[2]

-----------------------------------------------------------------------------
(* The queue *)

Deliver(j) ==
    /\ Queue!Submit(j)
    /\ \E e \in Events : event' = [event EXCEPT ![j] = e]
    /\ UNCHANGED <<attached, review, run, happened>>

Claim(p) ==
    LET j == p[1] IN
    /\ p[2] = tries[j] + 1
    /\ Queue!Try(j)
    /\ IF \E q \in Runs : q[1] = j /\ Underway(q) THEN Fault("overlap") ELSE UNCHANGED happened
    /\ Become(p, "version", attached[j], FALSE, NoReview)
    /\ UNCHANGED <<event, attached, review>>

\* complete_review_job, whose errors are only logged.
Complete(p) ==
    /\ At(p, "complete")
    /\ End(p)
    /\ \/ /\ IF Latest(p) THEN Queue!Succeed(p[1]) ELSE UNCHANGED queue
          /\ UNCHANGED happened
       \/ Fault("database") /\ UNCHANGED queue
    /\ UNCHANGED <<event, attached, review>>

FailJob(p) == IF Latest(p) /\ Terminal(p) THEN Queue!GiveUp(p[1]) ELSE UNCHANGED queue

\* fail_review_job: the callback follows unless the statement raises, also
\* when it matched no row.
Fail(p) ==
    /\ At(p, "fail")
    /\ \/ FailJob(p) /\ Goto(p, "callback") /\ UNCHANGED happened
       \/ FailJob(p) /\ Fault("database") /\ End(p)
       \/ UNCHANGED queue /\ Fault("database") /\ End(p)
    /\ UNCHANGED <<event, attached, review>>

-----------------------------------------------------------------------------
(* process_opened_pr *)

\* get_or_create_review_version, one transaction under an advisory lock.
\* Until it returns the run has no review to blame for an exception.
Version(p) ==
    LET created == Row(IF EventOf(p) = "draft" THEN "queued" ELSE "pending", "none")
        leftEmpty == EventOf(p) = "draft" /\ review.result = "none"
    IN
    /\ At(p, "version")
    /\ \/ /\ review = NoReview
          /\ Write(created)
          /\ \/ Become(p, "attach", TRUE, TRUE, NoReview) /\ UNCHANGED happened
             \/ Fault("database") /\ Goto(p, "fail")
       \/ /\ review # NoReview /\ ~leftEmpty
          /\ Become(p, "attach", TRUE, FALSE, review)
          /\ UNCHANGED <<review, happened>>
       \/ /\ review # NoReview /\ leftEmpty
          /\ Become(p, "attach", TRUE, TRUE, review)
          /\ Taking(p)
          /\ UNCHANGED review
       \/ Fault("database") /\ Goto(p, "fail") /\ UNCHANGED review
    /\ UNCHANGED <<queue, event, attached>>

Attach(p) ==
    LET next == IF EventOf(p) = "draft" THEN "draft"
                ELSE IF run[p].owns THEN "analyse" ELSE "gate"
    IN
    /\ At(p, "attach")
    /\ \/ /\ attached' = [attached EXCEPT ![p[1]] = TRUE]
          /\ \/ Goto(p, next) /\ UNCHANGED happened
             \/ Fault("database") /\ Raise(p)
       \/ Fault("database") /\ Raise(p) /\ UNCHANGED attached
    /\ UNCHANGED <<queue, event, review>>

\* The creator of the row announces a neutral check run; another draft event
\* leaves a row with a result alone.
Draft(p) ==
    /\ At(p, "draft")
    /\ \/ run[p].owns /\ Goto(p, "draft_write") /\ UNCHANGED happened
       \/ run[p].view = NoReview /\ Fault("github") /\ Raise(p)
       \/ ~run[p].owns /\ Return(p) /\ UNCHANGED happened
    /\ UNCHANGED <<queue, event, attached, review>>

DraftWrite(p) ==
    /\ At(p, "draft_write")
    /\ \/ Write(Row("queued", "queued")) /\ Return(p) /\ UNCHANGED happened
       \/ MaybeWritten(Row("queued", "queued")) /\ Fault("database") /\ Raise(p)
    /\ UNCHANGED <<queue, event, attached>>

CanResumeDraft(p) == EventOf(p) = "ready" /\ run[p].view.status = "queued"

\* Mutant: a first attempt may take up a failed or unfinished review.
CanRetryFirst(p) == run[p].view.status \in {"pending", "retrying", "failed"}

\* Mutant: a review left pending by a crash is not taken up.
CanRetryFailed(p) == p[2] > 1 /\ run[p].view.status \in {"retrying", "failed"}

CanRetry(p) == p[2] > 1 /\ run[p].view.status \in {"pending", "retrying", "failed"}

\* Mutant: the status is set without being compared.
UnmovedOrNot(p) == TRUE

Unmoved(p) == review.status = run[p].view.status

\* An existing review is analysed again only by a retry or a draft made
\* ready, and only if its status is still the one that was read.
Gate(p) ==
    LET may   == CanResumeDraft(p) \/ CanRetry(p)
        taken == Row("pending", review.result)
    IN
    /\ At(p, "gate")
    /\ \/ ~(may /\ Unmoved(p)) /\ Return(p) /\ UNCHANGED <<review, happened>>
       \/ /\ may /\ Unmoved(p)
          /\ Write(taken)
          /\ Become(p, "analyse", TRUE, TRUE, taken)
          /\ Taking(p)
       \/ /\ may /\ Fault("database")
          /\ Raise(p)
          /\ review' \in {review} \cup (IF Unmoved(p) THEN {taken} ELSE {})
    /\ UNCHANGED <<queue, event, attached>>

\* From the feedback memory to the end of graph.invoke: everything the
\* analysis calls may raise.  A process may lack the graph.
Analyse(p) ==
    /\ At(p, "analyse")
    /\ \/ \E new \in {Row("awaiting_approval", "analysis"), Row("failed", "unavailable")} :
             Become(p, "sync", TRUE, TRUE, new) /\ UNCHANGED happened
       \/ Fault("analysis") /\ Raise(p)
    /\ UNCHANGED <<queue, event, attached, review>>

Sync(p) ==
    /\ At(p, "sync")
    /\ \/ Goto(p, "store") /\ UNCHANGED happened
       \/ Fault("github") /\ Raise(p)
    /\ UNCHANGED <<queue, event, attached, review>>

\* update_review compares nothing.
Store(p) ==
    /\ At(p, "store")
    /\ \/ Write(run[p].view) /\ Return(p) /\ UNCHANGED happened
       \/ MaybeWritten(run[p].view) /\ Fault("database") /\ Raise(p)
    /\ UNCHANGED <<queue, event, attached>>

\* The exception handler shows the failure on GitHub before it stores it; if
\* GitHub does not answer nothing is stored.
ExceptSync(p) ==
    /\ At(p, "except_sync")
    /\ \/ Goto(p, "except_store") /\ UNCHANGED happened
       \/ Fault("github") /\ Goto(p, "fail")
    /\ UNCHANGED <<queue, event, attached, review>>

ExceptStore(p) ==
    /\ At(p, "except_store")
    /\ Goto(p, "fail")
    /\ \/ Write(Row("failed", "failure")) /\ UNCHANGED happened
       \/ MaybeWritten(Row("failed", "failure")) /\ Fault("database")
    /\ UNCHANGED <<queue, event, attached>>

-----------------------------------------------------------------------------
(* handle_review_job_failure *)

CallbackRead(p) ==
    /\ At(p, "callback")
    /\ \/ ~run[p].known /\ End(p) /\ UNCHANGED happened
       \/ run[p].known /\ Become(p, "callback_store", TRUE, run[p].owns, review) /\ UNCHANGED happened
       \/ run[p].known /\ Fault("database") /\ End(p)
    /\ UNCHANGED <<queue, event, attached, review>>

\* Mutants: the last attempt is off by one, or the status is spelt as in the
\* table review_jobs.
FailureStatusLate(p) == IF p[2] > MaxAttempts THEN "failed" ELSE "retrying"

FailureStatusOfJob(p) == IF Terminal(p) THEN "failed" ELSE "retry"

FailureStatus(p) == IF Terminal(p) THEN "failed" ELSE "retrying"

\* The entry job_failure is added to the result that was read, and the whole
\* is written without a comparison.
CallbackStore(p) ==
    LET new == Row(FailureStatus(p),
                   IF run[p].view.result = "none" THEN "failure" ELSE run[p].view.result)
    IN
    /\ At(p, "callback_store")
    /\ End(p)
    /\ \/ Write(new) /\ UNCHANGED happened
       \/ MaybeWritten(new) /\ Fault("database")
    /\ UNCHANGED <<queue, event, attached>>

-----------------------------------------------------------------------------
(* The whole *)

Crash(p) ==
    /\ Underway(p)
    /\ Fault("crash")
    /\ End(p)
    /\ UNCHANGED <<queue, event, attached, review>>

\* A human decides; ReviewDecisions tells how.
Decide ==
    /\ review.status = "awaiting_approval"
    /\ Write(Row("completed", "decision"))
    /\ UNCHANGED <<queue, event, attached, run, happened>>

RunStep(p) ==
    \/ Claim(p) \/ Complete(p) \/ Fail(p)
    \/ Version(p) \/ Attach(p) \/ Draft(p) \/ DraftWrite(p) \/ Gate(p)
    \/ Analyse(p) \/ Sync(p) \/ Store(p) \/ ExceptSync(p) \/ ExceptStore(p)
    \/ CallbackRead(p) \/ CallbackStore(p)
    \/ Crash(p)

Next == (\E j \in Jobs : Deliver(j)) \/ (\E p \in Runs : RunStep(p)) \/ Decide

Spec == Init /\ [][Next]_vars

-----------------------------------------------------------------------------
(* Properties *)

\* A stored analysis is only ever replaced by a human decision, and a
\* decision by nothing, whatever is redelivered, crashes, or fails in the
\* analysis or at GitHub, as long as the database answers and no run took
\* the review upon itself while another had it.
OutcomeIsKept ==
    [][{"doubled", "database"} \cap happened' = {} =>
          /\ review.status = "completed" => review' = review
          /\ review.status = "awaiting_approval" =>
                review' \in {review, Row("completed", "decision")}]_vars

\* Two runs have the review at once only if one attempt overlaps another of
\* the same job, or one of them is a retry, or a draft event came: first
\* attempts of opened, reopened and redelivered events never do.
Owns(p) == run[p].owns

DraftCame == \E j \in Jobs : event[j] = "draft"

FirstAttemptsShareNothing ==
    \A p, q \in Runs :
        p # q /\ Owns(p) /\ Owns(q) =>
            \/ p[1] = q[1] /\ "overlap" \in happened
            \/ p[1] # q[1] /\ (p[2] > 1 \/ q[2] > 1 \/ DraftCame)

\* Every job that was delivered is over.
AtRest ==
    /\ \E j \in Jobs : phase[j] # "absent"
    /\ \A j \in Jobs : phase[j] # "pending"
    /\ \A p \in Runs : ~Underway(p)

\* When every job is over no review still says it is being worked on or will
\* be retried, as long as the database answers and attempts of one job do not
\* overlap.  With GitHub failing it takes more: without a crash the callback
\* says what the exception handler could not, but a draft event that failed
\* leaves "retrying" behind, because its retry finds a result and returns.
ReviewSettles ==
    /\ AtRest
    /\ {"database", "overlap"} \cap happened = {}
    /\ "github" \in happened => "crash" \notin happened /\ ~DraftCame
    => review.status \notin {"absent", "pending", "retrying"}

\* README, reliability model: "A process can stop at any point; an unfinished
\* job is recovered when its lease expires."  If processes crash and nothing
\* else fails, every pull request outside a draft ends with its analysis.
CrashesCostNothing ==
    /\ AtRest
    /\ happened \subseteq {"crash", "doubled"}
    /\ ~DraftCame
    => review.result \in {"analysis", "unavailable", "decision"}

\* The comment on a draft: "Analysis will run when it is marked ready for
\* review."  When every job is over, one of them ready_for_review, the review
\* does not wait for that event.
DraftIsResumed ==
    AtRest /\ (\E j \in Jobs : event[j] = "ready") => review.status # "queued"

=============================================================================
