# A TLA+ development of the persistent PR review agent

This directory specifies the control of the review agent in TLA+, model-checks
it with TLC on small instances, and proves theorems about it with the TLA+
proof system (TLAPS). Text generation, rendering and metrics are out of its
scope; what it is about is who may write what, when, and what is left after
things went wrong.

## 1. The system and its parts

| Component | Where | State | Operations | Hard behaviour |
|---|---|---|---|---|
| Durable review queue | `review_queue.py`, `worker.py`, table `review_jobs` (migration 002) | one row per idempotency key: status, attempts, available_at, locked_at, locked_by | enqueue, claim, heartbeat, complete, fail; the worker loop | lease expiry under a live worker, crashes between any two statements, statements that commit while their reply is lost, heartbeat failures |
| Review record | `main.py`, table `pr_reviews` (001, 002) | one row per review: status, result (JSON), review_version | update_review, update_review_if_status, transition_review_status, update_review_result | writers with and without compare-and-set; result is replaced as a whole from a snapshot read earlier |
| Human API | `main.py` endpoints approve, reject, request-changes, post-final, rerun, rerun-latest, feedback | none of its own | read row, act on GitHub, write row | two requests on one review, a crash between two writes |
| Review pipeline | `main.py` process_opened_pr, handle_review_job_failure | progress of one attempt of one job | create or find the review, gate, analyse, sync, store; failure path and callback | several jobs and overlapping attempts for one review; draft and ready events in any order; a failure before the gate |
| Review versions | `main.py` get_or_create_review_version, get_previous_review_version | rows per (repo, PR, sha) | allocate under an advisory lock, look up the version before | concurrent allocation, a crash inside the transaction |
| Review graph | `agent.py` build_graph, PRfile; LangGraph | LangGraph checkpoints per thread, memories of the repository and the author | the nodes, checkpoints, interrupt, merge decision, save_memory; invocations by worker, rerun and approval | state accumulated over retries, two invocations on one thread, read-then-replace of the memories |
| Finding lifecycle and feedback | `agent.py`, `main.py` | findings with fingerprint, lifecycle, verdict | classify, apply feedback, refresh, decide | several findings of one fingerprint; dismissals carried across versions, reruns and approvals |
| Sandbox exchange | `review_intelligence.py`, `sandbox_service.py` | request, running and result files, a workspace per call | submit, poll, give up, clean up; take, execute, answer, recover | server crash between two file operations, client timeout |
| Migrations | `review_queue.py` run_migrations | schema_migrations rows, a session lock | apply each file once | concurrent starts, crash inside a migration |
| Diff reading | `main.py` parse_diff, prune_diff_with_budget, diff_position_for_finding | none (pure) | number the lines, cut to a budget, place a comment | lines that are not what they look like; boundaries of the budget |
| GitHub publishing | `main.py` check runs, inline review, retries | check-run id in the row | create, update, sync | retry after a lost reply |

Components interact through the database (`review_jobs`, `pr_reviews`,
`review_finding_feedback`), through calls (the worker loop calls
`process_review_job` and then the failure callback), through files (the
sandbox) and through the LangGraph checkpoint of a review's thread.

What makes each of them correct:

- the queue: one protected worker per job, nobody but the latest attempt ends
  a job, attempts are counted whatever crashes, an ended job stays ended, an
  enqueued job ends;
- the review record and its human writers: one approval at a time, a stored
  decision stays, acknowledged feedback stays, the row claims a publication
  only if there was one, GitHub's check run agrees with the row;
- the pipeline: a finished analysis or a decision is not overwritten by a
  redelivery, a retry or a stale attempt; a review does not say it is being
  worked on when nobody works on it; crashes cost no analysis;
- the versions: the commits of a pull request are numbered 1, 2, 3, ... and no
  attempt is refused by a unique index;
- the findings: what people dismissed stays out through new versions, reruns and
  approvals, or the model names where the code loses it; what they restored gets its
  lifecycle back, and an approval hears them;
- the graph: a review some of whose reviewers failed does not pass for a clean one,
  a decision is about the findings that were shown, the memories count every review;
- the sandbox: no request is answered twice, no command runs for a caller that has
  left, a caller times out only for a reason and always ends;
- the diff: every file is found, lines have their true numbers, comments land on
  them, and what the budget cuts is said to be cut.

## 2. Modules

    JobLifecycle            what the queue promises
      ^ implements            ^ used by (INSTANCE)
    ReviewQueue             ReviewPipeline  ---- Decide ----  ReviewDecisions
                              |  one commit                     |  one row
                              |  Analyse                        |
    SandboxExchange  <----  ReviewGraph, ReviewHistory  ----> (approval, rerun)
    DiffReading      <----  one thread / several commits

Each module but JobLifecycle has an MC module, configurations and a module of proofs
(`...Proofs`). The lower row details what the
upper one takes as one step: `Analyse` of ReviewPipeline prepares the diff
(DiffReading), runs repository commands (SandboxExchange) and the graph
(ReviewGraph), and compares with the version before (ReviewHistory).

**JobLifecycle** is the abstract specification: a job is submitted once, tried,
and ends once, succeeding after some try or given up after at least
`MaxAttempts` tries. ReviewQueue implements it (checked and proved);
ReviewPipeline uses its actions as the queue its jobs come from.

**ReviewQueue** models `review_queue.py`. `row` is the table `review_jobs`,
`worker` the local state of `review_worker_loop` in each process, `faults` the
crashes and failed calls so far. Each SQL statement is an action:

| Action | Code |
|---|---|
| Enqueue | `enqueue_review_job`, INSERT ... ON CONFLICT DO NOTHING |
| Claim, ClaimReplyLost | `claim_review_job`; the second commits without the worker learning of it |
| Heartbeat, HeartbeatError | `_heartbeat_loop`, `heartbeat_review_job` |
| HandlerReturns, HandlerRaises | the end of `await handler(job)` |
| Complete, CompleteError | `complete_review_job` and the loop's `else` branch |
| Fail, FailError, CallbackDone | `fail_review_job`, the failure handler, the `except` branch |
| Start, Crash | a container is started or stops; worker ids are fresh |
| Tick | time: the age of locks, backoffs and heartbeats |

Time is kept as ages, so that every state is finite: `lockAge` is
NOW() - locked_at up to just past the lease, `wait` what is left until
`available_at`. The intervals are whole seconds; the heartbeat interval
`max(min(lease / 3, 30), 1)` is rounded down to them, and with the smallest
leases the one-second floor is what counts.

**ReviewDecisions** models one row of `pr_reviews` and the endpoints that write
it: approve, reject, request-changes, post-final, rerun and feedback. Each
statement, each GitHub call and each graph invocation is a step of a request,
and any of them may fail, before or after its effect, as `Faults` allows.
`result` keeps what the properties tell apart: the decision, the verdict per
finding and the posted flag. `lock_version` is written by every statement and
compared by none, and has no variable. The read that finds a row missing, and
authentication, change nothing and are left out.

**ReviewPipeline** models `process_opened_pr` and `handle_review_job_failure`
for one commit of one pull request, which several jobs may name: the delivery,
its redelivery under another id (reopened), a draft and its ready_for_review.
A run `<<job, attempt>>` is one attempt. Its steps are the statements that write
status or result and the calls that may raise; what happens between them (the
diff, the rules, the intelligence, the context column) is the one step
`Analyse`, which succeeds or raises. A run ends with the queue's `Complete` or
with `Fail` and the callback, and only the latest attempt ends the job: that is
what `AttemptFencesWorkers` and `OnlyLatestAttemptDecides` of ReviewQueue
establish. Humans are one action, `Decide`; how they decide is
ReviewDecisions' subject. The field `owns` of a run follows the code's own
notion of whose review it is: the run created the row, won the compare-and-set
of the gate, or carries a draft event and found a row without a result.

**ReviewHistory** models several commits of one pull request: the versions they
get, and their findings one by one. A job is an attempt to review a commit; the
transaction of `get_or_create_review_version` is `Lock`, then `FindExisting`, or
`Count` and `Insert`, and a job may `Die` between any two. `ReadPrevious` is the
look-up of the version before, `StoreAnalysis` the graph up to its interrupt (the
reviewers report any findings), `StoreDraft` a draft's empty result. `Feedback`,
`Approve` and the three reruns are the human endpoints, each one step: how they
interleave is ReviewDecisions' subject. A rerun starts from a checkpoint before the
reviewers (`RerunReviewers`, they report again), from one at the interrupt
(`RerunDecision`, the graph passes merge_decision and ends), or from one at the end
(`RerunResult`, nothing runs and what it holds is stored); in the last two the row's
feedback is applied to the findings and the decision is left as the graph had it. A
finding is its fingerprint and its place among the findings of that fingerprint, called
twins here; `Classified`, `Refreshed`, `WithFeedback` and `Judged` are the functions of
`agent.py` and `main.py` on it. `analysed` is the thread's latest checkpoint,
`checkpoints` are those a rerun may choose, `previous` what the analysis read.

What people said is kept apart from what the code remembers: `opinion` is the last
verdict on a fingerprint in any version, `told` the last one in each version, and
nothing but a verdict changes them; `carried` is what people wanted out of the pull
request when the version before was read. Where the code loses a verdict, `lost`
records it for that version: the version read did not hold the finding, had lost the
verdict itself, or the last verdict was given in another version or after the reading;
or a result without the finding was stored. `twinned` are the fingerprints that ever had
two findings at once.

**ReviewGraph** models the graph on its LangGraph threads. An invocation is a run:
an analysis with new input (which begins at `load_memory` with the channels of the
thread's latest checkpoint), a rerun from any earlier checkpoint, or an approval,
which goes on from the latest. Each superstep (`LoadMemory`, `Review`,
`RankFindings`, `EndOfGraph`) ends with a checkpoint; `Past` is merge_decision, which
an invocation passes only when it begins there (interrupt_before); save_memory is
three steps, the reads and the two writes. `analysis_errors` has a reducer and is
added to, every other channel is replaced: that is what `Reviewed` and the others do
to the channels. Findings are the worst severity that is not dismissed. LangGraph is
external; the module takes from it that checkpoints are saved after each superstep
and that state with a reducer accumulates over a thread.

**SandboxExchange** models the files between the workers and the sandbox. A call is a
run of `build_repository_intelligence`: `Prepare` (clone), `Submit` or `RunLocally`,
then `TakeAnswer` or `GiveUp`, then `CleanUp`, the finally clause. The server lists
the requests (`Scan`) and for each takes it by a rename (`Take`), checks it, runs its
commands (`StartCommand`, `EndCommand`, `SkipCommand` after the deadline; an exception in
a command makes the whole answer an error), removes the
running file (`Unlink`) and writes the result (`Write`); `Crash` may come at any step
and `Restart` returns running files to the requests. Both sides use one clock; the
deadline of a request is a margin before the caller's timeout.

**DiffReading** advances git and `parse_diff` together, a line at a time: `OpenFile`,
`OpenTextless`, `OpenHunk`, `ReadLine`, then `Finish`, which flushes, resolves the limits
(`Positive`) and prunes (`KeptFiles`, `KeptChunks`: folds over the loop bodies `KeepFile`
and `KeepChunk`). `CommentPosition` places a comment. `truth` is, for every file that has
hunks, what each of its changed lines is; a file without any (binary, renamed, empty) is
opened and leaves no entry. What git writes and what the parser reads need not be the
same, and the model has where they differ:

- a name that git quotes is none to the parser, which drops the file;
- besides plain lines there are the no-newline marker, an added line that starts with
  `++` and a removed one with `--`, which match no branch but the last; with the right
  text after it such a line names the file (`ReadAsName`);
- Python's `splitlines()` divides lines and hunk headers at more characters than `\n`.
  The parser reads each further piece by its first characters: as a changed line or any
  other (`PieceIsLine`), a mode (`PieceIsMode`), a hunk with any numbers (`PieceIsHunk`),
  a file's name (`PieceIsName`), or the beginning of a file without a name
  (`PieceIsFile`). A piece that begins with `--- a/` names a file as `PieceIsName`
  does, and one that has no effect is a line of another kind.

The header lines of a file are one step.

## 3. Properties, runs and bounds

| Run | Instance | Shows |
|---|---|---|
| queue_safety | 2 jobs, 3 worker incarnations of which 2 live, MaxAttempts 3, heartbeats up to 3 late (so leases are lost under live workers), 1 fault, 4 claims per job | types; `AttemptFencesWorkers`; `RetriesAreAccounted`; `EndedRowsAreFinal`; `OnlyLatestAttemptDecides`; `ImplementsLifecycle` |
| queue_punctual | 1 job, 3 worker incarnations of which 2 live, heartbeats at most Lease - HeartbeatEvery late, 2 faults, 5 claims, fairness | `LeaseIsExclusive`; `ExtraAttemptsComeFromFaults`; `EnqueuedJobEnds` |
| queue_loop | 1 worker, 1 fault | violation of `LoopRunsUntilShutdown` |
| decisions | 2 requests of any of 6 kinds, 2 findings, 4 kinds of faults without a limit on their number, fairness | types; `ApprovalIsExclusive`; `DecidersRespectEachOther`; `FeedbackIsSerialised`; `PublishedOnce`; `PublicationIsReal`; `CheckAgrees`; `FinalizingEnds` |
| decisions_lostfeedback | 2 requests, no faults | violation of `AckedFeedbackIsKept` |
| pipeline_safety | 2 deliveries of any 3 kinds of event, 2 attempts each, failing analyses with one more kind of fault | types; `OutcomeIsKept`; `FirstAttemptsShareNothing`; `ReviewSettles`; `CrashesCostNothing` |
| pipeline_draft | a draft and a ready event, no faults | violation of `DraftIsResumed` |
| history | 2 commits, 3 jobs, 1 fingerprint without twins, 2 reruns of any kind | types; `VersionsAreGapless`; `DismissalsAreKept`; `LifecycleIsTrue`; `DecisionHearsPeople` |
| graph | 3 invocations of any kind over 2 reviews, attempts that overlap, one reviewer that may fail, 1 dying invocation | `IncompleteIsNotApproved`; `OldErrorsOnlyHarden`; `DecidesWhatWasShown`; `MemoryIsExact` |
| sandbox | 2 calls, 2 commands each, timeout 4 with margin 2, the server dies once, fairness | `AnsweredOnce`; `CommandsHaveAWaiter`; `TimeoutHasACause`; `EveryCallEnds` |
| diff | 2 files, 4 lines and headers, 2 odd lines or pieces, names quoted or not, budgets below, at and above the size | types; `ParsedIsTrue`; `CommentsAreDisplacedByHunks`; `BudgetBoundsTheChunks`; `OmissionsAreTold` |
| diff_comments | 1 file, 4 lines and headers, all plain | violation of `CommentsLandOnTheirLine` |

The types of the graph and of the sandbox are theorems (section 5) and no run
repeats them.

Why the bounds are enough. In the queue the interesting conflicts are between
two workers on one job, and a third incarnation lets one of them crash and be
replaced; two jobs let a worker lose one and take the other. `MaxClaims` lets a
job be claimed once more than `MaxAttempts` (and three more in queue_punctual),
which only crashes and lost replies bring about. `Lease` 3 is the smallest the
model admits and gives a heartbeat interval of one tick. In the decisions, each
conflict is between two requests; what a third adds (feedback, or a second publication,
that falls between two others) is left to the theorems, which hold for any number. In the pipeline two deliveries give every pair
of events and a redelivery, two attempts (`MaxAttempts` 2) a retry and a
terminal failure; `MaxKinds` keeps database faults, GitHub faults, crashes and
overlapping attempts from multiplying each other, while failing analyses come
with each. The guards bound `faults`, claims, tries and the bounds the modules name; nothing else is
cut off, and no state constraint is used.

In the history, a version needs one before it, and three jobs let two attempts at one
commit race with one at the other; findings meet only by fingerprint, so one fingerprint,
reported or not, shows every case of the functions on findings; the first of two reruns
may drop a finding that the second reports again, and a rerun may start from a checkpoint
another one left. What these bounds cannot show - twins, several fingerprints at once, a
third commit that reads past a version or a draft without the finding - the theorems
cover. In the graph three
invocations are the least that show an analysis, something beside it and an approval;
one reviewer stands for all, since the code treats them alike and the join waits for
all. In the sandbox two calls make one wait behind the other, two commands let the
deadline fall before, in and after a command, and `MaxTime` admits requests that begin
at two instants. In the diff four lines make two hunks of one file with a change each, or two
files; two odd lines or pieces spoil a hunk and its recovery, a file and its neighbour, or
one line twice; `Stray` has a number and none, so a piece read as "@@" may set each
counter right, wrong or unknown; `DefaultLines` and `DefaultTotal` are exceeded, met and
not reached. (The same properties also pass with five lines, one odd and gaps of 0 and 1,
in about a million states.) The two names are interchangeable, and so are the commits and
the jobs of the history; the other symmetric sets are those of the queue.

Many properties of the decisions and the pipeline are conditional, because the
code keeps them only as long as certain things have not come: a rerun, a second
publication, a database error. Each condition is a disjunct of the property,
named and as weak as TLC finds it can be, and the unconditional form that the
documentation suggests is what the violation runs refute. `failed` and
`happened` are history variables that record what has gone wrong; `acked`,
`decided` and `comments` record what was promised or sent.

**Deadlock** is checked in the queue (a worker always has something to do). In
the other modules it is not: there everything may really be over, all requests
answered, all jobs and calls ended, the diff read. (The sandbox server waits for
requests for ever, but its clock is bounded.)

**Fairness.** `FairSpec` of ReviewQueue is weakly fair to each worker's steps,
to due heartbeats, to the start of a worker while fewer than `Replicas` run,
and to time. The event loop schedules the coroutines, handlers end because the
calls they make have timeouts, and the container runtime restarts processes
(`restart` policies in the compose file). Faults are never assumed to happen,
and there are finitely many of them (`MaxFaults`). A worker incarnation must be
left for each loop that ends: `EnqueuedJobEnds` says that the queue recovers,
not that it survives arbitrarily many failures. `FairSpec` of ReviewDecisions
is weakly fair to the steps of requests already accepted, never to the arrival
of requests or to crashes. `FairSpec` of SandboxExchange is weakly fair to the
steps of a call that waits or leaves (its loop sleeps and polls), to the end of a
command (the runner kills it when its timeout is over) and to the clock; nothing is
assumed of the server, which may be down for good.

## 4. Findings

- **queue_loop** (`review_queue.py:344`). The `finally` clause of the worker loop
  awaits the cancelled heartbeat task and suppresses only `CancelledError`. A
  database error the task raised in a renewal surfaces there and leaves the loop,
  which the docstring says runs "until shutdown". The job itself is not lost; the
  process claims no further one.
- **decisions_lostfeedback** (`main.py:2937`). reject, request-changes and approve
  read `result` and write it back whole; the compare-and-set looks at the status
  only. Feedback committed in between is written away, against "Transaction-safe
  human decisions and finding feedback".
- **diff_comments** (`main.py:328`). `parse_diff` does not advance the position at a
  hunk header, and GitHub counts every header after the first. In the second hunk a
  comment is one line too high, in the third two: its `suggestion` block, which
  "developers can apply directly" (`README.md:279-281`), replaces the wrong line.
- **pipeline_draft** (`main.py:2026`). The draft job stores `queued` without a
  comparison, after a call to GitHub. A ready_for_review job that resumed the
  review in between has its finished analysis overwritten, and nothing will
  analyse the commit again.

Consequences of the same kind that have no run of their own and show as conditions of
the properties:

- `DecidersRespectEachOther`: post-final (`main.py:2752`) writes back the result it
  read before it called GitHub; a rejection stored in between keeps its status and
  loses its decision.
- `OutcomeIsKept` and `ReviewSettles`: a redelivered event whose
  `attach_review_to_job` fails stores `failed` over a finished or decided review
  (its handler fails before the gate that would have skipped it), and a draft job
  whose check run could not be created leaves the review `retrying` for ever (its
  retry finds the error payload as a result and returns).

- `IncompleteIsNotApproved`: when reviewers failed, only the absence of active
  findings makes `merge_decision` ask for a human. One low finding is enough for an
  approval of a review that is incomplete.
- `OldErrorsOnlyHarden`: `analysis_errors` accumulates over the attempts of a thread,
  so a retry that succeeds may ask for a human because of an earlier failure.
- `DecidesWhatWasShown`: a rerun and an approval use one thread. The approval goes on
  from the latest checkpoint, which a rerun may have moved, and a rerun from a
  checkpoint at the end stores an older result without moving the latest one.
- `MemoryIsExact`: `save_memory` reads and replaces; two reviews that end together,
  or one cut short between its two writes, are counted too little.
- `DismissalsAreKept` and `LifecycleIsTrue`: the repository's `README.md:281-283` says of
  dismissed findings that they are "carried forward across review versions". The code
  reads the one version before, once, and knows a dismissal only by the finding it is on.
  So a dismissal is lost when that version is a draft's, or did not report the finding,
  or when a rerun that did not report it was stored in between, and the finding is back as
  new when it is reported again; one that is given after the reading, or in another
  version, does not arrive. `lost` names these cases, and the properties show that there
  are no others; findings of one version with one fingerprint (`twinned`) share the
  feedback of the last of them.
- `DecisionHearsPeople`: a rerun from the interrupt, or from the end, stores the graph's
  decision beside findings to which the feedback is applied afterwards
  (`main.py:2627-2633`), so it may say reject for what people have dismissed, against
  "excluded from merge decisions". It errs to that side only, unless a person has restored
  a finding, and an approval computes the decision again.
- The feedback of a review is also kept by index (`main.py:1695`), which a rerun that
  finds other findings leaves pointing at wrong ones; verdicts travel by fingerprint
  and are not affected.
- `ParsedIsTrue`: a file whose name git quotes is dropped, without being called skipped;
  after a no-newline marker, a changed line that starts with `++` or `--`, or a piece of a
  divided line, the later lines of the hunk may have wrong numbers; a piece may be reported
  as a change that nobody made, rename its file or end it. The property exempts a file of
  which `truth` says so (`whole`), a line after something odd in its hunk (`numbered`) and
  a position after a piece (`placed`), and nothing else.
- `BudgetBoundsTheChunks`: the total budget bounds the lines of the chunks only. A file
  whose chunks are dropped keeps its lists of lines (`main.py:534-541`), and the prompt
  sends the files whole (`agent.py:390`): with a total of 1 and a chunk of 3 lines the
  model is shown 3 lines and 0 are reported.
- `OmissionsAreTold`: when the kept lines reach the total exactly, the files after
  are left out without being called pruned.

## 5. Proofs

`ReviewQueueProofs` proves, for any jobs, workers and bounds:

- `TypeCorrect`, `FencingHolds`, `AccountsHold` from the inductive invariant
  `Inv == TypeInv /\ RowsConsistent /\ AttemptFencesWorkers /\ RetriesAreAccounted`.
  The fencing property is not inductive alone: that a claim makes a larger
  number than any worker holds needs the row's number to bound the workers' and
  `locked_by` to name the worker of the latest attempt; RowsConsistent adds what
  a row's status says of its lock.
- `EndedRowsFinal` and `LatestAttemptDecides` (action properties) and
  `QueueImplementsLifecycle` (the refinement) from the same invariant, one step
  per action.
- `ExclusiveLease` and `ExtraAttempts` under the assumption `Punctual`: heartbeats
  run at most Lease - HeartbeatEvery late. Their invariant relates the age of the
  lock to the age of the heartbeat of the worker that holds it: the lock cannot
  be older than the last renewal, so it expires only when its worker has none
  left, and every attempt beyond the limit is charged to a fault.

`ReviewDecisionsProofs` proves, for any requests, findings, endpoints and faults:

- `TypeCorrect`; `ApprovalIsAlone` from `ClaimInv` (a request between the claim and
  the outcome of an approval finds `finalizing`, and is the only one), which holds
  until a rerun comes, and `CameStays` (a request that came stays in the history), so
  that the condition of the property can be used across a step;
- `DecidersRespect` from `FinalInv`, which adds that a feedback transaction holds the
  row lock while it has a snapshot, and that the records an approval writes after
  completion keep the decision it stored;
- `FeedbackSerialised` from the lock: the snapshot of the transaction that holds the
  row is the row;
- `PublicationReal`, for all endpoints together, from the invariant that every
  result a request carries with the posted flag set has a comment behind it;
- `OnePublication` and `CheckRunAgrees`, while GitHub answers and neither a rerun nor a
  second publication comes, from `AnswerInv == FinalInv /\ Answered`. `Answered` says
  that only the request that completed the review publishes, and has not yet
  (`PublishersAreNew`); which decision a request carries that is about to store one, and
  that the check run shows the agent's when an approval is stored (`Carried`); and that
  the check run agrees with the row, or the request that decided has yet to tell GitHub,
  or will not be answered with ok (`Told`).

`ReviewPipelineProofs` proves, for any number of deliveries, attempts and faults:

- `TypeCorrect`, and `FirstAttemptsApart` (two runs have the review at once only in
  the cases `FirstAttemptsShareNothing` lists). Neither is inductive alone: the
  invariant `Inv` adds what the step a run is at says about the review it has read
  and about its event (`RunFits`), that a row without a result has no outcome and a
  queued one a draft event behind it (`RowFits`), and that attempts of one job
  overlap only after that fault (`AttemptsOverlap`).
- `OutcomeKept` from the last conjunct of `Inv`. `Free` says that the database has
  answered and no run took the review while another had it. Then the run that has
  the review is alone (`OwnerAlone`), the row has no outcome until that run is done
  (`OwnerFirst`), and every other run is before the gate or leaves (`OthersAside`);
  so a write without a comparison never meets an outcome, and the gate compares.
- `EveryReviewSettles` and `CrashesAreRecovered` from `SettleInv` and `CalmInv`. Both
  speak of the end of all jobs, so the invariant says at every moment who will still
  write: a review that says `pending` or `retrying` is carried by a run that will write
  to it or take it up at the gate, or by a job the queue will claim again (`CarriedOn`);
  a run underway is the latest attempt of its job, and the job is pending unless that
  attempt was the last and has failed (`RunOrderly`); no job ends before there is a row.
  When nothing but crashes happens, no run raises, and a row without a result waits. At
  rest there is no run and no job to claim, so nothing waits.
- The proof has one lemma per action, which shows that the action is a step of the
  frame `Moves(p)`, and one lemma that such a step keeps `Inv`.

`ReviewHistoryProofs` proves, for any commits, jobs, fingerprints, twins and reruns, the
types and all four properties of the module:

- `TypeCorrect` and `VersionsGapless` from `Sound`: the holder of the lock is the only
  job between `Lock` and the end of its transaction; the number it counted is one more
  than the number of commits that have one; a job works at a commit alone.
- `DismissalsKept`, `LifecycleTrue` and `DecisionHears` from `Remembered`, which adds
  of every commit (`Fits`) that its findings and those of its checkpoints say what
  `told`, `carried` and `previous` imply for every fingerprint that is neither lost nor
  twinned: verdict and lifecycle agree, the lifecycle kept for a restoration is the one
  the version read implies, and a checkpoint holds its findings as they were classified,
  before any verdict. The lemmas about findings show that applying the row's feedback to
  findings so classified gives back what people decided. The decision of a rerun is about
  the checkpoint's findings, among which everything people want out that came from the
  version before is dismissed already: so it can only be harder than theirs.

`ReviewGraphProofs` proves, for any reviews, invocations, failures and grades:

- `TypeCorrect`; `IncompleteNeverApproved` and `OldErrorsHarden` from `Complete` (the
  errors of every run, checkpoint and row include the reviewers that failed in its last
  batch, and findings are called fixed only without errors);
- `ShownIsDecided` from `Watched`: a decider works on a review that is `finalizing`,
  and unless the thread moved on unseen, the latest checkpoint is the one in the row;
- `MemoryCounts` from `Counted`, which follows a save through its steps while it is alone.

`SandboxExchangeProofs` proves, for any calls, commands, timeouts, margins and crashes:

- `TypeCorrect`; `OneAnswer` from `Singles` (a request that is in a file or in the
  server's hands has not been answered);
- `CommandsAwaited` from `Timely`: an open request has a call that waits or died,
  a command ends by the deadline, and the deadline is before the caller's timeout;
- `TimeoutExplained` from `Patience`, which adds where the request of a waiting call is
  unless the server lost it, that the server never writes an empty answer, and how long
  such a call can have waited: the clock passes its deadline only while something other
  than a command of its own holds it up, and `lag` counts that. So one that times out has
  been held up for the whole margin.

`DiffReadingProofs` proves, for diffs of any number of files, hunks and lines, and for
any budgets and defaults, the types and all four properties of the module:

- The loops of the code are folds, and a fold is a recursive function, of which the
  provers know only that it is chosen among those that satisfy its equation. The first
  part shows that there is one: for every fold, the sequence of the values its
  accumulator takes (`FoldExists`, `FoldRuns`). Induction is over a set of numbers
  (`NumbersInduct`, `UpToInduct`, from the library's well-founded minimum), so no theorem
  takes an operator as its parameter: what a loop keeps is stated as the set of the
  lengths up to which it is kept.
- `DiffTyped`, `BudgetHolds` and `OmissionsTold` from `DiffInv`: types, that a hunk is in
  a file, and that a chunk holds no more lines of a kind than its file (so a file that
  is not cut loses nothing in its chunks). Below them are lemmas
  about the two loops: how the size and the total grow, and that an unchanged
  accumulator means that nothing was cut.
- `DiffIsParsed` and `CommentsDisplaced` from `ReadInv`, which adds what the parser and
  git have in common while they read (`InStep`): the numbers of the two sides, as long as
  nothing odd came in this hunk, and the position less the headers of the later hunks, as
  long as no piece came in this file. With it, every file that is whole, the open one
  included, is found once with each of its sound lines, every detail of a file without
  pieces is backed by a line, no file has more lines than git gave it and pieces, and each
  is what its chunks are put together (`EveryFileIsRead`); and the context shows lines of
  the files (`ContextIsOfFiles`).
- `ParsedIsTrue` and `CommentsAreDisplacedByHunks` are not inductive as they stand: the
  counters of the open file and hunk, which they do not mention, decide the next line.
  `CommentsDisplacedAnywhere` drops the bound on the number a comment is for, which the
  property has because TLC evaluates it.

The assumptions are the named ones in the modules (among them `SettingsValid`,
`EnvironmentBounds`, `TimeoutsArePositive`, `CommitsAreFinite`, and those that say that
a null value is none of a set), which TLC evaluates in every run, and `Punctual` where
stated.

Every safety property and every action property that a passing run checks is thus
also a theorem. Only model-checked: `EnqueuedJobEnds`, `FinalizingEnds` and
`EveryCallEnds` (liveness under fairness, out of the prover's reach), and what the
violation runs refute.

## 6. Not modelled, and plan

Not modelled, and why: the dashboard and the HTTP surface (reads and rendering);
prompts, model calls and the language-specific extractors (text whose content no
state machine tells apart); evaluation, observability and benchmarks (reporting over
finished reviews); migrations (a session lock and one transaction per file: what could
go wrong is PostgreSQL's to prevent, and the code keeps no state between the
statements). In what is modelled, left out: the context column, status comments (they
cannot fail a job), metrics and logs, the sandbox's health file, the ranking score, the
size of the prompt; several pull requests (rows of different reviews do not meet);
rerun-latest (it only enqueues, as the webhook does).

What is left to do: stating the parts of the invariants that say something of their own
(`CarriedOn` of the pipeline, `InStep` of the diff) as properties in place of weaker
ones; and the proofs are long where an action touches many conjuncts, so the lemmas on
the frames of ReviewDecisions and ReviewPipeline could be shared.
