----------------------------- MODULE ReviewGraph -----------------------------
(***************************************************************************)
(* The review graph of agent.py and its invocations from main.py: by a     *)
(* worker that analyses a review, by the endpoint that reruns it from a    *)
(* checkpoint and by the one that approves it.                             *)
(*                                                                         *)
(* All invocations for a review use its id as thread.  LangGraph keeps the *)
(* channels of PRfile in memory while it runs, saves them after every      *)
(* superstep as the thread's latest checkpoint, and interrupts before      *)
(* merge_decision.  An invocation with new input begins at the entry point *)
(* with the channels of the latest checkpoint; one without input goes on   *)
(* from a checkpoint.  A channel with a reducer, analysis_errors, is added *)
(* to; every other is replaced by the node that returns it.                *)
(*                                                                         *)
(* Findings are reduced to the severity of the worst one that is not       *)
(* dismissed; ReviewHistory follows them one by one.                       *)
(***************************************************************************)
EXTENDS Naturals, FiniteSets

CONSTANTS
    Reviews,        \* rows of pr_reviews in one repository by one author
    Runs,           \* invocations of the graph
    NoRun,          \* no invocation yet
    Kinds,          \* what they may be, a subset of AllKinds
    Failing,        \* the sets of reviewers that may fail in one run of them
    Grades,         \* how severe the worst finding may be, a subset of Severities
    Overlap,        \* whether two attempts may analyse a review at once
    MaxCrashes      \* bound: invocations that die

AllKinds == {"analysis", "rerun", "approval"}

FindingReviewNodes ==
    {"logic_issues", "security_issues", "performance_issues", "contract_issues", "test_evaluation"}

Severities == {"none", "low", "medium", "high"}

ASSUME KindsKnown == Kinds \subseteq AllKinds /\ Grades \subseteq Severities

ASSUME NoRunIsNoRun == NoRun \notin Runs

ASSUME ReviewsExist == Reviews # {}

ASSUME FailingAreNodes == Failing \subseteq SUBSET FindingReviewNodes /\ {} \in Failing

ASSUME BoundsKnown == MaxCrashes \in Nat /\ Overlap \in BOOLEAN

VARIABLES
    run,            \* the local state of every invocation
    checkpoint,     \* the latest checkpoint of each thread
    older,          \* all checkpoints of each thread
    row,            \* what pr_reviews says of each review
    memory,         \* the repository's and the author's counts in the store
    saves,          \* history: invocations that wrote both memories
    torn,           \* history: a save was cut short, or two ran at once
    unseen,         \* history: reviews whose thread moved on beside the stored result
    crashes         \* how many invocations died

vars == <<run, checkpoint, older, row, memory, saves, torn, unseen, crashes>>
history == <<saves, torn, unseen>>

-----------------------------------------------------------------------------
(* Types *)

Decisions == {"none", "approve", "needs_review", "reject"}

(***************************************************************************)
(* batch: the invocation whose reviewers ran last.  failed: those of its   *)
(* reviewers that failed.  errors: the reviewers named in analysis_errors. *)
(* fixed: whether earlier findings are reported as fixed.  loaded: the     *)
(* repository's count as load_memory found it.                             *)
(***************************************************************************)
Channels == [batch : Runs \cup {NoRun}, failed : SUBSET FindingReviewNodes,
             errors : SUBSET FindingReviewNodes, worst : Severities, fixed : BOOLEAN,
             decision : Decisions, loaded : Nat]

Empty == [batch |-> NoRun, failed |-> {}, errors |-> {}, worst |-> "none", fixed |-> FALSE,
          decision |-> "none", loaded |-> 0]

\* The nodes that wait to run, named by the first of them.
Nodes == {"load_memory", "reviewers", "rank_findings", "merge_decision", "save_memory", "END"}

Checkpoint == [next : Nodes, values : Channels]

At(next, values) == [next |-> next, values |-> values]

Run(kind, review, pc, values, read, shown) ==
    [kind |-> kind, review |-> review, pc |-> pc, values |-> values, read |-> read,
     shown |-> shown]

\* "save_repo" and the two after it are the steps inside save_memory.  read:
\* the two counts it read; shown: the batch in the row when the run began.
RunType == [kind : AllKinds \cup {"none"}, review : Reviews,
            pc : Nodes \cup {"new", "save_repo", "save_author", "saved", "over"},
            values : Channels, read : Nat \X Nat, shown : Runs \cup {NoRun}]

Row(status, shown, decided, asked) ==
    [status |-> status, shown |-> shown, decided |-> decided, asked |-> asked]

\* decided: the channels an approval ended with; asked: the batch the row
\* showed when that approval began.
RowType == [status : {"working", "awaiting_approval", "finalizing", "completed"},
            shown : Runs \cup {NoRun}, decided : Channels, asked : Runs \cup {NoRun}]

TypeOK ==
    /\ run \in [Runs -> RunType]
    /\ checkpoint \in [Reviews -> Checkpoint]
    /\ older \in [Reviews -> SUBSET Checkpoint]
    /\ row \in [Reviews -> RowType]
    /\ memory \in [repo : Nat, author : Nat]
    /\ saves \in Nat
    /\ torn \in BOOLEAN
    /\ unseen \subseteq Reviews
    /\ crashes \in Nat

Init ==
    /\ run = [r \in Runs |->
                Run("none", CHOOSE t \in Reviews : TRUE, "new", Empty, <<0, 0>>, NoRun)]
    /\ checkpoint = [t \in Reviews |-> At("load_memory", Empty)]
    /\ older = [t \in Reviews |-> {}]
    /\ row = [t \in Reviews |-> Row("working", NoRun, Empty, NoRun)]
    /\ memory = [repo |-> 0, author |-> 0]
    /\ saves = 0
    /\ torn = FALSE
    /\ unseen = {}
    /\ crashes = 0

-----------------------------------------------------------------------------
(* The nodes *)

\* Mutant: a failed reviewer softens every decision.
DecideSoftly(worst, errors) ==
    IF errors # {} THEN "needs_review"
    ELSE IF worst \in {"none", "low"} THEN "approve"
    ELSE IF worst = "medium" THEN "needs_review" ELSE "reject"

\* merge_decision: with no active finding a failed reviewer asks for a
\* human; with one, its severity decides alone.
Decide(worst, errors) ==
    CASE worst = "none" -> IF errors = {} THEN "approve" ELSE "needs_review"
      [] worst = "low" -> "approve"
      [] worst = "medium" -> "needs_review"
      [] worst = "high" -> "reject"

Loaded(v, count) == [v EXCEPT !.loaded = count]

\* Mutant: a reviewer that fails returns no findings and nothing else.
ReviewedQuietly(v, r, failing) == [v EXCEPT !.batch = r, !.failed = failing]

\* A reviewer that fails returns no findings and one analysis error.
Reviewed(v, r, failing) ==
    [v EXCEPT !.batch = r, !.failed = failing, !.errors = @ \cup failing]

\* Ranking, grounding, lifecycle and suggestions, in four supersteps of one
\* node each, none of which can fail.  Findings also come from the two checks that
\* use no model, whatever the reviewers did.
Graded(v, worst, fixed) == [v EXCEPT !.worst = worst, !.fixed = fixed]

MayBeFixed(v) == IF v.errors = {} THEN BOOLEAN ELSE {FALSE}

Merged(v) == [v EXCEPT !.decision = Decide(v.worst, v.errors)]

-----------------------------------------------------------------------------
(* Supersteps *)

Moved(r, pc, values, read) ==
    run' = [run EXCEPT ![r] = Run(@.kind, @.review, pc, values, read, @.shown)]

Goes(r, pc, values) == Moved(r, pc, values, run[r].read)

AtWork(t) == {r \in Runs : run[r].review = t /\ run[r].pc \notin {"new", "over"}}

\* The superstep ends with a checkpoint.  unseen notes that a thread's
\* latest checkpoint may no longer be the one whose result is in the row.
Superstep(r, next, values) ==
    LET t == run[r].review IN
    /\ Goes(r, next, values)
    /\ checkpoint' = [checkpoint EXCEPT ![t] = At(next, values)]
    /\ older' = [older EXCEPT ![t] = @ \cup {At(next, values)}]
    /\ unseen' = IF \/ AtWork(t) # {r}
                    \/ run[r].kind # "approval" /\ row[t].status # "working"
                 THEN unseen \cup {t} ELSE unseen

\* load_memory, and extract_summary and classify_files, whose failures count
\* for nothing.
LoadMemory(r) ==
    /\ run[r].pc = "load_memory"
    /\ Superstep(r, "reviewers", Loaded(run[r].values, memory.repo))
    /\ UNCHANGED <<row, memory, saves, torn, crashes>>

\* The four reviewers and the two checks side by side, test_evaluation after
\* logic_issues; the join waits for all of them.
Review(r) ==
    /\ run[r].pc = "reviewers"
    /\ \E failing \in Failing :
          Superstep(r, "rank_findings", Reviewed(run[r].values, r, failing))
    /\ UNCHANGED <<row, memory, saves, torn, crashes>>

RankFindings(r) ==
    /\ run[r].pc = "rank_findings"
    /\ \E worst \in Grades, fixed \in MayBeFixed(run[r].values) :
          Superstep(r, "merge_decision", Graded(run[r].values, worst, fixed))
    /\ UNCHANGED <<row, memory, saves, torn, crashes>>

\* interrupt_before: an invocation that arrives at merge_decision returns;
\* one that begins there passes and saves a decision.
Past(c) == IF c.next = "merge_decision" THEN At("save_memory", Merged(c.values)) ELSE c

SavingNow == {r \in Runs : run[r].pc \in {"save_repo", "save_author", "saved"}}

\* save_memory reads both memories and later replaces both.
ReadMemory(r) ==
    /\ run[r].pc = "save_memory"
    /\ Moved(r, "save_repo", run[r].values, <<memory.repo, memory.author>>)
    /\ torn' = (torn \/ SavingNow # {})
    /\ UNCHANGED <<checkpoint, older, row, memory, saves, unseen, crashes>>

\* Mutant: save_memory adds to the memory load_memory put into the state.
PutRepoFromState(r) ==
    /\ run[r].pc = "save_repo"
    /\ memory' = [memory EXCEPT !.repo = run[r].values.loaded + 1]
    /\ Goes(r, "save_author", run[r].values)
    /\ UNCHANGED <<checkpoint, older, row, history, crashes>>

PutRepo(r) ==
    /\ run[r].pc = "save_repo"
    /\ memory' = [memory EXCEPT !.repo = run[r].read[1] + 1]
    /\ Goes(r, "save_author", run[r].values)
    /\ UNCHANGED <<checkpoint, older, row, history, crashes>>

PutAuthor(r) ==
    /\ run[r].pc = "save_author"
    /\ memory' = [memory EXCEPT !.author = run[r].read[2] + 1]
    /\ saves' = saves + 1
    /\ Goes(r, "saved", run[r].values)
    /\ UNCHANGED <<checkpoint, older, row, torn, unseen, crashes>>

EndOfGraph(r) ==
    /\ run[r].pc = "saved"
    /\ Superstep(r, "END", run[r].values)
    /\ UNCHANGED <<row, memory, saves, torn, crashes>>

-----------------------------------------------------------------------------
(* Invocations *)

Begin(r, kind, t, pc, values) ==
    run' = [run EXCEPT ![r] = Run(kind, t, pc, values, <<0, 0>>, row[t].shown)]

\* process_opened_pr, with new input.  The queue and the gate admit one
\* attempt at a time unless a lease was lost.
BeginAnalysis(r, t) ==
    /\ "analysis" \in Kinds
    /\ run[r].pc = "new"
    /\ row[t].status = "working"
    /\ Overlap \/ {q \in AtWork(t) : run[q].kind = "analysis"} = {}
    /\ Begin(r, "analysis", t, "load_memory", checkpoint[t].values)
    /\ UNCHANGED <<checkpoint, older, row, memory, history, crashes>>

\* rerun_from_checkpoint, at a checkpoint of the caller's choice.
BeginRerun(r, t) ==
    /\ "rerun" \in Kinds
    /\ run[r].pc = "new"
    /\ \E c \in older[t] : Begin(r, "rerun", t, Past(c).next, Past(c).values)
    /\ UNCHANGED <<checkpoint, older, row, memory, history, crashes>>

\* Mutant: the approval invokes the graph with new input.
BeginApprovalAfresh(r, t) ==
    /\ "approval" \in Kinds
    /\ run[r].pc = "new"
    /\ row[t].status = "awaiting_approval"
    /\ row' = [row EXCEPT ![t].status = "finalizing"]
    /\ Begin(r, "approval", t, "load_memory", checkpoint[t].values)
    /\ UNCHANGED <<checkpoint, older, memory, history, crashes>>

\* approve_review takes the row and goes on from the latest checkpoint.
BeginApproval(r, t) ==
    /\ "approval" \in Kinds
    /\ run[r].pc = "new"
    /\ row[t].status = "awaiting_approval"
    /\ row' = [row EXCEPT ![t].status = "finalizing"]
    /\ Begin(r, "approval", t, Past(checkpoint[t]).next, Past(checkpoint[t]).values)
    /\ UNCHANGED <<checkpoint, older, memory, history, crashes>>

Returned == {"merge_decision", "END"}

Over(r) == run' = [run EXCEPT ![r] = Run("none", run[r].review, "over", Empty, <<0, 0>>, NoRun)]

\* The result is stored without comparing anything.  A rerun from the end of
\* an earlier run stores what is not the latest checkpoint's.
StoreAnalysis(r) ==
    LET t == run[r].review IN
    /\ run[r].pc \in Returned
    /\ run[r].kind \in {"analysis", "rerun"}
    /\ row' = [row EXCEPT ![t] = Row("awaiting_approval", run[r].values.batch, @.decided, @.asked)]
    /\ unseen' = IF checkpoint[t] = At(run[r].pc, run[r].values) THEN unseen ELSE unseen \cup {t}
    /\ Over(r)
    /\ UNCHANGED <<checkpoint, older, memory, saves, torn, crashes>>

\* The decision is computed again after the persisted feedback is applied,
\* so there is one although the graph may have been interrupted.
StoreApproval(r) ==
    LET t == run[r].review IN
    /\ run[r].pc \in Returned
    /\ run[r].kind = "approval"
    /\ row' = [row EXCEPT ![t] = Row("completed", run[r].values.batch,
                                     Merged(run[r].values), run[r].shown)]
    /\ Over(r)
    /\ UNCHANGED <<checkpoint, older, memory, history, crashes>>

\* The store or GitHub fails, or the process dies.  A failed approval gives
\* the review back unless its process died.
Fail(r) ==
    LET t == run[r].review IN
    /\ crashes < MaxCrashes
    /\ run[r].pc \notin {"new", "over"}
    /\ crashes' = crashes + 1
    /\ row' \in {row} \cup (IF run[r].kind = "approval" /\ row[t].status = "finalizing"
                            THEN {[row EXCEPT ![t].status = "awaiting_approval"]} ELSE {})
    /\ torn' = (torn \/ run[r].pc \in {"save_author", "saved"})
    /\ Over(r)
    /\ UNCHANGED <<checkpoint, older, memory, saves, unseen>>

Node(r) ==
    \/ LoadMemory(r) \/ Review(r) \/ RankFindings(r)
    \/ ReadMemory(r) \/ PutRepo(r) \/ PutAuthor(r) \/ EndOfGraph(r)

Next ==
    \E r \in Runs :
        \/ Node(r)
        \/ \E t \in Reviews : BeginAnalysis(r, t) \/ BeginRerun(r, t) \/ BeginApproval(r, t)
        \/ StoreAnalysis(r) \/ StoreApproval(r)
        \/ Fail(r)

Spec == Init /\ [][Next]_vars

-----------------------------------------------------------------------------
(* Properties *)

\* What the graph concludes from an analysis never ignores that one of its
\* reviewers failed, whatever attempts the thread has seen: nothing is
\* reported as fixed, and the change is approved only when a low finding is
\* left to approve it with (agent.py, merge_decision).
IncompleteIsNotApproved ==
    \A t \in Reviews :
        LET d == row[t].decided IN
        d.failed # {} => /\ ~ d.fixed
                         /\ d.decision = "approve" => d.worst = "low"

\* Errors left by earlier attempts of the thread can ask for a human where
\* none is needed, and change nothing else.
OldErrorsOnlyHarden ==
    \A t \in Reviews :
        LET d == row[t].decided
            fresh == Decide(d.worst, d.failed)
        IN  d.decision \notin {"none", fresh} => d.decision = "needs_review" /\ fresh = "approve"

\* An approval ends with the findings the row showed when the human asked
\* for it, unless two runs were at work on the thread at once, a run moved its
\* checkpoint after the result was stored, or a rerun stored the result of an
\* older checkpoint.
DecidesWhatWasShown ==
    \A t \in Reviews :
        row[t].status = "completed" /\ t \notin unseen => row[t].decided.batch = row[t].asked

\* Reviews that end one after the other are all counted in both memories,
\* however their analyses overlapped (agent.py, save_memory).
MemoryIsExact == ~ torn => memory.author = saves /\ (SavingNow = {} => memory.repo = saves)

=============================================================================
