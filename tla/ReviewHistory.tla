---------------------------- MODULE ReviewHistory ----------------------------
(***************************************************************************)
(* The versions of one pull request and the life of its findings across    *)
(* them: how main.py numbers the reviews of its commits, what an analysis  *)
(* learns from the version before, and what human feedback, a rerun and an *)
(* approval do to the findings.                                            *)
(*                                                                         *)
(* A finding is known across versions by its fingerprint: file, rule or    *)
(* category, and description.  The line is no part of it, so one version   *)
(* may hold several findings with one fingerprint, here called twins and   *)
(* numbered in the order of ranked_findings.                               *)
(*                                                                         *)
(* Approval, rerun and feedback are single steps here; ReviewDecisions has *)
(* their interleavings, ReviewPipeline who may analyse a commit.  Reruns   *)
(* start from checkpoints of the analysis that was stored and of what      *)
(* followed it.                                                            *)
(*                                                                         *)
(* What people said is kept in history variables of its own that nothing   *)
(* but a verdict changes; where the code loses it is recorded beside it.   *)
(***************************************************************************)
EXTENDS Naturals, FiniteSets

CONSTANTS
    Commits,        \* the heads the pull request has had
    Jobs,           \* attempts to review one of them
    Nobody,         \* no job
    Keys,           \* fingerprints
    MaxTwins,       \* bound: findings of one fingerprint in a version
    Grave,          \* the fingerprints of high or critical severity
    MaxReruns       \* bound: reruns from a checkpoint

ASSUME NobodyIsNoJob == Nobody \notin Jobs

ASSUME GraveAreKeys == Grave \subseteq Keys

ASSUME CommitsAreFinite == IsFiniteSet(Commits)

ASSUME BoundsAreNumbers == MaxTwins \in Nat /\ MaxReruns \in Nat

VARIABLES
    holder,         \* the job that holds the pull request's advisory lock
    job,            \* the local state of every job
    row,            \* the row of pr_reviews of every commit
    analysed,       \* the latest checkpoint of the review's thread
    checkpoints,    \* those a rerun may choose: at the interrupt, at the end
    previous,       \* previous_findings, as the analysis of a commit read them
    reruns,         \* how many reruns there were
    opinion,        \* history: the last verdict on a fingerprint, in any version
    told,           \* history: the last verdict on it in this version
    carried,        \* history: what people wanted out when previous was read
    lost,           \* history: fingerprints whose verdicts did not get here
    twinned         \* history: fingerprints that ever had two findings at once

thread == <<analysed, checkpoints>>
said == <<opinion, told, carried>>
history == <<said, lost, twinned>>
vars == <<holder, job, row, thread, previous, reruns, history>>

-----------------------------------------------------------------------------
(* Types *)

\* Positions among the findings of one fingerprint.
Twins == 1 .. MaxTwins

Lifecycles == {"new", "recurring", "dismissed"}

Verdicts == {"none", "valid", "dismissed"}

Finding == [key : Keys, twin : Twins, lifecycle : Lifecycles,
            before : {"none"} \cup Lifecycles, verdict : Verdicts]

\* done: the graph has passed merge_decision and ended.
CheckpointType == [findings : SUBSET Finding, fixed : SUBSET Keys, done : BOOLEAN]

Checkpoint(findings, fixed, done) == [findings |-> findings, fixed |-> fixed, done |-> done]

\* stored: what result holds, if it has ranked_findings: those of a draft,
\* which are none, or those of an analysis.
RowType == [version : Nat, stored : {"no", "draft", "analysis"}, findings : SUBSET Finding, fixed : SUBSET Keys,
            open : BOOLEAN, decision : {"none", "approve", "reject"}]

Row(version, stored, findings, fixed, open, decision) ==
    [version |-> version, stored |-> stored, findings |-> findings, fixed |-> fixed,
     open |-> open, decision |-> decision]

NoRow == Row(0, "no", {}, {}, FALSE, "none")

\* next: the version a job is about to insert.
Local(pc, commit, next) == [pc |-> pc, commit |-> commit, next |-> next]

JobType == [pc : {"idle", "locked", "counted", "begun", "analysing", "over"},
            commit : Commits, next : Nat]

TypeOK ==
    /\ holder \in Jobs \cup {Nobody}
    /\ job \in [Jobs -> JobType]
    /\ row \in [Commits -> RowType]
    /\ analysed \in [Commits -> CheckpointType]
    /\ checkpoints \in [Commits -> SUBSET CheckpointType]
    /\ previous \in [Commits -> SUBSET Finding]
    /\ reruns \in Nat
    /\ opinion \in [Keys -> Verdicts]
    /\ told \in [Commits -> [Keys -> Verdicts]]
    /\ carried \in [Commits -> SUBSET Keys]
    /\ lost \in [Commits -> SUBSET Keys]
    /\ twinned \subseteq Keys

Init ==
    /\ holder = Nobody
    /\ job \in [Jobs -> {Local("idle", c, 0) : c \in Commits}]
    /\ row = [c \in Commits |-> NoRow]
    /\ analysed = [c \in Commits |-> Checkpoint({}, {}, FALSE)]
    /\ checkpoints = [c \in Commits |-> {}]
    /\ previous = [c \in Commits |-> {}]
    /\ reruns = 0
    /\ opinion = [k \in Keys |-> "none"]
    /\ told = [c \in Commits |-> [k \in Keys |-> "none"]]
    /\ carried = [c \in Commits |-> {}]
    /\ lost = [c \in Commits |-> {}]
    /\ twinned = {}

-----------------------------------------------------------------------------
(* Findings *)

KeysOf(findings) == {f.key : f \in findings}

Id(f) == <<f.key, f.twin>>

\* A dictionary by fingerprint keeps the last of the twins.
Last(findings, key) ==
    CHOOSE f \in findings :
        f.key = key /\ \A g \in findings : g.key = key => g.twin <= f.twin

IsDismissed(f) == f.lifecycle = "dismissed" \/ f.verdict = "dismissed"

DismissedKeys(findings) == {k \in KeysOf(findings) : IsDismissed(Last(findings, k))}

\* Mutant: what was dismissed before is merely known.
ClassifiedAfresh(id, before) ==
    [key |-> id[1], twin |-> id[2],
     lifecycle |-> IF id[1] \in KeysOf(before) THEN "recurring" ELSE "new",
     before |-> "none", verdict |-> "none"]

\* classify_finding_lifecycle, for a finding the graph has just produced.
Classified(id, before) ==
    LET known == id[1] \in KeysOf(before)
        dismissed == id[1] \in DismissedKeys(before)
    IN  [key |-> id[1], twin |-> id[2],
         lifecycle |-> IF dismissed THEN "dismissed" ELSE IF known THEN "recurring" ELSE "new",
         before |-> IF dismissed THEN "recurring" ELSE "none",
         verdict |-> "none"]

Classify(ids, before) == {Classified(id, before) : id \in ids}

\* covered: the fingerprints whose absence counts.  These are all when nothing
\* was truncated, those of the files of the diff otherwise, and none when a
\* reviewer failed.
Fixed(ids, before, covered) ==
    ((KeysOf(before) \ DismissedKeys(before)) \ {id[1] : id \in ids}) \cap covered

\* Mutant: no default for a finding that was never dismissed.
RefreshedBlindly(f) ==
    [f EXCEPT !.lifecycle = IF f.verdict = "dismissed" THEN "dismissed"
                            ELSE IF f.verdict = "valid" THEN f.before ELSE @]

\* refresh_finding_lifecycle
Refreshed(f) ==
    [f EXCEPT !.lifecycle =
        IF f.verdict = "dismissed" THEN "dismissed"
        ELSE IF f.verdict = "valid" /\ @ = "dismissed"
        THEN IF f.before = "none" THEN "new" ELSE f.before
        ELSE @]

\* Mutant: the lifecycle before the dismissal is not copied.
WithFeedbackForgetful(f, persisted) ==
    IF f.key \notin KeysOf(persisted)
    THEN Refreshed(f)
    ELSE LET p == Last(persisted, f.key)
         IN  Refreshed([f EXCEPT
                 !.verdict = IF p.verdict # "none" THEN p.verdict ELSE @,
                 !.lifecycle = IF IsDismissed(p) THEN "dismissed" ELSE @])

\* apply_persisted_finding_feedback, for one finding of the graph.
WithFeedback(f, persisted) ==
    IF f.key \notin KeysOf(persisted)
    THEN Refreshed(f)
    ELSE LET p == Last(persisted, f.key)
             judged == p.verdict # "none"
         IN  Refreshed([f EXCEPT
                 !.verdict = IF judged THEN p.verdict ELSE @,
                 !.before = IF judged /\ p.before # "none" THEN p.before ELSE @,
                 !.lifecycle = IF IsDismissed(p) THEN "dismissed" ELSE @])

ApplyFeedback(findings, persisted) == {WithFeedback(f, persisted) : f \in findings}

\* What record_finding_feedback makes of the finding it is about.
Judged(f, verdict) ==
    Refreshed([f EXCEPT
        !.before = IF verdict = "dismissed" /\ f.lifecycle # "dismissed" THEN f.lifecycle ELSE @,
        !.verdict = verdict])

\* merge_decision, as far as it depends on what is dismissed.
Decide(keys) == IF keys \cap Grave # {} THEN "reject" ELSE "approve"

Active(findings) == KeysOf({f \in findings : f.lifecycle # "dismissed"})

-----------------------------------------------------------------------------
(* Versions *)

Goes(j, pc, next) == job' = [job EXCEPT ![j] = Local(pc, job[j].commit, next)]

\* Mutant: no advisory lock.
LockFreely(j) ==
    /\ job[j].pc = "idle"
    /\ holder' = j
    /\ Goes(j, "locked", 0)
    /\ UNCHANGED <<row, thread, previous, reruns, history>>

\* get_or_create_review_version: pg_advisory_xact_lock ...
Lock(j) ==
    /\ job[j].pc = "idle"
    /\ holder = Nobody
    /\ holder' = j
    /\ Goes(j, "locked", 0)
    /\ UNCHANGED <<row, thread, previous, reruns, history>>

Versions == {row[c].version : c \in Commits}

Highest(numbers) == CHOOSE n \in numbers : \A m \in numbers : m <= n

\* ... the row of this commit, which ends the transaction.  A retry or an event
\* that ends the draft takes the review up if nobody else works on it ...
FindExisting(j) ==
    LET c == job[j].commit IN
    /\ job[j].pc = "locked"
    /\ row[c].version # 0
    /\ holder' = Nobody
    /\ LET free == /\ row[c].stored # "analysis"
                   /\ \A i \in Jobs \ {j} :
                         job[i].commit = c => job[i].pc \notin {"begun", "analysing"}
       IN  Goes(j, IF free THEN "begun" ELSE "over", 0)
    /\ UNCHANGED <<row, thread, previous, reruns, history>>

\* ... or the number after the highest ...
Count(j) ==
    /\ job[j].pc = "locked"
    /\ row[job[j].commit].version = 0
    /\ Goes(j, "counted", Highest(Versions) + 1)
    /\ UNCHANGED <<holder, row, thread, previous, reruns, history>>

\* The unique indexes on (pull request, source_sha) and (pull request,
\* review_version).
Taken(c, version) == row[c].version # 0 \/ version \in Versions

\* ... and the insertion, which commits unless an index refuses it.
Insert(j) ==
    LET c == job[j].commit
        refused == Taken(c, job[j].next)
    IN  /\ job[j].pc = "counted"
        /\ row' = IF refused THEN row ELSE [row EXCEPT ![c].version = job[j].next]
        /\ holder' = IF holder = j THEN Nobody ELSE holder
        /\ Goes(j, IF refused THEN "over" ELSE "begun", 0)
        /\ UNCHANGED <<thread, previous, reruns, history>>

\* The attempt dies or fails; a transaction of its is rolled back.
Die(j) ==
    /\ job[j].pc \notin {"idle", "over"}
    /\ holder' = IF holder = j THEN Nobody ELSE holder
    /\ Goes(j, "over", 0)
    /\ UNCHANGED <<row, thread, previous, reruns, history>>

-----------------------------------------------------------------------------
(* Analysis *)

\* get_previous_review_version
Earlier(c) == {d \in Commits : row[d].stored # "no" /\ row[d].version < row[c].version}

Previous(c) ==
    CHOOSE d \in Earlier(c) : \A e \in Earlier(c) : row[e].version <= row[d].version

\* What people want out of version c: what they dismissed here and did not
\* judge valid after, and, of what they said nothing about here, what they
\* wanted out of the pull request when the version before was read.
Unwanted(c) ==
    {k \in Keys : told[c][k] = "dismissed" \/ (told[c][k] = "none" /\ k \in carried[c])}

\* Version d hands on what people last said of k: it holds the finding, it has
\* not lost the verdict, and nobody has said otherwise in another version.
HandsOn(d, k) ==
    /\ k \in KeysOf(row[d].findings)
    /\ k \notin lost[d]
    /\ k \in Unwanted(d) <=> opinion[k] = "dismissed"

ReadPrevious(j) ==
    LET c == job[j].commit IN
    /\ job[j].pc = "begun"
    /\ previous' = [previous EXCEPT ![c] = IF Earlier(c) = {} THEN {} ELSE row[Previous(c)].findings]
    /\ carried' = [carried EXCEPT ![c] = {k \in Keys : opinion[k] = "dismissed"}]
    /\ lost' = [lost EXCEPT ![c] =
                   {k \in Keys : opinion[k] # "none" /\ (Earlier(c) = {} \/ ~HandsOn(Previous(c), k))}]
    /\ Goes(j, "analysing", 0)
    /\ UNCHANGED <<holder, row, thread, reruns, opinion, told, twinned>>

\* What the reviewers may report.
Reports ==
    {ids \in SUBSET (Keys \X Twins) :
        \A id \in ids : \A t \in Twins : t < id[2] => <<id[1], t>> \in ids}

TwinsIn(ids) == {id[1] : id \in {x \in ids : \E y \in ids : x # y /\ x[1] = y[1]}}

\* A draft is not analysed; its row gets an empty list of findings.
StoreDraft(j) ==
    LET c == job[j].commit IN
    /\ job[j].pc = "begun"
    /\ row[c].stored = "no"
    /\ row' = [row EXCEPT ![c].stored = "draft"]
    /\ Goes(j, "over", 0)
    /\ UNCHANGED <<holder, thread, previous, reruns, history>>

\* A state of the graph becomes the result, with the feedback of the row
\* (none, after the first analysis); verdicts on findings that are not in it
\* are gone.
Store(c, cp, open, decision) ==
    LET findings == ApplyFeedback(cp.findings, row[c].findings) IN
    /\ row' = [row EXCEPT ![c] = Row(@.version, "analysis", findings, cp.fixed, open, decision)]
    /\ lost' = [lost EXCEPT ![c] = @ \cup {k \in Keys \ KeysOf(findings) : told[c][k] # "none"}]

\* The graph goes on and saves this checkpoint as its latest.
GoesTo(c, cp) ==
    /\ analysed' = [analysed EXCEPT ![c] = cp]
    /\ checkpoints' = [checkpoints EXCEPT ![c] = @ \cup {cp}]

\* The graph runs to its interrupt and its result is stored: reviewers report
\* anything, and it is compared with the previous findings in the state.
Analyse(c) ==
    \E ids \in Reports, covered \in SUBSET Keys :
        LET cp == Checkpoint(Classify(ids, previous[c]), Fixed(ids, previous[c], covered), FALSE)
        IN  /\ GoesTo(c, cp)
            /\ Store(c, cp, TRUE, "none")
            /\ twinned' = twinned \cup TwinsIn(ids)

StoreAnalysis(j) ==
    /\ job[j].pc = "analysing"
    /\ Analyse(job[j].commit)
    /\ Goes(j, "over", 0)
    /\ UNCHANGED <<holder, previous, reruns, said>>

-----------------------------------------------------------------------------
(* People *)

\* record_finding_feedback: the verdict goes to one finding, the index being
\* its own among the twins.
Feedback(c, f, verdict) ==
    /\ row[c].stored = "analysis"
    /\ row' = [row EXCEPT ![c].findings =
                  {Refreshed(g) : g \in @ \ {f}} \cup {Judged(f, verdict)}]
    /\ told' = [told EXCEPT ![c][f.key] = verdict]
    /\ opinion' = [opinion EXCEPT ![f.key] = verdict]
    /\ lost' = [lost EXCEPT ![c] = @ \ {f.key}]
    /\ UNCHANGED <<holder, job, thread, previous, reruns, carried, twinned>>

\* Mutant: the decision is the graph's, not calculated again.
ApproveUnheard(c) ==
    LET cp == [analysed[c] EXCEPT !.done = TRUE] IN
    /\ row[c].stored = "analysis"
    /\ row[c].open
    /\ GoesTo(c, cp)
    /\ Store(c, cp, FALSE, Decide(Active(cp.findings)))
    /\ UNCHANGED <<holder, job, previous, reruns, said, twinned>>

\* approve_review: the graph goes on from the latest checkpoint to its end,
\* and the decision is calculated again with the feedback of the row.
Approve(c) ==
    LET cp == [analysed[c] EXCEPT !.done = TRUE] IN
    /\ row[c].stored = "analysis"
    /\ row[c].open
    /\ GoesTo(c, cp)
    /\ Store(c, cp, FALSE, Decide(Active(ApplyFeedback(cp.findings, row[c].findings))))
    /\ UNCHANGED <<holder, job, previous, reruns, said, twinned>>

Reruns(c) ==
    /\ reruns < MaxReruns
    /\ row[c].stored = "analysis"
    /\ reruns' = reruns + 1
    /\ UNCHANGED <<holder, job, previous, said>>

\* rerun_from_checkpoint, from one before the reviewers: they run again and may
\* find something else.
RerunReviewers(c) == Reruns(c) /\ Analyse(c)

\* ... from one at the interrupt: the graph passes merge_decision, which has
\* not heard the feedback, and ends; the decision is stored as it is.
RerunDecision(c) ==
    /\ Reruns(c)
    /\ \E cp \in checkpoints[c] :
          /\ ~cp.done
          /\ GoesTo(c, [cp EXCEPT !.done = TRUE])
          /\ Store(c, cp, TRUE, Decide(Active(cp.findings)))
    /\ UNCHANGED twinned

\* ... from one at the end: nothing runs, and what it holds is stored.
RerunResult(c) ==
    /\ Reruns(c)
    /\ \E cp \in checkpoints[c] :
          /\ cp.done
          /\ Store(c, cp, TRUE, Decide(Active(cp.findings)))
    /\ UNCHANGED <<thread, twinned>>

JobStep(j) ==
    \/ Lock(j) \/ FindExisting(j) \/ Count(j) \/ Insert(j) \/ Die(j)
    \/ StoreDraft(j) \/ ReadPrevious(j) \/ StoreAnalysis(j)

HumanStep(c) ==
    \/ \E f \in row[c].findings, verdict \in {"valid", "dismissed"} : Feedback(c, f, verdict)
    \/ Approve(c)
    \/ RerunReviewers(c) \/ RerunDecision(c) \/ RerunResult(c)

Next ==
    \/ \E j \in Jobs : JobStep(j)
    \/ \E c \in Commits : HumanStep(c)

Spec == Init /\ [][Next]_vars

-----------------------------------------------------------------------------
(* Properties *)

\* The commits of a pull request are numbered 1, 2, 3, ... without a gap or
\* a double, and no attempt is turned away by the unique indexes, whatever jobs
\* and crashes overlap (get_or_create_review_version, under its advisory lock).
VersionsAreGapless ==
    LET seen == {c \in Commits : row[c].version # 0}
    IN  /\ \A c, d \in seen : row[c].version = row[d].version => c = d
        /\ {row[c].version : c \in seen} = 1 .. Cardinality(seen)
        /\ \A j \in Jobs : job[j].pc = "counted" => ~Taken(job[j].commit, job[j].next)

\* A finding is dismissed exactly when people want it out (README:
\* "Dismissed findings are persisted as reviewer feedback, carried forward
\* across review versions"), through analyses, approvals and reruns of every
\* kind.  Not so where lost and twinned say: the version that was read did not
\* hold the finding (a draft, or not reported there), or had lost the verdict,
\* or the verdict came elsewhere after it was read; a result without the
\* finding was stored in between; or two findings share the fingerprint.
DismissalsAreKept ==
    \A c \in Commits : \A f \in row[c].findings :
        f.key \notin twinned \cup lost[c] =>
            (f.lifecycle = "dismissed" <=> f.key \in Unwanted(c))

\* Dismissing and restoring a finding, in any order and across reruns and
\* approvals, ends with what the comparison with the version before says;
\* what is reported as fixed was active there and is not here.
LifecycleIsTrue ==
    \A c \in Commits :
        /\ \A f \in row[c].findings :
              f.key \notin twinned /\ f.lifecycle # "dismissed" =>
                  f.lifecycle = IF f.key \in KeysOf(previous[c]) THEN "recurring" ELSE "new"
        /\ row[c].fixed \cap carried[c] \subseteq twinned \cup lost[c]
        /\ row[c].fixed \subseteq KeysOf(previous[c]) \ KeysOf(row[c].findings)

\* A step stores a decision: an approval, or a rerun that ends the graph.
Decides(c) ==
    /\ row'[c].decision # "none"
    /\ <<row'[c].decision, row'[c].open>> # <<row[c].decision, row[c].open>>

\* The decision a step stores is that of people, or errs to the safe side.
Hears(c) ==
    LET wanted == KeysOf(row'[c].findings) \ Unwanted(c) IN
    /\ ~row'[c].open => row'[c].decision = Decide(wanted)
    /\ \/ row'[c].decision = "reject"
       \/ Decide(wanted) = "approve"
       \/ \E k \in Keys : told[c][k] = "valid"

\* An approval concludes as if the findings people want out were not there
\* (README: "excluded from merge decisions"), after any reruns.  A rerun does
\* not: it stores the decision of the graph, which has heard nothing of this
\* version's verdicts.  But it errs to the safe side only: it does not approve
\* what people would not, unless they restored a finding.
DecisionHearsPeople ==
    [][\A c \in Commits :
          Decides(c) /\ KeysOf(row'[c].findings) \cap (twinned \cup lost[c]) = {} => Hears(c)]_vars

=============================================================================
