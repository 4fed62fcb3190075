-------------------------- MODULE ReviewGraphProofs --------------------------
(***************************************************************************)
(* Theorems about ReviewGraph, for any number of reviews and invocations,  *)
(* any failing reviewers and any number of deaths.                         *)
(***************************************************************************)
EXTENDS ReviewGraph, TLAPS

-----------------------------------------------------------------------------
(* Channels *)

LEMMA EmptyTyped ==
  /\ Empty \in Channels
  /\ Empty.failed = {} /\ Empty.errors = {} /\ Empty.batch = NoRun /\ Empty.decision = "none"
  BY DEF Empty, Channels, Severities, Decisions

LEMMA LoadedChannels ==
  ASSUME NEW v \in Channels, NEW n \in Nat
  PROVE  /\ Loaded(v, n) \in Channels
         /\ Loaded(v, n).failed = v.failed
         /\ Loaded(v, n).errors = v.errors
  BY DEF Loaded, Channels

LEMMA ReviewedChannels ==
  ASSUME NEW v \in Channels, NEW r \in Runs, NEW failing \in Failing
  PROVE  /\ Reviewed(v, r, failing) \in Channels
         /\ Reviewed(v, r, failing).failed = failing
         /\ Reviewed(v, r, failing).errors = v.errors \cup failing
  BY FailingAreNodes DEF Reviewed, Channels

LEMMA GradedChannels ==
  ASSUME NEW v \in Channels, NEW worst \in Grades, NEW fixed \in MayBeFixed(v)
  PROVE  /\ Graded(v, worst, fixed) \in Channels
         /\ Graded(v, worst, fixed).failed = v.failed
         /\ Graded(v, worst, fixed).errors = v.errors
         /\ Graded(v, worst, fixed).errors # {} => ~ Graded(v, worst, fixed).fixed
  <1>1. fixed \in BOOLEAN /\ (v.errors # {} => ~ fixed)
    BY DEF MayBeFixed
  <1>2. QED
    BY <1>1, KindsKnown DEF Graded, Channels

LEMMA MergedChannels ==
  ASSUME NEW v \in Channels
  PROVE  /\ Merged(v) \in Channels
         /\ Merged(v).failed = v.failed
         /\ Merged(v).errors = v.errors
         /\ Merged(v).fixed = v.fixed
         /\ Merged(v).batch = v.batch
         /\ Merged(v).worst = v.worst
         /\ Merged(v).decision = Decide(v.worst, v.errors)
  <1>1. v.worst \in Severities
    BY DEF Channels
  <1>2. Decide(v.worst, v.errors) \in Decisions
    BY <1>1 DEF Decide, Severities, Decisions
  <1>3. QED
    BY <1>2 DEF Merged, Channels

-----------------------------------------------------------------------------
(* What the steps of an invocation do to run *)

Places == Nodes \cup {"new", "save_repo", "save_author", "saved", "over"}

RunsTyped == run \in [Runs -> RunType]

\* One invocation changes.
Becomes(r, kind, t, pc, values, read, shown) ==
    /\ run' \in [Runs -> RunType]
    /\ \A q \in Runs \ {r} : run'[q] = run[q]
    /\ run'[r].kind = kind
    /\ run'[r].review = t
    /\ run'[r].pc = pc
    /\ run'[r].values = values
    /\ run'[r].read = read
    /\ run'[r].shown = shown

LEMMA MovedBecomes ==
  ASSUME RunsTyped, NEW r \in Runs, NEW pc \in Places, NEW values \in Channels,
         NEW read \in Nat \X Nat, Moved(r, pc, values, read)
  PROVE  Becomes(r, run[r].kind, run[r].review, pc, values, read, run[r].shown)
  BY DEF RunsTyped, RunType, Run, Moved, Becomes, Places

LEMMA RunFields ==
  ASSUME RunsTyped, NEW r \in Runs
  PROVE  /\ run[r].kind \in AllKinds \cup {"none"}
         /\ run[r].review \in Reviews
         /\ run[r].pc \in Places
         /\ run[r].values \in Channels
         /\ run[r].read \in Nat \X Nat
         /\ run[r].shown \in Runs \cup {NoRun}
  BY DEF RunsTyped, RunType, Places

LEMMA GoesBecomes ==
  ASSUME RunsTyped, NEW r \in Runs, NEW pc \in Places, NEW values \in Channels,
         Goes(r, pc, values)
  PROVE  Becomes(r, run[r].kind, run[r].review, pc, values, run[r].read, run[r].shown)
  BY MovedBecomes, RunFields DEF Goes

LEMMA BeginBecomes ==
  ASSUME RunsTyped, row \in [Reviews -> RowType], NEW r \in Runs, NEW kind \in AllKinds,
         NEW t \in Reviews, NEW pc \in Places, NEW values \in Channels,
         Begin(r, kind, t, pc, values)
  PROVE  Becomes(r, kind, t, pc, values, <<0, 0>>, row[t].shown)
  <1>1. row[t].shown \in Runs \cup {NoRun}
    BY DEF RowType
  <1>2. QED
    BY <1>1 DEF RunsTyped, RunType, Run, Begin, Becomes, Places

LEMMA OverBecomes ==
  ASSUME RunsTyped, NEW r \in Runs, Over(r)
  PROVE  Becomes(r, "none", run[r].review, "over", Empty, <<0, 0>>, NoRun)
  BY EmptyTyped DEF RunsTyped, RunType, Run, Over, Becomes

LEMMA AtTyped ==
  ASSUME NEW next \in Nodes, NEW values \in Channels
  PROVE  /\ At(next, values) \in Checkpoint
         /\ At(next, values).next = next
         /\ At(next, values).values = values
  BY DEF At, Checkpoint

\* A superstep moves its invocation, the latest checkpoint of its thread and
\* the set of the thread's checkpoints.
Saves(r, next, values) ==
    LET t == run[r].review IN
    /\ checkpoint' \in [Reviews -> Checkpoint]
    /\ older' \in [Reviews -> SUBSET Checkpoint]
    /\ checkpoint'[t] = At(next, values)
    /\ older'[t] = older[t] \cup {At(next, values)}
    /\ \A u \in Reviews \ {t} : checkpoint'[u] = checkpoint[u] /\ older'[u] = older[u]

Threads ==
    /\ checkpoint \in [Reviews -> Checkpoint]
    /\ older \in [Reviews -> SUBSET Checkpoint]

LEMMA SuperstepSaves ==
  ASSUME RunsTyped, Threads, unseen \subseteq Reviews,
         NEW r \in Runs, NEW next \in Nodes, NEW values \in Channels,
         Superstep(r, next, values)
  PROVE  /\ Becomes(r, run[r].kind, run[r].review, next, values, run[r].read, run[r].shown)
         /\ Saves(r, next, values)
         /\ unseen \subseteq unseen' /\ unseen' \subseteq Reviews
  <1>1. Becomes(r, run[r].kind, run[r].review, next, values, run[r].read, run[r].shown)
    BY GoesBecomes DEF Superstep, Places
  <1>2. Saves(r, next, values)
    BY AtTyped, RunFields DEF Superstep, Threads, Saves
  <1>3. unseen \subseteq unseen' /\ unseen' \subseteq Reviews
    BY RunFields DEF Superstep
  <1>4. QED
    BY <1>1, <1>2, <1>3

-----------------------------------------------------------------------------
(* Type correctness *)

LEMMA LoadMemorySteps ==
  ASSUME TypeOK, NEW r \in Runs, LoadMemory(r)
  PROVE  LET v == Loaded(run[r].values, memory.repo)
         IN  /\ v \in Channels /\ Superstep(r, "reviewers", v)
             /\ Becomes(r, run[r].kind, run[r].review, "reviewers", v, run[r].read, run[r].shown)
             /\ Saves(r, "reviewers", v)
             /\ unseen \subseteq unseen' /\ unseen' \subseteq Reviews
  <1>1. RunsTyped /\ Threads /\ unseen \subseteq Reviews /\ memory.repo \in Nat
    BY DEF TypeOK, RunsTyped, Threads
  <1>2. Loaded(run[r].values, memory.repo) \in Channels
    BY <1>1, RunFields, LoadedChannels
  <1>3. "reviewers" \in Nodes /\ Superstep(r, "reviewers", Loaded(run[r].values, memory.repo))
    BY DEF LoadMemory, Nodes
  <1>4. QED
    BY <1>1, <1>2, <1>3, SuperstepSaves

LEMMA ReviewSteps ==
  ASSUME TypeOK, NEW r \in Runs, Review(r)
  PROVE  \E failing \in Failing :
             LET v == Reviewed(run[r].values, r, failing)
             IN  /\ v \in Channels /\ Superstep(r, "rank_findings", v)
                 /\ Becomes(r, run[r].kind, run[r].review, "rank_findings", v, run[r].read, run[r].shown)
                 /\ Saves(r, "rank_findings", v)
                 /\ unseen \subseteq unseen' /\ unseen' \subseteq Reviews
  <1>1. RunsTyped /\ Threads /\ unseen \subseteq Reviews
    BY DEF TypeOK, RunsTyped, Threads
  <1>2. PICK failing \in Failing :
            Superstep(r, "rank_findings", Reviewed(run[r].values, r, failing))
    BY DEF Review
  <1>3. Reviewed(run[r].values, r, failing) \in Channels
    BY <1>1, RunFields, ReviewedChannels
  <1>4. "rank_findings" \in Nodes
    BY DEF Nodes
  <1>5. QED
    BY <1>1, <1>2, <1>3, <1>4, SuperstepSaves

LEMMA RankFindingsSteps ==
  ASSUME TypeOK, NEW r \in Runs, RankFindings(r)
  PROVE  \E worst \in Grades : \E fixed \in MayBeFixed(run[r].values) :
             LET v == Graded(run[r].values, worst, fixed)
             IN  /\ v \in Channels /\ Superstep(r, "merge_decision", v)
                 /\ Becomes(r, run[r].kind, run[r].review, "merge_decision", v, run[r].read, run[r].shown)
                 /\ Saves(r, "merge_decision", v)
                 /\ unseen \subseteq unseen' /\ unseen' \subseteq Reviews
  <1>1. RunsTyped /\ Threads /\ unseen \subseteq Reviews
    BY DEF TypeOK, RunsTyped, Threads
  <1>2. PICK worst \in Grades, fixed \in MayBeFixed(run[r].values) :
            Superstep(r, "merge_decision", Graded(run[r].values, worst, fixed))
    BY DEF RankFindings
  <1>3. Graded(run[r].values, worst, fixed) \in Channels
    BY <1>1, RunFields, GradedChannels
  <1>4. "merge_decision" \in Nodes
    BY DEF Nodes
  <1>5. QED
    BY <1>1, <1>2, <1>3, <1>4, SuperstepSaves

LEMMA EndOfGraphSteps ==
  ASSUME TypeOK, NEW r \in Runs, EndOfGraph(r)
  PROVE  /\ Becomes(r, run[r].kind, run[r].review, "END", run[r].values, run[r].read, run[r].shown)
         /\ Saves(r, "END", run[r].values)
         /\ unseen \subseteq unseen' /\ unseen' \subseteq Reviews
  <1>1. RunsTyped /\ Threads /\ unseen \subseteq Reviews
    BY DEF TypeOK, RunsTyped, Threads
  <1>2. "END" \in Nodes /\ Superstep(r, "END", run[r].values)
    BY DEF EndOfGraph, Nodes
  <1>3. QED
    BY <1>1, <1>2, SuperstepSaves, RunFields

\* The three steps inside save_memory.
LEMMA SavingSteps ==
  ASSUME TypeOK, NEW r \in Runs
  PROVE  /\ ReadMemory(r) =>
              Becomes(r, run[r].kind, run[r].review, "save_repo", run[r].values,
                      <<memory.repo, memory.author>>, run[r].shown)
         /\ PutRepo(r) =>
              Becomes(r, run[r].kind, run[r].review, "save_author", run[r].values, run[r].read, run[r].shown)
         /\ PutAuthor(r) =>
              Becomes(r, run[r].kind, run[r].review, "saved", run[r].values, run[r].read, run[r].shown)
  <1>1. RunsTyped /\ run[r].values \in Channels /\ <<memory.repo, memory.author>> \in Nat \X Nat
    BY RunFields DEF TypeOK, RunsTyped
  <1>2. {"save_repo", "save_author", "saved"} \subseteq Places
    BY DEF Places
  <1>3. QED
    BY <1>1, <1>2, MovedBecomes, GoesBecomes DEF ReadMemory, PutRepo, PutAuthor

LEMMA PastTyped ==
  ASSUME NEW c \in Checkpoint
  PROVE  Past(c).next \in Places /\ Past(c).values \in Channels
  <1>1. c.next \in Nodes /\ c.values \in Channels
    BY DEF Checkpoint
  <1>2. CASE c.next = "merge_decision"
    <2>1. "save_memory" \in Nodes /\ Merged(c.values) \in Channels
      BY <1>1, MergedChannels DEF Nodes
    <2>2. QED
      BY <1>2, <2>1, AtTyped DEF Past, Places
  <1>3. CASE c.next # "merge_decision"
    BY <1>1, <1>3 DEF Past, Places
  <1>4. QED
    BY <1>2, <1>3

\* The three ways an invocation begins.
LEMMA BeginSteps ==
  ASSUME TypeOK, NEW r \in Runs, NEW t \in Reviews
  PROVE  /\ BeginAnalysis(r, t) =>
              Becomes(r, "analysis", t, "load_memory", checkpoint[t].values, <<0, 0>>, row[t].shown)
         /\ BeginRerun(r, t) =>
              \E c \in older[t] :
                  Becomes(r, "rerun", t, Past(c).next, Past(c).values, <<0, 0>>, row[t].shown)
         /\ BeginApproval(r, t) =>
              Becomes(r, "approval", t, Past(checkpoint[t]).next, Past(checkpoint[t]).values,
                      <<0, 0>>, row[t].shown)
  <1>1. RunsTyped /\ row \in [Reviews -> RowType] /\ checkpoint[t] \in Checkpoint
        /\ older[t] \subseteq Checkpoint
    BY DEF TypeOK, RunsTyped
  <1>2. checkpoint[t].values \in Channels
    BY <1>1 DEF Checkpoint
  <1>3. "load_memory" \in Places /\ "analysis" \in AllKinds /\ "rerun" \in AllKinds
        /\ "approval" \in AllKinds
    BY DEF Places, Nodes, AllKinds
  <1>4. BeginAnalysis(r, t) =>
              Becomes(r, "analysis", t, "load_memory", checkpoint[t].values, <<0, 0>>, row[t].shown)
    BY <1>1, <1>2, <1>3, BeginBecomes DEF BeginAnalysis
  <1>5. ASSUME NEW c \in older[t], Begin(r, "rerun", t, Past(c).next, Past(c).values)
        PROVE  Becomes(r, "rerun", t, Past(c).next, Past(c).values, <<0, 0>>, row[t].shown)
    <2>1. Past(c).next \in Places /\ Past(c).values \in Channels
      BY <1>1, PastTyped
    <2>2. QED
      BY <1>1, <1>3, <1>5, <2>1, BeginBecomes
  <1>6. BeginApproval(r, t) =>
              Becomes(r, "approval", t, Past(checkpoint[t]).next, Past(checkpoint[t]).values,
                      <<0, 0>>, row[t].shown)
    <2>1. Past(checkpoint[t]).next \in Places /\ Past(checkpoint[t]).values \in Channels
      BY <1>1, PastTyped
    <2>2. QED
      BY <1>1, <1>3, <2>1, BeginBecomes DEF BeginApproval
  <1>7. QED
    BY <1>4, <1>5, <1>6 DEF BeginRerun

LEMMA EndSteps ==
  ASSUME TypeOK, NEW r \in Runs, StoreAnalysis(r) \/ StoreApproval(r) \/ Fail(r)
  PROVE  Becomes(r, "none", run[r].review, "over", Empty, <<0, 0>>, NoRun)
  BY OverBecomes DEF TypeOK, RunsTyped, StoreAnalysis, StoreApproval, Fail

LEMMA RowTyped ==
  ASSUME NEW status \in {"working", "awaiting_approval", "finalizing", "completed"},
         NEW shown \in Runs \cup {NoRun}, NEW decided \in Channels, NEW asked \in Runs \cup {NoRun}
  PROVE  /\ Row(status, shown, decided, asked) \in RowType
         /\ Row(status, shown, decided, asked).status = status
         /\ Row(status, shown, decided, asked).shown = shown
         /\ Row(status, shown, decided, asked).decided = decided
         /\ Row(status, shown, decided, asked).asked = asked
  BY DEF Row, RowType

\* A review's row is replaced.
Written(t, status, shown, decided, asked) ==
    /\ row' \in [Reviews -> RowType]
    /\ \A u \in Reviews \ {t} : row'[u] = row[u]
    /\ row'[t].status = status
    /\ row'[t].shown = shown
    /\ row'[t].decided = decided
    /\ row'[t].asked = asked

LEMMA RowsWritten ==
  ASSUME TypeOK, NEW r \in Runs, NEW t \in Reviews
  PROVE  /\ BeginApproval(r, t) =>
              Written(t, "finalizing", row[t].shown, row[t].decided, row[t].asked)
         /\ StoreAnalysis(r) =>
              LET u == run[r].review
              IN  Written(u, "awaiting_approval", run[r].values.batch, row[u].decided, row[u].asked)
         /\ StoreApproval(r) =>
              Written(run[r].review, "completed", run[r].values.batch, Merged(run[r].values), run[r].shown)
         /\ Fail(r) =>
              LET u == run[r].review
              IN  \/ UNCHANGED row
                  \/ /\ row[u].status = "finalizing"
                     /\ Written(u, "awaiting_approval", row[u].shown, row[u].decided, row[u].asked)
  <1>1. RunsTyped /\ row \in [Reviews -> RowType] /\ run[r].review \in Reviews
        /\ run[r].values \in Channels /\ run[r].values.batch \in Runs \cup {NoRun}
        /\ run[r].shown \in Runs \cup {NoRun} /\ Merged(run[r].values) \in Channels
    BY RunFields, MergedChannels DEF TypeOK, RunsTyped, Channels
  <1>2. \A u \in Reviews : row[u].shown \in Runs \cup {NoRun} /\ row[u].decided \in Channels
                           /\ row[u].asked \in Runs \cup {NoRun}
    BY <1>1 DEF RowType
  <1>3. BeginApproval(r, t) => Written(t, "finalizing", row[t].shown, row[t].decided, row[t].asked)
    BY <1>1 DEF BeginApproval, Written, RowType
  <1>4. ASSUME StoreAnalysis(r)
        PROVE  LET u == run[r].review
               IN  Written(u, "awaiting_approval", run[r].values.batch, row[u].decided, row[u].asked)
    <2> DEFINE u == run[r].review
               new == Row("awaiting_approval", run[r].values.batch, row[u].decided, row[u].asked)
    <2>1. row' = [row EXCEPT ![u] = new]
      BY <1>1, <1>4 DEF StoreAnalysis
    <2>2. /\ new \in RowType /\ new.status = "awaiting_approval" /\ new.shown = run[r].values.batch
          /\ new.decided = row[u].decided /\ new.asked = row[u].asked
      BY <1>1, <1>2 DEF Row, RowType
    <2> HIDE DEF new
    <2>3. QED
      BY <1>1, <2>1, <2>2 DEF Written
  <1>5. ASSUME StoreApproval(r)
        PROVE  Written(run[r].review, "completed", run[r].values.batch, Merged(run[r].values), run[r].shown)
    BY <1>1, <1>5, RowTyped, SMTT(20) DEF StoreApproval, Written
  <1>6. ASSUME Fail(r)
        PROVE  LET u == run[r].review
               IN  \/ UNCHANGED row
                   \/ /\ row[u].status = "finalizing"
                      /\ Written(u, "awaiting_approval", row[u].shown, row[u].decided, row[u].asked)
    BY <1>1, <1>6 DEF Fail, Written, RowType
  <1>7. QED
    BY <1>3, <1>4, <1>5, <1>6

LEMMA InitTyped ==
  ASSUME Init
  PROVE  TypeOK
  <1>1. (CHOOSE t \in Reviews : TRUE) \in Reviews
    BY ReviewsExist
  <1>2. run \in [Runs -> RunType]
    BY <1>1, EmptyTyped DEF Init, Run, RunType
  <1>3. checkpoint \in [Reviews -> Checkpoint] /\ older \in [Reviews -> SUBSET Checkpoint]
    BY EmptyTyped DEF Init, At, Checkpoint, Nodes
  <1>4. row \in [Reviews -> RowType]
    BY EmptyTyped DEF Init, Row, RowType
  <1>5. QED
    BY <1>2, <1>3, <1>4 DEF Init, TypeOK

LEMMA MemoryTyped ==
  ASSUME TypeOK, NEW r \in Runs, PutRepo(r) \/ PutAuthor(r)
  PROVE  memory' \in [repo : Nat, author : Nat] /\ saves' \in Nat
  <1>1. run[r].read[1] \in Nat /\ run[r].read[2] \in Nat
    BY RunFields DEF TypeOK, RunsTyped
  <1>2. QED
    BY <1>1 DEF TypeOK, PutRepo, PutAuthor, history

LEMMA StepTyped ==
  ASSUME TypeOK, [Next]_vars
  PROVE  TypeOK'
  <1>1. ASSUME NEW r \in Runs, Node(r)
        PROVE  TypeOK'
    <2>1. CASE LoadMemory(r)
      BY <2>1, LoadMemorySteps DEF TypeOK, LoadMemory, Becomes, Saves
    <2>2. CASE Review(r)
      BY <2>2, ReviewSteps DEF TypeOK, Review, Becomes, Saves
    <2>3. CASE RankFindings(r)
      BY <2>3, RankFindingsSteps DEF TypeOK, RankFindings, Becomes, Saves
    <2>4. CASE EndOfGraph(r)
      BY <2>4, EndOfGraphSteps DEF TypeOK, EndOfGraph, Becomes, Saves
    <2>5. CASE ReadMemory(r)
      <3>1. torn' \in BOOLEAN
        BY <2>5 DEF ReadMemory
      <3>2. QED
        BY <2>5, <3>1, SavingSteps DEF TypeOK, ReadMemory, Becomes
    <2>6. CASE PutRepo(r)
      BY <2>6, SavingSteps, MemoryTyped DEF TypeOK, PutRepo, Becomes, history
    <2>7. CASE PutAuthor(r)
      BY <2>7, SavingSteps, MemoryTyped DEF TypeOK, PutAuthor, Becomes
    <2>8. QED
      BY <1>1, <2>1, <2>2, <2>3, <2>4, <2>5, <2>6, <2>7 DEF Node
  <1>2. ASSUME NEW r \in Runs, NEW t \in Reviews,
               BeginAnalysis(r, t) \/ BeginRerun(r, t) \/ BeginApproval(r, t)
        PROVE  TypeOK'
    <2>1. run' \in [Runs -> RunType]
      BY <1>2, BeginSteps DEF Becomes
    <2>2. row' \in [Reviews -> RowType]
      BY <1>2, RowsWritten DEF BeginAnalysis, BeginRerun, Written, TypeOK
    <2>3. QED
      BY <1>2, <2>1, <2>2 DEF TypeOK, BeginAnalysis, BeginRerun, BeginApproval, history
  <1>3. ASSUME NEW r \in Runs, StoreAnalysis(r) \/ StoreApproval(r) \/ Fail(r)
        PROVE  TypeOK'
    <2>1. run' \in [Runs -> RunType]
      BY <1>3, EndSteps DEF Becomes
    <2>2. row' \in [Reviews -> RowType]
      <3>1. run[r].review \in Reviews /\ row \in [Reviews -> RowType]
        BY RunFields DEF TypeOK, RunsTyped
      <3>2. QED
        BY <1>3, <3>1, RowsWritten DEF Written
    <2>3. unseen' \subseteq Reviews
      BY <1>3, RunFields DEF TypeOK, RunsTyped, StoreAnalysis, StoreApproval, Fail, history
    <2>4. torn' \in BOOLEAN /\ crashes' \in Nat
      <3>1. CASE StoreAnalysis(r) \/ StoreApproval(r)
        BY <3>1 DEF TypeOK, StoreAnalysis, StoreApproval, history
      <3>2. CASE Fail(r)
        <4>1. torn' \in BOOLEAN
          BY <3>2 DEF Fail
        <4>2. crashes' \in Nat
          BY <3>2 DEF Fail, TypeOK
        <4>3. QED
          BY <4>1, <4>2
      <3>3. QED
        BY <1>3, <3>1, <3>2
    <2>5. QED
      BY <1>3, <2>1, <2>2, <2>3, <2>4 DEF TypeOK, StoreAnalysis, StoreApproval, Fail, history
  <1>4. CASE UNCHANGED vars
    BY <1>4 DEF TypeOK, vars
  <1>5. QED
    BY <1>1, <1>2, <1>3, <1>4 DEF Next

\* The graph's channels, checkpoints and rows keep their types.
THEOREM TypeCorrect == Spec => []TypeOK
  <1>1. Init => TypeOK
    BY InitTyped
  <1>2. TypeOK /\ [Next]_vars => TypeOK'
    BY StepTyped
  <1>3. QED
    BY <1>1, <1>2, PTL DEF Spec

-----------------------------------------------------------------------------
(* Failed reviewers *)

\* The places after rank_findings, where what is fixed belongs to the batch.
Late == {"merge_decision", "save_memory", "END", "save_repo", "save_author", "saved"}

\* Channels at a place of the graph know of every failure of their batch, and
\* report nothing as fixed from an incomplete batch once it is ranked.
Fits(pc, v) ==
    /\ v.failed \subseteq v.errors
    /\ pc \in Late => v.failed = {} \/ ~ v.fixed

\* The decision of an approval follows from channels that fit.
Ended(d) ==
    \/ d = Empty
    \/ Fits("END", d) /\ d.decision = Decide(d.worst, d.errors)

RunsFit == \A r \in Runs : Fits(run[r].pc, run[r].values)

ThreadsFit ==
    \A t \in Reviews :
        /\ Fits(checkpoint[t].next, checkpoint[t].values)
        /\ \A c \in older[t] : Fits(c.next, c.values)

RowsFit == \A t \in Reviews : Ended(row[t].decided)

Complete == TypeOK /\ RunsFit /\ ThreadsFit /\ RowsFit

LEMMA EmptyFits ==
  ASSUME NEW pc
  PROVE  Fits(pc, Empty)
  BY EmptyTyped DEF Fits

LEMMA RunFits ==
  ASSUME RunsFit, NEW r \in Runs, NEW kind, NEW t, NEW pc, NEW values, NEW read, NEW shown,
         Becomes(r, kind, t, pc, values, read, shown), Fits(pc, values)
  PROVE  RunsFit'
  BY DEF RunsFit, Becomes

LEMMA ThreadFits ==
  ASSUME TypeOK, ThreadsFit, NEW r \in Runs, NEW next \in Nodes, NEW values \in Channels,
         Saves(r, next, values), Fits(next, values)
  PROVE  ThreadsFit'
  <1>1. At(next, values).next = next /\ At(next, values).values = values
    BY AtTyped
  <1>2. QED
    BY <1>1 DEF ThreadsFit, Saves

LEMMA PastFits ==
  ASSUME NEW c \in Checkpoint, Fits(c.next, c.values)
  PROVE  Fits(Past(c).next, Past(c).values)
  <1>1. c.values \in Channels
    BY DEF Checkpoint
  <1>2. CASE c.next = "merge_decision"
    <2>1. Past(c).values = Merged(c.values) /\ "merge_decision" \in Late
      BY <1>2 DEF Past, At, Late
    <2>2. QED
      BY <1>1, <1>2, <2>1, MergedChannels DEF Fits
  <1>3. CASE c.next # "merge_decision"
    BY <1>3 DEF Past
  <1>4. QED
    BY <1>2, <1>3

LEMMA NodeFits ==
  ASSUME Complete, NEW r \in Runs, Node(r)
  PROVE  RunsFit' /\ ThreadsFit' /\ UNCHANGED row
  <1> TypeOK /\ RunsFit /\ ThreadsFit /\ Fits(run[r].pc, run[r].values)
    BY DEF Complete, RunsFit
  <1>0. run[r].values \in Channels /\ memory.repo \in Nat
    BY RunFields DEF TypeOK, RunsTyped
  <1>1. CASE LoadMemory(r)
    <2> DEFINE v == Loaded(run[r].values, memory.repo)
    <2>1. Fits("reviewers", v)
      BY <1>0, LoadedChannels DEF Fits, Late
    <2>2. "reviewers" \in Nodes
      BY DEF Nodes
    <2>3. QED
      BY <1>1, <2>1, <2>2, LoadMemorySteps, RunFits, ThreadFits DEF LoadMemory
  <1>2. CASE Review(r)
    <2>1. PICK failing \in Failing :
              LET v == Reviewed(run[r].values, r, failing)
              IN  /\ v \in Channels
                  /\ Becomes(r, run[r].kind, run[r].review, "rank_findings", v, run[r].read, run[r].shown)
                  /\ Saves(r, "rank_findings", v)
      BY <1>2, ReviewSteps
    <2> DEFINE v == Reviewed(run[r].values, r, failing)
    <2>2. Fits("rank_findings", v)
      BY <1>0, ReviewedChannels DEF Fits, Late
    <2>3. "rank_findings" \in Nodes
      BY DEF Nodes
    <2>4. QED
      BY <1>2, <2>1, <2>2, <2>3, RunFits, ThreadFits DEF Review
  <1>3. CASE RankFindings(r)
    <2>1. PICK worst \in Grades, fixed \in MayBeFixed(run[r].values) :
              LET v == Graded(run[r].values, worst, fixed)
              IN  /\ v \in Channels
                  /\ Becomes(r, run[r].kind, run[r].review, "merge_decision", v, run[r].read, run[r].shown)
                  /\ Saves(r, "merge_decision", v)
      BY <1>3, RankFindingsSteps
    <2> DEFINE v == Graded(run[r].values, worst, fixed)
    <2>2. v.failed = run[r].values.failed /\ v.errors = run[r].values.errors
          /\ (v.errors # {} => ~ v.fixed)
      BY <1>0, GradedChannels
    <2> HIDE DEF v
    <2>3. Fits("merge_decision", v)
      BY <2>2 DEF Fits
    <2>4. "merge_decision" \in Nodes
      BY DEF Nodes
    <2>5. QED
      BY <1>3, <2>1, <2>3, <2>4, RunFits, ThreadFits DEF RankFindings, v
  <1>4. CASE EndOfGraph(r)
    <2>1. Fits("END", run[r].values) /\ "END" \in Nodes
      BY <1>4 DEF EndOfGraph, Fits, Late, Nodes
    <2>2. QED
      BY <1>0, <1>4, <2>1, EndOfGraphSteps, RunFits, ThreadFits DEF EndOfGraph
  <1>5. CASE ReadMemory(r) \/ PutRepo(r) \/ PutAuthor(r)
    <2>1. Fits("save_repo", run[r].values) /\ Fits("save_author", run[r].values)
          /\ Fits("saved", run[r].values)
      BY <1>5 DEF ReadMemory, PutRepo, PutAuthor, Fits, Late
    <2>2. RunsFit'
      BY <1>5, <2>1, SavingSteps, RunFits
    <2>3. QED
      BY <1>5, <2>2 DEF ReadMemory, PutRepo, PutAuthor, ThreadsFit
  <1>6. QED
    BY <1>1, <1>2, <1>3, <1>4, <1>5 DEF Node

LEMMA StepComplete ==
  ASSUME Complete, [Next]_vars
  PROVE  Complete'
  <1> TypeOK /\ RunsFit /\ ThreadsFit /\ RowsFit
    BY DEF Complete
  <1>0. TypeOK'
    BY StepTyped
  <1>1. ASSUME NEW r \in Runs, Node(r)
        PROVE  Complete'
    BY <1>0, <1>1, NodeFits DEF Complete, RowsFit
  <1>2. ASSUME NEW r \in Runs, NEW t \in Reviews,
               BeginAnalysis(r, t) \/ BeginRerun(r, t) \/ BeginApproval(r, t)
        PROVE  Complete'
    <2>1. checkpoint[t] \in Checkpoint /\ older[t] \subseteq Checkpoint
      BY DEF TypeOK
    <2>2. Fits("load_memory", checkpoint[t].values)
      BY DEF ThreadsFit, Fits, Late
    <2>3. \A c \in older[t] \cup {checkpoint[t]} : Fits(Past(c).next, Past(c).values)
      BY <2>1, PastFits DEF ThreadsFit
    <2>4. RunsFit'
      BY <1>2, <2>2, <2>3, BeginSteps, RunFits
    <2>5. ThreadsFit'
      BY <1>2 DEF ThreadsFit, BeginAnalysis, BeginRerun, BeginApproval
    <2>6. RowsFit'
      BY <1>2, RowsWritten DEF RowsFit, Written, BeginAnalysis, BeginRerun
    <2>7. QED
      BY <1>0, <2>4, <2>5, <2>6 DEF Complete
  <1>3. ASSUME NEW r \in Runs, StoreAnalysis(r) \/ StoreApproval(r) \/ Fail(r)
        PROVE  Complete'
    <2>1. RunsFit'
      BY <1>3, EndSteps, EmptyFits, RunFits
    <2>2. ThreadsFit'
      BY <1>3 DEF ThreadsFit, StoreAnalysis, StoreApproval, Fail
    <2>3. RowsFit'
      <3>1. run[r].review \in Reviews /\ run[r].values \in Channels
        BY RunFields DEF TypeOK, RunsTyped
      <3>2. CASE StoreAnalysis(r) \/ Fail(r)
        BY <3>1, <3>2, RowsWritten DEF RowsFit, Written
      <3>3. CASE StoreApproval(r)
        <4>1. Fits(run[r].pc, run[r].values) /\ run[r].pc \in Late /\ "END" \in Late
          BY <3>3 DEF StoreApproval, RunsFit, Returned, Late
        <4>2. Ended(Merged(run[r].values))
          BY <3>1, <4>1, MergedChannels DEF Ended, Fits
        <4>3. QED
          BY <3>1, <3>3, <4>2, RowsWritten DEF RowsFit, Written
      <3>4. QED
        BY <1>3, <3>2, <3>3
    <2>4. QED
      BY <1>0, <2>1, <2>2, <2>3 DEF Complete
  <1>4. CASE UNCHANGED vars
    BY <1>0, <1>4 DEF Complete, RunsFit, ThreadsFit, RowsFit, vars
  <1>5. QED
    BY <1>1, <1>2, <1>3, <1>4 DEF Next

LEMMA InitComplete ==
  ASSUME Init
  PROVE  Complete
  <1>1. RunsFit
    BY EmptyFits DEF Init, RunsFit, Run
  <1>2. ThreadsFit
    BY EmptyFits DEF Init, ThreadsFit, At
  <1>3. RowsFit
    BY DEF Init, RowsFit, Row, Ended
  <1>4. QED
    BY <1>1, <1>2, <1>3, InitTyped DEF Complete

LEMMA AlwaysComplete == Spec => []Complete
  <1>1. Init => Complete
    BY InitComplete
  <1>2. Complete /\ [Next]_vars => Complete'
    BY StepComplete
  <1>3. QED
    BY <1>1, <1>2, PTL DEF Spec

\* No approval ignores that a reviewer of its batch failed, whatever attempts
\* and deaths the thread has seen.
THEOREM IncompleteNeverApproved == Spec => []IncompleteIsNotApproved
  <1>1. Complete => IncompleteIsNotApproved
    <2> SUFFICES ASSUME Complete, NEW t \in Reviews, row[t].decided.failed # {}
                 PROVE  /\ ~ row[t].decided.fixed
                        /\ row[t].decided.decision = "approve" => row[t].decided.worst = "low"
      BY DEF IncompleteIsNotApproved
    <2> DEFINE d == row[t].decided
    <2>1. Fits("END", d) /\ d.decision = Decide(d.worst, d.errors)
      BY EmptyTyped DEF Complete, RowsFit, Ended
    <2>2. ~ d.fixed /\ d.errors # {}
      BY <2>1 DEF Fits, Late
    <2>3. d.worst \in Severities
      BY DEF Complete, TypeOK, RowType, Channels
    <2>4. QED
      BY <2>1, <2>2, <2>3 DEF Decide, Severities
  <1>2. QED
    BY <1>1, AlwaysComplete, PTL

\* Errors of earlier attempts can only ask for a human in place of an approval.
THEOREM OldErrorsHarden == Spec => []OldErrorsOnlyHarden
  <1>1. Complete => OldErrorsOnlyHarden
    <2> SUFFICES ASSUME Complete, NEW t \in Reviews,
                        row[t].decided.decision
                            \notin {"none", Decide(row[t].decided.worst, row[t].decided.failed)}
                 PROVE  /\ row[t].decided.decision = "needs_review"
                        /\ Decide(row[t].decided.worst, row[t].decided.failed) = "approve"
      BY DEF OldErrorsOnlyHarden
    <2> DEFINE d == row[t].decided
    <2>1. Fits("END", d) /\ d.decision = Decide(d.worst, d.errors)
      BY EmptyTyped DEF Complete, RowsFit, Ended
    <2>2. d.failed \subseteq d.errors
      BY <2>1 DEF Fits
    <2>3. d.worst \in Severities
      BY DEF Complete, TypeOK, RowType, Channels
    <2>4. QED
      BY <2>1, <2>2, <2>3 DEF Decide, Severities
  <1>2. QED
    BY <1>1, AlwaysComplete, PTL

-----------------------------------------------------------------------------
(* What a human decides on *)

Deciding(r) == run[r].kind = "approval"

Ending == {"save_memory", "save_repo", "save_author", "saved", "END"}

\* An approval is at work until it is over, and nothing makes its review be
\* analysed again.
DecidersWork ==
    \A r \in Runs :
        Deciding(r) => run[r].pc \notin {"new", "over"} /\ row[run[r].review].status # "working"

\* The row shows what the latest checkpoint holds, at the end of the graph.
RowSeen(t) ==
    row[t].status # "working" =>
        checkpoint[t].next \in Returned /\ checkpoint[t].values.batch = row[t].shown

\* An approval is past the reviewers, with the findings its human saw.
DecidersSeen(t) ==
    \A r \in Runs :
        Deciding(r) /\ run[r].review = t =>
            /\ run[r].pc \in Ending
            /\ run[r].values.batch = checkpoint[t].values.batch
            /\ run[r].shown = checkpoint[t].values.batch

Seen(t) == RowSeen(t) /\ DecidersSeen(t) /\ row[t].decided.batch = row[t].asked

Watched == TypeOK /\ DecidersWork /\ \A t \in Reviews \ unseen : Seen(t)

LEMMA SuperstepWatched ==
  ASSUME Watched, NEW r \in Runs, NEW next \in Nodes, NEW values \in Channels,
         Superstep(r, next, values), Saves(r, next, values),
         Becomes(r, run[r].kind, run[r].review, next, values, run[r].read, run[r].shown),
         UNCHANGED row, run[r].pc \notin {"new", "over"},
         run[r].pc \in Ending => next = "END" /\ values = run[r].values
  PROVE  DecidersWork' /\ \A t \in Reviews \ unseen' : Seen(t)'
  <1>0. TypeOK /\ DecidersWork /\ unseen \subseteq unseen' /\ run[r].review \in Reviews
    BY RunFields DEF Watched, TypeOK, RunsTyped, Superstep
  <1>1. DecidersWork'
    <2>1. next \notin {"new", "over"}
      BY DEF Nodes
    <2>2. QED
      BY <1>0, <2>1 DEF DecidersWork, Deciding, Becomes
  <1>2. ASSUME NEW t \in Reviews \ unseen', t # run[r].review
        PROVE  Seen(t)'
    <2>1. Seen(t) /\ checkpoint'[t] = checkpoint[t]
      BY <1>0, <1>2 DEF Watched, Saves
    <2>2. RowSeen(t)'
      BY <2>1 DEF Seen, RowSeen
    <2>3. DecidersSeen(t)'
      BY <1>2, <2>1 DEF Seen, DecidersSeen, Deciding, Becomes
    <2>4. QED
      BY <2>1, <2>2, <2>3 DEF Seen
  <1>3. ASSUME NEW t, t = run[r].review, t \notin unseen'
        PROVE  Seen(t)'
    <2>1. /\ Seen(t) /\ t \in Reviews
          /\ AtWork(t) = {r}
          /\ Deciding(r) \/ row[t].status = "working"
      BY <1>0, <1>3 DEF Watched, Superstep, Deciding
    <2>2. \A q \in Runs \ {r} : run[q].review = t => ~ Deciding(q)
      BY <1>0, <2>1 DEF DecidersWork, AtWork
    <2>3. checkpoint'[t].next = next /\ checkpoint'[t].values = values
      BY <1>3, AtTyped DEF Saves
    <2>4. CASE Deciding(r)
      <3>1. /\ run[r].pc \in Ending /\ run[r].values.batch = checkpoint[t].values.batch
            /\ run[r].shown = checkpoint[t].values.batch
        BY <1>3, <2>1, <2>4 DEF Seen, DecidersSeen
      <3>2. next = "END" /\ values = run[r].values
        BY <3>1
      <3>3. row[t].status # "working"
        BY <1>0, <1>3, <2>4 DEF DecidersWork
      <3>4. RowSeen(t)'
        BY <2>1, <2>3, <3>1, <3>2, <3>3 DEF Seen, RowSeen, Returned
      <3>5. DecidersSeen(t)'
        <4>1. next \in Ending
          BY <3>2 DEF Ending
        <4>2. QED
          BY <2>2, <2>3, <3>1, <3>2, <4>1 DEF DecidersSeen, Deciding, Becomes
      <3>6. QED
        BY <2>1, <3>4, <3>5 DEF Seen
    <2>5. CASE ~ Deciding(r)
      <3>1. row[t].status = "working"
        BY <2>1, <2>5
      <3>2. RowSeen(t)'
        BY <3>1 DEF RowSeen
      <3>3. DecidersSeen(t)'
        BY <2>2, <2>5 DEF DecidersSeen, Deciding, Becomes
      <3>4. QED
        BY <2>1, <3>2, <3>3 DEF Seen
    <2>6. QED
      BY <2>4, <2>5
  <1>4. QED
    BY <1>1, <1>2, <1>3

LEMMA NodeWatched ==
  ASSUME Watched, NEW r \in Runs, Node(r)
  PROVE  DecidersWork' /\ \A t \in Reviews \ unseen' : Seen(t)'
  <1> TypeOK /\ DecidersWork
    BY DEF Watched
  <1>1. CASE LoadMemory(r)
    <2>1. "reviewers" \in Nodes /\ run[r].pc \notin Ending \cup {"new", "over"} /\ UNCHANGED row
      BY <1>1 DEF LoadMemory, Nodes, Ending
    <2>2. QED
      BY <1>1, <2>1, LoadMemorySteps, SuperstepWatched
  <1>2. CASE Review(r)
    <2>1. "rank_findings" \in Nodes /\ run[r].pc \notin Ending \cup {"new", "over"} /\ UNCHANGED row
      BY <1>2 DEF Review, Nodes, Ending
    <2>2. QED
      BY <1>2, <2>1, ReviewSteps, SuperstepWatched
  <1>3. CASE RankFindings(r)
    <2>1. "merge_decision" \in Nodes /\ run[r].pc \notin Ending \cup {"new", "over"} /\ UNCHANGED row
      BY <1>3 DEF RankFindings, Nodes, Ending
    <2>2. QED
      BY <1>3, <2>1, RankFindingsSteps, SuperstepWatched
  <1>4. CASE EndOfGraph(r)
    <2>1. /\ "END" \in Nodes /\ run[r].pc \notin {"new", "over"} /\ UNCHANGED row
          /\ run[r].values \in Channels
          /\ Superstep(r, "END", run[r].values)
      BY <1>4, RunFields DEF EndOfGraph, Nodes, TypeOK, RunsTyped
    <2>2. QED
      BY <1>4, <2>1, EndOfGraphSteps, SuperstepWatched
  <1>5. CASE ReadMemory(r) \/ PutRepo(r) \/ PutAuthor(r)
    <2>1. \E pc \in Ending : \E read :
              /\ pc \notin {"new", "over"}
              /\ Becomes(r, run[r].kind, run[r].review, pc, run[r].values, read, run[r].shown)
      BY <1>5, SavingSteps DEF Ending
    <2>2. UNCHANGED <<row, checkpoint, unseen>> /\ run[r].pc \notin {"new", "over"}
      BY <1>5 DEF ReadMemory, PutRepo, PutAuthor, history
    <2>3. DecidersWork'
      BY <2>1, <2>2 DEF DecidersWork, Deciding, Becomes
    <2>4. ASSUME NEW t \in Reviews \ unseen'
          PROVE  Seen(t)'
      <3>1. Seen(t)
        BY <2>2 DEF Watched
      <3>2. RowSeen(t)'
        BY <2>2, <3>1 DEF Seen, RowSeen
      <3>3. DecidersSeen(t)'
        BY <2>1, <2>2, <3>1 DEF Seen, DecidersSeen, Deciding, Becomes
      <3>4. QED
        BY <2>2, <3>1, <3>2, <3>3 DEF Seen
    <2>5. QED
      BY <2>3, <2>4
  <1>6. QED
    BY <1>1, <1>2, <1>3, <1>4, <1>5 DEF Node

LEMMA BeginWatched ==
  ASSUME Watched, NEW r \in Runs, NEW u \in Reviews,
         BeginAnalysis(r, u) \/ BeginRerun(r, u) \/ BeginApproval(r, u)
  PROVE  DecidersWork' /\ \A t \in Reviews \ unseen' : Seen(t)'
  <1> TypeOK /\ DecidersWork
    BY DEF Watched
  <1>0. UNCHANGED <<checkpoint, unseen>>
    BY DEF BeginAnalysis, BeginRerun, BeginApproval, history
  <1>1. CASE BeginAnalysis(r, u) \/ BeginRerun(r, u)
    <2>1. \E kind \in {"analysis", "rerun"} : \E pc, values, read, shown :
              Becomes(r, kind, u, pc, values, read, shown)
      BY <1>1, BeginSteps
    <2>2. ~ Deciding(r)' /\ UNCHANGED row
      BY <1>1, <2>1 DEF Deciding, Becomes, BeginAnalysis, BeginRerun
    <2>3. DecidersWork'
      BY <2>1, <2>2 DEF DecidersWork, Deciding, Becomes
    <2>4. ASSUME NEW t \in Reviews \ unseen'
          PROVE  Seen(t)'
      <3>1. Seen(t)
        BY <1>0 DEF Watched
      <3>2. DecidersSeen(t)'
        BY <1>0, <2>1, <2>2, <3>1 DEF Seen, DecidersSeen, Deciding, Becomes
      <3>3. QED
        BY <1>0, <2>2, <3>1, <3>2 DEF Seen, RowSeen
    <2>5. QED
      BY <2>3, <2>4
  <1>2. CASE BeginApproval(r, u)
    <2>1. /\ Becomes(r, "approval", u, Past(checkpoint[u]).next, Past(checkpoint[u]).values,
                     <<0, 0>>, row[u].shown)
          /\ Written(u, "finalizing", row[u].shown, row[u].decided, row[u].asked)
          /\ row[u].status = "awaiting_approval"
      BY <1>2, BeginSteps, RowsWritten DEF BeginApproval
    <2>2. Past(checkpoint[u]).next \notin {"new", "over"}
      BY DEF TypeOK, Checkpoint, Nodes, Past, At
    <2>3. DecidersWork'
      <3>1. \A t \in Reviews : row[t].status # "working" => row'[t].status # "working"
        BY <2>1 DEF Written
      <3>2. ASSUME NEW q \in Runs \ {r}, Deciding(q)'
            PROVE  run'[q].pc \notin {"new", "over"} /\ row'[run'[q].review].status # "working"
        <4>1. run'[q] = run[q] /\ Deciding(q) /\ run[q].review \in Reviews
          BY <2>1, <3>2, RunFields DEF Deciding, Becomes, TypeOK, RunsTyped
        <4>2. QED
          BY <3>1, <4>1 DEF DecidersWork
      <3>3. run'[r].pc \notin {"new", "over"} /\ row'[run'[r].review].status # "working"
        BY <2>1, <2>2 DEF Becomes, Written
      <3>4. QED
        BY <3>2, <3>3 DEF DecidersWork
    <2>4. ASSUME NEW t \in Reviews \ unseen'
          PROVE  Seen(t)'
      <3>1. Seen(t)
        BY <1>0 DEF Watched
      <3>2. CASE t # u
        <4>1. row'[t] = row[t] /\ checkpoint'[t] = checkpoint[t]
          BY <1>0, <2>1, <3>2 DEF Written
        <4>2. DecidersSeen(t)'
          BY <2>1, <3>1, <3>2, <4>1 DEF Seen, DecidersSeen, Deciding, Becomes
        <4>3. QED
          BY <3>1, <4>1, <4>2 DEF Seen, RowSeen
      <3>3. CASE t = u
        <4>1. checkpoint[u].next \in Returned /\ checkpoint[u].values.batch = row[u].shown
              /\ checkpoint[u].values \in Channels
          BY <2>1, <3>1, <3>3 DEF Seen, RowSeen, TypeOK, Checkpoint
        <4>2. Past(checkpoint[u]).next \in Ending
              /\ Past(checkpoint[u]).values.batch = checkpoint[u].values.batch
          BY <4>1, MergedChannels DEF Past, At, Returned, Ending
        <4>3. RowSeen(t)'
          BY <1>0, <2>1, <3>3, <4>1 DEF RowSeen, Written
        <4>4. DecidersSeen(t)'
          BY <1>0, <2>1, <3>1, <3>3, <4>1, <4>2 DEF Seen, DecidersSeen, Deciding, Becomes
        <4>5. QED
          BY <2>1, <3>1, <3>3, <4>3, <4>4 DEF Seen, Written
      <3>4. QED
        BY <3>2, <3>3
    <2>5. QED
      BY <2>3, <2>4
  <1>3. QED
    BY <1>1, <1>2

LEMMA EndWatched ==
  ASSUME Watched, NEW r \in Runs, StoreAnalysis(r) \/ StoreApproval(r) \/ Fail(r)
  PROVE  DecidersWork' /\ \A t \in Reviews \ unseen' : Seen(t)'
  <1> DEFINE u == run[r].review
  <1>0. /\ TypeOK /\ DecidersWork /\ u \in Reviews /\ run[r].values \in Channels
        /\ UNCHANGED checkpoint /\ unseen \subseteq unseen'
        /\ Becomes(r, "none", u, "over", Empty, <<0, 0>>, NoRun)
    BY RunFields, EndSteps
       DEF Watched, TypeOK, RunsTyped, StoreAnalysis, StoreApproval, Fail, history
  <1>1. /\ \A q \in Runs \ {r} : run'[q] = run[q]
        /\ ~ Deciding(r)'
    BY <1>0 DEF Becomes, Deciding
  <1>2. \A t \in Reviews : DecidersSeen(t) => DecidersSeen(t)'
    BY <1>0, <1>1 DEF DecidersSeen, Deciding
  <1>3. /\ \A t \in Reviews \ {u} : row'[t] = row[t]
        /\ UNCHANGED row \/ row'[u].status # "working"
    BY <1>0, RowsWritten DEF Written
  <1>4. DecidersWork'
    <2>1. ASSUME NEW q \in Runs, Deciding(q)'
          PROVE  run'[q].pc \notin {"new", "over"} /\ row'[run'[q].review].status # "working"
      <3>1. q # r /\ run'[q] = run[q] /\ Deciding(q) /\ run[q].review \in Reviews
        BY <1>0, <1>1, <2>1, RunFields DEF Deciding, TypeOK, RunsTyped
      <3>2. QED
        BY <1>0, <1>3, <3>1 DEF DecidersWork
    <2>2. QED
      BY <2>1 DEF DecidersWork
  <1>5. ASSUME NEW t \in Reviews \ unseen'
        PROVE  Seen(t)'
    <2>1. Seen(t) /\ DecidersSeen(t)'
      BY <1>0, <1>2 DEF Watched, Seen
    <2>2. CASE t # u
      BY <1>0, <1>3, <2>1, <2>2 DEF Seen, RowSeen
    <2>3. CASE t = u
      <3>1. CASE StoreAnalysis(r)
        <4>1. checkpoint[u] = At(run[r].pc, run[r].values) /\ run[r].pc \in Returned
          BY <2>3, <3>1 DEF StoreAnalysis
        <4>2. checkpoint[u].next \in Returned /\ checkpoint[u].values = run[r].values
          BY <4>1 DEF At
        <4>3. Written(u, "awaiting_approval", run[r].values.batch, row[u].decided, row[u].asked)
          BY <1>0, <3>1, RowsWritten
        <4>4. QED
          BY <1>0, <2>1, <2>3, <4>2, <4>3 DEF Seen, RowSeen, Written
      <3>2. CASE StoreApproval(r)
        <4>1. /\ run[r].values.batch = checkpoint[u].values.batch
              /\ run[r].shown = checkpoint[u].values.batch
          BY <2>1, <2>3, <3>2 DEF StoreApproval, Seen, DecidersSeen, Deciding
        <4>2. checkpoint[u].next \in Returned
          BY <1>0, <2>1, <2>3, <3>2 DEF StoreApproval, DecidersWork, Deciding, Seen, RowSeen
        <4>3. Written(u, "completed", run[r].values.batch, Merged(run[r].values), run[r].shown)
          BY <1>0, <3>2, RowsWritten
        <4>4. Merged(run[r].values).batch = run[r].values.batch
          BY <1>0, MergedChannels
        <4>5. QED
          BY <1>0, <2>1, <2>3, <4>1, <4>2, <4>3, <4>4 DEF Seen, RowSeen, Written
      <3>3. CASE Fail(r)
        <4>1. \/ UNCHANGED row
              \/ /\ row[u].status = "finalizing"
                 /\ Written(u, "awaiting_approval", row[u].shown, row[u].decided, row[u].asked)
          BY <1>0, <3>3, RowsWritten
        <4>2. QED
          BY <1>0, <2>1, <2>3, <4>1 DEF Seen, RowSeen, Written
      <3>4. QED
        BY <3>1, <3>2, <3>3
    <2>4. QED
      BY <2>2, <2>3
  <1>6. QED
    BY <1>4, <1>5

LEMMA StepWatched ==
  ASSUME Watched, [Next]_vars
  PROVE  Watched'
  <1>1. TypeOK'
    BY StepTyped DEF Watched
  <1>2. CASE UNCHANGED vars
    BY <1>1, <1>2
       DEF Watched, DecidersWork, Deciding, Seen, RowSeen, DecidersSeen, vars
  <1>3. ASSUME Next
        PROVE  DecidersWork' /\ \A t \in Reviews \ unseen' : Seen(t)'
    BY <1>3, NodeWatched, BeginWatched, EndWatched DEF Next
  <1>4. QED
    BY <1>1, <1>2, <1>3 DEF Watched

LEMMA InitWatched ==
  ASSUME Init
  PROVE  Watched
  <1>1. \A r \in Runs : ~ Deciding(r)
    BY DEF Init, Run, Deciding
  <1>2. \A t \in Reviews : row[t].status = "working" /\ row[t].decided = Empty /\ row[t].asked = NoRun
    BY DEF Init, Row
  <1>3. QED
    BY <1>1, <1>2, InitTyped, EmptyTyped
       DEF Watched, DecidersWork, Seen, RowSeen, DecidersSeen

\* Unless its thread moved on unseen, an approval ends with the findings the
\* human was shown.
THEOREM ShownIsDecided == Spec => []DecidesWhatWasShown
  <1>1. Init => Watched
    BY InitWatched
  <1>2. Watched /\ [Next]_vars => Watched'
    BY StepWatched
  <1>3. Watched => DecidesWhatWasShown
    BY DEF Watched, Seen, DecidesWhatWasShown
  <1>4. QED
    BY <1>1, <1>2, <1>3, PTL DEF Spec

-----------------------------------------------------------------------------
(* The memories *)

Saving(r) == run[r].pc \in {"save_repo", "save_author", "saved"}

\* What a save in progress knows of the counts.
Exact(r) ==
    /\ run[r].pc = "save_repo" => run[r].read = <<saves, saves>> /\ memory.repo = saves
    /\ run[r].pc = "save_author" => run[r].read[2] = saves /\ memory.repo = saves + 1
    /\ run[r].pc = "saved" => memory.repo = saves

\* While no two saves overlap and none is cut short, one save at a time takes
\* both counts a step further.
Counted ==
    ~ torn =>
        /\ memory.author = saves
        /\ \A q, r \in Runs : Saving(q) /\ Saving(r) => q = r
        /\ \A r \in Runs : Exact(r)
        /\ (\A r \in Runs : ~ Saving(r)) => memory.repo = saves

\* A step of an invocation that is not saving, to a place that is none.
LEMMA QuietCounted ==
  ASSUME Counted, NEW r \in Runs,
         ~ torn' => ~ torn /\ run[r].pc # "save_author",
         UNCHANGED <<memory, saves>>,
         \A q \in Runs \ {r} : run'[q] = run[q],
         ~ Saving(r)',
         ~ torn' /\ Saving(r) => memory.repo = saves
  PROVE  Counted'
  <1> SUFFICES ASSUME ~ torn'
               PROVE  /\ memory'.author = saves'
                      /\ \A q, p \in Runs : Saving(q)' /\ Saving(p)' => q = p
                      /\ \A q \in Runs : Exact(q)'
                      /\ (\A q \in Runs : ~ Saving(q)') => memory'.repo = saves'
    BY DEF Counted
  <1>1. ~ torn
    OBVIOUS
  <1>2. \A q \in Runs \ {r} : (Saving(q)' <=> Saving(q)) /\ (Exact(q) => Exact(q)')
    BY DEF Saving, Exact
  <1>3. Exact(r)'
    BY DEF Saving, Exact
  <1>4. QED
    BY <1>1, <1>2, <1>3 DEF Counted

LEMMA StepCounted ==
  ASSUME TypeOK, Counted, [Next]_vars
  PROVE  Counted'
  <1> memory \in [repo : Nat, author : Nat] /\ saves \in Nat
    BY DEF TypeOK
  <1>1. ASSUME NEW r \in Runs, LoadMemory(r) \/ Review(r) \/ RankFindings(r)
        PROVE  Counted'
    <2>1. \E pc \in {"reviewers", "rank_findings", "merge_decision"} : \E v :
              Becomes(r, run[r].kind, run[r].review, pc, v, run[r].read, run[r].shown)
      BY <1>1, LoadMemorySteps, ReviewSteps, RankFindingsSteps
    <2>2. UNCHANGED <<memory, saves, torn>> /\ ~ Saving(r)
      BY <1>1 DEF LoadMemory, Review, RankFindings, Saving
    <2>3. ~ Saving(r)' /\ \A q \in Runs \ {r} : run'[q] = run[q]
      BY <2>1 DEF Saving, Becomes
    <2>4. QED
      BY <2>2, <2>3, QuietCounted DEF Saving
  <1>2. ASSUME NEW r \in Runs, EndOfGraph(r)
        PROVE  Counted'
    <2>1. ~ Saving(r)' /\ \A q \in Runs \ {r} : run'[q] = run[q]
      BY <1>2, EndOfGraphSteps DEF Saving, Becomes
    <2>2. UNCHANGED <<memory, saves, torn>> /\ run[r].pc = "saved"
      BY <1>2 DEF EndOfGraph
    <2>3. ~ torn => memory.repo = saves
      BY <2>2 DEF Counted, Exact
    <2>4. QED
      BY <2>1, <2>2, <2>3, QuietCounted
  <1>3. ASSUME NEW r \in Runs, ReadMemory(r), ~ torn'
        PROVE  Counted'
    <2>1. ~ torn /\ (\A q \in Runs : ~ Saving(q)) /\ UNCHANGED <<memory, saves>>
      BY <1>3 DEF ReadMemory, SavingNow, Saving
    <2>2. memory.author = saves /\ memory.repo = saves
      BY <2>1 DEF Counted
    <2>3. /\ \A q \in Runs \ {r} : run'[q] = run[q]
          /\ run'[r].pc = "save_repo" /\ run'[r].read = <<saves, saves>>
      BY <1>3, <2>2, SavingSteps DEF Becomes
    <2>4. QED
      BY <2>1, <2>2, <2>3 DEF Counted, Saving, Exact
  <1>4. ASSUME NEW r \in Runs, PutRepo(r), ~ torn'
        PROVE  Counted'
    <2>1. ~ torn /\ run[r].pc = "save_repo" /\ UNCHANGED saves
          /\ memory' = [memory EXCEPT !.repo = run[r].read[1] + 1]
      BY <1>4 DEF PutRepo, history
    <2>2. /\ memory.author = saves /\ run[r].read = <<saves, saves>>
          /\ \A q \in Runs \ {r} : ~ Saving(q)
      BY <2>1 DEF Counted, Saving, Exact
    <2>3. memory'.repo = saves + 1 /\ memory'.author = saves
      BY <2>1, <2>2
    <2>4. /\ \A q \in Runs \ {r} : run'[q] = run[q]
          /\ run'[r].pc = "save_author" /\ run'[r].read[2] = saves
      BY <1>4, <2>2, SavingSteps DEF Becomes
    <2>5. QED
      BY <2>1, <2>2, <2>3, <2>4 DEF Counted, Saving, Exact
  <1>5. ASSUME NEW r \in Runs, PutAuthor(r), ~ torn'
        PROVE  Counted'
    <2>1. ~ torn /\ run[r].pc = "save_author" /\ saves' = saves + 1
          /\ memory' = [memory EXCEPT !.author = run[r].read[2] + 1]
      BY <1>5 DEF PutAuthor
    <2>2. /\ memory.repo = saves + 1 /\ run[r].read[2] = saves
          /\ \A q \in Runs \ {r} : ~ Saving(q)
      BY <2>1 DEF Counted, Saving, Exact
    <2>3. memory'.repo = saves + 1 /\ memory'.author = saves + 1
      BY <2>1, <2>2
    <2>4. /\ \A q \in Runs \ {r} : run'[q] = run[q]
          /\ run'[r].pc = "saved"
      BY <1>5, SavingSteps DEF Becomes
    <2>5. QED
      BY <2>1, <2>2, <2>3, <2>4 DEF Counted, Saving, Exact
  <1>6. ASSUME NEW r \in Runs, NEW t \in Reviews,
               BeginAnalysis(r, t) \/ BeginRerun(r, t) \/ BeginApproval(r, t)
        PROVE  Counted'
    <2>1. \E kind, pc, values, read, shown :
              /\ pc \in Nodes
              /\ Becomes(r, kind, t, pc, values, read, shown)
      <3>1. checkpoint[t] \in Checkpoint /\ older[t] \subseteq Checkpoint
        BY DEF TypeOK
      <3>2. \A c \in Checkpoint : Past(c).next \in Nodes
        BY DEF Past, At, Checkpoint, Nodes
      <3>3. "load_memory" \in Nodes
        BY DEF Nodes
      <3>4. QED
        BY <1>6, <3>1, <3>2, <3>3, BeginSteps
    <2>2. UNCHANGED <<memory, saves, torn>> /\ run[r].pc = "new"
      BY <1>6 DEF BeginAnalysis, BeginRerun, BeginApproval, history
    <2>3. ~ Saving(r)' /\ \A q \in Runs \ {r} : run'[q] = run[q]
      BY <2>1 DEF Saving, Becomes, Nodes
    <2>4. QED
      BY <2>2, <2>3, QuietCounted DEF Saving
  <1>7. ASSUME NEW r \in Runs, StoreAnalysis(r) \/ StoreApproval(r) \/ Fail(r)
        PROVE  Counted'
    <2>1. ~ Saving(r)' /\ \A q \in Runs \ {r} : run'[q] = run[q]
      BY <1>7, EndSteps DEF Saving, Becomes
    <2>2. UNCHANGED <<memory, saves>>
      BY <1>7 DEF StoreAnalysis, StoreApproval, Fail, history
    <2>3. ~ torn' => ~ torn /\ run[r].pc \notin {"save_author", "saved"}
      BY <1>7 DEF StoreAnalysis, StoreApproval, Fail, history, Returned
    <2>4. ~ torn' /\ Saving(r) => memory.repo = saves
      BY <2>3 DEF Counted, Saving, Exact
    <2>5. QED
      BY <2>1, <2>2, <2>3, <2>4, QuietCounted
  <1>8. CASE UNCHANGED vars
    BY <1>8 DEF Counted, Saving, Exact, vars
  <1>9. ASSUME NEW r \in Runs, ReadMemory(r) \/ PutRepo(r) \/ PutAuthor(r)
        PROVE  Counted'
    <2>1. CASE ~ torn'
      BY <1>3, <1>4, <1>5, <1>9, <2>1
    <2>2. CASE torn'
      BY <2>2 DEF Counted
    <2>3. QED
      BY <2>1, <2>2
  <1>10. QED
    BY <1>1, <1>2, <1>6, <1>7, <1>8, <1>9 DEF Next, Node

\* Reviews that end one after the other are all counted, by both memories.
THEOREM MemoryCounts == Spec => []MemoryIsExact
  <1>1. Init => TypeOK /\ Counted
    <2> SUFFICES ASSUME Init PROVE Counted
      BY InitTyped
    <2>1. \A r \in Runs : ~ Saving(r) /\ Exact(r)
      BY DEF Init, Run, Saving, Exact
    <2>2. QED
      BY <2>1 DEF Init, Counted
  <1>2. TypeOK /\ Counted /\ [Next]_vars => (TypeOK /\ Counted)'
    BY StepTyped, StepCounted
  <1>3. TypeOK /\ Counted => MemoryIsExact
    BY DEF Counted, MemoryIsExact, SavingNow, Saving
  <1>4. QED
    BY <1>1, <1>2, <1>3, PTL DEF Spec

=============================================================================
