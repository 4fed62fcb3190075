------------------------ MODULE ReviewPipelineProofs ------------------------
(***************************************************************************)
(* Theorems about ReviewPipeline, for any number of jobs and attempts: its *)
(* types, when two runs may have the review at once, that a stored outcome *)
(* is kept, that every review settles, and that a crash costs nothing.     *)
(***************************************************************************)
EXTENDS ReviewPipeline, TLAPS

-----------------------------------------------------------------------------
(* The inductive invariant *)

Outcome == {"awaiting_approval", "completed"}

Analysed == {Row("awaiting_approval", "analysis"), Row("failed", "unavailable")}

\* An outcome has a result, "queued" has a draft event behind it, and only
\* no row is absent.
RowFits ==
    /\ review.status = "absent" => review = NoReview
    /\ review.result = "none" => review.status \notin Outcome
    /\ review.status = "queued" => DraftCame

\* An event is there only once its job was delivered.
EventsDelivered == \A j \in Jobs : event[j] # "none" => phase[j] # "absent"

\* What the step a run is at says about the review and the run.
RunFits(p) ==
    /\ Owns(p) => review # NoReview
    /\ run[p].pc \in {"idle", "version", "over"} => ~Owns(p)
    /\ run[p].pc \in {"draft_write", "analyse", "sync", "store"} => Owns(p)
    /\ run[p].pc \in {"attach", "draft"} /\ ~Owns(p) => run[p].view # NoReview
    /\ run[p].pc \in {"draft", "draft_write"} => EventOf(p) = "draft"
    /\ run[p].pc \in {"sync", "store"} => run[p].view \in Analysed
    /\ run[p].view.status = "queued" => DraftCame

AttemptsOverlap ==
    \A p, q \in Runs :
        p # q /\ p[1] = q[1] /\ Underway(p) /\ Underway(q) => "overlap" \in happened

\* While the database answers and no run came in another's way, the run that
\* has the review is alone, the review has no outcome until that run is done,
\* and every other run is still before the gate or leaves.
Free == "doubled" \notin happened /\ "database" \notin happened

Bystander == {"idle", "version", "attach", "draft", "gate", "complete", "over"}

OwnerAlone == \A p, q \in Runs : Owns(p) /\ Owns(q) => p = q

OwnerFirst == \A p \in Runs : Owns(p) /\ run[p].pc # "complete" => review.status \notin Outcome

OthersAside == \A p \in Runs : ~Owns(p) => run[p].pc \in Bystander

Inv ==
    /\ TypeOK
    /\ RowFits
    /\ EventsDelivered
    /\ \A p \in Runs : RunFits(p)
    /\ AttemptsOverlap
    /\ FirstAttemptsShareNothing
    /\ Free => OwnerAlone /\ OwnerFirst /\ OthersAside

-----------------------------------------------------------------------------
(* Records and single steps *)

LEMMA RowFacts ==
    ASSUME NEW s, NEW r
    PROVE  /\ Row(s, r).status = s
           /\ Row(s, r).result = r
BY DEF Row

LEMMA RowTyped ==
    ASSUME NEW s \in {"absent", "pending", "queued", "retrying", "failed",
                      "awaiting_approval", "completed"},
           NEW r \in {"none", "queued", "analysis", "unavailable", "failure", "decision"}
    PROVE  Row(s, r) \in Review
BY DEF Row, Review

LEMMA NoReviewTyped == NoReview \in Review /\ NoReview.status = "absent"
BY DEF NoReview, Row, Review

\* What one step of a run does to the local states.
LEMMA Becomes ==
    ASSUME run \in [Runs -> RunState],
           NEW p \in Runs, NEW pc \in Steps, NEW known \in BOOLEAN, NEW owns \in BOOLEAN,
           NEW view \in Review,
           Become(p, pc, known, owns, view)
    PROVE  /\ run' \in [Runs -> RunState]
           /\ run'[p].pc = pc /\ run'[p].known = known
           /\ run'[p].owns = owns /\ run'[p].view = view
           /\ \A q \in Runs : q # p => run'[q] = run[q]
<1> DEFINE t == Local(pc, known, owns, view)
<1>1. t \in RunState /\ t.pc = pc /\ t.known = known /\ t.owns = owns /\ t.view = view
  BY DEF Local, RunState
<1>2. run' = [run EXCEPT ![p] = t]
  BY DEF Become
<1>3. run'[p] = t /\ \A q \in Runs : q # p => run'[q] = run[q]
  BY <1>2
<1> HIDE DEF t
<1>4. run' \in [Runs -> RunState]
  BY <1>1, <1>2
<1> QED
  BY <1>1, <1>3, <1>4

\* The same for the abbreviations.
LEMMA Stays ==
    ASSUME run \in [Runs -> RunState], NEW p \in Runs
    PROVE  /\ run[p].known \in BOOLEAN /\ run[p].owns \in BOOLEAN
           /\ run[p].view \in Review /\ run[p].pc \in Steps
BY DEF RunState

LEMMA Goes ==
    ASSUME run \in [Runs -> RunState],
           NEW p \in Runs, NEW pc \in Steps,
           Goto(p, pc)
    PROVE  /\ run' \in [Runs -> RunState]
           /\ run'[p].pc = pc /\ run'[p].known = run[p].known
           /\ run'[p].owns = run[p].owns /\ run'[p].view = run[p].view
           /\ \A q \in Runs : q # p => run'[q] = run[q]
BY Stays, Becomes DEF Goto

LEMMA Raises ==
    ASSUME run \in [Runs -> RunState],
           NEW p \in Runs,
           Raise(p)
    PROVE  /\ run' \in [Runs -> RunState]
           /\ run'[p].pc = "except_sync" /\ run'[p].known
           /\ run'[p].owns = run[p].owns /\ run'[p].view = NoReview
           /\ \A q \in Runs : q # p => run'[q] = run[q]
<1> DEFINE t == [pc |-> "except_sync", known |-> TRUE, owns |-> run[p].owns, view |-> NoReview]
<1>1. t \in RunState /\ t.pc = "except_sync" /\ t.known /\ t.owns = run[p].owns /\ t.view = NoReview
  BY Stays, NoReviewTyped DEF RunState, Steps
<1>2. run' = [run EXCEPT ![p] = t]
  BY DEF Raise, Become, Local
<1> HIDE DEF t
<1> QED
  BY <1>1, <1>2

LEMMA Returns ==
    ASSUME run \in [Runs -> RunState],
           NEW p \in Runs,
           Return(p)
    PROVE  /\ run' \in [Runs -> RunState]
           /\ run'[p].pc = "complete" /\ run'[p].known
           /\ run'[p].owns = run[p].owns /\ run'[p].view = NoReview
           /\ \A q \in Runs : q # p => run'[q] = run[q]
<1> DEFINE t == [pc |-> "complete", known |-> TRUE, owns |-> run[p].owns, view |-> NoReview]
<1>1. t \in RunState /\ t.pc = "complete" /\ t.known /\ t.owns = run[p].owns /\ t.view = NoReview
  BY Stays, NoReviewTyped DEF RunState, Steps
<1>2. run' = [run EXCEPT ![p] = t]
  BY DEF Return, Become, Local
<1> HIDE DEF t
<1> QED
  BY <1>1, <1>2

LEMMA Ends ==
    ASSUME run \in [Runs -> RunState],
           NEW p \in Runs,
           End(p)
    PROVE  /\ run' \in [Runs -> RunState]
           /\ run'[p].pc = "over" /\ run'[p].owns = FALSE /\ run'[p].view = NoReview
           /\ \A q \in Runs : q # p => run'[q] = run[q]
<1> DEFINE t == [pc |-> "over", known |-> FALSE, owns |-> FALSE, view |-> NoReview]
<1>1. t \in RunState /\ t.pc = "over" /\ t.owns = FALSE /\ t.view = NoReview
  BY Stays, NoReviewTyped DEF RunState, Steps
<1>2. run' = [run EXCEPT ![p] = t]
  BY DEF End, Become, Local
<1> HIDE DEF t
<1> QED
  BY <1>1, <1>2

LEMMA Faulty ==
    ASSUME NEW what, happened \subseteq Faults \cup {"doubled"}, Fault(what)
    PROVE  /\ happened' \subseteq Faults \cup {"doubled"}
           /\ happened \subseteq happened'
           /\ what \in happened'
BY DEF Fault

LEMMA Takes ==
    ASSUME NEW p, happened \subseteq Faults \cup {"doubled"}, Taking(p)
    PROVE  /\ happened' \subseteq Faults \cup {"doubled"}
           /\ happened \subseteq happened'
           /\ "doubled" \notin happened' => \A q \in Runs \ {p} : ~run[q].owns
BY DEF Taking

LEMMA BecomesOwner ==
    ASSUME run \in [Runs -> RunState],
           NEW p \in Runs, NEW pc \in Steps, NEW view \in Review,
           Become(p, pc, TRUE, TRUE, view)
    PROVE  /\ run' \in [Runs -> RunState]
           /\ run'[p].pc = pc /\ run'[p].known /\ run'[p].owns = TRUE /\ run'[p].view = view
           /\ \A q \in Runs : q # p => run'[q] = run[q]
<1> DEFINE t == [pc |-> pc, known |-> TRUE, owns |-> TRUE, view |-> view]
<1>1. t \in RunState /\ t.pc = pc /\ t.known /\ t.owns = TRUE /\ t.view = view
  BY Stays DEF RunState
<1>2. run' = [run EXCEPT ![p] = t]
  BY DEF Become, Local
<1> HIDE DEF t
<1> QED
  BY <1>1, <1>2

LEMMA BecomesReader ==
    ASSUME run \in [Runs -> RunState],
           NEW p \in Runs, NEW pc \in Steps, NEW view \in Review,
           Become(p, pc, TRUE, FALSE, view)
    PROVE  /\ run' \in [Runs -> RunState]
           /\ run'[p].pc = pc /\ run'[p].known /\ run'[p].owns = FALSE /\ run'[p].view = view
           /\ \A q \in Runs : q # p => run'[q] = run[q]
<1> DEFINE t == [pc |-> pc, known |-> TRUE, owns |-> FALSE, view |-> view]
<1>1. t \in RunState /\ t.pc = pc /\ t.known /\ t.owns = FALSE /\ t.view = view
  BY Stays DEF RunState
<1>2. run' = [run EXCEPT ![p] = t]
  BY DEF Become, Local
<1> HIDE DEF t
<1> QED
  BY <1>1, <1>2

LEMMA BecomesClaimed ==
    ASSUME run \in [Runs -> RunState], attached \in [Jobs -> BOOLEAN],
           NEW p \in Runs, p[1] \in Jobs,
           Become(p, "version", attached[p[1]], FALSE, NoReview)
    PROVE  /\ run' \in [Runs -> RunState]
           /\ run'[p].pc = "version" /\ run'[p].owns = FALSE /\ run'[p].view = NoReview
           /\ \A q \in Runs : q # p => run'[q] = run[q]
<1> DEFINE t == [pc |-> "version", known |-> attached[p[1]], owns |-> FALSE, view |-> NoReview]
<1>1. t \in RunState /\ t.pc = "version" /\ t.owns = FALSE /\ t.view = NoReview
  BY NoReviewTyped DEF RunState, Steps
<1>2. run' = [run EXCEPT ![p] = t]
  BY DEF Become, Local
<1> HIDE DEF t
<1> QED
  BY <1>1, <1>2

LEMMA BecomesSame ==
    ASSUME run \in [Runs -> RunState],
           NEW p \in Runs, NEW pc \in Steps, NEW view \in Review,
           Become(p, pc, TRUE, run[p].owns, view)
    PROVE  /\ run' \in [Runs -> RunState]
           /\ run'[p].pc = pc /\ run'[p].known /\ run'[p].owns = run[p].owns /\ run'[p].view = view
           /\ \A q \in Runs : q # p => run'[q] = run[q]
<1> DEFINE t == [pc |-> pc, known |-> TRUE, owns |-> run[p].owns, view |-> view]
<1>1. t \in RunState /\ t.pc = pc /\ t.known /\ t.owns = run[p].owns /\ t.view = view
  BY Stays DEF RunState
<1>2. run' = [run EXCEPT ![p] = t]
  BY DEF Become, Local
<1> HIDE DEF t
<1> QED
  BY <1>1, <1>2

-----------------------------------------------------------------------------
(* The frame of a step *)

QueueTyped == phase \in [Jobs -> Queue!Phase] /\ tries \in [Jobs -> Nat]

\* What every step of a run does, and what follows from it.
Moves(p) ==
    /\ run' \in [Runs -> RunState]
    /\ \A q \in Runs : q # p => run'[q] = run[q]
    /\ event' = event
    /\ QueueTyped'
    /\ \A j \in Jobs : phase[j] # "absent" => phase'[j] # "absent"
    /\ attached' \in [Jobs -> BOOLEAN]
    /\ happened \subseteq happened' /\ happened' \subseteq Faults \cup {"doubled"}
    /\ review' \in Review /\ (review # NoReview => review' # NoReview)
    /\ RowFits' /\ RunFits(p)'
    /\ Underway(p) \/ (~Owns(p)' /\ AttemptsOverlap')
    /\ Owns(p)' /\ ~Owns(p) =>
          \A q \in Runs \ {p} : Owns(q) => p[2] > 1 \/ q[2] > 1 \/ DraftCame
    /\ Free' =>
          /\ Owns(p)' /\ ~Owns(p) => \A q \in Runs \ {p} : ~Owns(q)
          /\ Owns(p)' /\ run'[p].pc # "complete" => review'.status \notin Outcome
          /\ ~Owns(p)' => run'[p].pc \in Bystander
          /\ review'.status \in Outcome => review.status \in Outcome \/ Owns(p)

LEMMA MovesKeep ==
    ASSUME Inv, NEW p \in Runs, Moves(p)
    PROVE  Inv'
<1>1. TypeOK'
  BY DEF Inv, TypeOK, Moves, QueueTyped, Queue!TypeOK
<1>2. RowFits' /\ (DraftCame <=> DraftCame')
  BY DEF Moves, DraftCame
<1>3. EventsDelivered'
  BY DEF Inv, EventsDelivered, Moves
<1>4. \A q \in Runs : RunFits(q)'
  <2> SUFFICES ASSUME NEW q \in Runs, q # p PROVE RunFits(q)'
    BY DEF Moves
  <2>1. run'[q] = run[q] /\ event' = event /\ (review # NoReview => review' # NoReview)
    BY DEF Moves
  <2>2. RunFits(q)
    BY DEF Inv
  <2> QED
    BY <1>2, <2>1, <2>2 DEF RunFits, Owns, EventOf
<1>5. AttemptsOverlap'
  BY DEF Inv, AttemptsOverlap, Moves, Underway
<1>6. FirstAttemptsShareNothing'
  <2> SUFFICES ASSUME NEW q \in Runs, NEW r \in Runs, q # r, Owns(q)', Owns(r)'
               PROVE  \/ q[1] = r[1] /\ "overlap" \in happened'
                      \/ q[1] # r[1] /\ (q[2] > 1 \/ r[2] > 1 \/ DraftCame')
    BY DEF FirstAttemptsShareNothing
  <2>1. \A u \in Runs : Owns(u)' /\ u # p => Owns(u)
    BY DEF Moves, Owns
  <2>2. \A u \in Runs : Owns(u) => Underway(u)
    BY DEF Inv, RunFits, Underway
  <2>3. Underway(q) /\ Underway(r)
    BY <2>1, <2>2 DEF Moves
  <2>4. CASE q[1] = r[1]
    BY <2>3, <2>4 DEF Inv, AttemptsOverlap, Moves
  <2>5. CASE q[1] # r[1]
    <3>1. CASE Owns(q) /\ Owns(r)
      BY <1>2, <2>5, <3>1 DEF Inv, FirstAttemptsShareNothing
    <3>2. CASE q = p /\ ~Owns(q)
      BY <1>2, <2>1, <2>5, <3>2 DEF Moves
    <3>3. CASE r = p /\ ~Owns(r)
      BY <1>2, <2>1, <2>5, <3>3 DEF Moves
    <3> QED
      BY <2>1, <3>1, <3>2, <3>3
  <2> QED
    BY <2>4, <2>5
<1>7. ASSUME Free' PROVE (OwnerAlone /\ OwnerFirst /\ OthersAside)'
  <2>1. Free /\ OwnerAlone /\ OwnerFirst /\ OthersAside
    BY <1>7 DEF Inv, Free, Moves
  <2>2. \A u \in Runs : u # p => run'[u] = run[u] /\ (Owns(u)' <=> Owns(u))
    BY DEF Moves, Owns
  <2>3. OwnerAlone'
    BY <1>7, <2>1, <2>2 DEF Moves, OwnerAlone
  <2>4. OwnerFirst'
    BY <1>7, <2>1, <2>2 DEF Moves, OwnerFirst, OwnerAlone
  <2>5. OthersAside'
    BY <1>7, <2>1, <2>2 DEF Moves, OthersAside
  <2> QED
    BY <2>3, <2>4, <2>5
<1> QED
  BY <1>1, <1>2, <1>3, <1>4, <1>5, <1>6, <1>7 DEF Inv

-----------------------------------------------------------------------------
(* What the invariant says of one run *)

LEMMA Known ==
    ASSUME Inv, NEW p \in Runs
    PROVE  /\ run \in [Runs -> RunState]
           /\ review \in Review
           /\ attached \in [Jobs -> BOOLEAN]
           /\ happened \subseteq Faults \cup {"doubled"}
           /\ QueueTyped
           /\ RowFits /\ RunFits(p) /\ EventsDelivered
           /\ p[1] \in Jobs
           /\ run[p].view \in Review
BY Stays DEF Inv, TypeOK, QueueTyped, Queue!TypeOK, Runs

LEMMA Alone ==
    ASSUME Inv, NEW p \in Runs, Free
    PROVE  /\ Owns(p) /\ run[p].pc # "complete" => review.status \notin Outcome
           /\ ~Owns(p) => run[p].pc \in Bystander
BY DEF Inv, OwnerFirst, OthersAside

LEMMA QueueEnds ==
    ASSUME QueueTyped, NEW j \in Jobs,
           Queue!Succeed(j) \/ Queue!GiveUp(j) \/ UNCHANGED queue
    PROVE  QueueTyped' /\ \A k \in Jobs : phase[k] # "absent" => phase'[k] # "absent"
BY DEF QueueTyped, Queue!Succeed, Queue!GiveUp, Queue!Phase, queue

LEMMA QueueTries ==
    ASSUME QueueTyped, NEW j \in Jobs, Queue!Try(j)
    PROVE  QueueTyped' /\ phase' = phase
<1>1. phase' = phase /\ tries' = [tries EXCEPT ![j] = tries[j] + 1]
  BY DEF Queue!Try
<1>2. tries \in [Jobs -> Nat] /\ tries[j] + 1 \in Nat
  BY DEF QueueTyped
<1> QED
  BY <1>1, <1>2 DEF QueueTyped

\* A step that neither writes the row nor takes the review.
LEMMA QuietMoves ==
    ASSUME Inv, NEW p \in Runs,
           run' \in [Runs -> RunState], \A q \in Runs : q # p => run'[q] = run[q],
           QueueTyped', \A j \in Jobs : phase[j] # "absent" => phase'[j] # "absent",
           event' = event, review' = review, attached' \in [Jobs -> BOOLEAN],
           happened \subseteq happened', happened' \subseteq Faults \cup {"doubled"},
           Underway(p), RunFits(p)', Owns(p)' => Owns(p),
           Free' => /\ Owns(p)' /\ run'[p].pc # "complete" => run[p].pc # "complete"
                    /\ ~Owns(p)' => run'[p].pc \in Bystander
    PROVE  Moves(p)
<1>1. RowFits' /\ review' \in Review
  BY Known DEF RowFits, DraftCame
<1>2. Free' => Free
  BY DEF Free
<1>3. Free' => (Owns(p)' /\ run'[p].pc # "complete" => review'.status \notin Outcome)
  BY <1>2, Alone
<1> QED
  BY <1>1, <1>3 DEF Moves

-----------------------------------------------------------------------------
(* The steps of a run *)

LEMMA CompleteMoves ==
    ASSUME Inv, NEW p \in Runs, Complete(p)
    PROVE  Moves(p)
<1>1. /\ run' \in [Runs -> RunState] /\ \A q \in Runs : q # p => run'[q] = run[q]
      /\ run'[p].pc = "over" /\ ~Owns(p)' /\ run'[p].view = NoReview
  BY Known, Ends DEF Complete, Owns
<1>2. QueueTyped' /\ \A j \in Jobs : phase[j] # "absent" => phase'[j] # "absent"
  BY Known, QueueEnds DEF Complete
<1>3. happened \subseteq happened' /\ happened' \subseteq Faults \cup {"doubled"}
  BY Known, Faulty DEF Complete
<1>4. UNCHANGED <<event, attached, review>> /\ Underway(p)
  BY DEF Complete, At, Underway
<1>5. RunFits(p)'
  BY <1>1, NoReviewTyped DEF RunFits
<1> QED
  BY <1>1, <1>2, <1>3, <1>4, <1>5, Known, QuietMoves DEF Bystander

LEMMA FailMoves ==
    ASSUME Inv, NEW p \in Runs, Fail(p)
    PROVE  Moves(p)
<1>1. /\ run' \in [Runs -> RunState] /\ \A q \in Runs : q # p => run'[q] = run[q]
      /\ \/ run'[p].pc = "callback" /\ run'[p].owns = run[p].owns /\ run'[p].view = run[p].view
         \/ run'[p].pc = "over" /\ ~run'[p].owns /\ run'[p].view = NoReview
  <2>1. CASE Goto(p, "callback")
    BY <2>1, Known, Goes DEF Steps
  <2>2. CASE End(p)
    BY <2>2, Known, Ends
  <2> QED
    BY <2>1, <2>2 DEF Fail
<1>2. QueueTyped' /\ \A j \in Jobs : phase[j] # "absent" => phase'[j] # "absent"
  BY Known, QueueEnds DEF Fail, FailJob
<1>3. happened \subseteq happened' /\ happened' \subseteq Faults \cup {"doubled"}
  BY Known, Faulty DEF Fail
<1>4. UNCHANGED <<event, attached, review>> /\ Underway(p) /\ run[p].pc = "fail"
  BY DEF Fail, At, Underway
<1>5. RunFits(p)'
  BY <1>1, <1>4, Known, NoReviewTyped DEF RunFits, Owns, DraftCame
<1>6. Free' => Owns(p)
  BY <1>3, <1>4, Alone DEF Free, Bystander
<1> QED
  BY <1>1, <1>2, <1>3, <1>4, <1>5, <1>6, Known, QuietMoves DEF Bystander, Owns

\* A row the code writes: what it needs to fit.
LEMMA Writes ==
    ASSUME NEW st \in {"pending", "queued", "retrying", "failed", "awaiting_approval", "completed"},
           NEW re \in {"none", "queued", "analysis", "unavailable", "failure", "decision"},
           review' = Row(st, re), st \in Outcome => re # "none",
           event' = event, st = "queued" => DraftCame
    PROVE  /\ review' \in Review /\ review' # NoReview
           /\ review'.status = st /\ review'.result = re
           /\ RowFits'
<1>1. Row(st, re) \in Review /\ Row(st, re).status = st /\ Row(st, re).result = re
  BY RowTyped, RowFacts
<1>2. Row(st, re) # NoReview
  BY <1>1, NoReviewTyped
<1> QED
  BY <1>1, <1>2 DEF RowFits, DraftCame

LEMMA VersionMoves ==
    ASSUME Inv, NEW p \in Runs, Version(p)
    PROVE  Moves(p)
<1> DEFINE created == Row(IF EventOf(p) = "draft" THEN "queued" ELSE "pending", "none")
           leftEmpty == EventOf(p) = "draft" /\ review.result = "none"
<1>1. /\ run[p].pc = "version" /\ ~Owns(p) /\ Underway(p)
      /\ UNCHANGED <<event, attached>>
      /\ QueueTyped' /\ \A j \in Jobs : phase[j] # "absent" => phase'[j] # "absent"
  BY Known, QueueEnds DEF Version, At, Underway, RunFits
<1>2. EventOf(p) = "draft" => DraftCame
  BY Known DEF EventOf, DraftCame
<1>3. CASE review = NoReview /\ Write(created) /\ Become(p, "attach", TRUE, TRUE, NoReview) /\ UNCHANGED happened
  <2>1. /\ run' \in [Runs -> RunState] /\ \A q \in Runs : q # p => run'[q] = run[q]
        /\ run'[p].pc = "attach" /\ Owns(p)' /\ run'[p].view = NoReview
    BY <1>3, Known, BecomesOwner, NoReviewTyped DEF Steps, Owns
  <2>2. /\ review' \in Review /\ review' # NoReview /\ RowFits'
        /\ review'.status \notin Outcome
    BY <1>1, <1>2, <1>3, Writes DEF Write, Outcome
  <2>3. \A q \in Runs : ~Owns(q)
    BY <1>3 DEF Inv, RunFits
  <2>4. RunFits(p)'
    BY <2>1, <2>2, NoReviewTyped DEF RunFits
  <2> QED
    BY <1>1, <1>3, <2>1, <2>2, <2>3, <2>4, Known DEF Moves
<1>4. CASE Fault("database") /\ Goto(p, "fail") /\ (Write(created) \/ UNCHANGED review)
  <2>1. /\ run' \in [Runs -> RunState] /\ \A q \in Runs : q # p => run'[q] = run[q]
        /\ run'[p].pc = "fail" /\ ~Owns(p)' /\ run'[p].view = run[p].view
    BY <1>1, <1>4, Known, Goes DEF Steps, Owns
  <2>2. review' \in Review /\ RowFits' /\ (review # NoReview => review' # NoReview)
    BY <1>1, <1>2, <1>4, Writes, Known DEF Write, Outcome, RowFits, DraftCame
  <2>3. happened \subseteq happened' /\ happened' \subseteq Faults \cup {"doubled"} /\ ~Free'
    BY <1>4, Known, Faulty DEF Free
  <2>4. RunFits(p)'
    BY <1>1, <2>1, Known DEF RunFits, DraftCame
  <2> QED
    BY <1>1, <2>1, <2>2, <2>3, <2>4, Known DEF Moves
<1>5. CASE review # NoReview /\ ~leftEmpty /\ Become(p, "attach", TRUE, FALSE, review)
           /\ UNCHANGED <<review, happened>>
  <2>1. /\ run' \in [Runs -> RunState] /\ \A q \in Runs : q # p => run'[q] = run[q]
        /\ run'[p].pc = "attach" /\ ~Owns(p)' /\ run'[p].view = review
    BY <1>5, Known, BecomesReader DEF Steps, Owns
  <2>2. RunFits(p)'
    BY <1>1, <1>5, <2>1, Known DEF RunFits, RowFits, DraftCame
  <2> QED
    BY <1>1, <1>5, <2>1, <2>2, Known, QuietMoves DEF Bystander
<1>6. CASE review # NoReview /\ leftEmpty /\ Become(p, "attach", TRUE, TRUE, review)
           /\ Taking(p) /\ UNCHANGED review
  <2>1. /\ run' \in [Runs -> RunState] /\ \A q \in Runs : q # p => run'[q] = run[q]
        /\ run'[p].pc = "attach" /\ Owns(p)' /\ run'[p].view = review
    BY <1>6, Known, BecomesOwner DEF Steps, Owns
  <2>2. /\ happened \subseteq happened' /\ happened' \subseteq Faults \cup {"doubled"}
        /\ Free' => \A q \in Runs \ {p} : ~Owns(q)
    BY <1>6, Known, Takes DEF Free, Owns
  <2>3. RunFits(p)' /\ RowFits'
    BY <1>1, <1>6, <2>1, Known DEF RunFits, RowFits, DraftCame
  <2>4. review'.status \notin Outcome /\ DraftCame
    BY <1>2, <1>6, Known DEF RowFits
  <2> QED
    BY <1>1, <1>6, <2>1, <2>2, <2>3, <2>4, Known DEF Moves
<1> QED
  BY <1>3, <1>4, <1>5, <1>6 DEF Version

LEMMA AttachMoves ==
    ASSUME Inv, NEW p \in Runs, Attach(p)
    PROVE  Moves(p)
<1> DEFINE next == IF EventOf(p) = "draft" THEN "draft"
                   ELSE IF run[p].owns THEN "analyse" ELSE "gate"
<1>1. /\ run[p].pc = "attach" /\ Underway(p)
      /\ UNCHANGED <<event, review>> /\ attached' \in [Jobs -> BOOLEAN]
      /\ QueueTyped' /\ \A j \in Jobs : phase[j] # "absent" => phase'[j] # "absent"
  BY Known, QueueEnds DEF Attach, At, Underway
<1>2. CASE Goto(p, next) /\ UNCHANGED happened
  <2>1. /\ run' \in [Runs -> RunState] /\ \A q \in Runs : q # p => run'[q] = run[q]
        /\ run'[p].pc = next /\ run'[p].owns = run[p].owns /\ run'[p].view = run[p].view
    BY <1>2, Known, Goes DEF Steps
  <2>2. RunFits(p)'
    BY <1>1, <2>1, Known DEF RunFits, Owns, DraftCame, EventOf
  <2> QED
    BY <1>1, <1>2, <2>1, <2>2, Known, QuietMoves DEF Bystander, Owns
<1>3. CASE Fault("database") /\ Raise(p)
  <2>1. /\ run' \in [Runs -> RunState] /\ \A q \in Runs : q # p => run'[q] = run[q]
        /\ run'[p].pc = "except_sync" /\ run'[p].owns = run[p].owns /\ run'[p].view = NoReview
    BY <1>3, Known, Raises
  <2>2. happened \subseteq happened' /\ happened' \subseteq Faults \cup {"doubled"} /\ ~Free'
    BY <1>3, Known, Faulty DEF Free
  <2>3. RunFits(p)'
    BY <1>1, <2>1, Known, NoReviewTyped DEF RunFits, Owns
  <2> QED
    BY <1>1, <2>1, <2>2, <2>3, Known, QuietMoves DEF Owns
<1> QED
  BY <1>2, <1>3 DEF Attach

LEMMA DraftMoves ==
    ASSUME Inv, NEW p \in Runs, Draft(p)
    PROVE  Moves(p)
<1>1. /\ run[p].pc = "draft" /\ Underway(p)
      /\ UNCHANGED <<event, review, attached>>
      /\ QueueTyped' /\ \A j \in Jobs : phase[j] # "absent" => phase'[j] # "absent"
  BY Known, QueueEnds DEF Draft, At, Underway
<1>2. CASE run[p].owns /\ Goto(p, "draft_write") /\ UNCHANGED happened
  <2>1. /\ run' \in [Runs -> RunState] /\ \A q \in Runs : q # p => run'[q] = run[q]
        /\ run'[p].pc = "draft_write" /\ run'[p].owns = run[p].owns /\ run'[p].view = run[p].view
    BY <1>2, Known, Goes DEF Steps
  <2>2. RunFits(p)'
    BY <1>1, <1>2, <2>1, Known DEF RunFits, Owns, DraftCame, EventOf
  <2> QED
    BY <1>1, <1>2, <2>1, <2>2, Known, QuietMoves DEF Owns
<1>3. CASE run[p].view = NoReview /\ Fault("github") /\ Raise(p)
  <2>1. /\ run' \in [Runs -> RunState] /\ \A q \in Runs : q # p => run'[q] = run[q]
        /\ run'[p].pc = "except_sync" /\ run'[p].owns = run[p].owns /\ run'[p].view = NoReview
    BY <1>3, Known, Raises
  <2>2. happened \subseteq happened' /\ happened' \subseteq Faults \cup {"doubled"}
    BY <1>3, Known, Faulty
  <2>3. RunFits(p)' /\ Owns(p)
    BY <1>1, <1>3, <2>1, Known, NoReviewTyped DEF RunFits, Owns
  <2> QED
    BY <1>1, <2>1, <2>2, <2>3, Known, QuietMoves DEF Owns
<1>4. CASE ~run[p].owns /\ Return(p) /\ UNCHANGED happened
  <2>1. /\ run' \in [Runs -> RunState] /\ \A q \in Runs : q # p => run'[q] = run[q]
        /\ run'[p].pc = "complete" /\ run'[p].owns = run[p].owns /\ run'[p].view = NoReview
    BY <1>4, Known, Returns
  <2>2. RunFits(p)'
    BY <1>1, <1>4, <2>1, Known, NoReviewTyped DEF RunFits, Owns
  <2> QED
    BY <1>1, <1>4, <2>1, <2>2, Known, QuietMoves DEF Owns, Bystander
<1> QED
  BY <1>2, <1>3, <1>4 DEF Draft

LEMMA DraftWriteMoves ==
    ASSUME Inv, NEW p \in Runs, DraftWrite(p)
    PROVE  Moves(p)
<1>1. /\ run[p].pc = "draft_write" /\ Underway(p) /\ Owns(p) /\ DraftCame
      /\ UNCHANGED <<event, attached>>
      /\ QueueTyped' /\ \A j \in Jobs : phase[j] # "absent" => phase'[j] # "absent"
  BY Known, QueueEnds DEF DraftWrite, At, Underway, RunFits, EventOf, DraftCame
<1>2. CASE Write(Row("queued", "queued")) /\ Return(p) /\ UNCHANGED happened
  <2>1. /\ run' \in [Runs -> RunState] /\ \A q \in Runs : q # p => run'[q] = run[q]
        /\ run'[p].pc = "complete" /\ run'[p].owns = run[p].owns /\ run'[p].view = NoReview
    BY <1>2, Known, Returns
  <2>2. review' \in Review /\ review' # NoReview /\ RowFits'
    BY <1>1, <1>2, Writes DEF Write, Outcome
  <2>3. RunFits(p)'
    BY <2>1, <2>2, NoReviewTyped DEF RunFits
  <2> QED
    BY <1>1, <1>2, <2>1, <2>2, <2>3, Known DEF Moves, Owns
<1>3. CASE MaybeWritten(Row("queued", "queued")) /\ Fault("database") /\ Raise(p)
  <2>1. /\ run' \in [Runs -> RunState] /\ \A q \in Runs : q # p => run'[q] = run[q]
        /\ run'[p].pc = "except_sync" /\ run'[p].owns = run[p].owns /\ run'[p].view = NoReview
    BY <1>3, Known, Raises
  <2>2. review' \in Review /\ RowFits' /\ (review # NoReview => review' # NoReview)
    BY <1>1, <1>3, Writes, Known DEF MaybeWritten, Outcome, RowFits, DraftCame
  <2>3. happened \subseteq happened' /\ happened' \subseteq Faults \cup {"doubled"} /\ ~Free'
    BY <1>3, Known, Faulty DEF Free
  <2>4. RunFits(p)'
    BY <1>1, <2>1, <2>2, Known, NoReviewTyped DEF RunFits, Owns
  <2> QED
    BY <1>1, <2>1, <2>2, <2>3, <2>4, Known DEF Moves, Owns
<1> QED
  BY <1>2, <1>3 DEF DraftWrite

LEMMA GateMoves ==
    ASSUME Inv, NEW p \in Runs, Gate(p)
    PROVE  Moves(p)
<1> DEFINE may   == CanResumeDraft(p) \/ CanRetry(p)
           taken == Row("pending", review.result)
<1>1. /\ run[p].pc = "gate" /\ Underway(p)
      /\ UNCHANGED <<event, attached>>
      /\ QueueTyped' /\ \A j \in Jobs : phase[j] # "absent" => phase'[j] # "absent"
  BY Known, QueueEnds DEF Gate, At, Underway
<1>2. /\ review.result \in {"none", "queued", "analysis", "unavailable", "failure", "decision"}
      /\ taken \in Review /\ taken.status = "pending"
  BY Known, RowTyped, RowFacts DEF Review
<1>3. CASE ~(may /\ Unmoved(p)) /\ Return(p) /\ UNCHANGED <<review, happened>>
  <2>1. /\ run' \in [Runs -> RunState] /\ \A q \in Runs : q # p => run'[q] = run[q]
        /\ run'[p].pc = "complete" /\ run'[p].owns = run[p].owns /\ run'[p].view = NoReview
    BY <1>3, Known, Returns
  <2>2. RunFits(p)'
    BY <1>3, <2>1, Known, NoReviewTyped DEF RunFits, Owns
  <2> QED
    BY <1>1, <1>3, <2>1, <2>2, Known, QuietMoves DEF Owns, Bystander
<1>4. CASE may /\ Unmoved(p) /\ Write(taken) /\ Become(p, "analyse", TRUE, TRUE, taken) /\ Taking(p)
  <2>1. /\ run' \in [Runs -> RunState] /\ \A q \in Runs : q # p => run'[q] = run[q]
        /\ run'[p].pc = "analyse" /\ Owns(p)' /\ run'[p].view = taken
    BY <1>2, <1>4, Known, BecomesOwner DEF Steps, Owns
  <2>2. /\ review' \in Review /\ review' # NoReview /\ RowFits'
        /\ review'.status \notin Outcome
    BY <1>1, <1>2, <1>4, Writes DEF Write, Outcome
  <2>3. /\ happened \subseteq happened' /\ happened' \subseteq Faults \cup {"doubled"}
        /\ Free' => \A q \in Runs \ {p} : ~Owns(q)
    BY <1>4, Known, Takes DEF Free, Owns
  <2>4. p[2] > 1 \/ DraftCame
    BY <1>4, Known DEF CanResumeDraft, CanRetry, RunFits
  <2>5. RunFits(p)'
    BY <1>2, <2>1, <2>2 DEF RunFits
  <2> QED
    BY <1>1, <2>1, <2>2, <2>3, <2>4, <2>5, Known DEF Moves
<1>5. CASE /\ Fault("database") /\ Raise(p)
           /\ review' \in {review} \cup (IF Unmoved(p) THEN {taken} ELSE {})
  <2>1. /\ run' \in [Runs -> RunState] /\ \A q \in Runs : q # p => run'[q] = run[q]
        /\ run'[p].pc = "except_sync" /\ run'[p].owns = run[p].owns /\ run'[p].view = NoReview
    BY <1>5, Known, Raises
  <2>4. review' \in Review /\ RowFits' /\ (review # NoReview => review' # NoReview)
    <3>1. CASE review' = review
      BY <3>1, <1>1, Known DEF RowFits, DraftCame
    <3>2. CASE review' = taken
      BY <3>2, <1>1, <1>2, Writes DEF Outcome
    <3> QED
      BY <1>5, <3>1, <3>2
  <2>5. happened \subseteq happened' /\ happened' \subseteq Faults \cup {"doubled"} /\ ~Free'
    BY <1>5, Known, Faulty DEF Free
  <2>6. RunFits(p)'
    BY <1>1, <2>1, <2>4, Known, NoReviewTyped DEF RunFits, Owns
  <2> QED
    BY <1>1, <2>1, <2>4, <2>5, <2>6, Known DEF Moves, Owns
<1> QED
  BY <1>3, <1>4, <1>5 DEF Gate

LEMMA AnalyseMoves ==
    ASSUME Inv, NEW p \in Runs, Analyse(p)
    PROVE  Moves(p)
<1>1. /\ run[p].pc = "analyse" /\ Underway(p) /\ Owns(p)
      /\ UNCHANGED <<event, attached, review>>
      /\ QueueTyped' /\ \A j \in Jobs : phase[j] # "absent" => phase'[j] # "absent"
  BY Known, QueueEnds DEF Analyse, At, Underway, RunFits
<1>2. ASSUME NEW new \in Analysed, Become(p, "sync", TRUE, TRUE, new), UNCHANGED happened
      PROVE  Moves(p)
  <2>1. new \in Review /\ new.status # "queued"
    BY RowTyped, RowFacts DEF Analysed
  <2>2. /\ run' \in [Runs -> RunState] /\ \A q \in Runs : q # p => run'[q] = run[q]
        /\ run'[p].pc = "sync" /\ Owns(p)' /\ run'[p].view = new
    BY <1>2, <2>1, Known, BecomesOwner DEF Steps, Owns
  <2>3. RunFits(p)'
    BY <1>1, <2>1, <2>2, Known DEF RunFits
  <2> QED
    BY <1>1, <1>2, <2>2, <2>3, Known, QuietMoves
<1>3. CASE Fault("analysis") /\ Raise(p)
  <2>1. /\ run' \in [Runs -> RunState] /\ \A q \in Runs : q # p => run'[q] = run[q]
        /\ run'[p].pc = "except_sync" /\ run'[p].owns = run[p].owns /\ run'[p].view = NoReview
    BY <1>3, Known, Raises
  <2>2. happened \subseteq happened' /\ happened' \subseteq Faults \cup {"doubled"}
    BY <1>3, Known, Faulty
  <2>3. RunFits(p)'
    BY <1>1, <2>1, Known, NoReviewTyped DEF RunFits, Owns
  <2> QED
    BY <1>1, <2>1, <2>2, <2>3, Known, QuietMoves DEF Owns
<1> QED
  BY <1>2, <1>3 DEF Analyse, Analysed

LEMMA SyncMoves ==
    ASSUME Inv, NEW p \in Runs, Sync(p)
    PROVE  Moves(p)
<1>1. /\ run[p].pc = "sync" /\ Underway(p) /\ Owns(p)
      /\ UNCHANGED <<event, attached, review>>
      /\ QueueTyped' /\ \A j \in Jobs : phase[j] # "absent" => phase'[j] # "absent"
  BY Known, QueueEnds DEF Sync, At, Underway, RunFits
<1>2. happened \subseteq happened' /\ happened' \subseteq Faults \cup {"doubled"}
  BY Known, Faulty DEF Sync
<1>3. /\ run' \in [Runs -> RunState] /\ \A q \in Runs : q # p => run'[q] = run[q]
      /\ \/ run'[p].pc = "store" /\ run'[p].owns = run[p].owns /\ run'[p].view = run[p].view
         \/ run'[p].pc = "except_sync" /\ run'[p].owns = run[p].owns /\ run'[p].view = NoReview
  BY Known, Goes, Raises DEF Sync, Steps
<1>4. RunFits(p)'
  BY <1>1, <1>3, Known, NoReviewTyped DEF RunFits, Owns, DraftCame
<1> QED
  BY <1>1, <1>2, <1>3, <1>4, Known, QuietMoves DEF Owns

LEMMA StoreMoves ==
    ASSUME Inv, NEW p \in Runs, Store(p)
    PROVE  Moves(p)
<1>1. /\ run[p].pc = "store" /\ Underway(p) /\ Owns(p) /\ run[p].view \in Analysed
      /\ UNCHANGED <<event, attached>>
      /\ QueueTyped' /\ \A j \in Jobs : phase[j] # "absent" => phase'[j] # "absent"
  BY Known, QueueEnds DEF Store, At, Underway, RunFits
<1>2. review' = run[p].view => review' \in Review /\ review' # NoReview /\ RowFits'
  BY <1>1, Writes DEF Analysed, Outcome
<1>3. CASE Write(run[p].view) /\ Return(p) /\ UNCHANGED happened
  <2>1. /\ run' \in [Runs -> RunState] /\ \A q \in Runs : q # p => run'[q] = run[q]
        /\ run'[p].pc = "complete" /\ run'[p].owns = run[p].owns /\ run'[p].view = NoReview
    BY <1>3, Known, Returns
  <2>2. RunFits(p)'
    BY <1>2, <1>3, <2>1, NoReviewTyped DEF RunFits, Write
  <2> QED
    BY <1>1, <1>2, <1>3, <2>1, <2>2, Known DEF Moves, Owns, Write
<1>4. CASE MaybeWritten(run[p].view) /\ Fault("database") /\ Raise(p)
  <2>1. /\ run' \in [Runs -> RunState] /\ \A q \in Runs : q # p => run'[q] = run[q]
        /\ run'[p].pc = "except_sync" /\ run'[p].owns = run[p].owns /\ run'[p].view = NoReview
    BY <1>4, Known, Raises
  <2>2. review' \in Review /\ RowFits' /\ (review # NoReview => review' # NoReview)
    BY <1>1, <1>2, <1>4, Known DEF MaybeWritten, RowFits, DraftCame
  <2>3. happened \subseteq happened' /\ happened' \subseteq Faults \cup {"doubled"} /\ ~Free'
    BY <1>4, Known, Faulty DEF Free
  <2>4. RunFits(p)'
    BY <1>1, <2>1, <2>2, Known, NoReviewTyped DEF RunFits, Owns
  <2> QED
    BY <1>1, <2>1, <2>2, <2>3, <2>4, Known DEF Moves, Owns
<1> QED
  BY <1>3, <1>4 DEF Store

LEMMA ExceptSyncMoves ==
    ASSUME Inv, NEW p \in Runs, ExceptSync(p)
    PROVE  Moves(p)
<1>1. /\ run[p].pc = "except_sync" /\ Underway(p)
      /\ UNCHANGED <<event, attached, review>>
      /\ QueueTyped' /\ \A j \in Jobs : phase[j] # "absent" => phase'[j] # "absent"
  BY Known, QueueEnds DEF ExceptSync, At, Underway
<1>2. happened \subseteq happened' /\ happened' \subseteq Faults \cup {"doubled"}
  BY Known, Faulty DEF ExceptSync
<1>3. /\ run' \in [Runs -> RunState] /\ \A q \in Runs : q # p => run'[q] = run[q]
      /\ run'[p].pc \in {"except_store", "fail"}
      /\ run'[p].owns = run[p].owns /\ run'[p].view = run[p].view
  BY Known, Goes DEF ExceptSync, Steps
<1>4. RunFits(p)'
  BY <1>1, <1>3, Known DEF RunFits, Owns, DraftCame
<1>5. Free' => Owns(p)
  BY <1>1, <1>2, Alone DEF Free, Bystander
<1> QED
  BY <1>1, <1>2, <1>3, <1>4, <1>5, Known, QuietMoves DEF Owns

LEMMA ExceptStoreMoves ==
    ASSUME Inv, NEW p \in Runs, ExceptStore(p)
    PROVE  Moves(p)
<1>1. /\ run[p].pc = "except_store" /\ Underway(p)
      /\ UNCHANGED <<event, attached>>
      /\ QueueTyped' /\ \A j \in Jobs : phase[j] # "absent" => phase'[j] # "absent"
  BY Known, QueueEnds DEF ExceptStore, At, Underway
<1>2. happened \subseteq happened' /\ happened' \subseteq Faults \cup {"doubled"}
  BY Known, Faulty DEF ExceptStore
<1>3. /\ run' \in [Runs -> RunState] /\ \A q \in Runs : q # p => run'[q] = run[q]
      /\ run'[p].pc = "fail" /\ run'[p].owns = run[p].owns /\ run'[p].view = run[p].view
  BY Known, Goes DEF ExceptStore, Steps
<1>4. Free' => Owns(p)
  BY <1>1, <1>2, Alone DEF Free, Bystander
<1>5. CASE review' = Row("failed", "failure")
  <2>1. review' \in Review /\ review' # NoReview /\ RowFits' /\ review'.status \notin Outcome
    BY <1>1, <1>5, Writes DEF Outcome
  <2>2. RunFits(p)'
    BY <1>1, <1>3, <2>1, Known DEF RunFits, Owns, DraftCame
  <2> QED
    BY <1>1, <1>2, <1>3, <1>4, <2>1, <2>2, Known DEF Moves, Owns
<1>6. CASE review' = review
  <2>1. RunFits(p)'
    BY <1>1, <1>3, <1>6, Known DEF RunFits, Owns, DraftCame
  <2> QED
    BY <1>1, <1>2, <1>3, <1>4, <1>6, <2>1, Known, QuietMoves DEF Owns
<1> QED
  BY <1>5, <1>6 DEF ExceptStore, Write, MaybeWritten

LEMMA CallbackReadMoves ==
    ASSUME Inv, NEW p \in Runs, CallbackRead(p)
    PROVE  Moves(p)
<1>1. /\ run[p].pc = "callback" /\ Underway(p)
      /\ UNCHANGED <<event, attached, review>>
      /\ QueueTyped' /\ \A j \in Jobs : phase[j] # "absent" => phase'[j] # "absent"
  BY Known, QueueEnds DEF CallbackRead, At, Underway
<1>2. happened \subseteq happened' /\ happened' \subseteq Faults \cup {"doubled"}
  BY Known, Faulty DEF CallbackRead
<1>3. CASE End(p)
  <2>1. /\ run' \in [Runs -> RunState] /\ \A q \in Runs : q # p => run'[q] = run[q]
        /\ run'[p].pc = "over" /\ ~Owns(p)' /\ run'[p].view = NoReview
    BY <1>3, Known, Ends DEF Owns
  <2>2. RunFits(p)'
    BY <2>1, NoReviewTyped DEF RunFits
  <2> QED
    BY <1>1, <1>2, <2>1, <2>2, Known, QuietMoves DEF Bystander
<1>4. CASE Become(p, "callback_store", TRUE, run[p].owns, review)
  <2>1. /\ run' \in [Runs -> RunState] /\ \A q \in Runs : q # p => run'[q] = run[q]
        /\ run'[p].pc = "callback_store" /\ run'[p].owns = run[p].owns /\ run'[p].view = review
    BY <1>4, Known, BecomesSame DEF Steps
  <2>2. RunFits(p)'
    BY <1>1, <2>1, Known DEF RunFits, RowFits, Owns, DraftCame
  <2>3. Free' => Owns(p)
    BY <1>1, <1>2, Alone DEF Free, Bystander
  <2> QED
    BY <1>1, <1>2, <2>1, <2>2, <2>3, Known, QuietMoves DEF Owns
<1> QED
  BY <1>3, <1>4 DEF CallbackRead

LEMMA CallbackStoreMoves ==
    ASSUME Inv, NEW p \in Runs, CallbackStore(p)
    PROVE  Moves(p)
<1> DEFINE res == IF run[p].view.result = "none" THEN "failure" ELSE run[p].view.result
           new == Row(FailureStatus(p), res)
<1>1. /\ run[p].pc = "callback_store" /\ Underway(p)
      /\ UNCHANGED <<event, attached>>
      /\ QueueTyped' /\ \A j \in Jobs : phase[j] # "absent" => phase'[j] # "absent"
  BY Known, QueueEnds DEF CallbackStore, At, Underway
<1>2. happened \subseteq happened' /\ happened' \subseteq Faults \cup {"doubled"}
  BY Known, Faulty DEF CallbackStore
<1>3. /\ run' \in [Runs -> RunState] /\ \A q \in Runs : q # p => run'[q] = run[q]
      /\ run'[p].pc = "over" /\ ~Owns(p)' /\ run'[p].view = NoReview
  BY Known, Ends DEF CallbackStore, Owns
<1>4. RunFits(p)'
  BY <1>3, NoReviewTyped DEF RunFits
<1>5. Free' => Owns(p)
  BY <1>1, <1>2, Alone DEF Free, Bystander
<1>6. CASE review' = new
  <2>1. res \in {"queued", "analysis", "unavailable", "failure", "decision"}
    BY Known DEF Review
  <2>2. FailureStatus(p) \in {"failed", "retrying"}
    BY DEF FailureStatus
  <2> HIDE DEF res
  <2>3. review' \in Review /\ review' # NoReview /\ RowFits' /\ review'.status \notin Outcome
    BY <1>1, <1>6, <2>1, <2>2, Writes DEF Outcome
  <2> QED
    BY <1>1, <1>2, <1>3, <1>4, <1>5, <2>3, Known DEF Moves, Bystander
<1>7. CASE review' = review
  BY <1>1, <1>2, <1>3, <1>4, <1>7, Known, QuietMoves DEF Bystander
<1> QED
  BY <1>6, <1>7 DEF CallbackStore, Write, MaybeWritten

LEMMA CrashMoves ==
    ASSUME Inv, NEW p \in Runs, Crash(p)
    PROVE  Moves(p)
<1>1. /\ Underway(p)
      /\ UNCHANGED <<event, attached, review>>
      /\ QueueTyped' /\ \A j \in Jobs : phase[j] # "absent" => phase'[j] # "absent"
  BY Known, QueueEnds DEF Crash
<1>2. happened \subseteq happened' /\ happened' \subseteq Faults \cup {"doubled"}
  BY Known, Faulty DEF Crash
<1>3. /\ run' \in [Runs -> RunState] /\ \A q \in Runs : q # p => run'[q] = run[q]
      /\ run'[p].pc = "over" /\ ~Owns(p)' /\ run'[p].view = NoReview
  BY Known, Ends DEF Crash, Owns
<1>4. RunFits(p)'
  BY <1>3, NoReviewTyped DEF RunFits
<1> QED
  BY <1>1, <1>2, <1>3, <1>4, Known, QuietMoves DEF Bystander

LEMMA ClaimMoves ==
    ASSUME Inv, NEW p \in Runs, Claim(p)
    PROVE  Moves(p)
<1>1. /\ run' \in [Runs -> RunState] /\ \A q \in Runs : q # p => run'[q] = run[q]
      /\ run'[p].pc = "version" /\ ~Owns(p)' /\ run'[p].view = NoReview
  BY Known, BecomesClaimed DEF Claim, Owns
<1>2. QueueTyped' /\ phase' = phase
  BY Known, QueueTries DEF Claim
<1>3. happened \subseteq happened' /\ happened' \subseteq Faults \cup {"doubled"}
  BY Known, Faulty DEF Claim
<1>4. UNCHANGED <<event, attached, review>>
  BY DEF Claim
<1>5. AttemptsOverlap'
  <2> SUFFICES ASSUME NEW q \in Runs, NEW r \in Runs, q # r, q[1] = r[1],
                      Underway(q)', Underway(r)'
               PROVE  "overlap" \in happened'
    BY DEF AttemptsOverlap
  <2>1. CASE q # p /\ r # p
    BY <1>1, <1>3, <2>1 DEF Inv, AttemptsOverlap, Underway
  <2>2. CASE q = p \/ r = p
    <3>1. \E u \in Runs : u[1] = p[1] /\ Underway(u)
      BY <1>1, <2>2 DEF Underway
    <3> QED
      BY <3>1, Known, Faulty DEF Claim
  <2> QED
    BY <2>1, <2>2
<1>6. RunFits(p)' /\ RowFits' /\ review' \in Review
  BY <1>1, <1>4, Known, NoReviewTyped DEF RunFits, RowFits, DraftCame
<1> QED
  BY <1>1, <1>2, <1>3, <1>4, <1>5, <1>6, Known DEF Moves, Bystander

LEMMA RunStepMoves ==
    ASSUME Inv, NEW p \in Runs, RunStep(p)
    PROVE  Moves(p)
BY ClaimMoves, CompleteMoves, FailMoves, VersionMoves, AttachMoves, DraftMoves,
   DraftWriteMoves, GateMoves, AnalyseMoves, SyncMoves, StoreMoves, ExceptSyncMoves,
   ExceptStoreMoves, CallbackReadMoves, CallbackStoreMoves, CrashMoves
DEF RunStep

-----------------------------------------------------------------------------
(* The steps of the others *)

LEMMA InitKeeps ==
    ASSUME Init
    PROVE  Inv
<1> DEFINE t == [pc |-> "idle", known |-> FALSE, owns |-> FALSE, view |-> NoReview]
<1>1. t \in RunState /\ t.pc = "idle" /\ t.owns = FALSE /\ t.view = NoReview
  BY NoReviewTyped DEF RunState, Steps
<1>2. run = [p \in Runs |-> t]
  BY DEF Init, Local
<1> HIDE DEF t
<1>3. TypeOK
  BY <1>1, <1>2, NoReviewTyped DEF Init, TypeOK, Queue!Init, Queue!TypeOK, Queue!Phase
<1>4. RowFits /\ EventsDelivered
  BY NoReviewTyped DEF Init, RowFits, EventsDelivered, Outcome
<1>5. \A p \in Runs : ~Owns(p) /\ ~Underway(p) /\ run[p].pc = "idle" /\ run[p].view = NoReview
  BY <1>1, <1>2 DEF Owns, Underway
<1>6. \A p \in Runs : RunFits(p)
  BY <1>5, NoReviewTyped DEF RunFits
<1> QED
  BY <1>3, <1>4, <1>5, <1>6
  DEF Inv, AttemptsOverlap, FirstAttemptsShareNothing, OwnerAlone, OwnerFirst,
      OthersAside, Bystander

LEMMA DeliverKeeps ==
    ASSUME Inv, NEW j \in Jobs, Deliver(j)
    PROVE  Inv'
<1>1. PICK e \in Events : event' = [event EXCEPT ![j] = e]
  BY DEF Deliver
<1>2. UNCHANGED <<attached, review, run, happened, tries>>
  BY DEF Deliver, Queue!Submit
<1>3. /\ phase[j] = "absent" /\ phase' = [phase EXCEPT ![j] = "pending"]
      /\ phase \in [Jobs -> Queue!Phase] /\ event \in [Jobs -> Events \cup {"none"}]
  BY DEF Deliver, Queue!Submit, Inv, TypeOK, Queue!TypeOK
<1>4. TypeOK'
  BY <1>1, <1>2, <1>3 DEF Inv, TypeOK, Queue!TypeOK, Queue!Phase
<1>5. event[j] = "none"
  BY <1>3 DEF Inv, EventsDelivered
<1>6. \A k \in Jobs : event[k] # "none" => event'[k] = event[k]
  BY <1>1, <1>3, <1>5
<1>7. DraftCame => DraftCame'
  BY <1>6 DEF DraftCame
<1>8. EventsDelivered'
  BY <1>1, <1>3 DEF Inv, EventsDelivered
<1>9. RowFits'
  BY <1>2, <1>7 DEF Inv, RowFits
<1>10. ASSUME NEW p \in Runs PROVE RunFits(p)'
  <2>1. RunFits(p) /\ p[1] \in Jobs
    BY Known
  <2>2. EventOf(p) = "draft" => EventOf(p)' = "draft"
    BY <1>6, <2>1 DEF EventOf
  <2> QED
    BY <1>2, <1>7, <2>1, <2>2 DEF RunFits, Owns
<1>11. (AttemptsOverlap /\ FirstAttemptsShareNothing)'
  BY <1>2, <1>7 DEF Inv, AttemptsOverlap, FirstAttemptsShareNothing, Owns, Underway
<1>12. (Free => OwnerAlone /\ OwnerFirst /\ OthersAside)'
  BY <1>2 DEF Inv, Free, OwnerAlone, OwnerFirst, OthersAside, Owns
<1> QED
  BY <1>4, <1>8, <1>9, <1>10, <1>11, <1>12 DEF Inv

LEMMA DecideKeeps ==
    ASSUME Inv, Decide
    PROVE  Inv'
<1>1. UNCHANGED <<phase, tries, event, attached, run, happened>>
  BY DEF Decide, queue
<1>2. review' \in Review /\ review' # NoReview /\ RowFits'
  BY <1>1, Writes DEF Decide, Write
<1>3. TypeOK'
  BY <1>1, <1>2 DEF Inv, TypeOK, Queue!TypeOK
<1>4. (DraftCame <=> DraftCame') /\ EventsDelivered'
  BY <1>1 DEF DraftCame, Inv, EventsDelivered
<1>5. \A p \in Runs : RunFits(p)'
  BY <1>1, <1>2, <1>4 DEF Inv, RunFits, Owns, EventOf
<1>6. (AttemptsOverlap /\ FirstAttemptsShareNothing)'
  BY <1>1, <1>4 DEF Inv, AttemptsOverlap, FirstAttemptsShareNothing, Owns, Underway
<1>7. (Free => OwnerAlone /\ OwnerFirst /\ OthersAside)'
  BY <1>1 DEF Inv, Free, OwnerAlone, OwnerFirst, OthersAside, Owns, Decide, Outcome
<1> QED
  BY <1>2, <1>3, <1>4, <1>5, <1>6, <1>7 DEF Inv

LEMMA StutterKeeps ==
    ASSUME Inv, UNCHANGED vars
    PROVE  Inv'
<1>1. TypeOK' /\ RowFits' /\ EventsDelivered' /\ (DraftCame <=> DraftCame')
  BY DEF vars, Inv, TypeOK, Queue!TypeOK, RowFits, EventsDelivered, DraftCame
<1>2. \A p \in Runs : RunFits(p)'
  BY <1>1 DEF vars, Inv, RunFits, Owns, EventOf
<1>3. (AttemptsOverlap /\ FirstAttemptsShareNothing)'
  BY <1>1 DEF vars, Inv, AttemptsOverlap, FirstAttemptsShareNothing, Owns, Underway
<1>4. (Free => OwnerAlone /\ OwnerFirst /\ OthersAside)'
  BY DEF vars, Inv, Free, OwnerAlone, OwnerFirst, OthersAside, Owns
<1> QED
  BY <1>1, <1>2, <1>3, <1>4 DEF Inv

LEMMA Inductive == Spec => []Inv
<1>1. Init => Inv
  BY InitKeeps
<1>2. Inv /\ [Next]_vars => Inv'
  BY RunStepMoves, MovesKeep, DeliverKeeps, DecideKeeps, StutterKeeps DEF Next
<1> QED
  BY <1>1, <1>2, PTL DEF Spec

\* The types, for any number of jobs and attempts.
THEOREM TypeCorrect == Spec => []TypeOK
<1>1. Inv => TypeOK
  BY DEF Inv
<1> QED
  BY <1>1, Inductive, PTL

\* Two runs have the review at once only if their attempts of one job
\* overlap, one is a retry, or a draft event came: the row that
\* get_or_create_review_version creates under its lock, and the compare-and-
\* set of the gate, keep first attempts apart.
THEOREM FirstAttemptsApart == Spec => []FirstAttemptsShareNothing
<1>1. Inv => FirstAttemptsShareNothing
  BY DEF Inv
<1> QED
  BY <1>1, Inductive, PTL

-----------------------------------------------------------------------------
(* A stored outcome is kept *)

\* Only the run that has the review writes it without a comparison, and the
\* gate compares.
LEMMA RunsKeepOutcome ==
    ASSUME Inv, NEW p \in Runs, RunStep(p), Free', review.status \in Outcome
    PROVE  review' = review
<1>1. Free
  BY RunStepMoves DEF Moves, Free
<1>2. ~Owns(p) \/ run[p].pc = "complete"
  BY <1>1, Alone
<1>3. /\ run[p].pc \in {"draft_write", "analyse", "sync", "store"} => Owns(p)
      /\ ~Owns(p) => run[p].pc \in Bystander
  BY <1>1, Alone, Known DEF RunFits
<1>4. "database" \notin happened'
  BY DEF Free
<1>5. CASE Version(p)
  <2>1. review # NoReview
    BY NoReviewTyped DEF Outcome
  <2> QED
    BY <1>4, <1>5, <2>1, Known, Faulty DEF Version
<1>6. CASE DraftWrite(p) \/ Store(p) \/ ExceptStore(p) \/ CallbackStore(p)
  BY <1>2, <1>3, <1>6 DEF DraftWrite, Store, ExceptStore, CallbackStore, At, Bystander
<1>7. CASE Gate(p)
  <2>1. CanResumeDraft(p) \/ CanRetry(p) => run[p].view.status \notin Outcome
    BY DEF CanResumeDraft, CanRetry, Outcome
  <2>2. ~Fault("database")
    BY <1>4, Known, Faulty
  <2> QED
    BY <1>7, <2>1, <2>2 DEF Gate, Unmoved
<1>8. CASE \/ Claim(p) \/ Complete(p) \/ Fail(p) \/ Attach(p) \/ Draft(p) \/ Analyse(p)
           \/ Sync(p) \/ ExceptSync(p) \/ CallbackRead(p) \/ Crash(p)
  BY <1>8 DEF Claim, Complete, Fail, Attach, Draft, Analyse, Sync, ExceptSync,
              CallbackRead, Crash
<1> QED
  BY <1>5, <1>6, <1>7, <1>8 DEF RunStep

\* A stored analysis is replaced only by a decision and a decision by
\* nothing, while the database answers and no run took the review upon
\* itself while another had it; crashes, failed analyses and GitHub errors
\* do not matter.
THEOREM OutcomeKept == Spec => OutcomeIsKept
<1> DEFINE Kept == {"doubled", "database"} \cap happened' = {} =>
                      /\ review.status = "completed" => review' = review
                      /\ review.status = "awaiting_approval" =>
                            review' \in {review, Row("completed", "decision")}
<1>1. Inv /\ [Next]_vars => [Kept]_vars
  <2> SUFFICES ASSUME Inv, [Next]_vars, Free', review.status \in Outcome
               PROVE  \/ review' = review
                      \/ review.status = "awaiting_approval"
                         /\ review' = Row("completed", "decision")
    BY DEF Free, Outcome
  <2>1. CASE \E j \in Jobs : Deliver(j)
    BY <2>1 DEF Deliver
  <2>2. CASE \E p \in Runs : RunStep(p)
    BY <2>2, RunsKeepOutcome
  <2>3. CASE Decide
    BY <2>3 DEF Decide, Write
  <2>4. CASE UNCHANGED vars
    BY <2>4 DEF vars
  <2> QED
    BY <2>1, <2>2, <2>3, <2>4 DEF Next
<1> QED
  BY <1>1, Inductive, PTL DEF Spec, OutcomeIsKept

-----------------------------------------------------------------------------
(* Why a review that waits is taken up again *)

\* The circumstances of ReviewSettles: they end, but never begin again.
Settling ==
    /\ {"database", "overlap"} \cap happened = {}
    /\ "github" \in happened => "crash" \notin happened /\ ~DraftCame

Waits == review.status \in {"pending", "retrying"}

DraftSteps == {"idle", "version", "attach", "draft", "draft_write", "complete", "over"}

\* Of the runs underway each is the latest attempt of its job, and the job is
\* pending unless it is the last attempt and has failed.  A draft event never
\* raises here.
RunOrderly(p) ==
    /\ Underway(p) =>
          /\ tries[p[1]] = p[2]
          /\ \/ phase[p[1]] = "pending"
             \/ phase[p[1]] # "absent" /\ run[p].pc \in {"callback", "callback_store"} /\ Terminal(p)
    /\ run[p].pc \notin {"idle", "version", "over"} => run[p].known /\ review # NoReview
    /\ EventOf(p) = "draft" => run[p].pc \in DraftSteps

\* A run that has the review in hand and will write to it, or will take it
\* up at the gate.  Once GitHub has failed the callback may be the first to
\* write, and then no process has crashed.
Carries(p) ==
    /\ EventOf(p) # "draft"
    /\ \/ run[p].pc = "version" /\ p[2] > 1
       \/ run[p].pc = "attach" /\ Owns(p)
       \/ /\ run[p].pc \in {"attach", "gate"}
          /\ p[2] > 1 /\ run[p].view.status = review.status
       \/ run[p].pc \in {"analyse", "sync", "store", "except_sync", "except_store"}
       \/ run[p].pc \in {"fail", "callback", "callback_store"} /\ "github" \in happened

\* A job that the queue will claim again, as a retry.
Retries(j) ==
    /\ event[j] # "draft" /\ phase[j] = "pending" /\ tries[j] > 0
    /\ \A p \in Runs : p[1] = j => ~Underway(p)

\* Who waits is carried by a run or will be by a retry.
CarriedOn == Waits => (\E p \in Runs : Carries(p)) \/ (\E j \in Jobs : Retries(j))

\* No job ends before there is a row.
RowBeforeEnds == review = NoReview => \A j \in Jobs : phase[j] \in {"absent", "pending"}

SettleInv == Settling => CarriedOn /\ RowBeforeEnds /\ \A p \in Runs : RunOrderly(p)

\* With crashes alone no run raises, and the row has a result or waits.
Calm == happened \subseteq {"crash", "doubled"} /\ ~DraftCame

CalmInv ==
    Calm =>
      /\ review.result \in {"none", "analysis", "unavailable", "decision"}
      /\ review.result = "none" => review = NoReview \/ Waits
      /\ \A p \in Runs : run[p].pc \notin {"except_sync", "except_store", "fail", "callback",
                                           "callback_store"}

\* What a step of a run does to all of this, in circumstances that settle.
Handed(p) == Carries(p) \/ Retries(p[1])

Proceeds(p) ==
    /\ \A j \in Jobs \ {p[1]} : phase'[j] = phase[j] /\ tries'[j] = tries[j]
    /\ phase' = phase \/ review' # NoReview
    /\ RunOrderly(p)'
    /\ \A q \in Runs \ {p} : q[1] = p[1] => ~Underway(q)
    /\ Waits' => Handed(p)' \/ (review'.status = review.status /\ ~Handed(p))

LEMMA SettlingBefore ==
    ASSUME happened \subseteq happened', event' = event, Settling'
    PROVE  Settling
BY DEF Settling, DraftCame

LEMMA ProceedsKeep ==
    ASSUME Inv, SettleInv, NEW p \in Runs, Moves(p), Settling', Proceeds(p)
    PROVE  (CarriedOn /\ RowBeforeEnds /\ \A q \in Runs : RunOrderly(q))'
<1>1. /\ \A q \in Runs : q # p => run'[q] = run[q]
      /\ event' = event /\ happened \subseteq happened'
      /\ review # NoReview => review' # NoReview
  BY DEF Moves
<1>2. CarriedOn /\ RowBeforeEnds /\ \A q \in Runs : RunOrderly(q)
  BY <1>1, SettlingBefore DEF SettleInv
<1>3. RowBeforeEnds'
  BY <1>1, <1>2 DEF Proceeds, RowBeforeEnds
<1>4. ASSUME NEW q \in Runs PROVE RunOrderly(q)'
  <2> SUFFICES ASSUME q # p PROVE RunOrderly(q)'
    BY DEF Proceeds
  <2>1. run'[q] = run[q] /\ RunOrderly(q) /\ q[1] \in Jobs
    BY <1>1, <1>2 DEF Runs
  <2>2. CASE q[1] = p[1]
    <3>1. run'[q].pc \in {"idle", "over"}
      BY <2>1, <2>2 DEF Proceeds, Underway
    <3> QED
      BY <3>1 DEF RunOrderly, Underway, DraftSteps
  <2>3. CASE q[1] # p[1]
    <3>1. phase'[q[1]] = phase[q[1]] /\ tries'[q[1]] = tries[q[1]]
      BY <2>1, <2>3 DEF Proceeds
    <3> QED
      BY <1>1, <2>1, <3>1 DEF RunOrderly, Underway, EventOf
  <2> QED
    BY <2>2, <2>3
<1>5. ASSUME Waits' PROVE (\E r \in Runs : Carries(r)') \/ (\E j \in Jobs : Retries(j)')
  <2>1. CASE Handed(p)'
    <3>1. p[1] \in Jobs
      BY DEF Runs
    <3> QED
      BY <2>1, <3>1 DEF Handed
  <2>2. CASE review'.status = review.status /\ ~Handed(p)
    <3>1. Waits
      BY <1>5, <2>2 DEF Waits
    <3>2. ASSUME NEW r \in Runs, Carries(r) PROVE Carries(r)'
      <4>1. r # p /\ run'[r] = run[r]
        BY <1>1, <2>2, <3>2 DEF Handed
      <4> QED
        BY <1>1, <2>2, <3>2, <4>1 DEF Carries, EventOf, Owns
    <3>3. ASSUME NEW j \in Jobs, Retries(j) PROVE Retries(j)'
      <4>1. j # p[1]
        BY <2>2, <3>3 DEF Handed
      <4>2. phase'[j] = phase[j] /\ tries'[j] = tries[j]
        BY <4>1 DEF Proceeds
      <4> QED
        BY <1>1, <3>3, <4>1, <4>2 DEF Retries, Underway
    <3> QED
      BY <1>2, <3>1, <3>2, <3>3 DEF CarriedOn
  <2> QED
    BY <1>5, <2>1, <2>2 DEF Proceeds
<1> QED
  BY <1>3, <1>4, <1>5 DEF CarriedOn

-----------------------------------------------------------------------------
(* The steps of a run, in circumstances that settle *)

\* No other attempt of the job is underway, and it is not to be claimed.
LEMMA OnlyAttempt ==
    ASSUME Inv, SettleInv, NEW p \in Runs, Underway(p), Moves(p), Settling'
    PROVE  /\ Settling /\ RunOrderly(p)
           /\ \A q \in Runs \ {p} : q[1] = p[1] => ~Underway(q)
           /\ ~Retries(p[1])
           /\ event' = event
           /\ "database" \notin happened' /\ "overlap" \notin happened'
<1>1. Settling /\ event' = event /\ happened \subseteq happened'
  BY SettlingBefore DEF Moves
<1>2. "overlap" \notin happened
  BY <1>1 DEF Settling
<1> QED
  BY <1>1, <1>2 DEF SettleInv, Inv, AttemptsOverlap, Retries, Settling

\* A step that neither touches the queue nor the row.
LEMMA QuietProceeds ==
    ASSUME Inv, SettleInv, NEW p \in Runs, Underway(p), Moves(p), Settling',
           UNCHANGED <<phase, tries, review>>,
           RunOrderly(p)', Waits /\ Carries(p) => Handed(p)'
    PROVE  Proceeds(p)
BY OnlyAttempt DEF Proceeds, Handed, Waits

\* A step that writes a row which does not wait.
LEMMA SettledProceeds ==
    ASSUME Inv, SettleInv, NEW p \in Runs, Underway(p), Moves(p), Settling',
           UNCHANGED <<phase, tries>>,
           RunOrderly(p)', ~Waits'
    PROVE  Proceeds(p)
BY OnlyAttempt DEF Proceeds

LEMMA NoDatabase ==
    ASSUME happened \subseteq Faults \cup {"doubled"}, Settling'
    PROVE  ~Fault("database") /\ ~Fault("overlap")
BY Faulty DEF Settling

LEMMA VersionProceeds ==
    ASSUME Inv, SettleInv, NEW p \in Runs, Moves(p), Settling', Version(p)
    PROVE  Proceeds(p)
<1> DEFINE created == Row(IF EventOf(p) = "draft" THEN "queued" ELSE "pending", "none")
           leftEmpty == EventOf(p) = "draft" /\ review.result = "none"
<1>1. /\ run[p].pc = "version" /\ Underway(p)
      /\ UNCHANGED <<phase, tries, event>>
  BY DEF Version, At, Underway, queue
<1>2. /\ RunOrderly(p) /\ ~Retries(p[1])
      /\ \A q \in Runs \ {p} : q[1] = p[1] => ~Underway(q)
  BY <1>1, OnlyAttempt
<1>3. phase[p[1]] = "pending" /\ tries[p[1]] = p[2]
  BY <1>1, <1>2 DEF RunOrderly
<1>4. run \in [Runs -> RunState]
  BY Known
<1>5. CASE review = NoReview /\ Write(created) /\ Become(p, "attach", TRUE, TRUE, NoReview)
  <2>1. run'[p].pc = "attach" /\ run'[p].known /\ Owns(p)'
    BY <1>4, <1>5, BecomesOwner, NoReviewTyped DEF Steps, Owns
  <2>2. /\ review' # NoReview
        /\ EventOf(p) = "draft" => review'.status = "queued"
    BY <1>5, RowFacts, NoReviewTyped DEF Write
  <2>3. RunOrderly(p)'
    BY <1>1, <1>3, <2>1, <2>2 DEF RunOrderly, DraftSteps
  <2>4. Waits' => Carries(p)'
    BY <1>1, <2>1, <2>2 DEF Waits, Carries, EventOf
  <2> QED
    BY <1>1, <1>2, <2>3, <2>4 DEF Proceeds, Handed
<1>6. CASE review # NoReview /\ ~leftEmpty /\ Become(p, "attach", TRUE, FALSE, review)
           /\ UNCHANGED review
  <2>1. run'[p].pc = "attach" /\ run'[p].known /\ run'[p].view = review
    BY <1>4, <1>6, Known, BecomesReader DEF Steps
  <2>2. RunOrderly(p)'
    BY <1>1, <1>3, <1>6, <2>1 DEF RunOrderly, DraftSteps
  <2>3. Carries(p) => Carries(p)'
    BY <1>1, <1>6, <2>1 DEF Carries, EventOf
  <2> QED
    BY <1>1, <1>6, <2>2, <2>3, QuietProceeds DEF Handed
<1>7. CASE review # NoReview /\ leftEmpty /\ Become(p, "attach", TRUE, TRUE, review)
           /\ UNCHANGED review
  <2>1. run'[p].pc = "attach" /\ run'[p].known
    BY <1>4, <1>7, Known, BecomesOwner DEF Steps
  <2>2. RunOrderly(p)'
    BY <1>1, <1>3, <1>7, <2>1 DEF RunOrderly, DraftSteps
  <2>3. ~Carries(p)
    BY <1>7 DEF Carries
  <2> QED
    BY <1>1, <1>7, <2>2, <2>3, QuietProceeds
<1> QED
  BY <1>5, <1>6, <1>7, Known, NoDatabase DEF Version

LEMMA AttachProceeds ==
    ASSUME Inv, SettleInv, NEW p \in Runs, Moves(p), Settling', Attach(p)
    PROVE  Proceeds(p)
<1> DEFINE next == IF EventOf(p) = "draft" THEN "draft"
                   ELSE IF run[p].owns THEN "analyse" ELSE "gate"
<1>1. run[p].pc = "attach" /\ Underway(p) /\ UNCHANGED <<phase, tries, event, review>>
  BY DEF Attach, At, Underway, queue
<1>2. RunOrderly(p)
  BY <1>1, OnlyAttempt
<1>3. Goto(p, next)
  BY Known, NoDatabase DEF Attach
<1>4. /\ run'[p].pc = next /\ run'[p].known = run[p].known
      /\ run'[p].owns = run[p].owns /\ run'[p].view = run[p].view
  BY <1>3, Known, Goes DEF Steps
<1>5. RunOrderly(p)'
  BY <1>1, <1>2, <1>4 DEF RunOrderly, DraftSteps, EventOf, Underway
<1>6. Carries(p) => Carries(p)'
  BY <1>1, <1>4 DEF Carries, EventOf, Owns
<1> QED
  BY <1>1, <1>5, <1>6, QuietProceeds DEF Handed

LEMMA DraftProceeds ==
    ASSUME Inv, SettleInv, NEW p \in Runs, Moves(p), Settling', Draft(p)
    PROVE  Proceeds(p)
<1>1. run[p].pc = "draft" /\ Underway(p) /\ UNCHANGED <<phase, tries, event, review>>
  BY DEF Draft, At, Underway, queue
<1>2. RunOrderly(p)
  BY <1>1, OnlyAttempt
<1>3. DraftCame'
  BY <1>1, Known DEF RunFits, EventOf, DraftCame
<1>4. ~Fault("github")
  BY <1>3, Known, Faulty DEF Settling
<1>5. run'[p].pc \in {"draft_write", "complete"} /\ (run[p].known => run'[p].known)
  BY <1>4, Known, Goes, Returns DEF Draft, Steps
<1>6. RunOrderly(p)'
  BY <1>1, <1>2, <1>5 DEF RunOrderly, DraftSteps, Underway
<1>7. ~Carries(p)
  BY <1>1 DEF Carries
<1> QED
  BY <1>1, <1>6, <1>7, QuietProceeds

LEMMA DraftWriteProceeds ==
    ASSUME Inv, SettleInv, NEW p \in Runs, Moves(p), Settling', DraftWrite(p)
    PROVE  Proceeds(p)
<1>1. run[p].pc = "draft_write" /\ Underway(p) /\ UNCHANGED <<phase, tries, event>>
  BY DEF DraftWrite, At, Underway, queue
<1>2. RunOrderly(p)
  BY <1>1, OnlyAttempt
<1>3. Write(Row("queued", "queued")) /\ Return(p)
  BY Known, NoDatabase DEF DraftWrite
<1>4. run'[p].pc = "complete" /\ run'[p].known
  BY <1>3, Known, Returns
<1>5. review' # NoReview /\ ~Waits'
  BY <1>3, RowFacts, NoReviewTyped DEF Write, Waits
<1>6. RunOrderly(p)'
  BY <1>1, <1>2, <1>4, <1>5 DEF RunOrderly, DraftSteps
<1> QED
  BY <1>1, <1>5, <1>6, SettledProceeds

LEMMA GateProceeds ==
    ASSUME Inv, SettleInv, NEW p \in Runs, Moves(p), Settling', Gate(p)
    PROVE  Proceeds(p)
<1> DEFINE may   == CanResumeDraft(p) \/ CanRetry(p)
           taken == Row("pending", review.result)
<1>1. run[p].pc = "gate" /\ Underway(p) /\ UNCHANGED <<phase, tries, event>>
  BY DEF Gate, At, Underway, queue
<1>2. /\ RunOrderly(p) /\ ~Retries(p[1])
      /\ \A q \in Runs \ {p} : q[1] = p[1] => ~Underway(q)
  BY <1>1, OnlyAttempt
<1>3. phase[p[1]] = "pending" /\ tries[p[1]] = p[2] /\ EventOf(p) # "draft" /\ review # NoReview
  BY <1>1, <1>2 DEF RunOrderly, DraftSteps
<1>4. CASE ~(may /\ Unmoved(p)) /\ Return(p) /\ UNCHANGED review
  <2>1. run'[p].pc = "complete" /\ run'[p].known
    BY <1>4, Known, Returns
  <2>2. RunOrderly(p)'
    BY <1>1, <1>3, <1>4, <2>1 DEF RunOrderly, EventOf
  <2>3. ~(Waits /\ Carries(p))
    BY <1>1, <1>4 DEF Waits, Carries, CanRetry, Unmoved
  <2> QED
    BY <1>1, <1>4, <2>2, <2>3, QuietProceeds
<1>5. CASE may /\ Unmoved(p) /\ Write(taken) /\ Become(p, "analyse", TRUE, TRUE, taken)
  <2>1. taken \in Review /\ taken.status = "pending"
    BY Known, RowTyped, RowFacts DEF Review
  <2>2. run'[p].pc = "analyse" /\ run'[p].known /\ review' # NoReview
    BY <1>5, <2>1, Known, BecomesOwner, NoReviewTyped DEF Steps, Write
  <2>3. RunOrderly(p)'
    BY <1>1, <1>3, <2>2 DEF RunOrderly, EventOf
  <2>4. Carries(p)'
    BY <1>1, <1>3, <2>2 DEF Carries, EventOf
  <2> QED
    BY <1>1, <1>2, <2>3, <2>4 DEF Proceeds, Handed
<1> QED
  BY <1>4, <1>5, Known, NoDatabase DEF Gate

\* What a run does between the gate and the callback without writing.
LEMMA WorkProceeds ==
    ASSUME Inv, SettleInv, NEW p \in Runs, Moves(p), Settling',
           Analyse(p) \/ Sync(p) \/ ExceptSync(p)
    PROVE  Proceeds(p)
<1>1. /\ run[p].pc \in {"analyse", "sync", "except_sync"} /\ Underway(p)
      /\ UNCHANGED <<phase, tries, event, review>>
  BY DEF Analyse, Sync, ExceptSync, At, Underway, queue
<1>2. RunOrderly(p)
  BY <1>1, OnlyAttempt
<1>3. run[p].known /\ run \in [Runs -> RunState]
  BY <1>1, <1>2, Known DEF RunOrderly
<1>4. /\ run'[p].known
      /\ run'[p].pc \in {"sync", "store", "except_sync", "except_store", "fail"}
      /\ run'[p].pc = "fail" => "github" \in happened'
  <2>1. CASE Analyse(p)
    <3>1. ASSUME NEW new \in Analysed, Become(p, "sync", TRUE, TRUE, new)
          PROVE  run'[p].pc = "sync" /\ run'[p].known
      <4>1. new \in Review
        BY RowTyped DEF Analysed
      <4> QED
        BY <1>3, <3>1, <4>1, BecomesOwner DEF Steps
    <3>2. Raise(p) => run'[p].pc = "except_sync" /\ run'[p].known
      BY <1>3, Raises
    <3> QED
      BY <2>1, <3>1, <3>2 DEF Analyse, Analysed
  <2>2. CASE Sync(p)
    BY <1>3, <2>2, Goes, Raises DEF Sync, Steps
  <2>3. CASE ExceptSync(p)
    BY <1>3, <2>3, Known, Faulty, Goes DEF ExceptSync, Steps
  <2> QED
    BY <2>1, <2>2, <2>3
<1>5. RunOrderly(p)'
  BY <1>1, <1>2, <1>4 DEF RunOrderly, DraftSteps, EventOf, Underway
<1>6. Carries(p) => Carries(p)'
  BY <1>1, <1>4 DEF Carries, EventOf
<1> QED
  BY <1>1, <1>5, <1>6, QuietProceeds DEF Handed

LEMMA StoreProceeds ==
    ASSUME Inv, SettleInv, NEW p \in Runs, Moves(p), Settling', Store(p)
    PROVE  Proceeds(p)
<1>1. run[p].pc = "store" /\ Underway(p) /\ UNCHANGED <<phase, tries, event>>
  BY DEF Store, At, Underway, queue
<1>2. RunOrderly(p)
  BY <1>1, OnlyAttempt
<1>3. Write(run[p].view) /\ Return(p)
  BY Known, NoDatabase DEF Store
<1>4. run'[p].pc = "complete" /\ run'[p].known
  BY <1>3, Known, Returns
<1>5. run[p].view \in Analysed
  BY <1>1, Known DEF RunFits
<1>6. review' # NoReview /\ ~Waits'
  BY <1>3, <1>5, RowFacts, NoReviewTyped DEF Write, Waits, Analysed
<1>7. RunOrderly(p)'
  BY <1>1, <1>2, <1>4, <1>6 DEF RunOrderly, DraftSteps, EventOf, Underway
<1> QED
  BY <1>1, <1>6, <1>7, SettledProceeds

LEMMA ExceptStoreProceeds ==
    ASSUME Inv, SettleInv, NEW p \in Runs, Moves(p), Settling', ExceptStore(p)
    PROVE  Proceeds(p)
<1>1. run[p].pc = "except_store" /\ Underway(p) /\ UNCHANGED <<phase, tries, event>>
  BY DEF ExceptStore, At, Underway, queue
<1>2. RunOrderly(p)
  BY <1>1, OnlyAttempt
<1>3. Write(Row("failed", "failure")) /\ Goto(p, "fail")
  BY Known, NoDatabase DEF ExceptStore
<1>4. run'[p].pc = "fail" /\ (run[p].known => run'[p].known)
  BY <1>3, Known, Goes DEF Steps
<1>5. review' # NoReview /\ ~Waits'
  BY <1>3, RowFacts, NoReviewTyped DEF Write, Waits
<1>6. RunOrderly(p)'
  BY <1>1, <1>2, <1>4, <1>5 DEF RunOrderly, DraftSteps, EventOf, Underway
<1> QED
  BY <1>1, <1>5, <1>6, SettledProceeds

LEMMA CompleteProceeds ==
    ASSUME Inv, SettleInv, NEW p \in Runs, Moves(p), Settling', Complete(p)
    PROVE  Proceeds(p)
<1>1. run[p].pc = "complete" /\ Underway(p) /\ UNCHANGED <<event, review>> /\ p[1] \in Jobs
  BY DEF Complete, At, Underway, Runs
<1>2. /\ RunOrderly(p) /\ ~Retries(p[1])
      /\ \A q \in Runs \ {p} : q[1] = p[1] => ~Underway(q)
  BY <1>1, OnlyAttempt
<1>3. run'[p].pc = "over"
  BY Known, Ends DEF Complete
<1>4. \A j \in Jobs \ {p[1]} : phase'[j] = phase[j] /\ tries'[j] = tries[j]
  BY Known DEF Complete, Queue!Succeed, queue, QueueTyped
<1>5. review' # NoReview
  BY <1>1, <1>2 DEF RunOrderly
<1>6. RunOrderly(p)'
  BY <1>3 DEF RunOrderly, DraftSteps, Underway
<1>7. ~Handed(p)
  BY <1>1, <1>2 DEF Handed, Carries
<1> QED
  BY <1>1, <1>2, <1>4, <1>5, <1>6, <1>7 DEF Proceeds

LEMMA FailProceeds ==
    ASSUME Inv, SettleInv, NEW p \in Runs, Moves(p), Settling', Fail(p)
    PROVE  Proceeds(p)
<1>1. run[p].pc = "fail" /\ Underway(p) /\ UNCHANGED <<event, review>> /\ p[1] \in Jobs
  BY DEF Fail, At, Underway, Runs
<1>2. /\ RunOrderly(p) /\ ~Retries(p[1])
      /\ \A q \in Runs \ {p} : q[1] = p[1] => ~Underway(q)
  BY <1>1, OnlyAttempt
<1>3. /\ phase[p[1]] = "pending" /\ tries[p[1]] = p[2] /\ run[p].known /\ review # NoReview
      /\ EventOf(p) # "draft"
  BY <1>1, <1>2 DEF RunOrderly, DraftSteps
<1>4. FailJob(p) /\ Goto(p, "callback") /\ UNCHANGED happened
  BY Known, NoDatabase DEF Fail
<1>5. run'[p].pc = "callback" /\ run'[p].known
  BY <1>3, <1>4, Known, Goes DEF Steps
<1>6. /\ \A j \in Jobs \ {p[1]} : phase'[j] = phase[j] /\ tries'[j] = tries[j]
      /\ tries'[p[1]] = tries[p[1]]
      /\ phase'[p[1]] = "pending" \/ (phase'[p[1]] = "given_up" /\ Terminal(p))
  BY <1>1, <1>3, <1>4, Known DEF FailJob, Queue!GiveUp, queue, QueueTyped
<1>7. RunOrderly(p)'
  BY <1>1, <1>3, <1>5, <1>6 DEF RunOrderly, EventOf, Terminal
<1>8. Carries(p) => Carries(p)'
  BY <1>1, <1>4, <1>5 DEF Carries, EventOf
<1> QED
  BY <1>1, <1>2, <1>3, <1>6, <1>7, <1>8 DEF Proceeds, Handed

LEMMA CallbackReadProceeds ==
    ASSUME Inv, SettleInv, NEW p \in Runs, Moves(p), Settling', CallbackRead(p)
    PROVE  Proceeds(p)
<1>1. run[p].pc = "callback" /\ Underway(p) /\ UNCHANGED <<phase, tries, event, review>>
  BY DEF CallbackRead, At, Underway, queue
<1>2. RunOrderly(p)
  BY <1>1, OnlyAttempt
<1>3. run[p].known
  BY <1>1, <1>2 DEF RunOrderly
<1>4. Become(p, "callback_store", TRUE, run[p].owns, review) /\ UNCHANGED happened
  BY <1>3, Known, NoDatabase DEF CallbackRead
<1>5. run'[p].pc = "callback_store" /\ run'[p].known
  BY <1>4, Known, BecomesSame DEF Steps
<1>6. RunOrderly(p)'
  BY <1>1, <1>2, <1>5 DEF RunOrderly, DraftSteps, EventOf, Underway, Terminal
<1>7. Carries(p) => Carries(p)'
  BY <1>1, <1>4, <1>5 DEF Carries, EventOf
<1> QED
  BY <1>1, <1>6, <1>7, QuietProceeds DEF Handed

LEMMA CallbackStoreProceeds ==
    ASSUME Inv, SettleInv, NEW p \in Runs, Moves(p), Settling', CallbackStore(p)
    PROVE  Proceeds(p)
<1> DEFINE res == IF run[p].view.result = "none" THEN "failure" ELSE run[p].view.result
<1>1. run[p].pc = "callback_store" /\ Underway(p) /\ UNCHANGED <<phase, tries, event>>
  BY DEF CallbackStore, At, Underway, queue
<1>2. /\ RunOrderly(p)
      /\ \A q \in Runs \ {p} : q[1] = p[1] => ~Underway(q)
  BY <1>1, OnlyAttempt
<1>3. review' = Row(FailureStatus(p), res) /\ run'[p].pc = "over"
  BY Known, NoDatabase, Ends DEF CallbackStore, Write
<1> HIDE DEF res
<1>4. review'.status = FailureStatus(p)
  BY <1>3, RowFacts
<1>5. RunOrderly(p)'
  BY <1>3 DEF RunOrderly, DraftSteps, Underway
<1>6. ASSUME Waits' PROVE Retries(p[1])'
  <2>1. ~Terminal(p)
    BY <1>4, <1>6 DEF Waits, FailureStatus
  <2>2. phase[p[1]] = "pending" /\ tries[p[1]] = p[2] /\ EventOf(p) # "draft"
    BY <1>1, <1>2, <2>1 DEF RunOrderly, DraftSteps
  <2>3. \A q \in Runs : q[1] = p[1] => ~Underway(q)'
    BY <1>2, <1>3 DEF Underway, Moves
  <2>4. p[2] > 0
    BY BoundsAreNumbers DEF Runs
  <2> QED
    BY <1>1, <2>2, <2>3, <2>4 DEF Retries, EventOf
<1> QED
  BY <1>1, <1>2, <1>5, <1>6 DEF Proceeds, Handed

LEMMA CrashProceeds ==
    ASSUME Inv, SettleInv, NEW p \in Runs, Moves(p), Settling', Crash(p)
    PROVE  Proceeds(p)
<1>1. Underway(p) /\ UNCHANGED <<phase, tries, event, review>>
  BY DEF Crash, queue
<1>2. /\ RunOrderly(p)
      /\ \A q \in Runs \ {p} : q[1] = p[1] => ~Underway(q)
  BY <1>1, OnlyAttempt
<1>3. run'[p].pc = "over" /\ "crash" \in happened' /\ happened \subseteq happened'
  BY Known, Ends, Faulty DEF Crash
<1>4. RunOrderly(p)'
  BY <1>3 DEF RunOrderly, DraftSteps, Underway
<1>5. "github" \notin happened
  BY <1>3 DEF Settling
<1>6. ASSUME Carries(p) PROVE Retries(p[1])'
  <2>1. phase[p[1]] = "pending" /\ tries[p[1]] = p[2] /\ event[p[1]] # "draft"
    BY <1>1, <1>2, <1>5, <1>6 DEF RunOrderly, Carries, EventOf
  <2>2. \A q \in Runs : q[1] = p[1] => ~Underway(q)'
    BY <1>2, <1>3 DEF Underway, Moves
  <2>3. p[2] > 0
    BY BoundsAreNumbers DEF Runs
  <2> QED
    BY <1>1, <2>1, <2>2, <2>3 DEF Retries
<1> QED
  BY <1>1, <1>4, <1>6, QuietProceeds DEF Handed

LEMMA ClaimProceeds ==
    ASSUME Inv, SettleInv, NEW p \in Runs, Moves(p), Settling', Claim(p)
    PROVE  Proceeds(p)
<1>1. UNCHANGED <<event, review>> /\ p[1] \in Jobs /\ p[2] = tries[p[1]] + 1
  BY DEF Claim, Runs
<1>2. \A q \in Runs : q[1] = p[1] => ~Underway(q)
  BY Known, NoDatabase DEF Claim
<1>3. run'[p].pc = "version"
  BY Known, BecomesClaimed DEF Claim
<1>4. /\ phase' = phase /\ phase[p[1]] = "pending" /\ tries \in [Jobs -> Nat]
      /\ tries' = [tries EXCEPT ![p[1]] = tries[p[1]] + 1]
  BY Known DEF Claim, Queue!Try, QueueTyped
<1>5. /\ \A j \in Jobs \ {p[1]} : phase'[j] = phase[j] /\ tries'[j] = tries[j]
      /\ tries'[p[1]] = p[2]
  BY <1>1, <1>4
<1>6. RunOrderly(p)'
  BY <1>3, <1>4, <1>5 DEF RunOrderly, DraftSteps
<1>7. ~Carries(p)
  BY <1>2 DEF Carries, Underway
<1>8. Retries(p[1]) => Carries(p)'
  BY <1>1, <1>3, <1>4 DEF Retries, Carries, EventOf
<1> QED
  BY <1>1, <1>2, <1>4, <1>5, <1>6, <1>7, <1>8 DEF Proceeds, Handed

LEMMA RunStepProceeds ==
    ASSUME Inv, SettleInv, NEW p \in Runs, RunStep(p), Settling'
    PROVE  Moves(p) /\ Proceeds(p)
<1>1. Moves(p)
  BY RunStepMoves
<1> QED
  BY <1>1, ClaimProceeds, CompleteProceeds, FailProceeds, VersionProceeds, AttachProceeds,
     DraftProceeds, DraftWriteProceeds, GateProceeds, WorkProceeds, StoreProceeds,
     ExceptStoreProceeds, CallbackReadProceeds, CallbackStoreProceeds, CrashProceeds
  DEF RunStep

-----------------------------------------------------------------------------
(* Every review settles *)

LEMMA DeliverSettles ==
    ASSUME Inv, SettleInv, NEW k \in Jobs, Deliver(k)
    PROVE  SettleInv'
<1>1. /\ UNCHANGED <<review, run, happened, tries>>
      /\ phase[k] = "absent" /\ phase' = [phase EXCEPT ![k] = "pending"]
      /\ \E e \in Events : event' = [event EXCEPT ![k] = e]
  BY DEF Deliver, Queue!Submit
<1>2. /\ phase \in [Jobs -> Queue!Phase] /\ event \in [Jobs -> Events \cup {"none"}]
      /\ event[k] = "none"
  BY <1>1 DEF Inv, TypeOK, Queue!TypeOK, EventsDelivered
<1>3. /\ \A j \in Jobs \ {k} : phase'[j] = phase[j] /\ event'[j] = event[j]
      /\ phase'[k] = "pending"
  BY <1>1, <1>2
<1>4. DraftCame => DraftCame'
  BY <1>2, <1>3 DEF DraftCame
<1>5. SUFFICES ASSUME Settling'
               PROVE  (CarriedOn /\ RowBeforeEnds /\ \A p \in Runs : RunOrderly(p))'
  BY DEF SettleInv
<1>6. CarriedOn /\ RowBeforeEnds /\ \A p \in Runs : RunOrderly(p)
  BY <1>1, <1>4, <1>5 DEF SettleInv, Settling
<1>7. RowBeforeEnds'
  BY <1>1, <1>3, <1>6 DEF RowBeforeEnds
<1>8. ASSUME NEW p \in Runs PROVE RunOrderly(p)' /\ (Carries(p) => Carries(p)')
  <2>1. RunOrderly(p) /\ p[1] \in Jobs
    BY <1>6 DEF Runs
  <2>2. CASE p[1] = k
    <3>1. ~Underway(p)
      BY <1>1, <2>1, <2>2 DEF RunOrderly
    <3> QED
      BY <1>1, <3>1 DEF RunOrderly, Carries, Underway, DraftSteps
  <2>3. CASE p[1] # k
    BY <1>1, <1>3, <2>1, <2>3 DEF RunOrderly, Carries, Underway, EventOf, Owns, Terminal
  <2> QED
    BY <2>2, <2>3
<1>9. ASSUME NEW j \in Jobs, Retries(j) PROVE Retries(j)'
  BY <1>1, <1>3, <1>9 DEF Retries, Underway
<1> QED
  BY <1>1, <1>6, <1>7, <1>8, <1>9 DEF CarriedOn, Waits

LEMMA DecideSettles ==
    ASSUME Inv, SettleInv, Decide
    PROVE  SettleInv'
<1>1. /\ UNCHANGED <<phase, tries, event, run, happened>>
      /\ review'.status = "completed"
  BY RowFacts DEF Decide, queue, Write
<1>2. ~Waits' /\ review' # NoReview
  BY <1>1, NoReviewTyped DEF Waits
<1>3. Settling' => Settling
  BY <1>1, SettlingBefore
<1>4. \A p \in Runs : RunOrderly(p) => RunOrderly(p)'
  BY <1>1, <1>2 DEF RunOrderly, Underway, EventOf, Terminal
<1> QED
  BY <1>2, <1>3, <1>4 DEF SettleInv, CarriedOn, RowBeforeEnds

LEMMA InitSettles ==
    ASSUME Init
    PROVE  SettleInv /\ CalmInv
<1>1. \A p \in Runs : run[p].pc = "idle"
  BY DEF Init, Local
<1>2. review = NoReview /\ ~Waits
  BY NoReviewTyped DEF Init, Waits
<1>3. CarriedOn /\ RowBeforeEnds
  BY <1>2 DEF CarriedOn, RowBeforeEnds, Init, Queue!Init
<1>4. \A p \in Runs : RunOrderly(p)
  BY <1>1 DEF RunOrderly, Underway, DraftSteps
<1>5. review.result = "none"
  BY <1>2, RowFacts DEF NoReview
<1> QED
  BY <1>1, <1>2, <1>3, <1>4, <1>5 DEF SettleInv, CalmInv

\* With crashes alone.
LEMMA RunsKeepCalm ==
    ASSUME Inv, CalmInv, NEW p \in Runs, RunStep(p), Calm'
    PROVE  CalmInv'
<1> DEFINE Raised == {"except_sync", "except_store", "fail", "callback", "callback_store"}
<1>1. /\ happened \subseteq happened' /\ event' = event
      /\ \A q \in Runs : q # p => run'[q] = run[q]
  BY RunStepMoves DEF Moves
<1>2. Calm
  BY <1>1 DEF Calm, DraftCame
<1>3. /\ review.result \in {"none", "analysis", "unavailable", "decision"}
      /\ review.result = "none" => review = NoReview \/ Waits
      /\ \A q \in Runs : run[q].pc \notin Raised
  BY <1>2 DEF CalmInv
<1>4. ~Fault("database") /\ ~Fault("github") /\ ~Fault("analysis")
  BY Known, Faulty DEF Calm
<1>5. ~DraftCame /\ EventOf(p) # "draft" /\ run[p].pc \notin {"draft", "draft_write"}
  <2>1. ~DraftCame
    BY <1>2 DEF Calm
  <2>2. EventOf(p) # "draft"
    BY <2>1, Known DEF DraftCame, EventOf
  <2> QED
    BY <2>1, <2>2, Known DEF RunFits
<1>6. run \in [Runs -> RunState]
  BY Known
<1>7. run'[p].pc \notin Raised
  <2>1. CASE Claim(p)
    BY <2>1, Known, BecomesClaimed DEF Claim
  <2>2. CASE Complete(p) \/ Crash(p)
    BY <1>6, <2>2, Ends DEF Complete, Crash
  <2>3. CASE Version(p)
    <3>1. run'[p].pc = "attach"
      BY <1>4, <1>6, <2>3, Known, BecomesOwner, BecomesReader, NoReviewTyped DEF Version, Steps
    <3> QED
      BY <3>1
  <2>4. CASE Attach(p)
    <3>1. \/ Goto(p, "analyse") \/ Goto(p, "gate")
      BY <1>4, <1>5, <2>4 DEF Attach
    <3> QED
      BY <1>6, <3>1, Goes DEF Steps
  <2>5. CASE Gate(p)
    <3>1. Row("pending", review.result) \in Review
      BY Known, RowTyped DEF Review
    <3>2. Return(p) \/ Become(p, "analyse", TRUE, TRUE, Row("pending", review.result))
      BY <1>4, <2>5 DEF Gate
    <3> QED
      BY <1>6, <3>1, <3>2, Returns, BecomesOwner DEF Steps
  <2>6. CASE Analyse(p)
    <3>1. PICK new \in Analysed : Become(p, "sync", TRUE, TRUE, new)
      BY <1>4, <2>6 DEF Analyse, Analysed
    <3>2. new \in Review
      BY RowTyped DEF Analysed
    <3> QED
      BY <1>6, <3>1, <3>2, BecomesOwner DEF Steps
  <2>7. CASE Sync(p) \/ Store(p)
    BY <1>4, <1>6, <2>7, Goes, Returns DEF Sync, Store, Steps
  <2> QED
    BY <1>3, <1>5, <2>1, <2>2, <2>3, <2>4, <2>5, <2>6, <2>7
    DEF RunStep, Fail, Draft, DraftWrite, ExceptSync, ExceptStore, CallbackRead,
        CallbackStore, At
<1>8. /\ review'.result \in {"none", "analysis", "unavailable", "decision"}
      /\ review'.result = "none" => review' = NoReview \/ Waits'
  <2>1. CASE UNCHANGED review
    BY <1>3, <2>1 DEF Waits
  <2>2. CASE Version(p)
    <3>1. UNCHANGED review \/ review' = Row("pending", "none")
      BY <1>4, <1>5, <2>2 DEF Version, Write
    <3> QED
      BY <2>1, <3>1, RowFacts DEF Waits
  <2>3. CASE Gate(p)
    <3>1. UNCHANGED review \/ review' = Row("pending", review.result)
      BY <1>4, <2>3 DEF Gate, Write
    <3> QED
      BY <1>3, <2>1, <3>1, RowFacts DEF Waits
  <2>4. CASE Store(p)
    <3>1. review' = run[p].view /\ run[p].view \in Analysed
      BY <1>4, <2>4, Known DEF Store, Write, At, RunFits
    <3> QED
      BY <3>1, RowFacts DEF Analysed
  <2>5. CASE ~(Version(p) \/ Gate(p) \/ Store(p))
    <3>1. UNCHANGED review
      BY <1>3, <1>5, <2>5
      DEF RunStep, Claim, Complete, Fail, Attach, Draft, DraftWrite, Analyse, Sync,
          ExceptSync, ExceptStore, CallbackRead, CallbackStore, Crash, At
    <3> QED
      BY <2>1, <3>1
  <2> QED
    BY <2>2, <2>3, <2>4, <2>5
<1> QED
  BY <1>1, <1>3, <1>7, <1>8 DEF CalmInv

LEMMA OthersKeepCalm ==
    ASSUME Inv, CalmInv, (\E j \in Jobs : Deliver(j)) \/ Decide \/ UNCHANGED vars
    PROVE  CalmInv'
<1>1. run' = run /\ happened' = happened
  BY DEF Deliver, Decide, vars
<1>2. DraftCame => DraftCame'
  <2>1. ASSUME NEW k \in Jobs, Deliver(k) PROVE DraftCame => DraftCame'
    <3>1. /\ \E e \in Events : event' = [event EXCEPT ![k] = e]
          /\ event \in [Jobs -> Events \cup {"none"}] /\ event[k] = "none"
      BY <2>1 DEF Deliver, Queue!Submit, Inv, TypeOK, EventsDelivered
    <3> QED
      BY <3>1 DEF DraftCame
  <2>2. CASE Decide \/ UNCHANGED vars
    BY <2>2 DEF Decide, vars, DraftCame
  <2> QED
    BY <2>1, <2>2
<1>3. Calm' => Calm
  BY <1>1, <1>2 DEF Calm
<1>4. review' = review \/ review' = Row("completed", "decision")
  BY DEF Deliver, Decide, Write, vars
<1> QED
  BY <1>1, <1>3, <1>4, RowFacts DEF CalmInv, Waits

LEMMA SettleInductive == Spec => [](SettleInv /\ CalmInv)
<1>1. Init => SettleInv /\ CalmInv
  BY InitSettles
<1>2. Inv /\ SettleInv /\ CalmInv /\ [Next]_vars => (SettleInv /\ CalmInv)'
  <2> SUFFICES ASSUME Inv, SettleInv, CalmInv, [Next]_vars
               PROVE  SettleInv' /\ CalmInv'
    OBVIOUS
  <2>1. CASE \E p \in Runs : RunStep(p)
    <3>1. PICK p \in Runs : RunStep(p)
      BY <2>1
    <3>2. SettleInv'
      BY <3>1, RunStepProceeds, ProceedsKeep DEF SettleInv
    <3>3. CalmInv'
      BY <3>1, RunsKeepCalm DEF CalmInv
    <3> QED
      BY <3>2, <3>3
  <2>2. CASE \E j \in Jobs : Deliver(j)
    BY <2>2, DeliverSettles, OthersKeepCalm
  <2>3. CASE Decide
    BY <2>3, DecideSettles, OthersKeepCalm
  <2>4. CASE UNCHANGED vars
    <3>1. SettleInv'
      BY <2>4 DEF vars, SettleInv, Settling, DraftCame, CarriedOn, Waits, RowBeforeEnds,
                  RunOrderly, Carries, Retries, Underway, EventOf, Owns, Terminal
    <3> QED
      BY <2>4, <3>1, OthersKeepCalm
  <2> QED
    BY <2>1, <2>2, <2>3, <2>4 DEF Next
<1> QED
  BY <1>1, <1>2, Inductive, PTL DEF Spec

LEMMA SettledAtRest ==
    ASSUME Inv, SettleInv, AtRest, Settling
    PROVE  review.status \notin {"absent", "pending", "retrying"}
<1>1. CarriedOn /\ RowBeforeEnds
  BY DEF SettleInv
<1>2. \A p \in Runs : ~Carries(p)
  BY DEF AtRest, Underway, Carries
<1>3. \A j \in Jobs : ~Retries(j)
  BY DEF AtRest, Retries
<1>4. review # NoReview
  BY <1>1 DEF AtRest, RowBeforeEnds
<1>5. review.status # "absent"
  BY <1>4 DEF Inv, RowFits
<1> QED
  BY <1>1, <1>2, <1>3, <1>5 DEF CarriedOn, Waits

\* When every job is over no review says it is being worked on or will be
\* retried: whoever makes it say so holds it, or is a job the queue will
\* claim again, and only a status nobody waits for releases them.
THEOREM EveryReviewSettles == Spec => []ReviewSettles
<1>1. Inv /\ SettleInv => ReviewSettles
  BY SettledAtRest DEF ReviewSettles, Settling
<1> QED
  BY <1>1, Inductive, SettleInductive, PTL

\* If processes crash and nothing else fails, every pull request outside a
\* draft ends with its analysis.
THEOREM CrashesAreRecovered == Spec => []CrashesCostNothing
<1>1. Inv /\ SettleInv /\ CalmInv => CrashesCostNothing
  <2> SUFFICES ASSUME Inv, SettleInv, CalmInv, AtRest, Calm
               PROVE  review.result \in {"analysis", "unavailable", "decision"}
    BY DEF CrashesCostNothing, Calm
  <2>1. Settling
    BY DEF Calm, Settling
  <2>2. ~Waits /\ review # NoReview
    BY <2>1, SettledAtRest, NoReviewTyped DEF Waits
  <2> QED
    BY <2>2 DEF CalmInv
<1> QED
  BY <1>1, Inductive, SettleInductive, PTL

=============================================================================
