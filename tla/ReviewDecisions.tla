--------------------------- MODULE ReviewDecisions ---------------------------
(***************************************************************************)
(* The human side of one review: the endpoints of main.py that approve,    *)
(* reject, request changes, publish, rerun and record feedback, all of     *)
(* which write the same row of pr_reviews.  One SQL statement, one call to *)
(* GitHub and one invocation of the review graph is one step; between two  *)
(* steps of a request, steps of others may come, and the process may stop. *)
(*                                                                         *)
(* Every writer but the feedback transaction reads result once and later   *)
(* writes it back as a whole.  The status column is compared by approve,   *)
(* reject and request changes; lock_version is increased by every writer   *)
(* and compared by none, so it has no variable here.                       *)
(***************************************************************************)
EXTENDS Naturals, FiniteSets

CONSTANTS
    Requests,       \* HTTP requests that may arrive
    Kinds,          \* the endpoints they may call, a subset of AllKinds
    Findings,       \* indexes of ranked_findings
    Faults,         \* what may fail, a subset of AllFaults
    Nobody          \* no transaction holds the row

AllKinds == {"approve", "reject", "request_changes", "post_final", "rerun", "feedback"}

AllFaults == {"graph", "github", "database", "crash"}

ASSUME KindsKnown == Kinds \subseteq AllKinds /\ Faults \subseteq AllFaults

ASSUME NobodyIsNoRequest == Nobody \notin Requests

VARIABLES
    status,         \* pr_reviews.status
    result,         \* pr_reviews.result
    holder,         \* the feedback transaction that holds the row lock
    request,        \* the local state of every request
    check,          \* the conclusion GitHub shows in the check run
    comments,       \* final review comments on the pull request
    acked,          \* history: the verdict last acknowledged per finding
    decided,        \* history: the request whose decision was stored last
    failed          \* history: what has failed so far

vars == <<status, result, holder, request, check, comments, acked, decided, failed>>

-----------------------------------------------------------------------------
(* Types *)

Statuses == {"awaiting_approval", "finalizing", "completed"}

\* "agent" is the merge decision of the graph; the other two are human and
\* set merge_decision and human_decision together.
Decisions == {"none", "agent", "reject", "request_changes"}

Verdicts == {"none", "valid", "dismissed"}

Result == [decision : Decisions,
           feedback : [Findings -> Verdicts],
           posted   : {"no", "posted", "failed"}]

Steps == {"new", "resume", "between", "sync", "store", "give_back", "publish", "record",
          "decide", "sync_decision", "post", "mark", "invoke", "store_rerun",
          "update_feedback", "done"}

RequestState ==
    [pc    : Steps,
     kind  : Kinds \cup {"none"},
     out   : Result,                \* the result the request read or will write
     reply : {"none", "ok", "refused", "error"}]

Local(pc, kind, out, reply) == [pc |-> pc, kind |-> kind, out |-> out, reply |-> reply]

TypeOK ==
    /\ status \in Statuses
    /\ result \in Result
    /\ holder \in Requests \cup {Nobody}
    /\ request \in [Requests -> RequestState]
    /\ check \in Decisions
    /\ comments \in Nat
    /\ acked \in [Findings -> Verdicts]
    /\ decided \in Requests \cup {Nobody}
    /\ failed \subseteq Faults

\* An analysed review that waits for a human.
Analysed == [decision |-> "none", feedback |-> [f \in Findings |-> "none"], posted |-> "no"]

Init ==
    /\ status = "awaiting_approval"
    /\ result = Analysed
    /\ holder = Nobody
    /\ request = [r \in Requests |->
                    Local("new", "none", Analysed, "none")]
    /\ check = "none"
    /\ comments = 0
    /\ acked = [f \in Findings |-> "none"]
    /\ decided = Nobody
    /\ failed = {}

-----------------------------------------------------------------------------
(* Steps of a request *)

At(r, pc) == request[r].pc = pc

Goto(r, pc, out) ==
    request' = [request EXCEPT ![r] = Local(pc, @.kind, out, @.reply)]

Reply(r, reply) ==
    request' = [request EXCEPT ![r] = Local("done", @.kind, @.out, reply)]

Enter(r, kind, pc, out) ==
    /\ At(r, "new")
    /\ kind \in Kinds
    /\ request' = [request EXCEPT ![r] = Local(pc, kind, out, "none")]

Refuse(r, kind) ==
    /\ At(r, "new")
    /\ kind \in Kinds
    /\ request' = [request EXCEPT ![r] = Local("done", kind, @.out, "refused")]

Fault(what) == what \in Faults /\ failed' = failed \cup {what}

\* UPDATE waits while a feedback transaction holds the row.
RowFree == holder = Nobody

(***************************************************************************)
(* GitHub takes a call or not, and its answer may be lost either way.      *)
(* github_request_with_retry calls again after a transport error or a 5xx  *)
(* response, so one comment may arrive several times.                      *)
(***************************************************************************)
Retries == 3

CommentPosted ==
    \/ comments' = comments + 1 /\ UNCHANGED failed
    \/ Fault("github") /\ \E taken \in 1 .. Retries : comments' = comments + taken

CommentFailed ==
    Fault("github") /\ \E taken \in 0 .. Retries : comments' = comments + taken

CheckUpdated(conclusion) == check' = conclusion /\ UNCHANGED failed

CheckUncertain(conclusion) == check' \in {check, conclusion} /\ Fault("github")

\* The SQL statements that write the row; those with an expected status write
\* nothing when the status is another by then.
TransitionReviewStatus(expected, new) == status = expected /\ status' = new

UpdateReview(new, res) == status' = new /\ result' = res

UpdateReviewIfStatus(expected, new, res) == status = expected /\ UpdateReview(new, res)

UpdateReviewResult(res) == result' = res

Row == <<status, result>>

World == <<check, comments>>

History == <<acked, decided>>

-----------------------------------------------------------------------------
(* Approve *)

\* Mutant: an approval in progress does not keep a second one out.
ApproveClaimAgain(r) ==
    /\ RowFree
    /\ \/ /\ status \in {"awaiting_approval", "finalizing"}
          /\ Enter(r, "approve", "resume", result)
          /\ status' = "finalizing"
       \/ /\ status = "completed"
          /\ Refuse(r, "approve")
          /\ UNCHANGED status
    /\ UNCHANGED <<result, holder, World, History, failed>>

\* The compare-and-set from awaiting_approval to finalizing returns the row.
ApproveClaim(r) ==
    /\ RowFree
    /\ \/ /\ TransitionReviewStatus("awaiting_approval", "finalizing")
          /\ Enter(r, "approve", "resume", result)
       \/ /\ status # "awaiting_approval"
          /\ Refuse(r, "approve")
          /\ UNCHANGED status
    /\ UNCHANGED <<result, holder, World, History, failed>>

\* The graph runs from its interrupt to the end.  Its state has neither
\* feedback nor final_review_posted; the feedback is taken from the row as
\* the claim returned it.
ApproveResume(r) ==
    /\ At(r, "resume")
    /\ \/ /\ Goto(r, "between", [request[r].out EXCEPT !.decision = "agent", !.posted = "no"])
          /\ UNCHANGED failed
       \/ /\ Fault("graph")
          /\ Goto(r, "give_back", request[r].out)
    /\ UNCHANGED <<Row, holder, World, History>>

\* Reads the previous version outside any handler of exceptions.
ApproveBetween(r) ==
    /\ At(r, "between")
    /\ \/ /\ Goto(r, "sync", request[r].out)
          /\ UNCHANGED failed
       \/ /\ Fault("database")
          /\ Reply(r, "error")
    /\ UNCHANGED <<Row, holder, World, History>>

\* A refusal by GitHub is only logged; a transport error is raised.
ApproveSync(r) ==
    /\ At(r, "sync")
    /\ \/ CheckUpdated("agent") /\ Goto(r, "store", request[r].out)
       \/ CheckUncertain("agent") /\ Goto(r, "store", request[r].out)
       \/ CheckUncertain("agent") /\ Goto(r, "give_back", request[r].out)
    /\ UNCHANGED <<Row, holder, comments, History>>

\* update_review compares nothing.
ApproveStore(r) ==
    /\ At(r, "store")
    /\ RowFree
    /\ \/ /\ UpdateReview("completed", request[r].out)
          /\ decided' = r
          /\ \/ Goto(r, "publish", request[r].out) /\ UNCHANGED failed
             \/ Fault("database") /\ Goto(r, "give_back", request[r].out)
       \/ /\ Fault("database")
          /\ Goto(r, "give_back", request[r].out)
          /\ UNCHANGED <<Row, decided>>
    /\ UNCHANGED <<holder, World, acked>>

\* Mutants: the exception goes on without giving the review back, or the
\* review goes back to the status it had before its analysis.
ApproveKeep(r) ==
    /\ At(r, "give_back")
    /\ RowFree
    /\ Reply(r, "error")
    /\ UNCHANGED <<Row, holder, World, History, failed>>

ApproveGiveBackPending(r) ==
    /\ At(r, "give_back")
    /\ RowFree
    /\ Reply(r, "error")
    /\ TransitionReviewStatus("finalizing", "pending")
    /\ UNCHANGED <<result, holder, World, History, failed>>

\* The compare-and-set back to awaiting_approval; then the exception goes on.
ApproveGiveBack(r) ==
    /\ At(r, "give_back")
    /\ RowFree
    /\ Reply(r, "error")
    /\ \/ TransitionReviewStatus("finalizing", "awaiting_approval") /\ UNCHANGED failed
       \/ status # "finalizing" /\ UNCHANGED <<status, failed>>
       \/ Fault("database") /\ UNCHANGED status
    /\ UNCHANGED <<result, holder, World, History>>

\* Mutant: a failed publication is recorded as posted.
ApprovePublishAnyway(r) ==
    /\ At(r, "publish")
    /\ CommentPosted \/ CommentFailed
    /\ Goto(r, "record", [request[r].out EXCEPT !.posted = "posted"])
    /\ UNCHANGED <<Row, holder, check, History>>

\* A failure to publish is recorded and does not fail the request.
ApprovePublish(r) ==
    /\ At(r, "publish")
    /\ \/ CommentPosted /\ Goto(r, "record", [request[r].out EXCEPT !.posted = "posted"])
       \/ CommentFailed /\ Goto(r, "record", [request[r].out EXCEPT !.posted = "failed"])
    /\ UNCHANGED <<Row, holder, check, History>>

ApproveRecord(r) ==
    /\ At(r, "record")
    /\ RowFree
    /\ \/ UpdateReviewResult(request[r].out) /\ Reply(r, "ok") /\ UNCHANGED failed
       \/ Fault("database") /\ Reply(r, "error") /\ UNCHANGED result
    /\ UNCHANGED <<status, holder, World, History>>

-----------------------------------------------------------------------------
(* Reject and request changes *)

DecideRead(r, kind) ==
    /\ \/ /\ status = "awaiting_approval"
          /\ Enter(r, kind, "decide", [result EXCEPT !.decision = kind])
       \/ /\ status # "awaiting_approval"
          /\ Refuse(r, kind)
    /\ UNCHANGED <<Row, holder, World, History, failed>>

\* Mutant: the decision is stored whatever the status is by now.
DecideStoreBlindly(r) ==
    /\ At(r, "decide")
    /\ RowFree
    /\ UpdateReview("completed", request[r].out)
    /\ decided' = r
    /\ Goto(r, "sync_decision", request[r].out)
    /\ UNCHANGED <<holder, World, acked, failed>>

\* The compare-and-set to completed replaces the result by the one read
\* before, with the decision put in.
DecideStore(r) ==
    /\ At(r, "decide")
    /\ RowFree
    /\ \/ /\ UpdateReviewIfStatus("awaiting_approval", "completed", request[r].out)
          /\ decided' = r
          /\ \/ Goto(r, "sync_decision", request[r].out) /\ UNCHANGED failed
             \/ Fault("database") /\ Reply(r, "error")
       \/ /\ status # "awaiting_approval"
          /\ Reply(r, "refused")
          /\ UNCHANGED <<Row, decided, failed>>
       \/ /\ Fault("database")
          /\ Reply(r, "error")
          /\ UNCHANGED <<Row, decided>>
    /\ UNCHANGED <<holder, World, acked>>

\* Mutant: the check run is synchronised with the result as it was before.
DecideSyncPrevious(r) ==
    /\ At(r, "sync_decision")
    /\ check' = "none"
    /\ Reply(r, "ok")
    /\ UNCHANGED <<Row, holder, comments, History, failed>>

\* The check run follows; the status comment after it cannot fail a request.
DecideSync(r) ==
    /\ At(r, "sync_decision")
    /\ \/ CheckUpdated(request[r].kind) /\ Reply(r, "ok")
       \/ CheckUncertain(request[r].kind) /\ Reply(r, "ok")
       \/ CheckUncertain(request[r].kind) /\ Reply(r, "error")
    /\ UNCHANGED <<Row, holder, comments, History>>

-----------------------------------------------------------------------------
(* Publishing again, rerunning, feedback *)

PostFinalRead(r) ==
    /\ \/ /\ result.posted # "posted"
          /\ Enter(r, "post_final", "post", result)
       \/ /\ result.posted = "posted"
          /\ Refuse(r, "post_final")
    /\ UNCHANGED <<Row, holder, World, History, failed>>

PostFinalComment(r) ==
    /\ At(r, "post")
    /\ \/ CommentPosted /\ Goto(r, "mark", [request[r].out EXCEPT !.posted = "posted"])
       \/ CommentFailed /\ Reply(r, "error")
    /\ UNCHANGED <<Row, holder, check, History>>

PostFinalMark(r) ==
    /\ At(r, "mark")
    /\ RowFree
    /\ \/ UpdateReviewResult(request[r].out) /\ Reply(r, "ok") /\ UNCHANGED failed
       \/ Fault("database") /\ Reply(r, "error") /\ UNCHANGED result
    /\ UNCHANGED <<status, holder, World, History>>

RerunRead(r) ==
    /\ Enter(r, "rerun", "invoke", result)
    /\ UNCHANGED <<Row, holder, World, History, failed>>

\* From a checkpoint before the interrupt the graph stops there again, from
\* a later one it runs to the end.
RerunInvoke(r) ==
    /\ At(r, "invoke")
    /\ \/ /\ \E d \in {"none", "agent"} :
                Goto(r, "store_rerun",
                     [request[r].out EXCEPT !.decision = d, !.posted = "no"])
          /\ UNCHANGED failed
       \/ Fault("graph") /\ Reply(r, "error")
    /\ UNCHANGED <<Row, holder, World, History>>

RerunStore(r) ==
    /\ At(r, "store_rerun")
    /\ RowFree
    /\ \/ /\ UpdateReview("awaiting_approval", request[r].out)
          /\ Reply(r, "ok")
          /\ UNCHANGED failed
       \/ Fault("database") /\ Reply(r, "error") /\ UNCHANGED Row
    /\ UNCHANGED <<holder, World, History>>

\* Mutant: SELECT without FOR UPDATE.
FeedbackRead(r) ==
    /\ Enter(r, "feedback", "update_feedback", result)
    /\ UNCHANGED <<Row, holder, World, History, failed>>

\* SELECT ... FOR UPDATE opens the feedback transaction.
FeedbackLock(r) ==
    /\ RowFree
    /\ Enter(r, "feedback", "update_feedback", result)
    /\ holder' = r
    /\ UNCHANGED <<Row, World, History, failed>>

\* The transaction writes the entry and commits, or rolls back; the reply of
\* a commit may be lost.
FeedbackCommit(r) ==
    /\ At(r, "update_feedback")
    /\ holder' = IF holder = r THEN Nobody ELSE holder
    /\ \/ \E f \in Findings, v \in {"valid", "dismissed"} :
             /\ result' = [request[r].out EXCEPT !.feedback[f] = v]
             /\ \/ /\ acked' = [acked EXCEPT ![f] = v]
                   /\ Reply(r, "ok")
                   /\ UNCHANGED failed
                \/ /\ acked' = [acked EXCEPT ![f] = "none"]
                   /\ Fault("database")
                   /\ Reply(r, "error")
       \/ Fault("database") /\ Reply(r, "error") /\ UNCHANGED <<result, acked>>
    /\ UNCHANGED <<status, World, decided>>

-----------------------------------------------------------------------------
(* The whole *)

InFlight(r) == request[r].pc \notin {"new", "done"}

\* The API process stops: requests vanish and the transaction rolls back.
Crash ==
    /\ \E r \in Requests : InFlight(r)
    /\ Fault("crash")
    /\ request' = [r \in Requests |->
          IF InFlight(r) THEN Local("done", request[r].kind, request[r].out, "error")
          ELSE request[r]]
    /\ holder' = Nobody
    /\ UNCHANGED <<Row, World, History>>

Arrive(r) ==
    \/ ApproveClaim(r) \/ PostFinalRead(r) \/ RerunRead(r) \/ FeedbackLock(r)
    \/ \E kind \in {"reject", "request_changes"} : DecideRead(r, kind)

Continue(r) ==
    \/ ApproveResume(r) \/ ApproveBetween(r) \/ ApproveSync(r) \/ ApproveStore(r)
    \/ ApproveGiveBack(r) \/ ApprovePublish(r) \/ ApproveRecord(r)
    \/ DecideStore(r) \/ DecideSync(r)
    \/ PostFinalComment(r) \/ PostFinalMark(r)
    \/ RerunInvoke(r) \/ RerunStore(r)
    \/ FeedbackCommit(r)

Next == (\E r \in Requests : Arrive(r) \/ Continue(r)) \/ Crash

Spec == Init /\ [][Next]_vars

\* The event loop goes on with every request it has accepted.
FairSpec == Spec /\ \A r \in Requests : WF_vars(Continue(r))

-----------------------------------------------------------------------------
(* Properties *)

Came(kind) == \E r \in Requests : request[r].kind = kind

\* The approval that holds a review in 'finalizing' is alone: no two requests
\* are between the claim and the outcome of an approval, and none is unless
\* the row says finalizing.  A rerun resets the status and is left out.
Approving(r) == request[r].pc \in {"resume", "between", "sync", "store"}

ApprovalIsExclusive ==
    ~Came("rerun") =>
        /\ \A r \in Requests : Approving(r) => status = "finalizing"
        /\ \A q, r \in Requests : Approving(q) /\ Approving(r) => q = r

DecisionIsKept ==
    status = "completed" => status' = "completed" /\ result'.decision = result.decision

\* A decision that was stored stays, and the review stays completed, as far as
\* approvals, rejections, requests for changes and feedback go (README:
\* "Transaction-safe human decisions").  post-final-review may write a result
\* without the decision, a rerun replaces both.
DecidersRespectEachOther ==
    [][~Came("rerun")' /\ ~Came("post_final")' => DecisionIsKept]_vars

\* Feedback that was acknowledged stays in the result (README:
\* "Transaction-safe human decisions and finding feedback").
AckedFeedbackIsKept ==
    \A f \in Findings : acked[f] # "none" => result.feedback[f] = acked[f]

\* The same as far as it holds: feedback requests respect each other.
FeedbackIsSerialised ==
    (\A kind \in AllKinds \ {"feedback"} : ~Came(kind)) => AckedFeedbackIsKept

\* Approvals publish the final review at most once, as long as GitHub answers.
PublishedOnce ==
    "github" \notin failed /\ ~Came("rerun") /\ ~Came("post_final") => comments <= 1

\* The row never claims a publication that did not happen, whatever fails and
\* however approve and post-final overlap.
PublicationIsReal == result.posted = "posted" => comments >= 1

\* When everything is over and the request that decided was answered with ok,
\* the check run shows the decision the row holds, as long as GitHub answers
\* (its refusals are logged and forgotten) and nothing was rerun or published
\* again.
AtRest == \A r \in Requests : ~InFlight(r)

CheckAgrees ==
    /\ AtRest
    /\ decided # Nobody
    /\ request[decided].reply = "ok"
    /\ "github" \notin failed
    /\ ~Came("rerun") /\ ~Came("post_final")
    => check = result.decision

\* An approval leaves 'finalizing' again although the graph or GitHub fails;
\* after a crash or a failure of the database it may not.
FinalizingEnds ==
    status = "finalizing" ~> status # "finalizing" \/ {"database", "crash"} \cap failed # {}

=============================================================================
