----------------------- MODULE ReviewDecisionsProofs -----------------------
(***************************************************************************)
(* Theorems about ReviewDecisions, for any number of requests, findings    *)
(* and failures.                                                           *)
(***************************************************************************)
EXTENDS ReviewDecisions, TLAPS

USE DEF TransitionReviewStatus, UpdateReview, UpdateReviewIfStatus, UpdateReviewResult

-----------------------------------------------------------------------------
(* What the local steps of a request do to request *)

RequestTyped == request \in [Requests -> RequestState]

\* What Goto, Reply, Enter and Refuse have in common: one request is replaced.
Moves(r, pc, kind, out) ==
    /\ request' \in [Requests -> RequestState]
    /\ \A q \in Requests \ {r} : request'[q] = request[q]
    /\ request'[r].pc = pc
    /\ request'[r].kind = kind
    /\ request'[r].out = out

LEMMA GotoMoves ==
  ASSUME RequestTyped, NEW r \in Requests, NEW pc \in Steps, NEW out \in Result,
         Goto(r, pc, out)
  PROVE  Moves(r, pc, request[r].kind, out)
  BY DEF RequestTyped, RequestState, Local, Goto, Moves

LEMMA ReplyMoves ==
  ASSUME RequestTyped, NEW r \in Requests, NEW reply \in {"ok", "refused", "error"},
         Reply(r, reply)
  PROVE  Moves(r, "done", request[r].kind, request[r].out)
  BY DEF RequestTyped, RequestState, Local, Reply, Moves, Steps

LEMMA EnterMoves ==
  ASSUME RequestTyped, NEW r \in Requests, NEW kind, NEW pc \in Steps, NEW out \in Result,
         Enter(r, kind, pc, out)
  PROVE  Moves(r, pc, kind, out) /\ request[r].pc = "new"
  BY DEF RequestTyped, RequestState, Local, Enter, At, Moves

LEMMA RefuseMoves ==
  ASSUME RequestTyped, NEW r \in Requests, NEW kind, Refuse(r, kind)
  PROVE  Moves(r, "done", kind, request[r].out) /\ request[r].pc = "new"
  BY DEF RequestTyped, RequestState, Local, Refuse, At, Moves, Steps

LEMMA CrashMoves ==
  ASSUME RequestTyped, Crash
  PROVE  /\ request' \in [Requests -> RequestState]
         /\ \A q \in Requests :
               request'[q].out = request[q].out /\ request'[q].kind = request[q].kind
         /\ \A q \in Requests : request'[q].pc = "new" => request[q].pc = "new"
         /\ \A q \in Requests : request'[q].pc \in {"new", "done"}
         /\ holder' = Nobody
  BY DEF RequestTyped, RequestState, Local, Crash, InFlight, Steps

LEMMA ResultsWritten ==
  ASSUME NEW res \in Result
  PROVE  /\ \A d \in Decisions : [res EXCEPT !.decision = d] \in Result
         /\ \A p \in {"no", "posted", "failed"} : [res EXCEPT !.posted = p] \in Result
         /\ \A d \in {"none", "agent"} : [res EXCEPT !.decision = d, !.posted = "no"] \in Result
         /\ \A f \in Findings, v \in Verdicts : [res EXCEPT !.feedback[f] = v] \in Result
  <1> USE DEF Result, Decisions, Verdicts
  <1>1. \A d \in Decisions : [res EXCEPT !.decision = d] \in Result
    OBVIOUS
  <1>2. \A p \in {"no", "posted", "failed"} : [res EXCEPT !.posted = p] \in Result
    OBVIOUS
  <1>3. \A d \in {"none", "agent"} : [res EXCEPT !.decision = d, !.posted = "no"] \in Result
    OBVIOUS
  <1>4. \A f \in Findings, v \in Verdicts : [res EXCEPT !.feedback[f] = v] \in Result
    OBVIOUS
  <1>5. QED
    BY <1>1, <1>2, <1>3, <1>4

LEMMA OutTyped ==
  ASSUME RequestTyped, NEW r \in Requests
  PROVE  request[r].out \in Result
  BY DEF RequestTyped, RequestState

-----------------------------------------------------------------------------
(* Type correctness *)

\* A request has no kind before it arrives, and the check run is told the kind
\* of a request that decides, which is a decision: TypeOK needs it to be
\* inductive.
KindsFit ==
    \A r \in Requests :
        /\ request[r].pc = "new" => request[r].kind = "none"
        /\ request[r].pc \in {"decide", "sync_decision"} =>
              request[r].kind \in {"reject", "request_changes"}

Typed == TypeOK /\ KindsFit

\* A step keeps the kinds of the requests that have come.
KindsStay ==
    \A r \in Requests : request[r].kind # "none" => request'[r].kind = request[r].kind

LEMMA StepFits ==
  ASSUME RequestTyped, KindsFit, NEW r \in Requests, NEW pc, NEW kind, NEW out,
         Moves(r, pc, kind, out),
         pc # "new",
         kind = request[r].kind \/ request[r].pc = "new",
         pc \in {"decide", "sync_decision"} => kind \in {"reject", "request_changes"}
  PROVE  /\ request' \in [Requests -> RequestState]
         /\ KindsFit'
         /\ KindsStay
  BY DEF Moves, KindsFit, KindsStay

LEMMA FaultsTyped ==
  ASSUME failed \subseteq Faults,
         NEW what, UNCHANGED failed \/ Fault(what)
  PROVE  failed' \subseteq Faults
  BY DEF Fault

LEMMA CommentsTyped ==
  ASSUME comments \in Nat, failed \subseteq Faults, CommentPosted \/ CommentFailed
  PROVE  comments' \in Nat /\ failed' \subseteq Faults
  BY DEF Fault, CommentPosted, CommentFailed, Retries

LEMMA CheckTyped ==
  ASSUME check \in Decisions, failed \subseteq Faults, NEW d \in Decisions,
         CheckUpdated(d) \/ CheckUncertain(d)
  PROVE  check' \in Decisions /\ failed' \subseteq Faults
  BY DEF Fault, CheckUpdated, CheckUncertain

LEMMA ArriveTyped ==
  ASSUME Typed, NEW r \in Requests, Arrive(r)
  PROVE  Typed' /\ KindsStay
  <1>1. RequestTyped /\ KindsFit /\ result \in Result
    BY DEF Typed, TypeOK, RequestTyped
  <1>2. [result EXCEPT !.decision = "reject"] \in Result
        /\ [result EXCEPT !.decision = "request_changes"] \in Result
    BY <1>1, ResultsWritten DEF Decisions
  <1>3. CASE ApproveClaim(r)
    <2>1. request' \in [Requests -> RequestState] /\ KindsFit' /\ KindsStay
      <3>1. Enter(r, "approve", "resume", result) \/ Refuse(r, "approve")
        BY <1>3 DEF ApproveClaim
      <3>2. QED
        BY <1>1, <3>1, EnterMoves, RefuseMoves, StepFits DEF Steps
    <2>2. status' \in Statuses
      BY <1>3 DEF ApproveClaim, Typed, TypeOK, Statuses
    <2>3. QED
      BY <1>3, <2>1, <2>2 DEF ApproveClaim, Typed, TypeOK, World, History
  <1>4. CASE PostFinalRead(r)
    <2>1. request' \in [Requests -> RequestState] /\ KindsFit' /\ KindsStay
      BY <1>1, <1>4, EnterMoves, RefuseMoves, StepFits DEF PostFinalRead, Steps
    <2>2. QED
      BY <1>4, <2>1 DEF PostFinalRead, Typed, TypeOK, Row, World, History
  <1>5. CASE RerunRead(r)
    <2>1. request' \in [Requests -> RequestState] /\ KindsFit' /\ KindsStay
      BY <1>1, <1>5, EnterMoves, StepFits DEF RerunRead, Steps
    <2>2. QED
      BY <1>5, <2>1 DEF RerunRead, Typed, TypeOK, Row, World, History
  <1>6. CASE FeedbackLock(r)
    <2>1. request' \in [Requests -> RequestState] /\ KindsFit' /\ KindsStay
      BY <1>1, <1>6, EnterMoves, StepFits DEF FeedbackLock, Steps
    <2>2. QED
      BY <1>6, <2>1 DEF FeedbackLock, Typed, TypeOK, Row, World, History
  <1>7. ASSUME NEW kind \in {"reject", "request_changes"}, DecideRead(r, kind)
        PROVE  Typed' /\ KindsStay
    <2>1. request' \in [Requests -> RequestState] /\ KindsFit' /\ KindsStay
      <3>1. \E pc \in {"decide", "done"} : \E out :
                Moves(r, pc, kind, out) /\ request[r].pc = "new"
        BY <1>1, <1>2, <1>7, EnterMoves, RefuseMoves DEF DecideRead, Steps
      <3>2. QED
        BY <1>1, <3>1, StepFits
    <2>2. QED
      BY <1>7, <2>1 DEF DecideRead, Typed, TypeOK, Row, World, History
  <1>8. QED
    BY <1>3, <1>4, <1>5, <1>6, <1>7 DEF Arrive

LEMMA ApproveTyped ==
  ASSUME Typed, NEW r \in Requests,
         \/ ApproveResume(r) \/ ApproveBetween(r) \/ ApproveSync(r) \/ ApproveStore(r)
         \/ ApproveGiveBack(r) \/ ApprovePublish(r) \/ ApproveRecord(r)
  PROVE  Typed' /\ KindsStay
  <1>1. RequestTyped /\ KindsFit /\ request[r].out \in Result
    BY OutTyped DEF Typed, TypeOK, RequestTyped
  <1>2. /\ [request[r].out EXCEPT !.decision = "agent", !.posted = "no"] \in Result
        /\ [request[r].out EXCEPT !.posted = "posted"] \in Result
        /\ [request[r].out EXCEPT !.posted = "failed"] \in Result
    BY <1>1, ResultsWritten
  <1>3. CASE ApproveResume(r)
    <2>1. request' \in [Requests -> RequestState] /\ KindsFit' /\ KindsStay
      BY <1>1, <1>2, <1>3, GotoMoves, StepFits DEF ApproveResume, Steps
    <2>2. failed' \subseteq Faults
      BY <1>3, FaultsTyped DEF ApproveResume, Typed, TypeOK
    <2>3. QED
      BY <1>3, <2>1, <2>2 DEF ApproveResume, Typed, TypeOK, Row, World, History
  <1>4. CASE ApproveBetween(r)
    <2>1. request' \in [Requests -> RequestState] /\ KindsFit' /\ KindsStay
      BY <1>1, <1>4, GotoMoves, ReplyMoves, StepFits DEF ApproveBetween, Steps
    <2>2. failed' \subseteq Faults
      BY <1>4, FaultsTyped DEF ApproveBetween, Typed, TypeOK
    <2>3. QED
      BY <1>4, <2>1, <2>2 DEF ApproveBetween, Typed, TypeOK, Row, World, History
  <1>5. CASE ApproveSync(r)
    <2>1. request' \in [Requests -> RequestState] /\ KindsFit' /\ KindsStay
      BY <1>1, <1>5, GotoMoves, StepFits DEF ApproveSync, Steps
    <2>2. check' \in Decisions /\ failed' \subseteq Faults
      BY <1>5, CheckTyped DEF ApproveSync, Typed, TypeOK, Decisions
    <2>3. QED
      BY <1>5, <2>1, <2>2 DEF ApproveSync, Typed, TypeOK, Row, History
  <1>6. CASE ApproveStore(r)
    <2>1. request' \in [Requests -> RequestState] /\ KindsFit' /\ KindsStay
      BY <1>1, <1>6, GotoMoves, StepFits DEF ApproveStore, Steps
    <2>2. failed' \subseteq Faults
      BY <1>6, FaultsTyped DEF ApproveStore, Typed, TypeOK
    <2>3. /\ status' \in Statuses
          /\ result' \in Result
          /\ decided' \in Requests \cup {Nobody}
      BY <1>1, <1>6 DEF ApproveStore, Typed, TypeOK, Statuses, Row
    <2>4. QED
      BY <1>6, <2>1, <2>2, <2>3 DEF ApproveStore, Typed, TypeOK, World
  <1>7. CASE ApproveGiveBack(r)
    <2>1. request' \in [Requests -> RequestState] /\ KindsFit' /\ KindsStay
      BY <1>1, <1>7, ReplyMoves, StepFits DEF ApproveGiveBack
    <2>2. failed' \subseteq Faults
      BY <1>7, FaultsTyped DEF ApproveGiveBack, Typed, TypeOK
    <2>3. status' \in Statuses
      BY <1>7 DEF ApproveGiveBack, Typed, TypeOK, Statuses
    <2>4. QED
      BY <1>7, <2>1, <2>2, <2>3 DEF ApproveGiveBack, Typed, TypeOK, World, History
  <1>8. CASE ApprovePublish(r)
    <2>1. request' \in [Requests -> RequestState] /\ KindsFit' /\ KindsStay
      BY <1>1, <1>2, <1>8, GotoMoves, StepFits DEF ApprovePublish, Steps
    <2>2. comments' \in Nat /\ failed' \subseteq Faults
      BY <1>8, CommentsTyped DEF ApprovePublish, Typed, TypeOK
    <2>3. QED
      BY <1>8, <2>1, <2>2 DEF ApprovePublish, Typed, TypeOK, Row, History
  <1>9. CASE ApproveRecord(r)
    <2>1. request' \in [Requests -> RequestState] /\ KindsFit' /\ KindsStay
      BY <1>1, <1>9, ReplyMoves, StepFits DEF ApproveRecord
    <2>2. failed' \subseteq Faults
      BY <1>9, FaultsTyped DEF ApproveRecord, Typed, TypeOK
    <2>3. QED
      BY <1>1, <1>9, <2>1, <2>2 DEF ApproveRecord, Typed, TypeOK, World, History
  <1>10. QED
    BY <1>3, <1>4, <1>5, <1>6, <1>7, <1>8, <1>9

LEMMA DecideTyped ==
  ASSUME Typed, NEW r \in Requests, DecideStore(r) \/ DecideSync(r)
  PROVE  Typed' /\ KindsStay
  <1>1. RequestTyped /\ KindsFit /\ request[r].out \in Result
    BY OutTyped DEF Typed, TypeOK, RequestTyped
  <1>2. CASE DecideStore(r)
    <2>1. request' \in [Requests -> RequestState] /\ KindsFit' /\ KindsStay
      BY <1>1, <1>2, GotoMoves, ReplyMoves, StepFits DEF DecideStore, Steps, At, KindsFit
    <2>2. failed' \subseteq Faults
      BY <1>2, FaultsTyped DEF DecideStore, Typed, TypeOK
    <2>3. /\ status' \in Statuses
          /\ result' \in Result
          /\ decided' \in Requests \cup {Nobody}
      BY <1>1, <1>2 DEF DecideStore, Typed, TypeOK, Statuses, Row
    <2>4. QED
      BY <1>2, <2>1, <2>2, <2>3 DEF DecideStore, Typed, TypeOK, World
  <1>3. CASE DecideSync(r)
    <2>1. request' \in [Requests -> RequestState] /\ KindsFit' /\ KindsStay
      BY <1>1, <1>3, ReplyMoves, StepFits DEF DecideSync
    <2>2. request[r].kind \in Decisions
      BY <1>1, <1>3 DEF DecideSync, At, KindsFit, Decisions
    <2>3. check' \in Decisions /\ failed' \subseteq Faults
      BY <1>3, <2>2, CheckTyped DEF DecideSync, Typed, TypeOK
    <2>4. QED
      BY <1>3, <2>1, <2>3 DEF DecideSync, Typed, TypeOK, Row, History
  <1>4. QED
    BY <1>2, <1>3

LEMMA OtherTyped ==
  ASSUME Typed, NEW r \in Requests,
         \/ PostFinalComment(r) \/ PostFinalMark(r)
         \/ RerunInvoke(r) \/ RerunStore(r) \/ FeedbackCommit(r)
  PROVE  Typed' /\ KindsStay
  <1>1. RequestTyped /\ KindsFit /\ request[r].out \in Result
    BY OutTyped DEF Typed, TypeOK, RequestTyped
  <1>2. /\ \A d \in {"none", "agent"} :
             [request[r].out EXCEPT !.decision = d, !.posted = "no"] \in Result
        /\ [request[r].out EXCEPT !.posted = "posted"] \in Result
        /\ \A f \in Findings, v \in Verdicts : [request[r].out EXCEPT !.feedback[f] = v] \in Result
    BY <1>1, ResultsWritten
  <1>3. CASE PostFinalComment(r)
    <2>1. request' \in [Requests -> RequestState] /\ KindsFit' /\ KindsStay
      BY <1>1, <1>2, <1>3, GotoMoves, ReplyMoves, StepFits DEF PostFinalComment, Steps
    <2>2. comments' \in Nat /\ failed' \subseteq Faults
      BY <1>3, CommentsTyped DEF PostFinalComment, Typed, TypeOK
    <2>3. QED
      BY <1>3, <2>1, <2>2 DEF PostFinalComment, Typed, TypeOK, Row, History
  <1>4. CASE PostFinalMark(r)
    <2>1. request' \in [Requests -> RequestState] /\ KindsFit' /\ KindsStay
      BY <1>1, <1>4, ReplyMoves, StepFits DEF PostFinalMark
    <2>2. failed' \subseteq Faults
      BY <1>4, FaultsTyped DEF PostFinalMark, Typed, TypeOK
    <2>3. QED
      BY <1>1, <1>4, <2>1, <2>2 DEF PostFinalMark, Typed, TypeOK, World, History
  <1>5. CASE RerunInvoke(r)
    <2>1. request' \in [Requests -> RequestState] /\ KindsFit' /\ KindsStay
      BY <1>1, <1>2, <1>5, GotoMoves, ReplyMoves, StepFits DEF RerunInvoke, Steps
    <2>2. failed' \subseteq Faults
      BY <1>5, FaultsTyped DEF RerunInvoke, Typed, TypeOK
    <2>3. QED
      BY <1>5, <2>1, <2>2 DEF RerunInvoke, Typed, TypeOK, Row, World, History
  <1>6. CASE RerunStore(r)
    <2>1. request' \in [Requests -> RequestState] /\ KindsFit' /\ KindsStay
      BY <1>1, <1>6, ReplyMoves, StepFits DEF RerunStore
    <2>2. failed' \subseteq Faults
      BY <1>6, FaultsTyped DEF RerunStore, Typed, TypeOK
    <2>3. status' \in Statuses /\ result' \in Result
      BY <1>1, <1>6 DEF RerunStore, Typed, TypeOK, Statuses, Row
    <2>4. QED
      BY <1>6, <2>1, <2>2, <2>3 DEF RerunStore, Typed, TypeOK, World, History
  <1>7. CASE FeedbackCommit(r)
    <2>1. request' \in [Requests -> RequestState] /\ KindsFit' /\ KindsStay
      BY <1>1, <1>7, ReplyMoves, StepFits DEF FeedbackCommit
    <2>2. failed' \subseteq Faults
      BY <1>7, FaultsTyped DEF FeedbackCommit, Typed, TypeOK
    <2>3. /\ result' \in Result
          /\ acked' \in [Findings -> Verdicts]
      BY <1>2, <1>7, ZenonT(40) DEF FeedbackCommit, Typed, TypeOK, Verdicts
    <2>4. holder' \in Requests \cup {Nobody}
      BY <1>7 DEF FeedbackCommit, Typed, TypeOK
    <2>5. QED
      BY <1>7, <2>1, <2>2, <2>3, <2>4 DEF FeedbackCommit, Typed, TypeOK, World
  <1>8. QED
    BY <1>3, <1>4, <1>5, <1>6, <1>7

LEMMA CrashTyped ==
  ASSUME Typed, Crash
  PROVE  Typed' /\ KindsStay
  <1>1. RequestTyped
    BY DEF Typed, TypeOK, RequestTyped
  <1>2. request' \in [Requests -> RequestState] /\ KindsFit' /\ KindsStay
    BY <1>1, CrashMoves DEF Typed, KindsFit, KindsStay
  <1>3. failed' \subseteq Faults
    BY FaultsTyped DEF Crash, Typed, TypeOK
  <1>4. QED
    BY <1>2, <1>3 DEF Crash, Typed, TypeOK, Row, World, History

LEMMA StepTyped ==
  ASSUME Typed, [Next]_vars
  PROVE  Typed' /\ KindsStay
  <1>1. ASSUME NEW r \in Requests, Continue(r)
        PROVE  Typed' /\ KindsStay
    BY <1>1, ApproveTyped, DecideTyped, OtherTyped DEF Continue
  <1>2. CASE UNCHANGED vars
    BY <1>2 DEF vars, Typed, TypeOK, KindsFit, KindsStay
  <1>3. QED
    BY <1>1, <1>2, ArriveTyped, CrashTyped DEF Next

LEMMA InitTyped ==
  ASSUME Init
  PROVE  Typed
  <1>1. Analysed \in Result
    BY DEF Analysed, Result, Decisions, Verdicts
  <1>2. request \in [Requests -> RequestState] /\ KindsFit
    BY <1>1 DEF Init, Local, RequestState, Steps, KindsFit
  <1>3. QED
    BY <1>1, <1>2 DEF Init, Typed, TypeOK, Statuses, Decisions, Verdicts

LEMMA AlwaysTyped == Spec => []Typed
  <1>1. Init => Typed
    BY InitTyped
  <1>2. Typed /\ [Next]_vars => Typed'
    BY StepTyped
  <1>3. QED
    BY <1>1, <1>2, PTL DEF Spec

\* The row, the requests and the history keep their types: every status is one
\* of the three of a finished analysis, and every result written has all parts.
THEOREM TypeCorrect == Spec => []TypeOK
  <1>1. Typed => TypeOK
    BY DEF Typed
  <1>2. QED
    BY <1>1, AlwaysTyped, PTL

-----------------------------------------------------------------------------
(* One approval at a time *)

\* A request that took the row and has not yet given it back or finished.
Holding(r) == Approving(r) \/ request[r].pc = "give_back"

\* Without reruns nobody resets the status.
NoRerunYet == ~Came("rerun")

NoReruns == \A r \in Requests : request[r].pc \notin {"invoke", "store_rerun"}

ClaimIsHeld ==
    /\ \A r \in Requests : Approving(r) => status = "finalizing"
    /\ \A r \in Requests : Holding(r) => status # "awaiting_approval"
    /\ \A q, r \in Requests :
          status = "finalizing" /\ Holding(q) /\ Holding(r) => q = r

ClaimInv == Typed /\ NoReruns /\ ClaimIsHeld

\* A request that takes or leaves no claim, and does not touch the status.
LEMMA ClaimKeptAside ==
  ASSUME ClaimInv, NEW r \in Requests, NEW pc, NEW kind, NEW out, Moves(r, pc, kind, out),
         UNCHANGED status, pc \notin {"invoke", "store_rerun"},
         pc \in {"resume", "between", "sync", "store"} => Approving(r),
         pc = "give_back" => Holding(r)
  PROVE  NoReruns' /\ ClaimIsHeld'
  BY DEF ClaimInv, ClaimIsHeld, NoReruns, Moves, Holding, Approving

LEMMA ClaimKeptByArrivals ==
  ASSUME ClaimInv, NoRerunYet', NEW r \in Requests, Arrive(r)
  PROVE  NoReruns' /\ ClaimIsHeld'
  <1>1. RequestTyped /\ result \in Result
    BY DEF ClaimInv, Typed, TypeOK, RequestTyped
  <1>2. /\ [result EXCEPT !.decision = "reject"] \in Result
        /\ [result EXCEPT !.decision = "request_changes"] \in Result
    BY <1>1, ResultsWritten DEF Decisions
  <1>3. CASE ApproveClaim(r)
    <2>1. CASE status = "awaiting_approval"
      <3>1. Moves(r, "resume", "approve", result) /\ status' = "finalizing"
        BY <1>1, <1>3, <2>1, EnterMoves DEF ApproveClaim, Steps
      <3>2. QED
        BY <2>1, <3>1 DEF ClaimInv, ClaimIsHeld, NoReruns, Moves, Holding, Approving
    <2>2. CASE status # "awaiting_approval"
      <3>1. Moves(r, "done", "approve", request[r].out) /\ UNCHANGED status
        BY <1>1, <1>3, <2>2, RefuseMoves DEF ApproveClaim
      <3>2. QED
        BY <3>1, ClaimKeptAside
    <2>3. QED
      BY <2>1, <2>2
  <1>4. CASE PostFinalRead(r)
    <2>1. \E pc \in {"post", "done"} : \E out : Moves(r, pc, "post_final", out)
      BY <1>1, <1>4, EnterMoves, RefuseMoves DEF PostFinalRead, Steps
    <2>2. QED
      BY <1>4, <2>1, ClaimKeptAside DEF PostFinalRead, Row
  <1>5. ~RerunRead(r)
    <2>1. ASSUME RerunRead(r) PROVE Moves(r, "invoke", "rerun", result)
      BY <1>1, <2>1, EnterMoves DEF RerunRead, Steps
    <2>2. QED
      BY <2>1 DEF NoRerunYet, Came, Moves
  <1>6. CASE FeedbackLock(r)
    <2>1. Moves(r, "update_feedback", "feedback", result)
      BY <1>1, <1>6, EnterMoves DEF FeedbackLock, Steps
    <2>2. QED
      BY <1>6, <2>1, ClaimKeptAside DEF FeedbackLock, Row
  <1>7. ASSUME NEW kind \in {"reject", "request_changes"}, DecideRead(r, kind)
        PROVE  NoReruns' /\ ClaimIsHeld'
    <2>1. \E pc \in {"decide", "done"} : \E out : Moves(r, pc, kind, out)
      BY <1>1, <1>2, <1>7, EnterMoves, RefuseMoves DEF DecideRead, Steps
    <2>2. QED
      BY <1>7, <2>1, ClaimKeptAside DEF DecideRead, Row
  <1>8. QED
    BY <1>3, <1>4, <1>5, <1>6, <1>7 DEF Arrive

LEMMA ClaimKeptByApprovals ==
  ASSUME ClaimInv, NEW r \in Requests,
         \/ ApproveResume(r) \/ ApproveBetween(r) \/ ApproveSync(r) \/ ApproveStore(r)
         \/ ApproveGiveBack(r) \/ ApprovePublish(r) \/ ApproveRecord(r)
  PROVE  NoReruns' /\ ClaimIsHeld'
  <1>1. RequestTyped /\ request[r].out \in Result
    BY OutTyped DEF ClaimInv, Typed, TypeOK, RequestTyped
  <1>2. /\ [request[r].out EXCEPT !.decision = "agent", !.posted = "no"] \in Result
        /\ [request[r].out EXCEPT !.posted = "posted"] \in Result
        /\ [request[r].out EXCEPT !.posted = "failed"] \in Result
    BY <1>1, ResultsWritten
  <1>3. CASE ApproveResume(r)
    <2>1. \E pc \in {"between", "give_back"} : \E out : Moves(r, pc, request[r].kind, out)
      BY <1>1, <1>2, <1>3, GotoMoves DEF ApproveResume, Steps
    <2>2. Approving(r) /\ UNCHANGED status
      BY <1>3 DEF ApproveResume, At, Approving, Row
    <2>3. QED
      BY <2>1, <2>2, ClaimKeptAside DEF Holding
  <1>4. CASE ApproveBetween(r)
    <2>1. \E pc \in {"sync", "done"} : \E out : Moves(r, pc, request[r].kind, out)
      BY <1>1, <1>4, GotoMoves, ReplyMoves DEF ApproveBetween, Steps
    <2>2. Approving(r) /\ UNCHANGED status
      BY <1>4 DEF ApproveBetween, At, Approving, Row
    <2>3. QED
      BY <2>1, <2>2, ClaimKeptAside
  <1>5. CASE ApproveSync(r)
    <2>1. \E pc \in {"store", "give_back"} : \E out : Moves(r, pc, request[r].kind, out)
      BY <1>1, <1>5, GotoMoves DEF ApproveSync, Steps
    <2>2. Approving(r) /\ UNCHANGED status
      BY <1>5 DEF ApproveSync, At, Approving, Row
    <2>3. QED
      BY <2>1, <2>2, ClaimKeptAside DEF Holding
  <1>6. CASE ApproveStore(r)
    <2>1. \E pc \in {"publish", "give_back"} : \E out : Moves(r, pc, request[r].kind, out)
      BY <1>1, <1>6, GotoMoves DEF ApproveStore, Steps
    <2>2. Approving(r) /\ status = "finalizing"
      BY <1>6 DEF ApproveStore, At, Approving, ClaimInv, ClaimIsHeld
    <2>3. CASE status' = "completed"
      BY <2>1, <2>2, <2>3 DEF ClaimInv, ClaimIsHeld, NoReruns, Moves, Holding, Approving
    <2>4. CASE status' # "completed"
      <3>1. UNCHANGED status /\ \E out : Moves(r, "give_back", request[r].kind, out)
        BY <1>1, <1>6, <2>4, GotoMoves DEF ApproveStore, Row, Steps
      <3>2. QED
        BY <2>2, <3>1, ClaimKeptAside DEF Holding
    <2>5. QED
      BY <2>3, <2>4
  <1>7. CASE ApproveGiveBack(r)
    <2>1. Moves(r, "done", request[r].kind, request[r].out)
      BY <1>1, <1>7, ReplyMoves DEF ApproveGiveBack
    <2>2. CASE UNCHANGED status
      BY <2>1, <2>2, ClaimKeptAside
    <2>3. CASE status' # status
      <3>1. status = "finalizing" /\ status' = "awaiting_approval"
        BY <1>7, <2>3 DEF ApproveGiveBack
      <3>2. \A q \in Requests \ {r} : ~Holding(q)
        BY <1>7, <3>1 DEF ApproveGiveBack, At, Holding, ClaimInv, ClaimIsHeld
      <3>3. QED
        BY <2>1, <3>1, <3>2 DEF ClaimInv, ClaimIsHeld, NoReruns, Moves, Holding, Approving
    <2>4. QED
      BY <2>2, <2>3
  <1>8. CASE ApprovePublish(r)
    <2>1. \E out : Moves(r, "record", request[r].kind, out)
      BY <1>1, <1>2, <1>8, GotoMoves DEF ApprovePublish, Steps
    <2>2. QED
      BY <1>8, <2>1, ClaimKeptAside DEF ApprovePublish, Row
  <1>9. CASE ApproveRecord(r)
    <2>1. Moves(r, "done", request[r].kind, request[r].out)
      BY <1>1, <1>9, ReplyMoves DEF ApproveRecord
    <2>2. QED
      BY <1>9, <2>1, ClaimKeptAside DEF ApproveRecord
  <1>10. QED
    BY <1>3, <1>4, <1>5, <1>6, <1>7, <1>8, <1>9

LEMMA ClaimKeptByOthers ==
  ASSUME ClaimInv, NEW r \in Requests,
         \/ DecideStore(r) \/ DecideSync(r) \/ PostFinalComment(r) \/ PostFinalMark(r)
         \/ RerunInvoke(r) \/ RerunStore(r) \/ FeedbackCommit(r)
  PROVE  NoReruns' /\ ClaimIsHeld'
  <1>1. RequestTyped /\ request[r].out \in Result
    BY OutTyped DEF ClaimInv, Typed, TypeOK, RequestTyped
  <1>2. [request[r].out EXCEPT !.posted = "posted"] \in Result
    BY <1>1, ResultsWritten
  <1>3. CASE DecideStore(r)
    <2>1. \E pc \in {"sync_decision", "done"} : \E out : Moves(r, pc, request[r].kind, out)
      BY <1>1, <1>3, GotoMoves, ReplyMoves DEF DecideStore, Steps
    <2>2. CASE UNCHANGED status
      BY <2>1, <2>2, ClaimKeptAside
    <2>3. CASE status' # status
      <3>1. status = "awaiting_approval" /\ status' = "completed"
        BY <1>3, <2>3 DEF DecideStore, Row
      <3>2. QED
        BY <2>1, <3>1 DEF ClaimInv, ClaimIsHeld, NoReruns, Moves, Holding, Approving
    <2>4. QED
      BY <2>2, <2>3
  <1>4. CASE DecideSync(r)
    <2>1. Moves(r, "done", request[r].kind, request[r].out)
      BY <1>1, <1>4, ReplyMoves DEF DecideSync
    <2>2. QED
      BY <1>4, <2>1, ClaimKeptAside DEF DecideSync, Row
  <1>5. CASE PostFinalComment(r)
    <2>1. \E pc \in {"mark", "done"} : \E out : Moves(r, pc, request[r].kind, out)
      BY <1>1, <1>2, <1>5, GotoMoves, ReplyMoves DEF PostFinalComment, Steps
    <2>2. QED
      BY <1>5, <2>1, ClaimKeptAside DEF PostFinalComment, Row
  <1>6. CASE PostFinalMark(r)
    <2>1. Moves(r, "done", request[r].kind, request[r].out)
      BY <1>1, <1>6, ReplyMoves DEF PostFinalMark
    <2>2. QED
      BY <1>6, <2>1, ClaimKeptAside DEF PostFinalMark
  <1>7. ~RerunInvoke(r) /\ ~RerunStore(r)
    BY DEF ClaimInv, NoReruns, RerunInvoke, RerunStore, At
  <1>8. CASE FeedbackCommit(r)
    <2>1. Moves(r, "done", request[r].kind, request[r].out)
      BY <1>1, <1>8, ReplyMoves DEF FeedbackCommit
    <2>2. QED
      BY <1>8, <2>1, ClaimKeptAside DEF FeedbackCommit
  <1>9. QED
    BY <1>3, <1>4, <1>5, <1>6, <1>7, <1>8

LEMMA ClaimInvKept ==
  ASSUME ClaimInv, NoRerunYet', [Next]_vars
  PROVE  ClaimInv'
  <1>1. Typed'
    BY StepTyped DEF ClaimInv
  <1>2. ASSUME NEW r \in Requests, Continue(r)
        PROVE  NoReruns' /\ ClaimIsHeld'
    BY <1>2, ClaimKeptByApprovals, ClaimKeptByOthers DEF Continue
  <1>3. CASE Crash
    <2>1. RequestTyped
      BY DEF ClaimInv, Typed, TypeOK, RequestTyped
    <2>2. QED
      BY <1>1, <1>3, <2>1, CrashMoves
      DEF Crash, Row, ClaimInv, ClaimIsHeld, NoReruns, Holding, Approving
  <1>4. CASE UNCHANGED vars
    BY <1>1, <1>4 DEF vars, ClaimInv, ClaimIsHeld, NoReruns, Holding, Approving
  <1>5. QED
    BY <1>1, <1>2, <1>3, <1>4, ClaimKeptByArrivals DEF Next, ClaimInv

\* What came stays, so what is not there yet was never there.
LEMMA CameStays ==
  ASSUME Typed, [Next]_vars, NEW kind \in AllKinds, ~Came(kind)'
  PROVE  ~Came(kind)
  BY StepTyped DEF KindsStay, Came, AllKinds

\* Until a rerun comes, an approval in progress is alone and the row says
\* finalizing, whatever fails, crashes or overlaps.
THEOREM ApprovalIsAlone == Spec => []ApprovalIsExclusive
  <1> DEFINE Inv == Typed /\ (NoRerunYet => ClaimInv)
  <1>1. Init => Inv
    BY InitTyped DEF Init, Local, ClaimInv, ClaimIsHeld, NoReruns, Holding, Approving
  <1>2. Inv /\ [Next]_vars => Inv'
    BY StepTyped, CameStays, ClaimInvKept DEF NoRerunYet, AllKinds
  <1>3. Inv => ApprovalIsExclusive
    BY DEF NoRerunYet, ClaimInv, ClaimIsHeld, ApprovalIsExclusive, Holding
  <1>4. QED
    BY <1>1, <1>2, <1>3, PTL DEF Spec

-----------------------------------------------------------------------------
(* Feedback transactions lock the row; stored decisions are final *)

\* What a feedback transaction read is what the row still holds, because every
\* writer waits for the lock.
FeedbackLocked ==
    \A r \in Requests : request[r].pc = "update_feedback" =>
        holder = r /\ request[r].out = result

\* An approval that publishes or records writes back the decision it stored.
RecordsKeep ==
    \A r \in Requests : request[r].pc \in {"publish", "record"} =>
        status = "completed" /\ request[r].out.decision = result.decision

NoPostFinals == \A r \in Requests : request[r].pc \notin {"post", "mark"}

Guarded == FeedbackLocked /\ RecordsKeep /\ NoPostFinals

FinalInv == ClaimInv /\ Guarded

DecidersOnly == ~Came("rerun") /\ ~Came("post_final")

LEMMA GuardedKept ==
  ASSUME Guarded, NEW r \in Requests, NEW pc, NEW kind, NEW out, Moves(r, pc, kind, out),
         DecisionIsKept,
         UNCHANGED holder,
         UNCHANGED result \/ RowFree,
         pc \notin {"post", "mark", "update_feedback"},
         pc \in {"publish", "record"} => status' = "completed" /\ out.decision = result'.decision
  PROVE  Guarded'
  <1>1. FeedbackLocked'
    BY NobodyIsNoRequest
    DEF NobodyIsNoRequest, Guarded, FeedbackLocked, Moves, RowFree
  <1>2. RecordsKeep'
    BY DEF Guarded, RecordsKeep, Moves, DecisionIsKept
  <1>3. NoPostFinals'
    BY DEF Guarded, NoPostFinals, Moves
  <1>4. QED
    BY <1>1, <1>2, <1>3 DEF Guarded

LEMMA FinalArrivals ==
  ASSUME FinalInv, DecidersOnly', NEW r \in Requests, Arrive(r)
  PROVE  DecisionIsKept /\ Guarded'
  <1>1. RequestTyped /\ result \in Result /\ Guarded
    BY DEF FinalInv, ClaimInv, Typed, TypeOK, RequestTyped
  <1>2. /\ [result EXCEPT !.decision = "reject"] \in Result
        /\ [result EXCEPT !.decision = "request_changes"] \in Result
    BY <1>1, ResultsWritten DEF Decisions
  <1>3. CASE ApproveClaim(r)
    <2>1. \E pc \in {"resume", "done"} : \E out : Moves(r, pc, "approve", out)
      BY <1>1, <1>3, EnterMoves, RefuseMoves DEF ApproveClaim, Steps
    <2>2. DecisionIsKept /\ UNCHANGED <<result, holder>>
      BY <1>3 DEF ApproveClaim, DecisionIsKept
    <2>3. QED
      BY <1>1, <2>1, <2>2, GuardedKept
  <1>4. ~PostFinalRead(r) /\ ~RerunRead(r)
    <2>1. ASSUME PostFinalRead(r) PROVE request'[r].kind = "post_final"
      BY <1>1, <2>1, EnterMoves, RefuseMoves, ZenonT(40) DEF PostFinalRead, Moves, Steps
    <2>2. ASSUME RerunRead(r) PROVE request'[r].kind = "rerun"
      BY <1>1, <2>2, EnterMoves DEF RerunRead, Moves, Steps
    <2>3. QED
      BY <2>1, <2>2 DEF DecidersOnly, Came
  <1>5. CASE FeedbackLock(r)
    <2>1. Moves(r, "update_feedback", "feedback", result)
      BY <1>1, <1>5, EnterMoves DEF FeedbackLock, Steps
    <2>2. FeedbackLocked'
      BY <1>1, <1>5, <2>1, NobodyIsNoRequest
      DEF NobodyIsNoRequest, FeedbackLock, Guarded, FeedbackLocked, Moves, RowFree, Row
    <2>3. QED
      BY <1>1, <1>5, <2>1, <2>2
      DEF FeedbackLock, Row, DecisionIsKept, Guarded, RecordsKeep, NoPostFinals, Moves
  <1>6. ASSUME NEW kind \in {"reject", "request_changes"}, DecideRead(r, kind)
        PROVE  DecisionIsKept /\ Guarded'
    <2>1. \E pc \in {"decide", "done"} : \E out : Moves(r, pc, kind, out)
      BY <1>1, <1>2, <1>6, EnterMoves, RefuseMoves DEF DecideRead, Steps
    <2>2. DecisionIsKept /\ UNCHANGED <<result, holder>>
      BY <1>6 DEF DecideRead, Row, DecisionIsKept
    <2>3. QED
      BY <1>1, <2>1, <2>2, GuardedKept
  <1>7. QED
    BY <1>3, <1>4, <1>5, <1>6 DEF Arrive

LEMMA FinalApprovals ==
  ASSUME FinalInv, NEW r \in Requests,
         \/ ApproveResume(r) \/ ApproveBetween(r) \/ ApproveSync(r) \/ ApproveStore(r)
         \/ ApproveGiveBack(r) \/ ApprovePublish(r) \/ ApproveRecord(r)
  PROVE  DecisionIsKept /\ Guarded'
  <1>1. RequestTyped /\ request[r].out \in Result /\ Guarded
    BY OutTyped DEF FinalInv, ClaimInv, Typed, TypeOK, RequestTyped
  <1>2. /\ [request[r].out EXCEPT !.decision = "agent", !.posted = "no"] \in Result
        /\ \A p \in {"posted", "failed"} :
              /\ [request[r].out EXCEPT !.posted = p] \in Result
              /\ [request[r].out EXCEPT !.posted = p].decision = request[r].out.decision
    BY <1>1, ResultsWritten DEF Result
  <1>3. CASE ApproveResume(r)
    <2>1. \E pc \in {"between", "give_back"} : \E out : Moves(r, pc, request[r].kind, out)
      BY <1>1, <1>2, <1>3, GotoMoves DEF ApproveResume, Steps
    <2>2. DecisionIsKept /\ UNCHANGED <<result, holder>>
      BY <1>3 DEF ApproveResume, Row, DecisionIsKept
    <2>3. QED
      BY <1>1, <2>1, <2>2, GuardedKept
  <1>4. CASE ApproveBetween(r)
    <2>1. \E pc \in {"sync", "done"} : \E out : Moves(r, pc, request[r].kind, out)
      BY <1>1, <1>4, GotoMoves, ReplyMoves DEF ApproveBetween, Steps
    <2>2. DecisionIsKept /\ UNCHANGED <<result, holder>>
      BY <1>4 DEF ApproveBetween, Row, DecisionIsKept
    <2>3. QED
      BY <1>1, <2>1, <2>2, GuardedKept
  <1>5. CASE ApproveSync(r)
    <2>1. \E pc \in {"store", "give_back"} : \E out : Moves(r, pc, request[r].kind, out)
      BY <1>1, <1>5, GotoMoves DEF ApproveSync, Steps
    <2>2. DecisionIsKept /\ UNCHANGED <<result, holder>>
      BY <1>5 DEF ApproveSync, Row, DecisionIsKept
    <2>3. QED
      BY <1>1, <2>1, <2>2, GuardedKept
  <1>6. CASE ApproveStore(r)
    <2>1. status = "finalizing"
      BY <1>6 DEF ApproveStore, At, Approving, FinalInv, ClaimInv, ClaimIsHeld
    <2>2. \/ Moves(r, "give_back", request[r].kind, request[r].out)
          \/ /\ Moves(r, "publish", request[r].kind, request[r].out)
             /\ status' = "completed" /\ result' = request[r].out
      BY <1>1, <1>6, GotoMoves DEF ApproveStore, Steps
    <2>3. DecisionIsKept /\ UNCHANGED holder /\ RowFree
      BY <1>6, <2>1 DEF ApproveStore, DecisionIsKept
    <2>4. QED
      BY <1>1, <2>2, <2>3, GuardedKept
  <1>7. CASE ApproveGiveBack(r)
    <2>1. Moves(r, "done", request[r].kind, request[r].out)
      BY <1>1, <1>7, ReplyMoves DEF ApproveGiveBack
    <2>2. DecisionIsKept /\ UNCHANGED <<result, holder>>
      BY <1>7 DEF ApproveGiveBack, DecisionIsKept
    <2>3. QED
      BY <1>1, <2>1, <2>2, GuardedKept
  <1>8. CASE ApprovePublish(r)
    <2>1. PICK out : /\ Moves(r, "record", request[r].kind, out)
                     /\ out.decision = request[r].out.decision
      BY <1>1, <1>2, <1>8, GotoMoves DEF ApprovePublish, Steps
    <2>2. DecisionIsKept /\ UNCHANGED <<status, result, holder>>
      BY <1>8 DEF ApprovePublish, Row, DecisionIsKept
    <2>3. status = "completed" /\ request[r].out.decision = result.decision
      BY <1>1, <1>8 DEF ApprovePublish, At, Guarded, RecordsKeep
    <2>4. QED
      BY <1>1, <2>1, <2>2, <2>3, GuardedKept
  <1>9. CASE ApproveRecord(r)
    <2>1. Moves(r, "done", request[r].kind, request[r].out)
      BY <1>1, <1>9, ReplyMoves DEF ApproveRecord
    <2>2. request[r].out.decision = result.decision
      BY <1>1, <1>9 DEF ApproveRecord, At, Guarded, RecordsKeep
    <2>3. DecisionIsKept /\ UNCHANGED holder /\ RowFree
      BY <1>9, <2>2 DEF ApproveRecord, DecisionIsKept
    <2>4. QED
      BY <1>1, <2>1, <2>3, GuardedKept
  <1>10. QED
    BY <1>3, <1>4, <1>5, <1>6, <1>7, <1>8, <1>9

LEMMA FinalOthers ==
  ASSUME FinalInv, NEW r \in Requests,
         \/ DecideStore(r) \/ DecideSync(r) \/ PostFinalComment(r) \/ PostFinalMark(r)
         \/ RerunInvoke(r) \/ RerunStore(r) \/ FeedbackCommit(r)
  PROVE  DecisionIsKept /\ Guarded'
  <1>1. RequestTyped /\ request[r].out \in Result /\ Guarded
    BY OutTyped DEF FinalInv, ClaimInv, Typed, TypeOK, RequestTyped
  <1>2. CASE DecideStore(r)
    <2>1. \E pc \in {"sync_decision", "done"} : \E out : Moves(r, pc, request[r].kind, out)
      BY <1>1, <1>2, GotoMoves, ReplyMoves DEF DecideStore, Steps
    <2>2. DecisionIsKept /\ UNCHANGED holder /\ RowFree
      BY <1>2 DEF DecideStore, DecisionIsKept, Row
    <2>3. QED
      BY <1>1, <2>1, <2>2, GuardedKept
  <1>3. CASE DecideSync(r)
    <2>1. Moves(r, "done", request[r].kind, request[r].out)
      BY <1>1, <1>3, ReplyMoves DEF DecideSync
    <2>2. DecisionIsKept /\ UNCHANGED <<result, holder>>
      BY <1>3 DEF DecideSync, Row, DecisionIsKept
    <2>3. QED
      BY <1>1, <2>1, <2>2, GuardedKept
  <1>4. ~PostFinalComment(r) /\ ~PostFinalMark(r)
    BY <1>1 DEF Guarded, NoPostFinals, PostFinalComment, PostFinalMark, At
  <1>5. ~RerunInvoke(r) /\ ~RerunStore(r)
    BY DEF FinalInv, ClaimInv, NoReruns, RerunInvoke, RerunStore, At
  <1>6. CASE FeedbackCommit(r)
    <2>1. Moves(r, "done", request[r].kind, request[r].out)
      BY <1>1, <1>6, ReplyMoves DEF FeedbackCommit
    <2>2. holder = r /\ request[r].out = result
      BY <1>1, <1>6 DEF FeedbackCommit, At, Guarded, FeedbackLocked
    <2>3. /\ \A f \in Findings, v \in Verdicts :
                [result EXCEPT !.feedback[f] = v].decision = result.decision
      BY <1>1, <2>2 DEF Result
    <2>4. result'.decision = result.decision /\ UNCHANGED status
      BY <1>6, <2>2, <2>3 DEF FeedbackCommit, Verdicts
    <2>5. FeedbackLocked'
      BY <1>1, <2>1, <2>2 DEF Guarded, FeedbackLocked, Moves
    <2>6. RecordsKeep' /\ NoPostFinals'
      BY <1>1, <2>1, <2>4 DEF Guarded, RecordsKeep, NoPostFinals, Moves
    <2>7. QED
      BY <2>4, <2>5, <2>6 DEF DecisionIsKept, Guarded
  <1>7. QED
    BY <1>2, <1>3, <1>4, <1>5, <1>6

LEMMA FinalStep ==
  ASSUME FinalInv, DecidersOnly', [Next]_vars
  PROVE  DecisionIsKept /\ Guarded'
  <1>1. ASSUME NEW r \in Requests, Arrive(r)
        PROVE  DecisionIsKept /\ Guarded'
    BY <1>1, FinalArrivals
  <1>2. ASSUME NEW r \in Requests, Continue(r)
        PROVE  DecisionIsKept /\ Guarded'
    BY <1>2, FinalApprovals, FinalOthers DEF Continue
  <1>3. CASE Crash
    <2>1. RequestTyped
      BY DEF FinalInv, ClaimInv, Typed, TypeOK, RequestTyped
    <2>2. QED
      BY <1>3, <2>1, CrashMoves
      DEF Crash, Row, DecisionIsKept, FinalInv, Guarded, FeedbackLocked, RecordsKeep, NoPostFinals
  <1>4. CASE UNCHANGED vars
    BY <1>4 DEF vars, DecisionIsKept, FinalInv, Guarded, FeedbackLocked, RecordsKeep, NoPostFinals
  <1>5. QED
    BY <1>1, <1>2, <1>3, <1>4 DEF Next

\* Until a rerun or a second publication comes, a stored decision stays, and
\* the review stays completed, however approvals, rejections, requests for
\* changes and feedback overlap, fail or are cut off.
THEOREM DecidersRespect == Spec => DecidersRespectEachOther
  <1> DEFINE Inv == Typed /\ (DecidersOnly => FinalInv)
  <1>1. Init => Inv
    BY InitTyped
    DEF Init, Local, FinalInv, ClaimInv, ClaimIsHeld, NoReruns, Holding, Approving,
        Guarded, FeedbackLocked, RecordsKeep, NoPostFinals
  <1>2. ASSUME Inv, [Next]_vars, DecidersOnly'
        PROVE  DecisionIsKept /\ FinalInv'
    <2>1. FinalInv
      BY <1>2, CameStays DEF DecidersOnly, AllKinds
    <2>2. QED
      BY <1>2, <2>1, ClaimInvKept, FinalStep DEF FinalInv, DecidersOnly, NoRerunYet
  <1>3. Inv /\ [Next]_vars => Inv'
    BY <1>2, StepTyped
  <1>4. Inv /\ [Next]_vars =>
            [~Came("rerun")' /\ ~Came("post_final")' => DecisionIsKept]_vars
    BY <1>2 DEF DecidersOnly
  <1>5. QED
    BY <1>1, <1>3, <1>4, PTL DEF Spec, DecidersRespectEachOther

-----------------------------------------------------------------------------
(* Feedback transactions among themselves *)

FeedbackOnly == \A r \in Requests : request[r].pc \in {"new", "update_feedback", "done"}

FeedbackAlone == \A kind \in AllKinds \ {"feedback"} : ~Came(kind)

FeedbackInv == Typed /\ FeedbackOnly /\ FeedbackLocked /\ AckedFeedbackIsKept

LEMMA FeedbackInvKept ==
  ASSUME FeedbackInv, FeedbackAlone', [Next]_vars
  PROVE  FeedbackInv'
  <1>1. Typed'
    BY StepTyped DEF FeedbackInv
  <1>2. RequestTyped /\ result \in Result
    BY DEF FeedbackInv, Typed, TypeOK, RequestTyped
  <1>3. ASSUME NEW r \in Requests, FeedbackLock(r)
        PROVE  FeedbackInv'
    <2>1. Moves(r, "update_feedback", "feedback", result) /\ RowFree /\ holder' = r
      BY <1>2, <1>3, EnterMoves DEF FeedbackLock, Steps
    <2>2. UNCHANGED <<result, acked>>
      BY <1>3 DEF FeedbackLock, Row, History
    <2>3. FeedbackLocked'
      BY <2>1, <2>2, NobodyIsNoRequest
      DEF NobodyIsNoRequest, FeedbackInv, FeedbackLocked, Moves, RowFree
    <2>4. FeedbackOnly'
      BY <2>1 DEF FeedbackInv, FeedbackOnly, Moves
    <2>5. QED
      BY <1>1, <2>2, <2>3, <2>4 DEF FeedbackInv, AckedFeedbackIsKept
  <1>4. ASSUME NEW r \in Requests, FeedbackCommit(r)
        PROVE  FeedbackInv'
    <2>1. Moves(r, "done", request[r].kind, request[r].out)
      BY <1>2, <1>4, ReplyMoves DEF FeedbackCommit
    <2>2. holder = r /\ request[r].out = result
      BY <1>4 DEF FeedbackCommit, At, FeedbackInv, FeedbackLocked
    <2>3. FeedbackLocked' /\ FeedbackOnly'
      BY <2>1, <2>2 DEF FeedbackInv, FeedbackLocked, FeedbackOnly, Moves
    <2>4. ASSUME NEW f \in Findings, NEW v \in {"valid", "dismissed"},
                 result' = [result EXCEPT !.feedback[f] = v],
                 acked' \in {[acked EXCEPT ![f] = v], [acked EXCEPT ![f] = "none"]}
          PROVE  AckedFeedbackIsKept'
      BY <2>4 DEF FeedbackInv, AckedFeedbackIsKept, Typed, TypeOK, Result
    <2>5. ASSUME UNCHANGED <<result, acked>>
          PROVE  AckedFeedbackIsKept'
      BY <2>5 DEF FeedbackInv, AckedFeedbackIsKept
    <2>6. AckedFeedbackIsKept'
      BY <1>4, <2>2, <2>4, <2>5 DEF FeedbackCommit
    <2>7. QED
      BY <1>1, <2>3, <2>6 DEF FeedbackInv
  <1>5. ASSUME NEW r \in Requests, Arrive(r), ~FeedbackLock(r)
        PROVE  FALSE
    <2>1. ASSUME NEW kind \in AllKinds \ {"feedback"}, NEW pc, NEW out, Enter(r, kind, pc, out)
          PROVE  FALSE
      BY <1>2, <2>1 DEF Enter, Local, RequestTyped, FeedbackAlone, Came
    <2>2. ASSUME NEW kind \in AllKinds \ {"feedback"}, Refuse(r, kind)
          PROVE  FALSE
      BY <1>2, <2>2 DEF Refuse, Local, RequestTyped, FeedbackAlone, Came
    <2>3. QED
      BY <1>5, <2>1, <2>2
      DEF Arrive, ApproveClaim, PostFinalRead, RerunRead, DecideRead, AllKinds
  <1>6. ASSUME NEW r \in Requests, Continue(r), ~FeedbackCommit(r)
        PROVE  FALSE
    BY <1>6
    DEF Continue, FeedbackInv, FeedbackOnly, At, ApproveResume, ApproveBetween, ApproveSync,
        ApproveStore, ApproveGiveBack, ApprovePublish, ApproveRecord, DecideStore, DecideSync,
        PostFinalComment, PostFinalMark, RerunInvoke, RerunStore
  <1>7. CASE Crash
    <2>1. \A q \in Requests : request'[q].pc \in {"new", "done"}
      BY <1>2, <1>7, CrashMoves
    <2>2. UNCHANGED <<result, acked>>
      BY <1>7 DEF Crash, Row, History
    <2>3. QED
      BY <1>1, <2>1, <2>2 DEF FeedbackInv, FeedbackOnly, FeedbackLocked, AckedFeedbackIsKept
  <1>8. CASE UNCHANGED vars
    BY <1>1, <1>8 DEF vars, FeedbackInv, FeedbackOnly, FeedbackLocked, AckedFeedbackIsKept
  <1>9. QED
    BY <1>3, <1>4, <1>5, <1>6, <1>7, <1>8 DEF Next

\* Among feedback requests the row lock is enough: until a request of another
\* kind comes, no acknowledged verdict is lost, whatever overlaps, rolls back or
\* loses its reply.
THEOREM FeedbackSerialised == Spec => []FeedbackIsSerialised
  <1> DEFINE Inv == Typed /\ (FeedbackAlone => FeedbackInv)
  <1>1. Init => Inv
    BY InitTyped DEF Init, Local, FeedbackInv, FeedbackOnly, FeedbackLocked, AckedFeedbackIsKept
  <1>2. Inv /\ [Next]_vars => Inv'
    BY StepTyped, CameStays, FeedbackInvKept DEF FeedbackAlone
  <1>3. Inv => FeedbackIsSerialised
    BY DEF FeedbackAlone, FeedbackInv, FeedbackIsSerialised
  <1>4. QED
    BY <1>1, <1>2, <1>3, PTL DEF Spec

-----------------------------------------------------------------------------
(* A publication that is recorded happened *)

\* No result that a request may still write claims a publication too many.
OutIsReal == \A r \in Requests : request[r].out.posted = "posted" => comments >= 1

RealInv == Typed /\ OutIsReal /\ PublicationIsReal

\* A request that moves on with a result that is not better published than the
\* comments on GitHub are.
LEMMA RealKept ==
  ASSUME RealInv, NEW r \in Requests, NEW pc, NEW kind, NEW out, Moves(r, pc, kind, out),
         comments' \in Nat, comments' >= comments,
         out.posted = "posted" => comments' >= 1,
         result'.posted = "posted" => result.posted = "posted" \/ request[r].out.posted = "posted"
  PROVE  OutIsReal' /\ PublicationIsReal'
  BY DEF RealInv, Typed, TypeOK, OutIsReal, PublicationIsReal, Moves

LEMMA CommentsGrow ==
  ASSUME comments \in Nat, CommentPosted \/ CommentFailed
  PROVE  /\ comments' \in Nat /\ comments' >= comments
         /\ CommentPosted => comments' >= 1
  BY DEF CommentPosted, CommentFailed, Retries

LEMMA RealArrivals ==
  ASSUME RealInv, NEW r \in Requests, Arrive(r)
  PROVE  OutIsReal' /\ PublicationIsReal'
  <1>1. RequestTyped /\ result \in Result /\ comments \in Nat
    BY DEF RealInv, Typed, TypeOK, RequestTyped
  <1>2. \A d \in {"reject", "request_changes"} :
            /\ [result EXCEPT !.decision = d] \in Result
            /\ [result EXCEPT !.decision = d].posted = result.posted
    BY <1>1, ResultsWritten, ZenonT(40) DEF Decisions, Result
  <1>3. UNCHANGED <<result, comments>>
    BY DEF Arrive, ApproveClaim, PostFinalRead, RerunRead, FeedbackLock, DecideRead, Row, World
  <1>4. \E pc, kind, out : /\ Moves(r, pc, kind, out)
                           /\ \/ out.posted = result.posted
                              \/ out = request[r].out
    <2>1. CASE ApproveClaim(r)
      BY <1>1, <2>1, EnterMoves, RefuseMoves DEF ApproveClaim, Steps
    <2>2. CASE PostFinalRead(r)
      BY <1>1, <2>2, EnterMoves, RefuseMoves DEF PostFinalRead, Steps
    <2>3. CASE RerunRead(r)
      BY <1>1, <2>3, EnterMoves DEF RerunRead, Steps
    <2>4. CASE FeedbackLock(r)
      BY <1>1, <2>4, EnterMoves DEF FeedbackLock, Steps
    <2>5. ASSUME NEW kind \in {"reject", "request_changes"}, DecideRead(r, kind)
          PROVE  \E pc, out : /\ Moves(r, pc, kind, out)
                              /\ \/ out.posted = result.posted
                                 \/ out = request[r].out
      BY <1>1, <1>2, <2>5, EnterMoves, RefuseMoves DEF DecideRead, Steps
    <2>6. QED
      BY <2>1, <2>2, <2>3, <2>4, <2>5 DEF Arrive
  <1>5. QED
    BY <1>1, <1>3, <1>4, RealKept DEF RealInv, OutIsReal, PublicationIsReal

LEMMA RealContinues ==
  ASSUME RealInv, NEW r \in Requests, Continue(r)
  PROVE  OutIsReal' /\ PublicationIsReal'
  <1>1. RequestTyped /\ request[r].out \in Result /\ comments \in Nat
    BY OutTyped DEF RealInv, Typed, TypeOK, RequestTyped
  <1>2. /\ \A p \in {"posted", "failed"} :
              /\ [request[r].out EXCEPT !.posted = p] \in Result
              /\ [request[r].out EXCEPT !.posted = p].posted = p
        /\ \A d \in {"none", "agent"} :
              /\ [request[r].out EXCEPT !.decision = d, !.posted = "no"] \in Result
              /\ [request[r].out EXCEPT !.decision = d, !.posted = "no"].posted = "no"
        /\ \A f \in Findings, v \in Verdicts :
              [request[r].out EXCEPT !.feedback[f] = v].posted = request[r].out.posted
    BY <1>1, ResultsWritten DEF Result
  <1>3. request[r].out.posted = "posted" => comments >= 1
    BY DEF RealInv, OutIsReal
  <1>4. CASE ApproveResume(r)
    <2>1. \E pc, out : /\ Moves(r, pc, request[r].kind, out)
                       /\ out = request[r].out \/ out.posted = "no"
      BY <1>1, <1>2, <1>4, GotoMoves DEF ApproveResume, Steps
    <2>2. QED
      BY <1>1, <1>3, <1>4, <2>1, RealKept DEF ApproveResume, Row, World
  <1>5. CASE ApprovePublish(r)
    <2> DEFINE Out(p) == [request[r].out EXCEPT !.posted = p]
    <2>1. Out("posted") \in Result /\ Out("failed") \in Result /\ Out("failed").posted = "failed"
      BY <1>2
    <2>2. \/ CommentPosted /\ Moves(r, "record", request[r].kind, Out("posted"))
          \/ Moves(r, "record", request[r].kind, Out("failed"))
      BY <1>1, <1>5, <2>1, GotoMoves DEF ApprovePublish, Steps
    <2>3. UNCHANGED result /\ comments' \in Nat /\ comments' >= comments
          /\ (CommentPosted => comments' >= 1)
      BY <1>1, <1>5, CommentsGrow DEF ApprovePublish, Row
    <2> HIDE DEF Out
    <2>4. QED
      BY <2>1, <2>2, <2>3, RealKept
  <1>6. CASE PostFinalComment(r)
    <2>1. \E pc, out : /\ Moves(r, pc, request[r].kind, out)
                       /\ out.posted = "posted" =>
                            CommentPosted \/ request[r].out.posted = "posted"
      BY <1>1, <1>2, <1>6, GotoMoves, ReplyMoves DEF PostFinalComment, Steps
    <2>2. UNCHANGED result /\ comments' \in Nat /\ comments' >= comments
          /\ (CommentPosted => comments' >= 1)
      BY <1>1, <1>6, CommentsGrow DEF PostFinalComment, Row
    <2>3. QED
      BY <1>1, <1>3, <2>1, <2>2, RealKept
  <1>7. CASE RerunInvoke(r)
    <2>1. \E pc, out : /\ Moves(r, pc, request[r].kind, out)
                       /\ out = request[r].out \/ out.posted = "no"
      BY <1>1, <1>2, <1>7, GotoMoves, ReplyMoves DEF RerunInvoke, Steps
    <2>2. QED
      BY <1>1, <1>3, <1>7, <2>1, RealKept DEF RerunInvoke, Row, World
  <1>8. CASE FeedbackCommit(r)
    <2>1. Moves(r, "done", request[r].kind, request[r].out)
      BY <1>1, <1>8, ReplyMoves DEF FeedbackCommit
    <2>2. UNCHANGED comments
          /\ (result'.posted = "posted" =>
                result.posted = "posted" \/ request[r].out.posted = "posted")
      BY <1>2, <1>8 DEF FeedbackCommit, World, Verdicts
    <2>3. QED
      BY <1>1, <1>3, <2>1, <2>2, RealKept
  <1>9. CASE \/ ApproveBetween(r) \/ ApproveSync(r) \/ ApproveStore(r) \/ ApproveGiveBack(r)
             \/ ApproveRecord(r) \/ DecideStore(r) \/ DecideSync(r)
             \/ PostFinalMark(r) \/ RerunStore(r)
    <2>1. \E pc : Moves(r, pc, request[r].kind, request[r].out)
      BY <1>1, <1>9, GotoMoves, ReplyMoves
      DEF ApproveBetween, ApproveSync, ApproveStore, ApproveGiveBack, ApproveRecord,
          DecideStore, DecideSync, PostFinalMark, RerunStore, Steps
    <2>2. UNCHANGED comments /\ result' \in {result, request[r].out}
      BY <1>9
      DEF ApproveBetween, ApproveSync, ApproveStore, ApproveGiveBack, ApproveRecord,
          DecideStore, DecideSync, PostFinalMark, RerunStore, Row, World
    <2>3. QED
      BY <1>1, <1>3, <2>1, <2>2, RealKept
  <1>10. QED
    BY <1>4, <1>5, <1>6, <1>7, <1>8, <1>9 DEF Continue

\* The row claims a publication only after a comment reached GitHub, for all
\* endpoints together and whatever fails.
THEOREM PublicationReal == Spec => []PublicationIsReal
  <1>1. Init => RealInv
    BY InitTyped DEF Init, Local, Analysed, RealInv, OutIsReal, PublicationIsReal
  <1>2. ASSUME RealInv, [Next]_vars
        PROVE  RealInv'
    <2>1. Typed'
      BY <1>2, StepTyped DEF RealInv
    <2>2. CASE Crash
      <3>1. \A q \in Requests : request'[q].out = request[q].out
        BY <1>2, <2>2, CrashMoves DEF RealInv, Typed, TypeOK, RequestTyped
      <3>2. QED
        BY <1>2, <2>1, <2>2, <3>1 DEF Crash, Row, World, RealInv, OutIsReal, PublicationIsReal
    <2>3. CASE UNCHANGED vars
      BY <1>2, <2>1, <2>3 DEF vars, RealInv, OutIsReal, PublicationIsReal
    <2>4. QED
      BY <1>2, <2>1, <2>2, <2>3, RealArrivals, RealContinues DEF Next, RealInv
  <1>3. RealInv => PublicationIsReal
    BY DEF RealInv
  <1>4. QED
    BY <1>1, <1>2, <1>3, PTL DEF Spec

-----------------------------------------------------------------------------
(* One publication, and a check run that agrees, while GitHub answers *)

Answering == DecidersOnly /\ "github" \notin failed

Publishing(r) == request[r].pc = "publish"

\* Only the request that completed the review publishes, and it has not yet.
PublishersAreNew ==
    /\ comments <= 1
    /\ status # "completed" => comments = 0
    /\ \A r \in Requests : Publishing(r) => comments = 0
    /\ \A q, r \in Requests : Publishing(q) /\ Publishing(r) => q = r

\* What a request that is about to decide carries, and what the check run
\* shows when an approval is about to be stored.
Carried ==
    \A r \in Requests :
        /\ request[r].pc \in {"between", "sync", "store"} => request[r].out.decision = "agent"
        /\ request[r].pc = "store" => check = "agent"
        /\ request[r].pc = "decide" => request[r].out.decision = request[r].kind
        /\ request[r].pc = "sync_decision" =>
              decided = r /\ status = "completed" /\ result.decision = request[r].kind

\* The check run agrees, or the request that decided has yet to tell GitHub,
\* or will not be answered with ok.
Told ==
    decided # Nobody =>
        /\ status = "completed"
        /\ \/ check = result.decision
           \/ request[decided].pc = "sync_decision"
           \/ request[decided].pc = "done" /\ request[decided].reply = "error"

Answered == PublishersAreNew /\ Carried /\ Told

AnswerInv == FinalInv /\ Answered

\* A step that neither decides nor publishes nor touches the check run.
LEMMA AnsweredAside ==
  ASSUME AnswerInv, NEW r \in Requests, NEW pc, NEW kind, NEW out, Moves(r, pc, kind, out),
         DecisionIsKept, UNCHANGED <<comments, check, decided>>,
         status' = "completed" <=> status = "completed",
         request[r].pc \notin {"sync_decision", "done"},
         pc \notin {"publish", "sync_decision"},
         pc \in {"between", "sync", "store"} => out.decision = "agent",
         pc = "store" => check = "agent",
         pc = "decide" => out.decision = kind
  PROVE  Answered'
  <1>1. decided # Nobody => decided \in Requests
    BY DEF AnswerInv, FinalInv, ClaimInv, Typed, TypeOK
  <1>2. PublishersAreNew'
    BY DEF AnswerInv, Answered, PublishersAreNew, Publishing, Moves
  <1>3. Carried'
    BY DEF AnswerInv, Answered, Carried, Moves, DecisionIsKept
  <1>4. Told'
    BY <1>1 DEF AnswerInv, Answered, Told, Moves, DecisionIsKept
  <1>5. QED
    BY <1>2, <1>3, <1>4 DEF Answered

LEMMA AnsweredArrivals ==
  ASSUME AnswerInv, DecidersOnly', DecisionIsKept, NEW r \in Requests, Arrive(r)
  PROVE  Answered'
  <1>1. RequestTyped /\ result \in Result
    BY DEF AnswerInv, FinalInv, ClaimInv, Typed, TypeOK, RequestTyped
  <1>2. \A d \in {"reject", "request_changes"} :
            [result EXCEPT !.decision = d] \in Result /\ [result EXCEPT !.decision = d].decision = d
    BY <1>1, ResultsWritten, ZenonT(40) DEF Decisions, Result
  <1>3. UNCHANGED <<comments, check, decided>>
        /\ (status' = "completed" <=> status = "completed")
    BY DEF Arrive, ApproveClaim, PostFinalRead, RerunRead, FeedbackLock, DecideRead, Row, World,
           History
  <1>4. CASE ApproveClaim(r)
    <2>1. /\ \E pc \in {"resume", "done"} : \E out : Moves(r, pc, "approve", out)
          /\ request[r].pc = "new"
      BY <1>1, <1>4, EnterMoves, RefuseMoves DEF ApproveClaim, Steps
    <2>2. QED
      BY <1>3, <2>1, AnsweredAside
  <1>5. ~PostFinalRead(r) /\ ~RerunRead(r)
    <2>1. ASSUME PostFinalRead(r) PROVE request'[r].kind = "post_final"
      BY <1>1, <2>1, EnterMoves, RefuseMoves, ZenonT(40) DEF PostFinalRead, Moves, Steps
    <2>2. ASSUME RerunRead(r) PROVE request'[r].kind = "rerun"
      BY <1>1, <2>2, EnterMoves DEF RerunRead, Moves, Steps
    <2>3. QED
      BY <2>1, <2>2 DEF DecidersOnly, Came
  <1>6. CASE FeedbackLock(r)
    <2>1. Moves(r, "update_feedback", "feedback", result) /\ request[r].pc = "new"
      BY <1>1, <1>6, EnterMoves DEF FeedbackLock, Steps
    <2>2. QED
      BY <1>3, <2>1, AnsweredAside
  <1>7. ASSUME NEW kind \in {"reject", "request_changes"}, DecideRead(r, kind)
        PROVE  Answered'
    <2>1. PICK pc \in {"decide", "done"}, out \in Result :
             /\ Moves(r, pc, kind, out) /\ request[r].pc = "new"
             /\ pc = "decide" => out.decision = kind
      <3>1. CASE Refuse(r, kind)
        BY <1>1, <3>1, RefuseMoves, OutTyped
      <3>2. CASE Enter(r, kind, "decide", [result EXCEPT !.decision = kind])
        <4>1. [result EXCEPT !.decision = kind] \in Result
              /\ [result EXCEPT !.decision = kind].decision = kind
          BY <1>2
        <4>2. Moves(r, "decide", kind, [result EXCEPT !.decision = kind]) /\ request[r].pc = "new"
          BY <1>1, <3>2, <4>1, EnterMoves DEF Steps
        <4>3. QED
          BY <4>1, <4>2
      <3>3. QED
        BY <1>7, <3>1, <3>2 DEF DecideRead
    <2>2. QED
      BY <1>3, <2>1, AnsweredAside
  <1>8. QED
    BY <1>4, <1>5, <1>6, <1>7 DEF Arrive

LEMMA AnsweredApprovals ==
  ASSUME AnswerInv, "github" \notin failed', DecisionIsKept, NEW r \in Requests,
         \/ ApproveResume(r) \/ ApproveBetween(r) \/ ApproveSync(r) \/ ApproveStore(r)
         \/ ApproveGiveBack(r) \/ ApprovePublish(r) \/ ApproveRecord(r)
  PROVE  Answered'
  <1>1. RequestTyped /\ request[r].out \in Result
    BY OutTyped DEF AnswerInv, FinalInv, ClaimInv, Typed, TypeOK, RequestTyped
  <1> DEFINE Agent == [request[r].out EXCEPT !.decision = "agent", !.posted = "no"]
             Out(p) == [request[r].out EXCEPT !.posted = p]
  <1>2. /\ Agent \in Result /\ Agent.decision = "agent"
        /\ Out("posted") \in Result /\ Out("failed") \in Result
    BY <1>1, ResultsWritten DEF Result
  <1>3. /\ request[r].pc \in {"between", "sync", "store"} => request[r].out.decision = "agent"
        /\ request[r].pc = "store" => check = "agent"
    BY DEF AnswerInv, Answered, Carried
  <1>4. \A q \in Requests : Approving(q) => status = "finalizing"
    BY DEF AnswerInv, FinalInv, ClaimInv, ClaimIsHeld
  <1>5. ~Fault("github")
    BY DEF Fault
  <1>6. CASE ApproveResume(r)
    <2> HIDE DEF Agent
    <2>1. Goto(r, "between", Agent) \/ Goto(r, "give_back", request[r].out)
      BY <1>6 DEF ApproveResume, Agent
    <2>2. \/ Moves(r, "between", request[r].kind, Agent)
          \/ Moves(r, "give_back", request[r].kind, request[r].out)
      BY <1>1, <1>2, <2>1, GotoMoves DEF Steps
    <2>3. UNCHANGED <<comments, check, decided, status>> /\ request[r].pc = "resume"
      BY <1>6 DEF ApproveResume, At, Row, World, History
    <2>4. QED
      BY <1>2, <2>2, <2>3, AnsweredAside
  <1>7. CASE ApproveBetween(r)
    <2>1. \/ Moves(r, "sync", request[r].kind, request[r].out)
          \/ Moves(r, "done", request[r].kind, request[r].out)
      BY <1>1, <1>7, GotoMoves, ReplyMoves DEF ApproveBetween, Steps
    <2>2. UNCHANGED <<comments, check, decided, status>> /\ request[r].pc = "between"
      BY <1>7 DEF ApproveBetween, At, Row, World, History
    <2>3. QED
      BY <1>3, <2>1, <2>2, AnsweredAside
  <1>8. CASE ApproveSync(r)
    <2>1. Moves(r, "store", request[r].kind, request[r].out) /\ check' = "agent"
      BY <1>1, <1>5, <1>8, GotoMoves DEF ApproveSync, CheckUpdated, CheckUncertain, Steps
    <2>2. UNCHANGED <<comments, decided, status, result>> /\ request[r].pc = "sync"
      BY <1>8 DEF ApproveSync, At, Row, History
    <2>3. status = "finalizing" /\ decided = Nobody
      BY <1>4, <2>2 DEF Approving, AnswerInv, Answered, Told
    <2>4. PublishersAreNew'
      BY <2>1, <2>2 DEF AnswerInv, Answered, PublishersAreNew, Publishing, Moves
    <2>5. Carried'
      BY <1>3, <2>1, <2>2 DEF AnswerInv, Answered, Carried, Moves
    <2>6. QED
      BY <2>2, <2>3, <2>4, <2>5 DEF Answered, Told
  <1>9. CASE ApproveStore(r)
    <2>1. status = "finalizing" /\ request[r].pc = "store"
      BY <1>4, <1>9 DEF ApproveStore, At, Approving
    <2>2. UNCHANGED <<comments, check>>
      BY <1>9 DEF ApproveStore, World
    <2>3. PICK pc \in {"publish", "give_back"} : Moves(r, pc, request[r].kind, request[r].out)
      BY <1>1, <1>9, GotoMoves DEF ApproveStore, Steps
    <2>4. CASE UNCHANGED <<Row, decided>> /\ pc = "give_back"
      BY <2>1, <2>2, <2>3, <2>4, AnsweredAside DEF Row
    <2>5. CASE status' = "completed" /\ result' = request[r].out /\ decided' = r
      <3>1. comments = 0
        BY <2>1 DEF AnswerInv, Answered, PublishersAreNew
      <3>2. \A q \in Requests : ~Publishing(q)
        BY <2>1 DEF AnswerInv, FinalInv, Guarded, RecordsKeep, Publishing
      <3>3. PublishersAreNew'
        BY <2>2, <2>3, <3>1, <3>2 DEF PublishersAreNew, Publishing, Moves
      <3>4. \A q \in Requests : request[q].pc # "sync_decision"
        BY <2>1 DEF AnswerInv, Answered, Carried
      <3>5. Carried'
        BY <2>2, <2>3, <3>4 DEF AnswerInv, Answered, Carried, Moves
      <3>6. Told'
        BY <1>3, <2>1, <2>2, <2>5 DEF Told
      <3>7. QED
        BY <3>3, <3>5, <3>6 DEF Answered
    <2>6. CASE Goto(r, "give_back", request[r].out) /\ UNCHANGED <<Row, decided>>
      <3>1. Moves(r, "give_back", request[r].kind, request[r].out)
        BY <1>1, <2>6, GotoMoves DEF Steps
      <3>2. QED
        BY <2>1, <2>2, <2>6, <3>1, AnsweredAside DEF Row
    <2>7. QED
      BY <1>9, <2>5, <2>6 DEF ApproveStore
  <1>10. CASE ApproveGiveBack(r)
    <2>1. Moves(r, "done", request[r].kind, request[r].out)
      BY <1>1, <1>10, ReplyMoves DEF ApproveGiveBack
    <2>2. /\ UNCHANGED <<comments, check, decided>> /\ request[r].pc = "give_back"
          /\ status' = "completed" <=> status = "completed"
      BY <1>10 DEF ApproveGiveBack, At, World, History
    <2>3. QED
      BY <2>1, <2>2, AnsweredAside
  <1>11. CASE ApprovePublish(r)
    <2> HIDE DEF Out
    <2>1. Goto(r, "record", Out("posted")) \/ Goto(r, "record", Out("failed"))
      BY <1>11 DEF ApprovePublish, Out
    <2>2. PICK out : Moves(r, "record", request[r].kind, out)
      BY <1>1, <1>2, <2>1, GotoMoves DEF Steps
    <2>3. /\ UNCHANGED <<check, decided, status, result>> /\ Publishing(r)
          /\ comments' = comments + 1
      BY <1>5, <1>11 DEF ApprovePublish, At, Row, History, CommentPosted, CommentFailed, Publishing
    <2>4. status = "completed" /\ comments = 0
      BY <2>3 DEF AnswerInv, Answered, PublishersAreNew, FinalInv, Guarded, RecordsKeep, Publishing
    <2>5. PublishersAreNew'
      BY <2>2, <2>3, <2>4 DEF AnswerInv, Answered, PublishersAreNew, Publishing, Moves
    <2>6. Carried'
      BY <2>2, <2>3 DEF AnswerInv, Answered, Carried, Moves
    <2>7. decided # Nobody => decided \in Requests
      BY DEF AnswerInv, FinalInv, ClaimInv, Typed, TypeOK
    <2>8. Told'
      BY <2>2, <2>3, <2>7 DEF AnswerInv, Answered, Told, Moves, Publishing
    <2>9. QED
      BY <2>5, <2>6, <2>8 DEF Answered
  <1>12. CASE ApproveRecord(r)
    <2>1. Moves(r, "done", request[r].kind, request[r].out)
      BY <1>1, <1>12, ReplyMoves DEF ApproveRecord
    <2>2. UNCHANGED <<comments, check, decided, status>> /\ request[r].pc = "record"
      BY <1>12 DEF ApproveRecord, At, World, History
    <2>3. QED
      BY <2>1, <2>2, AnsweredAside
  <1>13. QED
    BY <1>6, <1>7, <1>8, <1>9, <1>10, <1>11, <1>12

LEMMA AnsweredOthers ==
  ASSUME AnswerInv, "github" \notin failed', DecisionIsKept, NEW r \in Requests,
         \/ DecideStore(r) \/ DecideSync(r) \/ PostFinalComment(r) \/ PostFinalMark(r)
         \/ RerunInvoke(r) \/ RerunStore(r) \/ FeedbackCommit(r)
  PROVE  Answered'
  <1>1. RequestTyped /\ request[r].out \in Result
    BY OutTyped DEF AnswerInv, FinalInv, ClaimInv, Typed, TypeOK, RequestTyped
  <1>2. ~Fault("github")
    BY DEF Fault
  <1>3. CASE DecideStore(r)
    <2>1. request[r].pc = "decide" /\ request[r].out.decision = request[r].kind
      BY <1>3 DEF DecideStore, At, AnswerInv, Answered, Carried
    <2>2. UNCHANGED <<comments, check>>
      BY <1>3 DEF DecideStore, World
    <2>3. CASE Moves(r, "done", request[r].kind, request[r].out) /\ UNCHANGED <<Row, decided>>
      BY <2>1, <2>2, <2>3, AnsweredAside DEF Row
    <2>4. ASSUME NEW pc \in {"sync_decision", "done"}, Moves(r, pc, request[r].kind, request[r].out),
                 pc = "done" => request'[r].reply = "error",
                 UpdateReviewIfStatus("awaiting_approval", "completed", request[r].out),
                 decided' = r
          PROVE  Answered'
      <3>1. comments = 0 /\ \A q \in Requests : ~Publishing(q) /\ request[q].pc # "sync_decision"
        BY <2>4 DEF AnswerInv, Answered, PublishersAreNew, Carried, FinalInv, Guarded, RecordsKeep,
                    Publishing
      <3>2. \A q \in Requests : request[q].pc # "store"
        BY <2>4 DEF AnswerInv, FinalInv, ClaimInv, ClaimIsHeld, Approving
      <3>3. PublishersAreNew'
        BY <2>2, <2>4, <3>1 DEF PublishersAreNew, Publishing, Moves
      <3>4. Carried'
        BY <2>1, <2>2, <2>4, <3>1, <3>2 DEF AnswerInv, Answered, Carried, Moves
      <3>5. Told'
        BY <2>4 DEF Told, Moves
      <3>6. QED
        BY <3>3, <3>4, <3>5 DEF Answered
    <2>5. ASSUME Goto(r, "sync_decision", request[r].out)
          PROVE  Moves(r, "sync_decision", request[r].kind, request[r].out)
      BY <1>1, <2>5, GotoMoves DEF Steps
    <2>6. ASSUME Reply(r, "error")
          PROVE  Moves(r, "done", request[r].kind, request[r].out) /\ request'[r].reply = "error"
      BY <1>1, <2>6, ReplyMoves DEF Reply, Local, RequestTyped
    <2>7. ASSUME Reply(r, "refused")
          PROVE  Moves(r, "done", request[r].kind, request[r].out)
      BY <1>1, <2>7, ReplyMoves
    <2>8. QED
      BY <1>3, <2>3, <2>4, <2>5, <2>6, <2>7 DEF DecideStore
  <1>4. CASE DecideSync(r)
    <2>1. Moves(r, "done", request[r].kind, request[r].out) /\ check' = request[r].kind
      BY <1>1, <1>2, <1>4, ReplyMoves DEF DecideSync, CheckUpdated, CheckUncertain
    <2>2. UNCHANGED <<comments, decided, status, result>> /\ request[r].pc = "sync_decision"
      BY <1>4 DEF DecideSync, At, Row, History
    <2>3. decided = r /\ status = "completed" /\ result.decision = request[r].kind
      BY <2>2 DEF AnswerInv, Answered, Carried
    <2>4. \A q \in Requests : request[q].pc # "store"
      BY <2>3 DEF AnswerInv, FinalInv, ClaimInv, ClaimIsHeld, Approving
    <2>5. PublishersAreNew'
      BY <2>1, <2>2 DEF AnswerInv, Answered, PublishersAreNew, Publishing, Moves
    <2>6. Carried'
      BY <2>1, <2>2, <2>4 DEF AnswerInv, Answered, Carried, Moves
    <2>7. Told'
      BY <2>1, <2>2, <2>3 DEF Told
    <2>8. QED
      BY <2>5, <2>6, <2>7 DEF Answered
  <1>5. /\ ~PostFinalComment(r) /\ ~PostFinalMark(r)
        /\ ~RerunInvoke(r) /\ ~RerunStore(r)
    BY DEF AnswerInv, FinalInv, ClaimInv, NoReruns, Guarded, NoPostFinals, PostFinalComment,
           PostFinalMark, RerunInvoke, RerunStore, At
  <1>6. CASE FeedbackCommit(r)
    <2>1. Moves(r, "done", request[r].kind, request[r].out)
      BY <1>1, <1>6, ReplyMoves DEF FeedbackCommit
    <2>2. UNCHANGED <<comments, check, decided, status>> /\ request[r].pc = "update_feedback"
      BY <1>6 DEF FeedbackCommit, At, World
    <2>3. QED
      BY <2>1, <2>2, AnsweredAside
  <1>7. QED
    BY <1>3, <1>4, <1>5, <1>6

\* A failure is never forgotten.
LEMMA FailedGrows ==
  ASSUME [Next]_vars
  PROVE  failed \subseteq failed'
  <1>1. ASSUME NEW r \in Requests, Arrive(r)
        PROVE  UNCHANGED failed
    BY <1>1 DEF Arrive, ApproveClaim, PostFinalRead, RerunRead, FeedbackLock, DecideRead
  <1>2. ASSUME NEW r \in Requests, Continue(r)
        PROVE  UNCHANGED failed \/ \E what : Fault(what)
    BY <1>2
    DEF Continue, ApproveResume, ApproveBetween, ApproveSync, ApproveStore, ApproveGiveBack,
        ApprovePublish, ApproveRecord, DecideStore, DecideSync, PostFinalComment, PostFinalMark,
        RerunInvoke, RerunStore, FeedbackCommit, CommentPosted, CommentFailed, CheckUpdated,
        CheckUncertain
  <1>3. QED
    BY <1>1, <1>2 DEF Next, Crash, Fault, vars

LEMMA AnswerInvKept ==
  ASSUME AnswerInv, Answering', [Next]_vars
  PROVE  AnswerInv'
  <1>1. FinalInv' /\ DecisionIsKept
    BY ClaimInvKept, FinalStep DEF AnswerInv, FinalInv, Answering, DecidersOnly, NoRerunYet
  <1>2. ASSUME NEW r \in Requests, Arrive(r)
        PROVE  Answered'
    BY <1>1, <1>2, AnsweredArrivals DEF Answering
  <1>3. ASSUME NEW r \in Requests, Continue(r)
        PROVE  Answered'
    BY <1>1, <1>3, AnsweredApprovals, AnsweredOthers DEF Continue, Answering
  <1>4. CASE Crash
    <2>1. RequestTyped /\ (decided # Nobody => decided \in Requests)
      BY DEF AnswerInv, FinalInv, ClaimInv, Typed, TypeOK, RequestTyped
    <2>2. \A q \in Requests : request'[q].pc \in {"new", "done"}
      BY <1>4, <2>1, CrashMoves
    <2>3. \A q \in Requests : request[q].pc = "done" => request'[q] = request[q]
      BY <1>4, <2>1 DEF Crash, InFlight
    <2>4. \A q \in Requests : request[q].pc = "sync_decision" =>
              request'[q].pc = "done" /\ request'[q].reply = "error"
      BY <1>4, <2>1 DEF Crash, InFlight, Local
    <2>5. UNCHANGED <<status, result, comments, check, decided>>
      BY <1>4 DEF Crash, Row, World, History
    <2>6. PublishersAreNew' /\ Carried'
      BY <2>2, <2>5 DEF AnswerInv, Answered, PublishersAreNew, Publishing, Carried
    <2>7. Told'
      BY <2>1, <2>3, <2>4, <2>5 DEF AnswerInv, Answered, Told
    <2>8. QED
      BY <1>1, <2>6, <2>7 DEF Answered, AnswerInv
  <1>5. CASE UNCHANGED vars
    BY <1>1, <1>5 DEF vars, AnswerInv, Answered, PublishersAreNew, Publishing, Carried, Told
  <1>6. QED
    BY <1>1, <1>2, <1>3, <1>4, <1>5 DEF Next, AnswerInv

LEMMA AlwaysAnswered == Spec => [](Typed /\ (Answering => AnswerInv))
  <1> DEFINE Inv == Typed /\ (Answering => AnswerInv)
  <1>1. Init => Inv
    BY InitTyped
    DEF Init, Local, Analysed, AnswerInv, FinalInv, ClaimInv, ClaimIsHeld, NoReruns, Holding,
        Approving, Guarded, FeedbackLocked, RecordsKeep, NoPostFinals, Answered,
        PublishersAreNew, Publishing, Carried, Told
  <1>2. ASSUME Inv, [Next]_vars
        PROVE  Inv'
    <2>1. Answering' => Answering
      BY <1>2, CameStays, FailedGrows DEF Answering, DecidersOnly, AllKinds
    <2>2. QED
      BY <1>2, <2>1, StepTyped, AnswerInvKept
  <1>3. QED
    BY <1>1, <1>2, PTL DEF Spec

\* While GitHub answers and nothing is rerun or published again, the approvals
\* of a review post one final comment between them, however they overlap,
\* crash, or lose the database.
THEOREM OnePublication == Spec => []PublishedOnce
  <1>1. Typed /\ (Answering => AnswerInv) => PublishedOnce
    BY DEF Answering, DecidersOnly, AnswerInv, Answered, PublishersAreNew, PublishedOnce
  <1>2. QED
    BY <1>1, AlwaysAnswered, PTL

\* When all requests are over and the one that decided was told ok, the check
\* run shows the decision in the row, whatever overlapped it.
THEOREM CheckRunAgrees == Spec => []CheckAgrees
  <1>1. Typed /\ (Answering => AnswerInv) => CheckAgrees
    BY DEF Typed, TypeOK, Answering, DecidersOnly, AnswerInv, Answered, Told, CheckAgrees, AtRest,
           InFlight
  <1>2. QED
    BY <1>1, AlwaysAnswered, PTL

=============================================================================
