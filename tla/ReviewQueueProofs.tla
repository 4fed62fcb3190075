-------------------------- MODULE ReviewQueueProofs --------------------------
(***************************************************************************)
(* Theorems about ReviewQueue, for every number of jobs and workers and    *)
(* every setting the assumptions of ReviewQueue admit.                     *)
(***************************************************************************)
EXTENDS ReviewQueue, TLAPS

-----------------------------------------------------------------------------
(* What the helpers return *)

LEMMA RetryDelayBounded == \A n : RetryDelay(n) \in 0 .. MaxBackoff
  BY SettingsValid DEF SettingsValid, RetryDelay

LEMMA HeartbeatEveryPositive == HeartbeatEvery \in Nat \ {0}
  BY SettingsValid DEF SettingsValid, HeartbeatEvery

LEMMA RowsWritten ==
  ASSUME NEW r \in Row, NEW w \in Workers, NEW n \in Nat
  PROVE  /\ NoRow \in Row
         /\ QueuedRow \in Row
         /\ Claimed(r, w) \in Row
         /\ Completed(r) \in Row
         /\ Failed(r, n) \in Row
         /\ [r EXCEPT !.lockAge = 0] \in Row
  <1> USE SettingsValid DEF SettingsValid, Row, Statuses, Released
  <1>1. NoRow \in Row
    BY DEF NoRow
  <1>2. QueuedRow \in Row
    BY DEF NoRow, QueuedRow
  <1>3. Claimed(r, w) \in Row
    BY DEF Claimed
  <1>4. Completed(r) \in Row
    BY DEF Completed
  <1>5. Failed(r, n) \in Row
    BY RetryDelayBounded DEF Failed
  <1>6. [r EXCEPT !.lockAge = 0] \in Row
    OBVIOUS
  <1>7. QED
    BY <1>1, <1>2, <1>3, <1>4, <1>5, <1>6

LEMMA OlderTyped == \A r \in Row : Older(r) \in Row
  BY SettingsValid DEF SettingsValid, Older, Row, Statuses

LEMMA WorkersWritten ==
  ASSUME NEW t \in WorkerState
  PROVE  /\ \A pc \in {"absent", "polling", "ended", "gone"} : Idle(pc) \in WorkerState
         /\ \A pc \in {"handling", "completing", "failing", "callback"} :
               [t EXCEPT !.pc = pc] \in WorkerState
         /\ \A b \in {"beating", "stopped", "raised"} : Slept(t, b) \in WorkerState
         /\ \A n \in Nat : [t EXCEPT !.beatAge = n] \in WorkerState
  BY DEF Idle, Slept, WorkerState

-----------------------------------------------------------------------------
(* Type correctness *)

\* An active worker works on a job.
ActiveHasJob == \A w \in Workers : Active(w) => worker[w].job \in Jobs

TypeInv == TypeOK /\ ActiveHasJob

LEMMA TypeInvInit == Init => TypeInv
  <1> SUFFICES ASSUME Init PROVE TypeInv
    OBVIOUS
  <1>1. row \in [Jobs -> Row]
    BY SettingsValid DEF SettingsValid, Init, NoRow, Row, Statuses
  <1>2. worker \in [Workers -> WorkerState]
    BY DEF Init, Idle, WorkerState
  <1>3. faults \in 0 .. MaxFaults
    BY EnvironmentBounds DEF EnvironmentBounds, Init
  <1>4. ActiveHasJob
    BY DEF Init, ActiveHasJob, Active, Idle
  <1>5. QED
    BY <1>1, <1>2, <1>3, <1>4 DEF TypeInv, TypeOK

\* Every conditional update by a lock holder keeps the table well typed.
LEMMA UpdateHeldTyped ==
  ASSUME TypeInv, NEW w \in Workers, NEW j \in Jobs, NEW new \in Row,
         UpdateHeld(w, j, new)
  PROVE  row' \in [Jobs -> Row]
  BY DEF UpdateHeld, TypeInv, TypeOK

LEMMA FaultTyped ==
  ASSUME TypeInv, Fault
  PROVE  faults' \in 0 .. MaxFaults
  BY EnvironmentBounds DEF EnvironmentBounds, Fault, TypeInv, TypeOK

LEMMA AfterFinallyTyped ==
  ASSUME TypeInv, NEW w \in Workers,
         worker' = [worker EXCEPT ![w] = AfterFinally(w)]
  PROVE  worker' \in [Workers -> WorkerState] /\ ActiveHasJob'
  BY DEF TypeInv, TypeOK, AfterFinally, Idle, WorkerState, ActiveHasJob, Active

LEMMA TypeInvStep == TypeInv /\ [Next]_vars => TypeInv'
  <1> SUFFICES ASSUME TypeInv, [Next]_vars PROVE TypeInv'
    OBVIOUS
  <1> USE DEF TypeInv, TypeOK
  <1>1. ASSUME NEW j \in Jobs, Enqueue(j) PROVE TypeInv'
    BY <1>1, RowsWritten, SettingsValid
       DEF SettingsValid, Enqueue, NoRow, QueuedRow, Row, Statuses, ActiveHasJob, Active
  <1>2. ASSUME NEW w \in Workers, NEW j \in Jobs, Claim(w, j) PROVE TypeInv'
    <2>1. row' \in [Jobs -> Row]
      BY <1>2, RowsWritten DEF Claim
    <2>2. worker' \in [Workers -> WorkerState]
      BY <1>2 DEF Claim, Claimed, WorkerState, Row
    <2>3. ActiveHasJob'
      BY <1>2 DEF Claim, ActiveHasJob, Active, WorkerState
    <2>4. QED
      BY <1>2, <2>1, <2>2, <2>3 DEF Claim
  <1>3. ASSUME NEW w \in Workers, NEW j \in Jobs, ClaimReplyLost(w, j) PROVE TypeInv'
    BY <1>3, RowsWritten, FaultTyped DEF ClaimReplyLost, ActiveHasJob, Active
  <1>4. ASSUME NEW w \in Workers, Heartbeat(w) PROVE TypeInv'
    <2> DEFINE j == worker[w].job
    <2>1. j \in Jobs /\ worker[w] \in WorkerState
      BY <1>4 DEF Heartbeat, HeartbeatDue, ActiveHasJob
    <2>2. row' \in [Jobs -> Row]
      BY <1>4, <2>1, RowsWritten, UpdateHeldTyped DEF Heartbeat
    <2>3. worker' \in [Workers -> WorkerState]
      BY <1>4, <2>1, WorkersWritten DEF Heartbeat
    <2>4. ActiveHasJob'
      BY <1>4, <2>1 DEF Heartbeat, ActiveHasJob, Active, Slept
    <2>5. QED
      BY <1>4, <2>2, <2>3, <2>4 DEF Heartbeat
  <1>5. ASSUME NEW w \in Workers, HeartbeatError(w) PROVE TypeInv'
    <2> DEFINE j == worker[w].job
    <2>1. j \in Jobs /\ worker[w] \in WorkerState
      BY <1>5 DEF HeartbeatError, HeartbeatDue, ActiveHasJob
    <2>2. row' \in [Jobs -> Row]
      BY <1>5, <2>1, RowsWritten, UpdateHeldTyped DEF HeartbeatError
    <2>3. worker' \in [Workers -> WorkerState]
      BY <1>5, <2>1, WorkersWritten DEF HeartbeatError
    <2>4. ActiveHasJob'
      BY <1>5, <2>1 DEF HeartbeatError, ActiveHasJob, Active, Slept
    <2>5. QED
      BY <1>5, <2>2, <2>3, <2>4, FaultTyped DEF HeartbeatError
  <1>6. ASSUME NEW w \in Workers, HandlerReturns(w) \/ HandlerRaises(w) PROVE TypeInv'
    <2>1. worker[w] \in WorkerState /\ worker[w].job \in Jobs
      BY <1>6 DEF HandlerReturns, HandlerRaises, ActiveHasJob, Active
    <2>2. worker' \in [Workers -> WorkerState]
      BY <1>6, <2>1, WorkersWritten DEF HandlerReturns, HandlerRaises
    <2>3. ActiveHasJob'
      BY <1>6, <2>1 DEF HandlerReturns, HandlerRaises, ActiveHasJob, Active, WorkerState
    <2>4. QED
      BY <1>6, <2>2, <2>3 DEF HandlerReturns, HandlerRaises
  <1>7. ASSUME NEW w \in Workers, Complete(w) \/ CompleteError(w) PROVE TypeInv'
    <2>1. worker[w].job \in Jobs
      BY <1>7 DEF Complete, CompleteError, ActiveHasJob, Active
    <2>2. row' \in [Jobs -> Row]
      BY <1>7, <2>1, RowsWritten, UpdateHeldTyped DEF Complete, CompleteError
    <2>3. worker' \in [Workers -> WorkerState] /\ ActiveHasJob'
      BY <1>7, AfterFinallyTyped DEF Complete, CompleteError
    <2>4. QED
      BY <1>7, <2>2, <2>3, FaultTyped DEF Complete, CompleteError
  <1>8. ASSUME NEW w \in Workers, Fail(w) PROVE TypeInv'
    <2>1. worker[w] \in WorkerState /\ worker[w].job \in Jobs /\ worker[w].attempt \in Nat
      BY <1>8 DEF Fail, ActiveHasJob, Active, WorkerState
    <2>2. row' \in [Jobs -> Row]
      BY <1>8, <2>1, RowsWritten, UpdateHeldTyped DEF Fail
    <2>3. worker' \in [Workers -> WorkerState]
      BY <1>8, <2>1, WorkersWritten DEF Fail
    <2>4. ActiveHasJob'
      BY <1>8, <2>1 DEF Fail, ActiveHasJob, Active, WorkerState
    <2>5. QED
      BY <1>8, <2>2, <2>3, <2>4 DEF Fail
  <1>9. ASSUME NEW w \in Workers, FailError(w) PROVE TypeInv'
    <2>1. worker[w].job \in Jobs /\ worker[w].attempt \in Nat
      BY <1>9 DEF FailError, ActiveHasJob, Active, WorkerState
    <2>2. row' \in [Jobs -> Row]
      BY <1>9, <2>1, RowsWritten, UpdateHeldTyped DEF FailError
    <2>3. worker' \in [Workers -> WorkerState] /\ ActiveHasJob'
      BY <1>9, AfterFinallyTyped DEF FailError
    <2>4. QED
      BY <1>9, <2>2, <2>3, FaultTyped DEF FailError
  <1>10. ASSUME NEW w \in Workers, CallbackDone(w) PROVE TypeInv'
    BY <1>10, AfterFinallyTyped DEF CallbackDone
  <1>11. ASSUME NEW w \in Workers, Start(w) PROVE TypeInv'
    BY <1>11 DEF Start, Idle, WorkerState, ActiveHasJob, Active
  <1>12. ASSUME NEW w \in Workers, Crash(w) PROVE TypeInv'
    BY <1>12, FaultTyped DEF Crash, Idle, WorkerState, ActiveHasJob, Active
  <1>13. ASSUME Tick PROVE TypeInv'
    <2>1. row' \in [Jobs -> Row]
      BY <1>13, OlderTyped DEF Tick
    <2>2. worker' \in [Workers -> WorkerState]
      <3>1. ASSUME NEW w \in Workers PROVE worker'[w] \in WorkerState
        BY <1>13, SMTT(20) DEF Tick, WorkerState
      <3>2. QED
        BY <1>13, <3>1 DEF Tick
    <2>3. ActiveHasJob'
      BY <1>13 DEF Tick, ActiveHasJob, Active, WorkerState
    <2>4. QED
      BY <1>13, <2>1, <2>2, <2>3 DEF Tick
  <1>14. CASE UNCHANGED vars
    BY <1>14 DEF vars, ActiveHasJob, Active
  <1>15. QED
    BY <1>1, <1>2, <1>3, <1>4, <1>5, <1>6, <1>7, <1>8, <1>9, <1>10, <1>11,
       <1>12, <1>13, <1>14 DEF Next, WorkerStep, FaultStep

\* The state of the queue always has the types TypeOK gives it.
THEOREM TypeCorrect == Spec => []TypeOK
  <1>1. Spec => []TypeInv
    BY TypeInvInit, TypeInvStep, PTL DEF Spec
  <1>2. QED
    BY <1>1, PTL DEF TypeInv

-----------------------------------------------------------------------------
(* The inductive invariant *)

\* What a row's status says about its other columns.
RowsConsistent ==
    \A j \in Jobs :
        /\ row[j].status \in {"absent", "queued"} => row[j].attempts = 0
        /\ row[j].status = "running" => row[j].attempts >= 1
        /\ row[j].status # "retry" => row[j].wait = 0

Inv ==
    /\ TypeInv
    /\ RowsConsistent
    /\ AttemptFencesWorkers
    /\ RetriesAreAccounted

\* A step that claims nothing: no attempt number moves, nobody gains a lock
\* and no worker gains a job.
Quiet ==
    /\ \A j \in Jobs : row'[j].attempts = row[j].attempts
    /\ \A w \in Workers, j \in Jobs : Holds(w, j)' => Holds(w, j)
    /\ \A w \in Workers : Active(w)' =>
          /\ Active(w)
          /\ worker'[w].job = worker[w].job
          /\ worker'[w].attempt = worker[w].attempt

LEMMA QuietKeepsFence ==
  ASSUME Inv, Quiet
  PROVE  AttemptFencesWorkers'
  BY DEF Inv, TypeInv, ActiveHasJob, Quiet, AttemptFencesWorkers

\* What a conditional update leaves of every row.
LEMMA UpdateHeldRows ==
  ASSUME TypeInv, NEW w \in Workers, NEW j \in Jobs, NEW new \in Row,
         UpdateHeld(w, j, new)
  PROVE  \A k \in Jobs :
            row'[k] = IF k = j /\ Holds(w, j) THEN new ELSE row[k]
  BY DEF UpdateHeld, TypeInv, TypeOK

LEMMA HeartbeatQuiet ==
  ASSUME Inv, NEW w \in Workers, Heartbeat(w) \/ HeartbeatError(w)
  PROVE  Quiet
  <1> DEFINE j == worker[w].job
  <1> USE DEF Inv, TypeInv, TypeOK
  <1>1. j \in Jobs /\ worker[w] \in WorkerState /\ row[j] \in Row
    BY DEF Heartbeat, HeartbeatError, HeartbeatDue, ActiveHasJob
  <1>2. \A k \in Jobs : \/ row'[k] = row[k]
                        \/ row'[k] = [row[k] EXCEPT !.lockAge = 0]
    BY <1>1, RowsWritten, UpdateHeldRows DEF Heartbeat, HeartbeatError
  <1>3. \A k \in Jobs : /\ row'[k].attempts = row[k].attempts
                        /\ row'[k].status = row[k].status
                        /\ row'[k].lockedBy = row[k].lockedBy
    BY <1>2, ZenonT(40) DEF Row
  <1>4. \A v \in Workers : /\ worker'[v].pc = worker[v].pc
                           /\ worker'[v].job = worker[v].job
                           /\ worker'[v].attempt = worker[v].attempt
    BY DEF Heartbeat, HeartbeatError, Slept, WorkerState
  <1>5. QED
    BY <1>3, <1>4 DEF Quiet, Holds, Active

\* Ending or failing an attempt: the new row is not running any more.
LEMMA ReleaseQuiet ==
  ASSUME Inv, NEW w \in Workers,
         Complete(w) \/ CompleteError(w) \/ Fail(w) \/ FailError(w)
  PROVE  Quiet
  <1> DEFINE j == worker[w].job
  <1> USE DEF Inv, TypeInv, TypeOK
  <1>1. j \in Jobs /\ worker[w].attempt \in Nat /\ row[j] \in Row
    BY DEF Complete, CompleteError, Fail, FailError, ActiveHasJob, Active, WorkerState
  <1>2. \A k \in Jobs : \/ row'[k] = row[k]
                        \/ /\ k = j
                           /\ row'[k] \in {Completed(row[j]),
                                           Failed(row[j], worker[w].attempt)}
    <2>1. Completed(row[j]) \in Row /\ Failed(row[j], worker[w].attempt) \in Row
      BY <1>1, RowsWritten
    <2>2. \/ UpdateHeld(w, j, Completed(row[j]))
          \/ UpdateHeld(w, j, Failed(row[j], worker[w].attempt))
          \/ UNCHANGED row
      BY DEF Complete, CompleteError, Fail, FailError
    <2>3. QED
      BY <1>1, <2>1, <2>2, UpdateHeldRows
  <1>3. \A k \in Jobs : /\ row'[k].attempts = row[k].attempts
                        /\ row'[k] = row[k] \/ row'[k].status # "running"
    BY <1>2 DEF Completed, Failed, Released
  <1>4. \A v \in Workers : Active(v)' =>
            /\ Active(v)
            /\ worker'[v].job = worker[v].job
            /\ worker'[v].attempt = worker[v].attempt
    BY DEF Complete, CompleteError, Fail, FailError, AfterFinally, Idle, Active, WorkerState
  <1>5. QED
    BY <1>3, <1>4 DEF Quiet, Holds

LEMMA OtherQuiet ==
  ASSUME Inv,
         \/ \E j \in Jobs : Enqueue(j)
         \/ \E w \in Workers : \/ HandlerReturns(w) \/ HandlerRaises(w)
                               \/ CallbackDone(w) \/ Start(w) \/ Crash(w)
         \/ Tick
         \/ UNCHANGED vars
  PROVE  Quiet
  <1> USE DEF Inv, TypeInv, TypeOK, Quiet, Holds, Active
  <1>1. CASE \E j \in Jobs : Enqueue(j)
    BY <1>1 DEF Enqueue, NoRow, QueuedRow, RowsConsistent
  <1>2. CASE \E w \in Workers : HandlerReturns(w) \/ HandlerRaises(w)
    BY <1>2 DEF HandlerReturns, HandlerRaises, WorkerState
  <1>3. CASE \E w \in Workers : CallbackDone(w) \/ Start(w) \/ Crash(w)
    BY <1>3 DEF CallbackDone, Start, Crash, AfterFinally, Idle
  <1>4. CASE Tick
    BY <1>4 DEF Tick, Older, WorkerState
  <1>5. CASE UNCHANGED vars
    BY <1>5 DEF vars
  <1>6. QED
    BY <1>1, <1>2, <1>3, <1>4, <1>5

\* A claim gives the row and the claiming worker a new, highest attempt.
LEMMA ClaimKeepsFence ==
  ASSUME Inv, NEW w \in Workers, NEW j \in Jobs, Claim(w, j) \/ ClaimReplyLost(w, j)
  PROVE  AttemptFencesWorkers'
  <1> USE DEF Inv, TypeInv, TypeOK
  <1>1. \A k \in Jobs : row'[k] = IF k = j THEN Claimed(row[j], w) ELSE row[k]
    BY DEF Claim, ClaimReplyLost
  <1>2. row'[j].attempts = row[j].attempts + 1 /\ row'[j].lockedBy = w
    BY <1>1 DEF Claimed
  <1>3. row[j].attempts \in Nat /\ ~Active(w)
    BY DEF Claim, ClaimReplyLost, Row, Active
  <1>4. \A v \in Workers : v # w => worker'[v] = worker[v]
    BY DEF Claim, ClaimReplyLost
  <1>5. Active(w)' => worker'[w].job = j /\ worker'[w].attempt = row[j].attempts + 1
    BY <1>3 DEF Claim, ClaimReplyLost, Claimed, Active
  <1>6. \A v \in Workers : Active(v) => worker[v].attempt \in Nat
    BY DEF WorkerState
  <1>7. \A v \in Workers : Active(v)' =>
          /\ worker'[v].attempt <= row'[worker'[v].job].attempts
          /\ Holds(v, worker[v].job)' =>
                worker'[v].attempt = row'[worker'[v].job].attempts
    <2> SUFFICES ASSUME NEW v \in Workers, Active(v)'
                 PROVE  /\ worker'[v].attempt <= row'[worker'[v].job].attempts
                        /\ Holds(v, worker[v].job)' =>
                              worker'[v].attempt = row'[worker'[v].job].attempts
      OBVIOUS
    <2>1. CASE v = w
      BY <2>1, <1>2, <1>3, <1>5
    <2>2. CASE v # w
      BY <2>2, <1>1, <1>2, <1>3, <1>4, <1>6
         DEF Active, Holds, ActiveHasJob, AttemptFencesWorkers
    <2>3. QED
      BY <2>1, <2>2
  <1>8. \A u, v \in Workers :
          u # v /\ Active(u)' /\ Active(v)' /\ worker'[u].job = worker'[v].job
          => worker'[u].attempt # worker'[v].attempt
    <2>1. \A v \in Workers : v # w /\ Active(v)' => Active(v) /\ worker'[v] = worker[v]
      BY <1>4 DEF Active
    <2>2. \A v \in Workers : v # w /\ Active(v) /\ worker[v].job = j =>
             worker[v].attempt < row[j].attempts + 1
      BY <1>3, <1>6 DEF AttemptFencesWorkers
    <2>3. QED
      BY <2>1, <2>2, <1>5, <1>3, <1>6 DEF AttemptFencesWorkers
  <1>9. QED
    BY <1>7, <1>8 DEF AttemptFencesWorkers

-----------------------------------------------------------------------------
(* What one step can do to the table *)

EnqueuesRow ==
    \E j \in Jobs : row[j].status = "absent" /\ row' = [row EXCEPT ![j] = QueuedRow]

ClaimsRow ==
    \E w \in Workers, j \in Jobs :
        Claimable(j) /\ row' = [row EXCEPT ![j] = Claimed(row[j], w)]

\* The worker in the latest attempt ends it, successfully or not.
ReleasesRow ==
    \E w \in Workers, j \in Jobs :
        /\ worker[w].pc \in {"completing", "failing"}
        /\ worker[w].job = j
        /\ worker[w].attempt = row[j].attempts
        /\ Holds(w, j)
        /\ \/ row' = [row EXCEPT ![j] = Completed(row[j])]
           \/ row' = [row EXCEPT ![j] = Failed(row[j], row[j].attempts)]

\* Renewals and the clock move only lock ages and waiting times.
KeepsRows ==
    \A k \in Jobs : /\ row'[k].status = row[k].status
                    /\ row'[k].attempts = row[k].attempts
                    /\ row'[k].wait \in 0 .. row[k].wait
                    /\ row[k].status \in Terminal => row'[k] = row[k]

LEMMA UnchangedKeepsRows == ASSUME Inv, UNCHANGED row PROVE KeepsRows
  BY SettingsValid DEF SettingsValid, Inv, TypeInv, TypeOK, KeepsRows, Row

LEMMA HeartbeatRows ==
  ASSUME Inv, NEW w \in Workers, Heartbeat(w) \/ HeartbeatError(w)
  PROVE  KeepsRows
  <1> DEFINE j == worker[w].job
  <1> USE DEF Inv, TypeInv, TypeOK
  <1>1. j \in Jobs /\ row[j] \in Row
    BY DEF Heartbeat, HeartbeatError, HeartbeatDue, ActiveHasJob
  <1>2. CASE UNCHANGED row
    BY <1>2, UnchangedKeepsRows
  <1>3. CASE UpdateHeld(w, j, [row[j] EXCEPT !.lockAge = 0])
    <2>1. [row[j] EXCEPT !.lockAge = 0] \in Row
      BY <1>1, RowsWritten
    <2> SUFFICES ASSUME NEW k \in Jobs
                 PROVE  /\ row'[k].status = row[k].status
                        /\ row'[k].attempts = row[k].attempts
                        /\ row'[k].wait \in 0 .. row[k].wait
                        /\ row[k].status \in Terminal => row'[k] = row[k]
      BY DEF KeepsRows
    <2>2. \/ row'[k] = row[k]
          \/ row[k].status = "running" /\ row'[k] = [row[k] EXCEPT !.lockAge = 0]
      BY <1>1, <1>3, <2>1, UpdateHeldRows DEF Holds
    <2>3. QED
      BY <2>2, SettingsValid DEF SettingsValid, Row, Terminal
  <1>4. QED
    BY <1>2, <1>3 DEF Heartbeat, HeartbeatError

LEMMA ReleaseRows ==
  ASSUME Inv, NEW w \in Workers,
         Complete(w) \/ CompleteError(w) \/ Fail(w) \/ FailError(w)
  PROVE  ReleasesRow \/ KeepsRows
  <1> DEFINE j == worker[w].job
  <1> USE DEF Inv, TypeInv, TypeOK
  <1>1. j \in Jobs /\ Active(w) /\ worker[w].pc \in {"completing", "failing"}
    BY DEF Complete, CompleteError, Fail, FailError, ActiveHasJob, Active
  <1>2. CASE UNCHANGED row
    BY <1>2, UnchangedKeepsRows
  <1>3. CASE ~Holds(w, j)
    <2>1. UNCHANGED row
      BY <1>1, <1>3 DEF Complete, CompleteError, Fail, FailError, UpdateHeld
    <2>2. QED
      BY <2>1, UnchangedKeepsRows
  <1>4. CASE Holds(w, j) /\ ~UNCHANGED row
    <2>1. worker[w].attempt = row[j].attempts
      BY <1>1, <1>4 DEF AttemptFencesWorkers
    <2>2. \/ row' = [row EXCEPT ![j] = Completed(row[j])]
          \/ row' = [row EXCEPT ![j] = Failed(row[j], row[j].attempts)]
      BY <1>4, <2>1 DEF Complete, CompleteError, Fail, FailError, UpdateHeld
    <2>3. QED
      BY <1>1, <1>4, <2>1, <2>2 DEF ReleasesRow
  <1>5. QED
    BY <1>2, <1>3, <1>4

LEMMA TickRows == ASSUME Inv, Tick PROVE KeepsRows
  <1> USE DEF Inv, TypeInv, TypeOK
  <1> SUFFICES ASSUME NEW k \in Jobs
               PROVE  /\ row'[k].status = row[k].status
                      /\ row'[k].attempts = row[k].attempts
                      /\ row'[k].wait \in 0 .. row[k].wait
                      /\ row[k].status \in Terminal => row'[k] = row[k]
    BY DEF KeepsRows
  <1>1. row'[k] = Older(row[k]) /\ row[k] \in Row
    BY DEF Tick
  <1>2. row[k].status \in Terminal => Older(row[k]) = row[k]
    BY <1>1 DEF Older, Row, Terminal, RowsConsistent
  <1>3. QED
    BY <1>1, <1>2, SettingsValid DEF SettingsValid, Older, Row

AClaim == \E w \in Workers, j \in Jobs : Claim(w, j) \/ ClaimReplyLost(w, j)

LEMMA RowStepsWithoutClaim ==
  ASSUME Inv, [Next]_vars, ~AClaim
  PROVE  EnqueuesRow \/ ReleasesRow \/ KeepsRows
  <1> USE DEF Inv, TypeInv, TypeOK
  <1>1. ASSUME NEW j \in Jobs, Enqueue(j) PROVE EnqueuesRow \/ KeepsRows
    <2>1. CASE row[j].status = "absent"
      BY <1>1, <2>1 DEF Enqueue, EnqueuesRow
    <2>2. CASE row[j].status # "absent"
      BY <1>1, <2>2, UnchangedKeepsRows DEF Enqueue
    <2>3. QED
      BY <2>1, <2>2
  <1>2. ASSUME NEW w \in Workers,
               \/ HandlerReturns(w) \/ HandlerRaises(w) \/ CallbackDone(w)
               \/ Start(w) \/ Crash(w)
        PROVE  KeepsRows
    BY <1>2, UnchangedKeepsRows
       DEF HandlerReturns, HandlerRaises, CallbackDone, Start, Crash
  <1>3. CASE UNCHANGED vars
    BY <1>3, UnchangedKeepsRows DEF vars
  <1>4. QED
    BY <1>1, <1>2, <1>3, HeartbeatRows, ReleaseRows, TickRows
       DEF Next, WorkerStep, FaultStep, AClaim

LEMMA RowSteps ==
  ASSUME Inv, [Next]_vars
  PROVE  EnqueuesRow \/ ClaimsRow \/ ReleasesRow \/ KeepsRows
  <1>1. AClaim => ClaimsRow
    BY DEF AClaim, Claim, ClaimReplyLost, ClaimsRow
  <1>2. QED
    BY <1>1, RowStepsWithoutClaim

\* Rows keep their accounts when attempts begin and end.
LEMMA AccountsStep ==
  ASSUME Inv, [Next]_vars
  PROVE  RowsConsistent' /\ RetriesAreAccounted'
  <1> USE DEF Inv, TypeInv, TypeOK
  <1> SUFFICES ASSUME NEW k \in Jobs
               PROVE  /\ row'[k].status \in {"absent", "queued"} => row'[k].attempts = 0
                      /\ row'[k].status = "running" => row'[k].attempts >= 1
                      /\ row'[k].status # "retry" => row'[k].wait = 0
                      /\ row'[k].status = "retry" =>
                            row'[k].attempts \in 1 .. MaxAttempts - 1
                      /\ row'[k].status = "failed" => row'[k].attempts >= MaxAttempts
                      /\ row'[k].status = "completed" => row'[k].attempts >= 1
    BY DEF RowsConsistent, RetriesAreAccounted
  <1>1. row[k] \in Row
    OBVIOUS
  <1>2. CASE row'[k] = row[k] \/ KeepsRows
    BY <1>1, <1>2 DEF KeepsRows, Row, RowsConsistent, RetriesAreAccounted
  <1>3. CASE EnqueuesRow
    BY <1>2, <1>3 DEF EnqueuesRow, QueuedRow, NoRow
  <1>4. CASE ClaimsRow
    <2>1. PICK w \in Workers, j \in Jobs :
             Claimable(j) /\ row' = [row EXCEPT ![j] = Claimed(row[j], w)]
      BY <1>4 DEF ClaimsRow
    <2>2. CASE k = j
      BY <1>1, <2>1, <2>2 DEF Claimable, Claimed, Row, RowsConsistent
    <2>3. QED
      BY <1>2, <2>1, <2>2
  <1>5. CASE ReleasesRow
    <2>1. PICK w \in Workers, j \in Jobs :
             /\ Holds(w, j)
             /\ \/ row' = [row EXCEPT ![j] = Completed(row[j])]
                \/ row' = [row EXCEPT ![j] = Failed(row[j], row[j].attempts)]
      BY <1>5 DEF ReleasesRow
    <2>2. CASE k = j
      BY <1>1, <2>1, <2>2, SettingsValid
         DEF SettingsValid, Holds, Completed, Failed, Released, Row, RowsConsistent
    <2>3. QED
      BY <1>2, <2>1, <2>2
  <1>6. QED
    BY <1>2, <1>3, <1>4, <1>5, RowSteps

LEMMA InvInit == Init => Inv
  BY TypeInvInit DEF Init, NoRow, Idle, Inv, RowsConsistent,
     AttemptFencesWorkers, RetriesAreAccounted, Active, Holds

LEMMA InvStep == Inv /\ [Next]_vars => Inv'
  <1> SUFFICES ASSUME Inv, [Next]_vars PROVE Inv'
    OBVIOUS
  <1>1. TypeInv'
    BY TypeInvStep DEF Inv
  <1>2. RowsConsistent' /\ RetriesAreAccounted'
    BY AccountsStep
  <1>3. AttemptFencesWorkers'
    BY HeartbeatQuiet, ReleaseQuiet, OtherQuiet, QuietKeepsFence, ClaimKeepsFence
       DEF Next, WorkerStep, FaultStep
  <1>4. QED
    BY <1>1, <1>2, <1>3 DEF Inv

LEMMA Invariance == Spec => []Inv
  BY InvInit, InvStep, PTL DEF Spec

\* The attempt number fences workers off from each other.
THEOREM FencingHolds == Spec => []AttemptFencesWorkers
  BY Invariance, PTL DEF Inv

\* Retries and failures agree with the count of attempts.
THEOREM AccountsHold == Spec => []RetriesAreAccounted
  BY Invariance, PTL DEF Inv

-----------------------------------------------------------------------------
(* What a step may never do *)

LEMMA FinalStep ==
  ASSUME Inv, [Next]_vars
  PROVE  \A j \in Jobs : row[j].status \in Terminal => row'[j] = row[j]
  BY RowSteps
     DEF Inv, TypeInv, TypeOK, EnqueuesRow, ClaimsRow, Claimable, ReleasesRow, Holds,
         KeepsRows, Terminal

LEMMA DecisionStep ==
  ASSUME Inv, [Next]_vars
  PROVE  \A j \in Jobs :
            row[j].status = "running" /\ row'[j].status # "running" =>
               \E w \in Workers :
                  /\ worker[w].pc \in {"completing", "failing"}
                  /\ worker[w].job = j
                  /\ worker[w].attempt = row[j].attempts
  BY RowSteps
     DEF Inv, TypeInv, TypeOK, EnqueuesRow, ClaimsRow, Claimed, ReleasesRow, KeepsRows

\* A completed or failed row is never written again.
THEOREM EndedRowsFinal == Spec => EndedRowsAreFinal
  <1>1. Inv /\ [Next]_vars =>
           [\A j \in Jobs : row[j].status \in Terminal => row'[j] = row[j]]_vars
    BY FinalStep
  <1>2. QED
    BY <1>1, Invariance, PTL DEF Spec, EndedRowsAreFinal

\* Only the worker of the latest attempt ends or reschedules a running job.
THEOREM LatestAttemptDecides == Spec => OnlyLatestAttemptDecides
  <1>1. Inv /\ [Next]_vars =>
           [\A j \in Jobs :
              row[j].status = "running" /\ row'[j].status # "running" =>
                 \E w \in Workers :
                    /\ worker[w].pc \in {"completing", "failing"}
                    /\ worker[w].job = j
                    /\ worker[w].attempt = row[j].attempts]_vars
    BY DecisionStep
  <1>2. QED
    BY <1>1, Invariance, PTL DEF Spec, OnlyLatestAttemptDecides

-----------------------------------------------------------------------------
(* ReviewQueue implements JobLifecycle *)

LEMMA PhaseValues ==
  /\ PhaseOf("absent") = "absent"
  /\ \A s \in {"queued", "running", "retry"} : PhaseOf(s) = "pending"
  /\ PhaseOf("completed") = "succeeded"
  /\ PhaseOf("failed") = "given_up"
  BY DEF PhaseOf

LEMMA LifecycleInit == Init => Lifecycle!Init
  BY PhaseValues DEF Init, NoRow, Lifecycle!Init

LEMMA LifecycleStep == Inv /\ [Next]_vars => [Lifecycle!Next]_(Lifecycle!vars)
  <1> SUFFICES ASSUME Inv, [Next]_vars PROVE [Lifecycle!Next]_(Lifecycle!vars)
    OBVIOUS
  <1> USE DEF Inv, TypeInv, TypeOK
  <1>1. CASE EnqueuesRow
    <2>1. PICK j \in Jobs :
             row[j].status = "absent" /\ row' = [row EXCEPT ![j] = QueuedRow]
      BY <1>1 DEF EnqueuesRow
    <2>2. row[j].attempts = 0
      BY <2>1 DEF RowsConsistent
    <2>3. Lifecycle!Submit(j)
      BY <2>1, <2>2, PhaseValues DEF Lifecycle!Submit, QueuedRow, NoRow
    <2>4. QED
      BY <2>3 DEF Lifecycle!Next
  <1>2. CASE ClaimsRow
    <2>1. PICK w \in Workers, j \in Jobs :
             Claimable(j) /\ row' = [row EXCEPT ![j] = Claimed(row[j], w)]
      BY <1>2 DEF ClaimsRow
    <2>2. Lifecycle!Try(j)
      BY <2>1, PhaseValues DEF Lifecycle!Try, Claimable, Claimed
    <2>3. QED
      BY <2>2 DEF Lifecycle!Next
  <1>3. CASE ReleasesRow
    <2>1. PICK w \in Workers, j \in Jobs :
             /\ Holds(w, j)
             /\ \/ row' = [row EXCEPT ![j] = Completed(row[j])]
                \/ row' = [row EXCEPT ![j] = Failed(row[j], row[j].attempts)]
      BY <1>3 DEF ReleasesRow
    <2>2. row[j].attempts >= 1 /\ row[j].attempts \in Nat
      BY <2>1 DEF Holds, RowsConsistent, Row
    <2>3. CASE row' = [row EXCEPT ![j] = Completed(row[j])]
      <3>1. Lifecycle!Succeed(j)
        <4>1. \A k \in Jobs :
                 /\ row'[k].attempts = row[k].attempts
                 /\ row'[k].status = IF k = j THEN "completed" ELSE row[k].status
          BY <2>3 DEF Completed, Released
        <4>2. PhaseOf(row[j].status) = "pending"
          BY <2>1, PhaseValues DEF Holds
        <4>3. [k \in Jobs |-> PhaseOf(row'[k].status)]
                = [[k \in Jobs |-> PhaseOf(row[k].status)] EXCEPT ![j] = "succeeded"]
          BY <4>1, PhaseValues
        <4>4. row[j].attempts > 0
          BY <2>2
        <4>5. [k \in Jobs |-> row'[k].attempts] = [k \in Jobs |-> row[k].attempts]
          BY <4>1
        <4>6. QED
          BY <4>2, <4>3, <4>4, <4>5 DEF Lifecycle!Succeed
      <3>2. QED
        BY <3>1 DEF Lifecycle!Next
    <2>4. CASE /\ row' = [row EXCEPT ![j] = Failed(row[j], row[j].attempts)]
               /\ row[j].attempts >= MaxAttempts
      <3>1. Lifecycle!GiveUp(j)
        BY <2>1, <2>2, <2>4, PhaseValues DEF Lifecycle!GiveUp, Holds, Failed, Released
      <3>2. QED
        BY <3>1 DEF Lifecycle!Next
    <2>5. CASE /\ row' = [row EXCEPT ![j] = Failed(row[j], row[j].attempts)]
               /\ ~(row[j].attempts >= MaxAttempts)
      BY <2>1, <2>2, <2>5, PhaseValues DEF Lifecycle!vars, Holds, Failed, Released
    <2>6. QED
      BY <2>1, <2>3, <2>4, <2>5
  <1>4. CASE KeepsRows
    BY <1>4 DEF KeepsRows, Lifecycle!vars
  <1>5. QED
    BY <1>1, <1>2, <1>3, <1>4, RowSteps

\* The queue implements the abstract life of a job: tries are counted, a job
\* succeeds only after a try, is given up only after MaxAttempts of them, and
\* then stays as it is.
THEOREM QueueImplementsLifecycle == Spec => ImplementsLifecycle
  BY LifecycleInit, LifecycleStep, Invariance, PTL
     DEF Spec, ImplementsLifecycle, Lifecycle!Spec

-----------------------------------------------------------------------------
(* The lease is exclusive while heartbeats are punctual *)

Punctual == HeartbeatEvery + MaxLateness <= Lease

\* A protected worker holds the lock, and the lock is no older than the
\* sleep of its heartbeat task, which Tick bounds.
LeasesRenewed ==
    \A w \in Workers : Protected(w) =>
        /\ Holds(w, worker[w].job)
        /\ row[worker[w].job].lockAge <= worker[w].beatAge
        /\ worker[w].beatAge <= HeartbeatEvery + MaxLateness

LEMMA LeasesInit == Init => LeasesRenewed
  BY DEF Init, Idle, LeasesRenewed, Protected

LEMMA LeasesStep == Punctual /\ Inv /\ LeasesRenewed /\ [Next]_vars => LeasesRenewed'
  <1> SUFFICES ASSUME Punctual, Inv, LeasesRenewed, [Next]_vars,
                      NEW v \in Workers, Protected(v)'
               PROVE  /\ Holds(v, worker[v].job)'
                      /\ row'[worker'[v].job].lockAge <= worker'[v].beatAge
                      /\ worker'[v].beatAge <= HeartbeatEvery + MaxLateness
    BY DEF LeasesRenewed
  <1> DEFINE k == worker[v].job
  <1> USE DEF Inv, TypeInv, TypeOK
  <1>0. /\ HeartbeatEvery \in Nat /\ MaxLateness \in Nat /\ Lease \in Nat
        /\ worker[v] \in WorkerState
    BY HeartbeatEveryPositive, EnvironmentBounds, SettingsValid
       DEF EnvironmentBounds, SettingsValid
  <1>1. Protected(v) => k \in Jobs /\ row[k] \in Row
    BY DEF Protected, ActiveHasJob, Active
  <1>2. CASE Protected(v) /\ worker'[v].job = k /\ worker'[v].beatAge = worker[v].beatAge
             /\ row'[k] = row[k]
    BY <1>2 DEF LeasesRenewed, Holds
  <1>3. ASSUME NEW j \in Jobs, Enqueue(j) PROVE row'[k] = row[k] \/ ~Protected(v)
    BY <1>1, <1>3 DEF Enqueue, LeasesRenewed, Holds
  <1>4. ASSUME NEW w \in Workers, NEW j \in Jobs, Claim(w, j) \/ ClaimReplyLost(w, j),
               Protected(v)
        PROVE  row'[k] = row[k]
    <2>1. ~Claimable(k)
      BY <1>0, <1>1, <1>4 DEF Claimable, LeasesRenewed, Holds, Punctual, Row, WorkerState
    <2>2. QED
      BY <1>1, <1>4, <2>1 DEF Claim, ClaimReplyLost
  <1>5. ASSUME NEW w \in Workers, NEW j \in Jobs, Claim(w, j), w = v
        PROVE  /\ Holds(v, worker[v].job)'
               /\ row'[worker'[v].job].lockAge <= worker'[v].beatAge
               /\ worker'[v].beatAge <= HeartbeatEvery + MaxLateness
    BY <1>0, <1>5 DEF Claim, Claimed, Holds
  <1>6. ASSUME NEW w \in Workers, Heartbeat(w), w = v
        PROVE  /\ Holds(v, worker[v].job)'
               /\ row'[worker'[v].job].lockAge <= worker'[v].beatAge
               /\ worker'[v].beatAge <= HeartbeatEvery + MaxLateness
    BY <1>0, <1>1, <1>6
       DEF Heartbeat, HeartbeatDue, Active, ActiveHasJob, UpdateHeld, Slept, Protected, Holds, Row
  <1>7. ASSUME NEW w \in Workers, w # v, Protected(v),
               \/ Heartbeat(w) \/ HeartbeatError(w)
               \/ Complete(w) \/ CompleteError(w) \/ Fail(w) \/ FailError(w)
        PROVE  row'[k] = row[k]
    BY <1>1, <1>7 DEF Heartbeat, HeartbeatError, Complete, CompleteError, Fail, FailError,
                      UpdateHeld, LeasesRenewed, Holds
  <1>8. ASSUME NEW w \in Workers, w # v,
               FaultStep(w) \/ Heartbeat(w) \/ WorkerStep(w) \/ Start(w)
        PROVE  worker'[v] = worker[v] /\ (Protected(v)' => Protected(v))
    BY <1>8 DEF WorkerStep, FaultStep, Start, Claim, ClaimReplyLost, Heartbeat, HeartbeatError,
                HandlerReturns, HandlerRaises, Complete, CompleteError, Fail, FailError,
                CallbackDone, Crash, Protected
  <1>9. ASSUME NEW w \in Workers, w = v, HandlerReturns(w) \/ HandlerRaises(w)
        PROVE  /\ Protected(v) /\ worker'[v].job = k
               /\ worker'[v].beatAge = worker[v].beatAge /\ row'[k] = row[k]
    BY <1>0, <1>9 DEF HandlerReturns, HandlerRaises, Protected, WorkerState
  <1>10. ASSUME NEW w \in Workers, w = v,
                \/ HeartbeatError(w) \/ Complete(w) \/ CompleteError(w) \/ Fail(w)
                \/ FailError(w) \/ CallbackDone(w) \/ Start(w) \/ Crash(w)
         PROVE  FALSE
    BY <1>0, <1>10 DEF HeartbeatError, Complete, CompleteError, Fail, FailError, CallbackDone,
                       Start, Crash, AfterFinally, Idle, Slept, Protected, WorkerState
  <1>11. ASSUME Tick
         PROVE  /\ Holds(v, worker[v].job)'
                /\ row'[worker'[v].job].lockAge <= worker'[v].beatAge
                /\ worker'[v].beatAge <= HeartbeatEvery + MaxLateness
    <2>1. /\ worker'[v].pc = worker[v].pc /\ worker'[v].job = worker[v].job
          /\ worker'[v].beat = worker[v].beat
      BY <1>0, <1>11 DEF Tick, WorkerState
    <2>2. Protected(v) /\ Active(v)
      BY <2>1 DEF Protected, Active
    <2>3. worker'[v].beatAge = worker[v].beatAge + 1
      BY <1>0, <1>11, <2>2 DEF Tick, WorkerState, Protected
    <2>4. worker[v].beatAge < HeartbeatEvery + MaxLateness
      BY <1>0, <1>11, <2>2 DEF Tick, HeartbeatDue, WorkerState, Protected
    <2>5. /\ row'[k].status = row[k].status /\ row'[k].lockedBy = row[k].lockedBy
          /\ row'[k].lockAge <= row[k].lockAge + 1
      BY <1>1, <1>11, <2>2 DEF Tick, Older, Row
    <2>6. row'[k].lockAge \in Nat /\ row[k].lockAge \in Nat /\ worker[v].beatAge \in Nat
      BY <1>0, <1>1, <1>11, <2>2 DEF Tick, Older, Row, WorkerState
    <2>7. QED
      BY <1>0, <2>1, <2>2, <2>3, <2>4, <2>5, <2>6 DEF LeasesRenewed, Holds
  <1>12. CASE UNCHANGED vars
    BY <1>2, <1>12 DEF vars, Protected
  <1>13. CASE \E j \in Jobs : Enqueue(j)
    BY <1>2, <1>3, <1>13 DEF Enqueue, Protected
  <1>14. ASSUME NEW w \in Workers, WorkerStep(w) \/ Heartbeat(w) \/ FaultStep(w) \/ Start(w)
         PROVE  /\ Holds(v, worker[v].job)'
                /\ row'[worker'[v].job].lockAge <= worker'[v].beatAge
                /\ worker'[v].beatAge <= HeartbeatEvery + MaxLateness
    <2>1. CASE w = v
      <3>1. ASSUME NEW j \in Jobs, ClaimReplyLost(w, j) PROVE ~Protected(v)'
        BY <2>1, <3>1 DEF ClaimReplyLost, Protected
      <3>2. QED
        BY <1>2, <1>5, <1>6, <1>9, <1>10, <1>14, <2>1, <3>1 DEF WorkerStep, FaultStep
    <2>2. CASE w # v
      <3>1. worker'[v] = worker[v] /\ Protected(v)
        BY <1>8, <1>14, <2>2
      <3>2. row'[k] = row[k]
        BY <1>4, <1>7, <1>14, <2>2, <3>1
           DEF WorkerStep, FaultStep, HandlerReturns, HandlerRaises, CallbackDone, Start, Crash
      <3>3. QED
        BY <1>2, <3>1, <3>2
    <2>3. QED
      BY <2>1, <2>2
  <1>15. QED
    BY <1>11, <1>12, <1>13, <1>14 DEF Next

\* As long as heartbeats run at most Lease - HeartbeatEvery late, no two
\* workers whose heartbeat is alive work on the same job.
THEOREM ExclusiveLease == ASSUME Punctual PROVE Spec => []LeaseIsExclusive
  <1>1. Inv /\ LeasesRenewed /\ [Next]_vars => LeasesRenewed'
    BY LeasesStep
  <1>2. LeasesRenewed => LeaseIsExclusive
    BY DEF LeasesRenewed, LeaseIsExclusive, Holds
  <1>3. QED
    BY <1>1, <1>2, LeasesInit, Invariance, PTL DEF Spec

-----------------------------------------------------------------------------
(* Attempts beyond max_attempts *)

\* A running job whose attempt nobody protects has already had a fault that
\* pays for the claim to come.
AttemptsPaid ==
    \A j \in Jobs :
        /\ row[j].attempts <= MaxAttempts + faults
        /\ row[j].status = "running" =>
              \/ row[j].attempts < MaxAttempts + faults
              \/ \E w \in Workers : Protected(w) /\ worker[w].job = j

LEMMA PaidStep ==
  Punctual /\ Inv /\ LeasesRenewed /\ AttemptsPaid /\ [Next]_vars => AttemptsPaid'
  <1> SUFFICES ASSUME Punctual, Inv, LeasesRenewed, AttemptsPaid, [Next]_vars,
                      NEW k \in Jobs
               PROVE  /\ row'[k].attempts <= MaxAttempts + faults'
                      /\ row'[k].status = "running" =>
                            \/ row'[k].attempts < MaxAttempts + faults'
                            \/ \E w \in Workers : Protected(w)' /\ worker'[w].job = k
    BY DEF AttemptsPaid
  <1> USE DEF Inv, TypeInv, TypeOK
  <1>1. /\ MaxAttempts \in Nat \ {0} /\ faults \in Nat /\ row[k].attempts \in Nat
        /\ Lease \in Nat /\ MaxLateness \in Nat /\ HeartbeatEvery \in Nat
    BY SettingsValid, EnvironmentBounds, HeartbeatEveryPositive
       DEF SettingsValid, EnvironmentBounds, Row
  <1>2. faults' = faults \/ faults' = faults + 1
    BY DEF Next, vars, Enqueue, WorkerStep, FaultStep, Start, Tick, Claim, ClaimReplyLost,
           Heartbeat, HeartbeatError, HandlerReturns, HandlerRaises, Complete, CompleteError,
           Fail, FailError, CallbackDone, Crash, Fault
  <1>3. ASSUME row'[k].attempts = row[k].attempts,
               row'[k].status = "running" => row[k].status = "running",
               \/ faults' = faults + 1
               \/ \A w \in Workers : Protected(w) /\ worker[w].job = k =>
                                        \/ Protected(w)' /\ worker'[w].job = k
                                        \/ row'[k].status # "running"
        PROVE  /\ row'[k].attempts <= MaxAttempts + faults'
               /\ row'[k].status = "running" =>
                     \/ row'[k].attempts < MaxAttempts + faults'
                     \/ \E w \in Workers : Protected(w)' /\ worker'[w].job = k
    BY <1>1, <1>2, <1>3 DEF AttemptsPaid
  \* Every step but a claim leaves the attempts, and ends a protection only
  \* together with the run or by a fault.
  <1>4. ASSUME ~AClaim
        PROVE  /\ row'[k].attempts = row[k].attempts
               /\ row'[k].status = "running" => row[k].status = "running"
    BY <1>4, RowStepsWithoutClaim
       DEF EnqueuesRow, QueuedRow, NoRow, ReleasesRow, Holds, Completed, Failed, Released,
           KeepsRows, RowsConsistent
  <1>5. ASSUME NEW w \in Workers, faults' = faults, Protected(w), worker[w].job = k,
               \A j \in Jobs : ~Claim(w, j)
        PROVE  \/ Protected(w)' /\ worker'[w].job = k
               \/ row'[k].status # "running"
    <2>1. Holds(w, k) /\ worker[w] \in WorkerState /\ row[k] \in Row
      BY <1>5 DEF LeasesRenewed
    <2>2. CASE UNCHANGED worker[w]
      BY <1>5, <2>2 DEF Protected
    <2>3. CASE HandlerReturns(w) \/ HandlerRaises(w) \/ Heartbeat(w)
      BY <1>5, <2>1, <2>3
         DEF HandlerReturns, HandlerRaises, Heartbeat, Slept, Protected, WorkerState
    <2>4. CASE Complete(w) \/ Fail(w)
      BY <1>5, <2>1, <2>4 DEF Complete, Fail, UpdateHeld, Completed, Failed, Released
    <2>5. CASE Tick
      BY <1>5, <2>1, <2>5 DEF Tick, Protected, WorkerState
    <2>6. CASE \E v \in Workers : v # w /\ (WorkerStep(v) \/ Heartbeat(v) \/ Start(v))
      <3>1. UNCHANGED worker[w]
        BY <2>6 DEF WorkerStep, Start, Claim, Heartbeat, HandlerReturns, HandlerRaises,
                    Complete, Fail, CallbackDone
      <3>2. QED
        BY <2>2, <3>1
    <2>7. ~CallbackDone(w) /\ ~Start(w)
      BY <1>5 DEF CallbackDone, Start, Protected
    <2>8. ASSUME NEW v \in Workers PROVE ~FaultStep(v)
      BY <1>1, <1>5 DEF FaultStep, ClaimReplyLost, HeartbeatError, CompleteError, FailError,
                        Crash, Fault
    <2>9. CASE (\E j \in Jobs : Enqueue(j)) \/ UNCHANGED vars
      BY <2>2, <2>9 DEF Enqueue, vars
    <2>10. QED
      BY <1>5, <2>3, <2>4, <2>5, <2>6, <2>7, <2>8, <2>9 DEF Next, WorkerStep
  \* A claim finds attempts to spare, or a run that nobody protects.
  <1>6. ASSUME NEW w \in Workers, Claim(w, k) \/ ClaimReplyLost(w, k)
        PROVE  row[k].attempts < MaxAttempts + faults
    <2>1. \A v \in Workers : Protected(v) /\ worker[v].job = k => ~(row[k].lockAge > Lease)
      BY <1>1 DEF LeasesRenewed, Punctual, WorkerState, Row
    <2>2. CASE row[k].status = "running"
      BY <1>6, <2>1, <2>2 DEF Claim, ClaimReplyLost, Claimable, AttemptsPaid
    <2>3. CASE row[k].status # "running"
      BY <1>1, <1>6, <2>3
         DEF Claim, ClaimReplyLost, Claimable, RowsConsistent, RetriesAreAccounted
    <2>4. QED
      BY <2>2, <2>3
  <1>7. ASSUME NEW w \in Workers, Claim(w, k) \/ ClaimReplyLost(w, k)
        PROVE  /\ row'[k].attempts <= MaxAttempts + faults'
               /\ row'[k].status = "running" =>
                     \/ row'[k].attempts < MaxAttempts + faults'
                     \/ \E v \in Workers : Protected(v)' /\ worker'[v].job = k
    <2>1. row'[k].attempts = row[k].attempts + 1
      BY <1>7 DEF Claim, ClaimReplyLost, Claimed
    <2>2. CASE Claim(w, k)
      <3>1. Protected(w)' /\ worker'[w].job = k /\ faults' = faults
        BY <2>2 DEF Claim, Protected
      <3>2. QED
        BY <1>1, <1>6, <1>7, <2>1, <3>1 DEF Protected
    <2>3. CASE ClaimReplyLost(w, k)
      <3>1. row[k].attempts < MaxAttempts + faults
        BY <1>6, <1>7
      <3>2. faults' = faults + 1
        BY <2>3 DEF ClaimReplyLost, Fault
      <3>3. QED
        BY <1>1, <2>1, <3>1, <3>2
    <2>4. QED
      BY <1>7, <2>2, <2>3
  <1>8. ASSUME NEW w \in Workers, NEW j \in Jobs, j # k, Claim(w, j) \/ ClaimReplyLost(w, j)
        PROVE  /\ row'[k] = row[k]
               /\ \A v \in Workers : Protected(v) => worker'[v] = worker[v]
    BY <1>8 DEF Claim, ClaimReplyLost, Protected
  <1>9. CASE AClaim
    <2>1. CASE \E w \in Workers : Claim(w, k) \/ ClaimReplyLost(w, k)
      BY <1>7, <2>1
    <2>2. CASE \E w \in Workers, j \in Jobs : j # k /\ (Claim(w, j) \/ ClaimReplyLost(w, j))
      <3>1. row'[k] = row[k] /\ \A v \in Workers : Protected(v) => worker'[v] = worker[v]
        BY <1>8, <2>2
      <3>2. \A v \in Workers : Protected(v) => Protected(v)' /\ worker'[v].job = worker[v].job
        BY <3>1 DEF Protected
      <3>3. QED
        BY <1>3, <3>1, <3>2
    <2>3. QED
      BY <1>9, <2>1, <2>2 DEF AClaim
  <1>10. CASE ~AClaim
    <2>1. \A w \in Workers, j \in Jobs : ~Claim(w, j)
      BY <1>10 DEF AClaim
    <2>2. \/ faults' = faults + 1
          \/ \A w \in Workers : Protected(w) /\ worker[w].job = k =>
                                   \/ Protected(w)' /\ worker'[w].job = k
                                   \/ row'[k].status # "running"
      BY <1>2, <1>5, <2>1
    <2>3. /\ row'[k].attempts = row[k].attempts
          /\ row'[k].status = "running" => row[k].status = "running"
      BY <1>4, <1>10
    <2>4. QED
      BY <1>3, <2>2, <2>3
  <1>11. QED
    BY <1>9, <1>10

\* While heartbeats are punctual, the attempts of a job exceed max_attempts by
\* no more than the crashes and failed database calls there were.
THEOREM ExtraAttempts == ASSUME Punctual PROVE Spec => []ExtraAttemptsComeFromFaults
  <1>1. Init => AttemptsPaid
    BY SettingsValid DEF SettingsValid, Init, NoRow, AttemptsPaid
  <1>2. Inv /\ LeasesRenewed /\ [Next]_vars => LeasesRenewed'
    BY LeasesStep
  <1>3. Inv /\ LeasesRenewed /\ AttemptsPaid /\ [Next]_vars => AttemptsPaid'
    BY PaidStep
  <1>4. AttemptsPaid => ExtraAttemptsComeFromFaults
    BY DEF AttemptsPaid, ExtraAttemptsComeFromFaults
  <1>5. QED
    BY <1>1, <1>2, <1>3, <1>4, LeasesInit, Invariance, PTL DEF Spec

=============================================================================
