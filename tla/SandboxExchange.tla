--------------------------- MODULE SandboxExchange ---------------------------
(***************************************************************************)
(* The exchange of request and result files between the review workers     *)
(* and the sandbox: build_repository_intelligence and                      *)
(* _submit_filesystem_sandbox of review_intelligence.py on one side, the   *)
(* server of sandbox_service.py on the other.                              *)
(*                                                                         *)
(* A call is one run of build_repository_intelligence; its request id is a *)
(* fresh uuid, so the call stands for its request, its result and its      *)
(* workspace.  Both sides share one volume and one clock.  A rename is one *)
(* step; a temporary file is not seen by the other side and is left out.   *)
(***************************************************************************)
EXTENDS Naturals, FiniteSets

CONSTANTS
    Calls,          \* runs of build_repository_intelligence
    Nobody,         \* no call
    Modes,          \* the values REVIEW_SANDBOX_MODE may have
    Commands,       \* how many commands a request carries
    Timeout,        \* REVIEW_SANDBOX_REQUEST_TIMEOUT_SECONDS
    CommandTimeout, \* REVIEW_SANDBOX_COMMAND_TIMEOUT_SECONDS
    Margin,         \* what the request's deadline leaves of the timeout, 5 s
    MaxTime,        \* bound: the last instant
    MaxCrashes      \* bound: how often the server dies

ASSUME NobodyIsNoCall == Nobody \notin Calls

ASSUME ModesKnown == Modes \subseteq {"filesystem", "local"}

\* The program refuses timeouts below 1; at 1 the deadline leaves no margin.
ASSUME TimeoutsArePositive ==
    /\ Timeout \in Nat \ {0, 1} /\ CommandTimeout \in Nat \ {0} /\ Margin \in Nat \ {0}
    /\ Commands \in Nat /\ MaxTime \in Nat /\ MaxCrashes \in Nat

VARIABLES
    now,            \* the clock, in seconds
    call,           \* the local state of every call
    workspace,      \* the calls whose workspace directory exists
    place,          \* the directory a call's request file is in
    result,         \* the result file of every call, {} when there is none
    server,         \* the local state of the server
    crashes,        \* how often the server died
    answered,       \* history: how many result files were written for a call
    lost,           \* history: calls whose request died with the server
    lag             \* history: seconds a call's wait was held up, at most Timeout - Span

files == <<workspace, place, result>>
history == <<answered, lost, lag>>
vars == <<now, call, files, server, crashes, history>>

-----------------------------------------------------------------------------
(* Types *)

\* What became of a command: it ended, it was cut off or never started
\* (124), or its tool is missing (127).  "error" is a result with an error
\* and no commands.
Outcomes == {"ended", "cut", "missing", "error"}

Call(pc, created, verdict) == [pc |-> pc, created |-> created, verdict |-> verdict]

CallType == [pc : {"new", "cloned", "waiting", "leaving", "gone", "dead"},
             created : Nat,
             verdict : {"none", "completed", "raised", "timeout"}]

\* batch: what the loop of serve still has to look at; done: how many of the
\* request's commands are over; until: when the running one is killed.
Server(pc, batch, request, done, until, answer) ==
    [pc |-> pc, batch |-> batch, request |-> request, done |-> done, until |-> until,
     answer |-> answer]

ServerType == [pc : {"down", "ready", "check", "next", "command", "unlink", "write"},
               batch : SUBSET Calls, request : Calls \cup {Nobody},
               done : Nat, until : Nat, answer : SUBSET Outcomes]

TypeOK ==
    /\ now \in Nat
    /\ call \in [Calls -> CallType]
    /\ workspace \subseteq Calls
    /\ place \in [Calls -> {"none", "requests", "running"}]
    /\ result \in [Calls -> SUBSET Outcomes]
    /\ server \in ServerType
    /\ crashes \in Nat
    /\ answered \in [Calls -> Nat]
    /\ lost \subseteq Calls
    /\ lag \in [Calls -> Nat]

Ready(batch) == Server("ready", batch, Nobody, 0, 0, {})

Down == Server("down", {}, Nobody, 0, 0, {})

Init ==
    /\ now = 0
    /\ call = [c \in Calls |-> Call("new", 0, "none")]
    /\ workspace = {}
    /\ place = [c \in Calls |-> "none"]
    /\ result = [c \in Calls |-> {}]
    /\ server = Ready({})
    /\ crashes = 0
    /\ answered = [c \in Calls |-> 0]
    /\ lost = {}
    /\ lag = [c \in Calls |-> 0]

-----------------------------------------------------------------------------
(* The call *)

Smaller(a, b) == IF a < b THEN a ELSE b

Larger(a, b) == IF a < b THEN b ELSE a

\* How long after its creation a request may still be worked on.
Span == IF Timeout < Margin + 1 THEN 1 ELSE Timeout - Margin

Deadline(c) == call[c].created + Span

Leave(c, verdict) ==
    call' = [call EXCEPT ![c] = Call("leaving", call[c].created, verdict)]

\* The workspace is made and the head cloned into it; the clone may fail.
Prepare(c) ==
    /\ call[c].pc = "new"
    /\ workspace' = workspace \cup {c}
    /\ \/ call' = [call EXCEPT ![c] = Call("cloned", 0, "none")]
       \/ Leave(c, "raised")
    /\ UNCHANGED <<now, place, result, server, crashes, history>>

\* The request appears under its final name at once.
Submit(c) ==
    /\ call[c].pc = "cloned"
    /\ "filesystem" \in Modes
    /\ now + Timeout <= MaxTime
    /\ call' = [call EXCEPT ![c] = Call("waiting", now, "none")]
    /\ place' = [place EXCEPT ![c] = "requests"]
    /\ UNCHANGED <<now, workspace, result, server, crashes, history>>

\* In mode "local" the commands run in the calling process: each has a
\* timeout, together they have none, and a missing tool is not an error.
RunLocally(c) ==
    /\ call[c].pc = "cloned"
    /\ "local" \in Modes
    /\ Leave(c, "completed")
    /\ UNCHANGED <<now, files, server, crashes, history>>

Verdict(answer) ==
    IF answer \cap {"error", "missing"} = {} THEN "completed" ELSE "raised"

TakeAnswer(c) ==
    /\ call[c].pc = "waiting"
    /\ now < call[c].created + Timeout
    /\ result[c] # {}
    /\ Leave(c, Verdict(result[c]))
    /\ result' = [result EXCEPT ![c] = {}]
    /\ UNCHANGED <<now, workspace, place, server, crashes, history>>

\* Mutant: the call waits on for a request the server has taken.
GiveUpUntaken(c) ==
    /\ call[c].pc = "waiting"
    /\ now >= call[c].created + Timeout
    /\ place[c] = "requests"
    /\ Leave(c, "timeout")
    /\ place' = [place EXCEPT ![c] = "none"]
    /\ UNCHANGED <<now, workspace, result, server, crashes, history>>

\* The loop ends without another look at the results.  Only a request the
\* server has not taken is withdrawn.
GiveUp(c) ==
    /\ call[c].pc = "waiting"
    /\ now >= call[c].created + Timeout
    /\ Leave(c, "timeout")
    /\ place' = [place EXCEPT ![c] = IF @ = "requests" THEN "none" ELSE @]
    /\ UNCHANGED <<now, workspace, result, server, crashes, history>>

\* The finally clause.  rmtree ignores errors: a command that still writes
\* into the workspace can keep it from being removed.
CleanUp(c) ==
    /\ call[c].pc = "leaving"
    /\ call' = [call EXCEPT ![c] = Call("gone", call[c].created, call[c].verdict)]
    /\ workspace' \in {workspace \ {c}} \cup
          (IF server.pc = "command" /\ server.request = c THEN {workspace} ELSE {})
    /\ UNCHANGED <<now, place, result, server, crashes, history>>

\* The worker's process ends; all its files stay.
Die(c) ==
    /\ call[c].pc \in {"cloned", "waiting", "leaving"}
    /\ call' = [call EXCEPT ![c] = Call("dead", call[c].created, call[c].verdict)]
    /\ UNCHANGED <<now, files, server, crashes, history>>

-----------------------------------------------------------------------------
(* The server *)

Requests == {c \in Calls : place[c] = "requests"}

\* The loop lists the requests and then works through that list.
Scan ==
    /\ server.pc = "ready"
    /\ server.batch = {}
    /\ Requests # {}
    /\ server' = Ready(Requests)
    /\ UNCHANGED <<now, call, files, crashes, history>>

\* A request that was withdrawn meanwhile is passed over.
Take(c) ==
    /\ server.pc = "ready"
    /\ c \in server.batch
    /\ IF place[c] = "requests"
       THEN /\ server' = Server("check", server.batch \ {c}, c, 0, 0, {})
            /\ place' = [place EXCEPT ![c] = "running"]
       ELSE /\ server' = Ready(server.batch \ {c})
            /\ UNCHANGED place
    /\ UNCHANGED <<now, call, workspace, result, crashes, history>>

To(pc, done, until, answer) ==
    server' = Server(pc, server.batch, server.request, done, until, answer)

\* The payload is read and checked, and the workspace handed to the child
\* user.  Any exception makes the result an error.
Check ==
    /\ server.pc = "check"
    /\ \/ server.request \in workspace /\ To("next", 0, 0, {"ended"})
       \/ To("unlink", 0, 0, {"error"})
    /\ UNCHANGED <<now, call, files, crashes, history>>

Remaining == Deadline(server.request) - now

\* Mutant: a command is not cut to what the request's deadline leaves.
StartCommandUncut ==
    /\ server.pc = "next"
    /\ server.done < Commands
    /\ now < Deadline(server.request)
    /\ To("command", server.done, now + CommandTimeout, server.answer)
    /\ UNCHANGED <<now, call, files, crashes, history>>

StartCommand ==
    /\ server.pc = "next"
    /\ server.done < Commands
    /\ now < Deadline(server.request)
    /\ IF server.request \in workspace
       THEN To("command", server.done, now + Smaller(CommandTimeout, Remaining), server.answer)
       ELSE To("unlink", 0, 0, {"error"})
    /\ UNCHANGED <<now, call, files, crashes, history>>

SkipCommand ==
    /\ server.pc = "next"
    /\ server.done < Commands
    /\ now >= Deadline(server.request)
    /\ To("next", server.done + 1, 0, server.answer \cup {"cut"})
    /\ UNCHANGED <<now, call, files, crashes, history>>

\* A command ends, cannot be started, or is killed when its time is over.  Any
\* other exception (output that cannot be decoded, a kill that is refused)
\* makes the whole result an error, whatever commands are left.
EndCommand ==
    /\ server.pc = "command"
    /\ \/ \E outcome \in {"ended", "missing"} \cup (IF now = server.until THEN {"cut"} ELSE {}) :
             To("next", server.done + 1, 0, server.answer \cup {outcome})
       \/ To("unlink", 0, 0, {"error"})
    /\ UNCHANGED <<now, call, files, crashes, history>>

AllDone ==
    /\ server.pc = "next"
    /\ server.done = Commands
    /\ To("unlink", 0, 0, server.answer)
    /\ UNCHANGED <<now, call, files, crashes, history>>

\* Mutant: the running file stays.
UnlinkNothing ==
    /\ server.pc = "unlink"
    /\ To("write", 0, 0, server.answer)
    /\ UNCHANGED <<now, call, files, crashes, history>>

\* The finally clause: the running file goes before the result is there.
Unlink ==
    /\ server.pc = "unlink"
    /\ To("write", 0, 0, server.answer)
    /\ place' = [place EXCEPT ![server.request] = "none"]
    /\ UNCHANGED <<now, call, workspace, result, crashes, history>>

Write ==
    /\ server.pc = "write"
    /\ server' = Ready(server.batch)
    /\ result' = [result EXCEPT ![server.request] = server.answer]
    /\ answered' = [answered EXCEPT ![server.request] = @ + 1]
    /\ UNCHANGED <<now, call, workspace, place, crashes, lost, lag>>

\* The container stops, or the result cannot be written, which no handler
\* catches.
Crash ==
    /\ crashes < MaxCrashes
    /\ server.pc # "down"
    /\ server' = Down
    /\ crashes' = crashes + 1
    /\ lost' = IF server.pc = "write" THEN lost \cup {server.request} ELSE lost
    /\ UNCHANGED <<now, call, files, answered, lag>>

\* Mutant: what was running when the server died is forgotten.
RestartAfresh ==
    /\ server.pc = "down"
    /\ server' = Ready({})
    /\ UNCHANGED <<now, call, files, crashes, history>>

\* serve begins by returning what was running to the requests.
Restart ==
    /\ server.pc = "down"
    /\ server' = Ready({})
    /\ place' = [c \in Calls |-> IF place[c] = "running" THEN "requests" ELSE place[c]]
    /\ UNCHANGED <<now, call, workspace, result, crashes, history>>

-----------------------------------------------------------------------------
(* Time *)

\* Something other than a command of its own keeps c waiting: the server is
\* down, is busy with another call or has not reacted yet, or the answer is
\* there and the call has not looked.
HeldUp(c) ==
    \/ server.pc \notin {"ready", "command"}
    \/ server.pc = "command" /\ server.request # c
    \/ server.pc = "ready" /\ (server.batch # {} \/ Requests # {})
    \/ result[c] # {}

\* Processes may be slow; only the kill of a command is punctual.
Tick ==
    /\ now < MaxTime
    /\ server.pc = "command" => now < server.until
    /\ now' = now + 1
    /\ lag' = [c \in Calls |-> IF call[c].pc = "waiting" /\ HeldUp(c) /\ lag[c] < Timeout - Span
                               THEN lag[c] + 1 ELSE lag[c]]
    /\ UNCHANGED <<call, files, server, crashes, answered, lost>>

CallStep(c) ==
    \/ Prepare(c) \/ Submit(c) \/ RunLocally(c) \/ TakeAnswer(c) \/ GiveUp(c) \/ CleanUp(c)

ServerStep ==
    \/ Scan \/ Check \/ StartCommand \/ SkipCommand \/ EndCommand \/ AllDone
    \/ Unlink \/ Write \/ (\E c \in Calls : Take(c))

Next ==
    \/ \E c \in Calls : CallStep(c) \/ Die(c)
    \/ ServerStep \/ Crash \/ Restart
    \/ Tick

Spec == Init /\ [][Next]_vars

(***************************************************************************)
(* A worker that lives takes its next step, commands are killed in time    *)
(* and the clock goes on.  Nothing is assumed of the server.               *)
(***************************************************************************)
FairSpec ==
    /\ Spec
    /\ \A c \in Calls : WF_vars(TakeAnswer(c) \/ GiveUp(c) \/ CleanUp(c))
    /\ WF_vars(EndCommand)
    /\ WF_vars(Tick)

-----------------------------------------------------------------------------
(* Properties *)

\* A request is executed again when the server dies during it
\* (sandbox_service.py, serve), and yet no call gets a second result file.
AnsweredOnce == \A c \in Calls : answered[c] <= 1

\* Nobody executes a command for a call that has left, whose workspace is
\* being removed: the deadline in the request passes before the call gives
\* up, and no command starts or goes on after it (_process_request), not
\* even when a restart brings back a request that was given up.
CommandsHaveAWaiter ==
    server.pc = "command" =>
        /\ now <= Deadline(server.request)
        /\ call[server.request].pc \in {"waiting", "dead"}

\* A call that lives times out only when its request died between the two
\* steps that end it (_process_request, lines 200 and 201), or when it was
\* held up for as long as the margin: a death of the server during a command
\* alone never costs the answer.
TimeoutHasACause ==
    \A c \in Calls :
        call[c].verdict = "timeout" => c \in lost \/ lag[c] >= Timeout - Span

\* No call waits for ever, whatever becomes of the server.
EveryCallEnds ==
    \A c \in Calls :
        call[c].pc \in {"waiting", "leaving"} ~> call[c].pc \in {"gone", "dead"}

=============================================================================
