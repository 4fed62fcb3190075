------------------------ MODULE SandboxExchangeProofs ------------------------
(***************************************************************************)
(* Theorems about SandboxExchange, for any number of calls, commands,      *)
(* timeouts and deaths of the server.                                      *)
(***************************************************************************)
EXTENDS SandboxExchange, TLAPS

-----------------------------------------------------------------------------
(* What the steps do to call and server *)

CallsTyped == call \in [Calls -> CallType]

CallPlaces == {"new", "cloned", "waiting", "leaving", "gone", "dead"}

Verdicts == {"none", "completed", "raised", "timeout"}

\* One call changes.
CallBecomes(c, pc, created, verdict) ==
    /\ call' \in [Calls -> CallType]
    /\ \A d \in Calls \ {c} : call'[d] = call[d]
    /\ call'[c].pc = pc
    /\ call'[c].created = created
    /\ call'[c].verdict = verdict

LEMMA CallReplaced ==
  ASSUME CallsTyped, NEW c \in Calls, NEW pc \in CallPlaces, NEW created \in Nat,
         NEW verdict \in Verdicts,
         call' = [call EXCEPT ![c] = Call(pc, created, verdict)]
  PROVE  CallBecomes(c, pc, created, verdict)
  BY DEF CallsTyped, CallType, Call, CallBecomes, CallPlaces, Verdicts

LEMMA CallFields ==
  ASSUME CallsTyped, NEW c \in Calls
  PROVE  /\ call[c].pc \in CallPlaces
         /\ call[c].created \in Nat
         /\ call[c].verdict \in Verdicts
  BY DEF CallsTyped, CallType, CallPlaces, Verdicts

LEMMA LeaveBecomes ==
  ASSUME CallsTyped, NEW c \in Calls, NEW verdict \in Verdicts, Leave(c, verdict)
  PROVE  CallBecomes(c, "leaving", call[c].created, verdict)
  BY CallFields, CallReplaced DEF Leave, CallPlaces

VerdictTyped == \A answer : Verdict(answer) \in Verdicts

LEMMA CallSteps ==
  ASSUME CallsTyped, NEW c \in Calls, now \in Nat
  PROVE  /\ Prepare(c) =>
              \/ CallBecomes(c, "cloned", 0, "none")
              \/ CallBecomes(c, "leaving", call[c].created, "raised")
         /\ Submit(c) => CallBecomes(c, "waiting", now, "none")
         /\ RunLocally(c) => CallBecomes(c, "leaving", call[c].created, "completed")
         /\ TakeAnswer(c) =>
              CallBecomes(c, "leaving", call[c].created, Verdict(result[c]))
         /\ GiveUp(c) => CallBecomes(c, "leaving", call[c].created, "timeout")
         /\ CleanUp(c) => CallBecomes(c, "gone", call[c].created, call[c].verdict)
         /\ Die(c) => CallBecomes(c, "dead", call[c].created, call[c].verdict)
  <1>1. /\ {"cloned", "waiting", "leaving", "gone", "dead"} \subseteq CallPlaces
        /\ {"none", "raised", "completed", "timeout"} \subseteq Verdicts
        /\ 0 \in Nat
    BY DEF CallPlaces, Verdicts
  <1>2. VerdictTyped
    BY DEF VerdictTyped, Verdict, Verdicts
  <1>3. Prepare(c) => \/ CallBecomes(c, "cloned", 0, "none")
                      \/ CallBecomes(c, "leaving", call[c].created, "raised")
    BY <1>1, CallReplaced, LeaveBecomes DEF Prepare
  <1>4. Submit(c) => CallBecomes(c, "waiting", now, "none")
    BY <1>1, CallReplaced DEF Submit
  <1>5. RunLocally(c) => CallBecomes(c, "leaving", call[c].created, "completed")
    BY <1>1, LeaveBecomes DEF RunLocally
  <1>6. TakeAnswer(c) => CallBecomes(c, "leaving", call[c].created, Verdict(result[c]))
    BY <1>2, LeaveBecomes DEF TakeAnswer, VerdictTyped
  <1>7. GiveUp(c) => CallBecomes(c, "leaving", call[c].created, "timeout")
    BY <1>1, LeaveBecomes DEF GiveUp
  <1>8. CleanUp(c) => CallBecomes(c, "gone", call[c].created, call[c].verdict)
    BY <1>1, CallFields, CallReplaced DEF CleanUp
  <1>9. Die(c) => CallBecomes(c, "dead", call[c].created, call[c].verdict)
    BY <1>1, CallFields, CallReplaced DEF Die
  <1>10. QED
    BY <1>3, <1>4, <1>5, <1>6, <1>7, <1>8, <1>9

Busy == {"check", "next", "command", "unlink", "write"}

\* The server changes.
ServerBecomes(pc, batch, request, done, until, answer) ==
    /\ server' \in ServerType
    /\ server'.pc = pc
    /\ server'.batch = batch
    /\ server'.request = request
    /\ server'.done = done
    /\ server'.until = until
    /\ server'.answer = answer

LEMMA ServerReplaced ==
  ASSUME NEW pc \in Busy \cup {"down", "ready"}, NEW batch \in SUBSET Calls,
         NEW request \in Calls \cup {Nobody}, NEW done \in Nat, NEW until \in Nat,
         NEW answer \in SUBSET Outcomes,
         server' = Server(pc, batch, request, done, until, answer)
  PROVE  ServerBecomes(pc, batch, request, done, until, answer)
  BY DEF Server, ServerType, ServerBecomes, Busy

LEMMA ToBecomes ==
  ASSUME server \in ServerType, NEW pc \in Busy, NEW done \in Nat, NEW until \in Nat,
         NEW answer \in SUBSET Outcomes, To(pc, done, until, answer)
  PROVE  ServerBecomes(pc, server.batch, server.request, done, until, answer)
  <1>1. server.batch \in SUBSET Calls /\ server.request \in Calls \cup {Nobody}
    BY DEF ServerType
  <1>2. QED
    BY <1>1, ServerReplaced DEF To

LEMMA ReadyBecomes ==
  ASSUME NEW batch \in SUBSET Calls, server' = Ready(batch)
  PROVE  ServerBecomes("ready", batch, Nobody, 0, 0, {})
  BY ServerReplaced DEF Ready

LEMMA DownBecomes ==
  ASSUME server' = Down
  PROVE  ServerBecomes("down", {}, Nobody, 0, 0, {})
  BY ServerReplaced DEF Down

-----------------------------------------------------------------------------
(* Type correctness *)

\* A server that is busy is busy with a call.
Named == server.pc \in Busy => server.request \in Calls

Typed == TypeOK /\ Named

LEMMA SpanTyped ==
  /\ Span \in Nat \ {0} /\ Span < Timeout
  /\ CommandTimeout \in Nat \ {0}
  BY TimeoutsArePositive DEF Span

LEMMA StartCommandSteps ==
  ASSUME Typed, StartCommand
  PROVE  \/ /\ ServerBecomes("command", server.batch, server.request, server.done,
                             now + Smaller(CommandTimeout, Remaining), server.answer)
            /\ now <= now + Smaller(CommandTimeout, Remaining)
            /\ now + Smaller(CommandTimeout, Remaining) <= Deadline(server.request)
         \/ ServerBecomes("unlink", server.batch, server.request, 0, 0, {"error"})
  <1>1. /\ server \in ServerType /\ server.request \in Calls /\ now \in Nat
        /\ server.done \in Nat /\ server.answer \in SUBSET Outcomes /\ CallsTyped
    BY DEF Typed, TypeOK, Named, StartCommand, Busy, ServerType, CallsTyped
  <1>2. Deadline(server.request) \in Nat
    BY <1>1, CallFields, SpanTyped DEF Deadline
  <1>3. /\ Smaller(CommandTimeout, Remaining) \in Nat
        /\ now <= now + Smaller(CommandTimeout, Remaining)
        /\ now + Smaller(CommandTimeout, Remaining) <= Deadline(server.request)
    BY <1>1, <1>2, SpanTyped DEF StartCommand, Smaller, Remaining
  <1>4. {"command", "unlink"} \subseteq Busy /\ {"error"} \subseteq Outcomes /\ 0 \in Nat
    BY DEF Busy, Outcomes
  <1> HIDE DEF Busy
  <1>5. now + Smaller(CommandTimeout, Remaining) \in Nat
    BY <1>1, <1>3
  <1>6. QED
    BY <1>1, <1>3, <1>4, <1>5, ToBecomes DEF StartCommand

LEMMA ServerSteps ==
  ASSUME Typed
  PROVE  /\ Check =>
              \/ ServerBecomes("next", server.batch, server.request, 0, 0, {"ended"})
              \/ ServerBecomes("unlink", server.batch, server.request, 0, 0, {"error"})
         /\ SkipCommand =>
              ServerBecomes("next", server.batch, server.request, server.done + 1, 0,
                            server.answer \cup {"cut"})
         /\ EndCommand =>
              \/ \E outcome \in Outcomes :
                    ServerBecomes("next", server.batch, server.request, server.done + 1, 0,
                                  server.answer \cup {outcome})
              \/ ServerBecomes("unlink", server.batch, server.request, 0, 0, {"error"})
         /\ AllDone =>
              ServerBecomes("unlink", server.batch, server.request, 0, 0, server.answer)
         /\ Unlink =>
              ServerBecomes("write", server.batch, server.request, 0, 0, server.answer)
         /\ Write => ServerBecomes("ready", server.batch, Nobody, 0, 0, {})
         /\ Scan => ServerBecomes("ready", Requests, Nobody, 0, 0, {})
         /\ Crash => ServerBecomes("down", {}, Nobody, 0, 0, {})
         /\ Restart => ServerBecomes("ready", {}, Nobody, 0, 0, {})
  <1>1. /\ server \in ServerType /\ server.done \in Nat /\ server.answer \in SUBSET Outcomes
        /\ server.batch \in SUBSET Calls /\ server.done + 1 \in Nat /\ 0 \in Nat
        /\ Requests \in SUBSET Calls /\ {} \in SUBSET Calls
    BY DEF Typed, TypeOK, ServerType, Requests
  <1>2. {"next", "unlink", "write"} \subseteq Busy
    BY DEF Busy
  <1>3. \A o \in {"ended", "error", "cut", "missing"} :
            {o} \in SUBSET Outcomes /\ server.answer \cup {o} \in SUBSET Outcomes
    BY <1>1 DEF Outcomes
  <1>4. Check => \/ ServerBecomes("next", server.batch, server.request, 0, 0, {"ended"})
                 \/ ServerBecomes("unlink", server.batch, server.request, 0, 0, {"error"})
    BY <1>1, <1>2, <1>3, ToBecomes DEF Check
  <1>5. SkipCommand => ServerBecomes("next", server.batch, server.request, server.done + 1, 0,
                                     server.answer \cup {"cut"})
    BY <1>1, <1>2, <1>3, ToBecomes DEF SkipCommand
  <1>6. ASSUME EndCommand
        PROVE  \/ \E outcome \in Outcomes :
                     ServerBecomes("next", server.batch, server.request, server.done + 1, 0,
                                   server.answer \cup {outcome})
               \/ ServerBecomes("unlink", server.batch, server.request, 0, 0, {"error"})
    <2>1. CASE To("unlink", 0, 0, {"error"})
      BY <1>1, <1>2, <1>3, <2>1, ToBecomes
    <2>2. ASSUME NEW outcome \in {"ended", "missing", "cut"},
                 To("next", server.done + 1, 0, server.answer \cup {outcome})
          PROVE  ServerBecomes("next", server.batch, server.request, server.done + 1, 0,
                               server.answer \cup {outcome})
      BY <1>1, <1>2, <1>3, <2>2, ToBecomes
    <2>3. QED
      BY <1>3, <1>6, <2>1, <2>2 DEF EndCommand, Outcomes
  <1>7. AllDone => ServerBecomes("unlink", server.batch, server.request, 0, 0, server.answer)
    BY <1>1, <1>2, ToBecomes DEF AllDone
  <1>8. Unlink => ServerBecomes("write", server.batch, server.request, 0, 0, server.answer)
    BY <1>1, <1>2, ToBecomes DEF Unlink
  <1>9. /\ Write => ServerBecomes("ready", server.batch, Nobody, 0, 0, {})
        /\ Scan => ServerBecomes("ready", Requests, Nobody, 0, 0, {})
        /\ Crash => ServerBecomes("down", {}, Nobody, 0, 0, {})
        /\ Restart => ServerBecomes("ready", {}, Nobody, 0, 0, {})
    BY <1>1, ReadyBecomes, DownBecomes DEF Write, Scan, Crash, Restart
  <1>10. QED
    BY <1>4, <1>5, <1>6, <1>7, <1>8, <1>9

LEMMA TakeSteps ==
  ASSUME Typed, NEW c \in Calls, Take(c)
  PROVE  \/ /\ place[c] = "requests"
            /\ ServerBecomes("check", server.batch \ {c}, c, 0, 0, {})
            /\ place' = [place EXCEPT ![c] = "running"]
         \/ ServerBecomes("ready", server.batch \ {c}, Nobody, 0, 0, {}) /\ UNCHANGED place
  <1>1. server.batch \ {c} \in SUBSET Calls /\ "check" \in Busy
    BY DEF Typed, TypeOK, ServerType, Busy
  <1>2. QED
    BY <1>1, ServerReplaced, ReadyBecomes DEF Take

LEMMA StepTyped ==
  ASSUME Typed, [Next]_vars
  PROVE  Typed'
  <1> TypeOK /\ Named /\ CallsTyped
    BY DEF Typed, TypeOK, CallsTyped
  <1>1. ASSUME NEW c \in Calls, CallStep(c) \/ Die(c)
        PROVE  Typed'
    <2>1. call' \in [Calls -> CallType]
      <3>1. now \in Nat
        BY DEF TypeOK
      <3>2. QED
        BY <1>1, <3>1, CallSteps DEF CallStep, CallBecomes
    <2>2. workspace' \subseteq Calls
      BY <1>1 DEF TypeOK, CallStep, Prepare, Submit, RunLocally, TakeAnswer, GiveUp, CleanUp,
                  Die, files
    <2>3. place' \in [Calls -> {"none", "requests", "running"}]
      BY <1>1 DEF TypeOK, CallStep, Prepare, Submit, RunLocally, TakeAnswer, GiveUp, CleanUp,
                  Die, files
    <2>4. result' \in [Calls -> SUBSET Outcomes]
      BY <1>1 DEF TypeOK, CallStep, Prepare, Submit, RunLocally, TakeAnswer, GiveUp, CleanUp,
                  Die, files
    <2>5. UNCHANGED <<now, server, crashes, history>>
      BY <1>1 DEF CallStep, Prepare, Submit, RunLocally, TakeAnswer, GiveUp, CleanUp, Die
    <2>6. QED
      BY <2>1, <2>2, <2>3, <2>4, <2>5 DEF Typed, TypeOK, Named, history
  <1>2. ASSUME Scan \/ Check \/ StartCommand \/ SkipCommand \/ EndCommand \/ AllDone
        PROVE  Typed'
    <2>1. \E pc \in Busy \cup {"ready"} : \E batch, done, until, answer :
              \/ ServerBecomes("ready", batch, Nobody, done, until, answer)
              \/ server.pc \in Busy /\ ServerBecomes(pc, batch, server.request, done, until, answer)
      BY <1>2, ServerSteps, StartCommandSteps
         DEF Busy, Check, StartCommand, SkipCommand, EndCommand, AllDone
    <2>2. server' \in ServerType /\ Named'
      BY <2>1 DEF ServerBecomes, Named, Busy
    <2>3. UNCHANGED <<now, call, files, crashes, history>>
      BY <1>2 DEF Scan, Check, StartCommand, SkipCommand, EndCommand, AllDone
    <2>4. QED
      BY <2>2, <2>3 DEF Typed, TypeOK, files, history
  <1>3. CASE Unlink
    <2>1. server' \in ServerType /\ Named'
      BY <1>3, ServerSteps DEF ServerBecomes, Named, Busy, Unlink
    <2>2. place' \in [Calls -> {"none", "requests", "running"}]
      BY <1>3 DEF TypeOK, Unlink
    <2>3. QED
      BY <1>3, <2>1, <2>2 DEF Typed, TypeOK, Unlink, history
  <1>4. CASE Write
    <2>1. server' \in ServerType /\ Named'
      BY <1>4, ServerSteps DEF ServerBecomes, Named, Busy
    <2>2. server.answer \in SUBSET Outcomes
      BY DEF TypeOK, ServerType
    <2>3. result' \in [Calls -> SUBSET Outcomes] /\ answered' \in [Calls -> Nat]
      <3>1. /\ result' = [result EXCEPT ![server.request] = server.answer]
            /\ answered' = [answered EXCEPT ![server.request] = @ + 1]
            /\ server.request \in Calls
        BY <1>4 DEF Write, Named, Busy
      <3>2. result \in [Calls -> SUBSET Outcomes] /\ answered \in [Calls -> Nat]
        BY DEF TypeOK
      <3>3. QED
        BY <2>2, <3>1, <3>2
    <2>4. QED
      BY <1>4, <2>1, <2>3 DEF Typed, TypeOK, Write
  <1>5. ASSUME NEW c \in Calls, Take(c)
        PROVE  Typed'
    <2>1. server' \in ServerType /\ Named'
      BY <1>5, TakeSteps DEF ServerBecomes, Named, Busy
    <2>2. place' \in [Calls -> {"none", "requests", "running"}]
      BY <1>5, TakeSteps DEF TypeOK
    <2>3. QED
      BY <1>5, <2>1, <2>2 DEF Typed, TypeOK, Take, history
  <1>6. CASE Crash
    <2>1. server' \in ServerType /\ Named'
      BY <1>6, ServerSteps DEF ServerBecomes, Named, Busy
    <2>2. lost' \subseteq Calls
      BY <1>6 DEF Crash, TypeOK, Named, Busy
    <2>3. crashes' \in Nat
      BY <1>6 DEF Crash, TypeOK
    <2>4. QED
      BY <1>6, <2>1, <2>2, <2>3 DEF Typed, TypeOK, Crash, files
  <1>7. CASE Restart
    <2>1. server' \in ServerType /\ Named'
      BY <1>7, ServerSteps DEF ServerBecomes, Named, Busy
    <2>2. place' \in [Calls -> {"none", "requests", "running"}]
      BY <1>7 DEF TypeOK, Restart
    <2>3. QED
      BY <1>7, <2>1, <2>2 DEF Typed, TypeOK, Restart, history
  <1>8. CASE Tick
    <2>1. lag' \in [Calls -> Nat] /\ now' \in Nat
      BY <1>8 DEF Tick, TypeOK
    <2>2. QED
      BY <1>8, <2>1 DEF Typed, TypeOK, Named, Tick, files
  <1>9. CASE UNCHANGED vars
    BY <1>9 DEF Typed, TypeOK, Named, vars, files, history
  <1>10. QED
    BY <1>1, <1>2, <1>3, <1>4, <1>5, <1>6, <1>7, <1>8, <1>9 DEF Next, ServerStep

LEMMA InitTyped ==
  ASSUME Init
  PROVE  Typed
  <1>1. server \in ServerType /\ Named
    BY DEF Init, Ready, Server, ServerType, Named, Busy
  <1>2. call \in [Calls -> CallType]
    BY DEF Init, Call, CallType
  <1>3. QED
    BY <1>1, <1>2 DEF Init, Typed, TypeOK

\* The calls, the files and the server keep their types.
THEOREM TypeCorrect == Spec => []TypeOK
  <1>1. Init => Typed
    BY InitTyped
  <1>2. Typed /\ [Next]_vars => Typed'
    BY StepTyped
  <1>3. Typed => TypeOK
    BY DEF Typed
  <1>4. QED
    BY <1>1, <1>2, <1>3, PTL DEF Spec

-----------------------------------------------------------------------------
(* One result for a call *)

Fresh(c) == call[c].pc \in {"new", "cloned"}

Holds(c) == server.pc \in Busy /\ server.request = c

\* A request is open while it is a file or in the server's hands.
Open(c) == place[c] # "none" \/ Holds(c)

Single(c) ==
    /\ Fresh(c) => ~ Open(c) /\ answered[c] = 0
    /\ Holds(c) => place[c] = (IF server.pc = "write" THEN "none" ELSE "running")
    /\ Open(c) => answered[c] = 0
    /\ answered[c] <= 1

Singles == Typed /\ \A c \in Calls : Single(c)

\* A call that the step leaves as it is, or closes.
LEMMA SingleKept ==
  ASSUME NEW c \in Calls, Single(c), answered'[c] = answered[c],
         Fresh(c)' => Fresh(c),
         Holds(c)' => Holds(c) /\ place'[c] = (IF server'.pc = "write" THEN "none" ELSE "running"),
         place'[c] # "none" => Open(c)
  PROVE  Single(c)'
  BY DEF Single, Open

LEMMA CallStepSingle ==
  ASSUME Singles, NEW c \in Calls, CallStep(c) \/ Die(c), NEW d \in Calls
  PROVE  Single(d)'
  <1>0. /\ Single(d) /\ UNCHANGED <<server, answered>> /\ CallsTyped /\ now \in Nat
        /\ place \in [Calls -> {"none", "requests", "running"}]
    BY DEF Singles, Typed, TypeOK, CallsTyped, CallStep, Prepare, Submit, RunLocally, TakeAnswer,
           GiveUp, CleanUp, Die, history
  <1>1. Holds(d)' <=> Holds(d)
    BY <1>0 DEF Holds
  <1>2. CASE Submit(c)
    <2>1. CallBecomes(c, "waiting", now, "none")
      BY <1>0, <1>2, CallSteps
    <2>2. CASE d = c
      BY <1>0, <1>1, <1>2, <2>1, <2>2 DEF Single, Submit, Fresh, Open, CallBecomes, Holds
    <2>3. CASE d # c
      <3>1. place'[d] = place[d] /\ call'[d] = call[d]
        BY <1>0, <1>2, <2>1, <2>3 DEF Submit, CallBecomes
      <3>2. QED
        BY <1>0, <1>1, <3>1 DEF Single, Fresh, Open, Holds
    <2>4. QED
      BY <2>2, <2>3
  <1>3. CASE ~ Submit(c)
    <2>1. place'[d] = place[d] \/ (place[d] = "requests" /\ place'[d] = "none")
      BY <1>0, <1>3 DEF CallStep, Prepare, RunLocally, TakeAnswer, GiveUp, CleanUp, Die, files
    <2>2. Fresh(d)' => Fresh(d)
      <3>1. \E pc, created, verdict :
                /\ CallBecomes(c, pc, created, verdict)
                /\ pc \in {"new", "cloned"} => Fresh(c)
        BY <1>0, <1>3, CallSteps DEF CallStep, Prepare, Fresh
      <3>2. QED
        BY <3>1 DEF Fresh, CallBecomes
    <2>3. Holds(d)' => place'[d] = (IF server'.pc = "write" THEN "none" ELSE "running")
      BY <1>0, <1>1, <2>1 DEF Single
    <2>4. QED
      BY <1>0, <1>1, <2>1, <2>2, <2>3, SingleKept DEF Open
  <1>4. QED
    BY <1>2, <1>3

LEMMA ServerStepSingle ==
  ASSUME Singles, ServerStep \/ Crash \/ Restart, NEW d \in Calls
  PROVE  Single(d)'
  <1>0. /\ Single(d) /\ Typed /\ UNCHANGED call /\ (Fresh(d)' <=> Fresh(d))
        /\ place \in [Calls -> {"none", "requests", "running"}] /\ answered \in [Calls -> Nat]
        /\ (server.pc \in Busy => server.request \in Calls)
    BY DEF Singles, Typed, TypeOK, Named, Fresh, ServerStep, Scan, Check, StartCommand, SkipCommand,
           EndCommand, AllDone, Unlink, Write, Take, Crash, Restart
  <1>1. CASE Check \/ StartCommand \/ SkipCommand \/ EndCommand \/ AllDone
    <2>1. \E pc \in {"next", "command", "unlink"} : \E done, until, answer :
              ServerBecomes(pc, server.batch, server.request, done, until, answer)
      BY <1>0, <1>1, ServerSteps, StartCommandSteps
    <2>2. server.pc \in {"check", "next", "command"} /\ UNCHANGED <<place, answered>>
      BY <1>1 DEF Check, StartCommand, SkipCommand, EndCommand, AllDone, files, history
    <2>3. QED
      BY <1>0, <2>1, <2>2, SingleKept DEF ServerBecomes, Single, Holds, Open, Busy
  <1>2. CASE Scan \/ Crash \/ Restart
    <2>1. server'.pc \notin Busy /\ UNCHANGED answered
      BY <1>0, <1>2, ServerSteps DEF ServerBecomes, Scan, Crash, Restart, history, Busy
    <2>2. place'[d] # "none" => place[d] # "none"
      BY <1>0, <1>2 DEF Scan, Crash, Restart, files
    <2>3. QED
      BY <1>0, <2>1, <2>2, SingleKept DEF Holds, Open
  <1>3. CASE Unlink
    <2>1. /\ ServerBecomes("write", server.batch, server.request, 0, 0, server.answer)
          /\ server.pc = "unlink" /\ place' = [place EXCEPT ![server.request] = "none"]
          /\ UNCHANGED answered
      BY <1>0, <1>3, ServerSteps DEF Unlink, history
    <2>2. CASE d = server.request
      BY <1>0, <2>1, <2>2, SingleKept DEF ServerBecomes, Single, Holds, Open, Busy
    <2>3. CASE d # server.request
      BY <1>0, <2>1, <2>3, SingleKept DEF ServerBecomes, Single, Holds, Open, Busy
    <2>4. QED
      BY <2>2, <2>3
  <1>4. CASE Write
    <2>1. /\ ServerBecomes("ready", server.batch, Nobody, 0, 0, {})
          /\ server.pc = "write" /\ UNCHANGED place
          /\ answered' = [answered EXCEPT ![server.request] = @ + 1]
      BY <1>0, <1>4, ServerSteps DEF Write
    <2>2. ~ Holds(d)'
      BY <2>1 DEF ServerBecomes, Holds, Busy
    <2>3. CASE d = server.request
      <3>1. Holds(d) /\ place[d] = "none" /\ answered[d] = 0 /\ ~ Fresh(d)
        BY <1>0, <2>1, <2>3 DEF Single, Holds, Open, Busy
      <3>2. answered'[d] = 1 /\ place'[d] = "none"
        BY <1>0, <2>1, <2>3, <3>1
      <3>3. QED
        BY <1>0, <2>2, <3>1, <3>2 DEF Single, Open
    <2>4. CASE d # server.request
      <3>1. answered'[d] = answered[d] /\ place'[d] = place[d]
        BY <1>0, <2>1, <2>4
      <3>2. QED
        BY <1>0, <2>2, <3>1, SingleKept DEF Open
    <2>5. QED
      BY <2>3, <2>4
  <1>5. ASSUME NEW c \in Calls, Take(c)
        PROVE  Single(d)'
    <2>1. server.pc = "ready" /\ UNCHANGED answered
      BY <1>5 DEF Take, history
    <2>2. CASE /\ place[c] = "requests"
               /\ ServerBecomes("check", server.batch \ {c}, c, 0, 0, {})
               /\ place' = [place EXCEPT ![c] = "running"]
      BY <1>0, <2>1, <2>2 DEF Single, Holds, Open, ServerBecomes, Busy
    <2>3. CASE ServerBecomes("ready", server.batch \ {c}, Nobody, 0, 0, {}) /\ UNCHANGED place
      BY <1>0, <2>1, <2>3, SingleKept DEF Holds, Open, ServerBecomes, Busy
    <2>4. QED
      BY <1>0, <1>5, <2>2, <2>3, TakeSteps
  <1>6. QED
    BY <1>1, <1>2, <1>3, <1>4, <1>5 DEF ServerStep

LEMMA StepSingles ==
  ASSUME Singles, [Next]_vars
  PROVE  Singles'
  <1>1. Typed'
    BY StepTyped DEF Singles
  <1>2. CASE Tick \/ UNCHANGED vars
    BY <1>1, <1>2 DEF Singles, Single, Fresh, Holds, Open, Tick, vars, files, history
  <1>3. QED
    BY <1>1, <1>2, CallStepSingle, ServerStepSingle DEF Singles, Next

LEMMA InitSingles ==
  ASSUME Init
  PROVE  Singles
  <1>1. server.pc = "ready"
    BY DEF Init, Ready, Server
  <1>2. QED
    BY <1>1, InitTyped DEF Init, Singles, Single, Fresh, Holds, Open, Busy

\* No call gets two result files, however often its request is executed.
THEOREM OneAnswer == Spec => []AnsweredOnce
  <1>1. Init => Singles
    BY InitSingles
  <1>2. Singles /\ [Next]_vars => Singles'
    BY StepSingles
  <1>3. Singles => AnsweredOnce
    BY DEF Singles, Single, AnsweredOnce
  <1>4. QED
    BY <1>1, <1>2, <1>3, PTL DEF Spec

-----------------------------------------------------------------------------
(* Commands and those who wait for them *)

\* An open request is waited for, or its time is over.
Awaited(c) ==
    Open(c) => call[c].pc \in {"waiting", "dead"} \/ now >= call[c].created + Timeout

Answered(c) == result[c] # {} => answered[c] # 0

Punctual ==
    server.pc = "command" => now <= server.until /\ server.until <= Deadline(server.request)

Timely == Singles /\ (\A c \in Calls : Awaited(c) /\ Answered(c)) /\ Punctual

LEMMA CallStepTimely ==
  ASSUME Timely, NEW c \in Calls, CallStep(c) \/ Die(c)
  PROVE  (\A d \in Calls : Awaited(d)' /\ Answered(d)') /\ Punctual'
  <1>0. /\ UNCHANGED <<now, server, answered>> /\ CallsTyped /\ now \in Nat
        /\ Singles /\ Single(c) /\ Awaited(c) /\ Answered(c) /\ Named
        /\ place \in [Calls -> {"none", "requests", "running"}]
        /\ result \in [Calls -> SUBSET Outcomes]
    BY DEF Timely, Singles, Typed, TypeOK, CallsTyped, CallStep, Prepare, Submit, RunLocally,
           TakeAnswer, GiveUp, CleanUp, Die, history
  <1>1. /\ \A d \in Calls \ {c} : call'[d] = call[d] /\ place'[d] = place[d] /\ result'[d] = result[d]
        /\ result'[c] \in {result[c], {}}
        /\ call'[c].created = call[c].created \/ Fresh(c)
    <2>1. \E pc, created, verdict :
              /\ CallBecomes(c, pc, created, verdict)
              /\ created = call[c].created \/ Fresh(c)
      BY <1>0, CallSteps DEF CallStep, Prepare, Submit, Fresh
    <2>2. /\ \A d \in Calls \ {c} : place'[d] = place[d] /\ result'[d] = result[d]
          /\ result'[c] \in {result[c], {}}
      BY <1>0 DEF CallStep, Prepare, Submit, RunLocally, TakeAnswer, GiveUp, CleanUp, Die, files
    <2>3. QED
      BY <2>1, <2>2 DEF CallBecomes
  <1>2. \A d \in Calls : Answered(d)'
    BY <1>0, <1>1 DEF Timely, Answered
  <1>3. ASSUME NEW d \in Calls \ {c}
        PROVE  Awaited(d)'
    BY <1>0, <1>1 DEF Timely, Awaited, Open, Holds
  <1>4. Awaited(c)'
    <2>1. CASE Submit(c)
      <3>1. CallBecomes(c, "waiting", now, "none")
        BY <1>0, <2>1, CallSteps
      <3>2. QED
        BY <3>1 DEF Awaited, CallBecomes
    <2>2. CASE Prepare(c) \/ RunLocally(c) \/ TakeAnswer(c)
      <3>1. ~ Open(c)
        BY <1>0, <2>2 DEF Single, Answered, Fresh, Prepare, RunLocally, TakeAnswer
      <3>2. UNCHANGED place
        BY <2>2 DEF Prepare, RunLocally, TakeAnswer, files
      <3>3. QED
        BY <1>0, <3>1, <3>2 DEF Awaited, Open, Holds
    <2>3. CASE GiveUp(c)
      <3>1. CallBecomes(c, "leaving", call[c].created, "timeout")
            /\ now >= call[c].created + Timeout
        BY <1>0, <2>3, CallSteps DEF GiveUp
      <3>2. QED
        BY <1>0, <3>1 DEF Awaited, CallBecomes
    <2>4. CASE CleanUp(c)
      <3>1. CallBecomes(c, "gone", call[c].created, call[c].verdict)
            /\ call[c].pc = "leaving" /\ UNCHANGED place
        BY <1>0, <2>4, CallSteps DEF CleanUp
      <3>2. Open(c)' => now >= call[c].created + Timeout
        BY <1>0, <3>1 DEF Awaited, Open, Holds
      <3>3. QED
        BY <1>0, <3>1, <3>2 DEF Awaited, CallBecomes
    <2>5. CASE Die(c)
      <3>1. CallBecomes(c, "dead", call[c].created, call[c].verdict)
        BY <1>0, <2>5, CallSteps
      <3>2. QED
        BY <3>1 DEF Awaited, CallBecomes
    <2>6. QED
      BY <2>1, <2>2, <2>3, <2>4, <2>5 DEF CallStep
  <1>5. Punctual'
    <2> SUFFICES ASSUME server.pc = "command"
                 PROVE  now <= server.until /\ server.until <= Deadline(server.request)'
      BY <1>0 DEF Punctual
    <2>1. /\ server.request \in Calls /\ Single(server.request) /\ Holds(server.request)
          /\ now <= server.until /\ server.until <= Deadline(server.request)
      BY <1>0 DEF Timely, Singles, Named, Busy, Punctual, Holds
    <2>2. call'[server.request].created = call[server.request].created
      BY <1>1, <2>1 DEF Single, Open
    <2>3. QED
      BY <1>0, <2>1, <2>2 DEF Deadline
  <1>6. QED
    BY <1>2, <1>3, <1>4, <1>5

LEMMA ServerStepTimely ==
  ASSUME Timely, ServerStep \/ Crash \/ Restart
  PROVE  (\A d \in Calls : Awaited(d)' /\ Answered(d)') /\ Punctual'
  <1>0. /\ UNCHANGED <<now, call>> /\ Typed
        /\ place \in [Calls -> {"none", "requests", "running"}]
        /\ result \in [Calls -> SUBSET Outcomes] /\ answered \in [Calls -> Nat]
        /\ (server.pc \in Busy => server.request \in Calls)
        /\ \A d \in Calls : Awaited(d) /\ Answered(d) /\ Single(d)
    BY DEF Timely, Singles, Typed, TypeOK, Named, ServerStep, Scan, Check, StartCommand, SkipCommand,
           EndCommand, AllDone, Unlink, Write, Take, Crash, Restart
  <1>1. CASE StartCommand
    <2>1. UNCHANGED <<place, result, answered>> /\ server.pc \in Busy
      BY <1>1 DEF StartCommand, files, history, Busy
    <2>2. \E pc \in Busy : \E done, until, answer :
              /\ ServerBecomes(pc, server.batch, server.request, done, until, answer)
              /\ pc = "command" => now <= until /\ until <= Deadline(server.request)
      BY <1>0, <1>1, StartCommandSteps DEF Busy
    <2>3. \A d \in Calls : Open(d)' <=> Open(d)
      BY <2>1, <2>2 DEF Open, Holds, ServerBecomes
    <2>4. Punctual'
      BY <1>0, <2>2 DEF Punctual, ServerBecomes, Deadline
    <2>5. QED
      BY <1>0, <2>1, <2>3, <2>4 DEF Awaited, Answered
  <1>2. CASE (ServerStep /\ ~ StartCommand) \/ Crash \/ Restart
    <2>1. server'.pc # "command"
      <3>1. CASE Check \/ SkipCommand \/ EndCommand \/ AllDone \/ Unlink
        BY <1>0, <3>1, ServerSteps DEF ServerBecomes
      <3>2. CASE Write \/ Scan \/ Crash \/ Restart
        BY <1>0, <3>2, ServerSteps DEF ServerBecomes
      <3>3. CASE \E c \in Calls : Take(c)
        BY <1>0, <3>3, TakeSteps DEF ServerBecomes
      <3>4. QED
        BY <1>2, <3>1, <3>2, <3>3 DEF ServerStep
    <2>2. \A d \in Calls : Open(d)' => Open(d)
      <3>1. CASE Check \/ SkipCommand \/ EndCommand \/ AllDone \/ Unlink
        <4>1. /\ server.pc \in Busy /\ server'.request = server.request
              /\ \A d \in Calls : place'[d] # "none" => place[d] # "none"
          BY <1>0, <3>1, ServerSteps
             DEF ServerBecomes, Check, SkipCommand, EndCommand, AllDone, Unlink, files, Busy
        <4>2. QED
          BY <4>1 DEF Open, Holds
      <3>2. CASE Write \/ Scan \/ Crash \/ Restart
        <4>1. /\ server'.pc \notin Busy
              /\ \A d \in Calls : place'[d] # "none" => place[d] # "none"
          BY <1>0, <3>2, ServerSteps DEF ServerBecomes, Write, Scan, Crash, Restart, files, Busy
        <4>2. QED
          BY <4>1 DEF Open, Holds
      <3>3. ASSUME NEW c \in Calls, Take(c)
            PROVE  \A d \in Calls : Open(d)' => Open(d)
        BY <1>0, <3>3, TakeSteps DEF ServerBecomes, Open, Holds, Busy
      <3>4. QED
        BY <1>2, <3>1, <3>2, <3>3 DEF ServerStep
    <2>3. \A d \in Calls : Answered(d)'
      <3>1. CASE Write
        <4>1. /\ result' = [result EXCEPT ![server.request] = server.answer]
              /\ answered' = [answered EXCEPT ![server.request] = @ + 1]
          BY <3>1 DEF Write
        <4>2. QED
          BY <1>0, <4>1 DEF Answered
      <3>2. CASE ~ Write
        <4>1. UNCHANGED <<result, answered>>
          BY <1>2, <3>2 DEF ServerStep, Scan, Check, SkipCommand, EndCommand, AllDone, Unlink, Take,
                            Crash, Restart, files, history
        <4>2. QED
          BY <1>0, <4>1 DEF Answered
      <3>3. QED
        BY <3>1, <3>2
    <2>4. QED
      BY <1>0, <2>1, <2>2, <2>3 DEF Awaited, Punctual
  <1>3. QED
    BY <1>1, <1>2

LEMMA StepTimely ==
  ASSUME Timely, [Next]_vars
  PROVE  Timely'
  <1>1. Singles'
    BY StepSingles DEF Timely
  <1>2. CASE Tick
    <2>1. /\ now' = now + 1 /\ UNCHANGED <<call, place, result, server, answered>>
          /\ (server.pc = "command" => now < server.until)
      BY <1>2 DEF Tick, files
    <2>2. /\ now \in Nat /\ server.until \in Nat
          /\ \A c \in Calls : call[c].created \in Nat
      BY CallFields DEF Timely, Singles, Typed, TypeOK, ServerType, CallsTyped
    <2>3. \A c \in Calls : Awaited(c)' /\ Answered(c)'
      BY <2>1, <2>2, SpanTyped, TimeoutsArePositive DEF Timely, Awaited, Answered, Open, Holds
    <2>4. Punctual'
      BY <2>1, <2>2 DEF Timely, Punctual, Deadline
    <2>5. QED
      BY <1>1, <2>3, <2>4 DEF Timely
  <1>3. CASE UNCHANGED vars
    BY <1>1, <1>3
       DEF Timely, Awaited, Answered, Punctual, Open, Holds, Deadline, vars, files, history
  <1>4. QED
    BY <1>1, <1>2, <1>3, CallStepTimely, ServerStepTimely DEF Timely, Next

\* A command runs only for a call that still waits, or that died waiting.
THEOREM CommandsAwaited == Spec => []CommandsHaveAWaiter
  <1>1. Init => Timely
    <2> SUFFICES ASSUME Init PROVE Timely
      OBVIOUS
    <2>1. server.pc = "ready"
      BY DEF Init, Ready, Server
    <2>2. QED
      BY <2>1, InitSingles
         DEF Init, Timely, Awaited, Answered, Punctual, Open, Holds, Busy
  <1>2. Timely /\ [Next]_vars => Timely'
    BY StepTimely
  <1>3. Timely => CommandsHaveAWaiter
    <2> SUFFICES ASSUME Timely, server.pc = "command"
                 PROVE  /\ now <= Deadline(server.request)
                        /\ call[server.request].pc \in {"waiting", "dead"}
      BY DEF CommandsHaveAWaiter
    <2>1. /\ server.request \in Calls /\ now \in Nat /\ server.until \in Nat
          /\ call[server.request].created \in Nat
      BY CallFields DEF Timely, Singles, Typed, TypeOK, Named, Busy, ServerType, CallsTyped
    <2>2. now <= Deadline(server.request)
      BY <2>1, SpanTyped DEF Timely, Punctual, Deadline
    <2>3. ~ (now >= call[server.request].created + Timeout)
      BY <2>1, <2>2, SpanTyped, TimeoutsArePositive DEF Deadline
    <2>4. QED
      BY <2>1, <2>2, <2>3 DEF Timely, Awaited, Open, Holds, Busy
  <1>4. QED
    BY <1>1, <1>2, <1>3, PTL DEF Spec

-----------------------------------------------------------------------------
(* Why a call that lives may time out *)

\* The request of a call that waits is somewhere, unless the server lost it.
InHand(c) ==
    call[c].pc = "waiting" /\ c \notin lost =>
        \/ place[c] = "requests" \/ Holds(c) \/ result[c] # {}
        \/ place[c] = "running" /\ server.pc = "down"

Enough(c) == lag[c] >= Timeout - Span

\* The clock goes on without a delay of the call only while a command of its
\* own runs, and that is before the deadline.
Patient(c) ==
    call[c].pc = "waiting" /\ c \notin lost => Enough(c) \/ now <= Deadline(c) + lag[c]

Excused(c) == call[c].verdict = "timeout" => c \in lost \/ Enough(c)

\* What the server is about to write is a result.
Speaks == server.pc \in Busy \ {"check"} => server.answer # {}

Patience == Timely /\ Speaks /\ \A c \in Calls : InHand(c) /\ Patient(c) /\ Excused(c)

LEMMA CallStepPatience ==
  ASSUME Patience, NEW c \in Calls, CallStep(c) \/ Die(c)
  PROVE  Speaks' /\ \A d \in Calls : InHand(d)' /\ Patient(d)' /\ Excused(d)'
  <1>1. /\ UNCHANGED <<now, server, lost, lag>> /\ CallsTyped /\ now \in Nat
        /\ InHand(c) /\ Patient(c) /\ Excused(c)
        /\ place \in [Calls -> {"none", "requests", "running"}]
        /\ result \in [Calls -> SUBSET Outcomes] /\ lag[c] \in Nat
        /\ call[c].created \in Nat /\ Timeout \in Nat /\ Span \in Nat
    BY CallFields, SpanTyped, TimeoutsArePositive
    DEF Patience, Timely, Singles, Typed, TypeOK, CallsTyped, CallStep, Prepare, Submit, RunLocally,
        TakeAnswer, GiveUp, CleanUp, Die, history
  <1>2. Speaks'
    BY <1>1 DEF Patience, Speaks
  <1>3. /\ \A d \in Calls \ {c} : place'[d] = place[d] /\ result'[d] = result[d]
        /\ \A d \in Calls \ {c} : call'[d] = call[d]
    <2>1. \E pc, created, verdict : CallBecomes(c, pc, created, verdict)
      BY <1>1, CallSteps DEF CallStep
    <2>2. \A d \in Calls \ {c} : place'[d] = place[d] /\ result'[d] = result[d]
      BY <1>1 DEF CallStep, Prepare, Submit, RunLocally, TakeAnswer, GiveUp, CleanUp, Die, files
    <2>3. QED
      BY <2>1, <2>2 DEF CallBecomes
  <1>4. ASSUME NEW d \in Calls \ {c}
        PROVE  InHand(d)' /\ Patient(d)' /\ Excused(d)'
    BY <1>1, <1>3 DEF Patience, InHand, Patient, Excused, Holds, Enough, Deadline
  <1>5. InHand(c)' /\ Patient(c)' /\ Excused(c)'
    <2>1. CASE Submit(c)
      <3>1. CallBecomes(c, "waiting", now, "none") /\ place'[c] = "requests"
        BY <1>1, <2>1, CallSteps DEF Submit
      <3>2. now <= Deadline(c)'
        BY <1>1, <3>1 DEF Deadline, CallBecomes
      <3>3. QED
        BY <1>1, <3>1, <3>2 DEF InHand, Patient, Excused, CallBecomes, Deadline
    <2>2. CASE GiveUp(c)
      <3>1. /\ CallBecomes(c, "leaving", call[c].created, "timeout")
            /\ call[c].pc = "waiting" /\ now >= call[c].created + Timeout
        BY <1>1, <2>2, CallSteps DEF GiveUp
      <3>2. c \in lost \/ Enough(c)
        BY <1>1, <3>1 DEF Patient, Enough, Deadline
      <3>3. QED
        BY <1>1, <3>1, <3>2 DEF InHand, Patient, Excused, CallBecomes, Enough
    <2>3. CASE ~ Submit(c) /\ ~ GiveUp(c)
      <3>1. Verdict(result[c]) # "timeout"
        BY DEF Verdict
      <3>2. PICK pc, created, verdict :
                /\ CallBecomes(c, pc, created, verdict)
                /\ pc # "waiting"
                /\ verdict = "timeout" => call[c].verdict = "timeout"
        BY <1>1, <2>3, <3>1, CallSteps DEF CallStep
      <3>3. QED
        BY <1>1, <3>2 DEF InHand, Patient, Excused, CallBecomes, Enough
    <2>4. QED
      BY <2>1, <2>2, <2>3
  <1>6. QED
    BY <1>2, <1>4, <1>5

\* Where a step of the server leaves the request of a call that waits.
LEMMA ServerStepInHand ==
  ASSUME Patience, ServerStep \/ Crash \/ Restart, NEW d \in Calls
  PROVE  Speaks' /\ InHand(d)'
  <1>1. /\ UNCHANGED call /\ Typed /\ InHand(d) /\ Single(d) /\ Speaks
        /\ place \in [Calls -> {"none", "requests", "running"}]
        /\ result \in [Calls -> SUBSET Outcomes]
        /\ (server.pc \in Busy => server.request \in Calls)
    BY DEF Patience, Timely, Singles, Typed, TypeOK, Named, ServerStep, Scan, Check, StartCommand,
           SkipCommand, EndCommand, AllDone, Unlink, Write, Take, Crash, Restart
  <1>2. CASE Check \/ StartCommand \/ SkipCommand \/ EndCommand \/ AllDone
    <2>1. PICK pc \in {"next", "command", "unlink"} : \E done, until, answer :
              /\ ServerBecomes(pc, server.batch, server.request, done, until, answer)
              /\ answer # {}
      <3>1. \A a : {a} # {} /\ server.answer \cup {a} # {}
        OBVIOUS
      <3>2. StartCommand \/ AllDone => server.answer # {}
        BY <1>1 DEF StartCommand, AllDone, Speaks, Busy
      <3>3. QED
        BY <1>1, <1>2, <3>1, <3>2, ServerSteps, StartCommandSteps
    <2>2. server.pc \in Busy /\ UNCHANGED <<place, result, lost>>
      BY <1>2 DEF Check, StartCommand, SkipCommand, EndCommand, AllDone, files, history, Busy
    <2>3. QED
      BY <1>1, <2>1, <2>2 DEF ServerBecomes, InHand, Holds, Speaks, Busy
  <1>3. CASE Scan
    <2>1. server.pc = "ready" /\ server'.pc = "ready" /\ UNCHANGED <<place, result, lost>>
      BY <1>1, <1>3, ServerSteps DEF ServerBecomes, Scan, files, history
    <2>2. QED
      BY <1>1, <2>1 DEF InHand, Holds, Speaks, Busy
  <1>4. CASE Crash
    <2>1. /\ server'.pc = "down" /\ server.pc # "down" /\ UNCHANGED <<place, result>>
          /\ lost' = (IF server.pc = "write" THEN lost \cup {server.request} ELSE lost)
      BY <1>1, <1>4, ServerSteps DEF ServerBecomes, Crash, files
    <2>2. Holds(d) /\ server.pc # "write" => place[d] = "running"
      BY <1>1 DEF Single
    <2>3. QED
      BY <1>1, <2>1, <2>2 DEF InHand, Holds, Speaks, Busy
  <1>5. CASE Restart
    <2>1. /\ server'.pc = "ready" /\ server.pc = "down" /\ UNCHANGED <<result, lost>>
          /\ place' = [c \in Calls |-> IF place[c] = "running" THEN "requests" ELSE place[c]]
      BY <1>1, <1>5, ServerSteps DEF ServerBecomes, Restart, history
    <2>2. QED
      BY <1>1, <2>1 DEF InHand, Holds, Speaks, Busy
  <1>6. CASE Unlink
    <2>1. /\ ServerBecomes("write", server.batch, server.request, 0, 0, server.answer)
          /\ server.pc = "unlink" /\ place' = [place EXCEPT ![server.request] = "none"]
          /\ UNCHANGED <<result, lost>>
      BY <1>1, <1>6, ServerSteps DEF Unlink, history
    <2>2. QED
      BY <1>1, <2>1 DEF ServerBecomes, InHand, Holds, Speaks, Busy
  <1>7. CASE Write
    <2>1. /\ server'.pc = "ready" /\ server.pc = "write" /\ UNCHANGED <<place, lost>>
          /\ result' = [result EXCEPT ![server.request] = server.answer]
          /\ server.answer # {}
      BY <1>1, <1>7, ServerSteps DEF ServerBecomes, Write, Speaks, Busy
    <2>2. QED
      BY <1>1, <2>1 DEF InHand, Holds, Speaks, Busy
  <1>8. ASSUME NEW c \in Calls, Take(c)
        PROVE  Speaks' /\ InHand(d)'
    <2>1. server.pc = "ready" /\ UNCHANGED <<result, lost>>
      BY <1>8 DEF Take, history
    <2>2. CASE /\ ServerBecomes("check", server.batch \ {c}, c, 0, 0, {})
               /\ place' = [place EXCEPT ![c] = "running"]
      BY <1>1, <2>1, <2>2 DEF ServerBecomes, InHand, Holds, Speaks, Busy
    <2>3. CASE ServerBecomes("ready", server.batch \ {c}, Nobody, 0, 0, {}) /\ UNCHANGED place
      BY <1>1, <2>1, <2>3 DEF ServerBecomes, InHand, Holds, Speaks, Busy
    <2>4. QED
      BY <1>1, <1>8, <2>2, <2>3, TakeSteps
  <1>9. QED
    BY <1>2, <1>3, <1>4, <1>5, <1>6, <1>7, <1>8 DEF ServerStep

LEMMA ServerStepPatience ==
  ASSUME Patience, ServerStep \/ Crash \/ Restart, NEW d \in Calls
  PROVE  Patient(d)' /\ Excused(d)'
  <1>1. UNCHANGED <<now, call, lag>> /\ lost \subseteq lost' /\ Patient(d) /\ Excused(d)
    BY DEF Patience, ServerStep, Scan, Check, StartCommand, SkipCommand, EndCommand, AllDone, Unlink,
           Write, Take, Crash, Restart, history
  <1>2. QED
    BY <1>1 DEF Patient, Excused, Enough, Deadline

LEMMA TickPatience ==
  ASSUME Patience, Tick, NEW c \in Calls
  PROVE  Patient(c)' /\ Excused(c)'
  <1>1. /\ now' = now + 1 /\ UNCHANGED <<call, place, result, server, lost>>
        /\ (server.pc = "command" => now < server.until)
        /\ lag'[c] = (IF call[c].pc = "waiting" /\ HeldUp(c) /\ lag[c] < Timeout - Span
                      THEN lag[c] + 1 ELSE lag[c])
    BY DEF Tick, files
  <1>2. /\ now \in Nat /\ server.until \in Nat /\ call[c].created \in Nat /\ lag[c] \in Nat
        /\ Timeout \in Nat /\ Span \in Nat
    BY CallFields, SpanTyped, TimeoutsArePositive
       DEF Patience, Timely, Singles, Typed, TypeOK, ServerType, CallsTyped
  <1>3. Excused(c)'
    BY <1>1, <1>2 DEF Patience, Excused, Enough
  <1>4. ASSUME call[c].pc = "waiting", c \notin lost, ~ HeldUp(c)
        PROVE  now < Deadline(c)
    <2>1. server.pc # "ready"
      BY <1>4 DEF Patience, InHand, HeldUp, Requests, Holds, Busy
    <2>2. server.pc = "command" /\ server.request = c
      BY <1>4, <2>1 DEF HeldUp
    <2>3. server.until <= Deadline(c)
      BY <2>2 DEF Patience, Timely, Punctual
    <2>4. QED
      BY <1>1, <1>2, <2>2, <2>3 DEF Deadline
  <1>5. Patient(c)'
    BY <1>1, <1>2, <1>4 DEF Patience, Patient, Enough, Deadline
  <1>6. QED
    BY <1>3, <1>5

LEMMA StepPatience ==
  ASSUME Patience, [Next]_vars
  PROVE  Patience'
  <1>1. Timely'
    BY StepTimely DEF Patience
  <1>2. CASE ServerStep \/ Crash \/ Restart
    <2>1. \A d \in Calls : InHand(d)' /\ Patient(d)' /\ Excused(d)'
      BY <1>2, ServerStepInHand, ServerStepPatience
    <2>2. Speaks'
      <3>1. CASE server.request \in Calls
        BY <1>2, <3>1, ServerStepInHand
      <3>2. CASE server.request \notin Calls
        <4>1. server.pc \notin Busy
          BY <3>2 DEF Patience, Timely, Singles, Typed, Named
        <4>2. CASE \E c \in Calls : Take(c)
          BY <1>2, <4>2, ServerStepInHand
        <4>3. CASE Scan \/ Crash \/ Restart
          BY <4>3, ServerSteps
          DEF Patience, Timely, Singles, ServerBecomes, Speaks, Busy
        <4>4. QED
          BY <1>2, <4>1, <4>2, <4>3
          DEF ServerStep, Check, StartCommand, SkipCommand, EndCommand, AllDone, Unlink, Write, Busy
      <3>3. QED
        BY <3>1, <3>2
    <2>3. QED
      BY <1>1, <2>1, <2>2 DEF Patience
  <1>3. CASE Tick
    <2>1. \A c \in Calls : Patient(c)' /\ Excused(c)'
      BY <1>3, TickPatience
    <2>2. Speaks' /\ \A c \in Calls : InHand(c)'
      BY <1>3 DEF Patience, Tick, files, Speaks, InHand, Holds
    <2>3. QED
      BY <1>1, <2>1, <2>2 DEF Patience
  <1>4. CASE UNCHANGED vars
    BY <1>1, <1>4
       DEF Patience, Speaks, InHand, Patient, Excused, Enough, Holds, Deadline, vars, files, history
  <1>5. QED
    BY <1>1, <1>2, <1>3, <1>4, CallStepPatience DEF Patience, Next

\* A call that lives times out only if its request died with the server
\* between the two steps that end it, or if something other than a command of
\* its own held it up for as long as the margin its deadline leaves.
THEOREM TimeoutExplained == Spec => []TimeoutHasACause
  <1>1. Init => Patience
    <2> SUFFICES ASSUME Init PROVE Patience
      OBVIOUS
    <2>1. server.pc = "ready" /\ \A c \in Calls : call[c].pc = "new" /\ call[c].verdict = "none"
      BY DEF Init, Ready, Server, Call
    <2>2. Timely
      BY <2>1, InitSingles
         DEF Init, Timely, Awaited, Answered, Punctual, Open, Holds, Busy
    <2>3. QED
      BY <2>1, <2>2 DEF Patience, Speaks, InHand, Patient, Excused, Busy
  <1>2. Patience /\ [Next]_vars => Patience'
    BY StepPatience
  <1>3. Patience => TimeoutHasACause
    BY DEF Patience, Excused, Enough, TimeoutHasACause
  <1>4. QED
    BY <1>1, <1>2, <1>3, PTL DEF Spec

=============================================================================
