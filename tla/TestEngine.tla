---------------------------- MODULE TestEngine ----------------------------
(***************************************************************************)
(* TestEngine, which runs the cases of a suite one request at a time, and  *)
(* TestAutomationController, which takes the line from the monitor for it  *)
(* and gives it back, over the services of AppMonitor.                     *)
(*                                                                         *)
(* As there, every function is an operator from a world to a world: the    *)
(* world of AppMonitor (host), the engine and the automation.  A step that *)
(* is refused ends its case inside the call that submits it, and the next  *)
(* case begins there, and may be refused in its turn; StartNextCase says   *)
(* at once which cases end like that and which one, if any, goes on.       *)
(***************************************************************************)
EXTENDS AppMonitor, Sequences

CONSTANTS
  Suites,       \* the suites a file may hold: sequences of kinds of case
  Steps,        \* steps of a composite case, repetitions included
  Delayed,      \* those with a pause before them
  MaxRetries,   \* retry.maxRetries
  Factory, Wanted  \* values of the register a case writes

\* Single stands for every case of one request; a StrictSequence stops on failure (a
\* step of it expects an answer: one that expects a timeout goes on as in a Sequence);
\* a WriteAndVerify reads the register first and restores it (readBeforeWrite,
\* restoreOriginal).
Kinds == {"Single", "WriteAndVerify", "Sequence", "StrictSequence", "Consistency",
          "Stability"}


ASSUME EngineAssumption ==
  /\ Suites # {} /\ \A suite \in Suites : suite \in Seq(Kinds)
  /\ Steps \in Nat \ {0} /\ Delayed \subseteq 1..Steps /\ MaxRetries \in Nat
  /\ Factory # Wanted /\ "None" \notin {Factory, Wanted}

VARIABLES
  engine,  \* TestEngine, the handler of its case, and the register a case writes
  auto     \* TestAutomationController

engineVars == <<appVars, engine, auto>>

CaseStatus == {"NotRun", "Skipped", "Running", "Finished"}
Step == {"Single", "ReadBefore", "Write", "Verify", "Restore", "CompositeStep"}

\* What is left of a case's budget: a pause fits in it, it does not, or it is over.
\* For a stability case "short" also says that its duration is over.
Budget == {"ample", "short", "spent"}

\* What requestCompleted brings (an answer that is not the expected one counts as
\* an exception), and why a step may fail otherwise.
Outcome == {"Values", "Exception", "Timeout", "Failed"}
Refusal == {"CaseTimeout", "RequestRejected", "Aborted"}

\* Of the results only what the run needs is kept, and nothing after its end.
EngineState == [
  state    : {"Idle", "Running", "Aborting", "Releasing"},
  cases    : Seq(CaseStatus),
  index    : Nat,                      \* currentCaseIndex_, from 1; 0 for none
  step     : Step \cup {"None"},       \* currentStep_
  request  : Ids \cup {0},             \* currentRequestId_
  attempts : 0..MaxRetries + 1,        \* stepAttempt_
  delay    : BOOLEAN,                  \* scheduledDelay_
  position : 1..Steps + 1,             \* of a composite case
  original : {Factory, Wanted, "None"},
  accepted : BOOLEAN,                  \* writeAccepted_
  budget   : Budget,
  late     : BOOLEAN,                  \* within a step: the next iteration is due
  register : {Factory, Wanted},        \* of the device
  before   : {Factory, Wanted},        \* history: what the case at hand found there
  silent   : BOOLEAN,                  \* history: a case has left another value there
                                       \* without a cleanupError
  taken    : Nat,                      \* history: steps the case has begun but the last,
                                       \* which restores (a stability case: its iteration)
  restores : Nat,                      \* history: requests it has sent to restore
  tries    : Nat,                      \* history: requests it has sent for its step
  overdue  : BOOLEAN]                  \* history: one that does not was sent after an
                                       \* abort, or with the budget over

\* The operation awaited is told by what it was for.
AutomationState == [
  state         : {"Idle", "StoppingMonitoring", "AcquiringTesting",
                   "Running", "ResumingMonitoring"},
  action        : {"None", "StopMonitoring", "StartTesting", "CleanupTesting",
                   "ResumeMonitoring"},
  suite         : Suites \cup {<<>>},  \* of the run under way
  chosen        : SUBSET Nat,          \* the cases that are enabled and selected
  wasMonitoring : BOOLEAN,
  resume        : BOOLEAN]             \* resumeMonitoring_

NewEngine(cases) == [
  state |-> "Idle", cases |-> cases, index |-> 0, step |-> "None", request |-> 0, attempts |-> 0, delay |-> FALSE,
  position |-> 1, original |-> "None", accepted |-> FALSE, budget |-> "ample", late |-> FALSE,
  register |-> Factory, before |-> Factory, silent |-> FALSE,
  taken |-> 0, restores |-> 0, tries |-> 0, overdue |-> FALSE]
NoRun == [state |-> "Idle", action |-> "None", suite |-> <<>>, chosen |-> {},
          wasMonitoring |-> FALSE, resume |-> FALSE]

Kind(w) == w.auto.suite[w.engine.index]

Lab == [host |-> World, engine |-> engine, auto |-> auto]
LabBecomes(w) == Become(w.host) /\ engine' = w.engine /\ auto' = w.auto

-----------------------------------------------------------------------------
(***************************************************************************)
(* The automation, when a run is over.                                     *)
(***************************************************************************)
\* failWorkflow and finishWorkflow: they differ in what they report.
EndWorkflow(w) == [w EXCEPT !.auto = NoRun]

\* The automation gives the application a command, and waits in a state for its end.
Orders(w, action, state, host) ==
  [w EXCEPT !.host = host, !.auto.action = action, !.auto.state = state]

\* Does nothing while runSuite has not returned yet.
HandleRunCompleted(w) ==
  IF w.auto.state # "Running" THEN w
  ELSE IF /\ w.host.app.state # "Testing" /\ w.auto.wasMonitoring /\ w.auto.resume
          /\ CanTakeLine(w.host, Monitor)
         THEN Orders(w, "ResumeMonitoring", "ResumingMonitoring", StartMonitoringCall(w.host))
         ELSE EndWorkflow(w)

-----------------------------------------------------------------------------
(***************************************************************************)
(* The engine's private functions and the handlers of the cases.           *)
(***************************************************************************)
\* The engine without a run; the device and the history go on.
Cleared(w, cases) ==
  [w EXCEPT !.engine = [NewEngine(cases) EXCEPT !.register = w.engine.register,
                                                !.before = w.engine.register,
                                                !.silent = w.engine.silent]]

FinalizeRun(w) == HandleRunCompleted(Cleared(w, <<>>))

\* Mutant of BeginRelease: an aborted run ends at once.
AbortKeepsLine(w) ==
  LET releasing == [w EXCEPT !.engine.state = "Releasing"]
  IN IF w.engine.state = "Releasing" THEN w
     ELSE IF CanStopTesting(w.host) /\ w.engine.state # "Aborting"
       THEN [releasing EXCEPT !.host = StopTestingCall(w.host)]
     ELSE FinalizeRun(releasing)

BeginRelease(w) ==
  LET releasing == [w EXCEPT !.engine.state = "Releasing"]
  IN IF w.engine.state = "Releasing" THEN w
     ELSE IF CanStopTesting(w.host) THEN [releasing EXCEPT !.host = StopTestingCall(w.host)]
     ELSE FinalizeRun(releasing)

\* markRemainingAborted, and the release.
AbortRemaining(w) ==
  BeginRelease([w EXCEPT !.engine.cases =
    [i \in DOMAIN @ |-> IF i > w.engine.index /\ @[i] = "NotRun" THEN "Skipped" ELSE @[i]]])

\* A request is not accepted without the line.
Refuses(w) == ~CanSubmit(w.host.client) \/ w.host.client.owner # Testing

\* History: a request of this step is sent.
Counted(w, step) ==
  [w EXCEPT !.engine.tries = @ + 1,
            !.engine.restores = IF step = "Restore" THEN @ + 1 ELSE @,
            !.engine.overdue = @ \/
              (step # "Restore" /\ (w.engine.state # "Running" \/ w.engine.budget = "spent"))]

\* A request that is accepted, for a new step or for one to try again.
Sent(w, step) ==
  LET id == NextId(w.host.client)
  IN [Counted(w, step) EXCEPT
        !.host.client = SubmitCall(w.host.client, id), !.engine.step = step,
        !.engine.request = id, !.engine.attempts = @ + 1,
        !.engine.accepted = @ \/ step = "Write"]

\* A new step of the case begins.
Anew(w) == [w EXCEPT !.engine.attempts = 0, !.engine.tries = 0, !.engine.taken = @ + 1]

Paused(w) == [w EXCEPT !.engine.step = "None", !.engine.attempts = 0, !.engine.tries = 0,
                       !.engine.delay = TRUE]

\* The handler's start; a stability case and the samples do not start with a pause.
PausesFirst(kind) == kind \in {"Sequence", "StrictSequence"} /\ 1 \in Delayed
FirstStep(kind) ==
  CASE kind = "Single" -> "Single" [] kind = "WriteAndVerify" -> "ReadBefore"
    [] OTHER -> "CompositeStep"
StartCase(w) == IF PausesFirst(Kind(w)) THEN Paused(w) ELSE Sent(Anew(w), FirstStep(Kind(w)))

BeginCase(w, i, cases) ==
  StartCase([w EXCEPT !.engine.index = i, !.engine.cases = [cases EXCEPT ![i] = "Running"],
                      !.engine.budget = "ample", !.engine.position = 1,
                      !.engine.original = "None", !.engine.accepted = FALSE,
                      !.engine.before = w.engine.register])

\* While requests are refused, every case that begins with one is over at once.
StartNextCase(w) ==
  LET cases == w.engine.cases
      left == {i \in DOMAIN cases : i > w.engine.index /\ cases[i] = "NotRun"}
      begin == IF Refuses(w) THEN {i \in left : PausesFirst(w.auto.suite[i])} ELSE left
      next == CHOOSE i \in begin : \A j \in begin : i <= j
      over == IF begin = {} THEN left ELSE {i \in left : i < next}
      passed == [i \in DOMAIN cases |-> IF i \in over THEN "Finished" ELSE cases[i]]
  IN IF w.engine.state = "Aborting" THEN AbortRemaining(w)
     ELSE IF begin = {}
       THEN BeginRelease([w EXCEPT !.engine.cases = passed, !.engine.index = Len(cases) + 1])
     ELSE BeginCase(w, next, passed)

\* completeCurrentCase.  unclean: it reports a cleanupError.
CompleteCase(w, unclean) ==
  LET changed == w.engine.register # w.engine.before
      done == [w EXCEPT
                 !.engine.cases[w.engine.index] = "Finished", !.engine.step = "None",
                 !.engine.request = 0, !.engine.delay = FALSE, !.engine.attempts = 0,
                 !.engine.taken = 0, !.engine.restores = 0, !.engine.tries = 0,
                 !.engine.silent = @ \/ (changed /\ ~unclean)]
  IN IF w.engine.state = "Aborting" THEN AbortRemaining(done) ELSE StartNextCase(done)

\* WriteAndVerifyHandler::cleanupOrFinish, with the request it asks for.
CleanupOrFinish(w) ==
  IF w.engine.original = "None" \/ ~w.engine.accepted THEN CompleteCase(w, FALSE)
  ELSE IF Refuses(w) THEN CompleteCase(w, TRUE)
  ELSE Sent([w EXCEPT !.engine.attempts = 0, !.engine.tries = 0], "Restore")

\* Mutant of AbandonCase: a failed restore is tried again.
RestoresAgain(w) ==
  IF Kind(w) # "WriteAndVerify" THEN CompleteCase(w, FALSE) ELSE CleanupOrFinish(w)

\* handleCommunicationError of the handlers, for an error they never go on after.
AbandonCase(w) ==
  IF Kind(w) # "WriteAndVerify" THEN CompleteCase(w, FALSE)
  ELSE IF w.engine.step = "Restore" THEN CompleteCase(w, TRUE)
  ELSE CleanupOrFinish(w)

\* submitStep, of a new step or of one to try again.
Submit(w, step) ==
  IF (w.engine.budget = "spent" /\ step # "Restore") \/ Refuses(w)
    THEN AbandonCase([w EXCEPT !.engine.step = step])
    ELSE Sent(w, step)

\* applyDecision with a step.
NextStep(w, step) == Submit(Anew(w), step)

\* applyDecision with a pause.
Pause(w) ==
  IF w.engine.budget # "ample" THEN AbandonCase([w EXCEPT !.engine.step = "None"])
  ELSE Paused(w)

\* prepareCurrent of a sequence, and what a consistency case does for each sample.
NextPart(w) ==
  IF w.engine.position \in Delayed THEN Pause(w) ELSE NextStep(w, "CompositeStep")

\* The next step or sample, unless this one was the last.
AfterPart(w) ==
  IF w.engine.position = Steps THEN CompleteCase(w, FALSE)
  ELSE NextPart([w EXCEPT !.engine.position = @ + 1])

\* StabilityHandler::nextOrFinish: no pause when the interval has passed already.
NextIteration(w) ==
  LET next == [w EXCEPT !.engine.taken = 0]
  IN IF w.engine.budget # "ample" THEN CompleteCase(w, FALSE)
     ELSE IF w.engine.late THEN NextStep(next, "CompositeStep")
     ELSE Pause(next)

\* Mutant of HandleCommunicationError: a write that brought no answer is taken for
\* one that was not done.
ErrorUndoesWrite(w, error, accepted) ==
  CASE Kind(w) = "WriteAndVerify" ->
         IF w.engine.step = "Restore" THEN CompleteCase(w, TRUE)
         ELSE CompleteCase(w, FALSE)
    [] Kind(w) = "Sequence" /\ error \notin Refusal -> AfterPart(w)
    [] Kind(w) = "Stability" /\ error = "Timeout" -> NextIteration(w)
    [] OTHER -> CompleteCase(w, FALSE)

\* Only a sequence goes on after an error, and a stability case after a recoverable one.
\* accepted: the request had been sent.
HandleCommunicationError(w, error, accepted) ==
  CASE Kind(w) = "WriteAndVerify" ->
         AbandonCase([w EXCEPT
           !.engine.accepted = @ \/ (w.engine.step = "Write" /\ accepted)])
    [] Kind(w) = "Sequence" /\ error \notin Refusal -> AfterPart(w)
    [] Kind(w) = "Stability" /\ error = "Timeout" -> NextIteration(w)
    [] OTHER -> CompleteCase(w, FALSE)

\* handleResult of the handlers.
HandleResult(w, outcome) ==
  LET step == w.engine.step
  IN CASE step = "Single"     -> CompleteCase(w, FALSE)
       [] step = "ReadBefore" ->
            IF outcome = "Values"
              THEN NextStep([w EXCEPT !.engine.original = w.engine.register], "Write")
              ELSE CompleteCase(w, FALSE)
       [] step = "Write"   -> IF outcome = "Values" THEN NextStep(w, "Verify")
                                                    ELSE CleanupOrFinish(w)
       [] step = "Verify"  -> CleanupOrFinish(w)
       [] step = "Restore" -> CompleteCase(w, outcome # "Values")
       [] OTHER ->
            CASE Kind(w) = "Stability" -> NextIteration(w)
              [] Kind(w) = "Sequence"  -> AfterPart(w)
              [] OTHER -> IF outcome = "Values" THEN AfterPart(w) ELSE CompleteCase(w, FALSE)

-----------------------------------------------------------------------------
(***************************************************************************)
(* The slots of the engine and of the automation.                          *)
(***************************************************************************)
\* handleRequestCompleted and shouldRetry.  Timeout stands for the errors the case
\* retries on.
RequestCompleted(w, id, outcome) ==
  LET heard == [w EXCEPT !.engine.request = 0]
      step == w.engine.step
      spent == w.engine.budget = "spent"
  IN CASE w.engine.request # id -> w
       [] w.engine.request = id /\ w.engine.state = "Aborting" /\ step # "Restore" ->
            HandleCommunicationError(heard, "Aborted", TRUE)
       [] w.engine.request = id /\ ~(w.engine.state = "Aborting" /\ step # "Restore") ->
            IF outcome \in {"Values", "Exception"} THEN HandleResult(heard, outcome)
            ELSE IF /\ outcome = "Timeout" /\ step # "Restore" /\ ~spent
                    /\ w.engine.state # "Aborting" /\ w.engine.attempts <= MaxRetries
              THEN Submit(heard, step)
              ELSE HandleCommunicationError(
                     heard, IF spent THEN "CaseTimeout" ELSE outcome, TRUE)

\* TestEngine::handleAppCommandCompleted.
EngineCommandCompleted(w, command) ==
  IF w.engine.state = "Releasing" /\ command = "StopTesting"
    THEN FinalizeRun(w) ELSE w

\* startEngine.  The automation is Running only once runSuite has returned.
StartEngine(w) ==
  LET c == w.host.client
      cases == [i \in DOMAIN w.auto.suite |->
                  IF i \in w.auto.chosen THEN "NotRun" ELSE "Skipped"]
  IN IF /\ w.engine.state = "Idle" /\ w.host.app.state = "Testing"
        /\ c.state = "Connected" /\ c.owner = Testing
       THEN [StartNextCase([Cleared(w, cases) EXCEPT !.engine.state = "Running"]) EXCEPT
               !.auto.action = "None", !.auto.state = "Running"]
     ELSE IF CanStopTesting(w.host)
       THEN Orders(w, "CleanupTesting", "AcquiringTesting", StopTestingCall(w.host))
     ELSE EndWorkflow(w)

AcquireTesting(w) ==
  IF CanTakeLine(w.host, Testing)
    THEN Orders(w, "StartTesting", "AcquiringTesting", StartTestingCall(w.host))
    ELSE EndWorkflow(w)

CommandOf(action) ==
  CASE action = "CleanupTesting"   -> "StopTesting"
    [] action = "ResumeMonitoring" -> "StartMonitoring"
    [] OTHER -> action

\* TestAutomationController::handleAppCommandCompleted.
AutomationCommandCompleted(w, command, ok) ==
  LET action == w.auto.action
      heard == [w EXCEPT !.auto.action = "None"]
  IN IF action = "None" \/ CommandOf(action) # command THEN w
     ELSE CASE ok /\ action = "StopMonitoring" -> AcquireTesting(heard)
            [] ok /\ action = "StartTesting"   -> StartEngine(heard)
            [] OTHER -> EndWorkflow(heard)

\* commandCompleted, which the application emits last when it has ended the command
\* of the world before: the engine's slot, then the automation's.
Notify(before, w) ==
  LET command == before.host.app.pending.command
      ok == w.host.app.state # "Error"
  IN IF command = "None" \/ w.host.app.pending # NoPending THEN w
     ELSE AutomationCommandCompleted(EngineCommandCompleted(w, command), command, ok)

\* The world after a slot of the application has left its services in host.
Heard(host) == Notify(Lab, [Lab EXCEPT !.host = host])

-----------------------------------------------------------------------------
(***************************************************************************)
(* The user's calls.  While the automation is busy the user interface      *)
(* offers no command of the application.                                   *)
(***************************************************************************)
Engaged == auto.state # "Idle"

\* beginRun, of a suite loaded before and with resumeMonitoring set or not.
BeginRun(suite, chosen, resume) ==
  LET w == [Lab EXCEPT !.auto.suite = suite, !.auto.chosen = chosen, !.auto.resume = resume,
                       !.auto.wasMonitoring = app.state = "Monitoring"]
  IN /\ FreeOp(client) # {} /\ ~Engaged
     /\ app.state \in {"ConnectedIdle", "Monitoring"}
     /\ LabBecomes(
          IF ~w.auto.wasMonitoring THEN AcquireTesting(w)
          ELSE IF CanStopMonitoring(World)
            THEN Orders(w, "StopMonitoring", "StoppingMonitoring",
                        StopMonitorFor(World, "StopMonitoring"))
          ELSE EndWorkflow(w))
     /\ UNCHANGED history

SkipCase ==
  /\ auto.state = "Running" /\ engine.state = "Running"
  /\ \E i \in DOMAIN engine.cases :
       /\ engine.cases[i] = "NotRun"
       /\ engine' = [engine EXCEPT !.cases[i] = "Skipped"]
  /\ UNCHANGED <<appVars, auto>>

\* Mutant of AbortedWorld: a pause is left to run out.
AbortSparesDelay(w) ==
  IF w.engine.request # 0 /\ w.engine.step # "Restore"
    THEN IF CanCancel(w.host.client, w.engine.request)
           THEN [w EXCEPT !.host.client = CancelCall(w.host.client, w.engine.request)] ELSE w
  ELSE w

\* abort.  A request that restores the register is left to its end.
AbortedWorld(w) ==
  IF w.engine.delay
    THEN HandleCommunicationError([w EXCEPT !.engine.delay = FALSE], "Aborted", FALSE)
  ELSE IF w.engine.request # 0 /\ w.engine.step # "Restore"
    THEN IF CanCancel(w.host.client, w.engine.request)
           THEN [w EXCEPT !.host.client = CancelCall(w.host.client, w.engine.request)] ELSE w
  ELSE IF w.engine.step \notin {"None", "Restore"}
    THEN HandleCommunicationError(w, "Aborted", FALSE)
  ELSE IF w.engine.request = 0 THEN AbortRemaining(w) ELSE w

Abort ==
  /\ auto.state = "Running" /\ engine.state = "Running"
  /\ LabBecomes(AbortedWorld([Lab EXCEPT !.engine.state = "Aborting"]))
  /\ UNCHANGED history

-----------------------------------------------------------------------------
(***************************************************************************)
(* What happens by itself.                                                 *)
(***************************************************************************)
\* The time of the case at hand passes.
CaseTimePasses ==
  /\ engine.state \in {"Running", "Aborting"} /\ engine.index > 0 /\ engine.budget # "spent"
  /\ engine' = [engine EXCEPT !.budget = IF @ = "ample" THEN "short" ELSE "spent"]
  /\ UNCHANGED <<appVars, auto>>

\* The pause is over: the handler's resume.  Bound: a RequestId is free.
DelayEnds ==
  LET w == [Lab EXCEPT !.engine.delay = FALSE]
  IN /\ engine.delay /\ engine.state = "Running" /\ FreeId(client) # {}
     /\ LabBecomes(IF Kind(w) = "Stability" /\ engine.budget # "ample"
                     THEN CompleteCase(w, FALSE) ELSE NextStep(w, "CompositeStep"))
     /\ UNCHANGED history

LabTurn(s) ==
  /\ MayTurn(client, s)
  /\ faults' = IF s = "Faulted" THEN faults + 1 ELSE faults
  /\ faults' <= MaxFaults
  /\ crossed' = (crossed \/ Turned(client, s).overtaken)
  /\ LET turned == [World EXCEPT !.client = Turned(client, s)]
     IN LabBecomes(IF s = client.state THEN [Lab EXCEPT !.host = turned]
                   ELSE Heard(HandleConnectionStateChanged(turned, s)))

\* A transition fails only because of a fault, whose signal comes next.
\* Bound: a RequestId is free for the case that may begin.
LabAnswer(op) ==
  /\ FreeId(client) # {}
  /\ \E ok \in BOOLEAN :
    \/ /\ MayAnswerControl(client, op, ok)
       /\ LabBecomes(Heard(HandleControlCompleted(
            [World EXCEPT !.client = ControlAnswered(client, op, ok)], op, ok)))
       /\ UNCHANGED history
    \/ /\ MayAnswerTransition(client, op, ok)
       /\ LabBecomes(Heard(HandleControlCompleted(
            [World EXCEPT !.client = TransitionAnswered(client, op, ok)], op, ok)))
       /\ crossed' = (crossed \/ ~ok) /\ UNCHANGED faults

\* A write that was sent and brought no answer may have reached the device.
LabRequestCompletes(id) ==
  /\ id \in Open(client)
  /\ \E outcome \in Outcome, applied, decodes, late \in BOOLEAN :
       LET mine == engine.request = id
           writes == mine /\ engine.step \in {"Write", "Restore"}
           value == IF engine.step = "Write" THEN Wanted ELSE engine.original
           host == HandleRequestCompleted([World EXCEPT !.client = Completed(client, id)],
                                          id, outcome = "Values", decodes)
           done == [Heard(host) EXCEPT !.engine.register = IF applied THEN value ELSE @,
                                       !.engine.late = late]
           answered == outcome \in {"Values", "Exception"}
       IN /\ answered => id \in client.sent
          /\ applied => writes /\ id \in client.sent /\ outcome # "Exception"
          /\ writes /\ outcome = "Values" => applied
          /\ mon.active \/ ~decodes
          /\ late => mine /\ Kind(Lab) = "Stability"
          /\ LabBecomes([RequestCompleted(done, id, outcome) EXCEPT !.engine.late = FALSE])
  /\ UNCHANGED history

LabInit ==
  /\ AppInit
  /\ engine = NewEngine(<<>>)
  /\ auto = NoRun

LabUserCommand ==
  /\ ~Engaged
  /\ ConnectDevice \/ DisconnectDevice \/ StartMonitoring \/ StopMonitoring \/ Recover
  /\ UNCHANGED <<engine, auto>>

LabNext ==
  \/ LabUserCommand
  \/ \E suite \in Suites, resume \in BOOLEAN :
       \E chosen \in SUBSET DOMAIN suite : BeginRun(suite, chosen, resume)
  \/ SkipCase \/ Abort \/ CaseTimePasses \/ DelayEnds
  \/ MonitorTask /\ UNCHANGED <<engine, auto>>
  \/ \E s \in ConnectionState : LabTurn(s)
  \/ \E op \in OpIds : LabAnswer(op)
  \/ \E id \in Ids : RequestStarts(id) /\ UNCHANGED <<engine, auto>>
  \/ \E id \in Ids : LabRequestCompletes(id)

LabSpec == LabInit /\ [][LabNext]_engineVars

-----------------------------------------------------------------------------
\* The engine and the automation keep to their types.
LabTypeOK == AppTypeOK /\ engine \in EngineState /\ auto \in AutomationState

\* A run is always waiting for something that is still to come: a request or a pause
\* of its case, the release of the line; and the automation for the command it gave
\* or for the engine.  Nothing tells either of them that the connection is lost.
\* (What stopMonitoring answers before it returns is not heard; only a client whose
\* earlier operation a fault has overtaken makes it answer so early.)
RunIsAwaited ==
  /\ engine.state \in {"Running", "Aborting"} =>
       \/ engine.request \in Open(client)
       \/ engine.delay /\ engine.state = "Running"
  /\ engine.state = "Releasing" => app.pending.command = "StopTesting"
  /\ auto.state = "Running" <=> engine.state # "Idle"
  /\ auto.action # "None" =>
       \/ app.pending.command = CommandOf(auto.action)
       \/ auto.action = "StopMonitoring" /\ crossed
  /\ auto.state \in {"StoppingMonitoring", "AcquiringTesting", "ResumingMonitoring"} <=>
       auto.action # "None"

\* A case that writes a register leaves in it what it found, or says that it could
\* not: whatever fails, times out or is aborted on the way, and even if the write
\* that brought no answer was done.
RestoredOrReported == ~engine.silent

\* The line is not left with Testing when no run wants it: neither after a run, nor
\* after one that could not begin.
LineGivenBack ==
  ~Engaged /\ ~crossed /\ app.pending = NoPending => client.owner # Testing

\* The steps of a case, without the one that restores the register; for a stability
\* case, of each of its iterations.
StepLimit(kind) ==
  CASE kind = "WriteAndVerify"          -> 3
    [] kind \in {"Single", "Stability"} -> 1
    [] OTHER                            -> Steps

\* After an abort, and once the budget of its case is over, the engine sends nothing
\* but the request that restores the register, and that at most once in a case, whatever
\* becomes of it.  No step is sent more often than its retries allow, and no case begins
\* more steps than it has, however its requests end.
SendsNoMoreThanItMay ==
  /\ ~engine.overdue
  /\ engine.restores <= 1 /\ engine.tries <= MaxRetries + 1
  /\ engine.state \in {"Running", "Aborting"} => engine.taken <= StepLimit(Kind(Lab))
=============================================================================
