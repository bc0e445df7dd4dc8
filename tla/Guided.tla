------------------------------- MODULE Guided -------------------------------
(***************************************************************************)
(* GuidedTestCoordinator, which leads an operator through unplugging and   *)
(* plugging the bus and watches it with one probe at a time, the guided    *)
(* probe of TestEngine, and the services of AppMonitor they work with.     *)
(*                                                                         *)
(* A case has four stages: a prompt to unplug, the observation of the      *)
(* outage, a prompt to plug in again and the observation of the recovery.  *)
(* Every stage has a deadline.                                             *)
(***************************************************************************)
EXTENDS AppMonitor

CONSTANTS
  Cases,    \* cases of the suite that are enabled and selected
  Matches   \* consecutive matches an observation asks for

ASSUME GuidedAssumption == Cases \in Nat /\ Matches \in Nat \ {0}

VARIABLE guided  \* the coordinator, and the probe of the engine

guidedVars == <<appVars, guided>>

Prompts == {"Unplug", "PlugIn"}
Observations == {"Outage", "Recovery"}

\* What is left of a stage: time for another probe after the interval, less than
\* that, or nothing, its timer being about to run out.
TimeLeft == {"ample", "short", "none"}

\* What a probe brings, classified: see classifyGuidedProbe.
ProbeOutcome == {"Response", "OtherResponse", "Timeout", "Fatal", "Cancelled"}

\* The action context and the token are one: whether an action is awaited.
Coordinator == [
  state    : {"Idle", "Running", "Releasing"},
  left     : 0..Cases,               \* cases still to begin
  stage    : Prompts \cup Observations \cup {"None"},  \* view_.state
  verdict  : {"None", "Pass", "NotPass"},     \* terminalReason of the last case
  awaiting : BOOLEAN,                \* actionContext_
  matches  : 0..Matches,             \* consecutiveMatches
  deadline : BOOLEAN,                \* deadlineTask_
  task     : BOOLEAN,                \* nextProbeTask_
  probe    : Ids \cup {0},           \* currentProbe_
  asked    : Ids \cup {0},           \* guidedProbe_ of the engine
  time     : TimeLeft,
  outage   : 0..Matches,             \* history: the timeouts in a row with which
                                     \* the stage of the outage was left
  streak   : 0..Matches]             \* history: the matching answers in a row to
                                     \* probes of the stage at hand

NoGuidedRun == [
  state |-> "Idle", left |-> 0, stage |-> "None", verdict |-> "None",
  awaiting |-> FALSE, matches |-> 0, deadline |-> FALSE, task |-> FALSE,
  probe |-> 0, asked |-> 0, time |-> "ample", outage |-> 0, streak |-> 0]

Site == [client |-> client, app |-> app, mon |-> mon, guided |-> guided]
SiteBecomes(w) == Become(w) /\ guided' = w.guided

-----------------------------------------------------------------------------
(***************************************************************************)
(* The private functions of the coordinator, and the engine's part.        *)
(***************************************************************************)
\* cancelGuidedProbe of the engine: its context stays until the probe completes.
CancelProbe(w, id) ==
  IF w.guided.asked = id /\ CanCancel(w.client, id)
    THEN [w EXCEPT !.client = CancelCall(w.client, id)] ELSE w

CancelScheduledTask(w) == [w EXCEPT !.guided.deadline = FALSE, !.guided.task = FALSE]

\* Mutant of InvalidateStage: the probe under way is forgotten.
ForgetsProbe(w) ==
  [CancelScheduledTask(w) EXCEPT !.guided.awaiting = FALSE, !.guided.probe = 0]

InvalidateStage(w) ==
  LET stopped == [CancelScheduledTask(w) EXCEPT
                    !.guided.awaiting = FALSE, !.guided.probe = 0]
  IN IF w.guided.probe = 0 THEN stopped ELSE CancelProbe(stopped, w.guided.probe)

\* finalizeRun; a probe of the engine outlives it.
EndGuidedRun(w) ==
  [w EXCEPT !.guided = [NoGuidedRun EXCEPT !.asked = w.guided.asked,
                                           !.verdict = w.guided.verdict,
                                           !.outage = w.guided.outage,
                                           !.streak = w.guided.streak]]

ReleaseTesting(w) ==
  LET releasing == [InvalidateStage(w) EXCEPT !.guided.state = "Releasing"]
  IN IF w.guided.state = "Releasing" THEN w
     ELSE IF CanStopTesting(releasing) THEN StopTestingCall(releasing)
     ELSE EndGuidedRun(releasing)

\* A new stage: what the one before left is cancelled, and its deadline is set.
EnterStage(w, stage) ==
  [InvalidateStage(w) EXCEPT
     !.guided.stage = stage, !.guided.awaiting = stage \in Prompts,
     !.guided.matches = 0, !.guided.deadline = TRUE, !.guided.time = "ample",
     !.guided.outage = CASE stage = "PlugIn" -> w.guided.streak
                         [] stage = "Recovery" -> @ [] OTHER -> 0,
     !.guided.streak = IF stage \in Observations THEN 0 ELSE @]

\* startNextCase.
NextCase(w) ==
  IF w.guided.left = 0 THEN ReleaseTesting(w)
  ELSE EnterStage([w EXCEPT !.guided.left = @ - 1], "Unplug")

\* finishCurrentCase.  Whatever is not a pass ends the run.
FinishCase(w, pass) ==
  LET done == [InvalidateStage(w) EXCEPT
                 !.guided.stage = "None",
                 !.guided.verdict = IF pass THEN "Pass" ELSE "NotPass"]
  IN IF w.guided.state # "Running" THEN w
     ELSE IF pass THEN NextCase(done)
     ELSE ReleaseTesting([done EXCEPT !.guided.left = 0])

\* finishObservation.
FinishObservation(w, matched) ==
  LET over == InvalidateStage(w)
  IN IF ~matched THEN FinishCase(over, FALSE)
     ELSE IF w.guided.stage = "Outage" THEN EnterStage(over, "PlugIn")
     ELSE FinishCase(over, TRUE)

\* submitGuidedProbe of the engine.
CanProbe(w) ==
  /\ w.guided.asked = 0
  /\ w.app.state = "Testing" /\ w.client.owner = Testing /\ CanSubmit(w.client)

SubmitProbe(w) ==
  LET id == NextId(w.client)
  IN IF w.guided.stage \notin Observations \/ w.guided.probe # 0 THEN w
     ELSE IF w.guided.time = "none" \/ ~CanProbe(w) THEN FinishObservation(w, FALSE)
     ELSE [w EXCEPT !.client = SubmitCall(w.client, id),
                    !.guided.probe = id, !.guided.asked = id]

BeginObservation(w, stage) == SubmitProbe(EnterStage(w, stage))

\* Mutant of ScheduleNextProbe: it is left to the deadline to end the stage, whose
\* timer is taken for the probe's.
TaskReplacesDeadline(w) ==
  IF w.guided.time # "ample" THEN w
  ELSE [w EXCEPT !.guided.task = TRUE, !.guided.deadline = FALSE]

\* No probe is scheduled past the deadline, which then ends the stage.
ScheduleNextProbe(w) ==
  IF w.guided.time # "ample" THEN w ELSE [w EXCEPT !.guided.task = TRUE]

Matching(stage) == IF stage = "Outage" THEN {"Timeout"} ELSE {"Response"}

\* Mutant of CountOutcome: an answer that does not match leaves the count alone.
CountsAllMatches(w, outcome) ==
  IF outcome \in Matching(w.guided.stage)
    THEN IF w.guided.matches + 1 >= Matches THEN FinishObservation(w, TRUE)
         ELSE ScheduleNextProbe([w EXCEPT !.guided.matches = @ + 1])
    ELSE ScheduleNextProbe(w)

CountOutcome(w, outcome) ==
  IF outcome \in Matching(w.guided.stage)
    THEN IF w.guided.matches + 1 >= Matches THEN FinishObservation(w, TRUE)
         ELSE ScheduleNextProbe([w EXCEPT !.guided.matches = @ + 1])
    ELSE ScheduleNextProbe([w EXCEPT !.guided.matches = 0])

\* handleProbeCompleted.
HandleProbeCompleted(w, id, outcome) ==
  LET heard == [w EXCEPT !.guided.probe = 0]
  IN IF w.guided.state # "Running" \/ w.guided.probe # id THEN w
     ELSE IF outcome \in {"Fatal", "Cancelled"} THEN FinishObservation(heard, FALSE)
     ELSE CountOutcome(heard, outcome)

\* commandCompleted, in the coordinator's slot.
GuidedCommandCompleted(before, w) ==
  LET command == before.app.pending.command
  IN IF /\ command = "StopTesting" /\ w.app.pending = NoPending
        /\ w.guided.state = "Releasing"
       THEN EndGuidedRun(w) ELSE w

-----------------------------------------------------------------------------
(***************************************************************************)
(* The calls.                                                              *)
(***************************************************************************)
\* runSuite, which the automation calls when it has the line.
RunGuidedSuite ==
  /\ FreeOp(client) # {} /\ Idle
  /\ guided.state = "Idle" /\ guided.asked = 0 /\ app.state = "Testing"
  /\ SiteBecomes(NextCase([Site EXCEPT
       !.guided = [NoGuidedRun EXCEPT !.state = "Running", !.left = Cases]]))
  /\ UNCHANGED history

\* submitAction.  The action consumes its token first.
Acting == [CancelScheduledTask(Site) EXCEPT !.guided.awaiting = FALSE]

Confirm ==
  /\ guided.state = "Running" /\ guided.awaiting
  /\ SiteBecomes(BeginObservation(Acting,
       IF guided.stage = "Unplug" THEN "Outage" ELSE "Recovery"))
  /\ UNCHANGED history

CancelAction ==
  /\ guided.state = "Running" /\ guided.awaiting
  /\ SiteBecomes(FinishCase(Acting, FALSE))
  /\ UNCHANGED history

AbortGuided ==
  /\ guided.state = "Running"
  /\ SiteBecomes(FinishCase(Site, FALSE))
  /\ UNCHANGED history

\* The commands the user interface and the automation give: none during a run, and
\* once the line is taken for Testing only the one that gives it back.
SiteCommand ==
  /\ guided.state = "Idle"
  /\ \/ app.state # "Testing" /\ ConnectDevice
     \/ app.state # "Testing" /\ DisconnectDevice
     \/ StartMonitoring \/ StopMonitoring \/ StartTesting \/ StopTesting \/ Recover
  /\ UNCHANGED guided

-----------------------------------------------------------------------------
(***************************************************************************)
(* What happens by itself.                                                 *)
(***************************************************************************)
TimePasses ==
  /\ guided.state = "Running" /\ guided.time # "none"
  /\ guided' = [guided EXCEPT !.time = IF @ = "ample" THEN "short" ELSE "none"]
  /\ UNCHANGED appVars

\* The deadline task of scheduleStageDeadline.
DeadlineExpires ==
  LET w == [Site EXCEPT !.guided.deadline = FALSE]
  IN /\ guided.deadline /\ guided.time = "none" /\ guided.state = "Running"
     /\ SiteBecomes(IF guided.stage \in Prompts THEN FinishCase(w, FALSE)
                    ELSE FinishObservation(w, FALSE))
     /\ UNCHANGED history

NextProbeDue ==
  /\ guided.task /\ guided.state = "Running"
  /\ SiteBecomes(SubmitProbe([Site EXCEPT !.guided.task = FALSE]))
  /\ UNCHANGED history

SiteTurn(s) ==
  /\ MayTurn(client, s)
  /\ faults' = IF s = "Faulted" THEN faults + 1 ELSE faults
  /\ faults' <= MaxFaults
  /\ crossed' = (crossed \/ Turned(client, s).overtaken)
  /\ LET turned == [Site EXCEPT !.client = Turned(client, s)]
     IN SiteBecomes(IF s = client.state THEN turned
                    ELSE GuidedCommandCompleted(Site, HandleConnectionStateChanged(turned, s)))

\* A transition fails only because of a fault, whose signal comes next.
SiteAnswer(op) ==
  \E ok \in BOOLEAN :
    \/ /\ MayAnswerControl(client, op, ok)
       /\ SiteBecomes(GuidedCommandCompleted(Site, HandleControlCompleted(
            [Site EXCEPT !.client = ControlAnswered(client, op, ok)], op, ok)))
       /\ UNCHANGED history
    \/ /\ MayAnswerTransition(client, op, ok)
       /\ SiteBecomes(GuidedCommandCompleted(Site, HandleControlCompleted(
            [Site EXCEPT !.client = TransitionAnswered(client, op, ok)], op, ok)))
       /\ crossed' = (crossed \/ ~ok) /\ UNCHANGED faults

\* handleRequestCompleted of the engine forgets the probe before it tells of it.
ProbeCompletes(id, outcome) ==
  LET current == id = guided.probe /\ guided.state = "Running"
      matching == outcome \in Matching(guided.stage)
      done == [Site EXCEPT
                 !.client = Completed(client, id), !.guided.asked = 0,
                 !.guided.streak = IF ~current THEN @ ELSE IF ~matching THEN 0
                                   ELSE IF @ < Matches THEN @ + 1 ELSE @]
  IN /\ id \in Open(client) /\ id = guided.asked
     /\ outcome \in {"Response", "OtherResponse", "Timeout"} => id \in client.sent
     /\ SiteBecomes(HandleProbeCompleted(done, id, outcome))
     /\ UNCHANGED history

BlockCompletes(id) ==
  /\ id \in Open(client) /\ id # guided.asked
  /\ \E reading, decodes \in BOOLEAN :
       SiteBecomes(GuidedCommandCompleted(Site, HandleRequestCompleted(
         [Site EXCEPT !.client = Completed(client, id)], id, reading, decodes)))
  /\ UNCHANGED history

GuidedInit == AppInit /\ guided = NoGuidedRun

GuidedNext ==
  \/ SiteCommand \/ RunGuidedSuite \/ Confirm \/ CancelAction \/ AbortGuided
  \/ TimePasses \/ DeadlineExpires \/ NextProbeDue
  \/ MonitorTask /\ UNCHANGED guided
  \/ \E s \in ConnectionState : SiteTurn(s)
  \/ \E op \in OpIds : SiteAnswer(op)
  \/ \E id \in Ids : RequestStarts(id) /\ UNCHANGED guided
  \/ \E id \in Ids, outcome \in ProbeOutcome : ProbeCompletes(id, outcome)
  \/ \E id \in Ids : BlockCompletes(id)

\* The timers run out and the requests complete; an operation no fault has overtaken
\* is answered.  The operator may do nothing at all.
GuidedFairness ==
  /\ WF_guidedVars(TimePasses) /\ WF_guidedVars(DeadlineExpires)
  /\ \A id \in Ids : WF_guidedVars(\E outcome \in ProbeOutcome : ProbeCompletes(id, outcome))
  /\ \A op \in OpIds : WF_guidedVars(~client.overtaken /\ SiteAnswer(op))

GuidedSpec == GuidedInit /\ [][GuidedNext]_guidedVars /\ GuidedFairness

-----------------------------------------------------------------------------
\* The coordinator and the services keep to their types.
GuidedTypeOK == AppTypeOK /\ guided \in Coordinator

\* The engine has one probe at most.  It is the one the observation at hand waits
\* for, or one that has been cancelled: a stage that is over, by a deadline, an abort
\* or its verdict, leaves no probe running.
ProbeBelongsToStage ==
  /\ guided.probe # 0 =>
       guided.probe = guided.asked /\ guided.stage \in Observations
  /\ guided.asked # 0 =>
       \/ guided.asked = guided.probe
       \/ guided.asked \in client.cancelling \cap Open(client)

\* A case passes only on its own evidence: as many timeouts in a row after it asked
\* the operator to unplug the bus, and then as many responses in a row after it
\* asked him to plug it in, whatever came in between.
PassIsEarned ==
  /\ guided.stage \in {"PlugIn", "Recovery"} => guided.outage = Matches
  /\ guided.verdict = "Pass" /\ guided.stage = "None" =>
       guided.outage = Matches /\ guided.streak = Matches

\* A run never waits for the operator or for the device alone, since every stage has
\* a deadline: it ends though the operator walks away, unless a fault has overtaken
\* the release.
GuidedRunEnds == guided.state # "Idle" ~> guided.state = "Idle" \/ client.overtaken
=============================================================================
