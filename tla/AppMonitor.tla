----------------------------- MODULE AppMonitor -----------------------------
(***************************************************************************)
(* AppStateController, which runs the user's commands one at a time, and   *)
(* MonitorService, which polls the device in batches, over a Modbus client.*)
(*                                                                         *)
(* They live in the application thread and call each other directly: the   *)
(* slots of a signal run inside the call that emits it, and a slot may     *)
(* stop the service that is emitting.  So every function is an operator    *)
(* from a world (client, app, mon) to a world, composed in the order of    *)
(* the calls, and a step is one user command, one timer or one signal of   *)
(* the client with everything it sets off.                                 *)
(***************************************************************************)
EXTENDS ModbusClient

CONSTANTS
  Monitor, Testing,  \* the owners these services act for
  Blocks,            \* device::deviceSnapshotReadBlocks.size()
  MaxFaults          \* bound: Faulted signals

ASSUME AppAssumption ==
  /\ {Monitor, Testing} \subseteq Owners /\ Monitor # Testing
  /\ Blocks \in Nat \ {0} /\ MaxFaults \in Nat
  /\ 0 \notin Ids \cup OpIds

VARIABLES
  app,     \* AppStateController
  mon,     \* MonitorService
  faults,  \* Faulted signals so far
  crossed  \* history: a fault has overtaken an operation of the client

history == <<faults, crossed>>
appVars == <<client, app, mon, history>>

AppState == {"Disconnected", "ConnectedIdle", "Monitoring", "Testing", "Stopping", "Error"}
AppCommand == {"Connect", "Disconnect", "StartMonitoring", "StopMonitoring",
               "StartTesting", "StopTesting", "Recover"}
Stage == {"WaitingOpen", "WaitingClose", "WaitingAcquireMonitor", "WaitingMonitorStop",
          "WaitingReleaseMonitor", "WaitingAcquireTesting", "WaitingReleaseTesting",
          "WaitingRollbackMonitorRelease"}

PendingCommand == [command : AppCommand, stage : Stage, op : OpIds \cup {0}]
NoPending == [command |-> "None", stage |-> "None", op |-> 0]

App == [state : AppState, pending : PendingCommand \cup {NoPending}]

FailureLimit == 3
DeviceHealth == {"Unknown", "Online", "Degraded", "Offline"}

\* activeBatch_: the request under way (0 for none) and the blocks read so far.
Batch == [request : Ids \cup {0}, index : 0..Blocks - 1]
NoBatch == [request |-> 0, index |-> 0]

\* generation_ is left out: a task whose generation is over has been cancelled.
MonitorState == [
  running  : BOOLEAN,
  stopping : BOOLEAN,
  task     : BOOLEAN,            \* scheduledTask_ is waiting for its time
  batch    : Batch,
  active   : BOOLEAN,            \* activeBatch_ holds a batch
  failures : 0..FailureLimit,    \* consecutiveBatchFailures, up to the limit
  health   : DeviceHealth]

World == [client |-> client, app |-> app, mon |-> mon]
Become(w) == client' = w.client /\ app' = w.app /\ mon' = w.mon

NextOp(c) == CHOOSE op \in FreeOp(c) : TRUE
NextId(c) == CHOOSE id \in FreeId(c) : TRUE

-----------------------------------------------------------------------------
(***************************************************************************)
(* AppStateController, its private functions.                              *)
(***************************************************************************)
\* completePendingSuccess.
EndCommand(w, final) ==
  [w EXCEPT !.app.pending = NoPending, !.app.state = final]

\* failPending and enterUnexpectedError, which fails the command if there is one.
EnterError(w) == EndCommand(w, "Error")

\* The pending command waits for the answer to a new operation of the client.
Await(w, stage, ask) ==
  LET op == NextOp(w.client)
  IN [w EXCEPT !.client = ask, !.app.pending.stage = stage, !.app.pending.op = op]

CloseBackend(w) ==
  IF CanClose(w.client)
    THEN Await(w, "WaitingClose", CloseCall(w.client, NextOp(w.client)))
    ELSE EnterError(w)

ReleaseOwner(w, stage, o) ==
  IF CanRelease(w.client, o)
    THEN Await(w, stage, ReleaseCall(w.client, NextOp(w.client), o))
    ELSE EnterError(w)

\* handleMonitorStopped, and releaseMonitorOwner.
HandleMonitorStopped(w) ==
  IF w.app.pending.stage = "WaitingMonitorStop"
    THEN ReleaseOwner(w, "WaitingReleaseMonitor", Monitor)
    ELSE w

-----------------------------------------------------------------------------
(***************************************************************************)
(* MonitorService.                                                         *)
(***************************************************************************)
Halted(w) == [w EXCEPT !.mon.running = FALSE, !.mon.stopping = FALSE, !.mon.task = FALSE]

\* abortBackend, when no batch is under way.
AbortIdle(w) == [Halted(w) EXCEPT !.mon.health = "Offline"]

\* The application's slot for an error the service cannot go on from.
HandleMonitorError(w) ==
  IF w.app.state = "Monitoring" THEN EnterError(AbortIdle(w)) ELSE w

ScheduleAfterCompletedBatch(w) ==
  IF w.mon.running /\ ~w.mon.stopping THEN [w EXCEPT !.mon.task = TRUE] ELSE w

EndBatch(w) == [w EXCEPT !.mon.batch = NoBatch, !.mon.active = FALSE]

\* Mutant of FinalizeFailedBatch: no batch follows a failed one.
FailedBatchIsTheLast(w, fatal) ==
  LET counted == [EndBatch(w) EXCEPT
                    !.mon.failures = IF @ < FailureLimit THEN @ + 1 ELSE @]
      shown == [counted EXCEPT
                  !.mon.health = IF counted.mon.failures >= FailureLimit
                                   THEN "Offline" ELSE "Degraded"]
  IN IF fatal THEN HandleMonitorError(shown) ELSE shown

\* finalizeFailedBatch: errorOccurred is emitted between the end of the batch and
\* the scheduling of the next one; fatal when the backend has gone.
FinalizeFailedBatch(w, fatal) ==
  LET counted == [EndBatch(w) EXCEPT
                    !.mon.failures = IF @ < FailureLimit THEN @ + 1 ELSE @]
      shown == [counted EXCEPT
                  !.mon.health = IF counted.mon.failures >= FailureLimit
                                   THEN "Offline" ELSE "Degraded"]
  IN ScheduleAfterCompletedBatch(IF fatal THEN HandleMonitorError(shown) ELSE shown)

\* Mutant of AbortBackend: the batch under way is forgotten.
AbortKeepsBatch(w) == AbortIdle(w)

AbortBackend(w) ==
  IF w.mon.active
    THEN [FinalizeFailedBatch(Halted(w), TRUE) EXCEPT !.mon.health = "Offline"]
    ELSE AbortIdle(w)

CanStartMonitor(w) ==
  /\ ~w.mon.running /\ ~w.mon.stopping
  /\ w.client.state = "Connected" /\ w.client.owner = Monitor

StartMonitor(w) ==
  [w EXCEPT !.mon.running = TRUE, !.mon.task = TRUE, !.mon.health = "Unknown"]

FinishStop(w) ==
  HandleMonitorStopped([w EXCEPT !.mon.stopping = FALSE, !.mon.health = "Unknown"])

\* stop(), as the application calls it: a refusal fails the pending command.
StopMonitor(w) ==
  IF ~w.mon.running \/ w.mon.stopping THEN EnterError(w)
  ELSE LET halted == [Halted(w) EXCEPT !.mon.stopping = TRUE]
           id == w.mon.batch.request
       IN IF id # 0 /\ CanCancel(w.client, id)
            THEN [halted EXCEPT !.client = CancelCall(w.client, id)]
            ELSE FinishStop(EndBatch(halted))

SubmitNextBlock(w) ==
  IF CanSubmit(w.client) /\ w.client.owner = Monitor
    THEN [w EXCEPT !.client = SubmitCall(w.client, NextId(w.client)),
                   !.mon.batch.request = NextId(w.client)]
    ELSE FinalizeFailedBatch(w, FALSE)

\* The scheduled task runs beginBatch.
BeginBatch(w) ==
  LET due == [w EXCEPT !.mon.task = FALSE]
  IN IF w.mon.active THEN due
     ELSE IF w.client.state = "Connected" /\ w.client.owner = Monitor
            THEN SubmitNextBlock([due EXCEPT !.mon.active = TRUE])
            ELSE AbortBackend(HandleMonitorError(due))

FinalizeSuccessfulBatch(w) ==
  ScheduleAfterCompletedBatch(
    [EndBatch(w) EXCEPT !.mon.failures = 0, !.mon.health = "Online"])

\* handleRequestCompleted, for the request of the batch under way.  reading says
\* whether it brought the block asked for, and decodes whether the snapshot of a
\* complete batch is in range.
HandleBlock(w, reading, decodes) ==
  LET got == [w EXCEPT !.mon.batch.request = 0]
      read == [got EXCEPT !.mon.batch.index = @ + 1]
  IN CASE w.mon.stopping -> FinishStop(EndBatch(got))
       [] ~w.mon.stopping /\ ~w.mon.running -> got
       [] OTHER ->
            CASE ~reading                 -> FinalizeFailedBatch(got, FALSE)
              [] reading /\ read.mon.batch.index < Blocks -> SubmitNextBlock(read)
              [] OTHER -> IF decodes THEN FinalizeSuccessfulBatch(read)
                                     ELSE FinalizeFailedBatch(read, FALSE)

HandleRequestCompleted(w, id, reading, decodes) ==
  IF w.mon.active /\ w.mon.batch.request = id THEN HandleBlock(w, reading, decodes) ELSE w

-----------------------------------------------------------------------------
(***************************************************************************)
(* AppStateController, its commands.  One that is refused changes nothing. *)
(* Those the test services also give have their condition and their effect *)
(* as operators.                                                           *)
(***************************************************************************)
Begun(w, command, stage, op) ==
  [w EXCEPT !.app.pending = [command |-> command, stage |-> stage, op |-> op]]

\* A command that begins with an operation of the client.
Asked1(w, command, stage, state, ask) ==
  [Begun(w, command, stage, NextOp(w.client)) EXCEPT !.client = ask, !.app.state = state]

CanTakeLine(w, o) ==
  /\ w.app.pending = NoPending /\ w.app.state = "ConnectedIdle"
  /\ w.client.state = "Connected" /\ w.client.owner = NoOwner /\ CanAcquire(w.client, o)

StartMonitoringCall(w) ==
  Asked1(w, "StartMonitoring", "WaitingAcquireMonitor", w.app.state,
         AcquireCall(w.client, NextOp(w.client), Monitor))

StartTestingCall(w) ==
  Asked1(w, "StartTesting", "WaitingAcquireTesting", w.app.state,
         AcquireCall(w.client, NextOp(w.client), Testing))

CanStopMonitoring(w) == w.app.pending = NoPending /\ w.app.state = "Monitoring"
StopMonitorFor(w, command) ==
  StopMonitor([Begun(w, command, "WaitingMonitorStop", 0) EXCEPT !.app.state = "Stopping"])

CanStopTesting(w) ==
  /\ w.app.pending = NoPending /\ w.app.state = "Testing" /\ CanRelease(w.client, Testing)
StopTestingCall(w) ==
  Asked1(w, "StopTesting", "WaitingReleaseTesting", "Stopping",
         ReleaseCall(w.client, NextOp(w.client), Testing))

Idle == app.pending = NoPending
CanCommand == FreeOp(client) # {} /\ UNCHANGED history

ConnectDevice ==
  /\ CanCommand /\ Idle /\ app.state = "Disconnected" /\ CanOpen(client)
  /\ Become(Asked1(World, "Connect", "WaitingOpen", app.state,
                   OpenCall(client, NextOp(client))))

\* Testing gives up its ownership first, monitoring stops first; a refused call
\* restores the state.
DisconnectDevice ==
  /\ CanCommand /\ Idle
  /\ \/ app.state = "Monitoring" /\ Become(StopMonitorFor(World, "Disconnect"))
     \/ /\ app.state \in {"ConnectedIdle", "Testing"}
        /\ IF client.owner = Testing
             THEN IF CanRelease(client, Testing)
                    THEN Become(Asked1(World, "Disconnect", "WaitingReleaseTesting", "Stopping",
                                       ReleaseCall(client, NextOp(client), Testing)))
                    ELSE Become([World EXCEPT !.app.state = "Testing"])
             ELSE IF CanClose(client)
                    THEN Become(Asked1(World, "Disconnect", "WaitingClose", "Stopping",
                                       CloseCall(client, NextOp(client))))
                    ELSE Become([World EXCEPT !.app.state = "ConnectedIdle"])

StartMonitoring ==
  CanCommand /\ CanTakeLine(World, Monitor) /\ Become(StartMonitoringCall(World))
StopMonitoring ==
  CanCommand /\ CanStopMonitoring(World) /\ Become(StopMonitorFor(World, "StopMonitoring"))
StartTesting ==
  CanCommand /\ CanTakeLine(World, Testing) /\ Become(StartTestingCall(World))
StopTesting ==
  CanCommand /\ CanStopTesting(World) /\ Become(StopTestingCall(World))

Recover ==
  /\ CanCommand /\ Idle /\ app.state = "Error"
  /\ IF client.state = "Disconnected"
       THEN Become([World EXCEPT !.app.state = "Disconnected"])
       ELSE /\ CanClose(client)
            /\ Become(Asked1(World, "Recover", "WaitingClose", "Stopping",
                           CloseCall(client, NextOp(client))))

-----------------------------------------------------------------------------
(***************************************************************************)
(* The application's slots for the client's signals.                       *)
(***************************************************************************)
\* Mutant of BeginMonitoring: the command is not completed.
MonitoringWithoutAnswer(w) ==
  IF CanStartMonitor(w) THEN [StartMonitor(w) EXCEPT !.app.state = "Monitoring"]
  ELSE ReleaseOwner(w, "WaitingRollbackMonitorRelease", Monitor)

\* The monitor's owner is held: start it, or give the owner back and then fail.
BeginMonitoring(w) ==
  IF CanStartMonitor(w) THEN EndCommand(StartMonitor(w), "Monitoring")
  ELSE ReleaseOwner(w, "WaitingRollbackMonitorRelease", Monitor)

\* Mutant of AfterRelease: a disconnection ends with the release.
DisconnectWithoutClose(w) ==
  EndCommand(w, IF w.app.pending.command = "Disconnect" THEN "Disconnected"
                ELSE "ConnectedIdle")

AfterRelease(w) ==
  IF w.app.pending.command = "Disconnect" THEN CloseBackend(w)
  ELSE EndCommand(w, "ConnectedIdle")

\* What the client must show when the operation of a stage has succeeded.
StageReached(w) ==
  LET stage == w.app.pending.stage
      c == w.client
  IN CASE stage = "WaitingOpen"  -> c.state = "Connected" /\ c.owner = NoOwner
       [] stage = "WaitingClose" -> c.state = "Disconnected"
       [] stage = "WaitingAcquireMonitor" -> c.owner = Monitor
       [] stage = "WaitingAcquireTesting" -> c.owner = Testing
       [] stage \in {"WaitingReleaseMonitor", "WaitingReleaseTesting"} -> c.owner = NoOwner
       [] OTHER -> FALSE

HandleControlCompleted(w, op, ok) ==
  LET stage == w.app.pending.stage
  IN IF w.app.pending.op # op THEN w
     ELSE IF ~ok \/ ~StageReached(w) THEN EnterError(w)
     ELSE CASE stage = "WaitingOpen"  -> EndCommand(w, "ConnectedIdle")
            [] stage = "WaitingClose" -> EndCommand(w, "Disconnected")
            [] stage = "WaitingAcquireMonitor" -> BeginMonitoring(w)
            [] stage = "WaitingAcquireTesting" -> EndCommand(w, "Testing")
            [] OTHER -> AfterRelease(w)

\* Mutant of HandleConnectionStateChanged: a fault does not end the command.
FaultSparesCommand(w, s) == IF s = "Faulted" THEN AbortBackend(w) ELSE w

HandleConnectionStateChanged(w, s) ==
  CASE s = "Faulted" -> EnterError(AbortBackend(w))
    [] s = "Disconnected" ->
         IF w.app.state = "Disconnected" \/ w.app.pending.stage = "WaitingClose" THEN w
         ELSE EnterError(AbortBackend(w))
    [] s = "Connected" ->
         IF w.app.state = "Disconnected" /\ w.app.pending = NoPending THEN EnterError(w) ELSE w
    [] OTHER -> w

-----------------------------------------------------------------------------
(***************************************************************************)
(* What happens by itself: the monitor's timer, and the client's signals.  *)
(* The slots of connectionStateChanged run before the client has reset its *)
(* owner; none of them looks at it.                                        *)
(***************************************************************************)
\* Bound: a batch begins while a RequestId is free.
MonitorTask ==
  /\ mon.task /\ FreeId(client) # {}
  /\ Become(BeginBatch(World)) /\ UNCHANGED history

Turn(s) ==
  /\ MayTurn(client, s)
  /\ faults' = IF s = "Faulted" THEN faults + 1 ELSE faults
  /\ faults' <= MaxFaults
  /\ crossed' = (crossed \/ Turned(client, s).overtaken)
  /\ LET turned == [World EXCEPT !.client = Turned(client, s)]
     IN Become(IF s = client.state THEN turned ELSE HandleConnectionStateChanged(turned, s))

AnswerControl(op, ok) ==
  /\ MayAnswerControl(client, op, ok)
  /\ Become(HandleControlCompleted(
              [World EXCEPT !.client = ControlAnswered(client, op, ok)], op, ok))
  /\ UNCHANGED history

AnswerTransition(op, ok) ==
  /\ MayAnswerTransition(client, op, ok)
  /\ Become(HandleControlCompleted(
              [World EXCEPT !.client = TransitionAnswered(client, op, ok)], op, ok))
  /\ UNCHANGED history

RequestStarts(id) ==
  /\ id \in client.queued
  /\ client' = Started(client, id)
  /\ UNCHANGED <<app, mon, history>>

RequestCompletes(id) ==
  /\ id \in Open(client)
  /\ \E reading, decodes \in BOOLEAN :
       Become(HandleRequestCompleted(
                [World EXCEPT !.client = Completed(client, id)], id, reading, decodes))
  /\ UNCHANGED history

AppInit ==
  /\ client = ClientInit
  /\ app = [state |-> "Disconnected", pending |-> NoPending]
  /\ mon = [running |-> FALSE, stopping |-> FALSE, task |-> FALSE, batch |-> NoBatch,
            active |-> FALSE, failures |-> 0, health |-> "Unknown"]
  /\ faults = 0 /\ crossed = FALSE

UserCommand ==
  ConnectDevice \/ DisconnectDevice \/ StartMonitoring \/ StopMonitoring
  \/ StartTesting \/ StopTesting \/ Recover

Answer(op) == \E ok \in BOOLEAN : AnswerControl(op, ok) \/ AnswerTransition(op, ok)

AppNext ==
  \/ UserCommand \/ MonitorTask
  \/ \E s \in ConnectionState : Turn(s)
  \/ \E op \in OpIds : Answer(op)
  \/ \E id \in Ids : RequestStarts(id) \/ RequestCompletes(id)

AppSpec == AppInit /\ [][AppNext]_appVars

\* The monitor's timer runs out, every request completes, and every operation no
\* fault has overtaken is answered, after the state it asks for has been signalled
\* (EveryRequestCompletes and HealthyOpAnswered of the production client).
AppFairness ==
  /\ WF_appVars(MonitorTask)
  /\ \A id \in Ids : WF_appVars(RequestCompletes(id))
  /\ WF_appVars(~client.overtaken /\ (Turn("Connected") \/ Turn("Disconnected")))
  /\ \A op \in OpIds : WF_appVars(~client.overtaken /\ Answer(op))

FairAppSpec == AppSpec /\ AppFairness

-----------------------------------------------------------------------------
\* The three services keep to their types.
AppTypeOK ==
  /\ client \in Client /\ app \in App /\ mon \in MonitorState
  /\ faults \in 0..MaxFaults /\ crossed \in BOOLEAN

StageKind(stage) ==
  CASE stage = "WaitingOpen"  -> "Open"
    [] stage = "WaitingClose" -> "Close"
    [] stage \in {"WaitingAcquireMonitor", "WaitingAcquireTesting"} -> "AcquireOwnership"
    [] OTHER -> "ReleaseOwnership"

\* A command in progress always waits for something that is still to come: the
\* answer to the client's operation it is at, or the end of the monitor's last
\* request.  A fault between two of its steps ends the command instead.
PendingIsAwaited ==
  app.pending # NoPending =>
    IF app.pending.stage = "WaitingMonitorStop"
      THEN mon.stopping /\ mon.batch.request \in Open(client)
      ELSE client.asks[app.pending.op].kind = StageKind(app.pending.stage)

\* When no command is in progress the application's state tells the truth about
\* the client, the monitor and the line's owner, and Stopping is not left behind.
\* Nothing of the kind holds once a fault has overtaken an operation: its answer may
\* come much later, and the application takes no notice of it.
SettledAgreesWithClient ==
  app.pending = NoPending /\ ~crossed =>
    CASE app.state = "Disconnected"  -> client.state = "Disconnected"
      [] app.state = "ConnectedIdle" ->
           client.state = "Connected" /\ client.owner \notin {Monitor, Testing}
      [] app.state = "Monitoring"    -> client.state = "Connected" /\ client.owner = Monitor
      [] app.state = "Testing"       -> client.state = "Connected" /\ client.owner = Testing
      [] OTHER -> app.state = "Error"

\* The monitor polls exactly while the application shows Monitoring, and it is
\* stopping only for a command that waits for it: a fault stops both.
PollsWhileMonitoring ==
  /\ mon.running <=> app.state = "Monitoring"
  /\ mon.stopping <=> app.pending.stage = "WaitingMonitorStop"

\* Polling never dies quietly: the next batch is scheduled, or the batch under
\* way has a request that the client will complete.
MonitorNeverStalls ==
  /\ mon.running => mon.task \/ mon.active
  /\ mon.active => mon.batch.request \in Open(client) /\ (mon.running \/ mon.stopping)

\* The health shown while polling is that of the last batches, whatever aborts,
\* stops and restarts came between.
HealthFollowsBatches ==
  mon.running =>
    /\ mon.health = "Online"   => mon.failures = 0
    /\ mon.health = "Degraded" => mon.failures \in 1..FailureLimit - 1
    /\ mon.health = "Offline"  => mon.failures = FailureLimit

\* Every command ends, unless a fault has overtaken an operation of the client.
CommandCompletes ==
  app.pending # NoPending ~> app.pending = NoPending \/ client.overtaken

\* While the monitor polls, batch follows batch: one comes to its end, good or bad.
BatchEnds == mon.running ~> ~mon.active /\ (mon.task \/ ~mon.running)
=============================================================================
