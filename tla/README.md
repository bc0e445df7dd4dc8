# A verification development of OMS555TV

OMS555TV is a monitoring and test station for a temperature and light sensor board.
A Qt application on a host talks Modbus RTU over one serial line to an STM32F411 board.
The host polls the board's registers, edits its alarm thresholds, runs scripted and
guided tests against it and reports the results; the firmware samples three I2C
temperature sensors and one ADC, keeps alarm and fault bits, and answers requests.

This directory holds TLA+ models of that code, the TLC configurations that check them,
and proofs that TLAPS checks. `PROJECT.json` maps every definition to the lines it
models. Source paths below are relative to `src/`.

## 1. Inventory

`Q` stands for `host/qt/src`, `A` for `firmware/stm32/App`.

| Component | State it keeps | Operations | Talks to |
|---|---|---|---|
| Modbus client facade, `Q/communication/QSerialPortModbusClient` | connection state, owner, open requests, queue count, flags of the running ownership transition | open, close, acquire, release, read, write, cancel; five slots for the worker's signals | worker thread (queued calls and queued signals) |
| Communication worker, `Q/communication/CommunicationWorker` | port, queue, active request, pending handover and close, resynchronization flag, response timer, silence timer | eight slots; four port and timer events | serial port, facade |
| RTU codec, `Q/communication/RtuCodec` | none | encode a request, classify a candidate answer | worker |
| Fake client, manual scheduler, `Q/communication` | script, virtual clock, the facade's state again | the client interface, advance time | tests, demonstration |
| Application state, `Q/app/AppStateController` | application state, pending command and its stage | connect, disconnect, start and stop monitoring, start and stop testing, recover | client, monitor |
| Monitoring, `Q/monitor` | running flag, generation, block of the batch in progress, consecutive failures, health | start, stop, abort, timer, request results | client, application state |
| Configuration, `Q/configuration` | the batch of threshold writes and read-backs in progress | read, write batch, cancel | client, application state |
| Test engine and handlers, `Q/testing` | run, case, step, retry count, deadlines, saved values to restore | run, skip, abort, request results, timers | client, application state, results |
| Automation controller, `Q/testing/TestAutomationController` | workflow phase, pending operation | load, run, abort | application state, engine, guided coordinator |
| Guided coordinator, `Q/testing/GuidedTestCoordinator` | case, step, stage generation, one-time token, probe in flight | run, operator action, probe result, deadlines, abort | engine, application state |
| Test case loaders, assertions, `Q/testing` | none | validate a document, compare values | engine |
| Diagnostics, session log, `Q/diagnostics`, `Q/logging` | counters, bounded histories, an append-only file | one slot per signal | client, engine |
| Reports, `Q/report` | one export job | build a model, render, save | results |
| User interface, `Q/app/MainWindow`, `Q/ui` | widgets, quality and age of shown values | presentation | everything above |
| Acquisition, `A/acquisition` | a state machine and deadlines per sensor, the ADC batch | one service call per loop | I2C, ADC, device model |
| Device model, alarms, `A/device_model`, `A/alarm` | values, validity, failure counters, alarm and status bits, thresholds | publish, fail, set threshold | acquisition, Modbus slave |
| Modbus slave, `A/modbus`, `A/platform`, `A/app` | receive buffer, time of the last byte, error counters | receive interrupt, error interrupt, poll, process a request | serial line, device model |

How they interact. On the host everything but the worker lives in the application
thread; components call each other directly and signal each other directly, so one event
may run through several components before it returns. The worker has its own thread and
shares no data: the facade posts calls to it, and its signals are queued to the facade.
One owner at a time (monitor, testing) may send; the application state hands the line
over. On the board a single loop polls the receiver and services the acquisition, and the
receive interrupt writes the buffer that the loop reads with that interrupt disabled.

What is hard, and the properties that make each component correct:

- *Client.* Two threads that each see the other's past; commands accepted in one state
  and executed in another; five ways for a request to end; a serial error at any point.
  Every accepted request and operation ends exactly once; order is kept; the queue is
  bounded; an owner's requests never run under another owner; nothing is sent into a
  busy line; nothing waits for an event that cannot come; the answer to one request is
  never delivered as the answer to another.
- *Application and monitoring.* Commands of several steps overtaken by a fault; a stop
  that waits for a request in flight; re-entrant signals. The application state agrees
  with the client's; every accepted command completes once; a fault always leads to Error
  and Error can be left.
- *Configuration, tests, guided tests.* A result, a deadline, an abort and an operator's
  action that race for the same step. Every run ends with a result for each case and with
  the line given back; what a test changed is restored; a stale result or token changes
  nothing.
- *Codec and slave.* Bytes that are damaged, lost or split by a pause. Values shown were
  in the registers, all at one moment; only what was asked is written; an undisturbed
  exchange succeeds.
- *Firmware.* An interrupt between reading the clock and polling; clocks that wrap;
  counters that saturate. A frame is delivered only after silence; the receiver never
  stays deaf; alarms follow their hysteresis; a fault bit is set after three failed cycles
  and cleared by a valid one.

`PROJECT.json` lists the hazards one by one, at the line where each bites, with the
properties that cover it.

## 2. Plan and where it stands

The order was: what everything depends on first. Everything the first plan named is
written except the observers.

| | Module | Extends | Status |
|---|---|---|---|
| 1 | `SerialModbusClient`, `SerialModbusClientProofs`, `SerialModbusClientHandover` | | the facade and the worker; its safety properties are proved |
| 2 | `ModbusClient`, `ModbusClientRefinement` | | the contract of `IModbusClient`; 1 is checked to implement it |
| 3 | `ModbusReceiver`, `ModbusReceiverProofs` | | the firmware's receive path; its safety properties are proved |
| 4 | `DeviceModel`, `Firmware`, `FirmwareProofs` | | main loop, acquisition, model, alarms; every property checked and proved |
| 5 | `AppMonitor`, `AppMonitorProofs` | 2 | application state and monitoring, over the contract; its safety properties are proved |
| 6 | `Configuration`, `ConfigurationProofs`, `Guided`, `GuidedProofs`, `TestEngine`, `TestEngineProofs` | 5 | the consumers, each beside the services of 5; their safety properties are proved |
| 7 | `Rtu` | `DeviceModel` | codec of the host and slave of the firmware over a damaging line |

The composition goes through the contract. `client_live` checks that facade, worker and
event queues implement `ModbusClient!Spec`, whatever the line does; 5 and 6 are built from
the operators of `ModbusClient`, so what holds there holds over the production client for
every behaviour the contract allows. `MC...` modules only give constants their values.

Left: the diagnostics and session log (slots that update independent counters), the
monitoring view model, the loaders, the statistics of a test run; and the theorem worth
proving next: the refinement of the contract, step by step.

## 3. Model and code

### The client

A step of `SerialModbusClient` is one public call of the facade, one signal handled by the
facade, or one event handled by the worker. Each is atomic because each runs to completion
in its thread and the threads share no data. The two Qt event queues are `inbox` (facade to
worker) and `worker.outbox` (worker to facade); Qt delivers each in order.

| Model | Code |
|---|---|
| `connection`, `owner`, `requests`, `cancelling`, `queuedCount`, `inTransition`, `pendingKind`, `accepting` | the facade's members (`QSerialPortModbusClient.h:64-76`) |
| `ops` | history: kind accepted and kinds answered, per operation id |
| `worker` | the worker's members (`CommunicationWorker.h:97-111`) |
| `worker.quiet`, `worker.timer` | `lastRxTimer_` past the silence interval; `silenceTimer_` running |
| `worker.line` | requests the slave may still answer; environment |
| `Open` .. `CancelRequest`, `Destroy` | public calls and the destructor |
| `OnWorker...` | the five slots |
| `ProcessCommand` | the worker's slots `open` .. `shutdown`, through `WorkerOpen` .. `WorkerShutdown` |
| `OnReadyRead`, `OnResponseTimeout`, `OnSilenceElapsed`, `OnSerialError` | the worker's events |
| `LineFallsSilent` | time passes without a byte |

The worker's handlers call each other (`completeActiveSuccess` ends in
`maybeCompleteTransition`, which may end in `startNext`). They are operators from a worker
record to a worker record, composed in the code's order, so an action is the whole
handler with every signal it emits.

What is abstracted. A request is its id and owner; reading and writing differ only in
data. Arriving bytes are attributed to the request that caused them, or to noise, and the
codec's verdict (more, success, error) is chosen: `Rtu` has the codec. A success needs
bytes that answer some request, never pure noise. An answer comes in at most two pieces.
Time is "silent for 3.5 characters or not"; the response timeout may fire at any moment
while a request is active. Writing may be refused whole or in part; opening may be rejected
or fail. A refused call changes nothing and is the negation of a guard.
`completeActiveError` and `completeActiveCancelled` call `maybeCompleteTransition` after
setting `resynchronizing_`; the call then returns at once, so `EndActive` has no counterpart
of it. Not modelled here: a missing worker, exhausted ids, other errors of the Qt event loop.

### The contract

`ModbusClient` is the client as the application thread sees it: one record `client` (state, owner,
open requests, unanswered operations), one operator for the condition of each call (`CanOpen`,
...), one for its effect (`OpenCall`, ...), and the same for each signal. Its `Next` is the client
under any caller. It promises little where the code promises little: once a fault comes between an
operation and its answer (`overtaken`), the answer may come late, more than once in kind, or
never; until the client is at rest again, every operation answered and no request open, nothing is
said of owners, and a close may be seen to end while a request is still queued. What it always
promises of a connection: it comes up, faults and
goes down with nothing on the wire, and it comes up with nothing queued (`MayTurn`).
`ModbusClientRefinement` adds two history variables to the production client, the owner each
unanswered operation asked for and `overtaken`, and maps it to the contract (`Seen`);
`ImplementsContract` is `Contract!Spec`.

That `overtaken` lasts until the client is at rest was found by proving: an earlier contract ended
it with the last missing answer, and the run could not tell. It takes seven operations (open,
acquire, release, close, open, acquire, acquire), a fault and a request that is still open when
every operation has been answered: the next transition is then answered under it.

### Application state and monitoring

`AppMonitor` has `app` (`AppStateController`: state and the pending command with its stage)
and `mon` (`MonitorService`: running, stopping, scheduled task, batch, failures, health).
Both live in the application thread, and a slot runs inside the call that emits the
signal: a fault runs through the controller, which aborts the monitor, which ends its batch,
before the signal returns. So every function is an operator from a world (client, app, mon)
to a world, named as in the code, and a step is one user command, one timer (`MonitorTask`)
or one signal of the client (`Turn`, `AnswerControl`, `AnswerTransition`, `RequestStarts`,
`RequestCompletes`) with everything it sets off. `generation_` of the monitor is left out: a
task whose generation is over has been cancelled. `crossed` is a history variable: a fault
has overtaken an operation of the client.

### Configuration

`Configuration` adds `config`: `pending_` of `ConfigurationService` and the registers of the
device it works on. An operation acquires ManualDebug, reads, writes and reads back item by
item, and releases. The device may restart at any time (`DeviceRestarts`: thresholds are not
stored). `AnswerBoth` runs the two slots of a control answer in the order they are connected.
The values entered by the user are one value `Wanted`. Two bounds keep the identifiers of the
contract from running out in the middle of a step: `OpLeft`, an operation id is free when
`cancel()` or a request's result may lead to a release; and in `AnswerBoth` a request id is
free when the answer may lead to a request. The code counts its ids up and never runs out.

### Test engine and automation

`TestEngine` adds `engine` (run, cases, step, attempts, pause, position in a composite case,
value to restore) and `auto` (the workflow of `TestAutomationController`). The engine calls
itself: a request that is refused ends its case inside the call that submits it, and the
next case begins there. `StartNextCase` therefore says at once which cases end that way,
all those before the first that begins with a pause, and which one begins, instead of calling
itself; `AbandonCase` is what a handler does about an error it never goes on after. Six kinds of case stand for those of the code: a single request; a write with
read-before, verify and restore; a sequence that goes on or stops on failure; repeated
reads (consistency); and reads until a duration is over (stability). A case's budget is
ample, short (a pause does not fit) or spent; `CaseTimePasses` moves it. `Notify` runs the
automation's slot when the controller has completed a command. Two bounds again keep an
identifier free for what follows at once: in `DelayEnds` and `LabAnswer` a request id is.

Four histories count what the engine sends, since the client gives an identifier again and a
second request of a step may look like the first: `tries` the requests of the step at hand,
`taken` the steps its case has begun (of a stability case, in the iteration at hand),
`restores` the requests that restore, and `overdue` that any other was sent after an abort or
with the budget spent. `Counted` and `Anew` count them, the end of a step, an iteration or a
case resets them, and only `SendsNoMoreThanItMay` reads them.

### Guided tests

`Guided` adds `guided`: the coordinator with its stage (unplug, outage, plug in, recovery),
and the probe of the engine. `InvalidateStage` is what every stage change does first:
cancel the tasks, the token and the probe. `Confirm`, `CancelAction` and `AbortGuided` are
the operator, `TimePasses` and `DeadlineExpires` the deadline, `NextProbeDue` the interval,
`ProbeCompletes` a result. The histories `outage` and `streak` count matches by
themselves, from results of the stage at hand only.

### Frames

`Rtu` is one exchange after another with real frames of bytes. `EncodeRequest`,
`EvaluateCandidate`, `DecodeFrame`, `DecodeBlock` are the host's codec, `ReadyRead` and
`SilenceElapsed` the way the worker feeds it; `ProcessAdu`, `ProcessRead`, `ProcessWrite`,
`Register` and `WriteSingle` are the slave and its register map; the checksum is that of both
sides, bit by bit. The line flips bits, loses or adds a byte, splits a request, or loses what
is under way, once per exchange.

### The firmware's receiver

`ModbusReceiver` has the interrupt, the main loop and the line between them. The interrupt
takes one byte (`ReceiveByte`, through `UART_Receive_IT` of the HAL) or notices an idle
line (`IdleInterrupt`); its two callbacks are operators on the record `port`, which holds
`Stm32ModbusState`, the chunk the HAL is filling and whether a reception is armed. The main
loop has two steps: `ReadClock` reads `now_ms` in `app_service()`, `Poll` is
`stm32_modbus_poll()` with what `service_modbus()` does with its event; the poll is atomic
because it runs with the USART interrupt disabled. Ticks and interrupts may come between
the two.

A byte is its message, its place and the number of error callbacks before it. The master
sends a message without a pause of a millisecond and leaves `MasterGap` ticks between
messages; `Segmented` lets it pause for more than a character, which the UART takes for an
idle line. An error hits a byte of a message; an overrun also ends the reception. Bytes
that arrive while nothing is armed are lost: arming reads the data register empty.
Starting a reception may fail, as the code provides for. `MaxLag` bounds the time from one
poll to the next. Bytes that no master sent are not modelled.

### The firmware's main loop

`DeviceModel` holds the operators of `device_model.c` and `alarm.c`: publish a value, record
a failure, set a threshold, with the two saturating failure counters of a channel.
`Firmware` is the loop: `StartPass` reads the clock (`now`), counts the uptime and serves
Modbus (what a master does to the model is a threshold write); then come one
`ServiceChannel` per sensor and `ServiceAdc`, all with the same `now`. `Tick` may come
between any two of them, up to `MaxLag` per pass, and the clock wraps at `Modulus`. Each I2C
or ADC call succeeds, fails or gives a bad checksum. Channels share nothing but the time of
the pass, so a behaviour follows one channel (`watched`), chosen at the start, and the
others only take time. `seen` is the observer: ages and counts kept without wrap.

## 4. Runs

| Run | Bounds | Shows |
|---|---|---|
| `client_faults` | 2 requests, 4 operations, 1 fault; late answers | whatever the line does: conservation, limits, order, no stall, no frame into a busy line |
| `client_healthy` | 2 requests, 5 operations, 1 noise | while the port reports no error: a request in flight belongs to the owner, and an answer completes the request it answers, through cancels, timeouts and reopening |
| `client_live` | 1 request, 4 operations, 1 fault; late answers | the contract is implemented; every accepted request ends, faults included; every accepted operation is answered as long as no error has come |
| `app_monitor` | 2 requests, 3 operations open, 2 blocks, 2 faults | a command waits for something under way and ends; settled states agree with the client; polling never dies quietly |
| `configuration` | 2 channels, 1 fault, 1 cancel per operation | the line is given back, what is reported is what the device holds, an operation always waits for something under way |
| `configuration_cancel_twice` | the same, 2 cancels | finding 1 |
| `test_engine` | 5 suites with all six kinds, 3 steps (2 delayed), 1 retry, 1 fault | a run waits for something under way; what a case wrote is restored or reported; the line is given back; no step, retry or restore too many is sent, and after an abort only the restore |
| `guided` | 2 cases, 2 matches, 1 fault | a probe belongs to its stage; a pass is earned within the stages; every run ends |
| `rtu` | 6 reads, 4 writes, 1 sample, 1 damage per exchange | what the host is told is true; an intact exchange succeeds; only asked writes apply |
| `receiver_line` | array 2, gap 1, clock 4, master's gap 3, lag 2, 2 messages of length 3, 2 errors, 1 failed arm; segmented | arrays not overrun, no byte twice or out of order, never deaf, errors reported once, reception starts again |
| `receiver_clean` | array 3, gap 3, clock 12, master's gap 8, lag 2, 2 messages of length 2 or 4, 2 errors, 1 failed arm | a message not hit itself arrives whole, whatever came before it |
| `firmware` | clock 30, interval 4, ready poll 2, conversion 3, batch of 2, lag 1; 1 sensor, the ambient channel, the light | faults after failures in a row, results in time, alarms on evidence, exact uptime, the sensor's rest |

Why the bounds are enough.

- *Client.* Two requests make order, an active and a queued request, and the queue limit
  meaningful. Four operations are open, acquire, one of release, handover or close, and one
  more after it, also with a fault between any two; five reach a second connection with an
  owner of its own. One fault already meets every state of the worker. Owners are symmetric
  where only safety is checked. `LateAnswers` lets the slave answer a request after it has
  ended and the line has been silent since; the host specification names that risk
  (`specs/host_phase3_modbus_communication.md:671`), and `SuccessAnswersItsRequest` is
  therefore stated for a slave that stays silent once the line has fallen silent.
- *Services.* Ids are reused when their request or operation is over, so behaviours have no end:
  `Ids` and `OpIds` bound what is open at once, and two or three are more than the application
  has; a command is given while an operation id is free, a batch begins while a request id is, and
  `Configuration` and `TestEngine` have the bounds named in section 3. Two blocks make a first and a last one.
  One fault after another (`MaxFaults` 2) reaches a fault during the recovery from one.
- *Tests.* Suites of two cases make a next case after each way to end one; three steps have
  a first, a middle and a last, one with a pause before it and one without. One retry makes
  a first and a last attempt. Two matches make a streak that can be broken.
- *Frames.* The constants are the device's. The blocks are the five the monitor reads, and
  a read across a gap of the map; the writes are a legal one, the coldest legal value, one
  below it and a register that is read only. The sample is negative, and an uptime of 65536
  makes both halves of a 32-bit value differ. The two masks flip the lowest and the
  highest bit of any byte; the second turns an answer into an exception.
- *Receiver.* A message longer than the array fills the chunk, causes a second interrupt and
  an overflow; two errors cover an error while another is pending; the clock starts
  anywhere, so it wraps at every point of the run. `receiver_clean` has the smallest
  master's gap that leaves room for the frame gap and two polls (section 6), and messages
  sent without a pause (observation 6 below).
- *Main loop.* The clock turns round many times while the sensors go through all their
  states. The interval must be longer than a lag and shorter than half the clock's range,
  which is `FirmwareAssumption`; with the code's constants both sides are far apart, and
  the proofs of section 6 hold for all values.

Deadlock is checked except where the system may stop: the client's runs (ids used up, the
facade destroyed), the receiver's runs (messages and errors used up) and `test_engine`,
where the automation may stay in `StoppingMonitoring` for ever (observation 8).

Fairness, and why the code justifies it.

- `FairSpec` of the client: both event loops run what is queued to them; the response timer
  of an active request fires; a running silence timer fires once the line is silent; and the
  line falls silent again and again. The last is an assumption about the wire: bytes that
  never stop restart the silence timer for ever (`CommunicationWorker.cpp:279`), and then
  the code waits too. Nothing obliges the slave to answer, the port to fail or the
  application to call.
- `AppFairness`: the monitor's timer, the completion of every request, and the answer of an
  operation that no fault has overtaken. The last two are what `client_live` checks of the
  production client (`EveryRequestCompletes`, `HealthyOpAnswered`).
- `GuidedFairness`: the same for the probe and the operations, and the deadlines. The
  operator is under no obligation.
- `FairSpec` of the receiver: the main loop runs for ever (`Core/Src/main.c:118`), and a
  reception fails to start finitely often.

Every property has a mutant in `PROJECT.json`: a definition with a plausible bug (a
dropped guard, a missing reset, a swapped order) under which the run must fail. The
mutants are the definitions marked "Mutant of" next to the originals.

## 5. Findings and observations

**Finding 1: a second cancel leaves the line held** (`configuration_cancel_twice`).
`cancel()` called again while the owner is being acquired finds the state `Cancelling` that
the first call has set (`ConfigurationService.cpp:160`) and ends the operation at once
(`:168`); the acquisition then succeeds and ManualDebug holds the line for no operation.
The button stays enabled meanwhile (`MainWindow.cpp:1071`). The documents ask for the owner
to be None in the end (`specs/host_phase4_configuration_and_diagnostics.md:85`,
`docs/architecture.md:142`).

Other disagreements with the documents were met while modelling. They have no run of their
own; where a property is named it is in the module, and the settings given violate it.

Five need a serial error between the moment the facade accepts a command and the moment
the worker executes it: the facade still shows Connected, the worker is Faulted. All are
seen with `Client_healthy.cfg` changed to `MaxRequests = 1`, `MaxNoise = 0`, `MaxFaults = 1` and
the number of operations given. The contract's `overtaken` stands for them.

1. *A handover survives its connection* (`InFlightBelongsToOwner`, 6 operations). The worker
   records the transition in Faulted (`CommunicationWorker.cpp:171`, `:186`), cannot complete
   it there (`:520`), and neither close nor open forgets it. After the next open it takes
   the line from the owner granted meanwhile. `specs/host_phase3_modbus_communication.md:302`
   asks for controlled handovers only.
2. *An owner in Faulted* (`OwnerNeedsConnection`, 4). `acquireOwnership()` in the worker looks
   at its owner only (`:166`); `:299` of that document allows it in Connected only.
3. *Configuring an open port* (`OpensClosedPort`, 6). Two closes are executed, the facade
   shows Disconnected twice and accepts two opens; the second runs into
   `Q_ASSERT(!port_.isOpen())` (`QSerialPortTransport.cpp:40`).
4. *An answer under the wrong name* (`OpsAnsweredOnce`, 6, two faults). The kind reported is
   that of the last accepted transition (`QSerialPortModbusClient.cpp:401`), not that of the
   operation answered; `:246` of the document asks for one answer per operation.
5. *An operation without an answer* (`EveryOpAnswered`, 4). The second close overwrites the
   first (`CommunicationWorker.cpp:147`).

Two are in the firmware's receiver (`Receiver_clean.cfg` with `Segmented = TRUE`,
`MaxArmFailures = 0`).

6. *A frame delivered too early* (`FrameAfterSilence`, no errors). `app_service()` reads the
   clock before the poll disables the interrupt. A byte stamped in between is newer than
   `now_ms`; the unsigned difference (`modbus_rtu_rx.c:53`) wraps, the silence looks endless,
   and what has been received so far is delivered.
   `specs/firmware_phase2_modbus_rtu_slave.md:78` states the lower bound that is missed.
7. *An error does not void its frame* (`ErrorVoidsFrame`, two errors). The error callback
   (`platform_stm32.c:467`) clears the receiver but not the chunk that the HAL goes on
   filling until the next poll; `:261` of that document asks that bytes before and after an
   error are not joined.

One is in the automation controller, seen when deadlock is checked in `test_engine`.

8. *An answer given too soon is not heard.* `stopMonitoring` may fail before it returns, when
   a fault has overtaken an operation; the controller sets the id it waits for only
   afterwards (`TestAutomationController.cpp:358`) and stays in `StoppingMonitoring`.
   `RunIsAwaited` makes this exception explicitly.

And one of the client again, for which the bounds of `client_faults` are too small.

9. *Disconnected with a request left* (`DisconnectedIsQuiescent`, 7 operations, 2 faults, 38
   steps: open, close, close, open, open, acquire, close). After a fault the facade accepts
   two closes, and the signals of the second come into the next connection: a Connected it
   believes, while a close is still on its way to the worker. A request submitted then is
   still Queued when the close has ended and the facade shows Disconnected. Its result comes
   afterwards: `Accounted` of section 6 says that it is posted or reported. The contract
   therefore promises a quiescent end only while no fault has overtaken an operation.

Properties that were stated and held, and are not in a run of their own because a stronger one is:
`HandoverIsDrained` and `OwnerLeavesByTransition` of the client (within the bounds of
`client_faults`); `HealthFollowsBatches`, `ServicesTypeOK`, `LabTypeOK`, `GuidedTypeOK` of the
services. `TypeOK`, `AlarmAgreesWithModel` and `BatchCountsItsSamples` of `Firmware`, `AppTypeOK`
and `PollsWhileMonitoring` of `AppMonitor`, and `NoStrandedRequest` and `WorkerQueueBounded` of
the client are proved.

## 6. Proofs

`SerialModbusClientProofs` proves, for any owners, limits and bounds that satisfy
`ClientAssumption`:

| Theorem | States |
|---|---|
| `Invariance` | `Spec => []IInv` |
| `TypeCorrect` | `TypeOK` |
| `WorkerNeverStalls` | `NeverStalls` |
| `QueueLimitKept` | `QueueBounded` |
| `FramesAreSeparated` | `SendsIntoSilence` |

None of these is inductive alone. `NeverStalls` says that something is armed for
everything the worker waits for; to show that a handler preserves it one must know that
the handler is entered with a well-typed worker whose port, state and transitions fit
together, and that the operators it is composed of keep that. The inductive invariant
`IInv` is the conjunction of `TypeOK`, `QueueBounded`, the freshness of unused request
ids, and `Settled(worker)`: the worker is well typed (`Sound`), a resynchronization and a
waiting queue have the silence timer running (`Armed`), and a transition or close waits
for the active request or the resynchronization (`Moving`).

The proof follows the code. One lemma per private function of the worker says what the
function keeps and which signals it adds; one lemma per slot, call and event composes
them; `NextStep` splits on the disjuncts of `Next`. Every step is also shown `Polite` (a
frame is added to the line only from a silent line), which gives `FramesAreSeparated`.
Cardinality facts about `SubsequenceAt` and about the queued requests are lemmas of their
own, from `FiniteSetTheorems`.

Its second half is about what becomes of the requests, under the same assumption:

| Theorem | States |
|---|---|
| `ConservationInvariance` | `Spec => []CInv` |
| `RequestsConserved` | `RequestConservation` |
| `RequestsInOrder` | `FifoOrder` |
| `SuccessesAreTrue` | `SuccessAnswersItsRequest`, if `~LateAnswers` |
| `NoRequestStranded` | `NoStrandedRequest` |
| `WorkerQueueLimited` | `WorkerQueueBounded` |

Inside the worker the argument is local: every handler hands a request on from the queue to
the active place and from there to a result (`Carries`), tells of each in order (`Descends`),
and leaves the worker tidy (`Sane`, `Tidy`, `Clear`): requests only with a live port, at most
one result each. Between the threads it is not. `open()` in the worker empties the queue and
the active place without a result for what was in them, so it must never meet a request; and a
fault lets the facade accept calls for a connection the worker no longer has. The
invariant therefore tells two phases apart, by the signals and commands under way. `Calm`:
until the first sign of a new connection comes, every close stands before every open, and
nothing can be submitted. `Engaged`: from then on, every open that is still to be executed
stands before every close and every request. `InOrder` keeps the ids under way ascending, the
posted after the worker's pending ones, none of them told; `Accounted` says that while the
client lives `requests` shows exactly what is posted or held. After the destructor only the
worker's own part is left (`Dead`). The conjunction, `CInv`, was checked with TLC first, with
up to two faults. `SuccessesAreTrue` needs its hypothesis: with late answers TLC
shows the wrong one delivered (section 4).

`SerialModbusClientHandover` proves, under the same assumption, whom the worker serves:

| Theorem | States |
|---|---|
| `HealthyPortServesOwner` | `InFlightBelongsToOwner`, while `faults = 0` |

No part of the code compares the owner of a request the worker holds with the owner of the
line: the property rests on the facade, which accepts requests for an owner it has only heard
of, and on the order of the two queues. `HealthInv` follows an order of the facade (an open,
close, acquire or release) through them in four stages, and says what each stage keeps.
`Resting`: none is under way, the facade is in the worker's state, and a request on its way is
for the worker's owner. `Sent`: one order is in the inbox, behind every request. `Working`: the
worker waits for the request in flight, or for silence; nothing else is in the inbox. `Heard`:
the one signal that ends the transition is in the outbox, and after it no result of what was
open before. `Linked` covers the owner an open forgets: then the facade may not submit before
it has acquired the line again. Below that, `Works` reduces every step of the worker to what
it means for a transition: `Steady` (requests move, nothing else is said), `Hands` and `Ends`
(a handover or a close is completed), and one operator for each command; the lemmas that a
handler is one of these repeat the structure of the code, and each stage needs one argument
per operator. Two more invariants hold with faults as well: `Adjacent` (an answer to open() or
close() directly follows the state it is about, so the facade is in that state when it takes
it) and `Balanced` (the open requests are those posted, held or answered, until the worker
stops). With a fault the theorem's hypothesis is needed: the worker then has no owner while
commands for the old one are still on their way.

`ModbusReceiverProofs` proves, under `ReceiverAssumption`:

| Theorem | States |
|---|---|
| `ReceiverInvariance` | `Spec => []IInv` |
| `ReceiverTypes` | `TypeOK`, with the sizes of the two arrays |
| `ReceiverNeverDeaf` | `NeverDeaf` |
| `ReceiverReportsErrors` | `ErrorsReportedOnce`, of no more errors than a bound below the limit at which the code's count saturates |
| `ReceiverKeepsOrder` | `FramesInOrder` |
| `ReceiverDelivers` | `CleanMessagesArrive`, with `Timely` |

Its `IInv` adds to these that the bytes in the receiver come before those in the chunk,
that both come after everything delivered, and that nothing anywhere is later than what
has been sent; without it a poll could deliver an old byte again. The lemmas about the
callbacks say which bytes a callback leaves in the port (`Held`), so that each action needs
one argument about order only.

`ReceiverDelivers` is about time. `Timely` says that a message is sent without a pause
(observation 6 shows what happens otherwise), that the frame gap is not 0, that the master's
gap is longer than the frame gap and two turns of the main loop, and than the turns that
failed attempts to start a reception take, and that the clock counts further than that. The
first bound on the gap is exact: with one tick less TLC finds `receiver_clean` violated. The
invariant (`Delivery`) bounds the age of what is in the port by the ticks since the last
poll: a poll that does not end the frame either found an error, which had reset the receiver
after the poll before, or read its clock when the last byte was younger than the frame gap.
So no age reaches the size of the clock and no difference is ambiguous (`NotEnded` covers a
byte stamped after the clock was read), and when a message begins the port is armed and
empty (`AtRest`). From there a message that is not hit is in the chunk, in the receiver or
delivered (`UnderWay`), with every byte it has so far.

`FirmwareProofs` proves, under `DeviceModelAssumption` and `FirmwareAssumption`:

| Theorem | States |
|---|---|
| `FirmwareInvariance`, `FirmwareTypes` | `Spec => []IInv`, `TypeOK` |
| `FirmwareFaults` | `FaultAfterFailuresInARow` |
| `FirmwareUptime` | `UptimeExact` |
| `FirmwareAlarms` | `AlarmNeedsEvidence` |
| `FirmwareAlarmsAgree` | `AlarmAgreesWithModel` |

The fault bit follows from two counters that each saturate and are reset by different
events; `Counted` relates both to the observer's single count, and is what makes the claim
inductive. `BatchCountsItsSamples` bounds the sum of a batch, which the type of the context
needs. For the uptime the arithmetic is done once, in lemmas on `%` and `\div`. A step
changes the model only through the functions of `device_model.c`; `Follows` says how a model
may follow another as far as alarms go, there is one lemma per function, and both alarm
theorems come from it.

and of the wrapping clock:

| Theorem | States |
|---|---|
| `FirmwareTimeliness` | `Spec => []Timely` |
| `FirmwareResults` | `ResultsInTime` |
| `FirmwareSensorTimes` | `SensorGetsItsTimes` |

The code compares deadlines through the sign of a 32-bit difference
(`acquisition.c:21`), which is right only while every deadline is less than half the
clock's range away. `Ahead(t)` is the signed distance to a deadline, `Near` the distances for
which it is true to time; `AheadIs`, `AheadPasses`, `ReachedIsPast` and `SinceIsPast` then
remove the wrap from the argument. `Timely` bounds, per state of the sensor and of the
batch, how far each deadline is ahead or past, and the age of the last result and command
by it. With `S` the interval, `B` the batch size and `L` the longest pass, a result of a
sensor is never older than `S + ConversionTimeout + ReadyPoll + 3(L - 1)`, one of the light
`S + (2B + 2)L - 1`. The assumption asks that the clock's range is more than twice
`S + ConversionTimeout + ReadyPoll + 3L` and `S + (2B + 2)L`; for the code's 2^32 ms that
allows passes of days.

`AppMonitorProofs` proves, under `ContractAssumption` and `AppAssumption`, so for any owners,
ids, blocks and faults, over every client that keeps the contract:

| Theorem | States |
|---|---|
| `AppInvariant`, `AppTypes` | `AppSpec => []IInv`, `AppTypeOK` |
| `CommandIsAwaited` | `PendingIsAwaited` |
| `MonitorKeepsWorking` | `MonitorNeverStalls` |
| `MonitorFollowsApplication` | `PollsWhileMonitoring` |
| `ApplicationTellsTheTruth` | `SettledAgreesWithClient` |

A step composes functions that call each other in the middle of their own work, so `IInv` is
stated of a world. `Fine` holds in every reachable world: a batch has a request the client
has open (`MonitorWorks`), monitor and application keep step (`KeepStep`), and the operation
a command waits for has the kind of its stage (`CommandWaits`). `InStep` holds until a fault
overtakes an operation: the client then has nothing under way but what the pending command
asks, or an open() that a fault has ended. It is what makes `SettledAgreesWithClient`
inductive: without it an answer nobody waits for could move the owner under a settled
application. Between two calls neither holds in full; `Ready`, `Quiet` and `GoesOn` say
what does, with one lemma per function of the services and per call of the client, and one
per command and signal that puts them together.

Its last section is about the two services beside another one whose state the world then
holds too: their slots leave it alone and make at most one call of the client (`Still`,
`Releases`, `Closes`, `Submits`, `Revokes`, `Commands`, one lemma per function again). That is all
the next two modules know of the application and the monitor.

`ConfigurationProofs` proves, under the same assumptions and `ConfigurationAssumption`, so for
any number of channels, faults, cancels and identifiers:

| Theorem | States |
|---|---|
| `ConfigurationInvariance` | `ServicesSpec => []CInv` |
| `ConfigurationNeverHangs` | `OperationIsAwaited` |
| `ConfigurationReportsTheDevice` | `ReportsTheDevice` |
| `ConfigurationGivesTheLineBack` | `NothingLeftBehind`, if `MaxCancels <= 1` |

`CInv` has three parts. `Waiting`: each state of the service awaits exactly one answer that
is to come, and the operation the application waits for is another. `Telling`: what is
reported of an item is what the device has, with the stronger fact that makes it inductive,
that a register holds the value it had at the start or the one wanted, and that items not
yet come to are as at the start. `Line`, until a fault overtakes an operation: the
client makes one transition at a time and only in a connection, and ManualDebug has the line, or
is about to get it, only while an operation of the service is at it. `Unhurt` says what the
other services must leave alone, and one lemma per private function of the service says that
what it decides leaves it waiting or idle (`Decided`). The hypothesis of the last theorem is
the boundary of finding 1: with a second cancel the run `configuration_cancel_twice`
violates the property.

`GuidedProofs` proves, with `GuidedAssumption`, for any cases, matches and faults:

| Theorem | States |
|---|---|
| `GuidedInvariance` | `GuidedSpec => []GInv` |
| `GuidedProbeBelongs` | `ProbeBelongsToStage` |
| `GuidedPassIsEarned` | `PassIsEarned` |

`Probing` adds that only a running observation has a probe, and that a probe forgotten by its
stage is one the client is cancelling; `Evidence` that in an observation the coordinator's
count is the observer's, that the prompt to plug in and the recovery were reached with enough
timeouts, and that only a stage that can be prompted has a token. A lemma per function of the
coordinator carries both through the end of a stage, of a case and of a run. No type is
needed: an identifier the client gives twice would do no harm to either.

`TestEngineProofs` proves, with `ContractAssumption`, `AppAssumption` and `EngineAssumption`,
so for any suites, steps, pauses, retries, faults and identifiers:

| Theorem | States |
|---|---|
| `LabInvariant` | `LabSpec => []LInv` |
| `RunWaits` | `RunIsAwaited` |
| `RegisterRestoredOrReported` | `RestoredOrReported` |
| `LineComesBack` | `LineGivenBack` |
| `SendsAreModest` | `SendsNoMoreThanItMay` |

`LInv` relates the three parts of a world. `HostFits` is what the engine may rely on: `Fine`
and `InStep` of `AppMonitorProofs`, that the client makes no transition nobody asked for
(`MovesAreAsked`), and that Testing has the line only while the application shows it
or gives it back (`LineLent`). `EngineFits` is the engine's part: the state of a
run against the application's (`HostServes`), that a case under way waits for a request the
client has open or for a pause (`CaseWaits`), and that the register holds what the case found
in it, or else its write counts as accepted and the value to restore is known (`CaseKeeps`),
and that it has begun no more steps than it has come to (`CaseCounts`).
The last is what makes `RestoredOrReported` inductive: the claim is about a case that is over,
the reason lies in every step before it, and a write without an answer may have been done.
`LineWanted` says who will give the line back, and `AutoFits` what the automation waits for.

The engine's functions call each other across the end of a case and of a run, and a run ends
inside the application's signal. So each function has a lemma that takes it from a
world in which the engine is between two steps (`Between`) to one that fits (`Settles`), from
the end of a run back to the start of a case; `NotifyFits` adds what the automation does when
a command is completed. For `SendsAreModest` each of these lemmas says how many steps the
case may have begun when the function is called: as many as the step at hand stands for
(`Quota`), one less when another is to begin. `EngineKept` has the rest, which does not depend
on the case: as many requests were sent for the step as the engine's own `attempts` says, and
at most one was to restore. The first theorem was checked as an invariant of `test_engine`'s
instance before it was proved.

Only model-checked: of the client, the implementation of the contract; of configuration and
of the tests, that they keep to their types as a whole; frames. Out of the prover's reach
are liveness under fairness, `ENABLED`, what a recursive definition computes for every input,
and modules with RECURSIVE operators or `Bitwise`: that keeps `Rtu` with TLC. The
implementation of the contract is a safety property too, and within reach; it needs an
invariant across both queues on top of the two that are proved.

## 7. Not modelled, and why

- The vendored HAL, CMSIS and generated start-up code, which are by far most of the
  repository's lines; of the HAL the receive path the code depends on is modelled as used.
- The JSON loaders: pure functions of a document with hundreds of independent field rules.
- Assertions on read values, statistics and log lines of a run, and the retention of
  results: sequential, with nothing that interleaves.
- Reports, widgets and the view model: formatting and presentation.
- Diagnostics and session log: one slot per signal, each an update of counters or one
  appended line.
- The fake client and the manual scheduler: stand-ins for tests.
- The arithmetic of `dhtc12_codec.c`: a frame of the sensor is its verdict and its value.
- `CommunicationWorker.cpp:215`, the truncation of the silence interval to milliseconds: time
  in the client is "silent long enough or not".

`PROJECT.json` "components" says the same per component.
