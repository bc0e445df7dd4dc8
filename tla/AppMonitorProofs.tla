-------------------------- MODULE AppMonitorProofs --------------------------
(***************************************************************************)
(* Proofs about AppMonitor: a command in progress waits for something that *)
(* is under way, the monitor never stops working while it says it runs,    *)
(* and the settled states of the application agree with the client, for    *)
(* every set of owners, identifiers, blocks and faults.                    *)
(*                                                                         *)
(* A step is a composition of operators from world to world, so the        *)
(* invariant is stated of a world and of what the history says of it, and  *)
(* there is a lemma for every operator and every step.                     *)
(***************************************************************************)
EXTENDS AppMonitor, FiniteSetTheorems, TLAPS

Worlds == [client : Client, app : App, mon : MonitorState]

Transitions == {"WaitingAcquireMonitor", "WaitingReleaseMonitor", "WaitingAcquireTesting",
                "WaitingReleaseTesting", "WaitingRollbackMonitorRelease"}

\* Nothing of a batch is left.
Quiet(m) ==
  /\ ~m.running /\ ~m.stopping /\ ~m.task /\ ~m.active /\ m.batch = NoBatch

\* The monitor works while it runs, and while it stops it has a request to wait for.
MonitorWorks(m, c) ==
  /\ m.running => m.task \/ m.active
  /\ m.task => m.running
  /\ m.active => m.batch.request \in Open(c) /\ (m.running \/ m.stopping)
  /\ ~m.active => m.batch = NoBatch
  /\ m.stopping => m.active

\* The command and the monitor keep step, and the answer awaited is to come.
CommandWaits(a, c) ==
  a.pending # NoPending =>
    /\ a.state # "Monitoring"
    /\ IF a.pending.stage = "WaitingMonitorStop" THEN a.pending.op = 0 /\ FreeOp(c) # {}
       ELSE a.pending.op \in OpIds /\ c.asks[a.pending.op].kind = StageKind(a.pending.stage)

KeepStep(a, m) ==
  /\ m.running <=> a.state = "Monitoring"
  /\ m.stopping <=> a.pending.stage = "WaitingMonitorStop"

\* The settled states agree with the client.
Agrees(state, c) ==
  CASE state = "Disconnected"  -> c.state = "Disconnected"
    [] state = "ConnectedIdle" -> c.state = "Connected" /\ c.owner \notin {Monitor, Testing}
    [] state = "Monitoring"    -> c.state = "Connected" /\ c.owner = Monitor
    [] state = "Testing"       -> c.state = "Connected" /\ c.owner = Testing
    [] OTHER -> state = "Error"

\* No fault has overtaken an operation, and the client has none under way; an open()
\* that a fault has ended may still be answered.
Clear(c) == ~c.overtaken /\ \A op \in OpIds : c.asks[op].kind \in {"None", "Open"}

\* Until a fault overtakes an operation, the client does nothing but what the pending
\* command asks.
InStep(w) ==
  /\ ~w.client.overtaken
  /\ \A op \in OpIds :
       w.client.asks[op].kind \notin {"None", "Open"} => w.app.pending.op = op
  /\ w.app.pending.stage \in Transitions => w.client.state = "Connected"
  /\ w.app.pending = NoPending => Agrees(w.app.state, w.client)

Fine(w) ==
  /\ w \in Worlds
  /\ MonitorWorks(w.mon, w.client)
  /\ KeepStep(w.app, w.mon)
  /\ CommandWaits(w.app, w.client)

IInv ==
  /\ Fine(World)
  /\ ~crossed => InStep(World)
  /\ faults \in 0..MaxFaults /\ crossed \in BOOLEAN

-----------------------------------------------------------------------------
(***************************************************************************)
(* The calls and signals of the client.                                    *)
(***************************************************************************)
\* What a call that begins an operation does to the client.
Asks(d, c, op, kind) ==
  /\ d \in Client /\ Open(d) = Open(c) /\ d.overtaken = c.overtaken
  /\ d.asks[op].kind = kind
  /\ \A other \in OpIds \ {op} : d.asks[other] = c.asks[other]

LEMMA OpenAsks ==
  ASSUME NEW c \in Client, NEW op \in OpIds
  PROVE  Asks(OpenCall(c, op), c, op, "Open")
BY ContractAssumption DEF Asks, OpenCall, Asking, Client, Ask, Open, OwnerOrNone, ControlKind,
   ConnectionState

LEMMA CloseAsks ==
  ASSUME NEW c \in Client, NEW op \in OpIds
  PROVE  Asks(CloseCall(c, op), c, op, "Close")
BY ContractAssumption DEF Asks, CloseCall, Asking, Client, Ask, Open, OwnerOrNone, ControlKind,
   ConnectionState

LEMMA MoveAsks ==
  ASSUME NEW c \in Client, NEW op \in OpIds, NEW kind \in TransitionKind, NEW o \in OwnerOrNone
  PROVE  /\ Asks(MoveCall(c, op, kind, o), c, op, kind)
         /\ MoveCall(c, op, kind, o).state = c.state
BY DEF Asks, MoveCall, Asking, Client, Ask, Open, OwnerOrNone, ControlKind, TransitionKind

\* The identifier of the next operation is a new one.
LEMMA NextOpIsFree ==
  ASSUME NEW c, FreeOp(c) # {}
  PROVE  NextOp(c) \in OpIds /\ c.asks[NextOp(c)].kind = "None"
BY DEF NextOp, FreeOp, Asked

\* An answer clears the operation it answers, and only that.
Clears(d, c, op) ==
  /\ d \in Client /\ Open(d) = Open(c) /\ d.state = c.state
  /\ d.overtaken => c.overtaken
  /\ d.asks = [c.asks EXCEPT ![op] = NoAsk] /\ op \in FreeOp(d)

LEMMA AnswerClears ==
  ASSUME NEW c \in Client, NEW op \in OpIds
  PROVE  Clears(Answered(c, op), c, op) /\ Answered(c, op).owner = c.owner
<1>1. Answered(c, op).asks = [c.asks EXCEPT ![op] = NoAsk]
      /\ Answered(c, op).asks \in [OpIds -> Ask]
  BY DEF Answered, Client, Ask, NoAsk, OwnerOrNone
<1>2. op \in FreeOp(Answered(c, op))
  BY <1>1 DEF FreeOp, Asked, NoAsk, Client
<1>3. Answered(c, op) \in Client
  BY <1>1 DEF Answered, Client
<1>4. QED
  BY <1>1, <1>2, <1>3 DEF Answered, Clears, Client, Open

LEMMA SameClears ==
  ASSUME NEW c \in Client, NEW op \in OpIds, NEW a, Clears(a, c, op), NEW d \in Client,
         d.queued = a.queued, d.sent = a.sent, d.state = a.state, d.overtaken = a.overtaken,
         d.asks = a.asks
  PROVE  Clears(d, c, op)
BY DEF Clears, Open, FreeOp, Asked

LEMMA ControlClears ==
  ASSUME NEW c \in Client, NEW op \in OpIds, NEW ok \in BOOLEAN
  PROVE  /\ Clears(ControlAnswered(c, op, ok), c, op)
         /\ c.asks[op].kind = "Open" => ControlAnswered(c, op, ok).owner = c.owner
<1> DEFINE a == Answered(c, op)
           d == ControlAnswered(c, op, ok)
<1>1. Clears(a, c, op) /\ a.owner = c.owner /\ a \in Client
  BY AnswerClears DEF Clears
<1>2. CASE ok /\ c.asks[op].kind = "Close"
  <2>1. d = [a EXCEPT !.accepting = FALSE, !.owner = NoOwner, !.inTransition = FALSE,
                      !.pendingKind = "None"]
    BY <1>1, <1>2 DEF ControlAnswered, Client
  <2> HIDE DEF a, d
  <2>2. QED
    <3>1. /\ d \in Client /\ d.queued = a.queued /\ d.sent = a.sent /\ d.state = a.state
          /\ d.overtaken = a.overtaken /\ d.asks = a.asks
      BY <1>1, <2>1 DEF Client, OwnerOrNone
    <3>2. QED
      BY <1>1, <1>2, <3>1, SameClears DEF d
<1>3. CASE ~(ok /\ c.asks[op].kind = "Close")
  <2> DEFINE b == a.accepting /\ ~ok
  <2>1. d = [a EXCEPT !.accepting = b]
    BY <1>1, <1>3 DEF ControlAnswered, Client
  <2>2. b \in BOOLEAN
    OBVIOUS
  <2> HIDE DEF a, b, d
  <2>3. /\ d \in Client /\ d.queued = a.queued /\ d.sent = a.sent /\ d.state = a.state
        /\ d.overtaken = a.overtaken /\ d.asks = a.asks /\ d.owner = a.owner
    BY <1>1, <2>1, <2>2 DEF Client
  <2>4. QED
    BY <1>1, <2>3, SameClears DEF d
<1>4. QED
  BY <1>2, <1>3

LEMMA TransitionClears ==
  ASSUME NEW c \in Client, NEW op \in OpIds, NEW ok \in BOOLEAN
  PROVE  /\ Clears(TransitionAnswered(c, op, ok), c, op)
         /\ TransitionAnswered(c, op, ok).owner = IF ok THEN c.asks[op].target ELSE c.owner
<1> DEFINE a == Answered(c, op)
           d == TransitionAnswered(c, op, ok)
           o == IF ok THEN c.asks[op].target ELSE c.owner
<1>1. Clears(a, c, op) /\ a.owner = c.owner /\ a \in Client
  BY AnswerClears DEF Clears
<1>2. o \in OwnerOrNone
  BY DEF Client, Ask
<1> DEFINE b == ok /\ c.asks[op].target # NoOwner /\ c.state = "Connected"
<1>3. d = [a EXCEPT !.accepting = b, !.owner = o, !.inTransition = FALSE, !.pendingKind = "None"]
  BY <1>1 DEF TransitionAnswered, Client
<1>4. b \in BOOLEAN
  OBVIOUS
<1> HIDE DEF a, b, d, o
<1>5. /\ d \in Client /\ d.queued = a.queued /\ d.sent = a.sent /\ d.state = a.state
      /\ d.overtaken = a.overtaken /\ d.asks = a.asks /\ d.owner = o
  BY <1>1, <1>2, <1>3, <1>4 DEF Client
<1>6. QED
  BY <1>1, <1>5, SameClears DEF d, o

\* A change of the connection leaves the operations and requests alone.
LEMMA TurnKeeps ==
  ASSUME NEW c \in Client, NEW s \in ConnectionState
  PROVE  /\ Turned(c, s) \in Client /\ Open(Turned(c, s)) = Open(c)
         /\ Turned(c, s).asks = c.asks /\ FreeOp(Turned(c, s)) = FreeOp(c)
         /\ Turned(c, s).state = s
         /\ s \notin {"Faulted", "Disconnected"} => Turned(c, s).owner = c.owner
         /\ Turned(c, s).overtaken <=>
              \/ c.overtaken
              \/ s = "Faulted" /\ \E op \in Asked(c) : c.asks[op].kind # "Open"
<1> DEFINE d == Turned(c, s)
           lost == s \in {"Faulted", "Disconnected"}
           a == IF s = "Connected" THEN c.owner # NoOwner ELSE c.accepting /\ ~lost
           o == IF lost THEN NoOwner ELSE c.owner
           t == c.inTransition /\ ~lost
           k == IF lost THEN "None" ELSE c.pendingKind
           b == c.overtaken \/ (s = "Faulted" /\ \E op \in Asked(c) : c.asks[op].kind # "Open")
<1>1. a \in BOOLEAN /\ t \in BOOLEAN /\ b \in BOOLEAN
  BY DEF Client
<1>2. o \in OwnerOrNone /\ k \in TransitionKind \cup {"None"}
  BY DEF Client, OwnerOrNone
<1>3. d = [c EXCEPT !.state = s, !.accepting = a, !.owner = o, !.inTransition = t,
                    !.pendingKind = k, !.overtaken = b]
  BY DEF Turned
<1> HIDE DEF a, t, k, b, d, o
<1>4. /\ d \in Client /\ d.asks = c.asks /\ d.queued = c.queued /\ d.sent = c.sent
      /\ d.state = s /\ d.owner = o /\ d.overtaken = b
  BY <1>1, <1>2, <1>3 DEF Client
<1>5. Open(d) = Open(c) /\ FreeOp(d) = FreeOp(c)
  BY <1>4 DEF Open, FreeOp, Asked
<1>6. QED
  BY <1>4, <1>5 DEF d, o, b

\* Requests come and go.
LEMMA RequestsKeep ==
  ASSUME NEW c \in Client, NEW id \in Ids
  PROVE  /\ SubmitCall(c, id) \in Client /\ Open(SubmitCall(c, id)) = Open(c) \cup {id}
         /\ CancelCall(c, id) \in Client /\ Open(CancelCall(c, id)) = Open(c)
         /\ Started(c, id) \in Client
         /\ id \in Open(c) => Open(Started(c, id)) = Open(c)
         /\ Completed(c, id) \in Client /\ Open(Completed(c, id)) = Open(c) \ {id}
BY DEF SubmitCall, CancelCall, Started, Completed, Client, Open, Ask, OwnerOrNone

-----------------------------------------------------------------------------
(***************************************************************************)
(* Commands: how they go on and how they end.                              *)
(***************************************************************************)
LEMMA StageKinds ==
  ASSUME NEW stage \in Stage
  PROVE  /\ StageKind(stage) \in ControlKind
         /\ stage \in Transitions => StageKind(stage) \in TransitionKind
BY DEF Stage, StageKind, ControlKind, TransitionKind, Transitions

LEMMA NotPending == NoPending \notin PendingCommand /\ 0 \notin OpIds /\ "None" \notin Stage
BY AppAssumption DEF NoPending, PendingCommand, AppCommand, Stage

\* completePendingSuccess, failPending and enterUnexpectedError.
LEMMA EndFine ==
  ASSUME NEW w \in Worlds, NEW final \in AppState,
         MonitorWorks(w.mon, w.client), ~w.mon.stopping,
         w.mon.running <=> final = "Monitoring"
  PROVE  /\ Fine(EndCommand(w, final))
         /\ Clear(w.client) /\ Agrees(final, w.client) => InStep(EndCommand(w, final))
<1> DEFINE v == EndCommand(w, final)
<1>1. /\ v.client = w.client /\ v.mon = w.mon /\ v \in Worlds
      /\ v.app.state = final /\ v.app.pending = NoPending
  BY DEF EndCommand, Worlds, App
<1> HIDE DEF v
<1>2. v.app.pending.stage = "None" /\ v.app.pending.op = 0
  BY <1>1 DEF NoPending
<1>3. Fine(v)
  BY <1>1, <1>2 DEF Fine, KeepStep, CommandWaits
<1>4. ASSUME Clear(w.client), Agrees(final, w.client) PROVE InStep(v)
  BY <1>1, <1>2, <1>4 DEF InStep, Clear, Transitions
<1>5. QED
  BY <1>3, <1>4 DEF v

\* A command in progress, between two operations of the client.
Ready(w) ==
  /\ w \in Worlds /\ MonitorWorks(w.mon, w.client)
  /\ ~w.mon.running /\ ~w.mon.stopping
  /\ w.app.pending \in PendingCommand /\ w.app.state # "Monitoring"
  /\ FreeOp(w.client) # {}

LEMMA ErrorFine ==
  ASSUME NEW w \in Worlds, MonitorWorks(w.mon, w.client), ~w.mon.stopping, ~w.mon.running
  PROVE  Fine(EnterError(w)) /\ (Clear(w.client) => InStep(EnterError(w)))
<1>1. "Error" \in AppState /\ Agrees("Error", w.client)
  BY DEF AppState, Agrees
<1>2. QED
  BY <1>1, EndFine DEF EnterError

LEMMA AwaitFine ==
  ASSUME NEW w, Ready(w), NEW stage \in Stage \ {"WaitingMonitorStop"}, NEW ask,
         Asks(ask, w.client, NextOp(w.client), StageKind(stage)),
         stage \in Transitions => ask.state = "Connected"
  PROVE  Fine(Await(w, stage, ask)) /\ (Clear(w.client) => InStep(Await(w, stage, ask)))
<1> DEFINE v == Await(w, stage, ask)
           op == NextOp(w.client)
<1>1. op \in OpIds /\ w \in Worlds
  BY NextOpIsFree DEF Ready
<1>2. v.client = ask /\ v.mon = w.mon /\ v.app.state = w.app.state
      /\ v.app.pending = [w.app.pending EXCEPT !.stage = stage, !.op = op]
  BY DEF Await, Ready, Worlds, App
<1>3. v = [w EXCEPT !.client = ask, !.app = v.app]
      /\ v.app = [w.app EXCEPT !.pending = v.app.pending]
  BY DEF Await, Ready, Worlds, App
<1> HIDE DEF v, op
<1>4. v.app.pending \in PendingCommand /\ v.app.pending.stage = stage /\ v.app.pending.op = op
  BY <1>1, <1>2 DEF Ready, PendingCommand
<1>5. v \in Worlds /\ Open(v.client) = Open(w.client)
  BY <1>1, <1>2, <1>3, <1>4 DEF Worlds, App, Asks, op
<1>6. v.client.asks[op].kind = StageKind(stage)
  BY <1>2 DEF Asks, op
<1>7. Fine(v)
  BY <1>1, <1>2, <1>4, <1>5, <1>6 DEF Fine, Ready, MonitorWorks, KeepStep, CommandWaits
<1>8. ASSUME Clear(w.client) PROVE InStep(v)
  <2>1. ~v.client.overtaken
    BY <1>2, <1>8 DEF Asks, Clear
  <2>2. \A other \in OpIds : other # op => v.client.asks[other].kind \in {"None", "Open"}
    BY <1>2, <1>8 DEF Asks, Clear, op
  <2>3. QED
    BY <1>2, <1>4, <2>1, <2>2, NotPending DEF InStep
<1>9. QED
  BY <1>7, <1>8 DEF v

\* closeBackend, or the end of the command.
LEMMA CloseFine ==
  ASSUME NEW w, Ready(w)
  PROVE  Fine(CloseBackend(w)) /\ (Clear(w.client) => InStep(CloseBackend(w)))
<1>1. CASE CanClose(w.client)
  <2> DEFINE ask == CloseCall(w.client, NextOp(w.client))
  <2>1. Asks(ask, w.client, NextOp(w.client), "Close")
    BY NextOpIsFree, CloseAsks DEF Ready, Worlds
  <2>2. /\ "WaitingClose" \in Stage \ {"WaitingMonitorStop"}
        /\ "WaitingClose" \notin Transitions /\ StageKind("WaitingClose") = "Close"
    BY DEF Stage, StageKind, Transitions
  <2>3. CloseBackend(w) = Await(w, "WaitingClose", ask)
    BY <1>1 DEF CloseBackend
  <2> HIDE DEF ask
  <2>4. QED
    BY <2>1, <2>2, <2>3, AwaitFine
<1>2. CASE ~CanClose(w.client)
  BY <1>2, ErrorFine DEF CloseBackend, Ready
<1>3. QED
  BY <1>1, <1>2

\* releaseMonitorOwner, or the end of the command.
LEMMA ReleaseFine ==
  ASSUME NEW w, Ready(w), NEW o,
         NEW stage \in {"WaitingReleaseMonitor", "WaitingRollbackMonitorRelease"}
  PROVE  /\ Fine(ReleaseOwner(w, stage, o))
         /\ Clear(w.client) => InStep(ReleaseOwner(w, stage, o))
<1>1. CASE CanRelease(w.client, o)
  <2> DEFINE ask == ReleaseCall(w.client, NextOp(w.client), o)
  <2>1. w.client \in Client /\ NextOp(w.client) \in OpIds /\ NoOwner \in OwnerOrNone
    BY NextOpIsFree DEF Ready, Worlds, OwnerOrNone
  <2>2. Asks(ask, w.client, NextOp(w.client), "ReleaseOwnership") /\ ask.state = w.client.state
    BY <2>1, MoveAsks DEF ReleaseCall, TransitionKind
  <2>3. stage \in Stage \ {"WaitingMonitorStop"} /\ StageKind(stage) = "ReleaseOwnership"
    BY DEF Stage, StageKind
  <2>4. ReleaseOwner(w, stage, o) = Await(w, stage, ask) /\ w.client.state = "Connected"
    BY <1>1 DEF ReleaseOwner, CanRelease, CanMove
  <2> HIDE DEF ask
  <2>5. QED
    BY <2>2, <2>3, <2>4, AwaitFine
<1>2. CASE ~CanRelease(w.client, o)
  BY <1>2, ErrorFine DEF ReleaseOwner, Ready
<1>3. QED
  BY <1>1, <1>2

-----------------------------------------------------------------------------
(***************************************************************************)
(* The monitor.                                                            *)
(***************************************************************************)
\* What the command and the client's operations are is not the monitor's business.
SameOperations(d, c) ==
  /\ d \in Client /\ d.asks = c.asks /\ d.state = c.state /\ d.owner = c.owner
  /\ d.overtaken => c.overtaken

LEMMA MonitorMoves ==
  ASSUME NEW w, Fine(w), NEW v \in Worlds, v.app = w.app, SameOperations(v.client, w.client),
         v.mon.running = w.mon.running, v.mon.stopping = w.mon.stopping,
         MonitorWorks(v.mon, v.client)
  PROVE  Fine(v) /\ (InStep(w) => InStep(v))
<1>1. FreeOp(v.client) = FreeOp(w.client)
  BY DEF FreeOp, Asked, SameOperations
<1>2. Fine(v)
  BY <1>1 DEF Fine, KeepStep, CommandWaits, SameOperations
<1>3. ASSUME InStep(w) PROVE InStep(v)
  BY <1>3 DEF InStep, Agrees, SameOperations
<1>4. QED
  BY <1>2, <1>3

\* Without a command the client has no operation under way but a forgotten open().
LEMMA IdleIsClear ==
  ASSUME NEW w, InStep(w), w.app.pending = NoPending \/ w.app.pending.op = 0
  PROVE  Clear(w.client)
BY NotPending DEF InStep, Clear, NoPending

\* The next block, or the end of the batch, leaves a monitor that goes on.
GoesOn(v, w) ==
  /\ v \in Worlds /\ v.app = w.app /\ SameOperations(v.client, w.client)
  /\ v.mon.running /\ ~v.mon.stopping /\ MonitorWorks(v.mon, v.client)

LEMMA BatchTypes == NoBatch \in Batch
BY AppAssumption DEF NoBatch, Batch

Failures(m) == IF m.failures < FailureLimit THEN m.failures + 1 ELSE m.failures
FailedBatch(m) ==
  [m EXCEPT !.batch = NoBatch, !.active = FALSE, !.failures = Failures(m),
            !.health = IF Failures(m) >= FailureLimit THEN "Offline" ELSE "Degraded"]

LEMMA FailedBatchIs ==
  ASSUME NEW u \in Worlds, NEW w, EndBatch(w) = EndBatch(u),
         NEW shown, shown = [u EXCEPT !.mon = FailedBatch(u.mon)]
  PROVE  /\ FinalizeFailedBatch(w, FALSE) = ScheduleAfterCompletedBatch(shown)
         /\ FinalizeFailedBatch(w, TRUE) = ScheduleAfterCompletedBatch(HandleMonitorError(shown))
         /\ shown \in Worlds /\ shown.mon = FailedBatch(u.mon)
         /\ shown.client = u.client /\ shown.app = u.app
<1> DEFINE m0 == [u.mon EXCEPT !.batch = NoBatch, !.active = FALSE]
           f == Failures(u.mon)
           h == IF f >= FailureLimit THEN "Offline" ELSE "Degraded"
           m1 == [m0 EXCEPT !.failures = f]
           m2 == [m1 EXCEPT !.health = h]
           counted == [EndBatch(w) EXCEPT
                         !.mon.failures = IF @ < FailureLimit THEN @ + 1 ELSE @]
           listed == [counted EXCEPT
                        !.mon.health = IF counted.mon.failures >= FailureLimit
                                         THEN "Offline" ELSE "Degraded"]
<1>1. EndBatch(u) = [u EXCEPT !.mon = m0] /\ m0 \in MonitorState
  BY BatchTypes DEF EndBatch, Worlds, MonitorState
<1>2. f \in 0..FailureLimit /\ h \in DeviceHealth
  BY DEF Worlds, MonitorState, FailureLimit, DeviceHealth, Failures
<1>3. m0.failures = u.mon.failures
  BY DEF Worlds, MonitorState
<1> HIDE DEF m0
<1>4. counted = [u EXCEPT !.mon = m1]
  BY <1>1, <1>3 DEF Worlds, MonitorState, Failures
<1>5. m1 \in MonitorState /\ m1.failures = f
  BY <1>1, <1>2 DEF MonitorState
<1> HIDE DEF m1, counted, f
<1>6. listed = [u EXCEPT !.mon = m2] /\ m2 \in MonitorState
  BY <1>2, <1>4, <1>5 DEF Worlds, MonitorState
<1>7. m2 = FailedBatch(u.mon)
  BY DEF m1, m0, f, FailedBatch
<1>8. shown \in Worlds /\ shown.mon = FailedBatch(u.mon) /\ listed = shown
  BY <1>6, <1>7 DEF Worlds
<1> HIDE DEF listed, m2
<1>9. /\ FinalizeFailedBatch(w, FALSE) = ScheduleAfterCompletedBatch(listed)
      /\ FinalizeFailedBatch(w, TRUE) = ScheduleAfterCompletedBatch(HandleMonitorError(listed))
  BY DEF FinalizeFailedBatch, listed, counted
<1>10. QED
  BY <1>8, <1>9 DEF Worlds

\* What is left after a batch, scheduled or not.
LEMMA FailedBatchEnds ==
  ASSUME NEW m \in MonitorState
  PROVE  LET r == FailedBatch(m)
         IN /\ r \in MonitorState /\ ~r.active /\ r.batch = NoBatch
            /\ r.running = m.running /\ r.stopping = m.stopping /\ r.task = m.task
<1>1. Failures(m) \in 0..FailureLimit
  BY DEF MonitorState, FailureLimit, Failures
<1>2. QED
  BY <1>1, BatchTypes DEF FailedBatch, MonitorState, DeviceHealth

LEMMA ScheduleGoesOn ==
  ASSUME NEW u \in Worlds, NEW shown \in Worlds, shown.client = u.client,
         shown.app = u.app, shown.mon.running, ~shown.mon.stopping,
         ~shown.mon.active, shown.mon.batch = NoBatch
  PROVE  GoesOn(ScheduleAfterCompletedBatch(shown), u)
<1> DEFINE v == ScheduleAfterCompletedBatch(shown)
<1>1. v = [shown EXCEPT !.mon = [shown.mon EXCEPT !.task = TRUE]]
  BY DEF ScheduleAfterCompletedBatch, Worlds, MonitorState
<1> HIDE DEF v
<1>2. /\ v \in Worlds /\ v.client = u.client /\ v.app = u.app
      /\ v.mon = [shown.mon EXCEPT !.task = TRUE]
  BY <1>1 DEF Worlds, MonitorState
<1>3. /\ v.mon.running /\ ~v.mon.stopping /\ v.mon.task
      /\ ~v.mon.active /\ v.mon.batch = NoBatch
  BY <1>2 DEF Worlds, MonitorState
<1>4. QED
  BY <1>2, <1>3 DEF GoesOn, MonitorWorks, SameOperations, Worlds, v

LEMMA FailedBatchGoesOn ==
  ASSUME NEW u \in Worlds, u.mon.running, ~u.mon.stopping,
         NEW w, EndBatch(w) = EndBatch(u)
  PROVE  GoesOn(FinalizeFailedBatch(w, FALSE), u)
<1> DEFINE shown == [u EXCEPT !.mon = FailedBatch(u.mon)]
<1>1. u.mon \in MonitorState
  BY DEF Worlds
<1> HIDE DEF shown
<1>2. shown = [u EXCEPT !.mon = FailedBatch(u.mon)]
  BY DEF shown
<1>3. /\ FinalizeFailedBatch(w, FALSE) = ScheduleAfterCompletedBatch(shown)
      /\ shown \in Worlds /\ shown.mon = FailedBatch(u.mon)
      /\ shown.client = u.client /\ shown.app = u.app
  BY <1>2, FailedBatchIs
<1>4. shown.mon.running /\ ~shown.mon.stopping /\ ~shown.mon.active
      /\ shown.mon.batch = NoBatch
  BY <1>1, <1>3, FailedBatchEnds
<1>5. QED
  BY <1>3, <1>4, ScheduleGoesOn

LEMMA SuccessfulBatchGoesOn ==
  ASSUME NEW u \in Worlds, u.mon.running, ~u.mon.stopping,
         NEW w, EndBatch(w) = EndBatch(u)
  PROVE  GoesOn(FinalizeSuccessfulBatch(w), u)
<1> DEFINE m == [u.mon EXCEPT !.batch = NoBatch, !.active = FALSE, !.failures = 0,
                              !.health = "Online"]
           shown == [u EXCEPT !.mon = m]
<1>1. FinalizeSuccessfulBatch(w) = ScheduleAfterCompletedBatch(shown)
  BY DEF FinalizeSuccessfulBatch, EndBatch, Worlds, MonitorState
<1>2. 0 \in 0..FailureLimit /\ "Online" \in DeviceHealth
  BY DEF FailureLimit, DeviceHealth
<1>3. m \in MonitorState /\ m.running /\ ~m.stopping /\ ~m.active /\ m.batch = NoBatch
  BY <1>2, BatchTypes DEF Worlds, MonitorState
<1> HIDE DEF m
<1>4. shown \in Worlds /\ shown.client = u.client /\ shown.app = u.app /\ shown.mon = m
  BY <1>3 DEF Worlds
<1> HIDE DEF shown
<1>5. QED
  BY <1>1, <1>3, <1>4, ScheduleGoesOn

LEMMA NextBlockGoesOn ==
  ASSUME NEW w \in Worlds, w.mon.running, ~w.mon.stopping, w.mon.active,
         FreeId(w.client) # {}
  PROVE  GoesOn(SubmitNextBlock(w), w)
<1>1. CASE CanSubmit(w.client) /\ w.client.owner = Monitor
  <2> DEFINE v == SubmitNextBlock(w)
             id == NextId(w.client)
             c == w.client
             d == SubmitCall(c, id)
  <2>1. id \in Ids /\ c \in Client
    BY DEF NextId, FreeId, Worlds
  <2>2. d \in Client /\ id \in Open(d)
    BY <2>1, RequestsKeep
  <2>3. SameOperations(d, c)
    BY <2>1, <2>2 DEF SameOperations, SubmitCall, Client
  <2>4. /\ v.client = d /\ v.app = w.app
        /\ v.mon = [w.mon EXCEPT !.batch = [w.mon.batch EXCEPT !.request = id]]
        /\ v = [w EXCEPT !.client = d, !.mon = v.mon]
    BY <1>1 DEF SubmitNextBlock, Worlds, MonitorState
  <2> HIDE DEF v, id, c, d
  <2>5. [w.mon.batch EXCEPT !.request = id] \in Batch
    BY <2>1 DEF Worlds, MonitorState, Batch
  <2>6. v.mon \in MonitorState /\ v.mon.running /\ ~v.mon.stopping /\ v.mon.active
    BY <2>4, <2>5 DEF Worlds, MonitorState
  <2>7. v.mon.batch.request = id
    BY <2>4, <2>5 DEF Worlds, MonitorState, Batch
  <2>8. v \in Worlds
    BY <2>2, <2>4, <2>6 DEF Worlds
  <2>9. QED
    BY <2>2, <2>3, <2>4, <2>6, <2>7, <2>8 DEF GoesOn, MonitorWorks, v, c
<1>2. CASE ~(CanSubmit(w.client) /\ w.client.owner = Monitor)
  BY <1>2, FailedBatchGoesOn DEF SubmitNextBlock
<1>3. QED
  BY <1>1, <1>2

\* A fault takes the batch with it and ends what the application was doing.
LEMMA QuietErrorFine ==
  ASSUME NEW v \in Worlds, v.app.state = "Error", v.app.pending = NoPending, Quiet(v.mon)
  PROVE  Fine(v) /\ (Clear(v.client) => InStep(v))
<1>1. v.app.pending.stage = "None"
  BY DEF NoPending
<1>2. Fine(v)
  BY <1>1 DEF Fine, Quiet, MonitorWorks, KeepStep, CommandWaits
<1>3. ASSUME Clear(v.client) PROVE InStep(v)
  BY <1>1, <1>3 DEF InStep, Clear, Transitions, Agrees
<1>4. QED
  BY <1>2, <1>3

LEMMA IdleAborts ==
  ASSUME NEW w \in Worlds, w.mon.batch = NoBatch, ~w.mon.active
  PROVE  /\ AbortIdle(w) \in Worlds /\ AbortIdle(w).client = w.client
         /\ AbortIdle(w).app = w.app /\ Quiet(AbortIdle(w).mon)
<1> DEFINE m == [w.mon EXCEPT !.running = FALSE, !.stopping = FALSE, !.task = FALSE,
                              !.health = "Offline"]
<1>1. AbortIdle(w) = [w EXCEPT !.mon = m]
  BY DEF AbortIdle, Halted, Worlds, MonitorState
<1>2. m \in MonitorState /\ Quiet(m)
  BY DEF Worlds, MonitorState, DeviceHealth, Quiet
<1> HIDE DEF m
<1>3. QED
  BY <1>1, <1>2 DEF Worlds

LEMMA ErrorIs ==
  ASSUME NEW w \in Worlds
  PROVE  /\ EnterError(w) \in Worlds /\ EnterError(w).client = w.client
         /\ EnterError(w).mon = w.mon
         /\ EnterError(w).app.state = "Error" /\ EnterError(w).app.pending = NoPending
BY DEF EnterError, EndCommand, Worlds, App, AppState

LEMMA FaultEnds ==
  ASSUME NEW w \in Worlds, ~w.mon.active => w.mon.batch = NoBatch
  PROVE  LET v == EnterError(AbortBackend(w))
         IN Fine(v) /\ (Clear(w.client) => InStep(v))
<1> DEFINE a == AbortBackend(w)
<1>1. a \in Worlds /\ a.client = w.client /\ Quiet(a.mon)
  <2>1. CASE ~w.mon.active
    BY <2>1, IdleAborts DEF AbortBackend
  <2>2. CASE w.mon.active
    <3> DEFINE u == [w EXCEPT !.mon = [w.mon EXCEPT !.running = FALSE, !.stopping = FALSE,
                                                     !.task = FALSE]]
               shown == [u EXCEPT !.mon = FailedBatch(u.mon)]
               r == HandleMonitorError(shown)
    <3>1. /\ Halted(w) = u /\ u \in Worlds /\ u.client = w.client
          /\ ~u.mon.running /\ ~u.mon.stopping /\ ~u.mon.task
      BY DEF Halted, Worlds, MonitorState
    <3> HIDE DEF a, u
    <3>a. a = [FinalizeFailedBatch(u, TRUE) EXCEPT !.mon.health = "Offline"]
      BY <2>2, <3>1 DEF AbortBackend, a
    <3>b. shown = [u EXCEPT !.mon = FailedBatch(u.mon)]
      OBVIOUS
    <3> HIDE DEF shown
    <3>e. /\ FinalizeFailedBatch(u, TRUE) = ScheduleAfterCompletedBatch(HandleMonitorError(shown))
          /\ shown \in Worlds /\ shown.mon = FailedBatch(u.mon) /\ shown.client = u.client
      BY <3>1, <3>b, FailedBatchIs
    <3>c. /\ FinalizeFailedBatch(u, TRUE) = ScheduleAfterCompletedBatch(r)
          /\ shown \in Worlds /\ shown.mon = FailedBatch(u.mon) /\ shown.client = u.client
      BY <3>e
    <3>2. a = [ScheduleAfterCompletedBatch(r) EXCEPT !.mon.health = "Offline"]
      BY <3>a, <3>c
    <3>3. u.mon \in MonitorState
      BY <3>1 DEF Worlds
    <3>4. Quiet(shown.mon)
      BY <3>1, <3>c, <3>3, FailedBatchEnds DEF Quiet
    <3> HIDE DEF r
    <3>5. r \in Worlds /\ r.client = w.client /\ Quiet(r.mon)
      BY <3>1, <3>c, <3>4, IdleAborts, ErrorIs DEF HandleMonitorError, r, Quiet
    <3>6. ScheduleAfterCompletedBatch(r) = r
      BY <3>5 DEF ScheduleAfterCompletedBatch, Quiet
    <3>7. a = [r EXCEPT !.mon = [r.mon EXCEPT !.health = "Offline"]]
      BY <3>2, <3>5, <3>6 DEF Worlds
    <3>8. QED
      BY <3>5, <3>7 DEF Worlds, MonitorState, DeviceHealth, Quiet
  <2>3. QED
    BY <2>1, <2>2
<1> HIDE DEF a
<1>2. QED
  BY <1>1, ErrorIs, QuietErrorFine DEF a

\* While the monitor runs no command is in progress.
LEMMA RunningIsIdle ==
  ASSUME NEW w, Fine(w), w.mon.running
  PROVE  /\ w.app.state = "Monitoring" /\ w.app.pending = NoPending /\ ~w.mon.stopping
         /\ w \in Worlds
<1>1. w.app.state = "Monitoring" /\ w.app.pending = NoPending /\ w \in Worlds
  BY DEF Fine, KeepStep, CommandWaits
<1>2. QED
  BY <1>1 DEF Fine, KeepStep, NoPending

LEMMA GoesOnFine ==
  ASSUME NEW w, Fine(w), w.mon.running, NEW u, u.app = w.app,
         SameOperations(u.client, w.client), NEW v, GoesOn(v, u)
  PROVE  Fine(v) /\ (InStep(w) => InStep(v))
<1>1. v.mon.running = w.mon.running /\ v.mon.stopping = w.mon.stopping
  BY RunningIsIdle DEF GoesOn, Fine, Worlds, MonitorState
<1>2. /\ v \in Worlds /\ v.app = w.app /\ MonitorWorks(v.mon, v.client)
      /\ SameOperations(v.client, w.client)
  BY DEF GoesOn, SameOperations
<1>3. QED
  BY <1>1, <1>2, MonitorMoves

\* beginBatch.
LEMMA BeginBatchFine ==
  ASSUME NEW w, Fine(w), w.mon.task, FreeId(w.client) # {}
  PROVE  Fine(BeginBatch(w)) /\ (InStep(w) => InStep(BeginBatch(w)))
<1>1. w.mon.running /\ w \in Worlds /\ MonitorWorks(w.mon, w.client)
  BY DEF Fine, MonitorWorks
<1>2. w.app.state = "Monitoring" /\ w.app.pending = NoPending /\ ~w.mon.stopping
  BY <1>1, RunningIsIdle
<1> DEFINE due == [w EXCEPT !.mon = [w.mon EXCEPT !.task = FALSE]]
           begun == [w EXCEPT !.mon = [w.mon EXCEPT !.task = FALSE, !.active = TRUE]]
<1>3. /\ BeginBatch(w) =
           IF w.mon.active THEN due
           ELSE IF w.client.state = "Connected" /\ w.client.owner = Monitor
                  THEN SubmitNextBlock(begun)
                  ELSE AbortBackend(HandleMonitorError(due))
  BY <1>1 DEF BeginBatch, Worlds, MonitorState
<1>4. /\ due \in Worlds /\ due.client = w.client /\ due.app = w.app
      /\ due.mon = [w.mon EXCEPT !.task = FALSE]
  BY <1>1 DEF Worlds, MonitorState
<1>5. /\ begun \in Worlds /\ begun.client = w.client /\ begun.app = w.app
      /\ begun.mon.running /\ ~begun.mon.stopping /\ begun.mon.active
  BY <1>1, <1>2 DEF Worlds, MonitorState
<1>6. SameOperations(w.client, w.client)
  BY <1>1 DEF SameOperations, Worlds
<1>7. /\ due.mon.running = w.mon.running /\ due.mon.stopping = w.mon.stopping
      /\ due.mon.active = w.mon.active /\ due.mon.batch = w.mon.batch /\ ~due.mon.task
  BY <1>1, <1>4 DEF Worlds, MonitorState
<1> HIDE DEF due, begun
<1>8. CASE w.mon.active
  <2>1. MonitorWorks(due.mon, due.client)
    BY <1>1, <1>4, <1>7, <1>8 DEF MonitorWorks
  <2>2. QED
    BY <1>3, <1>4, <1>6, <1>7, <1>8, <2>1, MonitorMoves
<1>9. CASE ~w.mon.active /\ w.client.state = "Connected" /\ w.client.owner = Monitor
  <2>1. GoesOn(SubmitNextBlock(begun), begun)
    BY <1>5, NextBlockGoesOn
  <2>2. QED
    BY <1>1, <1>3, <1>5, <1>6, <1>9, <2>1, GoesOnFine
<1>10. CASE ~w.mon.active /\ ~(w.client.state = "Connected" /\ w.client.owner = Monitor)
  <2> DEFINE a == AbortIdle(due)
             e == EnterError(a)
             v == AbortBackend(e)
  <2>1. due.mon.batch = NoBatch /\ ~due.mon.active
    BY <1>1, <1>7, <1>10 DEF MonitorWorks
  <2>2. a \in Worlds /\ a.client = w.client /\ Quiet(a.mon)
    BY <1>4, <2>1, IdleAborts
  <2>3. BeginBatch(w) = v
    BY <1>2, <1>3, <1>4, <1>10 DEF HandleMonitorError
  <2> HIDE DEF a
  <2>4. /\ e \in Worlds /\ e.client = w.client /\ Quiet(e.mon)
        /\ e.app.state = "Error" /\ e.app.pending = NoPending
    BY <2>2, ErrorIs
  <2> HIDE DEF e
  <2>5. v = AbortIdle(e)
    BY <2>4 DEF AbortBackend, Quiet
  <2>6. /\ v \in Worlds /\ v.client = w.client /\ Quiet(v.mon)
        /\ v.app.state = "Error" /\ v.app.pending = NoPending
    BY <2>4, <2>5, IdleAborts DEF Quiet
  <2> HIDE DEF v
  <2>7. InStep(w) => Clear(w.client)
    BY <1>2, IdleIsClear
  <2>8. QED
    BY <2>3, <2>6, <2>7, QuietErrorFine
<1>11. QED
  BY <1>8, <1>9, <1>10

\* The stop a command waits for is over, and the owner is given back.
LEMMA StopEndsFine ==
  ASSUME NEW u \in Worlds, u.app.pending \in PendingCommand,
         u.app.pending.stage = "WaitingMonitorStop", u.app.state # "Monitoring",
         ~u.mon.running, ~u.mon.task, FreeOp(u.client) # {},
         NEW w, EndBatch(w) = EndBatch(u)
  PROVE  /\ Fine(FinishStop(EndBatch(w)))
         /\ Clear(u.client) => InStep(FinishStop(EndBatch(w)))
<1> DEFINE m == [u.mon EXCEPT !.batch = NoBatch, !.active = FALSE, !.stopping = FALSE,
                              !.health = "Unknown"]
           k == [u EXCEPT !.mon = m]
<1>1. FinishStop(EndBatch(w)) = HandleMonitorStopped(k)
  BY DEF FinishStop, EndBatch, Worlds, MonitorState
<1>2. m \in MonitorState /\ ~m.running /\ ~m.stopping /\ ~m.task /\ ~m.active /\ m.batch = NoBatch
  BY BatchTypes DEF Worlds, MonitorState, DeviceHealth
<1> HIDE DEF m
<1>3. k \in Worlds /\ k.client = u.client /\ k.app = u.app /\ k.mon = m
  BY <1>2 DEF Worlds
<1> HIDE DEF k
<1>4. Ready(k)
  BY <1>2, <1>3 DEF Ready, MonitorWorks
<1>5. HandleMonitorStopped(k) = ReleaseOwner(k, "WaitingReleaseMonitor", Monitor)
  BY SMTT(30), <1>3 DEF HandleMonitorStopped
<1>6. QED
  BY <1>1, <1>3, <1>4, <1>5, ReleaseFine

LEMMA RequestsSameOperations ==
  ASSUME NEW c \in Client, NEW id \in Ids
  PROVE  /\ SameOperations(CancelCall(c, id), c) /\ SameOperations(Started(c, id), c)
         /\ SameOperations(Completed(c, id), c)
<1>1. CancelCall(c, id) \in Client /\ Started(c, id) \in Client /\ Completed(c, id) \in Client
  BY RequestsKeep
<1>2. QED
  BY <1>1 DEF SameOperations, CancelCall, Started, Completed, Client

\* handleRequestCompleted.
LEMMA RequestCompletedFine ==
  ASSUME NEW w0, Fine(w0), NEW id \in Ids,
         NEW reading \in BOOLEAN, NEW decodes \in BOOLEAN,
         NEW w \in Worlds, w.app = w0.app, w.mon = w0.mon,
         w.client = Completed(w0.client, id),
         NEW v, v = HandleRequestCompleted(w, id, reading, decodes)
  PROVE  Fine(v) /\ (InStep(w0) => InStep(v))
<1>1. w0 \in Worlds /\ MonitorWorks(w0.mon, w0.client) /\ w0.client \in Client
  BY DEF Fine, Worlds
<1>2. /\ w.client \in Client /\ Open(w.client) = Open(w0.client) \ {id}
      /\ SameOperations(w.client, w0.client)
  BY <1>1, RequestsKeep, RequestsSameOperations
<1>3. FreeId(w.client) # {}
  BY <1>2 DEF FreeId
<1>4. CASE ~(w.mon.active /\ w.mon.batch.request = id)
  <2>1. v = w
    BY <1>4 DEF HandleRequestCompleted
  <2>2. MonitorWorks(w.mon, w.client)
    BY <1>1, <1>2, <1>4 DEF MonitorWorks
  <2>3. QED
    BY <1>2, <2>1, <2>2, MonitorMoves
<1>5. CASE w.mon.active /\ w.mon.batch.request = id
  <2> DEFINE b1 == [w.mon.batch EXCEPT !.request = 0]
             next == w.mon.batch.index + 1
             b2 == [b1 EXCEPT !.index = next]
             m1 == [w.mon EXCEPT !.batch = b1]
             m2 == [w.mon EXCEPT !.batch = b2]
             got == [w EXCEPT !.mon.batch.request = 0]
             read == [got EXCEPT !.mon.batch.index = @ + 1]
  <2>1. w.mon.running \/ w.mon.stopping
    BY <1>1, <1>5 DEF MonitorWorks
  <2>2. b1 \in Batch /\ b1.index = w.mon.batch.index /\ next \in Nat
    BY DEF Worlds, MonitorState, Batch
  <2>3. got = [w EXCEPT !.mon = m1] /\ m1.batch = b1
    BY DEF Worlds, MonitorState
  <2>4. v = CASE w.mon.stopping -> FinishStop(EndBatch(got))
              [] ~w.mon.stopping /\ ~w.mon.running -> got
              [] OTHER ->
                   CASE ~reading                 -> FinalizeFailedBatch(got, FALSE)
                     [] reading /\ read.mon.batch.index < Blocks -> SubmitNextBlock(read)
                     [] OTHER -> IF decodes THEN FinalizeSuccessfulBatch(read)
                                            ELSE FinalizeFailedBatch(read, FALSE)
    BY <1>5 DEF HandleRequestCompleted, HandleBlock
  <2>5. read = [got EXCEPT !.mon = [got.mon EXCEPT !.batch =
                  [got.mon.batch EXCEPT !.index = got.mon.batch.index + 1]]]
    OBVIOUS
  <2> HIDE DEF read, got, b1
  <2>6. got.mon = m1 /\ got.mon.batch = b1 /\ got.mon.batch.index + 1 = next
    BY <2>2, <2>3 DEF Worlds
  <2>7. read = [got EXCEPT !.mon = [m1 EXCEPT !.batch = b2]]
    BY <2>5, <2>6
  <2>8. next < Blocks => b2 \in Batch
    BY <2>2, AppAssumption DEF Batch
  <2>9. b2.index = next
    BY <2>2 DEF Batch
  <2> HIDE DEF next, b2
  <2>10. [m1 EXCEPT !.batch = b2] = m2 /\ m2.batch = b2
    BY DEF Worlds, MonitorState
  <2> HIDE DEF m1, m2
  <2>11. read = [w EXCEPT !.mon = m2]
    BY <2>3, <2>7, <2>10 DEF Worlds
  <2>12. read.client = w.client /\ read.app = w.app /\ read.mon = m2
    BY <2>11 DEF Worlds
  <2>13. EndBatch(got) = EndBatch(w) /\ EndBatch(read) = EndBatch(w)
    BY <2>3, <2>11 DEF EndBatch, Worlds, MonitorState, m1, m2
  <2>14. read.mon.batch.index = next
    BY <2>9, <2>10, <2>12
  <2>15. CASE w.mon.stopping
    <3>1. /\ w.app.pending.stage = "WaitingMonitorStop" /\ w.app.pending # NoPending
          /\ w.app.pending.op = 0 /\ w.app.state # "Monitoring"
      BY <2>15 DEF Fine, KeepStep, CommandWaits, NoPending
    <3>2. w.app.pending \in PendingCommand /\ ~w.mon.running /\ ~w.mon.task
      BY <1>1, <3>1 DEF Fine, KeepStep, MonitorWorks, Worlds, App
    <3>3. FreeOp(w.client) = FreeOp(w0.client) /\ FreeOp(w0.client) # {}
      BY <1>2, <3>1 DEF Fine, CommandWaits, FreeOp, Asked, SameOperations
    <3>4. InStep(w0) => Clear(w.client)
      BY <1>2, <3>1, IdleIsClear DEF Clear, SameOperations
    <3>5. v = FinishStop(EndBatch(got))
      BY <2>4, <2>15
    <3>6. QED
      BY <2>13, <3>1, <3>2, <3>3, <3>4, <3>5, StopEndsFine
  <2>16. CASE ~w.mon.stopping
    <3>1. w.mon.running /\ w0.mon.running
      BY <2>1, <2>16
    <3>2. \E u \in Worlds : u.app = w.app /\ u.client = w.client /\ GoesOn(v, u)
      <4>1. CASE reading /\ next < Blocks
        <5>1. v = SubmitNextBlock(read)
          BY <2>4, <2>14, <2>16, <3>1, <4>1
        <5>2. m2 \in MonitorState /\ m2.running /\ ~m2.stopping /\ m2.active
          BY <1>5, <2>8, <2>16, <3>1, <4>1 DEF m2, Worlds, MonitorState
        <5>3. read \in Worlds
          BY <2>11, <5>2 DEF Worlds
        <5>4. GoesOn(SubmitNextBlock(read), read)
          BY <1>3, <2>12, <5>2, <5>3, NextBlockGoesOn
        <5>5. QED
          BY <2>12, <5>1, <5>3, <5>4
      <4>2. CASE ~(reading /\ next < Blocks)
        <5>1. /\ GoesOn(FinalizeFailedBatch(got, FALSE), w)
              /\ GoesOn(FinalizeFailedBatch(read, FALSE), w)
              /\ GoesOn(FinalizeSuccessfulBatch(read), w)
          BY <2>13, <2>16, <3>1, FailedBatchGoesOn, SuccessfulBatchGoesOn
        <5>2. GoesOn(v, w)
          BY <2>4, <2>14, <2>16, <3>1, <4>2, <5>1
        <5>3. QED
          BY <5>2
      <4>3. QED
        BY <4>1, <4>2
    <3>3. QED
      BY <1>2, <3>1, <3>2, GoesOnFine
  <2>17. QED
    BY <2>15, <2>16
<1>6. QED
  BY <1>4, <1>5

-----------------------------------------------------------------------------
(***************************************************************************)
(* The user's commands.                                                    *)
(***************************************************************************)
\* A command that begins with an operation of the client.
LEMMA CommandFine ==
  ASSUME NEW w, Fine(w), w.app.pending = NoPending, w.app.state # "Monitoring",
         FreeOp(w.client) # {},
         NEW command \in AppCommand, NEW stage \in Stage \ {"WaitingMonitorStop"},
         NEW state \in AppState \ {"Monitoring"}, NEW ask,
         Asks(ask, w.client, NextOp(w.client), StageKind(stage)),
         stage \in Transitions => ask.state = "Connected"
  PROVE  /\ Fine(Asked1(w, command, stage, state, ask))
         /\ InStep(w) => InStep(Asked1(w, command, stage, state, ask))
<1> DEFINE op == NextOp(w.client)
           p == [command |-> command, stage |-> stage, op |-> op]
           v == Asked1(w, command, stage, state, ask)
<1>1. w \in Worlds /\ op \in OpIds
  BY NextOpIsFree DEF Fine
<1>2. p \in PendingCommand /\ p.stage = stage /\ p.op = op
  BY <1>1 DEF PendingCommand
<1>3. v.client = ask /\ v.mon = w.mon /\ v.app = [state |-> state, pending |-> p]
      /\ v = [w EXCEPT !.client = ask, !.app = v.app]
  BY <1>1 DEF Asked1, Begun, Worlds, App
<1> HIDE DEF v, p, op
<1>4. v.app.pending = p /\ v.app.state = state
  BY <1>3
<1>5. v.app \in App
  BY <1>2, <1>3 DEF App
<1>6. v \in Worlds
  BY <1>1, <1>3, <1>5 DEF Worlds, Asks
<1>7. MonitorWorks(v.mon, v.client)
  BY <1>3 DEF Fine, MonitorWorks, Asks
<1>8. KeepStep(v.app, v.mon)
  BY <1>2, <1>3, <1>4 DEF Fine, KeepStep, NoPending
<1>9. CommandWaits(v.app, v.client)
  BY <1>1, <1>2, <1>3, <1>4 DEF CommandWaits, Asks, op
<1>10. ASSUME InStep(w) PROVE InStep(v)
  <2>1. Clear(w.client)
    BY <1>10, IdleIsClear
  <2>2. ~v.client.overtaken
    BY <1>3, <2>1 DEF Asks, Clear
  <2>3. \A other \in OpIds : other # op => v.client.asks[other].kind \in {"None", "Open"}
    BY <1>3, <2>1 DEF Asks, Clear, op
  <2>4. v.app.pending # NoPending
    BY <1>2, <1>4, NotPending
  <2>5. QED
    BY <1>2, <1>3, <1>4, <2>2, <2>3, <2>4 DEF InStep
<1>11. QED
  BY <1>6, <1>7, <1>8, <1>9, <1>10 DEF Fine, v

\* stop(), for a command.
LEMMA StopFine ==
  ASSUME NEW w, Fine(w), w.app.pending = NoPending, w.app.state = "Monitoring",
         FreeOp(w.client) # {}, NEW command \in AppCommand
  PROVE  /\ Fine(StopMonitorFor(w, command))
         /\ InStep(w) => InStep(StopMonitorFor(w, command))
<1> DEFINE p == [command |-> command, stage |-> "WaitingMonitorStop", op |-> 0]
           a == [state |-> "Stopping", pending |-> p]
           m == [w.mon EXCEPT !.running = FALSE, !.stopping = TRUE, !.task = FALSE]
           begun == [w EXCEPT !.app = a]
           u == [w EXCEPT !.app = a, !.mon = m]
           id == w.mon.batch.request
           v == StopMonitorFor(w, command)
           cancelled == [w EXCEPT !.app = a, !.mon = m, !.client = CancelCall(w.client, id)]
<1>1. /\ w \in Worlds /\ w.mon.running /\ ~w.mon.stopping
      /\ MonitorWorks(w.mon, w.client) /\ w.client \in Client
  BY RunningIsIdle DEF Fine, KeepStep, Worlds
<1>2. p \in PendingCommand /\ a \in App
  BY DEF PendingCommand, Stage, App, AppState
<1>3. m \in MonitorState /\ ~m.running /\ m.stopping /\ ~m.task
      /\ m.batch = w.mon.batch /\ m.active = w.mon.active
  BY <1>1 DEF Worlds, MonitorState
<1>4. v = StopMonitor(begun)
  <2> DEFINE b == Begun(w, command, "WaitingMonitorStop", 0)
  <2>1. b = [w EXCEPT !.app = b.app] /\ b.app = [w.app EXCEPT !.pending = p]
    BY <1>1 DEF Begun, Worlds, App
  <2>2. v = StopMonitor([b EXCEPT !.app.state = "Stopping"])
    BY DEF StopMonitorFor
  <2>3. [b EXCEPT !.app.state = "Stopping"]
          = [b EXCEPT !.app = [b.app EXCEPT !.state = "Stopping"]]
    BY <1>1, <2>1
  <2>4. [b.app EXCEPT !.state = "Stopping"] = a
    BY <1>1, <2>1 DEF Worlds, App
  <2> HIDE DEF b, a, p, v
  <2>5. [b EXCEPT !.app = a] = begun
    BY <1>1, <2>1 DEF Worlds
  <2>6. QED
    BY <2>2, <2>3, <2>4, <2>5
<1>5. begun.mon = w.mon /\ begun.client = w.client
  BY <1>1 DEF Worlds
<1>6. [Halted(begun) EXCEPT !.mon.stopping = TRUE] = u
  <2> DEFINE h == [w.mon EXCEPT !.running = FALSE, !.stopping = FALSE, !.task = FALSE]
             halted == Halted(begun)
  <2> HIDE DEF a, p, v
  <2>1. halted = [begun EXCEPT !.mon = h]
    BY <1>1, <1>5 DEF Halted, Worlds, MonitorState
  <2>2. [h EXCEPT !.stopping = TRUE] = m
    BY <1>1 DEF Worlds, MonitorState
  <2> HIDE DEF h, m, halted
  <2>3. [halted EXCEPT !.mon.stopping = TRUE]
          = [halted EXCEPT !.mon = [halted.mon EXCEPT !.stopping = TRUE]]
    OBVIOUS
  <2>4. halted.mon = h
    BY <1>1, <2>1 DEF Worlds
  <2>5. [halted EXCEPT !.mon = m] = u
    BY <1>1, <2>1 DEF Worlds
  <2>6. QED
    BY <2>2, <2>3, <2>4, <2>5 DEF halted
<1>7. v = IF id # 0 /\ CanCancel(w.client, id)
            THEN [u EXCEPT !.client = CancelCall(w.client, id)]
            ELSE FinishStop(EndBatch(u))
  BY <1>1, <1>4, <1>5, <1>6 DEF StopMonitor
<1>8. [u EXCEPT !.client = CancelCall(w.client, id)] = cancelled
  BY <1>1 DEF Worlds
<1>9. a.state = "Stopping" /\ a.pending = p /\ p.stage = "WaitingMonitorStop" /\ p.op = 0
  OBVIOUS
<1>10. InStep(w) => Clear(w.client)
  BY IdleIsClear
<1> HIDE DEF v, p, a, m, begun, id
<1>11. CASE id # 0 /\ CanCancel(w.client, id)
  <2> DEFINE d == CancelCall(w.client, id)
  <2>1. id \in Ids
    BY <1>1, <1>11 DEF id, Worlds, MonitorState, Batch
  <2>2. d \in Client /\ Open(d) = Open(w.client) /\ SameOperations(d, w.client)
    BY <1>1, <2>1, RequestsKeep, RequestsSameOperations
  <2> HIDE DEF d
  <2>3. cancelled \in Worlds /\ cancelled.client = d /\ cancelled.app = a /\ cancelled.mon = m
    BY <1>1, <1>2, <1>3, <2>2 DEF Worlds, d
  <2> HIDE DEF cancelled
  <2>4. w.mon.active
    BY <1>1, <1>11 DEF MonitorWorks, NoBatch, id
  <2>5. MonitorWorks(m, d)
    BY <1>1, <1>3, <2>2, <2>4 DEF MonitorWorks
  <2>6. FreeOp(d) # {}
    BY <2>2 DEF FreeOp, Asked, SameOperations
  <2>7. Fine(cancelled)
    BY <1>3, <1>9, <2>3, <2>5, <2>6 DEF Fine, KeepStep, CommandWaits
  <2>8. ASSUME InStep(w) PROVE InStep(cancelled)
    BY <1>2, <1>9, <1>10, <2>2, <2>3, <2>8, NotPending
       DEF InStep, Clear, SameOperations, Transitions
  <2>9. QED
    BY <1>7, <1>8, <1>11, <2>7, <2>8 DEF v
<1>12. CASE ~(id # 0 /\ CanCancel(w.client, id))
  <2>1. u \in Worlds /\ u.app = a /\ u.mon = m /\ u.client = w.client
    BY <1>1, <1>2, <1>3 DEF Worlds
  <2> HIDE DEF u
  <2>2. v = FinishStop(EndBatch(u))
    BY <1>7, <1>12
  <2>3. Fine(FinishStop(EndBatch(u))) /\ (Clear(u.client) => InStep(FinishStop(EndBatch(u))))
    BY <1>2, <1>3, <1>9, <2>1, StopEndsFine
  <2>4. QED
    BY <1>10, <2>1, <2>2, <2>3 DEF v
<1>13. QED
  BY <1>11, <1>12

LEMMA StepIs ==
  ASSUME NEW v \in Worlds, Become(v)
  PROVE  World' = v
BY DEF Become, World, Worlds

\* Each command, as a step.
LEMMA ConnectSteps ==
  ASSUME IInv, ConnectDevice
  PROVE  Fine(World)' /\ (InStep(World) => InStep(World)')
<1>1. FreeOp(client) # {} /\ Fine(World) /\ app.state = "Disconnected"
      /\ app.pending = NoPending
  BY DEF ConnectDevice, CanCommand, Idle, IInv
<1>2. World.client = client /\ World.app = app /\ client \in Client
  BY <1>1 DEF World, Fine, Worlds
<1>3. Asks(OpenCall(client, NextOp(client)), client, NextOp(client), "Open")
  BY <1>1, <1>2, NextOpIsFree, OpenAsks
<1>4. /\ "WaitingOpen" \in Stage \ {"WaitingMonitorStop"} /\ "WaitingOpen" \notin Transitions
      /\ StageKind("WaitingOpen") = "Open"
      /\ "Connect" \in AppCommand /\ "Disconnected" \in AppState \ {"Monitoring"}
  BY DEF Stage, Transitions, StageKind, AppCommand, AppState
<1> DEFINE v == Asked1(World, "Connect", "WaitingOpen", "Disconnected",
                       OpenCall(client, NextOp(client)))
<1>5. Fine(v) /\ (InStep(World) => InStep(v))
  BY <1>1, <1>2, <1>3, <1>4, CommandFine
<1>6. Become(v) /\ v \in Worlds
  BY <1>1, <1>5 DEF ConnectDevice, Fine
<1>7. QED
  BY <1>5, <1>6, StepIs

\* A command that is refused leaves the application where the client is.
LEMMA SettleFine ==
  ASSUME NEW w, Fine(w), w.app.pending = NoPending, w.app.state # "Monitoring",
         NEW state \in AppState \ {"Monitoring"}, InStep(w) => Agrees(state, w.client),
         NEW v, v.client = w.client, v.mon = w.mon, v \in Worlds,
         v.app.state = state, v.app.pending = NoPending
  PROVE  Fine(v) /\ (InStep(w) => InStep(v))
<1>1. Fine(v)
  BY DEF Fine, KeepStep, CommandWaits
<1>2. ASSUME InStep(w) PROVE InStep(v)
  BY <1>2 DEF InStep
<1>3. QED
  BY <1>1, <1>2

LEMMA DisconnectSteps ==
  ASSUME IInv, DisconnectDevice
  PROVE  Fine(World)' /\ (InStep(World) => InStep(World)')
<1>1. FreeOp(client) # {} /\ Fine(World) /\ app.pending = NoPending
  BY DEF DisconnectDevice, CanCommand, Idle, IInv
<1>2. /\ World.client = client /\ World.app = app /\ World.mon = mon
      /\ client \in Client /\ app \in App /\ mon \in MonitorState
  BY <1>1 DEF World, Fine, Worlds
<1>3. /\ "Disconnect" \in AppCommand /\ "Stopping" \in AppState \ {"Monitoring"}
      /\ {"WaitingReleaseTesting", "WaitingClose"} \subseteq Stage \ {"WaitingMonitorStop"}
      /\ "WaitingClose" \notin Transitions /\ NoOwner \in OwnerOrNone
      /\ {"Testing", "ConnectedIdle"} \subseteq AppState \ {"Monitoring"}
      /\ StageKind("WaitingClose") = "Close"
      /\ StageKind("WaitingReleaseTesting") = "ReleaseOwnership"
  BY DEF Stage, Transitions, StageKind, AppCommand, AppState, OwnerOrNone
<1>4. CASE app.state = "Monitoring"
  <2> DEFINE v == StopMonitorFor(World, "Disconnect")
  <2>1. Fine(v) /\ (InStep(World) => InStep(v))
    BY <1>1, <1>2, <1>3, <1>4, StopFine
  <2>2. Become(v) /\ v \in Worlds
    BY <1>4, <2>1 DEF DisconnectDevice, Fine
  <2>3. QED
    BY <2>1, <2>2, StepIs
<1>5. CASE app.state \in {"ConnectedIdle", "Testing"} /\ client.owner = Testing
           /\ CanRelease(client, Testing)
  <2> DEFINE ask == ReleaseCall(client, NextOp(client), Testing)
             v == Asked1(World, "Disconnect", "WaitingReleaseTesting", "Stopping", ask)
  <2>1. Asks(ask, client, NextOp(client), "ReleaseOwnership") /\ ask.state = client.state
    BY <1>1, <1>2, <1>3, NextOpIsFree, MoveAsks DEF ReleaseCall, TransitionKind
  <2>2. client.state = "Connected"
    BY <1>5 DEF CanRelease, CanMove
  <2>3. Become(v)
    BY <1>5 DEF DisconnectDevice
  <2> HIDE DEF ask
  <2>4. Fine(v) /\ (InStep(World) => InStep(v))
    BY <1>1, <1>2, <1>3, <1>5, <2>1, <2>2, CommandFine
  <2>5. QED
    BY <2>3, <2>4, StepIs DEF Fine
<1>6. CASE app.state \in {"ConnectedIdle", "Testing"} /\ client.owner # Testing
           /\ CanClose(client)
  <2> DEFINE ask == CloseCall(client, NextOp(client))
             v == Asked1(World, "Disconnect", "WaitingClose", "Stopping", ask)
  <2>1. Asks(ask, client, NextOp(client), "Close")
    BY <1>1, <1>2, NextOpIsFree, CloseAsks
  <2>2. Become(v)
    BY <1>6 DEF DisconnectDevice
  <2> HIDE DEF ask
  <2>3. Fine(v) /\ (InStep(World) => InStep(v))
    BY <1>1, <1>2, <1>3, <1>6, <2>1, CommandFine
  <2>4. QED
    BY <2>2, <2>3, StepIs DEF Fine
<1>7. CASE /\ app.state \in {"ConnectedIdle", "Testing"}
           /\ IF client.owner = Testing THEN ~CanRelease(client, Testing) ELSE ~CanClose(client)
  <2> DEFINE state == IF client.owner = Testing THEN "Testing" ELSE "ConnectedIdle"
             a == [app EXCEPT !.state = state]
             v == [client |-> client, app |-> a, mon |-> mon]
  <2>1. Become([World EXCEPT !.app.state = state])
    BY <1>7 DEF DisconnectDevice
  <2>2. [World EXCEPT !.app.state = state] = v
    BY DEF World
  <2>3. state \in AppState \ {"Monitoring"}
    BY <1>3
  <2>4. InStep(World) => Agrees(state, client)
    BY <1>1, <1>2, <1>7 DEF InStep, Agrees
  <2> HIDE DEF state
  <2>5. a \in App /\ a.state = state /\ a.pending = NoPending
    BY <1>1, <1>2, <2>3 DEF App
  <2> HIDE DEF a
  <2>6. v \in Worlds
    BY <1>2, <2>5 DEF Worlds
  <2>7. v.client = client /\ v.app = a /\ v.mon = mon
    OBVIOUS
  <2> HIDE DEF v
  <2>8. Fine(v) /\ (InStep(World) => InStep(v))
    BY <1>1, <1>2, <1>7, <2>3, <2>4, <2>5, <2>6, <2>7, SettleFine
  <2>9. QED
    BY <2>1, <2>2, <2>6, <2>8, StepIs
<1>8. QED
  BY <1>4, <1>5, <1>6, <1>7 DEF DisconnectDevice

\* startMonitoring and startTesting take the line; stopTesting gives it back.
LEMMA TakeLineSteps ==
  ASSUME IInv, StartMonitoring \/ StartTesting
  PROVE  Fine(World)' /\ (InStep(World) => InStep(World)')
<1>1. FreeOp(client) # {} /\ Fine(World)
  BY DEF StartMonitoring, StartTesting, CanCommand, IInv
<1>2. /\ World.client = client /\ World.app = app
      /\ client \in Client /\ {Monitor, Testing} \subseteq OwnerOrNone
  BY <1>1, AppAssumption DEF World, Fine, Worlds, OwnerOrNone
<1>3. app.pending = NoPending /\ app.state = "ConnectedIdle" /\ client.state = "Connected"
  BY <1>2 DEF StartMonitoring, StartTesting, CanTakeLine
<1>4. /\ {"StartMonitoring", "StartTesting"} \subseteq AppCommand
      /\ "ConnectedIdle" \in AppState \ {"Monitoring"}
      /\ {"WaitingAcquireMonitor", "WaitingAcquireTesting"} \subseteq Stage \ {"WaitingMonitorStop"}
      /\ StageKind("WaitingAcquireMonitor") = "AcquireOwnership"
      /\ StageKind("WaitingAcquireTesting") = "AcquireOwnership"
  BY DEF Stage, StageKind, AppCommand, AppState
<1>5. \A o \in {Monitor, Testing} :
        LET ask == AcquireCall(client, NextOp(client), o)
        IN Asks(ask, client, NextOp(client), "AcquireOwnership") /\ ask.state = client.state
  BY <1>1, <1>2, NextOpIsFree, MoveAsks DEF AcquireCall, TransitionKind
<1>6. CASE StartMonitoring
  <2> DEFINE ask == AcquireCall(client, NextOp(client), Monitor)
             v == Asked1(World, "StartMonitoring", "WaitingAcquireMonitor", "ConnectedIdle", ask)
  <2>1. Become(v)
    BY <1>2, <1>3, <1>6 DEF StartMonitoring, StartMonitoringCall
  <2>2. Asks(ask, client, NextOp(client), "AcquireOwnership") /\ ask.state = client.state
    BY <1>5
  <2> HIDE DEF ask
  <2>3. Fine(v) /\ (InStep(World) => InStep(v))
    BY <1>1, <1>2, <1>3, <1>4, <2>2, CommandFine
  <2>4. QED
    BY <2>1, <2>3, StepIs DEF Fine
<1>7. CASE StartTesting
  <2> DEFINE ask == AcquireCall(client, NextOp(client), Testing)
             v == Asked1(World, "StartTesting", "WaitingAcquireTesting", "ConnectedIdle", ask)
  <2>1. Become(v)
    BY <1>2, <1>3, <1>7 DEF StartTesting, StartTestingCall
  <2>2. Asks(ask, client, NextOp(client), "AcquireOwnership") /\ ask.state = client.state
    BY <1>5
  <2> HIDE DEF ask
  <2>3. Fine(v) /\ (InStep(World) => InStep(v))
    BY <1>1, <1>2, <1>3, <1>4, <2>2, CommandFine
  <2>4. QED
    BY <2>1, <2>3, StepIs DEF Fine
<1>8. QED
  BY <1>6, <1>7

LEMMA StopMonitoringSteps ==
  ASSUME IInv, StopMonitoring
  PROVE  Fine(World)' /\ (InStep(World) => InStep(World)')
<1> DEFINE v == StopMonitorFor(World, "StopMonitoring")
<1>1. FreeOp(client) # {} /\ Fine(World) /\ World.app = app /\ World.client = client
  BY DEF StopMonitoring, CanCommand, IInv, World
<1>2. app.pending = NoPending /\ app.state = "Monitoring" /\ "StopMonitoring" \in AppCommand
  BY <1>1 DEF StopMonitoring, CanStopMonitoring, AppCommand
<1>3. Fine(v) /\ (InStep(World) => InStep(v))
  BY <1>1, <1>2, StopFine
<1>4. Become(v) /\ v \in Worlds
  BY <1>3 DEF StopMonitoring, Fine
<1>5. QED
  BY <1>3, <1>4, StepIs

LEMMA StopTestingSteps ==
  ASSUME IInv, StopTesting
  PROVE  Fine(World)' /\ (InStep(World) => InStep(World)')
<1> DEFINE ask == ReleaseCall(client, NextOp(client), Testing)
           v == Asked1(World, "StopTesting", "WaitingReleaseTesting", "Stopping", ask)
<1>1. FreeOp(client) # {} /\ Fine(World) /\ World.app = app /\ World.client = client
  BY DEF StopTesting, CanCommand, IInv, World
<1>2. /\ app.pending = NoPending /\ app.state = "Testing" /\ client.state = "Connected"
      /\ client \in Client /\ NoOwner \in OwnerOrNone
  BY <1>1 DEF StopTesting, CanStopTesting, CanRelease, CanMove, Fine, Worlds, OwnerOrNone
<1>3. /\ "StopTesting" \in AppCommand /\ "Stopping" \in AppState \ {"Monitoring"}
      /\ "WaitingReleaseTesting" \in Stage \ {"WaitingMonitorStop"}
      /\ StageKind("WaitingReleaseTesting") = "ReleaseOwnership"
  BY DEF Stage, StageKind, AppCommand, AppState
<1>4. Asks(ask, client, NextOp(client), "ReleaseOwnership") /\ ask.state = client.state
  BY <1>1, <1>2, NextOpIsFree, MoveAsks DEF ReleaseCall, TransitionKind
<1>5. Become(v)
  BY <1>1 DEF StopTesting, StopTestingCall
<1> HIDE DEF ask
<1>6. Fine(v) /\ (InStep(World) => InStep(v))
  BY <1>1, <1>2, <1>3, <1>4, CommandFine
<1>7. QED
  BY <1>5, <1>6, StepIs DEF Fine

LEMMA RecoverSteps ==
  ASSUME IInv, Recover
  PROVE  Fine(World)' /\ (InStep(World) => InStep(World)')
<1>1. FreeOp(client) # {} /\ Fine(World) /\ app.pending = NoPending /\ app.state = "Error"
  BY DEF Recover, CanCommand, Idle, IInv
<1>2. /\ World.client = client /\ World.app = app /\ World.mon = mon
      /\ client \in Client /\ app \in App /\ mon \in MonitorState
  BY <1>1 DEF World, Fine, Worlds
<1>3. /\ "Recover" \in AppCommand /\ {"Stopping", "Disconnected"} \subseteq AppState \ {"Monitoring"}
      /\ "WaitingClose" \in Stage \ {"WaitingMonitorStop"}
      /\ "WaitingClose" \notin Transitions /\ StageKind("WaitingClose") = "Close"
  BY DEF Stage, Transitions, StageKind, AppCommand, AppState
<1>4. CASE client.state = "Disconnected"
  <2> DEFINE a == [app EXCEPT !.state = "Disconnected"]
             v == [client |-> client, app |-> a, mon |-> mon]
  <2>1. Become([World EXCEPT !.app.state = "Disconnected"])
    BY <1>4 DEF Recover
  <2>2. [World EXCEPT !.app.state = "Disconnected"] = v
    BY DEF World
  <2>3. a \in App /\ a.state = "Disconnected" /\ a.pending = NoPending
    BY <1>1, <1>2, <1>3 DEF App
  <2> HIDE DEF a
  <2>4. v \in Worlds
    BY <1>2, <2>3 DEF Worlds
  <2>5. v.client = client /\ v.app = a /\ v.mon = mon /\ Agrees("Disconnected", client)
    BY <1>4 DEF Agrees
  <2> HIDE DEF v
  <2>6. Fine(v) /\ (InStep(World) => InStep(v))
    BY <1>1, <1>2, <1>3, <2>3, <2>4, <2>5, SettleFine
  <2>7. QED
    BY <2>1, <2>2, <2>4, <2>6, StepIs
<1>5. CASE client.state # "Disconnected"
  <2> DEFINE ask == CloseCall(client, NextOp(client))
             v == Asked1(World, "Recover", "WaitingClose", "Stopping", ask)
  <2>1. Asks(ask, client, NextOp(client), "Close")
    BY <1>1, <1>2, NextOpIsFree, CloseAsks
  <2>2. Become(v)
    BY <1>5 DEF Recover
  <2> HIDE DEF ask
  <2>3. Fine(v) /\ (InStep(World) => InStep(v))
    BY <1>1, <1>2, <1>3, <2>1, CommandFine
  <2>4. QED
    BY <2>2, <2>3, StepIs DEF Fine
<1>6. QED
  BY <1>4, <1>5

-----------------------------------------------------------------------------
(***************************************************************************)
(* The client's answers.                                                   *)
(***************************************************************************)
\* The answer to an operation the pending command is not at.
LEMMA OtherAnswerFine ==
  ASSUME NEW w, Fine(w), NEW op \in OpIds, w.app.pending.op # op,
         NEW v \in Worlds, v.app = w.app, v.mon = w.mon, Clears(v.client, w.client, op),
         w.client.asks[op].kind = "Open" => v.client.owner = w.client.owner,
         w.client.asks[op].kind # "None"
  PROVE  Fine(v) /\ (InStep(w) => InStep(v))
<1>1. w \in Worlds /\ w.client \in Client
  BY DEF Fine, Worlds
<1>2. /\ v.client.asks[op] = NoAsk
      /\ \A other \in OpIds \ {op} : v.client.asks[other] = w.client.asks[other]
  BY <1>1 DEF Clears, Client
<1>3. MonitorWorks(v.mon, v.client) /\ KeepStep(v.app, v.mon)
  BY DEF Fine, MonitorWorks, KeepStep, Clears
<1>4. CommandWaits(v.app, v.client)
  BY <1>2 DEF Fine, CommandWaits, Clears
<1>5. ASSUME InStep(w) PROVE InStep(v)
  <2>1. v.client.owner = w.client.owner /\ v.client.state = w.client.state
    BY <1>5 DEF InStep, Clears
  <2>2. Agrees(w.app.state, w.client) => Agrees(w.app.state, v.client)
    BY <2>1 DEF Agrees
  <2>3. ~v.client.overtaken
    BY <1>5 DEF InStep, Clears
  <2>4. \A other \in OpIds :
          v.client.asks[other].kind \notin {"None", "Open"} => v.app.pending.op = other
    BY <1>2, <1>5 DEF InStep, NoAsk
  <2>5. QED
    BY <1>5, <2>1, <2>2, <2>3, <2>4 DEF InStep
<1>6. QED
  BY <1>3, <1>4, <1>5 DEF Fine

\* The monitor's owner is held.
LEMMA BeginMonitoringFine ==
  ASSUME NEW w, Ready(w)
  PROVE  Fine(BeginMonitoring(w)) /\ (Clear(w.client) => InStep(BeginMonitoring(w)))
<1>1. CASE CanStartMonitor(w)
  <2> DEFINE m == [w.mon EXCEPT !.running = TRUE, !.task = TRUE, !.health = "Unknown"]
             u == [w EXCEPT !.mon = m]
  <2>1. StartMonitor(w) = u
    BY DEF StartMonitor, Ready, Worlds, MonitorState
  <2>2. m \in MonitorState /\ m.running /\ m.task
        /\ m.stopping = w.mon.stopping /\ m.active = w.mon.active /\ m.batch = w.mon.batch
    BY DEF Ready, Worlds, MonitorState, DeviceHealth
  <2> HIDE DEF m
  <2>3. u \in Worlds /\ u.client = w.client /\ u.mon = m
    BY <2>2 DEF Ready, Worlds
  <2>4. BeginMonitoring(w) = EndCommand(u, "Monitoring")
    BY <1>1, <2>1 DEF BeginMonitoring
  <2> HIDE DEF u
  <2>5. "Monitoring" \in AppState /\ Agrees("Monitoring", u.client)
    BY <1>1, <2>3 DEF AppState, Agrees, CanStartMonitor
  <2>6. MonitorWorks(u.mon, u.client) /\ ~u.mon.stopping /\ u.mon.running
    BY <2>2, <2>3 DEF Ready, MonitorWorks
  <2>7. Fine(EndCommand(u, "Monitoring"))
        /\ (Clear(u.client) /\ Agrees("Monitoring", u.client)
              => InStep(EndCommand(u, "Monitoring")))
    BY <2>3, <2>5, <2>6, EndFine
  <2>8. QED
    BY <2>3, <2>4, <2>5, <2>7
<1>2. CASE ~CanStartMonitor(w)
  BY <1>2, ReleaseFine DEF BeginMonitoring
<1>3. QED
  BY <1>1, <1>2

\* handleControlCompleted.
LEMMA AnswerFine ==
  ASSUME NEW w0, Fine(w0), NEW op \in OpIds, NEW ok \in BOOLEAN,
         w0.client.asks[op].kind # "None",
         NEW w \in Worlds, w.app = w0.app, w.mon = w0.mon, Clears(w.client, w0.client, op),
         w0.client.asks[op].kind = "Open" => w.client.owner = w0.client.owner,
         NEW v, v = HandleControlCompleted(w, op, ok)
  PROVE  Fine(v) /\ (InStep(w0) => InStep(v))
<1>1. CASE w.app.pending.op # op
  <2>1. v = w
    BY <1>1 DEF HandleControlCompleted
  <2>2. QED
    BY <1>1, <2>1, OtherAnswerFine
<1>2. CASE w.app.pending.op = op
  <2> DEFINE stage == w.app.pending.stage
  <2>1. w.app.pending # NoPending
    BY <1>2, NotPending DEF NoPending
  <2>2. w.app.pending \in PendingCommand /\ stage \in Stage
    BY <2>1 DEF Worlds, App, PendingCommand
  <2>3. stage # "WaitingMonitorStop" /\ w.app.state # "Monitoring"
    BY <1>2, <2>1, NotPending DEF Fine, CommandWaits
  <2>4. ~w.mon.running /\ ~w.mon.stopping /\ MonitorWorks(w.mon, w.client)
    BY <2>3 DEF Fine, KeepStep, MonitorWorks, Clears
  <2>5. Ready(w)
    BY <2>2, <2>3, <2>4 DEF Ready, Clears
  <2>6. InStep(w0) => Clear(w.client)
    <3>1. w0.client \in Client
      BY DEF Fine, Worlds
    <3>2. /\ w.client.asks[op] = NoAsk
          /\ \A other \in OpIds \ {op} : w.client.asks[other] = w0.client.asks[other]
      BY <3>1 DEF Clears, Client
    <3>3. QED
      BY <1>2, <3>2 DEF InStep, Clear, Clears, NoAsk
  <2>7. InStep(w0) /\ stage \in Transitions => w.client.state = "Connected"
    BY DEF InStep, Clears
  <2>8. CASE ~ok \/ ~StageReached(w)
    <3>1. v = EnterError(w)
      BY <1>2, <2>8 DEF HandleControlCompleted
    <3>2. QED
      BY <2>4, <2>6, <3>1, ErrorFine
  <2>9. CASE ok /\ StageReached(w)
    <3>1. v = CASE stage = "WaitingOpen"  -> EndCommand(w, "ConnectedIdle")
                [] stage = "WaitingClose" -> EndCommand(w, "Disconnected")
                [] stage = "WaitingAcquireMonitor" -> BeginMonitoring(w)
                [] stage = "WaitingAcquireTesting" -> EndCommand(w, "Testing")
                [] OTHER -> AfterRelease(w)
      BY <1>2, <2>9 DEF HandleControlCompleted
    <3>2. {"ConnectedIdle", "Disconnected", "Testing"} \subseteq AppState
      BY DEF AppState
    <3>3. \A final \in {"ConnectedIdle", "Disconnected", "Testing"} :
            /\ Fine(EndCommand(w, final))
            /\ Clear(w.client) /\ Agrees(final, w.client) => InStep(EndCommand(w, final))
      BY <2>4, <3>2, EndFine
    <3>4. NoOwner \notin {Monitor, Testing}
      BY ContractAssumption, AppAssumption
    <3>5. CASE stage = "WaitingOpen"
      <4>1. Agrees("ConnectedIdle", w.client)
        BY <2>9, <3>4, <3>5 DEF StageReached, Agrees
      <4>2. QED
        BY <2>6, <3>1, <3>3, <3>5, <4>1
    <3>6. CASE stage = "WaitingClose"
      <4>1. Agrees("Disconnected", w.client)
        BY <2>9, <3>6 DEF StageReached, Agrees
      <4>2. v = EndCommand(w, "Disconnected")
        BY <3>1, <3>6
      <4>3. QED
        BY <2>6, <3>3, <4>1, <4>2
    <3>7. CASE stage = "WaitingAcquireMonitor"
      <4>1. v = BeginMonitoring(w)
        BY <3>1, <3>7
      <4>2. QED
        BY <2>5, <2>6, <4>1, BeginMonitoringFine
    <3>8. CASE stage = "WaitingAcquireTesting"
      <4>1. InStep(w0) => Agrees("Testing", w.client)
        BY <2>7, <2>9, <3>8 DEF StageReached, Agrees, Transitions
      <4>2. v = EndCommand(w, "Testing")
        BY <3>1, <3>8
      <4>3. QED
        BY <2>6, <3>3, <4>1, <4>2
    <3>9. CASE stage \in {"WaitingReleaseMonitor", "WaitingReleaseTesting"}
      <4>1. InStep(w0) => Agrees("ConnectedIdle", w.client)
        BY <2>7, <2>9, <3>4, <3>9 DEF StageReached, Agrees, Transitions
      <4>2. v = AfterRelease(w)
        BY <3>1, <3>9
      <4>3. CASE w.app.pending.command = "Disconnect"
        BY <2>5, <2>6, <4>2, <4>3, CloseFine DEF AfterRelease
      <4>4. CASE w.app.pending.command # "Disconnect"
        BY <2>6, <3>3, <4>1, <4>2, <4>4 DEF AfterRelease
      <4>5. QED
        BY <4>3, <4>4
    <3>10. stage # "WaitingRollbackMonitorRelease"
      BY <2>9 DEF StageReached
    <3>11. QED
      BY <2>2, <2>3, <3>5, <3>6, <3>7, <3>8, <3>9, <3>10 DEF Stage
  <2>10. QED
    BY <2>8, <2>9
<1>3. QED
  BY <1>1, <1>2

LEMMA AnswerSteps ==
  ASSUME IInv, NEW op \in OpIds, Answer(op)
  PROVE  Fine(World)' /\ (InStep(World) => InStep(World)')
<1>1. Fine(World) /\ World \in Worlds
  BY DEF IInv, Fine
<1>2. /\ World.client = client /\ World.app = app /\ World.mon = mon
      /\ client \in Client /\ app \in App /\ mon \in MonitorState
  BY <1>1 DEF World, Worlds
<1>3. PICK ok \in BOOLEAN : AnswerControl(op, ok) \/ AnswerTransition(op, ok)
  BY DEF Answer
<1>4. CASE AnswerControl(op, ok)
  <2> DEFINE d == ControlAnswered(client, op, ok)
             w == [client |-> d, app |-> app, mon |-> mon]
             v == HandleControlCompleted(w, op, ok)
  <2>1. client.asks[op].kind # "None"
    BY <1>4 DEF AnswerControl, MayAnswerControl
  <2>2. Clears(d, client, op) /\ (client.asks[op].kind = "Open" => d.owner = client.owner)
    BY <1>2, ControlClears
  <2>3. [World EXCEPT !.client = d] = w
    BY DEF World
  <2>4. Become(v)
    BY <1>4, <2>3 DEF AnswerControl
  <2> HIDE DEF d
  <2>5. w \in Worlds /\ w.app = app /\ w.mon = mon /\ w.client = d
    BY <1>2, <2>2 DEF Worlds, Clears
  <2> HIDE DEF w
  <2>6. Fine(v) /\ (InStep(World) => InStep(v))
    BY <1>1, <1>2, <2>1, <2>2, <2>5, AnswerFine
  <2>7. QED
    BY <2>4, <2>6, StepIs DEF Fine
<1>5. CASE AnswerTransition(op, ok)
  <2> DEFINE d == TransitionAnswered(client, op, ok)
             w == [client |-> d, app |-> app, mon |-> mon]
             v == HandleControlCompleted(w, op, ok)
  <2>1. client.asks[op].kind \notin {"None", "Open"}
    BY <1>5 DEF AnswerTransition, MayAnswerTransition, TransitionKind
  <2>2. Clears(d, client, op)
    BY <1>2, TransitionClears
  <2>3. [World EXCEPT !.client = d] = w
    BY DEF World
  <2>4. Become(v)
    BY <1>5, <2>3 DEF AnswerTransition
  <2> HIDE DEF d
  <2>5. w \in Worlds /\ w.app = app /\ w.mon = mon /\ w.client = d
    BY <1>2, <2>2 DEF Worlds, Clears
  <2> HIDE DEF w
  <2>6. Fine(v) /\ (InStep(World) => InStep(v))
    BY <1>1, <1>2, <2>1, <2>2, <2>5, AnswerFine
  <2>7. QED
    BY <2>4, <2>6, StepIs DEF Fine
<1>6. QED
  BY <1>3, <1>4, <1>5

-----------------------------------------------------------------------------
(***************************************************************************)
(* Changes of the connection.                                              *)
(***************************************************************************)
\* A world after the change, before the application's slot has seen it.
LEMMA TurnedFine ==
  ASSUME NEW w, Fine(w), NEW s \in ConnectionState, NEW v \in Worlds,
         v.app = w.app, v.mon = w.mon, v.client = Turned(w.client, s)
  PROVE  /\ Fine(v)
         /\ /\ InStep(w) /\ ~v.client.overtaken
            /\ w.app.pending.stage \in Transitions => s = "Connected"
            /\ w.app.pending = NoPending => Agrees(w.app.state, v.client)
            => InStep(v)
<1>1. w.client \in Client
  BY DEF Fine, Worlds
<1>2. /\ Open(v.client) = Open(w.client) /\ v.client.asks = w.client.asks
      /\ FreeOp(v.client) = FreeOp(w.client) /\ v.client.state = s
  BY <1>1, TurnKeeps
<1>3. Fine(v)
  BY <1>2 DEF Fine, MonitorWorks, KeepStep, CommandWaits
<1>4. QED
  BY <1>2, <1>3 DEF InStep

LEMMA TurnFine ==
  ASSUME NEW w0, Fine(w0), NEW s \in ConnectionState, MayTurn(w0.client, s),
         NEW w \in Worlds, w.app = w0.app, w.mon = w0.mon, w.client = Turned(w0.client, s),
         NEW v, v = IF s = w0.client.state THEN w ELSE HandleConnectionStateChanged(w, s)
  PROVE  Fine(v) /\ (InStep(w0) /\ ~w.client.overtaken => InStep(v))
<1> DEFINE c == w0.client
           d == w.client
<1>1. c \in Client /\ w0 \in Worlds /\ MonitorWorks(w0.mon, c)
  BY DEF Fine, Worlds
<1>2. /\ Open(d) = Open(c) /\ d.asks = c.asks /\ d.state = s
      /\ s \notin {"Faulted", "Disconnected"} => d.owner = c.owner
      /\ d.overtaken <=>
           c.overtaken \/ (s = "Faulted" /\ \E op \in Asked(c) : c.asks[op].kind # "Open")
  BY <1>1, TurnKeeps
<1>3. /\ Fine(w)
      /\ /\ InStep(w0) /\ ~d.overtaken
         /\ w0.app.pending.stage \in Transitions => s = "Connected"
         /\ w0.app.pending = NoPending => Agrees(w0.app.state, d)
         => InStep(w)
  BY TurnedFine
<1>4. /\ Fine(EnterError(AbortBackend(w)))
      /\ Clear(d) => InStep(EnterError(AbortBackend(w)))
  <2>1. ~w.mon.active => w.mon.batch = NoBatch
    BY <1>1 DEF MonitorWorks
  <2>2. QED
    BY <2>1, FaultEnds
<1> HIDE DEF c, d
<1>5. CASE s = c.state
  <2>1. v = w
    BY <1>5 DEF c
  <2>2. ASSUME InStep(w0), ~d.overtaken, w0.app.pending = NoPending
        PROVE  Agrees(w0.app.state, d)
    BY <1>2, <1>5, <2>2 DEF InStep, Agrees, c
  <2>3. InStep(w0) /\ w0.app.pending.stage \in Transitions => s = "Connected"
    BY <1>5 DEF InStep, c
  <2>4. QED
    BY <1>3, <2>1, <2>2, <2>3 DEF d
<1>6. CASE s # c.state /\ s = "Faulted"
  <2>1. v = EnterError(AbortBackend(w))
    BY <1>6 DEF HandleConnectionStateChanged, c
  <2>2. InStep(w0) /\ ~d.overtaken => Clear(d)
    BY <1>2, <1>6 DEF Clear, Asked
  <2>3. QED
    BY <1>4, <2>1, <2>2 DEF d
<1>7. CASE s # c.state /\ s = "Disconnected"
  <2>1. v = IF w.app.state = "Disconnected" \/ w.app.pending.stage = "WaitingClose" THEN w
            ELSE EnterError(AbortBackend(w))
    BY <1>7 DEF HandleConnectionStateChanged, c
  <2>2. ASSUME InStep(w0)
        PROVE  w0.app.pending # NoPending /\ w0.app.pending.stage = "WaitingClose"
    <3>1. PICK op \in OpIds : c.asks[op].kind = "Close"
      BY <1>7 DEF MayTurn, Awaits, c
    <3>2. w0.app.pending.op = op
      BY <2>2, <3>1 DEF InStep, c
    <3>3. w0.app.pending # NoPending
      BY <3>2, NotPending DEF NoPending
    <3>4. StageKind(w0.app.pending.stage) = "Close"
      BY <3>1, <3>2, <3>3, NotPending DEF Fine, CommandWaits, c
    <3>5. QED
      BY <3>3, <3>4 DEF StageKind
  <2>3. CASE w.app.state = "Disconnected" \/ w.app.pending.stage = "WaitingClose"
    BY <1>3, <2>1, <2>2, <2>3 DEF Transitions, d
  <2>4. CASE ~(w.app.state = "Disconnected" \/ w.app.pending.stage = "WaitingClose")
    BY <1>4, <2>1, <2>2, <2>4
  <2>5. QED
    BY <2>3, <2>4
<1>8. CASE s # c.state /\ s = "Connected"
  <2>1. v = IF w.app.state = "Disconnected" /\ w.app.pending = NoPending
            THEN EnterError(w) ELSE w
    BY <1>8 DEF HandleConnectionStateChanged, c
  <2>2. CASE w.app.state = "Disconnected" /\ w.app.pending = NoPending
    <3>1. ~w.mon.running /\ ~w.mon.stopping /\ MonitorWorks(w.mon, w.client)
      BY <1>3, <2>2 DEF Fine, KeepStep, NoPending
    <3>2. InStep(w0) /\ ~d.overtaken => Clear(d)
      BY <1>2, <2>2, IdleIsClear DEF Clear, c
    <3>3. QED
      BY <2>1, <2>2, <3>1, <3>2, ErrorFine DEF d
  <2>3. CASE ~(w.app.state = "Disconnected" /\ w.app.pending = NoPending)
    <3>1. ASSUME InStep(w0), w0.app.pending = NoPending
          PROVE  Agrees(w0.app.state, d)
      BY <1>8, <2>3, <3>1 DEF InStep, Agrees, c
    <3>2. QED
      BY <1>3, <1>8, <2>1, <2>3, <3>1 DEF d
  <2>4. QED
    BY <2>2, <2>3
<1>9. CASE s # c.state /\ s \in {"Opening", "Closing"}
  <2>1. v = w
    BY <1>9 DEF HandleConnectionStateChanged, c
  <2>2. ~InStep(w0)
    BY <1>9 DEF MayTurn, InStep, c
  <2>3. QED
    BY <1>3, <2>1, <2>2
<1>10. QED
  BY <1>5, <1>6, <1>7, <1>8, <1>9 DEF ConnectionState

LEMMA TurnSteps ==
  ASSUME IInv, NEW s \in ConnectionState, Turn(s)
  PROVE  /\ Fine(World)' /\ (InStep(World) /\ ~Turned(client, s).overtaken => InStep(World)')
         /\ faults' \in 0..MaxFaults
         /\ crossed' = (crossed \/ Turned(client, s).overtaken) /\ crossed' \in BOOLEAN
<1> DEFINE d == Turned(client, s)
           w == [client |-> d, app |-> app, mon |-> mon]
           v == IF s = client.state THEN w ELSE HandleConnectionStateChanged(w, s)
<1>1. Fine(World) /\ World \in Worlds /\ faults \in 0..MaxFaults /\ crossed \in BOOLEAN
  BY DEF IInv, Fine
<1>2. /\ World.client = client /\ World.app = app /\ World.mon = mon
      /\ client \in Client /\ app \in App /\ mon \in MonitorState
  BY <1>1 DEF World, Worlds
<1>3. d \in Client /\ d.overtaken \in BOOLEAN
  BY <1>2, TurnKeeps DEF Client
<1>4. [World EXCEPT !.client = d] = w
  BY DEF World
<1>5. Become(v) /\ MayTurn(client, s) /\ crossed' = (crossed \/ d.overtaken)
  BY <1>4 DEF Turn
<1>6. faults' \in 0..MaxFaults
  BY <1>1, AppAssumption DEF Turn
<1> HIDE DEF d
<1>7. w \in Worlds /\ w.app = app /\ w.mon = mon /\ w.client = d
  BY <1>2, <1>3 DEF Worlds
<1> HIDE DEF w
<1>8. Fine(v) /\ (InStep(World) /\ ~d.overtaken => InStep(v))
  BY <1>1, <1>2, <1>5, <1>7, TurnFine DEF d
<1>9. World' = v
  BY <1>5, <1>8, StepIs DEF Fine
<1>10. crossed' \in BOOLEAN
  BY <1>1, <1>3, <1>5
<1>11. QED
  BY <1>5, <1>6, <1>8, <1>9, <1>10 DEF d

-----------------------------------------------------------------------------
(***************************************************************************)
(* The timer and the requests.                                             *)
(***************************************************************************)
LEMMA MonitorTaskSteps ==
  ASSUME IInv, MonitorTask
  PROVE  Fine(World)' /\ (InStep(World) => InStep(World)')
<1> DEFINE v == BeginBatch(World)
<1>1. Fine(World) /\ World.mon = mon /\ World.client = client
  BY DEF IInv, World
<1>2. Fine(v) /\ (InStep(World) => InStep(v))
  BY <1>1, BeginBatchFine DEF MonitorTask
<1>3. Become(v) /\ v \in Worlds
  BY <1>2 DEF MonitorTask, Fine
<1>4. QED
  BY <1>2, <1>3, StepIs

LEMMA RequestSteps ==
  ASSUME IInv, NEW id \in Ids, RequestStarts(id) \/ RequestCompletes(id)
  PROVE  Fine(World)' /\ (InStep(World) => InStep(World)')
<1>1. Fine(World) /\ World \in Worlds
  BY DEF IInv, Fine
<1>2. /\ World.client = client /\ World.app = app /\ World.mon = mon
      /\ client \in Client /\ app \in App /\ mon \in MonitorState
  BY <1>1 DEF World, Worlds
<1>3. CASE RequestStarts(id)
  <2> DEFINE d == Started(client, id)
             v == [client |-> d, app |-> app, mon |-> mon]
  <2>1. /\ d \in Client /\ Open(d) = Open(client) /\ SameOperations(d, client)
    BY <1>2, <1>3, RequestsKeep, RequestsSameOperations DEF RequestStarts, Open
  <2>2. World' = v
    BY <1>3 DEF RequestStarts, World
  <2> HIDE DEF d
  <2>3. v \in Worlds /\ v.client = d /\ v.app = app /\ v.mon = mon
    BY <1>2, <2>1 DEF Worlds
  <2> HIDE DEF v
  <2>4. MonitorWorks(v.mon, v.client)
    BY <1>1, <1>2, <2>1, <2>3 DEF Fine, MonitorWorks
  <2>5. Fine(v) /\ (InStep(World) => InStep(v))
    BY <1>1, <1>2, <2>1, <2>3, <2>4, MonitorMoves
  <2>6. QED
    BY <2>2, <2>5
<1>4. CASE RequestCompletes(id)
  <2> DEFINE d == Completed(client, id)
             w == [client |-> d, app |-> app, mon |-> mon]
  <2>1. [World EXCEPT !.client = d] = w
    BY DEF World
  <2>2. PICK reading \in BOOLEAN, decodes \in BOOLEAN :
          Become(HandleRequestCompleted(w, id, reading, decodes))
    BY <1>4, <2>1 DEF RequestCompletes
  <2> DEFINE v == HandleRequestCompleted(w, id, reading, decodes)
  <2>3. d \in Client
    BY <1>2, RequestsKeep
  <2> HIDE DEF d
  <2>4. w \in Worlds /\ w.app = app /\ w.mon = mon /\ w.client = d
    BY <1>2, <2>3 DEF Worlds
  <2> HIDE DEF w
  <2>5. Fine(v) /\ (InStep(World) => InStep(v))
    BY <1>1, <1>2, <2>4, RequestCompletedFine DEF d
  <2>6. QED
    BY <2>2, <2>5, StepIs DEF Fine
<1>5. QED
  BY <1>3, <1>4

-----------------------------------------------------------------------------
(***************************************************************************)
(* The invariant.                                                          *)
(***************************************************************************)
LEMMA Starts == AppInit => IInv
<1> SUFFICES ASSUME AppInit PROVE IInv
  OBVIOUS
<1> DEFINE w == World
<1>1. NoAsk \in Ask /\ NoAsk.kind = "None"
  BY DEF NoAsk, Ask, OwnerOrNone
<1>2. /\ client \in Client /\ ~client.overtaken /\ client.state = "Disconnected"
      /\ \A op \in OpIds : client.asks[op].kind = "None"
  BY <1>1 DEF AppInit, ClientInit, Client, ConnectionState, OwnerOrNone
<1>3. app \in App /\ app.state = "Disconnected" /\ app.pending = NoPending
  BY DEF AppInit, App, AppState
<1>4. mon \in MonitorState /\ Quiet(mon)
  BY BatchTypes DEF AppInit, MonitorState, Quiet, FailureLimit, DeviceHealth
<1>5. w \in Worlds /\ w.client = client /\ w.app = app /\ w.mon = mon
  BY <1>2, <1>3, <1>4 DEF World, Worlds
<1>6. NoPending.stage = "None"
  BY DEF NoPending
<1> HIDE DEF w
<1>7. Fine(w)
  BY <1>3, <1>4, <1>5, <1>6 DEF Fine, Quiet, MonitorWorks, KeepStep, CommandWaits
<1>8. InStep(w)
  BY <1>2, <1>3, <1>5, <1>6 DEF InStep, Transitions, Agrees
<1>9. faults = 0 /\ crossed = FALSE /\ MaxFaults \in Nat
  BY AppAssumption DEF AppInit
<1>10. Fine(World) /\ InStep(World)
  BY <1>7, <1>8 DEF w
<1>11. faults \in 0..MaxFaults
  BY <1>9
<1>12. crossed \in BOOLEAN
  BY <1>9, Zenon
<1>13. QED
  BY <1>10, <1>11, <1>12 DEF IInv

LEMMA Keeps == IInv /\ [AppNext]_appVars => IInv'
<1> SUFFICES ASSUME IInv, [AppNext]_appVars PROVE IInv'
  OBVIOUS
<1>1. ASSUME Fine(World)', InStep(World) => InStep(World)', UNCHANGED history PROVE IInv'
  BY <1>1 DEF IInv, history
<1>2. CASE UserCommand
  <2>1. UNCHANGED history
    BY <1>2 DEF UserCommand, ConnectDevice, DisconnectDevice, StartMonitoring, StopMonitoring,
       StartTesting, StopTesting, Recover, CanCommand
  <2>2. Fine(World)' /\ (InStep(World) => InStep(World)')
    BY <1>2, ConnectSteps, DisconnectSteps, TakeLineSteps, StopMonitoringSteps,
       StopTestingSteps, RecoverSteps DEF UserCommand
  <2>3. QED
    BY <1>1, <2>1, <2>2
<1>3. CASE MonitorTask
  BY <1>1, <1>3, MonitorTaskSteps DEF MonitorTask
<1>4. ASSUME NEW s \in ConnectionState, Turn(s) PROVE IInv'
  BY <1>4, TurnSteps DEF IInv
<1>5. ASSUME NEW op \in OpIds, Answer(op) PROVE IInv'
  <2>1. UNCHANGED history
    BY <1>5 DEF Answer, AnswerControl, AnswerTransition
  <2>2. QED
    BY <1>1, <1>5, <2>1, AnswerSteps
<1>6. ASSUME NEW id \in Ids, RequestStarts(id) \/ RequestCompletes(id) PROVE IInv'
  <2>1. UNCHANGED history
    BY <1>6 DEF RequestStarts, RequestCompletes
  <2>2. QED
    BY <1>1, <1>6, <2>1, RequestSteps
<1>7. CASE UNCHANGED appVars
  BY <1>7 DEF IInv, appVars, history, World
<1>8. QED
  BY <1>2, <1>3, <1>4, <1>5, <1>6, <1>7 DEF AppNext

\* Every state of the application satisfies the invariant: the command in progress, the
\* monitor and the client are in step.
THEOREM AppInvariant == AppSpec => []IInv
BY Starts, Keeps, PTL DEF AppSpec

\* A command in progress always waits for an answer or a request that is still to come.
THEOREM CommandIsAwaited == AppSpec => []PendingIsAwaited
<1>1. IInv => PendingIsAwaited
  BY DEF IInv, World, Fine, KeepStep, MonitorWorks, CommandWaits, PendingIsAwaited
<1>2. QED
  BY <1>1, AppInvariant, PTL

\* Polling never dies quietly: the next batch is scheduled, or the batch under way has a
\* request the client will complete.
THEOREM MonitorKeepsWorking == AppSpec => []MonitorNeverStalls
<1>1. IInv => MonitorNeverStalls
  BY DEF IInv, World, Fine, MonitorWorks, MonitorNeverStalls
<1>2. QED
  BY <1>1, AppInvariant, PTL

\* The monitor polls exactly while the application shows Monitoring, and stops only for a
\* command that waits for it.
THEOREM MonitorFollowsApplication == AppSpec => []PollsWhileMonitoring
<1>1. IInv => PollsWhileMonitoring
  BY DEF IInv, World, Fine, KeepStep, PollsWhileMonitoring
<1>2. QED
  BY <1>1, AppInvariant, PTL

\* When no command is in progress, and no fault has overtaken an operation, the state the
\* application shows agrees with the connection and with the line's owner.
THEOREM ApplicationTellsTheTruth == AppSpec => []SettledAgreesWithClient
<1>1. IInv => SettledAgreesWithClient
  <2> SUFFICES ASSUME IInv, app.pending = NoPending, ~crossed
               PROVE  Agrees(app.state, client)
    BY DEF SettledAgreesWithClient, Agrees
  <2>1. QED
    BY DEF IInv, InStep, World
<1>2. QED
  BY <1>1, AppInvariant, PTL

\* The three services keep to their types.
THEOREM AppTypes == AppSpec => []AppTypeOK
<1>1. IInv => AppTypeOK
  BY DEF IInv, World, Fine, Worlds, AppTypeOK
<1>2. QED
  BY <1>1, AppInvariant, PTL

-----------------------------------------------------------------------------
(***************************************************************************)
(* The application and the monitor beside another service, whose state the *)
(* world then holds too: their slots leave it alone and make at most one   *)
(* call of the client.                                                     *)
(***************************************************************************)
Hosts(w) ==
  /\ {"client", "app", "mon"} \subseteq DOMAIN w
  /\ {"state", "pending"} \subseteq DOMAIN w.app
  /\ {"command", "stage", "op"} \subseteq DOMAIN w.app.pending

\* The slots change neither the rest of the world nor the kind of thing it is.
Beside(v, w) ==
  /\ Hosts(v) /\ DOMAIN v = DOMAIN w
  /\ \A f \in DOMAIN w \ {"client", "app", "mon"} : v[f] = w[f]

\* No call; the pending command may end.
Still(v, w) ==
  /\ Beside(v, w) /\ v.client = w.client
  /\ v.app.pending.op \in {0, w.app.pending.op}

\* No call; no command is pending any more.
Ends(v, w) == Still(v, w) /\ v.app.pending.op = 0

\* An operation of the client is asked for, and the pending command waits for it.
Releases(v, w) ==
  /\ Beside(v, w) /\ v.app.pending.op = NextOp(w.client)
  /\ CanRelease(w.client, Monitor)
  /\ v.client = ReleaseCall(w.client, NextOp(w.client), Monitor)

Closes(v, w) ==
  /\ Beside(v, w) /\ v.app.pending.op = NextOp(w.client)
  /\ CanClose(w.client) /\ v.client = CloseCall(w.client, NextOp(w.client))

\* A request is submitted, or cancelled.
Submits(v, w) ==
  /\ Beside(v, w) /\ v.app.pending.op = w.app.pending.op
  /\ CanSubmit(w.client) /\ w.client.owner = Monitor
  /\ v.client = SubmitCall(w.client, NextId(w.client))

Revokes(v, w) ==
  /\ Beside(v, w) /\ v.app.pending.op = w.app.pending.op
  /\ \E id \in Open(w.client) :
       CanCancel(w.client, id) /\ v.client = CancelCall(w.client, id)

CallsOnce(v, w) == Still(v, w) \/ Releases(v, w) \/ Submits(v, w) \/ Revokes(v, w)

\* What changes the monitor only.
LEMMA MonitorStill ==
  ASSUME NEW w, Hosts(w), NEW m
  PROVE  Still([w EXCEPT !.mon = m], w)
BY DEF Still, Beside, Hosts

LEMMA StillAfter ==
  ASSUME NEW w, NEW u, NEW v, Still(u, w)
  PROVE  /\ Still(v, u) => Still(v, w)
         /\ Releases(v, u) => Releases(v, w)
         /\ Ends(v, u) => Ends(v, w)
BY DEF Ends, Still, Releases, Beside

LEMMA EndEnds ==
  ASSUME NEW w, Hosts(w), NEW final
  PROVE  Ends(EndCommand(w, final), w)
BY DEF Ends, Still, Beside, Hosts, EndCommand, NoPending

LEMMA AwaitAsks ==
  ASSUME NEW w, Hosts(w), NEW stage, NEW ask
  PROVE  /\ Beside(Await(w, stage, ask), w) /\ Await(w, stage, ask).client = ask
         /\ Await(w, stage, ask).app.pending.op = NextOp(w.client)
BY DEF Beside, Hosts, Await

LEMMA CloseCalls ==
  ASSUME NEW w, Hosts(w)
  PROVE  Ends(CloseBackend(w), w) \/ Closes(CloseBackend(w), w)
BY EndEnds, AwaitAsks DEF CloseBackend, EnterError, Closes

LEMMA ReleaseCalls ==
  ASSUME NEW w, Hosts(w), NEW stage
  PROVE  \/ Ends(ReleaseOwner(w, stage, Monitor), w)
         \/ Releases(ReleaseOwner(w, stage, Monitor), w)
BY EndEnds, AwaitAsks DEF ReleaseOwner, EnterError, Releases

LEMMA HandleMonitorStoppedCalls ==
  ASSUME NEW w, Hosts(w)
  PROVE  Still(HandleMonitorStopped(w), w) \/ Releases(HandleMonitorStopped(w), w)
<1>1. Still(w, w)
  BY DEF Still, Beside
<1> QED
  BY <1>1, ReleaseCalls DEF HandleMonitorStopped, Ends

LEMMA StillHosts ==
  ASSUME NEW w, NEW v, Still(v, w)
  PROVE  Hosts(v)
BY DEF Still, Beside

LEMMA MonitorErrorStill ==
  ASSUME NEW w, Hosts(w)
  PROVE  Still(HandleMonitorError(w), w)
<1> DEFINE m1 == [w.mon EXCEPT !.running = FALSE]
           m2 == [m1 EXCEPT !.stopping = FALSE]
           m3 == [m2 EXCEPT !.task = FALSE]
           m4 == [m3 EXCEPT !.health = "Offline"]
<1>1. AbortIdle(w) = [w EXCEPT !.mon = m4]
  BY DEF AbortIdle, Halted, Hosts
<1> HIDE DEF m4
<1>2. Still(AbortIdle(w), w)
  BY <1>1, MonitorStill
<1>3. Still(EnterError(AbortIdle(w)), w)
  BY <1>2, EndEnds, StillHosts, StillAfter DEF EnterError, Ends
<1>4. Still(w, w)
  BY DEF Still, Beside
<1> QED
  BY <1>3, <1>4 DEF HandleMonitorError

LEMMA BatchEndsStill ==
  ASSUME NEW w, Hosts(w), NEW fatal
  PROVE  /\ Still(EndBatch(w), w)
         /\ Still(ScheduleAfterCompletedBatch(w), w)
         /\ Still(FinalizeFailedBatch(w, fatal), w)
         /\ Still(FinalizeSuccessfulBatch(w), w)
<1>1. \A u : Hosts(u) => Still(EndBatch(u), u)
  <2> SUFFICES ASSUME NEW u, Hosts(u) PROVE Still(EndBatch(u), u)
    OBVIOUS
  <2>1. EndBatch(u) =
          [u EXCEPT !.mon = [[u.mon EXCEPT !.batch = NoBatch] EXCEPT !.active = FALSE]]
    BY DEF EndBatch, Hosts
  <2> QED
    BY <2>1, MonitorStill
<1>2. \A u : Hosts(u) => Still(ScheduleAfterCompletedBatch(u), u)
  <2> SUFFICES ASSUME NEW u, Hosts(u) PROVE Still(ScheduleAfterCompletedBatch(u), u)
    OBVIOUS
  <2>1. [u EXCEPT !.mon.task = TRUE] = [u EXCEPT !.mon = [u.mon EXCEPT !.task = TRUE]]
    BY DEF Hosts
  <2>2. Still(u, u)
    BY DEF Still, Beside
  <2> QED
    BY <2>1, <2>2, MonitorStill DEF ScheduleAfterCompletedBatch
<1> DEFINE counted == [EndBatch(w) EXCEPT
                         !.mon.failures = IF @ < FailureLimit THEN @ + 1 ELSE @]
           shown == [counted EXCEPT
                       !.mon.health = IF counted.mon.failures >= FailureLimit
                                        THEN "Offline" ELSE "Degraded"]
           r == IF fatal THEN HandleMonitorError(shown) ELSE shown
           good == [[EndBatch(w) EXCEPT !.mon.failures = 0] EXCEPT !.mon.health = "Online"]
<1>3. Hosts(EndBatch(w)) /\ Still(EndBatch(w), w)
  BY <1>1, StillHosts
<1>4. Still(counted, w)
  <2> DEFINE e == EndBatch(w)
             m == [e.mon EXCEPT !.failures = IF @ < FailureLimit THEN @ + 1 ELSE @]
  <2>1. counted = [e EXCEPT !.mon = m]
    BY <1>3 DEF Hosts
  <2> HIDE DEF e, m, counted
  <2>2. Hosts(e) /\ Still(e, w)
    BY <1>3 DEF e
  <2> QED
    BY <2>1, <2>2, MonitorStill, StillAfter
<1> HIDE DEF counted
<1>5. Still(shown, w)
  <2> DEFINE h == IF counted.mon.failures >= FailureLimit THEN "Offline" ELSE "Degraded"
             m == [counted.mon EXCEPT !.health = h]
  <2>1. Hosts(counted)
    BY <1>4, StillHosts
  <2>2. shown = [counted EXCEPT !.mon = m]
    BY <2>1 DEF Hosts
  <2> HIDE DEF m, shown
  <2> QED
    BY <1>4, <2>1, <2>2, MonitorStill, StillAfter
<1> HIDE DEF shown
<1>6. Still(r, w)
  BY <1>5, MonitorErrorStill, StillHosts, StillAfter
<1>7. FinalizeFailedBatch(w, fatal) = ScheduleAfterCompletedBatch(r)
  BY DEF FinalizeFailedBatch, shown, counted
<1> HIDE DEF r
<1>8. Still(FinalizeFailedBatch(w, fatal), w)
  BY <1>2, <1>6, <1>7, StillHosts, StillAfter
<1>9. Still(good, w)
  <2> DEFINE e == EndBatch(w)
             m == [[e.mon EXCEPT !.failures = 0] EXCEPT !.health = "Online"]
  <2>1. good = [e EXCEPT !.mon = m]
    BY <1>3 DEF Hosts
  <2> HIDE DEF e, m, good
  <2>2. Hosts(e) /\ Still(e, w)
    BY <1>3 DEF e
  <2> QED
    BY <2>1, <2>2, MonitorStill, StillAfter
<1>10. FinalizeSuccessfulBatch(w) = ScheduleAfterCompletedBatch(good)
  BY DEF FinalizeSuccessfulBatch
<1> HIDE DEF good
<1>11. Still(FinalizeSuccessfulBatch(w), w)
  BY <1>2, <1>9, <1>10, StillHosts, StillAfter
<1> QED
  BY <1>1, <1>2, <1>8, <1>11

LEMMA AbortStill ==
  ASSUME NEW w, Hosts(w)
  PROVE  Still(AbortBackend(w), w)
<1> DEFINE m1 == [w.mon EXCEPT !.running = FALSE]
           m2 == [m1 EXCEPT !.stopping = FALSE]
           m3 == [m2 EXCEPT !.task = FALSE]
           m4 == [m3 EXCEPT !.health = "Offline"]
           h == Halted(w)
           f == FinalizeFailedBatch(h, TRUE)
<1>1. AbortIdle(w) = [w EXCEPT !.mon = m4] /\ h = [w EXCEPT !.mon = m3]
  BY DEF AbortIdle, Halted, Hosts
<1> HIDE DEF m3, m4, h, f
<1>2. Still(AbortIdle(w), w) /\ Still(h, w)
  BY <1>1, MonitorStill
<1>3. Still(f, w) /\ Hosts(f)
  BY <1>2, StillHosts, BatchEndsStill, StillAfter DEF f
<1>4. [f EXCEPT !.mon.health = "Offline"] =
        [f EXCEPT !.mon = [f.mon EXCEPT !.health = "Offline"]]
  BY <1>3 DEF Hosts
<1>5. Still([f EXCEPT !.mon.health = "Offline"], w)
  BY <1>3, <1>4, MonitorStill, StillAfter
<1> QED
  BY <1>2, <1>5 DEF AbortBackend, f, h

LEMMA FinishStopCalls ==
  ASSUME NEW w, Hosts(w)
  PROVE  Still(FinishStop(w), w) \/ Releases(FinishStop(w), w)
<1> DEFINE m == [[w.mon EXCEPT !.stopping = FALSE] EXCEPT !.health = "Unknown"]
           u == [w EXCEPT !.mon = m]
<1>1. FinishStop(w) = HandleMonitorStopped(u)
  BY DEF FinishStop, Hosts
<1> HIDE DEF m
<1>2. Still(u, w)
  BY MonitorStill
<1> HIDE DEF u
<1> QED
  BY <1>1, <1>2, StillHosts, HandleMonitorStoppedCalls, StillAfter

\* What a slot calls, calls the step it begins with.
LEMMA CallsAfter ==
  ASSUME NEW w, NEW u, NEW v, Still(u, w), u.app.pending.op = w.app.pending.op
  PROVE  /\ Still(v, u) \/ Submits(v, u) => Still(v, w) \/ Submits(v, w)
         /\ CallsOnce(v, u) => CallsOnce(v, w)
BY DEF CallsOnce, Still, Releases, Submits, Revokes, Beside

LEMMA NextBlockCalls ==
  ASSUME NEW w, Hosts(w)
  PROVE  Still(SubmitNextBlock(w), w) \/ Submits(SubmitNextBlock(w), w)
<1> DEFINE id == NextId(w.client)
           b == [w.mon.batch EXCEPT !.request = id]
           m == [w.mon EXCEPT !.batch = b]
           d == SubmitCall(w.client, id)
           v == SubmitNextBlock(w)
<1>1. CASE CanSubmit(w.client) /\ w.client.owner = Monitor
  <2>1. v = [[w EXCEPT !.client = d] EXCEPT !.mon = m]
    BY <1>1 DEF SubmitNextBlock, Hosts
  <2> HIDE DEF m, d, v
  <2>2. Beside(v, w) /\ v.client = d /\ v.app.pending.op = w.app.pending.op
    BY <2>1 DEF Beside, Hosts
  <2> QED
    BY <1>1, <2>2 DEF Submits, v, d
<1>2. CASE ~(CanSubmit(w.client) /\ w.client.owner = Monitor)
  BY <1>2, BatchEndsStill DEF SubmitNextBlock
<1> QED
  BY <1>1, <1>2

LEMMA BeginBatchCalls ==
  ASSUME NEW w, Hosts(w)
  PROVE  Still(BeginBatch(w), w) \/ Submits(BeginBatch(w), w)
<1> DEFINE m1 == [w.mon EXCEPT !.task = FALSE]
           m2 == [m1 EXCEPT !.active = TRUE]
           due == [w EXCEPT !.mon.task = FALSE]
           begun == [due EXCEPT !.mon.active = TRUE]
           e == HandleMonitorError(due)
<1>1. due = [w EXCEPT !.mon = m1] /\ begun = [w EXCEPT !.mon = m2]
  BY DEF Hosts
<1>2. BeginBatch(w) =
        IF w.mon.active THEN due
        ELSE IF w.client.state = "Connected" /\ w.client.owner = Monitor
               THEN SubmitNextBlock(begun) ELSE AbortBackend(e)
  BY DEF BeginBatch
<1> HIDE DEF m1, m2, due, begun, e
<1>3. Still(due, w) /\ Still(begun, w) /\ begun.app.pending.op = w.app.pending.op
  BY <1>1, MonitorStill DEF Hosts
<1>4. Hosts(due) /\ Hosts(begun)
  BY <1>3, StillHosts
<1>5. Still(AbortBackend(e), w)
  BY <1>3, <1>4, MonitorErrorStill, StillHosts, AbortStill, StillAfter DEF e
<1>6. Still(SubmitNextBlock(begun), w) \/ Submits(SubmitNextBlock(begun), w)
  BY <1>3, <1>4, NextBlockCalls, CallsAfter
<1> QED
  BY <1>2, <1>3, <1>5, <1>6

\* handleRequestCompleted of the monitor.
LEMMA BlockCalls ==
  ASSUME NEW w, Hosts(w), NEW id, NEW reading \in BOOLEAN, NEW decodes \in BOOLEAN
  PROVE  LET v == HandleRequestCompleted(w, id, reading, decodes)
         IN CallsOnce(v, w) /\ (~w.mon.stopping => Still(v, w) \/ Submits(v, w))
<1> DEFINE m1 == [w.mon EXCEPT !.batch = [w.mon.batch EXCEPT !.request = 0]]
           got == [w EXCEPT !.mon.batch.request = 0]
           m2 == [got.mon EXCEPT !.batch = [got.mon.batch EXCEPT !.index = @ + 1]]
           read == [got EXCEPT !.mon.batch.index = @ + 1]
<1>1. got = [w EXCEPT !.mon = m1]
  BY DEF Hosts
<1>2. HandleBlock(w, reading, decodes) =
        CASE w.mon.stopping -> FinishStop(EndBatch(got))
          [] ~w.mon.stopping /\ ~w.mon.running -> got
          [] OTHER ->
               CASE ~reading                 -> FinalizeFailedBatch(got, FALSE)
                 [] reading /\ read.mon.batch.index < Blocks -> SubmitNextBlock(read)
                 [] OTHER -> IF decodes THEN FinalizeSuccessfulBatch(read)
                                        ELSE FinalizeFailedBatch(read, FALSE)
  BY DEF HandleBlock
<1> HIDE DEF m1, got
<1>3. Still(got, w) /\ got.app.pending.op = w.app.pending.op
  BY <1>1, MonitorStill DEF Hosts
<1>4. Hosts(got)
  BY <1>3, StillHosts
<1>5. read = [got EXCEPT !.mon = m2]
  BY <1>4 DEF Hosts
<1> HIDE DEF m2, read
<1>6. Still(read, got) /\ read.app.pending.op = w.app.pending.op
  BY <1>3, <1>4, <1>5, MonitorStill DEF Hosts
<1>7. Still(read, w) /\ Hosts(read)
  BY <1>3, <1>6, StillAfter, StillHosts
<1>8. CallsOnce(FinishStop(EndBatch(got)), w)
  BY <1>3, <1>4, BatchEndsStill, FinishStopCalls, StillHosts, StillAfter DEF CallsOnce
<1>9. /\ Still(FinalizeFailedBatch(got, FALSE), w) /\ Still(got, w)
      /\ Still(FinalizeFailedBatch(read, FALSE), w)
      /\ Still(FinalizeSuccessfulBatch(read), w)
  BY <1>3, <1>4, <1>7, BatchEndsStill, StillAfter
<1>10. Still(SubmitNextBlock(read), w) \/ Submits(SubmitNextBlock(read), w)
  BY <1>6, <1>7, NextBlockCalls, CallsAfter
<1>11. Still(w, w)
  BY DEF Still, Beside
<1> QED
  BY <1>2, <1>8, <1>9, <1>10, <1>11 DEF HandleRequestCompleted, CallsOnce

\* handleControlCompleted and handleConnectionStateChanged of the application.
LEMMA OtherAnswerStill ==
  ASSUME NEW w, NEW op, NEW ok, w.app.pending.op # op
  PROVE  HandleControlCompleted(w, op, ok) = w
BY DEF HandleControlCompleted

LEMMA ControlCalls ==
  ASSUME NEW w, Hosts(w), NEW op, NEW ok
  PROVE  LET v == HandleControlCompleted(w, op, ok)
         IN \/ v = w /\ w.app.pending.op # op
            \/ Ends(v, w) \/ Releases(v, w) \/ Closes(v, w)
<1> DEFINE v == HandleControlCompleted(w, op, ok)
<1>1. \/ v = w /\ w.app.pending.op # op
      \/ v \in {EnterError(w), EndCommand(w, "ConnectedIdle"), EndCommand(w, "Disconnected"),
                BeginMonitoring(w), EndCommand(w, "Testing"), AfterRelease(w)}
  BY DEF HandleControlCompleted
<1> HIDE DEF v
<1>2. /\ Ends(EnterError(w), w) /\ Ends(EndCommand(w, "ConnectedIdle"), w)
      /\ Ends(EndCommand(w, "Disconnected"), w) /\ Ends(EndCommand(w, "Testing"), w)
  BY EndEnds DEF EnterError
<1>3. Ends(AfterRelease(w), w) \/ Closes(AfterRelease(w), w)
  BY EndEnds, CloseCalls DEF AfterRelease
<1>4. Ends(BeginMonitoring(w), w) \/ Releases(BeginMonitoring(w), w)
  <2> DEFINE m == [[[w.mon EXCEPT !.running = TRUE] EXCEPT !.task = TRUE]
                     EXCEPT !.health = "Unknown"]
             u == StartMonitor(w)
  <2>1. u = [w EXCEPT !.mon = m]
    BY DEF StartMonitor, Hosts
  <2> HIDE DEF m, u
  <2>2. Still(u, w)
    BY <2>1, MonitorStill
  <2>3. Ends(EndCommand(u, "Monitoring"), w)
    BY <2>2, StillHosts, EndEnds, StillAfter
  <2> QED
    BY <2>3, ReleaseCalls DEF BeginMonitoring, u
<1> QED
  BY <1>1, <1>2, <1>3, <1>4 DEF v

LEMMA TurnStill ==
  ASSUME NEW w, Hosts(w), NEW s
  PROVE  Still(HandleConnectionStateChanged(w, s), w)
<1>1. HandleConnectionStateChanged(w, s) \in {w, EnterError(w), EnterError(AbortBackend(w))}
  BY DEF HandleConnectionStateChanged
<1>2. Still(w, w) /\ Still(EnterError(w), w)
  BY EndEnds DEF Ends, EnterError, Still, Beside
<1>3. Still(EnterError(AbortBackend(w)), w)
  BY AbortStill, EndEnds, StillHosts, StillAfter DEF EnterError, Ends
<1> QED
  BY <1>1, <1>2, <1>3

-----------------------------------------------------------------------------
\* The user's commands also open the connection, and take and give back the line.
Commands(v, w) ==
  /\ Beside(v, w) /\ v.app.pending.op = NextOp(w.client)
  /\ \/ Closes(v, w)
     \/ CanOpen(w.client) /\ v.client = OpenCall(w.client, NextOp(w.client))
     \/ \E o \in {Monitor, Testing} :
          /\ CanAcquire(w.client, o) /\ w.client.owner = NoOwner
          /\ v.client = AcquireCall(w.client, NextOp(w.client), o)
     \/ /\ CanRelease(w.client, Testing)
        /\ v.client = ReleaseCall(w.client, NextOp(w.client), Testing)

LEMMA AskedBeside ==
  ASSUME NEW w, Hosts(w), NEW command, NEW stage, NEW state, NEW ask
  PROVE  LET v == Asked1(w, command, stage, state, ask)
         IN /\ Beside(v, w) /\ v.client = ask /\ v.app.pending.op = NextOp(w.client)
BY DEF Asked1, Begun, Beside, Hosts

LEMMA StopMonitorCalls ==
  ASSUME NEW w, Hosts(w), NEW command, w.app.pending.op = 0
  PROVE  LET v == StopMonitorFor(w, command)
         IN Still(v, w) \/ Releases(v, w) \/ Revokes(v, w)
<1> DEFINE a == [[w.app EXCEPT !.pending = [command |-> command,
                     stage |-> "WaitingMonitorStop", op |-> 0]] EXCEPT !.state = "Stopping"]
           u == [Begun(w, command, "WaitingMonitorStop", 0) EXCEPT !.app.state = "Stopping"]
           m == [[[[u.mon EXCEPT !.running = FALSE] EXCEPT !.stopping = FALSE]
                   EXCEPT !.task = FALSE] EXCEPT !.stopping = TRUE]
           halted == [Halted(u) EXCEPT !.mon.stopping = TRUE]
           id == u.mon.batch.request
           c == [halted EXCEPT !.client = CancelCall(u.client, id)]
<1>1. u = [w EXCEPT !.app = a]
  BY DEF Begun, Hosts
<1>2. /\ {"state", "pending"} \subseteq DOMAIN a
      /\ {"command", "stage", "op"} \subseteq DOMAIN a.pending /\ a.pending.op = 0
  BY DEF Hosts
<1> HIDE DEF a, u
<1>3. Still(u, w) /\ u.app.pending.op = 0
  BY <1>1, <1>2 DEF Still, Beside, Hosts
<1>4. Hosts(u) /\ u.client = w.client
  BY <1>3, StillHosts DEF Still
<1>5. halted = [u EXCEPT !.mon = m]
  BY <1>4 DEF Halted, Hosts
<1>6. StopMonitorFor(w, command) =
        IF ~u.mon.running \/ u.mon.stopping THEN EnterError(u)
        ELSE IF id # 0 /\ CanCancel(u.client, id) THEN c ELSE FinishStop(EndBatch(halted))
  BY DEF StopMonitorFor, StopMonitor, u
<1> HIDE DEF m, halted, id
<1>7. Still(halted, u) /\ halted.app.pending.op = 0
  BY <1>3, <1>4, <1>5, MonitorStill DEF Hosts
<1>8. Hosts(halted) /\ halted.client = u.client
  BY <1>7, StillHosts DEF Still
<1>9. Still(EnterError(u), w)
  BY <1>3, <1>4, EndEnds, StillAfter DEF EnterError, Ends
<1> DEFINE finished == FinishStop(EndBatch(halted))
<1>10. Still(finished, w) \/ Releases(finished, w)
  BY <1>3, <1>7, <1>8, BatchEndsStill, FinishStopCalls, StillHosts, StillAfter
<1>11. ASSUME CanCancel(u.client, id)
       PROVE  Revokes(c, w)
  <2>1. Beside(c, halted) /\ c.client = CancelCall(u.client, id) /\ c.app.pending.op = 0
    BY <1>7, <1>8 DEF Beside, Hosts
  <2>2. Beside(c, w)
    BY <1>3, <1>7, <2>1 DEF Still, Beside
  <2> QED
    BY <1>4, <1>11, <2>1, <2>2 DEF Revokes, CanCancel
<1> HIDE DEF c, finished
<1> QED
  BY <1>6, <1>9, <1>10, <1>11 DEF finished

\* Another world with the same services in it.
Shows(u, v) == u.client = v.client /\ u.app = v.app /\ u.mon = v.mon

LEMMA ShownElsewhere ==
  ASSUME NEW w, NEW u, NEW a, NEW b, Hosts(w), DOMAIN u = DOMAIN w,
         \A f \in DOMAIN w \ {"client", "app", "mon"} : u[f] = w[f],
         Shows(w, a), Shows(u, b)
  PROVE  /\ Still(b, a) => Still(u, w)
         /\ Releases(b, a) => Releases(u, w)
         /\ Submits(b, a) => Submits(u, w)
         /\ Revokes(b, a) => Revokes(u, w)
         /\ Commands(b, a) => Commands(u, w)
<1>1. Hosts(b) => Beside(u, w)
  BY DEF Beside, Hosts, Shows
<1> QED
  BY <1>1 DEF Still, Releases, Submits, Revokes, Closes, Commands, Shows, Beside

LEMMA StateStill ==
  ASSUME NEW w, Hosts(w), NEW state
  PROVE  Still([w EXCEPT !.app.state = state], w)
BY DEF Still, Beside, Hosts

UserCalls(v, w) == Still(v, w) \/ Releases(v, w) \/ Revokes(v, w) \/ Commands(v, w)

LEMMA UserCommandCalls ==
  ASSUME Hosts(World), UserCommand
  PROVE  /\ CanCommand
         /\ \E v : Become(v) /\ UserCalls(v, World)
<1> DEFINE op == NextOp(client)
<1>1. World.client = client /\ World.app = app /\ World.mon = mon
  BY DEF World
<1>2. CASE ConnectDevice
  <2> DEFINE v == Asked1(World, "Connect", "WaitingOpen", app.state, OpenCall(client, op))
  <2>1. CanCommand /\ CanOpen(client) /\ Become(v)
    BY <1>2 DEF ConnectDevice
  <2>2. UserCalls(v, World)
    BY <1>1, <2>1, AskedBeside DEF UserCalls, Commands
  <2> QED
    BY <2>1, <2>2
<1>3. CASE DisconnectDevice
  <2> DEFINE stop == StopMonitorFor(World, "Disconnect")
             release == Asked1(World, "Disconnect", "WaitingReleaseTesting", "Stopping",
                               ReleaseCall(client, op, Testing))
             close == Asked1(World, "Disconnect", "WaitingClose", "Stopping",
                             CloseCall(client, op))
             t == [World EXCEPT !.app.state = "Testing"]
             c == [World EXCEPT !.app.state = "ConnectedIdle"]
  <2>1. /\ CanCommand /\ Idle
        /\ \/ Become(stop) \/ Become(t) \/ Become(c)
           \/ CanRelease(client, Testing) /\ Become(release)
           \/ CanClose(client) /\ Become(close)
    BY <1>3 DEF DisconnectDevice
  <2>2. World.app.pending.op = 0
    BY <1>1, <2>1 DEF Idle, NoPending
  <2>3. UserCalls(stop, World)
    BY <1>1, <2>2, StopMonitorCalls DEF UserCalls
  <2>4. CanRelease(client, Testing) => UserCalls(release, World)
    BY <1>1, AskedBeside DEF UserCalls, Commands
  <2>5. CanClose(client) => UserCalls(close, World)
    BY <1>1, AskedBeside DEF UserCalls, Commands, Closes
  <2>6. UserCalls(t, World) /\ UserCalls(c, World)
    BY StateStill DEF UserCalls
  <2> HIDE DEF stop, release, close, t, c
  <2> QED
    BY <2>1, <2>3, <2>4, <2>5, <2>6
<1>4. CASE StartMonitoring \/ StartTesting
  <2> DEFINE m == StartMonitoringCall(World)
             t == StartTestingCall(World)
  <2>1. /\ CanCommand
        /\ \/ CanTakeLine(World, Monitor) /\ Become(m)
           \/ CanTakeLine(World, Testing) /\ Become(t)
    BY <1>4 DEF StartMonitoring, StartTesting
  <2>2. CanTakeLine(World, Monitor) => UserCalls(m, World)
    BY <1>1, AskedBeside DEF UserCalls, Commands, CanTakeLine, StartMonitoringCall
  <2>3. CanTakeLine(World, Testing) => UserCalls(t, World)
    BY <1>1, AskedBeside DEF UserCalls, Commands, CanTakeLine, StartTestingCall
  <2> HIDE DEF m, t
  <2> QED
    BY <2>1, <2>2, <2>3
<1>5. CASE StopMonitoring
  <2> DEFINE stop == StopMonitorFor(World, "StopMonitoring")
  <2>1. CanCommand /\ Become(stop) /\ World.app.pending.op = 0
    BY <1>1, <1>5 DEF StopMonitoring, CanStopMonitoring, NoPending
  <2>2. UserCalls(stop, World)
    BY <1>1, <2>1, StopMonitorCalls DEF UserCalls
  <2> QED
    BY <2>1, <2>2
<1>6. CASE StopTesting
  <2>1. CanCommand /\ CanStopTesting(World) /\ Become(StopTestingCall(World))
    BY <1>6 DEF StopTesting
  <2>2. UserCalls(StopTestingCall(World), World)
    BY <1>1, <2>1, AskedBeside DEF UserCalls, Commands, CanStopTesting, StopTestingCall
  <2> QED
    BY <2>1, <2>2
<1>7. CASE Recover
  <2> DEFINE d == [World EXCEPT !.app.state = "Disconnected"]
             close == Asked1(World, "Recover", "WaitingClose", "Stopping",
                             CloseCall(client, op))
  <2>1. CanCommand /\ (Become(d) \/ (CanClose(client) /\ Become(close)))
    BY <1>7 DEF Recover
  <2>2. CanClose(client) => UserCalls(close, World)
    BY <1>1, AskedBeside DEF UserCalls, Commands, Closes
  <2>3. UserCalls(d, World)
    BY StateStill DEF UserCalls
  <2> HIDE DEF d, close
  <2> QED
    BY <2>1, <2>2, <2>3
<1> QED
  BY <1>2, <1>3, <1>4, <1>5, <1>6, <1>7 DEF UserCommand
=============================================================================
