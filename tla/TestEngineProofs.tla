--------------------------- MODULE TestEngineProofs ---------------------------
(***************************************************************************)
(* Proofs about TestEngine: a run always waits for something that is still *)
(* to come, a case puts back the register it wrote or says that it did     *)
(* not, the line is given back, and nothing is sent that an abort, a spent *)
(* budget, the number of retries or of steps forbids, and no restore a     *)
(* second time, for every set of suites, every number of steps, retries    *)
(* and faults.                                                             *)
(*                                                                         *)
(* The services of the application are those of AppMonitorProofs, whose    *)
(* invariant holds of them in every state of this system as well.          *)
(***************************************************************************)
EXTENDS TestEngine, AppMonitorProofs

LabWorld(w) ==
  /\ DOMAIN w = {"host", "engine", "auto"}
  /\ DOMAIN w.engine = DOMAIN NewEngine(<<>>) /\ DOMAIN w.auto = DOMAIN NoRun

\* A transition of the client's owner has been asked for.
MovesAreAsked(c) == c.inTransition => \E op \in OpIds : c.asks[op].kind \in TransitionKind

\* The line is Testing's only while the application shows it, or gives it back.
LineLent(h) ==
  /\ h.client.owner = Testing =>
       \/ h.app.state = "Testing" /\ h.app.pending = NoPending
       \/ h.app.pending.stage = "WaitingReleaseTesting"
  /\ \A op \in OpIds :
       h.client.asks[op].target = Testing =>
         h.app.pending.op = op /\ h.app.pending.stage = "WaitingAcquireTesting"

\* The services are in step; x says that a fault has overtaken an operation.
HostFits(h, x) ==
  /\ Fine(h) /\ MovesAreAsked(h.client)
  /\ ~x => InStep(h) /\ LineLent(h)

Busy == {"Running", "Aborting"}
Values == {Factory, Wanted}

\* The application during a case: it has the line, or a fault has taken it away.
HostServes(h) ==
  /\ h.app.pending = NoPending /\ h.app.state \in {"Testing", "Error"}
  /\ FreeOp(h.client) # {}

\* A case waits for its request, or for a pause to end.
CaseWaits(w) ==
  \/ w.engine.request \in Open(w.host.client) /\ ~w.engine.delay /\ w.engine.step \in Step
  \/ /\ w.engine.delay /\ w.engine.state = "Running"
     /\ w.engine.step = "None" /\ w.engine.request = 0
     /\ Kind(w) \notin {"WriteAndVerify", "Single"}

\* The register is as the case found it, or the case knows what it found.
CaseKeeps(w) ==
  IF Kind(w) # "WriteAndVerify"
    THEN w.engine.register = w.engine.before
         /\ w.engine.step \in {"None", FirstStep(Kind(w))}
  ELSE IF w.engine.step = "ReadBefore"
    THEN w.engine.register = w.engine.before /\ w.engine.original = "None"
  ELSE /\ w.engine.step \in {"Write", "Verify", "Restore"}
       /\ w.engine.original = w.engine.before /\ w.engine.accepted

\* The steps a case has begun when it is at this one.
Quota(w, step) ==
  CASE Kind(w) = "WriteAndVerify" ->
         CASE step = "ReadBefore" -> 1 [] step = "Write" -> 2 [] OTHER -> 3
    [] Kind(w) \in {"Single", "Stability"} -> 1
    [] OTHER -> w.engine.position

\* A case has begun no more steps than it has come to, and restores in the last only.
CaseCounts(w) ==
  /\ w.engine.restores = IF w.engine.step = "Restore" THEN 1 ELSE 0
  /\ w.engine.taken <= Quota(w, w.engine.step)
  /\ w.engine.delay => w.engine.taken + 1 <= Quota(w, w.engine.step)

EngineKept(e) ==
  /\ e.attempts \in Nat /\ e.tries = e.attempts /\ e.tries <= MaxRetries + 1
  /\ e.taken \in Nat /\ e.restores \in {0, 1} /\ e.position \in 1..Steps
  /\ ~e.silent /\ ~e.overdue
  /\ e.register \in Values /\ e.before \in Values

EngineFits(w) ==
  /\ EngineKept(w.engine)
  /\ w.engine.state \in Busy =>
       HostServes(w.host) /\ CaseWaits(w) /\ CaseKeeps(w) /\ CaseCounts(w)
  /\ w.engine.state \notin Busy => w.engine.request = 0 /\ ~w.engine.delay
  /\ w.engine.state \in Busy \cup {"Idle", "Releasing"}
  /\ w.engine.state = "Releasing" => w.host.app.pending.command = "StopTesting"

\* Testing has the line for a run.
LineWanted(w, x) ==
  ~x /\ w.host.app.state = "Testing" /\ w.host.app.pending = NoPending => w.engine.state \in Busy

Waiting == {"StoppingMonitoring", "AcquiringTesting", "ResumingMonitoring"}

AutoFits(w, x) ==
  /\ w.auto.state = "Running" <=> w.engine.state # "Idle"
  /\ w.auto.state \in Waiting <=> w.auto.action # "None"
  /\ w.auto.action # "None" =>
       \/ w.host.app.pending.command = CommandOf(w.auto.action)
       \/ w.auto.action = "StopMonitoring" /\ x
  /\ w.host.app.pending.stage = "WaitingAcquireTesting" => w.auto.action = "StartTesting"

LabFits(w, x) ==
  /\ LabWorld(w) /\ HostFits(w.host, x) /\ EngineFits(w) /\ LineWanted(w, x) /\ AutoFits(w, x)

LInv ==
  LabFits(Lab, crossed) /\ faults \in 0..MaxFaults /\ crossed \in BOOLEAN

-----------------------------------------------------------------------------
(***************************************************************************)
(* What the slots leave of the application's command.                      *)
(***************************************************************************)
Broken(a) == a.pending = NoPending /\ a.state = "Error"

\* The application after a slot of the monitor or of the connection.
AppFollows(a, b) ==
  \/ a = b
  \/ Broken(a)
  \/ /\ b.pending.stage = "WaitingMonitorStop" /\ a.pending.stage = "WaitingReleaseMonitor"
     /\ a.state = b.state /\ a.pending.command = b.pending.command

LEMMA AppFollowsOn ==
  ASSUME NEW a, NEW b, NEW c, AppFollows(b, c), AppFollows(a, b)
  PROVE  AppFollows(a, c)
BY DEF AppFollows, Broken, NoPending

LEMMA EndBreaks ==
  ASSUME NEW w, Hosts(w)
  PROVE  Broken(EnterError(w).app)
BY DEF EnterError, EndCommand, Hosts, Broken

LEMMA MonitorErrorFollows ==
  ASSUME NEW w, Hosts(w)
  PROVE  /\ AbortIdle(w).app = w.app /\ Halted(w).app = w.app
         /\ AppFollows(HandleMonitorError(w).app, w.app)
<1> DEFINE m3 == [[[w.mon EXCEPT !.running = FALSE] EXCEPT !.stopping = FALSE]
                    EXCEPT !.task = FALSE]
           m4 == [m3 EXCEPT !.health = "Offline"]
<1>1. AbortIdle(w) = [w EXCEPT !.mon = m4] /\ Halted(w) = [w EXCEPT !.mon = m3]
  BY DEF AbortIdle, Halted, Hosts
<1> HIDE DEF m3, m4
<1>2. Hosts(AbortIdle(w)) /\ AbortIdle(w).app = w.app /\ Halted(w).app = w.app
  BY <1>1 DEF Hosts
<1> QED
  BY <1>2, EndBreaks DEF HandleMonitorError, AppFollows

LEMMA BatchEndsFollows ==
  ASSUME NEW w, Hosts(w), NEW fatal
  PROVE  /\ EndBatch(w).app = w.app
         /\ AppFollows(FinalizeFailedBatch(w, fatal).app, w.app)
         /\ AppFollows(FinalizeSuccessfulBatch(w).app, w.app)
<1>1. \A u : Hosts(u) => EndBatch(u).app = u.app
  <2> SUFFICES ASSUME NEW u, Hosts(u) PROVE EndBatch(u).app = u.app
    OBVIOUS
  <2>1. EndBatch(u) =
          [u EXCEPT !.mon = [[u.mon EXCEPT !.batch = NoBatch] EXCEPT !.active = FALSE]]
    BY DEF EndBatch, Hosts
  <2> QED
    BY <2>1 DEF Hosts
<1>2. \A u : Hosts(u) => ScheduleAfterCompletedBatch(u).app = u.app
  <2> SUFFICES ASSUME NEW u, Hosts(u) PROVE ScheduleAfterCompletedBatch(u).app = u.app
    OBVIOUS
  <2>1. [u EXCEPT !.mon.task = TRUE] = [u EXCEPT !.mon = [u.mon EXCEPT !.task = TRUE]]
    BY DEF Hosts
  <2> QED
    BY <2>1 DEF ScheduleAfterCompletedBatch, Hosts
<1> DEFINE counted == [EndBatch(w) EXCEPT
                         !.mon.failures = IF @ < FailureLimit THEN @ + 1 ELSE @]
           shown == [counted EXCEPT
                       !.mon.health = IF counted.mon.failures >= FailureLimit
                                        THEN "Offline" ELSE "Degraded"]
           r == IF fatal THEN HandleMonitorError(shown) ELSE shown
           good == [[EndBatch(w) EXCEPT !.mon.failures = 0] EXCEPT !.mon.health = "Online"]
<1>3. Hosts(EndBatch(w)) /\ EndBatch(w).app = w.app
  BY <1>1, BatchEndsStill, StillHosts
<1>4. Hosts(counted) /\ counted.app = w.app
  <2> DEFINE e == EndBatch(w)
             m == [e.mon EXCEPT !.failures = IF @ < FailureLimit THEN @ + 1 ELSE @]
  <2>1. counted = [e EXCEPT !.mon = m]
    BY <1>3 DEF Hosts
  <2> HIDE DEF m, e, counted
  <2> QED
    BY <1>3, <2>1 DEF Hosts, e
<1> HIDE DEF counted
<1>5. Hosts(shown) /\ shown.app = w.app
  <2> DEFINE h == IF counted.mon.failures >= FailureLimit THEN "Offline" ELSE "Degraded"
             m == [counted.mon EXCEPT !.health = h]
  <2>1. shown = [counted EXCEPT !.mon = m]
    BY <1>4 DEF Hosts
  <2> HIDE DEF m, shown
  <2> QED
    BY <1>4, <2>1 DEF Hosts
<1> HIDE DEF shown
<1>6. Hosts(r) /\ AppFollows(r.app, w.app)
  BY <1>5, MonitorErrorFollows, MonitorErrorStill, StillHosts DEF AppFollows
<1>7. FinalizeFailedBatch(w, fatal) = ScheduleAfterCompletedBatch(r)
  BY DEF FinalizeFailedBatch, shown, counted
<1> HIDE DEF r
<1>8. Hosts(good) /\ good.app = w.app
  <2> DEFINE e == EndBatch(w)
             m == [[e.mon EXCEPT !.failures = 0] EXCEPT !.health = "Online"]
  <2>1. good = [e EXCEPT !.mon = m]
    BY <1>3 DEF Hosts
  <2> HIDE DEF m, e, good
  <2> QED
    BY <1>3, <2>1 DEF Hosts, e
<1>9. FinalizeSuccessfulBatch(w) = ScheduleAfterCompletedBatch(good)
  BY DEF FinalizeSuccessfulBatch
<1> HIDE DEF good
<1> QED
  BY <1>2, <1>3, <1>6, <1>7, <1>8, <1>9 DEF AppFollows

LEMMA AbortFollows ==
  ASSUME NEW w, Hosts(w)
  PROVE  AppFollows(AbortBackend(w).app, w.app)
<1> DEFINE h == Halted(w)
           f == FinalizeFailedBatch(h, TRUE)
           m3 == [[[w.mon EXCEPT !.running = FALSE] EXCEPT !.stopping = FALSE]
                    EXCEPT !.task = FALSE]
<1>1. h = [w EXCEPT !.mon = m3]
  BY DEF Halted, Hosts
<1> HIDE DEF m3, h, f
<1>2. Hosts(h) /\ h.app = w.app
  BY <1>1 DEF Hosts
<1>3. AppFollows(f.app, w.app) /\ Hosts(f)
  BY <1>2, BatchEndsFollows, BatchEndsStill, StillHosts DEF f
<1>4. [f EXCEPT !.mon.health = "Offline"].app = f.app
  BY <1>3 DEF Hosts
<1> QED
  BY <1>3, <1>4, MonitorErrorFollows DEF AbortBackend, AppFollows, f, h

LEMMA ReleaseFollows ==
  ASSUME NEW w, Hosts(w), NEW stage
  PROVE  LET v == ReleaseOwner(w, stage, Monitor)
         IN \/ Broken(v.app)
            \/ /\ v.app.pending.stage = stage /\ v.app.state = w.app.state
               /\ v.app.pending.command = w.app.pending.command
BY EndBreaks DEF ReleaseOwner, Await, Hosts

LEMMA FinishStopFollows ==
  ASSUME NEW w, Hosts(w)
  PROVE  AppFollows(FinishStop(w).app, w.app)
<1> DEFINE m == [[w.mon EXCEPT !.stopping = FALSE] EXCEPT !.health = "Unknown"]
           u == [w EXCEPT !.mon = m]
<1>1. FinishStop(w) = HandleMonitorStopped(u)
  BY DEF FinishStop, Hosts
<1> HIDE DEF m
<1>2. Hosts(u) /\ u.app = w.app
  BY DEF Hosts
<1> HIDE DEF u
<1> QED
  BY <1>1, <1>2, ReleaseFollows DEF HandleMonitorStopped, AppFollows

LEMMA NextBlockFollows ==
  ASSUME NEW w, Hosts(w)
  PROVE  AppFollows(SubmitNextBlock(w).app, w.app)
<1> DEFINE id == NextId(w.client)
           b == [w.mon.batch EXCEPT !.request = id]
           m == [w.mon EXCEPT !.batch = b]
           d == SubmitCall(w.client, id)
           v == SubmitNextBlock(w)
<1>1. CASE CanSubmit(w.client) /\ w.client.owner = Monitor
  <2>1. v = [[w EXCEPT !.client = d] EXCEPT !.mon = m]
    BY <1>1 DEF SubmitNextBlock, Hosts
  <2> HIDE DEF m, d, v
  <2> QED
    BY <2>1 DEF Hosts, AppFollows, v
<1>2. CASE ~(CanSubmit(w.client) /\ w.client.owner = Monitor)
  BY <1>2, BatchEndsFollows DEF SubmitNextBlock
<1> QED
  BY <1>1, <1>2

LEMMA BeginBatchFollows ==
  ASSUME NEW w, Hosts(w)
  PROVE  AppFollows(BeginBatch(w).app, w.app)
<1> DEFINE m1 == [w.mon EXCEPT !.task = FALSE]
           m2 == [m1 EXCEPT !.active = TRUE]
           due == [w EXCEPT !.mon.task = FALSE]
           begun == [due EXCEPT !.mon.active = TRUE]
           e == HandleMonitorError(due)
<1>1. due = [w EXCEPT !.mon = m1] /\ begun = [w EXCEPT !.mon = m2]
  BY DEF Hosts
<1>2. BeginBatch(w) =
        IF w.mon.active THEN due
        ELSE IF w.client.state = "Connected" /\ w.client.owner = Monitor
               THEN SubmitNextBlock(begun) ELSE AbortBackend(e)
  BY DEF BeginBatch
<1> HIDE DEF m1, m2, due, begun, e
<1>3. Hosts(due) /\ Hosts(begun) /\ due.app = w.app /\ begun.app = w.app
  BY <1>1 DEF Hosts
<1>4. AppFollows(AbortBackend(e).app, w.app)
  BY <1>3, MonitorErrorFollows, MonitorErrorStill, StillHosts, AbortFollows, AppFollowsOn DEF e
<1> QED
  BY <1>2, <1>3, <1>4, NextBlockFollows DEF AppFollows

LEMMA BlockFollows ==
  ASSUME NEW w, Hosts(w), NEW id, NEW reading \in BOOLEAN, NEW decodes \in BOOLEAN
  PROVE  AppFollows(HandleRequestCompleted(w, id, reading, decodes).app, w.app)
<1> DEFINE m1 == [w.mon EXCEPT !.batch = [w.mon.batch EXCEPT !.request = 0]]
           got == [w EXCEPT !.mon.batch.request = 0]
           m2 == [got.mon EXCEPT !.batch = [got.mon.batch EXCEPT !.index = @ + 1]]
           read == [got EXCEPT !.mon.batch.index = @ + 1]
<1>1. got = [w EXCEPT !.mon = m1]
  BY DEF Hosts
<1>2. HandleBlock(w, reading, decodes) =
        CASE w.mon.stopping -> FinishStop(EndBatch(got))
          [] ~w.mon.stopping /\ ~w.mon.running -> got
          [] OTHER ->
               CASE ~reading                 -> FinalizeFailedBatch(got, FALSE)
                 [] reading /\ read.mon.batch.index < Blocks -> SubmitNextBlock(read)
                 [] OTHER -> IF decodes THEN FinalizeSuccessfulBatch(read)
                                        ELSE FinalizeFailedBatch(read, FALSE)
  BY DEF HandleBlock
<1> HIDE DEF m1, got
<1>3. Hosts(got) /\ got.app = w.app
  BY <1>1 DEF Hosts
<1>4. read = [got EXCEPT !.mon = m2]
  BY <1>3 DEF Hosts
<1> HIDE DEF m2, read
<1>5. Hosts(read) /\ read.app = w.app
  BY <1>3, <1>4 DEF Hosts
<1>6. AppFollows(FinishStop(EndBatch(got)).app, w.app)
  BY <1>3, BatchEndsFollows, BatchEndsStill, StillHosts, FinishStopFollows
<1>7. /\ AppFollows(FinalizeFailedBatch(got, FALSE).app, w.app)
      /\ AppFollows(FinalizeFailedBatch(read, FALSE).app, w.app)
      /\ AppFollows(FinalizeSuccessfulBatch(read).app, w.app)
      /\ AppFollows(SubmitNextBlock(read).app, w.app)
  BY <1>3, <1>5, BatchEndsFollows, NextBlockFollows
<1> QED
  BY <1>2, <1>3, <1>6, <1>7 DEF HandleRequestCompleted, AppFollows

LEMMA TurnFollows ==
  ASSUME NEW w, Hosts(w), NEW s
  PROVE  AppFollows(HandleConnectionStateChanged(w, s).app, w.app)
<1>1. HandleConnectionStateChanged(w, s) \in {w, EnterError(w), EnterError(AbortBackend(w))}
  BY DEF HandleConnectionStateChanged
<1>2. Hosts(AbortBackend(w))
  BY AbortStill, StillHosts
<1> QED
  BY <1>1, <1>2, EndBreaks DEF AppFollows

-----------------------------------------------------------------------------
(***************************************************************************)
(* The services, kept in step by what the engine and the automation call.  *)
(***************************************************************************)
\* Nothing has lent the line to Testing, and nothing is about to.
Unlent(c) == c.owner # Testing /\ \A op \in OpIds : c.asks[op].target # Testing

SameMoves(d, c) == d.owner = c.owner /\ d.asks = c.asks /\ d.inTransition = c.inTransition

LEMMA WorldHosts ==
  ASSUME NEW h \in Worlds
  PROVE  Hosts(h) /\ DOMAIN h = {"client", "app", "mon"} /\ h.client \in Client /\ h.app \in App
         /\ h.app.pending \in PendingCommand \cup {NoPending}
BY DEF Worlds, Hosts, App, PendingCommand, NoPending

LEMMA UnlentIsLent ==
  ASSUME NEW h, Unlent(h.client)
  PROVE  LineLent(h)
BY DEF Unlent, LineLent

LEMMA LentIsUnlent ==
  ASSUME NEW h, LineLent(h), h.app.state # "Testing" \/ h.app.pending # NoPending,
         h.app.pending.stage \notin {"WaitingReleaseTesting", "WaitingAcquireTesting"}
  PROVE  Unlent(h.client)
BY DEF Unlent, LineLent

LEMMA SameFits ==
  ASSUME NEW h, NEW x, HostFits(h, x), NEW v, Fine(v), InStep(h) => InStep(v), v.app = h.app,
         SameMoves(v.client, h.client)
  PROVE  HostFits(v, x)
BY DEF HostFits, MovesAreAsked, LineLent, SameMoves

LEMMA RequestCallsFit ==
  ASSUME NEW h, NEW x, HostFits(h, x), NEW id \in Ids, NEW d,
         \/ d = SubmitCall(h.client, id)
         \/ d = CancelCall(h.client, id)
         \/ d = Started(h.client, id) /\ id \in Open(h.client)
  PROVE  HostFits([h EXCEPT !.client = d], x)
<1> DEFINE v == [h EXCEPT !.client = d]
<1>1. h \in Worlds /\ h.client \in Client /\ MonitorWorks(h.mon, h.client)
  BY WorldHosts DEF HostFits, Fine
<1>2. d \in Client /\ Open(h.client) \subseteq Open(d)
  BY <1>1, RequestsKeep
<1>3. d.asks = h.client.asks /\ d.state = h.client.state /\ d.owner = h.client.owner
      /\ d.overtaken = h.client.overtaken /\ d.inTransition = h.client.inTransition
  BY <1>1 DEF Client, SubmitCall, CancelCall, Started
<1>4. v \in Worlds /\ v.app = h.app /\ v.mon = h.mon /\ v.client = d
  BY <1>1, <1>2 DEF Worlds
<1> HIDE DEF v
<1>5. MonitorWorks(v.mon, v.client)
  BY <1>1, <1>2, <1>4 DEF MonitorWorks
<1>6. SameOperations(v.client, h.client) /\ SameMoves(v.client, h.client)
  BY <1>2, <1>3, <1>4 DEF SameOperations, SameMoves
<1>7. Fine(v) /\ (InStep(h) => InStep(v))
  BY <1>1, <1>4, <1>5, <1>6, MonitorMoves DEF HostFits
<1> QED
  BY <1>4, <1>6, <1>7, SameFits DEF v

\* A command that begins with an operation of the client.
LEMMA AskFits ==
  ASSUME NEW h, NEW x, HostFits(h, x), h.app.pending = NoPending, h.app.state # "Monitoring",
         FreeOp(h.client) # {},
         NEW command \in AppCommand, NEW stage \in Stage \ {"WaitingMonitorStop"},
         NEW state \in AppState \ {"Monitoring"}, NEW ask,
         Asks(ask, h.client, NextOp(h.client), StageKind(stage)),
         stage \in Transitions => ask.state = "Connected",
         ask.inTransition => StageKind(stage) \in TransitionKind \/ h.client.inTransition,
         ~x /\ ask.owner = Testing => stage = "WaitingReleaseTesting",
         ask.asks[NextOp(h.client)].target = Testing => stage = "WaitingAcquireTesting"
  PROVE  HostFits(Asked1(h, command, stage, state, ask), x)
<1> DEFINE v == Asked1(h, command, stage, state, ask)
           op == NextOp(h.client)
           p == [command |-> command, stage |-> stage, op |-> op]
<1>1. h \in Worlds /\ op \in OpIds /\ h.client.asks[op].kind = "None"
  BY NextOpIsFree DEF HostFits, Fine
<1>2. v.client = ask /\ v.app.state = state /\ v.app.pending = p
  <2> DEFINE b == Begun(h, command, stage, op)
             a == [b.app EXCEPT !.state = state]
  <2>1. b = [h EXCEPT !.app = [h.app EXCEPT !.pending = p]]
    BY <1>1 DEF Begun, Worlds
  <2>2. v = [b EXCEPT !.client = ask, !.app.state = state]
    BY DEF Asked1
  <2> HIDE DEF b, p, v
  <2>3. v = [[b EXCEPT !.client = ask] EXCEPT !.app = a]
    BY <1>1, <2>1, <2>2 DEF Worlds
  <2>4. a.state = state /\ a.pending = p
    BY <1>1, <2>1 DEF Worlds, App
  <2> HIDE DEF a
  <2> QED
    BY <1>1, <2>1, <2>3, <2>4 DEF Worlds
<1>3. Fine(v) /\ (InStep(h) => InStep(v))
  BY CommandFine DEF HostFits
<1> HIDE DEF op, v
<1>4. MovesAreAsked(ask)
  <2>1. ASSUME NEW other \in OpIds, h.client.asks[other].kind \in TransitionKind
        PROVE  ask.asks[other].kind \in TransitionKind
    BY <1>1, <2>1 DEF Asks, op, TransitionKind
  <2> QED
    BY <1>1, <2>1 DEF MovesAreAsked, HostFits, Asks, op
<1>5. ASSUME ~x PROVE LineLent(v)
  <2>1. ASSUME NEW other \in OpIds, ask.asks[other].target = Testing PROVE other = op
    <3>1. LineLent(h) /\ h.app.pending.op = 0 /\ 0 \notin OpIds
      BY <1>5, NotPending DEF HostFits, NoPending
    <3> QED
      BY <2>1, <3>1 DEF LineLent, Asks, op
  <2> QED
    BY <1>2, <1>5, <2>1 DEF LineLent, op
<1> QED
  BY <1>2, <1>3, <1>4, <1>5 DEF HostFits, op, v

LEMMA TransitionCallsFit ==
  ASSUME NEW h, NEW x, HostFits(h, x), h.app.pending = NoPending, h.app.state # "Monitoring",
         FreeOp(h.client) # {}
  PROVE  /\ CanTakeLine(h, Monitor) => HostFits(StartMonitoringCall(h), x)
         /\ CanTakeLine(h, Testing) => HostFits(StartTestingCall(h), x)
         /\ CanRelease(h.client, Testing) =>
              /\ HostFits(StopTestingCall(h), x)
              /\ HostFits(Asked1(h, "Disconnect", "WaitingReleaseTesting", "Stopping",
                                 ReleaseCall(h.client, NextOp(h.client), Testing)), x)
<1> DEFINE c == h.client
           op == NextOp(c)
<1>1. h \in Worlds /\ c \in Client /\ op \in OpIds /\ h.app.state \in AppState
  BY WorldHosts, NextOpIsFree DEF HostFits, Fine, App
<1>2. \A kind \in TransitionKind, o \in OwnerOrNone :
        LET ask == MoveCall(c, op, kind, o)
        IN /\ Asks(ask, c, op, kind) /\ ask.state = c.state
           /\ ask.owner = c.owner /\ ask.asks[op].target = o
  <2> SUFFICES ASSUME NEW kind \in TransitionKind, NEW o \in OwnerOrNone
               PROVE  LET ask == MoveCall(c, op, kind, o)
                      IN /\ Asks(ask, c, op, kind) /\ ask.state = c.state
                         /\ ask.owner = c.owner /\ ask.asks[op].target = o
    OBVIOUS
  <2> DEFINE asking == Asking(c, op, kind, o)
             asks == [c.asks EXCEPT ![op] = [kind |-> kind, target |-> o]]
  <2>1. asking = [c EXCEPT !.asks = asks] /\ asks[op].target = o
    BY <1>1 DEF Asking, Client
  <2> HIDE DEF asks
  <2>2. asking.owner = c.owner /\ asking.asks[op].target = o /\ DOMAIN asking = DOMAIN c
    BY <1>1, <2>1 DEF Client
  <2> HIDE DEF asking
  <2>3. LET ask == MoveCall(c, op, kind, o)
        IN ask.owner = c.owner /\ ask.asks[op].target = o
    BY <1>1, <2>2 DEF MoveCall, Client, asking
  <2> QED
    BY <1>1, <2>3, MoveAsks
<1>3. /\ Monitor \in OwnerOrNone /\ Testing \in OwnerOrNone /\ NoOwner \in OwnerOrNone
      /\ NoOwner # Testing /\ NoOwner # Monitor /\ Monitor # Testing
  BY AppAssumption, ContractAssumption DEF OwnerOrNone
<1>4. /\ "AcquireOwnership" \in TransitionKind /\ "ReleaseOwnership" \in TransitionKind
      /\ StageKind("WaitingAcquireMonitor") = "AcquireOwnership"
      /\ StageKind("WaitingAcquireTesting") = "AcquireOwnership"
      /\ StageKind("WaitingReleaseTesting") = "ReleaseOwnership"
  BY DEF TransitionKind, StageKind
<1>5. /\ {"StartMonitoring", "StartTesting", "StopTesting", "Disconnect"} \subseteq AppCommand
      /\ {"WaitingAcquireMonitor", "WaitingAcquireTesting", "WaitingReleaseTesting"} \subseteq
           Stage \ {"WaitingMonitorStop"}
      /\ "Stopping" \in AppState \ {"Monitoring"}
  BY DEF AppCommand, Stage, AppState
<1> HIDE DEF op
<1>6. ASSUME CanTakeLine(h, Monitor) PROVE HostFits(StartMonitoringCall(h), x)
  <2>1. c.state = "Connected" /\ c.owner = NoOwner
    BY <1>6 DEF CanTakeLine
  <2> DEFINE ask == MoveCall(c, op, "AcquireOwnership", Monitor)
  <2>2. /\ Asks(ask, c, op, "AcquireOwnership") /\ ask.state = c.state
        /\ ask.owner = c.owner /\ ask.asks[op].target = Monitor
    BY <1>2, <1>3, <1>4
  <2>3. StartMonitoringCall(h) = Asked1(h, "StartMonitoring", "WaitingAcquireMonitor", h.app.state, ask)
    BY DEF StartMonitoringCall, AcquireCall, op
  <2> HIDE DEF ask
  <2>4. h.app.state \in AppState \ {"Monitoring"}
    BY <1>1
  <2> QED
    BY <1>1, <1>3, <1>4, <1>5, <2>1, <2>2, <2>3, <2>4, AskFits DEF op
<1>7. ASSUME CanTakeLine(h, Testing) PROVE HostFits(StartTestingCall(h), x)
  <2>1. c.state = "Connected" /\ c.owner = NoOwner
    BY <1>7 DEF CanTakeLine
  <2> DEFINE ask == MoveCall(c, op, "AcquireOwnership", Testing)
  <2>2. /\ Asks(ask, c, op, "AcquireOwnership") /\ ask.state = c.state
        /\ ask.owner = c.owner /\ ask.asks[op].target = Testing
    BY <1>2, <1>3, <1>4
  <2>3. StartTestingCall(h) = Asked1(h, "StartTesting", "WaitingAcquireTesting", h.app.state, ask)
    BY DEF StartTestingCall, AcquireCall, op
  <2> HIDE DEF ask
  <2>4. h.app.state \in AppState \ {"Monitoring"}
    BY <1>1
  <2> QED
    BY <1>1, <1>3, <1>4, <1>5, <2>1, <2>2, <2>3, <2>4, AskFits DEF op
<1>8. ASSUME CanRelease(c, Testing)
      PROVE  /\ HostFits(StopTestingCall(h), x)
             /\ HostFits(Asked1(h, "Disconnect", "WaitingReleaseTesting", "Stopping",
                                ReleaseCall(c, op, Testing)), x)
  <2>1. c.state = "Connected"
    BY <1>8 DEF CanRelease, CanMove
  <2> DEFINE ask == MoveCall(c, op, "ReleaseOwnership", NoOwner)
  <2>2. /\ Asks(ask, c, op, "ReleaseOwnership") /\ ask.state = c.state
        /\ ask.owner = c.owner /\ ask.asks[op].target = NoOwner
    BY <1>2, <1>3, <1>4
  <2>3. /\ StopTestingCall(h)
             = Asked1(h, "StopTesting", "WaitingReleaseTesting", "Stopping", ask)
        /\ ReleaseCall(c, op, Testing) = ask
    BY DEF StopTestingCall, ReleaseCall, op
  <2> HIDE DEF ask
  <2>4. \A command \in {"StopTesting", "Disconnect"} :
          HostFits(Asked1(h, command, "WaitingReleaseTesting", "Stopping", ask), x)
    BY <1>1, <1>3, <1>4, <1>5, <2>1, <2>2, AskFits DEF op
  <2> QED
    BY <2>3, <2>4
<1> QED
  BY <1>6, <1>7, <1>8 DEF op

LEMMA AskedApp ==
  ASSUME NEW h \in Worlds, NEW command, NEW stage, NEW state, NEW ask
  PROVE  Asked1(h, command, stage, state, ask).app =
           [state |-> state, pending |->
              [command |-> command, stage |-> stage, op |-> NextOp(h.client)]]
<1> DEFINE p == [command |-> command, stage |-> stage, op |-> NextOp(h.client)]
           b == Begun(h, command, stage, NextOp(h.client))
           a == [b.app EXCEPT !.state = state]
           v == Asked1(h, command, stage, state, ask)
<1>1. b = [h EXCEPT !.app = [h.app EXCEPT !.pending = p]]
  BY DEF Begun, Worlds
<1>2. v = [b EXCEPT !.client = ask, !.app.state = state]
  BY DEF Asked1
<1> HIDE DEF b, p, v
<1>3. v = [[b EXCEPT !.client = ask] EXCEPT !.app = a]
  BY <1>1, <1>2 DEF Worlds
<1>4. v.app = [state |-> state, pending |-> p]
  BY <1>1, <1>3 DEF Worlds, App
<1> QED
  BY <1>4 DEF v, p

LEMMA CommandApp ==
  ASSUME NEW h \in Worlds
  PROVE  LET monitoring == StartMonitoringCall(h).app
             testing == StartTestingCall(h).app
             stopping == StopTestingCall(h).app
         IN /\ monitoring.state = h.app.state /\ monitoring.pending # NoPending
            /\ monitoring.pending.command = "StartMonitoring"
            /\ monitoring.pending.stage = "WaitingAcquireMonitor"
            /\ testing.state = h.app.state /\ testing.pending # NoPending
            /\ testing.pending.command = "StartTesting"
            /\ testing.pending.stage = "WaitingAcquireTesting"
            /\ stopping.state = "Stopping" /\ stopping.pending # NoPending
            /\ stopping.pending.command = "StopTesting"
            /\ stopping.pending.stage = "WaitingReleaseTesting"
<1>1. \A command, stage, state, ask :
        Asked1(h, command, stage, state, ask).app =
          [state |-> state, pending |->
             [command |-> command, stage |-> stage, op |-> NextOp(h.client)]]
  BY AskedApp
<1>2. ASSUME NEW command, command # "None", NEW stage, NEW state, NEW ask
      PROVE  LET a == Asked1(h, command, stage, state, ask).app
             IN /\ a.state = state /\ a.pending # NoPending
                /\ a.pending.command = command /\ a.pending.stage = stage
  <2> DEFINE a == Asked1(h, command, stage, state, ask).app
  <2>1. a = [state |-> state, pending |->
               [command |-> command, stage |-> stage, op |-> NextOp(h.client)]]
    BY <1>1
  <2> HIDE DEF a
  <2>2. a.state = state /\ a.pending.command = command /\ a.pending.stage = stage
    BY <2>1
  <2> QED
    BY <1>2, <2>2 DEF NoPending, a
<1> QED
  BY <1>2 DEF StartMonitoringCall, StartTestingCall, StopTestingCall

LEMMA CallsFit ==
  ASSUME NEW h, NEW x, HostFits(h, x), ~x => Unlent(h.client),
         NEW w, w.client \in Client, MovesAreAsked(w.client), Unlent(h.client) => Unlent(w.client),
         NEW v, Fine(v), InStep(h) => InStep(v),
         \/ Still(v, w) \/ Submits(v, w) \/ Revokes(v, w) \/ Closes(v, w)
         \/ Releases(v, w) /\ FreeOp(w.client) # {}
  PROVE  HostFits(v, x)
<1> DEFINE op == NextOp(w.client)
<1>1. NoOwner # Testing /\ NoOwner \in OwnerOrNone
  BY AppAssumption, ContractAssumption DEF OwnerOrNone
<1>2. MovesAreAsked(v.client) /\ (Unlent(w.client) => Unlent(v.client))
  <2>1. CASE Still(v, w) \/ Submits(v, w) \/ Revokes(v, w)
    BY <2>1 DEF Still, Submits, Revokes, SubmitCall, CancelCall, Client, MovesAreAsked, Unlent
  <2>2. CASE Closes(v, w)
    <3>1. v.client.asks \in {w.client.asks,
            [w.client.asks EXCEPT ![op] = [kind |-> "Close", target |-> NoOwner]]}
      BY <2>2 DEF Closes, CloseCall, Asking, Client
    <3>2. v.client.inTransition = w.client.inTransition /\ v.client.owner = w.client.owner
      BY <2>2 DEF Closes, CloseCall, Asking, Client
    <3>3. ~v.client.inTransition
      BY <2>2, <3>2 DEF Closes, CanClose
    <3>4. ASSUME NEW other \in OpIds, w.client.asks[other].target # Testing
          PROVE  v.client.asks[other].target # Testing
      BY <1>1, <3>1, <3>4 DEF Client
    <3> QED
      BY <3>2, <3>3, <3>4 DEF MovesAreAsked, Unlent
  <2>3. CASE Releases(v, w) /\ FreeOp(w.client) # {}
    <3> DEFINE ask == ReleaseCall(w.client, op, Monitor)
    <3>1. v.client = ask /\ op \in OpIds
      BY <2>3, NextOpIsFree DEF Releases
    <3>2. ask.asks = [w.client.asks EXCEPT ![op] =
                        [kind |-> "ReleaseOwnership", target |-> NoOwner]]
          /\ ask.owner = w.client.owner
      BY DEF ReleaseCall, MoveCall, Asking, Client
    <3> HIDE DEF ask, op
    <3>3. ask.asks[op].kind \in TransitionKind
      BY <3>1, <3>2 DEF Client, TransitionKind
    <3>4. ASSUME NEW other \in OpIds, w.client.asks[other].target # Testing
          PROVE  ask.asks[other].target # Testing
      BY <1>1, <3>2, <3>4 DEF Client
    <3> QED
      BY <3>1, <3>2, <3>3, <3>4 DEF MovesAreAsked, Unlent
  <2> QED
    BY <2>1, <2>2, <2>3
<1> QED
  BY <1>2, UnlentIsLent DEF HostFits

\* While the monitor works, the line is not lent.
LEMMA MonitorHasLine ==
  ASSUME NEW h, Fine(h), InStep(h), LineLent(h), h.mon.running \/ h.mon.stopping
  PROVE  Unlent(h.client)
<1>1. CASE h.mon.running
  <2>1. h.app.state = "Monitoring" /\ h.app.pending = NoPending
    BY <1>1, RunningIsIdle
  <2> QED
    BY <2>1, LentIsUnlent DEF NoPending
<1>2. CASE h.mon.stopping
  <2>1. h.app.pending.stage = "WaitingMonitorStop" /\ h.app.pending # NoPending
    BY <1>2 DEF Fine, KeepStep, NoPending
  <2> QED
    BY <2>1, LentIsUnlent
<1> QED
  BY <1>1, <1>2

LEMMA BeginBatchFits ==
  ASSUME NEW h, NEW x, HostFits(h, x), h.mon.task, FreeId(h.client) # {}
  PROVE  HostFits(BeginBatch(h), x)
<1>1. h \in Worlds /\ Hosts(h) /\ h.client \in Client /\ h.mon.running
  BY WorldHosts DEF HostFits, Fine, MonitorWorks
<1>2. Fine(BeginBatch(h)) /\ (InStep(h) => InStep(BeginBatch(h)))
  BY BeginBatchFine DEF HostFits
<1>3. Still(BeginBatch(h), h) \/ Submits(BeginBatch(h), h)
  BY <1>1, BeginBatchCalls
<1>4. ~x => Unlent(h.client)
  BY <1>1, MonitorHasLine DEF HostFits
<1> QED
  BY <1>1, <1>2, <1>3, <1>4, CallsFit DEF HostFits

LEMMA CompletedFits ==
  ASSUME NEW h, NEW x, HostFits(h, x), NEW id \in Ids,
         NEW reading \in BOOLEAN, NEW decodes \in BOOLEAN,
         NEW w \in Worlds, w.app = h.app, w.mon = h.mon, w.client = Completed(h.client, id)
  PROVE  LET v == HandleRequestCompleted(w, id, reading, decodes) IN
         /\ HostFits(v, x) /\ AppFollows(v.app, h.app) /\ (~h.mon.active => v = w)
         /\ Open(w.client) = Open(h.client) \ {id} /\ FreeOp(w.client) = FreeOp(h.client)
<1> DEFINE d == Completed(h.client, id)
           v == HandleRequestCompleted(w, id, reading, decodes)
<1>1. h \in Worlds /\ Hosts(h) /\ h.client \in Client
  BY WorldHosts DEF HostFits, Fine
<1>2. /\ d \in Client /\ Open(d) = Open(h.client) \ {id} /\ d.asks = h.client.asks
      /\ SameMoves(d, h.client)
  <2>1. d \in Client /\ Open(d) = Open(h.client) \ {id}
    BY <1>1, RequestsKeep
  <2>2. SameMoves(d, h.client)
    BY <1>1 DEF SameMoves, Completed, Client
  <2> QED
    BY <2>1, <2>2 DEF SameMoves
<1>3. w \in Worlds /\ w.app = h.app /\ w.mon = h.mon /\ w.client = d
  OBVIOUS
<1> HIDE DEF d
<1>4. Fine(v) /\ (InStep(h) => InStep(v))
  <2>1. Fine(h)
    BY DEF HostFits
  <2> QED
    BY <2>1, RequestCompletedFine
<1>5. FreeOp(d) = FreeOp(h.client)
  BY <1>2 DEF FreeOp, Asked
<1>6. AppFollows(v.app, h.app)
  BY <1>3, WorldHosts, BlockFollows
<1>7. ASSUME ~h.mon.active PROVE v = w
  BY <1>3, <1>7 DEF HandleRequestCompleted
<1>8. ASSUME h.mon.active PROVE HostFits(v, x)
  <2>1. h.mon.running \/ h.mon.stopping
    BY <1>8 DEF HostFits, Fine, MonitorWorks
  <2>2. ~x => Unlent(h.client)
    BY <2>1, MonitorHasLine DEF HostFits
  <2>3. MovesAreAsked(d) /\ (Unlent(h.client) => Unlent(d))
    BY <1>2 DEF HostFits, MovesAreAsked, Unlent, SameMoves
  <2>4. CallsOnce(v, w)
    BY <1>3, WorldHosts, BlockCalls
  <2>5. ASSUME Releases(v, w), ~Still(v, w), ~Submits(v, w), ~Revokes(v, w)
        PROVE  FreeOp(d) # {}
    <3>1. h.mon.stopping
      BY <1>3, <2>5, WorldHosts, BlockCalls
    <3>2. h.app.pending # NoPending /\ h.app.pending.stage = "WaitingMonitorStop"
      BY <3>1 DEF HostFits, Fine, KeepStep, NoPending
    <3> QED
      BY <1>5, <3>2 DEF HostFits, Fine, CommandWaits
  <2> QED
    <3>1. \/ Still(v, w) \/ Submits(v, w) \/ Revokes(v, w) \/ Closes(v, w)
          \/ Releases(v, w) /\ FreeOp(w.client) # {}
      BY <1>3, <2>4, <2>5 DEF CallsOnce
    <3>2. w.client \in Client /\ MovesAreAsked(w.client) /\ (Unlent(h.client) => Unlent(w.client))
      BY <1>2, <1>3, <2>3
    <3> QED
      BY <1>4, <2>2, <3>1, <3>2, CallsFit
<1>9. HostFits(v, x)
  <2>1. CASE ~h.mon.active
    BY <1>2, <1>3, <1>4, <1>7, <2>1, SameFits
  <2> QED
    BY <1>8, <2>1
<1> QED
  BY <1>2, <1>3, <1>5, <1>6, <1>7, <1>9

\* The monitor has the line while it runs, so that it can be given back.
LEMMA MonitorCanRelease ==
  ASSUME NEW h, NEW x, HostFits(h, x), ~x, h.app.pending = NoPending, h.app.state = "Monitoring"
  PROVE  CanRelease(h.client, Monitor)
<1>1. Agrees(h.app.state, h.client) /\ InStep(h) /\ h.app.pending.op = 0
  BY DEF HostFits, InStep, NoPending
<1>2. h.client.state = "Connected" /\ h.client.owner = Monitor
  BY <1>1 DEF Agrees
<1>3. \A op \in OpIds : h.client.asks[op].kind \in {"None", "Open"}
  BY <1>1, NotPending DEF InStep
<1>4. ~h.client.inTransition
  BY <1>3 DEF HostFits, MovesAreAsked, TransitionKind
<1> QED
  BY <1>2, <1>4 DEF CanRelease, CanMove

LEMMA TestingCanStop ==
  ASSUME NEW h, NEW x, HostFits(h, x), ~x, h.app.pending = NoPending, h.app.state = "Testing"
  PROVE  CanStopTesting(h)
<1>1. Agrees(h.app.state, h.client) /\ InStep(h) /\ h.app.pending.op = 0
  BY DEF HostFits, InStep, NoPending
<1>2. h.client.state = "Connected" /\ h.client.owner = Testing
  BY <1>1 DEF Agrees
<1>3. \A op \in OpIds : h.client.asks[op].kind \in {"None", "Open"}
  BY <1>1, NotPending DEF InStep
<1>4. ~h.client.inTransition
  BY <1>3 DEF HostFits, MovesAreAsked, TransitionKind
<1> QED
  BY <1>2, <1>4 DEF CanRelease, CanMove, CanStopTesting

\* The command goes on until the monitor's line is given back.
Stops(a, command) ==
  /\ a.pending # NoPending /\ a.pending.command = command /\ a.state = "Stopping"
  /\ a.pending.stage \in {"WaitingMonitorStop", "WaitingReleaseMonitor"}

LEMMA StopMonitorApp ==
  ASSUME NEW h \in Worlds, h.mon.running, ~h.mon.stopping, NEW command \in AppCommand
  PROVE  LET v == StopMonitorFor(h, command)
         IN /\ Stops(v.app, command) \/ Broken(v.app)
            /\ CanRelease(h.client, Monitor) => Stops(v.app, command)
<1> DEFINE p == [command |-> command, stage |-> "WaitingMonitorStop", op |-> 0]
           b == Begun(h, command, "WaitingMonitorStop", 0)
           begun == [b EXCEPT !.app = [b.app EXCEPT !.state = "Stopping"]]
           halted == [Halted(begun) EXCEPT !.mon.stopping = TRUE]
           id == h.mon.batch.request
           e == EndBatch(halted)
           m3 == [[[begun.mon EXCEPT !.running = FALSE] EXCEPT !.stopping = FALSE]
                    EXCEPT !.task = FALSE]
           m4 == [m3 EXCEPT !.stopping = TRUE]
           v == StopMonitorFor(h, command)
<1>1. b = [h EXCEPT !.app = [h.app EXCEPT !.pending = p]]
  BY DEF Begun, Worlds
<1>2. begun.app.pending = p /\ begun.app.state = "Stopping"
      /\ begun.mon = h.mon /\ begun.client = h.client /\ Hosts(begun)
  BY <1>1 DEF Worlds, App, Hosts
<1>3. StopMonitorFor(h, command) = StopMonitor(begun)
  BY DEF StopMonitorFor
<1> HIDE DEF b, begun
<1>4. v = IF id # 0 /\ CanCancel(h.client, id)
            THEN [halted EXCEPT !.client = CancelCall(halted.client, id)]
            ELSE FinishStop(e)
  <2>1. halted.mon.batch = h.mon.batch /\ halted.client = h.client
    <3>1. halted = [begun EXCEPT !.mon = m4]
      BY <1>2 DEF Halted, Hosts
    <3>2. m4.batch = begun.mon.batch
      BY <1>2 DEF Worlds, MonitorState
    <3> HIDE DEF m4
    <3> QED
      BY <1>2, <3>1, <3>2 DEF Hosts
  <2> QED
    BY <1>2, <1>3, <2>1 DEF StopMonitor
<1> HIDE DEF v
<1>5. halted = [begun EXCEPT !.mon = m4]
  BY <1>2 DEF Halted, Hosts
<1> HIDE DEF m3, m4, halted
<1>6. halted.app = begun.app /\ Hosts(halted) /\ halted.client = h.client
  BY <1>2, <1>5 DEF Hosts
<1>7. e.app = begun.app /\ Hosts(e) /\ e.client = h.client
  BY <1>6, BatchEndsStill, BatchEndsFollows, StillHosts DEF Still
<1> HIDE DEF e
<1>8. p # NoPending
  BY DEF NoPending
<1>9. Stops(begun.app, command)
  BY <1>2, <1>8 DEF Stops
<1>10. FinishStop(e) = ReleaseOwner([e EXCEPT !.mon = [[e.mon EXCEPT !.stopping = FALSE]
                                       EXCEPT !.health = "Unknown"]],
                                   "WaitingReleaseMonitor", Monitor)
  <2> DEFINE m == [[e.mon EXCEPT !.stopping = FALSE] EXCEPT !.health = "Unknown"]
  <2>1. FinishStop(e) = HandleMonitorStopped([e EXCEPT !.mon = m])
    BY <1>7 DEF FinishStop, Hosts
  <2>2. [e EXCEPT !.mon = m].app = e.app
    BY <1>7 DEF Hosts
  <2> QED
    BY <1>2, <1>7, <2>1, <2>2 DEF HandleMonitorStopped
<1> DEFINE u == [e EXCEPT !.mon = [[e.mon EXCEPT !.stopping = FALSE]
                                      EXCEPT !.health = "Unknown"]]
<1>11. u.app = begun.app /\ Hosts(u) /\ u.client = h.client
  BY <1>7 DEF Hosts
<1> HIDE DEF u
<1> DEFINE r == ReleaseOwner(u, "WaitingReleaseMonitor", Monitor)
<1>12. Broken(r.app) \/ Stops(r.app, command)
  BY <1>2, <1>11, ReleaseFollows DEF Stops, NoPending
<1>13. ASSUME CanRelease(h.client, Monitor) PROVE Stops(r.app, command)
  <2> DEFINE ask == ReleaseCall(u.client, NextOp(u.client), Monitor)
  <2>1. r = Await(u, "WaitingReleaseMonitor", ask)
    BY <1>11, <1>13 DEF ReleaseOwner
  <2> HIDE DEF ask, r
  <2>2. r.app.pending.stage = "WaitingReleaseMonitor" /\ r.app.state = u.app.state
        /\ r.app.pending.command = u.app.pending.command
    BY <1>11, <2>1 DEF Await, Hosts
  <2> QED
    BY <1>2, <1>11, <2>2 DEF Stops, NoPending, r
<1>14. [halted EXCEPT !.client = CancelCall(halted.client, id)].app = halted.app
  BY <1>6 DEF Hosts
<1> QED
  BY <1>4, <1>6, <1>9, <1>10, <1>12, <1>13, <1>14 DEF u, v

LEMMA StopMonitorFits ==
  ASSUME NEW h, NEW x, HostFits(h, x), h.app.pending = NoPending, h.app.state = "Monitoring",
         FreeOp(h.client) # {}, NEW command \in AppCommand
  PROVE  LET v == StopMonitorFor(h, command)
         IN /\ HostFits(v, x) /\ (Stops(v.app, command) \/ Broken(v.app))
            /\ ~x => Stops(v.app, command)
<1> DEFINE v == StopMonitorFor(h, command)
<1>1. /\ h \in Worlds /\ h.mon.running /\ ~h.mon.stopping /\ Hosts(h) /\ h.client \in Client
  BY WorldHosts, RunningIsIdle DEF HostFits, Fine, KeepStep
<1>2. Fine(v) /\ (InStep(h) => InStep(v))
  BY StopFine DEF HostFits
<1>3. Still(v, h) \/ Releases(v, h) \/ Revokes(v, h)
  BY <1>1, StopMonitorCalls DEF NoPending
<1>4. ~x => Unlent(h.client)
  BY <1>1, MonitorHasLine DEF HostFits
<1>5. HostFits(v, x)
  BY <1>1, <1>2, <1>3, <1>4, CallsFit DEF HostFits
<1> QED
  BY <1>1, <1>5, StopMonitorApp, MonitorCanRelease

LEMMA TurnFits ==
  ASSUME NEW h, NEW x, HostFits(h, x), NEW s \in ConnectionState, MayTurn(h.client, s),
         NEW w \in Worlds, w.app = h.app, w.mon = h.mon, w.client = Turned(h.client, s),
         NEW y, x => y, w.client.overtaken => y
  PROVE  LET v == IF s = h.client.state THEN w ELSE HandleConnectionStateChanged(w, s)
         IN /\ HostFits(v, y) /\ AppFollows(v.app, h.app)
            /\ Open(v.client) = Open(h.client) /\ FreeOp(v.client) = FreeOp(h.client)
<1> DEFINE c == h.client
           d == Turned(c, s)
           v == IF s = c.state THEN w ELSE HandleConnectionStateChanged(w, s)
<1>1. h \in Worlds /\ c \in Client /\ Fine(h) /\ Hosts(w)
  BY WorldHosts DEF HostFits, Fine
<1>2. /\ Open(d) = Open(c) /\ FreeOp(d) = FreeOp(c) /\ d.asks = c.asks
      /\ d.overtaken <=> \/ c.overtaken
                         \/ s = "Faulted" /\ \E op \in Asked(c) : c.asks[op].kind # "Open"
  BY <1>1, TurnKeeps
<1>3. d.owner \in {c.owner, NoOwner} /\ (d.inTransition => c.inTransition)
      /\ (s \in {"Faulted", "Disconnected"} => d.owner = NoOwner)
  BY <1>1 DEF Turned, Client
<1>4. NoOwner # Testing
  BY AppAssumption, ContractAssumption
<1>5. v.client = d /\ AppFollows(v.app, h.app)
  BY <1>1, TurnStill, TurnFollows DEF Still, AppFollows
<1>6. Fine(v) /\ (InStep(h) /\ ~w.client.overtaken => InStep(v))
  BY <1>1, TurnFine
<1>7. MovesAreAsked(d)
  BY <1>2, <1>3 DEF HostFits, MovesAreAsked
<1>8. ASSUME ~y PROVE LineLent(v)
  <2>1. InStep(h) /\ LineLent(h) /\ ~d.overtaken
    BY <1>8 DEF HostFits
  <2>2. ASSUME Unlent(c) PROVE LineLent(v)
    <3>1. Unlent(d)
      BY <1>2, <1>3, <1>4, <2>2 DEF Unlent
    <3> QED
      BY <1>5, <3>1, UnlentIsLent
  <2>3. CASE v.app = h.app
    BY <1>2, <1>3, <1>4, <1>5, <2>1, <2>3 DEF LineLent
  <2>4. CASE v.app # h.app /\ ~Broken(v.app)
    <3>1. h.app.pending.stage = "WaitingMonitorStop" /\ h.app.pending # NoPending
      BY <1>5, <2>4 DEF AppFollows, NoPending
    <3> QED
      BY <2>1, <2>2, <3>1, LentIsUnlent
  <2>5. CASE Broken(v.app) /\ v.app # h.app
    <3>1. \/ s \in {"Faulted", "Disconnected"}
          \/ h.app.state = "Disconnected" /\ h.app.pending = NoPending
      BY <2>5 DEF HandleConnectionStateChanged
    <3>2. CASE h.app.state = "Disconnected" /\ h.app.pending = NoPending
      <4>1. Unlent(c)
        BY <2>1, <3>2, LentIsUnlent DEF NoPending
      <4> QED
        BY <2>2, <4>1
    <3>3. CASE s \in {"Faulted", "Disconnected"}
      <4>1. ASSUME NEW op \in OpIds, c.asks[op].target = Testing PROVE FALSE
        <5>1. h.app.pending.op = op /\ h.app.pending.stage = "WaitingAcquireTesting"
              /\ h.app.pending # NoPending
          BY <2>1, <4>1, NotPending DEF LineLent, NoPending
        <5>2. c.asks[op].kind = "AcquireOwnership"
          BY <1>1, <5>1 DEF Fine, CommandWaits, StageKind
        <5>3. s # "Faulted"
          BY <1>2, <2>1, <5>2 DEF Asked
        <5>4. Awaits(c, "Close")
          BY <2>1, <3>3, <5>3 DEF MayTurn, InStep
        <5>5. PICK other \in OpIds : c.asks[other].kind = "Close"
          BY <5>4 DEF Awaits
        <5>6. other = op
          BY <2>1, <5>1, <5>5 DEF InStep
        <5> QED
          BY <5>2, <5>5, <5>6
      <4>2. Unlent(d)
        BY <1>2, <1>3, <1>4, <3>3, <4>1 DEF Unlent
      <4> QED
        BY <1>5, <4>2, UnlentIsLent
    <3> QED
      BY <3>1, <3>2, <3>3
  <2> QED
    BY <2>3, <2>4, <2>5
<1> QED
  BY <1>2, <1>5, <1>6, <1>7, <1>8 DEF HostFits

-----------------------------------------------------------------------------
(***************************************************************************)
(* The answers of the client.                                              *)
(***************************************************************************)
\* The application after a slot: its command goes on or ends, with the line for
\* Testing only when that was asked for.
AppMoves(a, b) ==
  \/ a = b
  \/ Broken(a)
  \/ /\ b.pending # NoPending /\ a.pending # NoPending
     /\ a.pending.command = b.pending.command /\ a.state = b.state
     /\ a.pending.stage # "WaitingAcquireTesting"
  \/ /\ b.pending # NoPending /\ a.pending = NoPending
     /\ a.state = "Testing" => b.pending.stage = "WaitingAcquireTesting"

LEMMA FollowsMoves ==
  ASSUME NEW a, NEW b, AppFollows(a, b)
  PROVE  AppMoves(a, b)
BY DEF AppFollows, AppMoves, NoPending

\* What an answer leaves of the client; y says that a fault has overtaken an operation.
Replies(d, c, op, ok, y) ==
  /\ Clears(d, c, op) /\ MovesAreAsked(d) /\ c.asks[op].kind # "None"
  /\ c.asks[op].kind = "Open" => d.owner = c.owner
  /\ c.asks[op].kind \in TransitionKind => ~d.inTransition /\ (y \/ ok)
  /\ ~y /\ d.owner = Testing =>
       \/ c.asks[op].target = Testing
       \/ c.owner = Testing /\ c.asks[op].kind \in {"Open", "Close"}

LEMMA ControlReplies ==
  ASSUME NEW c \in Client, NEW op \in OpIds, NEW ok \in BOOLEAN, NEW y,
         MayAnswerControl(c, op, ok), MovesAreAsked(c)
  PROVE  Replies(ControlAnswered(c, op, ok), c, op, ok, y)
<1> DEFINE d == ControlAnswered(c, op, ok)
<1>1. c.asks[op].kind \in {"Open", "Close"}
  BY DEF MayAnswerControl
<1>2. Clears(d, c, op) /\ (c.asks[op].kind = "Open" => d.owner = c.owner)
  BY ControlClears
<1>3. d.owner \in {c.owner, NoOwner} /\ (d.inTransition => c.inTransition)
  BY DEF ControlAnswered, Answered, Client
<1>4. MovesAreAsked(d)
  <2>1. ASSUME NEW other \in OpIds, c.asks[other].kind \in TransitionKind
        PROVE  d.asks[other].kind \in TransitionKind
    BY <1>1, <1>2, <2>1 DEF Clears, Client, TransitionKind
  <2> QED
    BY <1>3, <2>1 DEF MovesAreAsked
<1>5. NoOwner # Testing
  BY AppAssumption, ContractAssumption
<1> HIDE DEF d
<1> QED
  BY <1>1, <1>2, <1>3, <1>4, <1>5 DEF Replies, TransitionKind, d

LEMMA TransitionReplies ==
  ASSUME NEW c \in Client, NEW op \in OpIds, NEW ok \in BOOLEAN, NEW y, y \/ ok,
         MayAnswerTransition(c, op, ok)
  PROVE  Replies(TransitionAnswered(c, op, ok), c, op, ok, y)
<1> DEFINE d == TransitionAnswered(c, op, ok)
<1>1. c.asks[op].kind \in TransitionKind
  BY DEF MayAnswerTransition
<1>2. Clears(d, c, op) /\ d.owner = IF ok THEN c.asks[op].target ELSE c.owner
  BY TransitionClears
<1>3. ~d.inTransition
  BY DEF TransitionAnswered, Answered, Client
<1> HIDE DEF d
<1> QED
  BY <1>1, <1>2, <1>3 DEF Replies, TransitionKind, MovesAreAsked, d

LEMMA ControlMoves ==
  ASSUME NEW w \in Worlds, NEW op \in OpIds, NEW ok \in BOOLEAN
  PROVE  AppMoves(HandleControlCompleted(w, op, ok).app, w.app)
<1> DEFINE v == HandleControlCompleted(w, op, ok)
           stage == w.app.pending.stage
<1>1. Hosts(w)
  BY WorldHosts
<1>2. CASE w.app.pending.op # op
  BY <1>2 DEF HandleControlCompleted, AppMoves
<1>3. CASE w.app.pending.op = op
  <2>1. w.app.pending # NoPending
    BY <1>3, NotPending DEF NoPending
  <2>2. \A u, final : u.app = w.app /\ Hosts(u) /\ (final = "Testing" => stage = "WaitingAcquireTesting")
                      => AppMoves(EndCommand(u, final).app, w.app)
    <3> SUFFICES ASSUME NEW u, NEW final, u.app = w.app, Hosts(u),
                        final = "Testing" => stage = "WaitingAcquireTesting"
                 PROVE  AppMoves(EndCommand(u, final).app, w.app)
      OBVIOUS
    <3>1. EndCommand(u, final).app.pending = NoPending /\ EndCommand(u, final).app.state = final
      BY DEF EndCommand, Hosts
    <3> QED
      BY <2>1, <3>1 DEF AppMoves
  <2>3. AppMoves(EnterError(w).app, w.app)
    BY <1>1, EndBreaks DEF AppMoves
  <2>4. AppMoves(BeginMonitoring(w).app, w.app)
    <3>1. Hosts(StartMonitor(w)) /\ StartMonitor(w).app = w.app
      <4> DEFINE m == [[[w.mon EXCEPT !.running = TRUE] EXCEPT !.task = TRUE]
                         EXCEPT !.health = "Unknown"]
      <4>1. StartMonitor(w) = [w EXCEPT !.mon = m]
        BY <1>1 DEF StartMonitor, Hosts
      <4> HIDE DEF m
      <4> QED
        BY <1>1, <4>1 DEF Hosts
    <3>2. AppMoves(ReleaseOwner(w, "WaitingRollbackMonitorRelease", Monitor).app, w.app)
      BY <1>1, <2>1, ReleaseFollows DEF AppMoves, NoPending
    <3> QED
      BY <2>2, <3>1, <3>2 DEF BeginMonitoring
  <2>5. AppMoves(AfterRelease(w).app, w.app)
    <3>1. AppMoves(CloseBackend(w).app, w.app)
      <4> DEFINE ask == CloseCall(w.client, NextOp(w.client))
                 u == Await(w, "WaitingClose", ask)
      <4> HIDE DEF ask
      <4>1. u.app.pending.stage = "WaitingClose" /\ u.app.state = w.app.state
            /\ u.app.pending.command = w.app.pending.command
        BY <1>1 DEF Await, Hosts
      <4>2. AppMoves(u.app, w.app)
        BY <2>1, <4>1 DEF AppMoves, NoPending
      <4> QED
        BY <2>3, <4>2 DEF CloseBackend, ask
    <3> QED
      BY <1>1, <2>2, <3>1 DEF AfterRelease
  <2>6. \/ v \in {EnterError(w), BeginMonitoring(w), AfterRelease(w), EndCommand(w, "ConnectedIdle"),
                  EndCommand(w, "Disconnected")}
        \/ v = EndCommand(w, "Testing") /\ stage = "WaitingAcquireTesting"
    BY <1>3 DEF HandleControlCompleted
  <2> HIDE DEF v
  <2> QED
    BY <1>1, <2>2, <2>3, <2>4, <2>5, <2>6 DEF v
<1> QED
  BY <1>2, <1>3

LEMMA AnswerFits ==
  ASSUME NEW h, NEW x, HostFits(h, x), NEW op \in OpIds, NEW ok \in BOOLEAN, NEW y, x => y,
         NEW w \in Worlds, w.app = h.app, w.mon = h.mon, Replies(w.client, h.client, op, ok, y)
  PROVE  LET v == HandleControlCompleted(w, op, ok)
         IN /\ HostFits(v, y) /\ AppMoves(v.app, h.app) /\ Open(v.client) = Open(h.client)
            /\ v.app.pending = NoPending => v.client = w.client /\ FreeOp(v.client) # {}
            /\ v.app.pending = NoPending /\ v.app # h.app /\ v.app.state = "Testing" =>
                 ~v.client.inTransition
<1> DEFINE c == h.client
           d == w.client
           v == HandleControlCompleted(w, op, ok)
           pending == h.app.pending
<1>1. h \in Worlds /\ c \in Client /\ d \in Client /\ Fine(h) /\ Hosts(w)
  BY WorldHosts DEF HostFits, Fine, Replies, Clears
<1>2. Clears(d, c, op) /\ MovesAreAsked(d) /\ op \in FreeOp(d)
  BY DEF Replies, Clears
<1>3. d.asks = [c.asks EXCEPT ![op] = NoAsk] /\ Open(d) = Open(c)
  BY <1>2 DEF Clears
<1>4. NoOwner # Testing /\ NoAsk.target = NoOwner
  BY AppAssumption, ContractAssumption DEF NoAsk
<1>5. Fine(v) /\ (InStep(h) => InStep(v))
  BY <1>1, <1>2, AnswerFine DEF Replies
<1>6. AppMoves(v.app, h.app)
  BY ControlMoves
<1>7. \/ v = w /\ pending.op # op
      \/ pending.op = op /\ (Ends(v, w) \/ Releases(v, w) \/ Closes(v, w))
  <2>1. CASE pending.op # op
    BY <2>1, OtherAnswerStill
  <2>2. CASE pending.op = op
    BY <1>1, <2>2, ControlCalls
  <2> QED
    BY <2>1, <2>2
<1>8. ASSUME pending.op = op
      PROVE  pending # NoPending /\ c.asks[op].kind = StageKind(pending.stage)
  BY <1>1, <1>8, NotPending DEF Fine, CommandWaits, NoPending
<1>9. NextOp(d) \in OpIds
  BY <1>2, NextOpIsFree
<1>10. Open(v.client) = Open(c)
  <2>1. CASE v.client = d
    BY <1>3, <2>1
  <2>2. CASE Releases(v, w)
    BY <1>1, <1>3, <1>9, <2>2, MoveAsks, AppAssumption
      DEF Releases, ReleaseCall, Asks, TransitionKind, OwnerOrNone
  <2>3. CASE Closes(v, w)
    BY <1>1, <1>3, <1>9, <2>3, CloseAsks DEF Closes, Asks
  <2> QED
    BY <1>7, <2>1, <2>2, <2>3 DEF Ends, Still
<1>11. ASSUME v.app.pending = NoPending PROVE v.client = d /\ FreeOp(v.client) # {}
  <2>1. v.app.pending.op = 0 /\ 0 \notin OpIds
    BY <1>11, NotPending DEF NoPending
  <2>2. v.client = d
    BY <1>7, <1>9, <2>1 DEF Ends, Still, Releases, Closes
  <2> QED
    BY <1>2, <2>2
<1>12. ASSUME v.app.pending = NoPending, v.app # h.app, v.app.state = "Testing"
       PROVE  ~v.client.inTransition
  <2>1. pending.op = op /\ pending.stage = "WaitingAcquireTesting"
    BY <1>6, <1>7, <1>12 DEF AppMoves, Broken
  <2>2. c.asks[op].kind \in TransitionKind
    BY <1>8, <2>1 DEF StageKind, TransitionKind
  <2> QED
    BY <1>11, <1>12, <2>2 DEF Replies
<1>13. MovesAreAsked(v.client) /\ (Unlent(d) => Unlent(v.client))
  <2>1. CASE v.client = d
    BY <1>2, <2>1
  <2>2. CASE Releases(v, w) \/ Closes(v, w)
    <3> DEFINE f == NextOp(d)
    <3>1. ASSUME Releases(v, w)
          PROVE  /\ v.client.asks[f].kind \in TransitionKind /\ v.client.owner = d.owner
                 /\ v.client.asks \in [OpIds -> Ask] /\ v.client.asks[f].target = NoOwner
                 /\ \A other \in OpIds \ {f} : v.client.asks[other] = d.asks[other]
      <4> DEFINE asks == [d.asks EXCEPT ![f] =
                            [kind |-> "ReleaseOwnership", target |-> NoOwner]]
      <4>1. v.client.asks = asks /\ v.client.owner = d.owner
        BY <1>1, <3>1 DEF Releases, ReleaseCall, MoveCall, Asking, Client
      <4> QED
        BY <1>1, <1>9, <4>1 DEF TransitionKind, Client, Ask, OwnerOrNone, ControlKind
    <3>2. ASSUME Closes(v, w)
          PROVE  /\ ~v.client.inTransition /\ v.client.owner = d.owner
                 /\ v.client.asks[f].target = NoOwner
                 /\ \A other \in OpIds \ {f} : v.client.asks[other] = d.asks[other]
      <4> DEFINE asks == [d.asks EXCEPT ![f] = [kind |-> "Close", target |-> NoOwner]]
      <4>1. v.client.asks = asks /\ v.client.owner = d.owner /\ ~v.client.inTransition
        BY <1>1, <3>2 DEF Closes, CloseCall, CanClose, Asking, Client
      <4> QED
        BY <1>1, <1>9, <4>1 DEF Client
    <3> QED
      BY <1>4, <1>9, <2>2, <3>1, <3>2 DEF MovesAreAsked, Unlent
  <2> QED
    BY <1>7, <2>1, <2>2 DEF Ends, Still
<1>14. ASSUME ~y PROVE LineLent(v)
  <2>1. LineLent(h) /\ InStep(h)
    BY <1>14 DEF HostFits
  <2>2. ASSUME NEW other \in OpIds, d.asks[other].target = Testing
        PROVE  other # op /\ c.asks[other].target = Testing
    BY <1>1, <1>3, <1>4, <2>2 DEF Client
  <2>3. CASE pending.op # op
    <3>1. c.asks[op].kind \in {"None", "Open"}
      BY <2>1, <2>3 DEF InStep
    <3>2. v = w /\ d.owner = c.owner
      BY <1>7, <2>3, <3>1 DEF Replies
    <3> QED
      BY <2>1, <2>2, <3>2 DEF LineLent
  <2>4. CASE pending.op = op
    <3>1. \A other \in OpIds : d.asks[other].target # Testing
      BY <2>1, <2>2, <2>4 DEF LineLent
    <3>2. CASE d.owner # Testing
      BY <1>13, <3>1, <3>2, UnlentIsLent DEF Unlent
    <3>3. CASE d.owner = Testing
      <4>1. c.asks[op].target = Testing
        <5>1. ASSUME c.owner = Testing, c.asks[op].kind \in {"Open", "Close"} PROVE FALSE
          BY <1>8, <2>1, <2>4, <5>1 DEF LineLent, StageKind
        <5> QED
          BY <1>14, <3>3, <5>1 DEF Replies
      <4>2. pending.stage = "WaitingAcquireTesting"
        BY <2>1, <4>1 DEF LineLent
      <4>3. ok
        BY <1>8, <1>14, <2>4, <4>2 DEF Replies, StageKind, TransitionKind
      <4>4. v = EndCommand(w, "Testing")
        BY <2>4, <3>3, <4>2, <4>3 DEF HandleControlCompleted, StageReached
      <4>5. v.app.state = "Testing" /\ v.app.pending = NoPending /\ v.client = d
        BY <1>1, <4>4 DEF EndCommand, Hosts
      <4> QED
        BY <3>1, <4>5 DEF LineLent
    <3> QED
      BY <3>2, <3>3
  <2> QED
    BY <2>3, <2>4
<1> QED
  BY <1>5, <1>6, <1>10, <1>11, <1>12, <1>13, <1>14 DEF HostFits

-----------------------------------------------------------------------------
(***************************************************************************)
(* The engine's private functions: a run that goes on, and its end.        *)
(***************************************************************************)
EngineFields == DOMAIN NewEngine(<<>>)
With(w, e) == [w EXCEPT !.engine = e]

\* The engine is at a case, or has just been started and could give the line back.
InRun(w, x) ==
  /\ LabWorld(w) /\ HostFits(w.host, x) /\ EngineKept(w.engine)
  /\ w.engine.state \in Busy /\ HostServes(w.host)
  /\ w.engine.state = "Running" => FreeId(w.host.client) # {}
  /\ \/ w.auto.state = "Running" /\ w.auto.action = "None"
     \/ CanStopTesting(w.host) /\ w.engine.state = "Running"

\* The world after such a call, with the automation a before: the run goes on, or is
\* over and the automation has heard of it.
Settles(v, a, x) ==
  /\ LabWorld(v) /\ HostFits(v.host, x) /\ EngineFits(v) /\ LineWanted(v, x)
  /\ \/ /\ v.auto = a /\ v.engine.state # "Idle"
        /\ v.host.app.pending.command \in {"None", "StopTesting"}
        /\ v.host.app.pending.stage # "WaitingAcquireTesting"
     \/ a.state = "Running" /\ AutoFits(v, x)

LEMMA EngineFieldsAre ==
  EngineFields = {"state", "cases", "index", "step", "request", "attempts", "delay", "position",
                  "original", "accepted", "budget", "late", "register", "before", "silent",
                  "taken", "restores", "tries", "overdue"}
BY DEF EngineFields, NewEngine

LEMMA WithIs ==
  ASSUME NEW w, LabWorld(w), NEW e, DOMAIN e = EngineFields
  PROVE  /\ LabWorld(With(w, e)) /\ With(w, e).engine = e
         /\ With(w, e).host = w.host /\ With(w, e).auto = w.auto
BY DEF With, LabWorld, EngineFields

LEMMA KindWith ==
  ASSUME NEW w, LabWorld(w), NEW e, DOMAIN e = EngineFields, e.index = w.engine.index
  PROVE  Kind(With(w, e)) = Kind(w)
BY WithIs DEF Kind

LEMMA InRunWith ==
  ASSUME NEW w, NEW x, InRun(w, x), NEW e, DOMAIN e = EngineFields, EngineKept(e),
         e.state = w.engine.state
  PROVE  InRun(With(w, e), x)
BY WithIs DEF InRun

LEMMA ClearedIs ==
  ASSUME NEW w, LabWorld(w), EngineKept(w.engine), NEW cases, NEW e, e = Cleared(w, cases).engine
  PROVE  /\ LabWorld(Cleared(w, cases)) /\ Cleared(w, cases) = With(w, e)
         /\ DOMAIN e = EngineFields /\ e.state = "Idle" /\ e.cases = cases
         /\ e.request = 0 /\ ~e.delay /\ e.attempts = 0 /\ e.index = 0 /\ EngineKept(e)
         /\ e.taken = 0 /\ e.restores = 0
<1> DEFINE n == [[[NewEngine(cases) EXCEPT !.register = w.engine.register]
                    EXCEPT !.before = w.engine.register]
                    EXCEPT !.silent = w.engine.silent]
<1>1. Cleared(w, cases) = With(w, n)
  BY DEF Cleared, With
<1>2. /\ DOMAIN n = EngineFields /\ n.state = "Idle" /\ n.cases = cases
      /\ n.request = 0 /\ n.delay = FALSE /\ n.attempts = 0 /\ n.index = 0
      /\ n.register = w.engine.register /\ n.before = w.engine.register
      /\ n.silent = w.engine.silent /\ n.position = 1
      /\ n.taken = 0 /\ n.restores = 0 /\ n.tries = 0 /\ n.overdue = FALSE
  BY DEF NewEngine, EngineFields
<1> HIDE DEF n
<1>3. EngineKept(n)
  BY <1>2, EngineAssumption DEF EngineKept
<1> QED
  BY <1>1, <1>2, <1>3, WithIs

LEMMA RunCompletedFits ==
  ASSUME NEW w, NEW x, LabWorld(w), HostFits(w.host, x), EngineKept(w.engine),
         w.engine.state = "Idle", w.engine.request = 0, ~w.engine.delay,
         w.auto.state = "Running", w.auto.action = "None",
         w.host.app.pending.stage # "WaitingAcquireTesting",
         x \/ w.host.app.state # "Testing" \/ w.host.app.pending # NoPending,
         w.host.app.state = "ConnectedIdle" => FreeOp(w.host.client) # {}
  PROVE  LET v == HandleRunCompleted(w)
         IN /\ LabFits(v, x) /\ v.engine = w.engine
            /\ v.auto.action \in {"None", "ResumeMonitoring"}
<1> DEFINE v == HandleRunCompleted(w)
           host == StartMonitoringCall(w.host)
           a == [[w.auto EXCEPT !.action = "ResumeMonitoring"] EXCEPT !.state = "ResumingMonitoring"]
           r == Orders(w, "ResumeMonitoring", "ResumingMonitoring", host)
           n == EndWorkflow(w)
<1>1. w.host \in Worlds
  BY DEF HostFits, Fine
<1>2. CASE CanTakeLine(w.host, Monitor) /\ v = r
  <2>1. r = [[w EXCEPT !.host = host] EXCEPT !.auto = a]
    BY DEF Orders, LabWorld
  <2>2. a.action = "ResumeMonitoring" /\ a.state = "ResumingMonitoring" /\ DOMAIN a = DOMAIN NoRun
    BY DEF LabWorld, NoRun
  <2> HIDE DEF host, a, r
  <2>3. LabWorld(r) /\ r.host = host /\ r.engine = w.engine /\ r.auto = a
    BY <2>1, <2>2 DEF LabWorld
  <2>4. HostFits(host, x)
    BY <1>2, TransitionCallsFit DEF CanTakeLine, host
  <2>5. host.app.pending.command = "StartMonitoring"
        /\ host.app.pending.stage = "WaitingAcquireMonitor" /\ host.app.pending # NoPending
    BY <1>1, CommandApp DEF host, NoPending
  <2> QED
    BY <1>2, <2>2, <2>3, <2>4, <2>5
      DEF LabFits, EngineFits, LineWanted, AutoFits, Busy, Waiting, CommandOf
<1>3. CASE v = n
  <2>1. n.auto = NoRun /\ n.engine = w.engine /\ n.host = w.host /\ LabWorld(n)
    BY DEF EndWorkflow, LabWorld
  <2> HIDE DEF n
  <2> QED
    BY <1>3, <2>1 DEF LabFits, EngineFits, LineWanted, AutoFits, Busy, Waiting, NoRun
<1> QED
  BY <1>2, <1>3 DEF HandleRunCompleted

LEMMA FinalizeFits ==
  ASSUME NEW w, NEW x, LabWorld(w), HostFits(w.host, x), EngineKept(w.engine),
         w.auto.state = "Running", w.auto.action = "None",
         w.host.app.pending.stage # "WaitingAcquireTesting",
         x \/ w.host.app.state # "Testing" \/ w.host.app.pending # NoPending,
         w.host.app.state = "ConnectedIdle" => FreeOp(w.host.client) # {}
  PROVE  LET v == FinalizeRun(w)
         IN /\ LabFits(v, x) /\ v.engine.request = 0
            /\ v.auto.action \in {"None", "ResumeMonitoring"}
<1> DEFINE u == Cleared(w, <<>>)
<1>1. /\ LabWorld(u) /\ u.host = w.host /\ u.auto = w.auto /\ EngineKept(u.engine)
      /\ u.engine.state = "Idle" /\ u.engine.request = 0 /\ ~u.engine.delay
  BY ClearedIs, WithIs
<1>2. FinalizeRun(w) = HandleRunCompleted(u)
  BY DEF FinalizeRun
<1> HIDE DEF u
<1> QED
  BY <1>1, <1>2, RunCompletedFits

LEMMA BeginReleaseSettles ==
  ASSUME NEW w, NEW x, InRun(w, x), w.engine.request = 0, ~w.engine.delay
  PROVE  Settles(BeginRelease(w), w.auto, x)
<1> DEFINE e == [w.engine EXCEPT !.state = "Releasing"]
           u == With(w, e)
           host == StopTestingCall(w.host)
           r == [u EXCEPT !.host = host]
<1>1. BeginRelease(w) = IF CanStopTesting(w.host) THEN r ELSE FinalizeRun(u)
  <2>1. [w EXCEPT !.engine.state = "Releasing"] = u
    BY DEF With, InRun, LabWorld
  <2>2. u.host = w.host
    BY DEF With, InRun, LabWorld
  <2> HIDE DEF u
  <2> QED
    BY <2>1, <2>2 DEF BeginRelease, InRun, Busy
<1>2. /\ DOMAIN e = EngineFields /\ e.state = "Releasing" /\ e.request = 0 /\ ~e.delay
      /\ EngineKept(e)
  BY DEF InRun, LabWorld, EngineFields, NewEngine, EngineKept
<1> HIDE DEF e
<1>3. LabWorld(u) /\ u.engine = e /\ u.host = w.host /\ u.auto = w.auto
  BY <1>2, WithIs DEF InRun
<1> HIDE DEF u
<1>4. w.host \in Worlds /\ HostServes(w.host) /\ w.host.app.pending = NoPending
  BY DEF InRun, HostFits, Fine, HostServes
<1>5. CASE CanStopTesting(w.host)
  <2>1. LabWorld(r) /\ r.host = host /\ r.engine = e /\ r.auto = w.auto
    BY <1>3 DEF LabWorld
  <2>2. HostFits(host, x)
    BY <1>5, TransitionCallsFit DEF host, InRun, CanStopTesting, HostServes
  <2>3. /\ host.app.pending.command = "StopTesting" /\ host.app.state = "Stopping"
        /\ host.app.pending.stage = "WaitingReleaseTesting"
    BY <1>4, CommandApp DEF host
  <2> HIDE DEF host, r
  <2>4. Settles(r, w.auto, x)
    BY <1>2, <2>1, <2>2, <2>3 DEF Settles, EngineFits, LineWanted, Busy
  <2> QED
    BY <1>1, <1>5, <2>4 DEF r
<1>6. CASE ~CanStopTesting(w.host)
  <2>1. w.auto.state = "Running" /\ w.auto.action = "None"
    BY <1>6 DEF InRun
  <2>2. x \/ w.host.app.state # "Testing"
    BY <1>4, <1>6, TestingCanStop DEF InRun
  <2>3. w.host.app.state # "ConnectedIdle" /\ w.host.app.pending.stage # "WaitingAcquireTesting"
    BY <1>4 DEF HostServes, NoPending
  <2>4. LabFits(FinalizeRun(u), x) /\ FinalizeRun(u).engine.request = 0
    BY <1>2, <1>3, <2>1, <2>2, <2>3, FinalizeFits DEF InRun
  <2> QED
    BY <1>1, <1>6, <2>1, <2>4 DEF Settles, LabFits
<1> QED
  BY <1>5, <1>6

LEMMA AbortRemainingSettles ==
  ASSUME NEW w, NEW x, InRun(w, x), w.engine.request = 0, ~w.engine.delay
  PROVE  Settles(AbortRemaining(w), w.auto, x)
<1> DEFINE cases == [i \in DOMAIN w.engine.cases |->
                       IF i > w.engine.index /\ w.engine.cases[i] = "NotRun" THEN "Skipped"
                       ELSE w.engine.cases[i]]
           e == [w.engine EXCEPT !.cases = cases]
<1>1. AbortRemaining(w) = BeginRelease(With(w, e))
  BY DEF AbortRemaining, With, InRun, LabWorld, NewEngine
<1> HIDE DEF cases
<1>2. /\ DOMAIN e = EngineFields /\ e.state = w.engine.state /\ e.request = 0 /\ ~e.delay
      /\ EngineKept(e)
  BY DEF InRun, LabWorld, EngineFields, NewEngine, EngineKept
<1> HIDE DEF e
<1> QED
  BY <1>1, <1>2, InRunWith, WithIs, BeginReleaseSettles DEF InRun

-----------------------------------------------------------------------------
(***************************************************************************)
(* A case: what it may ask for next, and how it ends.                      *)
(***************************************************************************)
\* A case may take this step: the register is as it found it, or it knows what it
\* found and that it may have to restore it.
StepFits(w, step) ==
  IF Kind(w) # "WriteAndVerify"
    THEN w.engine.register = w.engine.before /\ step = FirstStep(Kind(w))
  ELSE IF step = "ReadBefore"
    THEN w.engine.register = w.engine.before /\ w.engine.original = "None"
  ELSE /\ step \in {"Write", "Verify", "Restore"} /\ w.engine.original = w.engine.before
       /\ w.engine.accepted \/ (step = "Write" /\ w.engine.register = w.engine.before)

\* One more request of the step, and none that is not allowed.
LEMMA CountedIs ==
  ASSUME NEW w, NEW x, InRun(w, x), NEW step, w.engine.restores = 0,
         step # "Restore" => w.engine.state = "Running" /\ w.engine.budget # "spent"
  PROVE  LET u == Counted(w, step)
         IN /\ LabWorld(u) /\ u.host = w.host /\ u.auto = w.auto
            /\ \A f \in EngineFields \ {"tries", "restores", "overdue"} :
                 u.engine[f] = w.engine[f]
            /\ u.engine.tries = w.engine.tries + 1 /\ ~u.engine.overdue
            /\ u.engine.overdue \in BOOLEAN
            /\ u.engine.restores = IF step = "Restore" THEN 1 ELSE 0
<1> DEFINE restores == IF step = "Restore" THEN w.engine.restores + 1 ELSE w.engine.restores
           overdue == \/ w.engine.overdue
                      \/ step # "Restore"
                         /\ (w.engine.state # "Running" \/ w.engine.budget = "spent")
           e == [[[w.engine EXCEPT !.tries = w.engine.tries + 1] EXCEPT !.restores = restores]
                   EXCEPT !.overdue = overdue]
<1>1. Counted(w, step) = With(w, e)
  BY DEF Counted, With, InRun, LabWorld, NewEngine
<1>2. ~overdue /\ restores = IF step = "Restore" THEN 1 ELSE 0
  BY DEF InRun, EngineKept
<1>3. PICK over \in BOOLEAN : over = overdue /\ ~over
  BY <1>2
<1> HIDE DEF overdue, restores
<1>4. /\ DOMAIN e = EngineFields
      /\ \A f \in EngineFields \ {"tries", "restores", "overdue"} : e[f] = w.engine[f]
      /\ e.tries = w.engine.tries + 1 /\ e.overdue = over /\ e.restores = restores
  BY <1>3, EngineFieldsAre DEF InRun, LabWorld, EngineFields
<1> HIDE DEF e
<1>5. LabWorld(With(w, e)) /\ With(w, e).engine = e /\ With(w, e).host = w.host
      /\ With(w, e).auto = w.auto
  BY <1>4, WithIs DEF InRun
<1> QED
  BY <1>1, <1>2, <1>3, <1>4, <1>5

LEMMA SentSettles ==
  ASSUME NEW w, NEW x, InRun(w, x), FreeId(w.host.client) # {}, ~w.engine.delay,
         NEW step \in Step, StepFits(w, step), step = "Restore" => w.engine.attempts = 0,
         step # "Restore" =>
           /\ w.engine.state = "Running" /\ w.engine.budget # "spent"
           /\ w.engine.attempts <= MaxRetries,
         w.engine.restores = 0, w.engine.taken <= Quota(w, step)
  PROVE  Settles(Sent(w, step), w.auto, x)
<1> DEFINE id == NextId(w.host.client)
           d == SubmitCall(w.host.client, id)
           host == [w.host EXCEPT !.client = d]
           u == Counted(w, step)
           accepted == u.engine.accepted \/ step = "Write"
           e == [[[[u.engine EXCEPT !.step = step] EXCEPT !.request = id]
                   EXCEPT !.attempts = u.engine.attempts + 1]
                   EXCEPT !.accepted = accepted]
           v == With([u EXCEPT !.host = host], e)
<1>16. /\ LabWorld(u) /\ u.host = w.host /\ u.auto = w.auto
       /\ \A f \in EngineFields \ {"tries", "restores", "overdue"} : u.engine[f] = w.engine[f]
       /\ u.engine.tries = w.engine.tries + 1 /\ ~u.engine.overdue
       /\ u.engine.overdue \in BOOLEAN
       /\ u.engine.restores = IF step = "Restore" THEN 1 ELSE 0
  BY CountedIs
<1>17. u.engine.attempts = w.engine.attempts /\ u.engine.accepted = w.engine.accepted
  BY <1>16, EngineFieldsAre
<1>1. Sent(w, step) = v
  <2> HIDE DEF u
  <2>1. Sent(w, step) = [u EXCEPT !.host.client = d, !.engine.step = step, !.engine.request = id,
                                  !.engine.attempts = @ + 1,
                                  !.engine.accepted = @ \/ step = "Write"]
    BY DEF Sent, u
  <2> HIDE DEF id, d
  <2> QED
    BY <1>16, <2>1 DEF With, LabWorld, NewEngine
<1>2. id \in Ids
  BY DEF NextId, FreeId
<1>3. w.host \in Worlds /\ w.host.client \in Client /\ HostFits(w.host, x) /\ EngineKept(w.engine)
  BY WorldHosts DEF InRun, HostFits, Fine
<1>4. HostFits(host, x) /\ Open(d) = Open(w.host.client) \cup {id}
  BY <1>2, <1>3, RequestCallsFit, RequestsKeep
<1>5. host.client = d /\ host.app = w.host.app /\ FreeOp(d) = FreeOp(w.host.client)
  <2>1. d.asks = w.host.client.asks
    BY <1>3 DEF SubmitCall, Client
  <2> HIDE DEF d
  <2> QED
    BY <1>3, <2>1 DEF Worlds, FreeOp, Asked
<1>6. PICK accept \in BOOLEAN : accept = accepted
  OBVIOUS
<1> HIDE DEF u
<1>7. /\ DOMAIN e = EngineFields /\ e.step = step /\ e.request = id
      /\ e.attempts = w.engine.attempts + 1 /\ e.accepted = accept
      /\ e.state = w.engine.state /\ e.delay = w.engine.delay /\ e.index = w.engine.index
      /\ e.register = w.engine.register /\ e.before = w.engine.before
      /\ e.original = w.engine.original /\ e.silent = w.engine.silent
      /\ e.budget = w.engine.budget /\ e.position = w.engine.position
      /\ e.taken = w.engine.taken /\ e.tries = w.engine.tries + 1
      /\ e.restores = (IF step = "Restore" THEN 1 ELSE 0) /\ ~e.overdue
  <2> HIDE DEF id, accepted
  <2>1. DOMAIN u.engine = EngineFields
    BY <1>16 DEF LabWorld, EngineFields
  <2>2. /\ e = [[[[u.engine EXCEPT !.step = step] EXCEPT !.request = id]
                   EXCEPT !.attempts = w.engine.attempts + 1] EXCEPT !.accepted = accept]
    BY <1>6, <1>17
  <2> QED
    BY <1>16, <2>1, <2>2, EngineFieldsAre
<1>8. accept <=> w.engine.accepted \/ step = "Write"
  BY <1>6, <1>17, Zenon
<1> HIDE DEF e, d, host, id, accepted
<1>9. LabWorld(v) /\ v.engine = e /\ v.host = host /\ v.auto = w.auto
  BY <1>7, <1>16, WithIs DEF LabWorld, With, EngineFields
<1> HIDE DEF v
<1>10. HostServes(v.host)
  BY <1>5, <1>9 DEF InRun, HostServes
<1>11. CaseWaits(v)
  BY <1>4, <1>5, <1>7, <1>9 DEF CaseWaits
<1>12. CaseKeeps(v)
  BY <1>7, <1>8, <1>9 DEF CaseKeeps, StepFits, Kind
<1>13. EngineKept(e) /\ e.state \in Busy
  BY <1>3, <1>7, EngineAssumption DEF EngineKept, InRun
<1>14. CaseCounts(v)
  BY <1>7, <1>9 DEF CaseCounts, Quota, Kind
<1> QED
  BY <1>1, <1>4, <1>9, <1>10, <1>11, <1>12, <1>13, <1>14
    DEF Settles, EngineFits, LineWanted, HostServes, Busy, NoPending

LEMMA PausedSettles ==
  ASSUME NEW w, NEW x, InRun(w, x), w.engine.state = "Running", w.engine.request = 0,
         Kind(w) \notin {"WriteAndVerify", "Single"}, w.engine.register = w.engine.before,
         w.engine.restores = 0, w.engine.taken + 1 <= Quota(w, "CompositeStep")
  PROVE  Settles(Paused(w), w.auto, x)
<1> DEFINE e == [[[[w.engine EXCEPT !.step = "None"] EXCEPT !.attempts = 0]
                   EXCEPT !.tries = 0] EXCEPT !.delay = TRUE]
           v == With(w, e)
<1>1. Paused(w) = v
  BY DEF Paused, With, InRun, LabWorld, NewEngine
<1>2. /\ DOMAIN e = EngineFields /\ e.step = "None" /\ e.request = 0 /\ e.delay = TRUE
      /\ e.attempts = 0 /\ e.state = "Running" /\ e.index = w.engine.index
      /\ e.register = e.before /\ EngineKept(e) /\ e.position = w.engine.position
      /\ e.taken = w.engine.taken /\ e.restores = 0
  BY EngineAssumption DEF InRun, LabWorld, EngineFields, NewEngine, EngineKept
<1> HIDE DEF e
<1>3. LabWorld(v) /\ v.engine = e /\ v.host = w.host /\ v.auto = w.auto
  BY <1>2, WithIs DEF InRun
<1> HIDE DEF v
<1>4. CaseWaits(v) /\ CaseKeeps(v)
  BY <1>2, <1>3 DEF CaseWaits, CaseKeeps, Kind
<1>5. CaseCounts(v)
  <2>1. w.engine.taken \in Nat /\ w.engine.position \in Nat
    BY EngineAssumption DEF InRun, EngineKept
  <2> QED
    BY <1>2, <1>3, <2>1 DEF CaseCounts, Quota, Kind
<1> QED
  BY <1>1, <1>2, <1>3, <1>4, <1>5
    DEF Settles, EngineFits, LineWanted, HostServes, Busy, NoPending, InRun

\* The engine between two cases.
Between(w, x) ==
  /\ InRun(w, x) /\ w.engine.request = 0 /\ ~w.engine.delay /\ w.engine.attempts = 0
  /\ w.engine.taken = 0 /\ w.engine.restores = 0

\* A new step is counted, and its requests from the first.
LEMMA AnewIs ==
  ASSUME NEW w, NEW x, InRun(w, x)
  PROVE  LET u == Anew(w)
         IN /\ InRun(u, x) /\ u.auto = w.auto /\ u.host = w.host /\ Kind(u) = Kind(w)
            /\ u.engine.attempts = 0 /\ u.engine.taken = w.engine.taken + 1
            /\ u.engine.state = w.engine.state /\ u.engine.delay = w.engine.delay
            /\ u.engine.request = w.engine.request /\ u.engine.budget = w.engine.budget
            /\ u.engine.original = w.engine.original /\ u.engine.accepted = w.engine.accepted
            /\ u.engine.before = w.engine.before /\ u.engine.register = w.engine.register
            /\ u.engine.position = w.engine.position /\ u.engine.restores = w.engine.restores
<1> DEFINE e == [[[w.engine EXCEPT !.attempts = 0] EXCEPT !.tries = 0]
                   EXCEPT !.taken = w.engine.taken + 1]
<1>1. Anew(w) = With(w, e)
  BY DEF Anew, With, InRun, LabWorld, NewEngine
<1>2. /\ DOMAIN e = EngineFields /\ EngineKept(e) /\ e.attempts = 0
      /\ e.taken = w.engine.taken + 1 /\ e.state = w.engine.state /\ e.delay = w.engine.delay
      /\ e.request = w.engine.request /\ e.budget = w.engine.budget /\ e.index = w.engine.index
      /\ e.original = w.engine.original /\ e.accepted = w.engine.accepted
      /\ e.before = w.engine.before /\ e.register = w.engine.register
      /\ e.position = w.engine.position /\ e.restores = w.engine.restores
  BY EngineAssumption DEF InRun, LabWorld, EngineFields, NewEngine, EngineKept
<1> HIDE DEF e
<1>3. /\ InRun(With(w, e), x) /\ With(w, e).engine = e /\ With(w, e).auto = w.auto
      /\ With(w, e).host = w.host /\ Kind(With(w, e)) = Kind(w)
  BY <1>2, InRunWith, WithIs, KindWith DEF InRun
<1> QED
  BY <1>1, <1>2, <1>3

LEMMA StartCaseSettles ==
  ASSUME NEW w, NEW x, Between(w, x), w.engine.state = "Running", w.engine.budget = "ample",
         w.engine.register = w.engine.before, w.engine.original = "None", w.engine.position = 1
  PROVE  Settles(StartCase(w), w.auto, x)
<1>1. CASE PausesFirst(Kind(w))
  <2>1. Kind(w) \notin {"WriteAndVerify", "Single"} /\ 0 + 1 <= Quota(w, "CompositeStep")
    BY <1>1 DEF PausesFirst, Quota
  <2> QED
    BY <1>1, <2>1, PausedSettles DEF StartCase, Between
<1>2. CASE ~PausesFirst(Kind(w))
  <2> DEFINE step == FirstStep(Kind(w))
             u == Anew(w)
  <2>1. /\ InRun(u, x) /\ u.auto = w.auto /\ u.host = w.host /\ Kind(u) = Kind(w)
        /\ u.engine.attempts = 0 /\ u.engine.taken = 1 /\ u.engine.state = "Running"
        /\ ~u.engine.delay /\ u.engine.budget = "ample" /\ u.engine.original = "None"
        /\ u.engine.register = u.engine.before /\ u.engine.position = 1
        /\ u.engine.restores = 0
    BY AnewIs DEF Between
  <2> HIDE DEF u
  <2>2. step \in Step /\ step # "Restore" /\ StepFits(u, step) /\ 1 <= Quota(u, step)
    BY <2>1 DEF FirstStep, StepFits, Step, Quota
  <2> HIDE DEF step
  <2>3. StartCase(w) = Sent(u, step)
    BY <1>2 DEF StartCase, step, u
  <2>4. FreeId(u.host.client) # {} /\ 0 <= MaxRetries
    BY <2>1, EngineAssumption DEF InRun
  <2>5. Settles(Sent(u, step), u.auto, x)
    BY <2>1, <2>2, <2>4, SentSettles
  <2> QED
    BY <2>1, <2>3, <2>5
<1> QED
  BY <1>1, <1>2

LEMMA StartNextCaseSettles ==
  ASSUME NEW w, NEW x, Between(w, x)
  PROVE  Settles(StartNextCase(w), w.auto, x)
<1> DEFINE cases == w.engine.cases
           left == {i \in DOMAIN cases : i > w.engine.index /\ cases[i] = "NotRun"}
           begin == IF Refuses(w) THEN {i \in left : PausesFirst(w.auto.suite[i])} ELSE left
           next == CHOOSE i \in begin : \A j \in begin : i <= j
           over == IF begin = {} THEN left ELSE {i \in left : i < next}
           passed == [i \in DOMAIN cases |-> IF i \in over THEN "Finished" ELSE cases[i]]
           begun == [passed EXCEPT ![next] = "Running"]
           e1 == [[w.engine EXCEPT !.cases = passed] EXCEPT !.index = Len(cases) + 1]
           e2 == [[[[[[[w.engine EXCEPT !.index = next] EXCEPT !.cases = begun]
                    EXCEPT !.budget = "ample"] EXCEPT !.position = 1]
                    EXCEPT !.original = "None"] EXCEPT !.accepted = FALSE]
                    EXCEPT !.before = w.engine.register]
<1>1. StartNextCase(w) = IF w.engine.state = "Aborting" THEN AbortRemaining(w)
                         ELSE IF begin = {} THEN BeginRelease(With(w, e1))
                         ELSE StartCase(With(w, e2))
  <2> DEFINE u1 == [w EXCEPT !.engine.cases = passed, !.engine.index = Len(cases) + 1]
  <2>1. StartNextCase(w) = IF w.engine.state = "Aborting" THEN AbortRemaining(w)
                           ELSE IF begin = {} THEN BeginRelease(u1) ELSE BeginCase(w, next, passed)
    BY ZenonT(30) DEF StartNextCase
  <2> HIDE DEF passed, over, next, begin, left
  <2>2. u1 = With(w, e1)
    BY DEF With, Between, InRun, LabWorld, NewEngine
  <2>3. BeginCase(w, next, passed) = StartCase(With(w, e2))
    <3> HIDE DEF cases
    <3> DEFINE u2 == [w EXCEPT !.engine.index = next, !.engine.cases = begun,
                               !.engine.budget = "ample", !.engine.position = 1,
                               !.engine.original = "None", !.engine.accepted = FALSE,
                               !.engine.before = w.engine.register]
    <3>1. BeginCase(w, next, passed) = StartCase(u2)
      BY DEF BeginCase
    <3>2. u2 = With(w, e2)
      <4> HIDE DEF begun
      <4> QED
        BY DEF With, Between, InRun, LabWorld, NewEngine
    <3> QED
      BY <3>1, <3>2
  <2> HIDE DEF u1, e1, e2
  <2> QED
    BY SMTT(30), <2>1, <2>2, <2>3
<1> HIDE DEF begun, passed, over, next, begin, left
<1>2. /\ DOMAIN e1 = EngineFields /\ e1.state = w.engine.state /\ e1.request = 0 /\ ~e1.delay
      /\ EngineKept(e1)
  BY EngineAssumption DEF Between, InRun, LabWorld, EngineFields, NewEngine, EngineKept
<1>3. /\ DOMAIN e2 = EngineFields /\ e2.state = w.engine.state /\ e2.request = 0 /\ ~e2.delay
      /\ EngineKept(e2) /\ e2.attempts = 0 /\ e2.budget = "ample" /\ e2.register = e2.before
      /\ e2.original = "None" /\ e2.position = 1 /\ e2.taken = 0 /\ e2.restores = 0
  BY EngineAssumption DEF Between, InRun, LabWorld, EngineFields, NewEngine, EngineKept
<1> HIDE DEF e1, e2
<1>4. /\ InRun(With(w, e1), x) /\ With(w, e1).engine = e1 /\ With(w, e1).auto = w.auto
      /\ InRun(With(w, e2), x) /\ With(w, e2).engine = e2 /\ With(w, e2).auto = w.auto
  BY <1>2, <1>3, InRunWith, WithIs DEF Between, InRun
<1>5. CASE w.engine.state = "Aborting"
  BY <1>1, <1>5, AbortRemainingSettles DEF Between
<1>6. CASE w.engine.state # "Aborting" /\ begin = {}
  <2>1. Settles(BeginRelease(With(w, e1)), w.auto, x)
    BY <1>2, <1>4, BeginReleaseSettles
  <2> QED
    BY <1>1, <1>6, <2>1
<1>7. CASE w.engine.state # "Aborting" /\ begin # {}
  <2>1. w.engine.state = "Running"
    BY <1>7 DEF Between, InRun, Busy
  <2>2. Settles(StartCase(With(w, e2)), w.auto, x)
    BY <1>3, <1>4, <2>1, StartCaseSettles DEF Between
  <2> QED
    BY <1>1, <1>7, <2>2
<1> QED
  BY <1>5, <1>6, <1>7

LEMMA CompleteCaseSettles ==
  ASSUME NEW w, NEW x, InRun(w, x), NEW unclean \in BOOLEAN,
         unclean \/ w.engine.register = w.engine.before
  PROVE  Settles(CompleteCase(w, unclean), w.auto, x)
<1> DEFINE changed == w.engine.register # w.engine.before
           cases == [w.engine.cases EXCEPT ![w.engine.index] = "Finished"]
           silent == w.engine.silent \/ (changed /\ ~unclean)
           e == [[[[[[[[[w.engine EXCEPT !.cases = cases] EXCEPT !.step = "None"]
                  EXCEPT !.request = 0] EXCEPT !.delay = FALSE] EXCEPT !.attempts = 0]
                  EXCEPT !.taken = 0] EXCEPT !.restores = 0] EXCEPT !.tries = 0]
                  EXCEPT !.silent = silent]
<1>1. CompleteCase(w, unclean) =
        IF w.engine.state = "Aborting" THEN AbortRemaining(With(w, e)) ELSE StartNextCase(With(w, e))
  <2>1. [w EXCEPT
           !.engine.cases[w.engine.index] = "Finished", !.engine.step = "None",
           !.engine.request = 0, !.engine.delay = FALSE, !.engine.attempts = 0,
           !.engine.taken = 0, !.engine.restores = 0, !.engine.tries = 0,
           !.engine.silent = @ \/ (changed /\ ~unclean)] = With(w, e)
    BY DEF With, InRun, LabWorld, NewEngine
  <2> QED
    BY <2>1 DEF CompleteCase
<1>2. ~silent
  BY DEF InRun, EngineKept
<1>3. PICK s \in BOOLEAN : s = silent /\ ~s
  BY <1>2
<1> HIDE DEF silent, cases
<1>4. /\ DOMAIN e = EngineFields /\ e.state = w.engine.state /\ e.request = 0 /\ e.delay = FALSE
      /\ e.attempts = 0 /\ e.register = w.engine.register /\ e.before = w.engine.before
      /\ e.silent = s /\ e.taken = 0 /\ e.restores = 0 /\ e.tries = 0
      /\ e.position = w.engine.position /\ e.overdue = w.engine.overdue
  BY <1>3 DEF InRun, LabWorld, EngineFields, NewEngine
<1> HIDE DEF e
<1>5. EngineKept(e)
  BY <1>3, <1>4, EngineAssumption DEF InRun, EngineKept
<1>6. InRun(With(w, e), x) /\ With(w, e).engine = e /\ With(w, e).auto = w.auto
  BY <1>4, <1>5, InRunWith, WithIs DEF InRun
<1>7. Between(With(w, e), x)
  BY <1>4, <1>6 DEF Between
<1>8. /\ Settles(AbortRemaining(With(w, e)), w.auto, x)
      /\ Settles(StartNextCase(With(w, e)), w.auto, x)
  BY <1>4, <1>6, <1>7, AbortRemainingSettles, StartNextCaseSettles
<1> QED
  BY <1>1, <1>8

LEMMA CleanupSettles ==
  ASSUME NEW w, NEW x, InRun(w, x), FreeId(w.host.client) # {}, ~w.engine.delay,
         Kind(w) = "WriteAndVerify", w.engine.original \in {"None", w.engine.before},
         w.engine.original = "None" \/ ~w.engine.accepted => w.engine.register = w.engine.before,
         w.engine.restores = 0, w.engine.taken <= 3
  PROVE  Settles(CleanupOrFinish(w), w.auto, x)
<1> DEFINE e == [[w.engine EXCEPT !.attempts = 0] EXCEPT !.tries = 0]
<1>1. CleanupOrFinish(w) =
        IF w.engine.original = "None" \/ ~w.engine.accepted THEN CompleteCase(w, FALSE)
        ELSE IF Refuses(w) THEN CompleteCase(w, TRUE) ELSE Sent(With(w, e), "Restore")
  BY DEF CleanupOrFinish, With, InRun, LabWorld, NewEngine
<1>2. /\ DOMAIN e = EngineFields /\ e.state = w.engine.state /\ e.attempts = 0 /\ EngineKept(e)
      /\ e.delay = w.engine.delay /\ e.index = w.engine.index /\ e.original = w.engine.original
      /\ e.accepted = w.engine.accepted /\ e.before = w.engine.before
      /\ e.restores = 0 /\ e.taken = w.engine.taken
  BY EngineAssumption DEF InRun, LabWorld, EngineFields, NewEngine, EngineKept
<1> HIDE DEF e
<1> DEFINE u == With(w, e)
<1>3. /\ InRun(u, x) /\ u.engine = e /\ u.auto = w.auto /\ u.host = w.host /\ Kind(u) = Kind(w)
  BY <1>2, InRunWith, WithIs, KindWith DEF InRun
<1> HIDE DEF u
<1>4. CASE w.engine.original = "None" \/ ~w.engine.accepted
  BY <1>1, <1>4, CompleteCaseSettles
<1>5. CASE ~(w.engine.original = "None" \/ ~w.engine.accepted) /\ Refuses(w)
  BY <1>1, <1>5, CompleteCaseSettles
<1>6. CASE ~(w.engine.original = "None" \/ ~w.engine.accepted) /\ ~Refuses(w)
  <2>1. StepFits(u, "Restore") /\ "Restore" \in Step /\ Quota(u, "Restore") = 3
    BY <1>2, <1>3, <1>6 DEF StepFits, Step, Quota
  <2>2. Settles(Sent(u, "Restore"), u.auto, x)
    BY <1>2, <1>3, <2>1, SentSettles
  <2> QED
    BY <1>1, <1>3, <1>6, <2>2 DEF u
<1> QED
  BY <1>4, <1>5, <1>6

LEMMA AbandonSettles ==
  ASSUME NEW w, NEW x, InRun(w, x), ~w.engine.delay,
         Kind(w) # "WriteAndVerify" => w.engine.register = w.engine.before,
         Kind(w) = "WriteAndVerify" => FreeId(w.host.client) # {},
         Kind(w) = "WriteAndVerify" /\ w.engine.step # "Restore" =>
           /\ w.engine.original \in {"None", w.engine.before}
           /\ w.engine.original = "None" \/ ~w.engine.accepted =>
                w.engine.register = w.engine.before
           /\ w.engine.restores = 0 /\ w.engine.taken <= 3
  PROVE  Settles(AbandonCase(w), w.auto, x)
BY CompleteCaseSettles, CleanupSettles DEF AbandonCase

LEMMA SubmitSettles ==
  ASSUME NEW w, NEW x, InRun(w, x), w.engine.state = "Running", ~w.engine.delay,
         NEW step \in Step \ {"Restore"}, StepFits(w, step), w.engine.attempts <= MaxRetries,
         w.engine.restores = 0, w.engine.taken <= Quota(w, step)
  PROVE  Settles(Submit(w, step), w.auto, x)
<1> DEFINE e == [w.engine EXCEPT !.step = step]
<1>1. Submit(w, step) = IF w.engine.budget = "spent" \/ Refuses(w) THEN AbandonCase(With(w, e))
                        ELSE Sent(w, step)
  BY DEF Submit, With, InRun, LabWorld, NewEngine
<1>2. /\ DOMAIN e = EngineFields /\ e.state = w.engine.state /\ e.step = step /\ EngineKept(e)
      /\ e.delay = w.engine.delay /\ e.index = w.engine.index /\ e.original = w.engine.original
      /\ e.accepted = w.engine.accepted /\ e.before = w.engine.before
      /\ e.register = w.engine.register /\ e.restores = 0 /\ e.taken = w.engine.taken
  BY EngineAssumption DEF InRun, LabWorld, EngineFields, NewEngine, EngineKept
<1> HIDE DEF e
<1> DEFINE u == With(w, e)
<1>3. /\ InRun(u, x) /\ u.engine = e /\ u.auto = w.auto /\ u.host = w.host /\ Kind(u) = Kind(w)
  BY <1>2, InRunWith, WithIs, KindWith DEF InRun
<1> HIDE DEF u
<1>4. FreeId(w.host.client) # {}
  BY DEF InRun
<1>5. Settles(AbandonCase(u), u.auto, x)
  <2>1. Kind(u) = "WriteAndVerify" =>
           /\ e.original \in {"None", e.before}
           /\ e.original = "None" \/ ~e.accepted => e.register = e.before
           /\ e.restores = 0 /\ e.taken <= 3
    <3>1. e.accepted <=> w.engine.accepted
      BY <1>2, Zenon
    <3>2. ASSUME Kind(w) = "WriteAndVerify"
          PROVE  /\ w.engine.original \in {"None", w.engine.before}
                 /\ w.engine.accepted \/ w.engine.register = w.engine.before
      BY <3>2 DEF StepFits
    <3>3. ASSUME Kind(w) = "WriteAndVerify", w.engine.original = "None"
          PROVE  w.engine.register = w.engine.before
      BY <3>3, EngineAssumption DEF StepFits, InRun, EngineKept, Values
    <3>4. Kind(w) = "WriteAndVerify" => Quota(w, step) <= 3
      BY DEF Quota
    <3>5. Kind(w) = "WriteAndVerify" => Quota(w, step) \in Nat /\ e.taken \in Nat
      BY <1>2 DEF Quota, EngineKept
    <3> QED
      BY <1>2, <1>3, <3>1, <3>2, <3>3, <3>4, <3>5
  <2>2. Kind(u) # "WriteAndVerify" => e.register = e.before
    BY <1>2, <1>3 DEF StepFits
  <2> QED
    BY <1>2, <1>3, <1>4, <2>1, <2>2, AbandonSettles
<1>6. CASE ~(w.engine.budget = "spent" \/ Refuses(w))
  <2>1. Settles(Sent(w, step), w.auto, x)
    BY <1>4, <1>6, SentSettles
  <2> QED
    BY <1>1, <1>6, <2>1
<1> QED
  BY <1>1, <1>3, <1>5, <1>6 DEF u

LEMMA NextStepSettles ==
  ASSUME NEW w, NEW x, InRun(w, x), w.engine.state = "Running", ~w.engine.delay,
         NEW step \in Step \ {"Restore"}, StepFits(w, step),
         w.engine.restores = 0, w.engine.taken + 1 <= Quota(w, step)
  PROVE  Settles(NextStep(w, step), w.auto, x)
<1> DEFINE u == Anew(w)
<1>1. NextStep(w, step) = Submit(u, step)
  BY DEF NextStep
<1>2. /\ InRun(u, x) /\ u.auto = w.auto /\ Kind(u) = Kind(w)
      /\ u.engine.attempts = 0 /\ u.engine.taken = w.engine.taken + 1
      /\ u.engine.state = "Running" /\ ~u.engine.delay /\ u.engine.original = w.engine.original
      /\ u.engine.accepted = w.engine.accepted /\ u.engine.before = w.engine.before
      /\ u.engine.register = w.engine.register /\ u.engine.position = w.engine.position
      /\ u.engine.restores = 0
  BY AnewIs
<1> HIDE DEF u
<1>3. StepFits(u, step) /\ 0 <= MaxRetries
  BY <1>2, EngineAssumption DEF StepFits
<1>4. Quota(u, step) = Quota(w, step)
  BY <1>2 DEF Quota
<1>5. Settles(Submit(u, step), u.auto, x)
  BY <1>2, <1>3, <1>4, SubmitSettles
<1> QED
  BY <1>1, <1>2, <1>5

\* A case that has not written, at the end of one of its requests.
Reads(w, x) ==
  /\ InRun(w, x) /\ w.engine.request = 0 /\ ~w.engine.delay
  /\ Kind(w) # "WriteAndVerify" /\ w.engine.register = w.engine.before
  /\ w.engine.restores = 0 /\ w.engine.taken <= Quota(w, "CompositeStep")

\* It has a step before it.
Samples(w, x) ==
  /\ Reads(w, x) /\ Kind(w) # "Single" /\ w.engine.state = "Running"
  /\ w.engine.taken + 1 <= Quota(w, "CompositeStep")

LEMMA NextSampleSettles ==
  ASSUME NEW w, NEW x, Samples(w, x)
  PROVE  Settles(NextStep(w, "CompositeStep"), w.auto, x)
BY NextStepSettles DEF Samples, Reads, StepFits, Step, FirstStep

LEMMA PauseSettles ==
  ASSUME NEW w, NEW x, Samples(w, x)
  PROVE  Settles(Pause(w), w.auto, x)
<1> DEFINE e == [w.engine EXCEPT !.step = "None"]
<1>1. Pause(w) = IF w.engine.budget # "ample" THEN AbandonCase(With(w, e)) ELSE Paused(w)
  BY DEF Pause, With, Samples, Reads, InRun, LabWorld, NewEngine
<1>2. /\ DOMAIN e = EngineFields /\ e.state = w.engine.state /\ EngineKept(e)
      /\ e.delay = w.engine.delay /\ e.index = w.engine.index
      /\ e.register = e.before
  BY EngineAssumption DEF Samples, Reads, InRun, LabWorld, EngineFields, NewEngine, EngineKept
<1> HIDE DEF e
<1> DEFINE u == With(w, e)
<1>3. /\ InRun(u, x) /\ u.engine = e /\ u.auto = w.auto /\ Kind(u) = Kind(w)
  BY <1>2, InRunWith, WithIs, KindWith DEF Samples, Reads, InRun
<1> HIDE DEF u
<1>4. Settles(AbandonCase(u), w.auto, x)
  BY <1>2, <1>3, AbandonSettles DEF Samples, Reads
<1>5. Settles(Paused(w), w.auto, x)
  BY PausedSettles DEF Samples, Reads
<1> QED
  BY <1>1, <1>4, <1>5 DEF u

\* The next part of a case of several, or the end of it.
LEMMA AfterPartSettles ==
  ASSUME NEW w, NEW x, Reads(w, x), w.engine.state = "Running",
         Kind(w) \notin {"Single", "Stability"}
  PROVE  Settles(AfterPart(w), w.auto, x)
<1> DEFINE e == [w.engine EXCEPT !.position = w.engine.position + 1]
<1>1. AfterPart(w) = IF w.engine.position = Steps THEN CompleteCase(w, FALSE) ELSE NextPart(With(w, e))
  BY DEF AfterPart, With, Reads, InRun, LabWorld, NewEngine
<1>2. CASE w.engine.position # Steps
  <2>1. /\ DOMAIN e = EngineFields /\ e.state = w.engine.state /\ EngineKept(e)
        /\ e.delay = w.engine.delay /\ e.index = w.engine.index /\ e.request = w.engine.request
        /\ e.register = e.before /\ e.restores = 0 /\ e.taken = w.engine.taken
        /\ e.position = w.engine.position + 1
    BY <1>2, EngineAssumption DEF Reads, InRun, LabWorld, EngineFields, NewEngine, EngineKept
  <2> HIDE DEF e
  <2> DEFINE u == With(w, e)
  <2>2. /\ InRun(u, x) /\ u.engine = e /\ u.auto = w.auto /\ Kind(u) = Kind(w)
    BY <2>1, InRunWith, WithIs, KindWith DEF Reads, InRun
  <2> HIDE DEF u
  <2>3. Quota(w, "CompositeStep") = w.engine.position /\ Quota(u, "CompositeStep") = e.position
        /\ Kind(u) # "WriteAndVerify"
    BY <2>2 DEF Quota, Reads
  <2>4. w.engine.taken \in Nat /\ w.engine.position \in Nat
    BY EngineAssumption DEF Reads, InRun, EngineKept
  <2>5. Samples(u, x)
    BY <2>1, <2>2, <2>3, <2>4 DEF Reads, Samples
  <2>6. Settles(NextPart(u), u.auto, x)
    BY <2>5, PauseSettles, NextSampleSettles DEF NextPart
  <2> QED
    BY <1>1, <1>2, <2>2, <2>6 DEF u
<1>3. CASE w.engine.position = Steps
  BY <1>1, <1>3, CompleteCaseSettles DEF Reads
<1> QED
  BY <1>2, <1>3

\* The next iteration of a stability case, or the end of it.
LEMMA NextIterationSettles ==
  ASSUME NEW w, NEW x, Reads(w, x), w.engine.state = "Running", Kind(w) = "Stability"
  PROVE  Settles(NextIteration(w), w.auto, x)
<1> DEFINE e == [w.engine EXCEPT !.taken = 0]
           u == With(w, e)
<1>1. NextIteration(w) =
        IF w.engine.budget # "ample" THEN CompleteCase(w, FALSE)
        ELSE IF w.engine.late THEN NextStep(u, "CompositeStep") ELSE Pause(u)
  BY DEF NextIteration, With, Reads, InRun, LabWorld, NewEngine
<1>2. /\ DOMAIN e = EngineFields /\ e.state = w.engine.state /\ EngineKept(e)
      /\ e.delay = w.engine.delay /\ e.index = w.engine.index /\ e.request = w.engine.request
      /\ e.register = e.before /\ e.restores = 0 /\ e.taken = 0
  BY EngineAssumption DEF Reads, InRun, LabWorld, EngineFields, NewEngine, EngineKept
<1> HIDE DEF e
<1>3. /\ InRun(u, x) /\ u.engine = e /\ u.auto = w.auto /\ Kind(u) = Kind(w)
  BY <1>2, InRunWith, WithIs, KindWith DEF Reads, InRun
<1> HIDE DEF u
<1>4. Quota(u, "CompositeStep") = 1
  BY <1>3 DEF Quota
<1>5. Samples(u, x)
  BY <1>2, <1>3, <1>4 DEF Reads, Samples
<1>6. Settles(CompleteCase(w, FALSE), w.auto, x)
  BY CompleteCaseSettles DEF Reads
<1>7. Settles(NextStep(u, "CompositeStep"), w.auto, x) /\ Settles(Pause(u), w.auto, x)
  BY <1>3, <1>5, PauseSettles, NextSampleSettles
<1> QED
  BY <1>1, <1>6, <1>7

\* A case whose request or pause has come to its end.
Returns(w, x) ==
  /\ InRun(w, x) /\ w.engine.request = 0 /\ ~w.engine.delay /\ CaseKeeps(w) /\ CaseCounts(w)
  /\ Kind(w) = "WriteAndVerify" => FreeId(w.host.client) # {}

LEMMA KeepsKnows ==
  ASSUME NEW w, CaseKeeps(w), CaseCounts(w), EngineKept(w.engine)
  PROVE  /\ Kind(w) # "WriteAndVerify" =>
              /\ w.engine.register = w.engine.before /\ w.engine.restores = 0
              /\ w.engine.taken <= Quota(w, "CompositeStep")
         /\ Kind(w) = "WriteAndVerify" /\ w.engine.step # "Restore" =>
              /\ w.engine.original \in {"None", w.engine.before}
              /\ w.engine.original = "None" \/ ~w.engine.accepted =>
                   w.engine.register = w.engine.before
              /\ w.engine.restores = 0 /\ w.engine.taken <= 3
<1>1. w.engine.before # "None"
  BY EngineAssumption DEF EngineKept, Values
<1>2. Kind(w) # "WriteAndVerify" =>
        /\ w.engine.step # "Restore" /\ Quota(w, w.engine.step) = Quota(w, "CompositeStep")
  BY DEF CaseKeeps, FirstStep, Quota
<1>3. Kind(w) = "WriteAndVerify" => Quota(w, w.engine.step) \in 1..3
  BY DEF Quota
<1>4. Kind(w) = "WriteAndVerify" => w.engine.taken <= 3
  BY <1>3 DEF CaseCounts, EngineKept
<1> QED
  BY <1>1, <1>2, <1>4 DEF CaseKeeps, CaseCounts

LEMMA ErrorSettles ==
  ASSUME NEW w, NEW x, Returns(w, x), NEW error, error \in Refusal \/ w.engine.state = "Running",
         NEW accepted \in BOOLEAN
  PROVE  Settles(HandleCommunicationError(w, error, accepted), w.auto, x)
<1> DEFINE keeps == w.engine.accepted \/ (w.engine.step = "Write" /\ accepted)
           e == [w.engine EXCEPT !.accepted = keeps]
           u == With(w, e)
           v == HandleCommunicationError(w, error, accepted)
<1>1. CASE Kind(w) = "WriteAndVerify"
  <2>1. v = AbandonCase(u)
    BY <1>1 DEF HandleCommunicationError, With, Returns, InRun, LabWorld, NewEngine
  <2>2. PICK b \in BOOLEAN : b = keeps
    OBVIOUS
  <2>3. w.engine.accepted => b
    BY <2>2
  <2> HIDE DEF keeps, v
  <2>4. /\ DOMAIN e = EngineFields /\ e.state = w.engine.state /\ EngineKept(e)
        /\ e.delay = w.engine.delay /\ e.index = w.engine.index /\ e.step = w.engine.step
        /\ e.register = w.engine.register /\ e.before = w.engine.before
        /\ e.original = w.engine.original /\ e.accepted = b
        /\ e.restores = w.engine.restores /\ e.taken = w.engine.taken
    BY <2>2 DEF Returns, InRun, LabWorld, EngineFields, NewEngine, EngineKept
  <2> HIDE DEF e
  <2>5. /\ InRun(u, x) /\ u.engine = e /\ u.auto = w.auto /\ u.host = w.host /\ Kind(u) = Kind(w)
    BY <2>4, InRunWith, WithIs, KindWith DEF Returns, InRun
  <2> HIDE DEF u
  <2>6. CaseKeeps(u) /\ CaseCounts(u)
    <3>1. CaseKeeps(u)
      BY <2>3, <2>4, <2>5 DEF Returns, CaseKeeps
    <3>2. Quota(u, w.engine.step) = Quota(w, w.engine.step)
      BY <1>1, <2>5 DEF Quota
    <3>3. CaseCounts(u)
      BY <2>4, <2>5, <3>2 DEF Returns, CaseCounts
    <3> QED
      BY <3>1, <3>3
  <2>7. /\ Kind(u) = "WriteAndVerify" /\ u.engine.step # "Restore" =>
             /\ u.engine.original \in {"None", u.engine.before}
             /\ u.engine.original = "None" \/ ~u.engine.accepted =>
                  u.engine.register = u.engine.before
             /\ u.engine.restores = 0 /\ u.engine.taken <= 3
    BY <2>4, <2>5, <2>6, KeepsKnows
  <2>8. Settles(AbandonCase(u), u.auto, x)
    BY <1>1, <2>4, <2>5, <2>7, AbandonSettles DEF Returns
  <2> QED
    BY <2>1, <2>5, <2>8 DEF v
<1>2. CASE Kind(w) # "WriteAndVerify"
  <2>1. Reads(w, x)
    BY <1>2, KeepsKnows DEF Returns, Reads, InRun
  <2>2. Settles(CompleteCase(w, FALSE), w.auto, x)
    BY <2>1, CompleteCaseSettles DEF Reads
  <2>3. CASE Kind(w) = "Sequence" /\ error \notin Refusal
    BY <2>1, <2>3, AfterPartSettles DEF HandleCommunicationError
  <2>4. CASE Kind(w) = "Stability" /\ error = "Timeout"
    BY <2>1, <2>4, NextIterationSettles DEF HandleCommunicationError, Refusal
  <2>5. CASE /\ ~(Kind(w) = "Sequence" /\ error \notin Refusal)
             /\ ~(Kind(w) = "Stability" /\ error = "Timeout")
    BY <1>2, <2>2, <2>5 DEF HandleCommunicationError
  <2> QED
    BY <2>3, <2>4, <2>5
<1> QED
  BY <1>1, <1>2

LEMMA ResultSettles ==
  ASSUME NEW w, NEW x, Returns(w, x), w.engine.step \in Step, NEW outcome,
         w.engine.step # "Restore" => w.engine.state = "Running",
         w.engine.step = "Restore" /\ outcome = "Values" => w.engine.register = w.engine.before
  PROVE  Settles(HandleResult(w, outcome), w.auto, x)
<1> DEFINE step == w.engine.step
           v == HandleResult(w, outcome)
<1>1. InRun(w, x) /\ ~w.engine.delay /\ CaseKeeps(w) /\ CaseCounts(w)
  BY DEF Returns
<1>2. CASE Kind(w) # "WriteAndVerify"
  <2>1. Reads(w, x) /\ step \in {"Single", "CompositeStep"} /\ w.engine.state = "Running"
    BY <1>1, <1>2, KeepsKnows DEF Returns, Reads, InRun, CaseKeeps, Step, FirstStep
  <2>2. step = FirstStep(Kind(w))
    BY <1>1, <1>2 DEF CaseKeeps, Step
  <2>3. Settles(CompleteCase(w, FALSE), w.auto, x)
    BY <2>1, CompleteCaseSettles DEF Reads
  <2>4. CASE step = "Single"
    BY <2>3, <2>4 DEF HandleResult
  <2>5. CASE step = "CompositeStep"
    <3>1. Kind(w) # "Single"
      BY <2>2, <2>5 DEF FirstStep
    <3>2. CASE Kind(w) = "Stability"
      BY <2>1, <2>5, <3>2, NextIterationSettles DEF HandleResult
    <3>3. CASE Kind(w) # "Stability"
      <4>1. Settles(AfterPart(w), w.auto, x)
        BY <2>1, <3>1, <3>3, AfterPartSettles
      <4> QED
        BY <2>3, <2>5, <3>3, <4>1 DEF HandleResult
    <3> QED
      BY <3>2, <3>3
  <2> QED
    BY <2>1, <2>4, <2>5
<1>3. CASE Kind(w) = "WriteAndVerify" /\ step = "ReadBefore"
  <2> DEFINE e == [w.engine EXCEPT !.original = w.engine.register]
             u == With(w, e)
  <2>1. v = IF outcome = "Values" THEN NextStep(u, "Write") ELSE CompleteCase(w, FALSE)
    BY <1>1, <1>3 DEF HandleResult, With, InRun, LabWorld, NewEngine
  <2>2. /\ DOMAIN e = EngineFields /\ e.state = "Running" /\ EngineKept(e)
        /\ e.state = w.engine.state
        /\ e.delay = w.engine.delay /\ e.index = w.engine.index
        /\ e.register = e.before /\ e.original = e.before
        /\ e.restores = 0 /\ e.taken + 1 <= 2
    BY <1>1, <1>3
      DEF InRun, LabWorld, EngineFields, NewEngine, EngineKept, CaseKeeps, CaseCounts, Quota
  <2> HIDE DEF e
  <2>3. /\ InRun(u, x) /\ u.engine = e /\ u.auto = w.auto /\ Kind(u) = Kind(w)
    BY <1>1, <2>2, InRunWith, WithIs, KindWith DEF InRun
  <2> HIDE DEF u
  <2>4. StepFits(u, "Write") /\ "Write" \in Step \ {"Restore"} /\ Quota(u, "Write") = 2
    BY <1>3, <2>2, <2>3 DEF StepFits, Step, Quota
  <2>5. Settles(NextStep(u, "Write"), u.auto, x)
    BY <1>1, <2>2, <2>3, <2>4, NextStepSettles
  <2>6. Settles(CompleteCase(w, FALSE), w.auto, x)
    BY <1>1, <1>3, CompleteCaseSettles DEF CaseKeeps
  <2> QED
    BY <2>1, <2>3, <2>5, <2>6
<1>4. CASE Kind(w) = "WriteAndVerify" /\ step \in {"Write", "Verify"}
  <2>1. v = CleanupOrFinish(w) \/ (step = "Write" /\ v = NextStep(w, "Verify"))
    BY <1>4 DEF HandleResult
  <2>2. w.engine.state = "Running" /\ StepFits(w, "Verify") /\ "Verify" \in Step \ {"Restore"}
    BY <1>1, <1>4 DEF CaseKeeps, StepFits, Step
  <2>3. ASSUME step = "Write"
        PROVE  Settles(NextStep(w, "Verify"), w.auto, x)
    <3>1. w.engine.restores = 0 /\ w.engine.taken \in Nat /\ w.engine.taken <= 2
      BY <1>1, <1>4, <2>3 DEF CaseCounts, Quota, InRun, EngineKept
    <3>2. Quota(w, "Verify") = 3 /\ w.engine.taken + 1 <= 3
      BY <1>4, <3>1 DEF Quota
    <3> QED
      BY <1>1, <2>2, <3>1, <3>2, NextStepSettles
  <2>4. Settles(CleanupOrFinish(w), w.auto, x)
    BY <1>1, <1>4, KeepsKnows, CleanupSettles DEF Returns, InRun
  <2> HIDE DEF v
  <2> QED
    BY <2>1, <2>3, <2>4 DEF v
<1>5. CASE Kind(w) = "WriteAndVerify" /\ step = "Restore"
  <2> DEFINE unclean == outcome # "Values"
  <2>1. v = CompleteCase(w, unclean) /\ unclean \in BOOLEAN
    BY <1>5 DEF HandleResult
  <2>2. unclean \/ w.engine.register = w.engine.before
    BY <1>5
  <2> HIDE DEF unclean, v
  <2> QED
    BY <1>1, <2>1, <2>2, CompleteCaseSettles DEF v
<1> QED
  BY <1>1, <1>2, <1>3, <1>4, <1>5 DEF CaseKeeps, Step

LEMMA RequestCompletedSettles ==
  ASSUME NEW w, NEW x, InRun(w, x), FreeId(w.host.client) # {}, ~w.engine.delay, CaseKeeps(w),
         CaseCounts(w), w.engine.step \in Step, NEW outcome \in Outcome,
         w.engine.step = "Restore" /\ outcome = "Values" => w.engine.register = w.engine.before
  PROVE  Settles(RequestCompleted(w, w.engine.request, outcome), w.auto, x)
<1> DEFINE e == [w.engine EXCEPT !.request = 0]
           u == With(w, e)
           step == w.engine.step
           spent == w.engine.budget = "spent"
           aborted == w.engine.state = "Aborting" /\ step # "Restore"
           retries == /\ outcome = "Timeout" /\ step # "Restore" /\ ~spent
                      /\ w.engine.state # "Aborting" /\ w.engine.attempts <= MaxRetries
           v == RequestCompleted(w, w.engine.request, outcome)
<1>1. [w EXCEPT !.engine.request = 0] = u
  BY DEF With, InRun, LabWorld
<1>2. v = IF aborted THEN HandleCommunicationError(u, "Aborted", TRUE)
          ELSE IF outcome \in {"Values", "Exception"} THEN HandleResult(u, outcome)
          ELSE IF retries THEN Submit(u, step)
          ELSE HandleCommunicationError(u, IF spent THEN "CaseTimeout" ELSE outcome, TRUE)
  <2> HIDE DEF u
  <2> QED
    BY <1>1 DEF RequestCompleted
<1>3. /\ DOMAIN e = EngineFields /\ e.request = 0 /\ EngineKept(e) /\ e.state = w.engine.state
      /\ e.delay = w.engine.delay /\ e.index = w.engine.index /\ e.step = step
      /\ e.register = w.engine.register /\ e.before = w.engine.before
      /\ e.original = w.engine.original /\ e.accepted = w.engine.accepted
      /\ e.attempts = w.engine.attempts /\ e.position = w.engine.position
      /\ e.taken = w.engine.taken /\ e.restores = w.engine.restores
  BY DEF InRun, LabWorld, EngineFields, NewEngine, EngineKept
<1> HIDE DEF e
<1>4. /\ InRun(u, x) /\ u.engine = e /\ u.auto = w.auto /\ u.host = w.host /\ Kind(u) = Kind(w)
  BY <1>3, InRunWith, WithIs, KindWith DEF InRun
<1> HIDE DEF u
<1>5. CaseKeeps(u) /\ CaseCounts(u)
  BY <1>3, <1>4 DEF CaseKeeps, CaseCounts, Quota
<1>6. Returns(u, x)
  BY <1>3, <1>4, <1>5 DEF Returns
<1>7. CASE aborted
  <2>1. Settles(HandleCommunicationError(u, "Aborted", TRUE), u.auto, x)
    BY <1>6, ErrorSettles DEF Refusal
  <2> QED
    BY <1>2, <1>4, <1>7, <2>1
<1>8. CASE ~aborted /\ outcome \in {"Values", "Exception"}
  <2>1. u.engine.step # "Restore" => u.engine.state = "Running"
    BY <1>3, <1>4, <1>8 DEF InRun, Busy
  <2>2. Settles(HandleResult(u, outcome), u.auto, x)
    BY <1>3, <1>4, <1>6, <2>1, ResultSettles
  <2> QED
    BY <1>2, <1>4, <1>8, <2>2
<1>9. CASE ~aborted /\ outcome \notin {"Values", "Exception"} /\ retries
  <2>1. u.engine.state = "Running" /\ step \in Step \ {"Restore"} /\ u.engine.attempts <= MaxRetries
    BY <1>3, <1>4, <1>9 DEF InRun, Busy
  <2>2. StepFits(u, step) /\ u.engine.restores = 0 /\ u.engine.taken <= Quota(u, step)
    BY <1>3, <1>4, <1>5, <2>1 DEF StepFits, CaseKeeps, CaseCounts, Step
  <2>3. Settles(Submit(u, step), u.auto, x)
    BY <1>3, <1>4, <2>1, <2>2, SubmitSettles
  <2> QED
    BY <1>2, <1>4, <1>9, <2>3
<1>10. CASE ~aborted /\ outcome \notin {"Values", "Exception"} /\ ~retries
  <2> DEFINE error == IF spent THEN "CaseTimeout" ELSE outcome
  <2>1. CASE step # "Restore"
    <3>1. u.engine.state = "Running"
      BY <1>3, <1>4, <1>10, <2>1 DEF InRun, Busy
    <3>2. Settles(HandleCommunicationError(u, error, TRUE), u.auto, x)
      BY <1>6, <3>1, ErrorSettles
    <3> QED
      BY <1>2, <1>4, <1>10, <3>2
  <2>2. CASE step = "Restore"
    <3>1. Kind(u) = "WriteAndVerify"
      BY <1>3, <1>4, <1>5, <2>2 DEF CaseKeeps, FirstStep
    <3>2. \A f : HandleCommunicationError(u, f, TRUE) = HandleCommunicationError(u, "Aborted", TRUE)
      BY <3>1 DEF HandleCommunicationError
    <3>3. Settles(HandleCommunicationError(u, "Aborted", TRUE), u.auto, x)
      BY <1>6, ErrorSettles DEF Refusal
    <3> QED
      BY <1>2, <1>4, <1>10, <3>2, <3>3
  <2> QED
    BY <2>1, <2>2
<1> QED
  BY <1>7, <1>8, <1>9, <1>10

-----------------------------------------------------------------------------
(***************************************************************************)
(* The calls and slots of the engine and of the automation.                *)
(***************************************************************************)
LEMMA SettlesFits ==
  ASSUME NEW v, NEW a, NEW x, Settles(v, a, x), a.state = "Running", a.action = "None"
  PROVE  LabFits(v, x)
BY DEF Settles, LabFits, AutoFits, Waiting

LEMMA AbortFits ==
  ASSUME NEW w0, NEW x, LabFits(w0, x), w0.engine.state = "Running", w0.auto.state = "Running"
  PROVE  LET v == AbortedWorld([w0 EXCEPT !.engine.state = "Aborting"])
         IN LabFits(v, x)
<1> DEFINE w == [w0 EXCEPT !.engine.state = "Aborting"]
           e == [w0.engine EXCEPT !.state = "Aborting"]
           v == AbortedWorld(w)
<1>1. LabWorld(w0) /\ HostFits(w0.host, x) /\ EngineKept(w0.engine) /\ HostServes(w0.host)
      /\ CaseWaits(w0) /\ CaseKeeps(w0) /\ CaseCounts(w0) /\ w0.auto.action = "None"
  BY DEF LabFits, EngineFits, AutoFits, Busy, Waiting
<1>2. w = With(w0, e)
  BY <1>1 DEF LabWorld, With
<1>3. /\ DOMAIN e = EngineFields /\ e.state = "Aborting" /\ EngineKept(e)
      /\ e.request = w0.engine.request /\ e.delay = w0.engine.delay /\ e.index = w0.engine.index
      /\ e.step = w0.engine.step /\ e.register = w0.engine.register
      /\ e.before = w0.engine.before /\ e.original = w0.engine.original
      /\ e.accepted = w0.engine.accepted /\ e.position = w0.engine.position
      /\ e.taken = w0.engine.taken /\ e.restores = w0.engine.restores
  BY <1>1 DEF LabWorld, EngineFields, NewEngine, EngineKept
<1> HIDE DEF e, w
<1>4. LabWorld(w) /\ w.engine = e /\ w.host = w0.host /\ w.auto = w0.auto /\ Kind(w) = Kind(w0)
  BY <1>1, <1>2, <1>3, WithIs, KindWith
<1>5. InRun(w, x) /\ CaseKeeps(w) /\ CaseCounts(w)
  BY <1>1, <1>3, <1>4 DEF InRun, Busy, CaseKeeps, CaseCounts, Quota
<1>6. w.host.client \in Client /\ 0 \notin Ids
  BY <1>1, <1>4, WorldHosts, AppAssumption DEF HostFits, Fine
<1>7. ASSUME w.engine.delay
      PROVE  LabFits(v, x)
  <2> DEFINE g == [w.engine EXCEPT !.delay = FALSE]
             u == With(w, g)
  <2>1. v = HandleCommunicationError(u, "Aborted", FALSE)
    BY <1>4, <1>7 DEF AbortedWorld, With, LabWorld
  <2>2. /\ DOMAIN g = EngineFields /\ g.state = "Aborting" /\ EngineKept(g)
        /\ g.request = 0 /\ ~g.delay /\ g.index = e.index /\ g.step = e.step
        /\ g.register = e.register /\ g.before = e.before /\ g.position = e.position
        /\ g.taken = e.taken /\ g.restores = e.restores
    BY <1>1, <1>3, <1>4, <1>7 DEF LabWorld, EngineFields, NewEngine, EngineKept, CaseWaits
  <2> HIDE DEF g
  <2>3. /\ InRun(u, x) /\ u.engine = g /\ u.auto = w.auto /\ Kind(u) = Kind(w)
    BY <1>3, <1>4, <1>5, <2>2, InRunWith, WithIs, KindWith
  <2> HIDE DEF u
  <2>4. Kind(u) # "WriteAndVerify"
    BY <1>1, <1>3, <1>4, <1>7, <2>3 DEF CaseWaits
  <2>5. Returns(u, x)
    <3>1. CaseCounts(u)
      BY <1>4, <1>5, <2>2, <2>3 DEF CaseCounts, Quota
    <3> QED
      BY <1>1, <1>3, <1>4, <2>2, <2>3, <2>4, <3>1 DEF Returns, CaseKeeps
  <2>6. Settles(v, w.auto, x)
    BY <2>1, <2>3, <2>5, ErrorSettles DEF Refusal
  <2> HIDE DEF v
  <2> QED
    BY <1>1, <1>4, <2>6, SettlesFits DEF Settles
<1>8. ASSUME ~w.engine.delay
      PROVE  LabFits(v, x)
  <2> DEFINE id == w.engine.request
             d == CancelCall(w.host.client, id)
             host == [w.host EXCEPT !.client = d]
             u == [w EXCEPT !.host = host]
  <2>1. id \in Open(w.host.client) /\ w.engine.step \in Step /\ id \in Ids /\ id # 0
    BY <1>1, <1>3, <1>4, <1>6, <1>8 DEF CaseWaits, Open, Client
  <2>2. v = IF w.engine.step # "Restore" /\ CanCancel(w.host.client, id) THEN u ELSE w
    <3>1. [w EXCEPT !.host.client = d] = u
      BY <1>4 DEF LabWorld
    <3>2. w.engine.step # "None" /\ id # 0
      BY <2>1, <1>6 DEF Step
    <3> HIDE DEF u
    <3> QED
      BY <1>8, <3>1, <3>2, ZenonT(30) DEF AbortedWorld
  <2>3. /\ HostFits(host, x) /\ Open(d) = Open(w.host.client)
    BY <1>1, <1>4, <1>6, <2>1, RequestCallsFit, RequestsKeep
  <2>4. host.client = d /\ host.app = w.host.app /\ FreeOp(d) = FreeOp(w.host.client)
    <3>1. d.asks = w.host.client.asks
      BY <1>6 DEF CancelCall, Client
    <3> HIDE DEF d
    <3> QED
      BY <1>1, <1>4, <3>1 DEF HostFits, Fine, Worlds, FreeOp, Asked
  <2> HIDE DEF d, host, id
  <2>5. LabWorld(u) /\ u.host = host /\ u.engine = e /\ u.auto = w.auto
    BY <1>4 DEF LabWorld
  <2> HIDE DEF u, v
  <2>6. /\ LabWorld(v) /\ v.host \in {host, w.host} /\ v.engine = e /\ v.auto = w0.auto
    BY <1>4, <2>2, <2>5
  <2>7. HostFits(v.host, x) /\ HostServes(v.host) /\ Open(v.host.client) = Open(w0.host.client)
        /\ v.host.app = w0.host.app
    BY <1>1, <1>4, <2>3, <2>4, <2>6 DEF HostServes
  <2>8. CaseWaits(v)
    BY <1>3, <1>4, <1>8, <2>1, <2>6, <2>7 DEF CaseWaits, id
  <2>9. CaseKeeps(v) /\ CaseCounts(v)
    BY <1>4, <1>5, <2>6 DEF CaseKeeps, CaseCounts, Quota, Kind
  <2>10. LabFits(v, x)
    BY <1>1, <1>3, <2>6, <2>7, <2>8, <2>9
      DEF LabFits, EngineFits, LineWanted, AutoFits, Busy, HostServes
  <2> QED
    BY <2>10
<1> QED
  BY <1>7, <1>8 DEF w

\* startEngine, with the line the automation has asked for.
LEMMA StartEngineFits ==
  ASSUME NEW w, NEW x, LabWorld(w), HostFits(w.host, x), EngineKept(w.engine),
         w.engine.state = "Idle", w.engine.request = 0, ~w.engine.delay,
         w.host.app.pending = NoPending, w.auto.state # "Running", w.auto.action = "None",
         FreeOp(w.host.client) # {}, FreeId(w.host.client) # {},
         w.host.app.state = "Testing" => ~w.host.client.inTransition
  PROVE  LET v == StartEngine(w)
         IN LabFits(v, x)
<1> DEFINE c == w.host.client
           cases == [i \in DOMAIN w.auto.suite |->
                       IF i \in w.auto.chosen THEN "NotRun" ELSE "Skipped"]
           cleared == Cleared(w, cases)
           u == [cleared EXCEPT !.engine.state = "Running"]
           s == StartNextCase(u)
           begins == /\ w.engine.state = "Idle" /\ w.host.app.state = "Testing"
                     /\ c.state = "Connected" /\ c.owner = Testing
           v == StartEngine(w)
           begun == [s EXCEPT !.auto.action = "None", !.auto.state = "Running"]
           cleanup == Orders(w, "CleanupTesting", "AcquiringTesting", StopTestingCall(w.host))
<1>1. v = IF begins THEN begun ELSE IF CanStopTesting(w.host) THEN cleanup ELSE EndWorkflow(w)
  BY DEF StartEngine
<1>2. w.host \in Worlds
  BY DEF HostFits, Fine
<1>3. CASE begins
  <2> HIDE DEF cases
  <2>1. /\ LabWorld(cleared) /\ EngineKept(cleared.engine) /\ DOMAIN cleared.engine = EngineFields
        /\ cleared.host = w.host /\ cleared.auto = w.auto
        /\ cleared.engine.request = 0 /\ ~cleared.engine.delay /\ cleared.engine.attempts = 0
        /\ cleared.engine.taken = 0 /\ cleared.engine.restores = 0
    BY ClearedIs, WithIs
  <2> HIDE DEF cleared
  <2> DEFINE e == [cleared.engine EXCEPT !.state = "Running"]
  <2>2. u = With(cleared, e)
    BY <2>1 DEF With, LabWorld
  <2>3. /\ DOMAIN e = EngineFields /\ e.state = "Running" /\ e.request = 0 /\ ~e.delay
        /\ e.attempts = 0 /\ EngineKept(e) /\ e.taken = 0 /\ e.restores = 0
    BY <2>1 DEF EngineFields, NewEngine, EngineKept
  <2> HIDE DEF e, u
  <2>4. LabWorld(u) /\ u.engine = e /\ u.host = w.host /\ u.auto = w.auto
    BY <2>1, <2>2, <2>3, WithIs
  <2>5. CanStopTesting(w.host)
    BY <1>3 DEF CanStopTesting, CanRelease, CanMove
  <2>6. Between(u, x)
    BY <1>3, <2>3, <2>4, <2>5 DEF Between, InRun, Busy, HostServes
  <2>7. Settles(s, w.auto, x)
    BY <2>4, <2>6, StartNextCaseSettles
  <2> HIDE DEF s
  <2>8. /\ LabWorld(s) /\ HostFits(s.host, x) /\ EngineFits(s) /\ LineWanted(s, x)
        /\ s.auto = w.auto /\ s.engine.state # "Idle"
        /\ s.host.app.pending.stage # "WaitingAcquireTesting"
    BY <2>7 DEF Settles
  <2> DEFINE a == [[s.auto EXCEPT !.action = "None"] EXCEPT !.state = "Running"]
  <2>9. begun = [s EXCEPT !.auto = a]
    BY <2>8 DEF LabWorld
  <2>10. DOMAIN a = DOMAIN NoRun /\ a.action = "None" /\ a.state = "Running"
         /\ a.suite = s.auto.suite
    BY <2>8 DEF LabWorld, NoRun
  <2> HIDE DEF a, begun
  <2>11. LabWorld(begun) /\ begun.host = s.host /\ begun.engine = s.engine /\ begun.auto = a
    BY <2>8, <2>9, <2>10 DEF LabWorld
  <2>12. EngineFits(begun) /\ LineWanted(begun, x)
    BY <2>8, <2>10, <2>11
      DEF EngineFits, LineWanted, CaseWaits, CaseKeeps, CaseCounts, Quota, Kind
  <2>13. AutoFits(begun, x)
    BY SMTT(30), <2>8, <2>10, <2>11 DEF AutoFits, Waiting
  <2> QED
    BY <1>1, <1>3, <2>8, <2>11, <2>12, <2>13 DEF LabFits
<1>4. CASE ~begins /\ CanStopTesting(w.host)
  <2> DEFINE host == StopTestingCall(w.host)
             a == [[w.auto EXCEPT !.action = "CleanupTesting"] EXCEPT !.state = "AcquiringTesting"]
  <2>1. cleanup = [[w EXCEPT !.host = host] EXCEPT !.auto = a]
    BY DEF Orders, LabWorld
  <2>2. a.action = "CleanupTesting" /\ a.state = "AcquiringTesting" /\ DOMAIN a = DOMAIN NoRun
    BY DEF LabWorld, NoRun
  <2>3. HostFits(host, x)
    BY <1>4, TransitionCallsFit DEF CanStopTesting
  <2>4. host.app.pending.command = "StopTesting"
        /\ host.app.pending.stage = "WaitingReleaseTesting" /\ host.app.pending # NoPending
    BY <1>2, CommandApp
  <2> HIDE DEF host, a, cleanup
  <2>5. LabWorld(cleanup) /\ cleanup.host = host /\ cleanup.engine = w.engine /\ cleanup.auto = a
    BY <2>1, <2>2 DEF LabWorld
  <2>6. LabFits(cleanup, x)
    BY <2>2, <2>3, <2>4, <2>5
      DEF LabFits, EngineFits, LineWanted, AutoFits, Busy, Waiting, CommandOf
  <2> QED
    BY <1>1, <1>4, <2>5, <2>6
<1>5. CASE ~begins /\ ~CanStopTesting(w.host)
  <2> DEFINE n == EndWorkflow(w)
  <2>1. n.auto = NoRun /\ n.engine = w.engine /\ n.host = w.host /\ LabWorld(n)
    BY DEF EndWorkflow, LabWorld
  <2> HIDE DEF n
  <2>2. x \/ w.host.app.state # "Testing"
    BY <1>5, TestingCanStop
  <2>3. LabFits(n, x)
    BY <2>1, <2>2 DEF LabFits, EngineFits, LineWanted, AutoFits, Busy, Waiting, NoRun, NoPending
  <2> QED
    BY <1>1, <1>5, <2>1, <2>3 DEF n
<1> QED
  BY <1>3, <1>4, <1>5

-----------------------------------------------------------------------------
(***************************************************************************)
(* The end of a command, as the engine and the automation hear of it.      *)
(***************************************************************************)
\* No run has the engine.
Rests(w, x) ==
  /\ LabWorld(w) /\ HostFits(w.host, x) /\ EngineKept(w.engine)
  /\ w.engine.state = "Idle" /\ w.engine.request = 0 /\ ~w.engine.delay
  /\ w.host.app.pending.stage # "WaitingAcquireTesting"

LEMMA EndWorkflowFits ==
  ASSUME NEW w, NEW x, Rests(w, x),
         x \/ w.host.app.state # "Testing" \/ w.host.app.pending # NoPending
  PROVE  LET v == EndWorkflow(w) IN LabFits(v, x) /\ v.engine = w.engine
<1> DEFINE n == EndWorkflow(w)
<1>1. n.auto = NoRun /\ n.engine = w.engine /\ n.host = w.host /\ LabWorld(n)
  BY DEF Rests, EndWorkflow, LabWorld
<1> HIDE DEF n
<1>2. LabFits(n, x)
  BY <1>1
    DEF Rests, LabFits, EngineFits, LineWanted, AutoFits, Busy, Waiting, NoRun, NoPending
<1> QED
  BY <1>1, <1>2 DEF n

LEMMA AcquireTestingFits ==
  ASSUME NEW w, NEW x, Rests(w, x), x \/ w.host.app.state # "Testing",
         FreeOp(w.host.client) # {}
  PROVE  LET v == AcquireTesting(w) IN LabFits(v, x) /\ v.engine = w.engine
<1>1. CASE ~CanTakeLine(w.host, Testing)
  BY <1>1, EndWorkflowFits DEF AcquireTesting
<1>2. CASE CanTakeLine(w.host, Testing)
  <2> DEFINE host == StartTestingCall(w.host)
             a == [[w.auto EXCEPT !.action = "StartTesting"] EXCEPT !.state = "AcquiringTesting"]
             v == Orders(w, "StartTesting", "AcquiringTesting", StartTestingCall(w.host))
  <2>1. v = [[w EXCEPT !.host = host] EXCEPT !.auto = a]
    BY DEF Rests, Orders, LabWorld
  <2>2. a.action = "StartTesting" /\ a.state = "AcquiringTesting" /\ DOMAIN a = DOMAIN NoRun
    BY DEF Rests, LabWorld, NoRun
  <2>3. HostFits(host, x)
    BY <1>2, TransitionCallsFit DEF Rests, CanTakeLine
  <2>4. /\ host.app.pending.command = "StartTesting" /\ host.app.pending # NoPending
        /\ host.app.pending.stage = "WaitingAcquireTesting"
    BY CommandApp DEF Rests, HostFits, Fine
  <2> HIDE DEF host, a, v
  <2>5. LabWorld(v) /\ v.host = host /\ v.engine = w.engine /\ v.auto = a
    BY <2>1, <2>2 DEF Rests, LabWorld
  <2>6. LabFits(v, x)
    BY <2>2, <2>3, <2>4, <2>5
      DEF Rests, LabFits, EngineFits, LineWanted, AutoFits, Busy, Waiting, CommandOf
  <2> QED
    BY <1>2, <2>5, <2>6 DEF AcquireTesting, v
<1> QED
  BY <1>1, <1>2

\* The services have moved and nothing is heard of it, the command being still to end.
LEMMA UnheardFits ==
  ASSUME NEW w, NEW x, LabFits(w, x), NEW y, x => y, NEW h, HostFits(h, y),
         AppMoves(h.app, w.host.app),
         w.engine.request # 0 => w.engine.request \in Open(h.client),
         w.engine.state \in Busy => FreeOp(h.client) # {},
         w.host.app.pending = NoPending \/ h.app.pending # NoPending,
         NEW u, LabWorld(u), u.host = h, u.engine = w.engine, u.auto = w.auto
  PROVE  LabFits(u, y)
<1>1. /\ LabWorld(w) /\ HostFits(w.host, x) /\ EngineFits(w) /\ LineWanted(w, x)
      /\ AutoFits(w, x)
  BY DEF LabFits
<1>2. w.host \in Worlds /\ w.host.client \in Client
      /\ w.host.app.pending \in PendingCommand \cup {NoPending}
  BY <1>1, WorldHosts DEF HostFits, Fine
<1>3. CASE w.host.app.pending = NoPending
  <2>1. h.app.pending = NoPending /\ (h.app = w.host.app \/ h.app.state = "Error")
    BY <1>3 DEF AppMoves, Broken
  <2>2. ASSUME w.engine.state \in Busy
        PROVE  EngineFits(u)
    <3>1. HostServes(h)
      BY <1>1, <2>1, <2>2 DEF EngineFits, HostServes
    <3>2. CaseWaits(u)
      <4>1. CaseWaits(w)
        BY <1>1, <2>2 DEF EngineFits
      <4>2. w.engine.request \in Open(w.host.client) => w.engine.request # 0
        BY <1>2, AppAssumption DEF Client, Open
      <4> QED
        BY <4>1, <4>2 DEF CaseWaits, Kind
    <3>3. CaseKeeps(u) /\ CaseCounts(u)
      BY <1>1, <2>2 DEF EngineFits, CaseKeeps, CaseCounts, Quota, Kind
    <3> QED
      BY <1>1, <2>2, <3>1, <3>2, <3>3 DEF EngineFits, Busy
  <2>3. EngineFits(u)
    BY <1>1, <1>3, <2>2 DEF EngineFits, Busy, NoPending, LabFits
  <2>4. LineWanted(u, y)
    BY <1>1, <1>3, <2>1 DEF LineWanted
  <2>5. AutoFits(u, y)
    BY <1>1, <1>3, <2>1 DEF AutoFits, NoPending, CommandOf
  <2> QED
    BY <2>3, <2>4, <2>5 DEF LabFits
<1>4. CASE w.host.app.pending # NoPending
  <2>1. /\ h.app.pending # NoPending /\ h.app.pending.command = w.host.app.pending.command
        /\ h.app = w.host.app \/ h.app.pending.stage # "WaitingAcquireTesting"
    BY <1>4 DEF AppMoves, Broken
  <2>2. w.engine.state \notin Busy
    BY <1>1, <1>4 DEF EngineFits, HostServes
  <2>3. EngineFits(u)
    BY <1>1, <2>1, <2>2 DEF EngineFits
  <2>4. LineWanted(u, y) /\ AutoFits(u, y)
    BY <1>1, <2>1 DEF LineWanted, AutoFits
  <2> QED
    BY <2>3, <2>4 DEF LabFits
<1> QED
  BY <1>3, <1>4

LEMMA NotifyFits ==
  ASSUME NEW w, NEW x, LabFits(w, x), NEW y, x => y, NEW h, HostFits(h, y),
         AppMoves(h.app, w.host.app),
         w.engine.request # 0 => w.engine.request \in Open(h.client),
         w.engine.state \in Busy => FreeOp(h.client) # {},
         /\ h.app.pending = NoPending /\ w.host.app.pending # NoPending
         /\ h.app.state # "Error"
         => /\ FreeOp(h.client) # {} /\ FreeId(h.client) # {}
            /\ h.app.state = "Testing" => ~h.client.inTransition
  PROVE  LET v == Notify(w, [w EXCEPT !.host = h])
         IN /\ LabFits(v, y)
            /\ \/ v.engine.request \in {0, w.engine.request}
               \/ /\ w.host.app.pending # NoPending /\ h.app.pending = NoPending
                  /\ h.app.state # "Error"
<1> DEFINE u == [w EXCEPT !.host = h]
           command == w.host.app.pending.command
           ok == h.app.state # "Error"
           v == Notify(w, u)
           Told == /\ LabFits(v, y)
                   /\ \/ v.engine.request \in {0, w.engine.request}
                      \/ w.host.app.pending # NoPending /\ h.app.pending = NoPending /\ ok
<1>1. /\ LabWorld(w) /\ HostFits(w.host, x) /\ EngineFits(w) /\ LineWanted(w, x)
      /\ AutoFits(w, x)
  BY DEF LabFits
<1>2. LabWorld(u) /\ u.host = h /\ u.engine = w.engine /\ u.auto = w.auto
  BY <1>1 DEF LabWorld
<1>3. /\ w.host.app.pending \in PendingCommand \cup {NoPending}
      /\ command = "None" <=> w.host.app.pending = NoPending
  BY <1>1, WorldHosts DEF HostFits, Fine, PendingCommand, AppCommand, NoPending
<1>4. v = IF command = "None" \/ h.app.pending # NoPending THEN u
          ELSE AutomationCommandCompleted(EngineCommandCompleted(u, command), command, ok)
  <2> HIDE DEF u
  <2> QED
    BY <1>2, Zenon DEF Notify
<1> HIDE DEF u, v
<1>5. ASSUME command = "None" \/ h.app.pending # NoPending
      PROVE  Told
  <2>1. LabFits(u, y)
    BY <1>2, <1>3, <1>5, UnheardFits
  <2> QED
    BY <1>2, <1>4, <1>5, <2>1
<1>6. ASSUME command # "None", h.app.pending = NoPending
      PROVE  Told
  <2>1. w.engine.state \in {"Idle", "Releasing"} /\ w.engine.request = 0 /\ ~w.engine.delay
    BY <1>1, <1>3, <1>6 DEF EngineFits, HostServes, Busy
  <2>2. EngineKept(w.engine)
    BY <1>1 DEF EngineFits
  <2>3. h.app.state = "Testing" => w.host.app.pending.stage = "WaitingAcquireTesting"
    BY <1>3, <1>6 DEF AppMoves, Broken
  <2>4. h.app.state = "Testing" => w.auto.action = "StartTesting" /\ command = "StartTesting"
    BY <1>1, <2>3 DEF AutoFits, CommandOf
  <2>5. h.app.pending.stage # "WaitingAcquireTesting"
    BY <1>6 DEF NoPending
  <2>6. ok => FreeOp(h.client) # {} /\ FreeId(h.client) # {}
              /\ (h.app.state = "Testing" => ~h.client.inTransition)
    BY <1>3, <1>6
  <2>7. v = AutomationCommandCompleted(EngineCommandCompleted(u, command), command, ok)
    BY <1>4, <1>6
  <2>8. CASE w.engine.state = "Releasing"
    <3> DEFINE f == FinalizeRun(u)
    <3>1. command = "StopTesting" /\ w.auto.state = "Running" /\ w.auto.action = "None"
      BY <1>1, <2>8 DEF EngineFits, AutoFits, Waiting
    <3>2. /\ LabFits(f, y) /\ f.engine.request = 0
          /\ f.auto.action \in {"None", "ResumeMonitoring"}
      BY <1>2, <2>2, <2>4, <2>5, <2>6, <3>1, FinalizeFits
    <3>3. EngineCommandCompleted(u, command) = f
      BY <1>2, <2>8, <3>1 DEF EngineCommandCompleted
    <3> HIDE DEF f
    <3>4. v = f
      BY <2>7, <3>1, <3>2, <3>3 DEF AutomationCommandCompleted, CommandOf
    <3> QED
      BY <3>2, <3>4
  <2>9. ASSUME w.engine.state = "Idle"
        PROVE  Told
    <3> DEFINE action == w.auto.action
               heard == [u EXCEPT !.auto.action = "None"]
    <3>1. v = AutomationCommandCompleted(u, command, ok)
      BY <1>2, <2>7, <2>9 DEF EngineCommandCompleted
    <3>2. w.auto.state # "Running"
      BY <1>1, <2>9 DEF AutoFits
    <3>3. CASE action = "None" \/ CommandOf(action) # command
      <4>1. v = u
        BY <1>2, <3>1, <3>3 DEF AutomationCommandCompleted
      <4>2. h.app.state # "Testing"
        BY <2>4, <3>3 DEF CommandOf
      <4>3. EngineFits(u) /\ LineWanted(u, y)
        BY <1>2, <2>1, <2>2, <2>9, <4>2 DEF EngineFits, LineWanted, Busy
      <4>4. AutoFits(u, y)
        BY <1>1, <1>2, <2>5, <3>3 DEF AutoFits
      <4> QED
        BY <1>2, <4>1, <4>3, <4>4 DEF LabFits
    <3>4. ASSUME action # "None", CommandOf(action) = command
          PROVE  Told
      <4> DEFINE a == [w.auto EXCEPT !.action = "None"]
      <4>1. heard = [u EXCEPT !.auto = a]
        BY <1>2 DEF LabWorld
      <4>2. DOMAIN a = DOMAIN NoRun /\ a.action = "None" /\ a.state = w.auto.state
        BY <1>1 DEF LabWorld, NoRun
      <4>3. v = CASE ok /\ action = "StopMonitoring" -> AcquireTesting(heard)
                  [] ok /\ action = "StartTesting"   -> StartEngine(heard)
                  [] OTHER -> EndWorkflow(heard)
        BY <1>2, <3>1, <3>4, Zenon DEF AutomationCommandCompleted
      <4> HIDE DEF a, heard
      <4>4. LabWorld(heard) /\ heard.host = h /\ heard.engine = w.engine /\ heard.auto = a
        BY <1>2, <4>1, <4>2 DEF LabWorld
      <4>5. Rests(heard, y)
        BY <1>6, <2>1, <2>2, <2>5, <2>9, <4>4 DEF Rests
      <4> HIDE DEF ok, command, v
      <4>6. CASE ok /\ action = "StopMonitoring"
        <5>1. v = AcquireTesting(heard)
          BY <4>3, <4>6
        <5> QED
          BY <2>4, <2>6, <4>4, <4>5, <4>6, <5>1, AcquireTestingFits
      <4>7. CASE ok /\ action = "StartTesting"
        <5>1. v = StartEngine(heard)
          BY <4>3, <4>7
        <5> QED
          BY <1>3, <1>6, <2>6, <3>2, <4>2, <4>4, <4>5, <4>7, <5>1, StartEngineFits DEF Rests
      <4>8. CASE ~ok \/ action \notin {"StopMonitoring", "StartTesting"}
        <5>1. v = EndWorkflow(heard)
          BY <4>3, <4>8
        <5>2. h.app.state # "Testing"
          BY <2>4, <4>8 DEF ok
        <5> QED
          BY <4>4, <4>5, <5>1, <5>2, EndWorkflowFits
      <4> QED
        BY <4>6, <4>7, <4>8
    <3> QED
      BY <3>3, <3>4
  <2> QED
    BY <2>1, <2>8, <2>9
<1> QED
  BY <1>5, <1>6 DEF v, u

-----------------------------------------------------------------------------
(***************************************************************************)
(* The steps.                                                              *)
(***************************************************************************)
LEMMA LabIsWorld ==
  /\ Lab.host = World /\ Lab.engine = engine /\ Lab.auto = auto
  /\ World.client = client /\ World.app = app /\ World.mon = mon
BY DEF Lab, World

LEMMA SameParts ==
  ASSUME NEW w, NEW x, LabFits(w, x), NEW u, LabWorld(u),
         u.host = w.host, u.engine = w.engine, u.auto = w.auto
  PROVE  LabFits(u, x)
<1>1. Kind(u) = Kind(w)
  BY DEF Kind
<1>2. EngineFits(u)
  <2>1. HostServes(w.host) /\ CaseWaits(w) /\ CaseKeeps(w) /\ CaseCounts(w)
        => HostServes(u.host) /\ CaseWaits(u) /\ CaseKeeps(u) /\ CaseCounts(u)
    BY <1>1 DEF CaseWaits, CaseKeeps, CaseCounts, Quota
  <2> QED
    BY <2>1 DEF LabFits, EngineFits
<1> QED
  BY <1>2 DEF LabFits, LineWanted, AutoFits

\* The lateness of an answer matters only while it is handled.
LEMMA LateIsPast ==
  ASSUME NEW w, NEW x, LabFits(w, x), NEW e, DOMAIN e = EngineFields,
         \A f \in EngineFields \ {"late"} : e[f] = w.engine[f]
  PROVE  LET u == With(w, e)
         IN LabFits(u, x) /\ u.engine = e
<1> DEFINE u == With(w, e)
<1>1. LabWorld(w)
  BY DEF LabFits
<1>2. /\ e.state = w.engine.state /\ e.request = w.engine.request /\ e.step = w.engine.step
      /\ e.attempts = w.engine.attempts /\ e.delay = w.engine.delay /\ e.index = w.engine.index
      /\ e.original = w.engine.original /\ e.accepted = w.engine.accepted
      /\ e.register = w.engine.register /\ e.before = w.engine.before
      /\ e.silent = w.engine.silent /\ e.budget = w.engine.budget
      /\ e.position = w.engine.position /\ e.taken = w.engine.taken
      /\ e.restores = w.engine.restores /\ e.tries = w.engine.tries
      /\ e.overdue = w.engine.overdue
  BY EngineFieldsAre
<1>3. LabWorld(u) /\ u.engine = e /\ u.host = w.host /\ u.auto = w.auto
  BY <1>1, WithIs
<1>4. Kind(u) = Kind(w)
  BY <1>1, <1>2, KindWith
<1> HIDE DEF u
<1>5. EngineKept(e) <=> EngineKept(w.engine)
  BY <1>2, Zenon DEF EngineKept
<1>6. /\ (CaseWaits(u) <=> CaseWaits(w)) /\ (CaseKeeps(u) <=> CaseKeeps(w))
      /\ (CaseCounts(u) <=> CaseCounts(w))
  <2>1. \A step : Quota(u, step) = Quota(w, step)
    BY <1>2, <1>3, <1>4 DEF Quota
  <2> QED
    BY <1>2, <1>3, <1>4, <2>1, Zenon DEF CaseWaits, CaseKeeps, CaseCounts
<1>7. EngineFits(u)
  <2>1. EngineFits(w)
    BY DEF LabFits
  <2> QED
    BY <1>2, <1>3, <1>5, <1>6, <2>1, Zenon DEF EngineFits
<1>8. LabFits(u, x)
  BY <1>2, <1>3, <1>7, Zenon DEF LabFits, LineWanted, AutoFits
<1> QED
  BY <1>3, <1>8 DEF u

LEMMA LabTakes ==
  ASSUME NEW w, LabBecomes(w), LabFits(w, crossed')
  PROVE  LabFits(Lab, crossed)' /\ engine' = w.engine
<1>1. w.host \in Worlds
  BY DEF LabFits, HostFits, Fine
<1>2. World' = w.host /\ engine' = w.engine /\ auto' = w.auto
  BY <1>1, StepIs DEF LabBecomes
<1>3. Lab' = [host |-> w.host, engine |-> w.engine, auto |-> w.auto]
  BY <1>2 DEF Lab
<1> DEFINE u == [host |-> w.host, engine |-> w.engine, auto |-> w.auto]
<1>4. LabWorld(u)
  BY DEF LabFits, LabWorld
<1>5. LabFits(u, crossed')
  BY <1>4, SameParts
<1> QED
  BY <1>2, <1>3, <1>5

LEMMA LabTakesQuietly ==
  ASSUME LInv, NEW w, LabBecomes(w), UNCHANGED history, LabFits(w, crossed)
  PROVE  LInv'
<1>1. crossed' = crossed /\ faults' = faults
  BY DEF history
<1>2. LabFits(Lab, crossed)' /\ engine' = w.engine
  BY <1>1, LabTakes
<1> QED
  BY <1>1, <1>2 DEF LInv

\* The automation at rest, and the engine with it.
LEMMA UnengagedRests ==
  ASSUME LInv, ~Engaged
  PROVE  /\ Rests(Lab, crossed) /\ auto.action = "None" /\ engine.state = "Idle"
         /\ crossed \/ app.state # "Testing" \/ app.pending # NoPending
         /\ HostFits(World, crossed)
<1>1. LabWorld(Lab) /\ HostFits(World, crossed) /\ EngineFits(Lab) /\ LineWanted(Lab, crossed)
      /\ AutoFits(Lab, crossed)
  BY LabIsWorld DEF LInv, LabFits
<1>2. auto.action = "None" /\ engine.state = "Idle"
  BY <1>1, LabIsWorld DEF AutoFits, Engaged, Waiting
<1>3. EngineKept(engine) /\ engine.request = 0 /\ ~engine.delay
  BY <1>1, <1>2, LabIsWorld DEF EngineFits, Busy
<1>4. app.pending.stage # "WaitingAcquireTesting"
  BY <1>1, <1>2, LabIsWorld DEF AutoFits
<1>5. crossed \/ app.state # "Testing" \/ app.pending # NoPending
  BY <1>1, <1>2, LabIsWorld DEF LineWanted, Busy
<1> QED
  BY <1>1, <1>2, <1>3, <1>4, <1>5, LabIsWorld DEF Rests

\* A command of the user, which neither the engine nor the automation hears of.
LEMMA CommandKeeps ==
  ASSUME LInv, ~Engaged, NEW v, Become(v), UNCHANGED <<engine, auto, history>>,
         HostFits(v, crossed), v.app.pending.stage # "WaitingAcquireTesting",
         crossed \/ v.app.state # "Testing" \/ v.app.pending # NoPending
  PROVE  LInv'
<1> DEFINE u == [Lab EXCEPT !.host = v]
<1>1. Rests(Lab, crossed) /\ auto.action = "None" /\ engine.state = "Idle" /\ AutoFits(Lab, crossed)
  BY UnengagedRests DEF LInv, LabFits
<1>2. LabWorld(u) /\ u.host = v /\ u.engine = engine /\ u.auto = auto
  BY <1>1, LabIsWorld DEF Rests, LabWorld, Lab
<1>3. LabBecomes(u)
  BY <1>2 DEF LabBecomes
<1> HIDE DEF u
<1>4. LabFits(u, crossed)
  BY <1>1, <1>2, LabIsWorld
    DEF Rests, LabFits, EngineFits, LineWanted, AutoFits, Busy, Waiting, Engaged
<1> QED
  BY <1>2, <1>3, <1>4, LabTakesQuietly

LEMMA CommandNames ==
  /\ {"Connect", "Disconnect", "StartMonitoring", "StopMonitoring", "Recover"} \subseteq AppCommand
  /\ {"WaitingOpen", "WaitingClose"} \subseteq Stage \ {"WaitingMonitorStop"}
  /\ "WaitingOpen" \notin Transitions /\ "WaitingClose" \notin Transitions
  /\ StageKind("WaitingOpen") = "Open" /\ StageKind("WaitingClose") = "Close"
BY DEF AppCommand, Stage, Transitions, StageKind

\* A command that opens or closes the connection.
LEMMA OpenCloseFits ==
  ASSUME NEW h, NEW x, HostFits(h, x), h.app.pending = NoPending, h.app.state # "Monitoring",
         FreeOp(h.client) # {}, NEW command \in AppCommand,
         NEW state \in AppState \ {"Monitoring"}
  PROVE  LET op == NextOp(h.client)
             open == Asked1(h, command, "WaitingOpen", state, OpenCall(h.client, op))
             close == Asked1(h, command, "WaitingClose", state, CloseCall(h.client, op))
         IN /\ HostFits(open, x) /\ open.app.pending # NoPending
            /\ open.app.pending.stage = "WaitingOpen"
            /\ close.app.pending # NoPending /\ close.app.pending.stage = "WaitingClose"
            /\ x \/ h.client.owner # Testing => HostFits(close, x)
<1> DEFINE c == h.client
           op == NextOp(c)
           open == Asked1(h, command, "WaitingOpen", state, OpenCall(c, op))
           close == Asked1(h, command, "WaitingClose", state, CloseCall(c, op))
<1>1. h \in Worlds /\ c \in Client /\ op \in OpIds
  BY WorldHosts, NextOpIsFree DEF HostFits, Fine
<1>2. NoOwner # Testing /\ 0 \notin OpIds
  BY AppAssumption, ContractAssumption
<1>3. Asks(OpenCall(c, op), c, op, "Open") /\ Asks(CloseCall(c, op), c, op, "Close")
  BY <1>1, OpenAsks, CloseAsks
<1>4. /\ OpenCall(c, op).inTransition = c.inTransition /\ OpenCall(c, op).owner = NoOwner
      /\ OpenCall(c, op).asks[op].target = NoOwner
      /\ CloseCall(c, op).inTransition = c.inTransition /\ CloseCall(c, op).owner = c.owner
      /\ CloseCall(c, op).asks[op].target = NoOwner
  <2> HIDE DEF op
  <2> QED
    BY <1>1 DEF OpenCall, CloseCall, Asking, Client
<1>5. /\ open.app.pending = [command |-> command, stage |-> "WaitingOpen", op |-> op]
      /\ close.app.pending = [command |-> command, stage |-> "WaitingClose", op |-> op]
  <2>1. open.app = [state |-> state, pending |->
                      [command |-> command, stage |-> "WaitingOpen", op |-> op]]
    BY <1>1, AskedApp, Zenon
  <2>2. close.app = [state |-> state, pending |->
                       [command |-> command, stage |-> "WaitingClose", op |-> op]]
    BY <1>1, AskedApp, Zenon
  <2> HIDE DEF open, close
  <2> QED
    BY <2>1, <2>2
<1>6. HostFits(open, x)
  BY <1>2, <1>3, <1>4, CommandNames, AskFits
<1>7. x \/ c.owner # Testing => HostFits(close, x)
  BY <1>2, <1>3, <1>4, CommandNames, AskFits
<1>8. open.app.pending # NoPending /\ close.app.pending # NoPending
  BY <1>1, <1>2, <1>5 DEF NoPending
<1> QED
  BY <1>5, <1>6, <1>7, <1>8

\* A call of the client that is refused leaves the state it was given from.
LEMMA SettlesBack ==
  ASSUME NEW h, NEW x, HostFits(h, x), h.app.pending = NoPending, h.app.state # "Monitoring",
         NEW state \in AppState \ {"Monitoring"},
         ~x => Agrees(state, h.client) /\ (h.client.owner = Testing => state = "Testing")
  PROVE  LET v == [h EXCEPT !.app.state = state]
         IN HostFits(v, x) /\ v.app.pending = NoPending /\ v.app.state = state
<1> DEFINE v == [h EXCEPT !.app.state = state]
<1>1. h \in Worlds /\ h.app \in App
  BY WorldHosts DEF HostFits, Fine
<1>2. /\ v \in Worlds /\ v.client = h.client /\ v.mon = h.mon /\ v.app.state = state
      /\ v.app.pending = NoPending
  BY <1>1 DEF Worlds, App
<1> HIDE DEF v
<1>3. Fine(h) /\ MovesAreAsked(h.client) /\ (~x => InStep(h) /\ LineLent(h))
  BY DEF HostFits
<1>4. Fine(v)
  <2> QED
    BY <1>1, <1>2, <1>3 DEF Fine, KeepStep, CommandWaits
<1>5. ~x => InStep(v)
  BY <1>2, <1>3 DEF InStep, NoPending, Transitions
<1>6. ~x => LineLent(v)
  BY <1>2, <1>3 DEF LineLent, NoPending
<1> QED
  BY <1>2, <1>3, <1>4, <1>5, <1>6 DEF HostFits, v

\* Without the line lent, the owner of a client in step is what its state says.
LEMMA LentOnlyToTesting ==
  ASSUME NEW h, NEW x, HostFits(h, x), ~x, h.app.pending = NoPending
  PROVE  /\ Agrees(h.app.state, h.client) /\ (h.client.owner = Testing => h.app.state = "Testing")
BY DEF HostFits, InStep, LineLent, NoPending

LEMMA UserCommandKeeps ==
  ASSUME LInv, LabUserCommand
  PROVE  LInv'
<1>1. ~Engaged /\ UNCHANGED <<engine, auto>> /\ CanCommand
  BY DEF LabUserCommand, ConnectDevice, DisconnectDevice, StartMonitoring, StopMonitoring, Recover
<1>2. UNCHANGED <<engine, auto, history>> /\ FreeOp(World.client) # {}
  BY <1>1, LabIsWorld DEF CanCommand
<1>3. /\ HostFits(World, crossed) /\ World \in Worlds
      /\ crossed \/ app.state # "Testing" \/ app.pending # NoPending
  BY <1>1, UnengagedRests DEF HostFits, Fine
<1>4. World.client = client /\ World.app = app /\ World.mon = mon
  BY LabIsWorld
<1>5. "None" # "WaitingAcquireTesting" /\ NoPending.stage = "None"
  BY DEF NoPending
<1>6. ASSUME Idle, app.state = "Monitoring", NEW command \in AppCommand,
             Become(StopMonitorFor(World, command))
      PROVE  LInv'
  <2> DEFINE v == StopMonitorFor(World, command)
  <2>1. HostFits(v, crossed) /\ (Stops(v.app, command) \/ Broken(v.app))
    BY <1>2, <1>3, <1>4, <1>6, StopMonitorFits DEF Idle
  <2> HIDE DEF v
  <2>2. v.app.pending.stage # "WaitingAcquireTesting" /\ v.app.state # "Testing"
    BY <2>1 DEF Stops, Broken, NoPending
  <2>3. Become(v)
    BY <1>6 DEF v
  <2> QED
    BY <1>1, <1>2, <2>1, <2>2, <2>3, CommandKeeps
<1>7. ASSUME Idle, app.state # "Monitoring", NEW command \in AppCommand, command # "None",
             NEW state \in AppState \ {"Monitoring"},
             crossed \/ client.owner # Testing,
             Become(Asked1(World, command, "WaitingClose", state,
                           CloseCall(client, NextOp(client))))
      PROVE  LInv'
  <2> DEFINE v == Asked1(World, command, "WaitingClose", state,
                         CloseCall(client, NextOp(client)))
  <2>1. /\ HostFits(v, crossed) /\ v.app.pending # NoPending
        /\ v.app.pending.stage = "WaitingClose"
    BY <1>2, <1>3, <1>4, <1>7, OpenCloseFits DEF Idle
  <2> HIDE DEF v
  <2>2. Become(v)
    BY <1>7 DEF v
  <2> QED
    BY <1>1, <1>2, <2>1, <2>2, CommandKeeps
<1>8. ASSUME Idle, app.state # "Monitoring", NEW state \in AppState \ {"Monitoring"},
             ~crossed => Agrees(state, client) /\ (client.owner = Testing => state = "Testing"),
             crossed \/ state # "Testing",
             Become([World EXCEPT !.app.state = state])
      PROVE  LInv'
  <2> DEFINE v == [World EXCEPT !.app.state = state]
  <2>1. HostFits(v, crossed) /\ v.app.pending = NoPending /\ v.app.state = state
    BY <1>3, <1>4, <1>8, SettlesBack DEF Idle
  <2> HIDE DEF v
  <2>2. Become(v)
    BY <1>8 DEF v
  <2> QED
    BY <1>1, <1>2, <1>5, <1>8, <2>1, <2>2, CommandKeeps
<1>9. ~crossed /\ Idle => Agrees(app.state, client) /\ client.owner # Testing
  BY <1>3, <1>4, LentOnlyToTesting DEF Idle
<1>10. CASE ConnectDevice
  <2> DEFINE v == Asked1(World, "Connect", "WaitingOpen", app.state,
                         OpenCall(client, NextOp(client)))
  <2>1. app.pending = NoPending /\ app.state = "Disconnected" /\ Become(v)
    BY <1>10 DEF ConnectDevice, Idle
  <2>2. /\ HostFits(v, crossed) /\ v.app.pending # NoPending
        /\ v.app.pending.stage = "WaitingOpen"
    <3>1. app.state \in AppState \ {"Monitoring"}
      BY <2>1 DEF AppState
    <3> QED
      BY <1>2, <1>3, <1>4, <2>1, <3>1, CommandNames, OpenCloseFits
  <2> HIDE DEF v
  <2> QED
    BY <1>1, <1>2, <2>1, <2>2, CommandKeeps
<1>11. CASE DisconnectDevice
  <2>0. Idle /\ "Disconnect" \in AppCommand /\ "Disconnect" # "None"
        /\ {"Stopping", "Testing", "ConnectedIdle"} \subseteq AppState \ {"Monitoring"}
    BY <1>11, CommandNames DEF DisconnectDevice, AppState
  <2>1. CASE app.state = "Monitoring" /\ Become(StopMonitorFor(World, "Disconnect"))
    BY <1>6, <2>0, <2>1
  <2>2. CASE /\ app.state \in {"ConnectedIdle", "Testing"} /\ client.owner = Testing
             /\ CanRelease(client, Testing)
             /\ Become(Asked1(World, "Disconnect", "WaitingReleaseTesting", "Stopping",
                              ReleaseCall(client, NextOp(client), Testing)))
    <3> DEFINE v == Asked1(World, "Disconnect", "WaitingReleaseTesting", "Stopping",
                           ReleaseCall(client, NextOp(client), Testing))
    <3>1. HostFits(v, crossed)
      BY <1>2, <1>3, <1>4, <2>0, <2>2, TransitionCallsFit DEF Idle
    <3>2. v.app = [state |-> "Stopping", pending |->
                     [command |-> "Disconnect", stage |-> "WaitingReleaseTesting",
                      op |-> NextOp(World.client)]]
      BY <1>3, <1>4, AskedApp
    <3>3. Become(v)
      BY <2>2
    <3> HIDE DEF v
    <3> QED
      BY <1>1, <1>2, <3>1, <3>2, <3>3, CommandKeeps
  <2>3. CASE /\ app.state \in {"ConnectedIdle", "Testing"} /\ client.owner = Testing
             /\ Become([World EXCEPT !.app.state = "Testing"])
    BY <1>8, <1>9, <2>0, <2>3
  <2>4. CASE /\ app.state \in {"ConnectedIdle", "Testing"} /\ client.owner # Testing
             /\ Become(Asked1(World, "Disconnect", "WaitingClose", "Stopping",
                              CloseCall(client, NextOp(client))))
    BY <1>7, <2>0, <2>4
  <2>5. CASE /\ app.state \in {"ConnectedIdle", "Testing"} /\ client.owner # Testing
             /\ Become([World EXCEPT !.app.state = "ConnectedIdle"])
    <3>1. ~crossed => Agrees("ConnectedIdle", client)
      BY <1>9, <2>0, <2>5 DEF Agrees
    <3> QED
      BY <1>8, <2>0, <2>5, <3>1
  <2> QED
    BY <1>11, <2>1, <2>2, <2>3, <2>4, <2>5 DEF DisconnectDevice
<1>12. CASE StartMonitoring
  <2>1. CanTakeLine(World, Monitor) /\ Become(StartMonitoringCall(World))
    BY <1>12 DEF StartMonitoring
  <2>2. app.pending = NoPending /\ app.state = "ConnectedIdle"
    BY <1>4, <2>1 DEF CanTakeLine
  <2>3. HostFits(StartMonitoringCall(World), crossed)
    BY <1>2, <1>3, <1>4, <2>1, <2>2, TransitionCallsFit
  <2>4. /\ StartMonitoringCall(World).app.state = app.state
        /\ StartMonitoringCall(World).app.pending.stage = "WaitingAcquireMonitor"
    BY <1>3, <1>4, CommandApp
  <2> QED
    BY <1>1, <1>2, <2>1, <2>2, <2>3, <2>4, CommandKeeps
<1>13. CASE StopMonitoring
  BY <1>4, <1>6, <1>13, CommandNames DEF StopMonitoring, CanStopMonitoring, Idle
<1>14. CASE Recover
  <2>0. Idle /\ app.state = "Error" /\ "Recover" \in AppCommand /\ "Recover" # "None"
        /\ {"Stopping", "Disconnected"} \subseteq AppState \ {"Monitoring"}
    BY <1>14, CommandNames DEF Recover, AppState
  <2>1. CASE client.state = "Disconnected" /\ Become([World EXCEPT !.app.state = "Disconnected"])
    <3>1. Agrees("Disconnected", client)
      BY <2>1 DEF Agrees
    <3> QED
      BY <1>8, <1>9, <2>0, <2>1, <3>1
  <2>2. CASE Become(Asked1(World, "Recover", "WaitingClose", "Stopping",
                           CloseCall(client, NextOp(client))))
    BY <1>7, <1>9, <2>0, <2>2
  <2> QED
    BY <1>14, <2>1, <2>2 DEF Recover
<1> QED
  BY <1>10, <1>11, <1>12, <1>13, <1>14 DEF LabUserCommand

LEMMA BeginRunKeeps ==
  ASSUME LInv, NEW suite, NEW chosen, NEW resume, BeginRun(suite, chosen, resume)
  PROVE  LInv'
<1> DEFINE monitoring == app.state = "Monitoring"
           a == [[[[auto EXCEPT !.suite = suite] EXCEPT !.chosen = chosen]
                   EXCEPT !.resume = resume] EXCEPT !.wasMonitoring = monitoring]
           w == [Lab EXCEPT !.auto.suite = suite, !.auto.chosen = chosen, !.auto.resume = resume,
                            !.auto.wasMonitoring = monitoring]
           v == IF ~monitoring THEN AcquireTesting(w)
                ELSE IF CanStopMonitoring(World)
                  THEN Orders(w, "StopMonitoring", "StoppingMonitoring",
                              StopMonitorFor(World, "StopMonitoring"))
                ELSE EndWorkflow(w)
<1>1. /\ FreeOp(client) # {} /\ ~Engaged /\ app.state \in {"ConnectedIdle", "Monitoring"}
      /\ UNCHANGED history
  BY DEF BeginRun
<1>2. /\ Rests(Lab, crossed) /\ HostFits(World, crossed) /\ auto.action = "None"
      /\ engine.state = "Idle"
  BY <1>1, UnengagedRests
<1>3. World.client = client /\ World.app = app /\ World \in Worlds
      /\ Lab.host = World /\ Lab.engine = engine /\ Lab.auto = auto
  BY <1>2, LabIsWorld DEF HostFits, Fine
<1>4. w = [Lab EXCEPT !.auto = a]
  BY <1>3 DEF Lab
<1>5. DOMAIN a = DOMAIN NoRun
  BY <1>2, <1>3 DEF Rests, LabWorld, NoRun
<1>6. w.auto.wasMonitoring = monitoring
  BY <1>2, <1>3, <1>4 DEF Rests, LabWorld, NoRun
<1>7. LabBecomes(v)
  BY <1>6 DEF BeginRun
<1> HIDE DEF a, w
<1>8. LabWorld(w) /\ w.host = World /\ w.engine = engine /\ w.auto = a
  BY <1>2, <1>3, <1>4, <1>5 DEF LabWorld, Lab, Rests
<1>9. Rests(w, crossed)
  BY <1>2, <1>3, <1>8 DEF Rests
<1>10. ASSUME LabFits(v, crossed), v.engine = engine
       PROVE  LInv'
  <2> HIDE DEF v
  <2> QED
    BY <1>1, <1>7, <1>10, LabTakesQuietly
<1>11. CASE ~monitoring
  <2>1. v = AcquireTesting(w)
    BY <1>11
  <2> HIDE DEF v, monitoring
  <2>2. LabFits(v, crossed) /\ v.engine = engine
    <3>1. app.state = "ConnectedIdle"
      BY <1>1, <1>11 DEF monitoring
    <3> QED
      BY <1>1, <1>3, <1>8, <1>9, <2>1, <3>1, AcquireTestingFits
  <2> QED
    BY <1>10, <2>2
<1>12. CASE monitoring /\ ~CanStopMonitoring(World)
  <2>1. v = EndWorkflow(w)
    BY <1>12
  <2>2. w.host.app.state # "Testing"
    BY <1>3, <1>8, <1>12
  <2> HIDE DEF v, monitoring
  <2>3. LabFits(v, crossed) /\ v.engine = engine
    BY <1>8, <1>9, <2>1, <2>2, EndWorkflowFits
  <2> QED
    BY <1>10, <2>3
<1>13. CASE monitoring /\ CanStopMonitoring(World)
  <2> DEFINE host == StopMonitorFor(World, "StopMonitoring")
             b == [[a EXCEPT !.action = "StopMonitoring"] EXCEPT !.state = "StoppingMonitoring"]
  <2>1. v = Orders(w, "StopMonitoring", "StoppingMonitoring", host)
    BY <1>13
  <2>2. app.pending = NoPending /\ app.state = "Monitoring"
    BY <1>3, <1>13 DEF CanStopMonitoring
  <2>3. /\ HostFits(host, crossed)
        /\ Stops(host.app, "StopMonitoring") \/ Broken(host.app)
        /\ ~crossed => Stops(host.app, "StopMonitoring")
    BY <1>1, <1>2, <1>3, <2>2, CommandNames, StopMonitorFits
  <2> HIDE DEF host, v
  <2>4. v = [[w EXCEPT !.host = host] EXCEPT !.auto = b]
    BY <1>8, <2>1 DEF Orders, LabWorld
  <2>5. b.action = "StopMonitoring" /\ b.state = "StoppingMonitoring" /\ DOMAIN b = DOMAIN NoRun
    BY <1>5 DEF NoRun
  <2> HIDE DEF b
  <2>6. LabWorld(v) /\ v.host = host /\ v.engine = engine /\ v.auto = b
    BY <1>8, <2>4, <2>5 DEF LabWorld
  <2>7. EngineFits(v) /\ LineWanted(v, crossed)
    BY <1>2, <1>3, <2>3, <2>6 DEF Rests, EngineFits, LineWanted, Busy, Stops, Broken
  <2>8. AutoFits(v, crossed)
    BY <1>2, <2>3, <2>5, <2>6 DEF AutoFits, Waiting, CommandOf, Stops, Broken, NoPending
  <2>9. LabFits(v, crossed) /\ v.engine = engine
    BY <2>3, <2>6, <2>7, <2>8 DEF LabFits
  <2> QED
    BY <1>10, <2>9
<1> QED
  BY <1>11, <1>12, <1>13

\* What the run does with its cases and with their time, the request it has sent aside.
Unread == {"late", "cases", "budget"}

LEMMA UnreadKeeps ==
  ASSUME LInv, NEW e, DOMAIN e = EngineFields, \A f \in EngineFields \ Unread : e[f] = engine[f],
         engine' = e, UNCHANGED <<appVars, auto>>
  PROVE  LInv'
<1> DEFINE v == With(Lab, e)
<1>1. LabFits(Lab, crossed) /\ LabWorld(Lab)
  BY DEF LInv, LabFits
<1>2. /\ e.state = engine.state /\ e.request = engine.request
      /\ e.step = engine.step /\ e.attempts = engine.attempts /\ e.delay = engine.delay
      /\ e.position = engine.position /\ e.index = engine.index
      /\ e.original = engine.original /\ e.accepted = engine.accepted
      /\ e.register = engine.register /\ e.before = engine.before /\ e.silent = engine.silent
      /\ e.taken = engine.taken /\ e.restores = engine.restores /\ e.tries = engine.tries
      /\ e.overdue = engine.overdue
  BY EngineFieldsAre DEF Unread
<1>3. Become(World) /\ UNCHANGED <<auto, history>>
  BY LabIsWorld DEF Become, appVars
<1>4. LabWorld(v) /\ v.engine = e /\ v.host = World /\ v.auto = auto /\ Kind(v) = Kind(Lab)
  BY <1>1, <1>2, LabIsWorld, WithIs, KindWith
<1> HIDE DEF v
<1>5. EngineKept(e) <=> EngineKept(engine)
  BY <1>2, Zenon DEF EngineKept
<1>6. /\ (CaseWaits(v) <=> CaseWaits(Lab)) /\ (CaseKeeps(v) <=> CaseKeeps(Lab))
      /\ (CaseCounts(v) <=> CaseCounts(Lab))
  <2>1. Quota(v, e.step) = Quota(Lab, e.step)
    BY <1>2, <1>4, LabIsWorld DEF Quota
  <2>2. CaseWaits(v) <=> CaseWaits(Lab)
    BY <1>2, <1>4, LabIsWorld DEF CaseWaits
  <2>3. CaseKeeps(v) <=> CaseKeeps(Lab)
    BY <1>2, <1>4, LabIsWorld DEF CaseKeeps
  <2>4. CaseCounts(v) <=> CaseCounts(Lab)
    BY <1>2, <1>4, <2>1, LabIsWorld DEF CaseCounts
  <2> QED
    BY <2>2, <2>3, <2>4
<1>7. EngineFits(v)
  <2>1. EngineFits(Lab)
    BY <1>1 DEF LabFits
  <2> QED
    BY <1>2, <1>4, <1>5, <1>6, <2>1, LabIsWorld, Zenon DEF EngineFits
<1>8. LabFits(v, crossed)
  BY ZenonT(60), <1>1, <1>2, <1>4, <1>7, LabIsWorld DEF LabFits, LineWanted, AutoFits
<1>9. LabBecomes(v)
  BY <1>3, <1>4 DEF LabBecomes
<1> QED
  BY <1>2, <1>3, <1>4, <1>8, <1>9, LabTakesQuietly

LEMMA SkipCaseKeeps ==
  ASSUME LInv, SkipCase
  PROVE  LInv'
<1>1. PICK i \in DOMAIN engine.cases : engine' = [engine EXCEPT !.cases[i] = "Skipped"]
  BY DEF SkipCase
<1>2. PICK e : e = [engine EXCEPT !.cases[i] = "Skipped"]
  OBVIOUS
<1>3. DOMAIN e = EngineFields /\ \A f \in EngineFields \ Unread : e[f] = engine[f]
  BY <1>2, LabIsWorld DEF LInv, LabFits, LabWorld, EngineFields, Unread
<1> QED
  BY <1>1, <1>2, <1>3, UnreadKeeps DEF SkipCase

LEMMA CaseTimePassesKeeps ==
  ASSUME LInv, CaseTimePasses
  PROVE  LInv'
<1>1. PICK e : e = [engine EXCEPT !.budget = IF @ = "ample" THEN "short" ELSE "spent"]
  OBVIOUS
<1>2. DOMAIN e = EngineFields /\ \A f \in EngineFields \ Unread : e[f] = engine[f]
  BY <1>1, LabIsWorld DEF LInv, LabFits, LabWorld, EngineFields, Unread
<1> QED
  BY <1>1, <1>2, UnreadKeeps DEF CaseTimePasses

LEMMA AbortKeeps ==
  ASSUME LInv, Abort
  PROVE  LInv'
<1> DEFINE v == AbortedWorld([Lab EXCEPT !.engine.state = "Aborting"])
<1>1. LabBecomes(v) /\ UNCHANGED history /\ auto.state = "Running" /\ engine.state = "Running"
  BY DEF Abort
<1>2. LabFits(v, crossed)
  BY <1>1, AbortFits, LabIsWorld DEF LInv
<1> HIDE DEF v
<1> QED
  BY <1>1, <1>2, LabTakesQuietly

\* What holds while the engine has a case.
LEMMA BusyIs ==
  ASSUME LInv, engine.state \in Busy
  PROVE  /\ HostServes(World) /\ CaseWaits(Lab) /\ CaseKeeps(Lab) /\ CaseCounts(Lab)
         /\ EngineKept(engine)
         /\ auto.state = "Running" /\ auto.action = "None" /\ ~mon.active /\ ~mon.task
         /\ HostFits(World, crossed) /\ LabWorld(Lab) /\ World \in Worlds
<1>1. /\ HostServes(World) /\ CaseWaits(Lab) /\ CaseKeeps(Lab) /\ CaseCounts(Lab)
      /\ EngineKept(engine)
      /\ HostFits(World, crossed) /\ LabWorld(Lab) /\ AutoFits(Lab, crossed)
  BY LabIsWorld DEF LInv, LabFits, EngineFits
<1>2. auto.state = "Running" /\ auto.action = "None"
  BY <1>1, LabIsWorld DEF AutoFits, Busy, Waiting
<1>3. ~mon.active /\ ~mon.task
  BY <1>1, LabIsWorld DEF HostServes, HostFits, Fine, KeepStep, MonitorWorks, NoPending
<1> QED
  BY <1>1, <1>2, <1>3 DEF HostFits, Fine

LEMMA DelayEndsKeeps ==
  ASSUME LInv, DelayEnds
  PROVE  LInv'
<1> DEFINE w == [Lab EXCEPT !.engine.delay = FALSE]
           e == [engine EXCEPT !.delay = FALSE]
           v == IF Kind(w) = "Stability" /\ engine.budget # "ample"
                  THEN CompleteCase(w, FALSE) ELSE NextStep(w, "CompositeStep")
<1>1. /\ engine.delay /\ engine.state = "Running" /\ FreeId(client) # {}
      /\ LabBecomes(v) /\ UNCHANGED history
  BY DEF DelayEnds
<1>2. /\ HostServes(World) /\ CaseWaits(Lab) /\ CaseKeeps(Lab) /\ CaseCounts(Lab)
      /\ EngineKept(engine)
      /\ auto.state = "Running" /\ auto.action = "None"
      /\ HostFits(World, crossed) /\ LabWorld(Lab)
  BY <1>1, BusyIs DEF Busy
<1>3. /\ engine.request = 0 /\ Kind(Lab) \notin {"WriteAndVerify", "Single"}
      /\ engine.register = engine.before /\ engine.restores = 0
      /\ engine.taken + 1 <= Quota(Lab, "CompositeStep")
  <2>1. engine.request = 0 /\ engine.step = "None" /\ Kind(Lab) \notin {"WriteAndVerify", "Single"}
    BY <1>1, <1>2, LabIsWorld DEF CaseWaits
  <2>2. Quota(Lab, engine.step) = Quota(Lab, "CompositeStep")
    BY <2>1 DEF Quota
  <2> QED
    BY <1>1, <1>2, <2>1, <2>2, LabIsWorld DEF CaseKeeps, CaseCounts
<1>4. w = With(Lab, e)
  BY <1>2, LabIsWorld DEF LabWorld, With
<1>5. /\ DOMAIN e = EngineFields /\ e.state = "Running" /\ e.request = 0 /\ ~e.delay
      /\ EngineKept(e) /\ e.index = engine.index /\ e.register = e.before
      /\ e.restores = 0 /\ e.taken = engine.taken /\ e.position = engine.position
  BY <1>1, <1>2, <1>3, LabIsWorld DEF LabWorld, EngineFields, NewEngine, EngineKept
<1> HIDE DEF e, w
<1>6. /\ LabWorld(w) /\ w.engine = e /\ w.host = World /\ w.auto = auto /\ Kind(w) = Kind(Lab)
  BY <1>2, <1>4, <1>5, LabIsWorld, WithIs, KindWith
<1>7. Samples(w, crossed)
  <2>1. Quota(w, "CompositeStep") = Quota(Lab, "CompositeStep")
    BY <1>5, <1>6, LabIsWorld DEF Quota
  <2>2. engine.taken \in Nat /\ Quota(Lab, "CompositeStep") \in Nat
    BY <1>2, EngineAssumption, LabIsWorld DEF EngineKept, Quota
  <2>3. engine.taken <= Quota(w, "CompositeStep") /\ engine.taken + 1 <= Quota(w, "CompositeStep")
    BY <1>3, <2>1, <2>2
  <2> QED
    BY <1>1, <1>2, <1>3, <1>5, <1>6, <2>3, LabIsWorld DEF Samples, Reads, InRun, Busy
<1>8. Settles(v, auto, crossed)
  <2>1. Settles(CompleteCase(w, FALSE), auto, crossed)
    BY <1>5, <1>6, <1>7, CompleteCaseSettles DEF Samples, Reads
  <2>2. Settles(NextStep(w, "CompositeStep"), auto, crossed)
    BY <1>6, <1>7, NextSampleSettles
  <2> QED
    BY <2>1, <2>2
<1> HIDE DEF v
<1>9. LabFits(v, crossed)
  BY <1>2, <1>8, SettlesFits
<1> QED
  BY <1>1, <1>9, LabTakesQuietly

\* A step of the services that neither the engine nor the automation hears of.
LEMMA UnheardKeeps ==
  ASSUME LInv, NEW h, Become(h), UNCHANGED <<engine, auto>>, HostFits(h, crossed'),
         crossed => crossed', crossed' \in BOOLEAN, faults' \in 0..MaxFaults,
         AppMoves(h.app, app),
         engine.request # 0 => engine.request \in Open(h.client),
         engine.state \in Busy => FreeOp(h.client) # {},
         app.pending = NoPending \/ h.app.pending # NoPending
  PROVE  LInv'
<1> DEFINE u == [Lab EXCEPT !.host = h]
<1>1. LabFits(Lab, crossed) /\ LabWorld(Lab)
  BY DEF LInv, LabFits
<1>2. LabWorld(u) /\ u.host = h /\ u.engine = engine /\ u.auto = auto
  BY <1>1, LabIsWorld DEF LabWorld, Lab
<1>3. LabBecomes(u)
  BY <1>2 DEF LabBecomes
<1> HIDE DEF u
<1>4. PICK y : y = crossed'
  OBVIOUS
<1>5. LabFits(u, y)
  BY <1>1, <1>2, <1>4, LabIsWorld, UnheardFits
<1>6. LabFits(Lab, crossed)' /\ engine' = engine
  BY <1>2, <1>3, <1>4, <1>5, LabTakes
<1> QED
  BY <1>6 DEF LInv

LEMMA MonitorTaskKeeps ==
  ASSUME LInv, MonitorTask, UNCHANGED <<engine, auto>>
  PROVE  LInv'
<1>1. mon.task /\ FreeId(client) # {} /\ Become(BeginBatch(World)) /\ UNCHANGED history
  BY DEF MonitorTask
<1>2. HostFits(World, crossed) /\ World \in Worlds /\ EngineFits(Lab)
      /\ faults \in 0..MaxFaults /\ crossed \in BOOLEAN
  BY LabIsWorld DEF LInv, LabFits, HostFits, Fine
<1>3. engine.state \notin Busy /\ engine.request = 0
  BY <1>1, <1>2, BusyIs, LabIsWorld DEF EngineFits
<1>4. app.pending = NoPending
  BY <1>1, <1>2, RunningIsIdle, LabIsWorld DEF HostFits, Fine, MonitorWorks
<1>5. HostFits(BeginBatch(World), crossed)
  BY <1>1, <1>2, BeginBatchFits, LabIsWorld
<1>6. AppMoves(BeginBatch(World).app, app)
  BY <1>2, WorldHosts, BeginBatchFollows, FollowsMoves, LabIsWorld
<1>7. crossed' = crossed /\ faults' = faults
  BY <1>1 DEF history
<1> QED
  BY <1>1, <1>2, <1>3, <1>4, <1>5, <1>6, <1>7, UnheardKeeps

LEMMA RequestStartsKeeps ==
  ASSUME LInv, NEW id \in Ids, RequestStarts(id), UNCHANGED <<engine, auto>>
  PROVE  LInv'
<1> DEFINE h == [World EXCEPT !.client = Started(client, id)]
<1>1. id \in Open(client) /\ client' = Started(client, id) /\ UNCHANGED <<app, mon, history>>
  BY DEF RequestStarts, Open
<1>2. HostFits(World, crossed) /\ World \in Worlds /\ client \in Client /\ EngineFits(Lab)
      /\ faults \in 0..MaxFaults /\ crossed \in BOOLEAN
  BY WorldHosts, LabIsWorld DEF LInv, LabFits, HostFits, Fine
<1>3. HostFits(h, crossed)
  BY <1>1, <1>2, RequestCallsFit, LabIsWorld
<1>4. h.client = Started(client, id) /\ h.app = app /\ h.mon = mon
  BY DEF World
<1>5. Open(Started(client, id)) = Open(client) /\ FreeOp(Started(client, id)) = FreeOp(client)
  <2>1. Open(Started(client, id)) = Open(client)
    BY <1>1, <1>2, RequestsKeep
  <2>2. Started(client, id).asks = client.asks
    BY <1>2 DEF Started, Client
  <2> QED
    BY <2>1, <2>2 DEF FreeOp, Asked
<1>6. Become(h) /\ crossed' = crossed /\ faults' = faults
  BY <1>1, <1>4 DEF Become, history
<1> HIDE DEF h
<1>7. engine.request # 0 => engine.request \in Open(client)
  BY <1>2, LabIsWorld DEF EngineFits, CaseWaits
<1>8. engine.state \in Busy => FreeOp(client) # {}
  BY BusyIs, LabIsWorld DEF HostServes
<1> QED
  BY <1>2, <1>3, <1>4, <1>5, <1>6, <1>7, <1>8, UnheardKeeps DEF AppMoves

LEMMA HeardIs ==
  ASSUME NEW h, LabWorld(Lab)
  PROVE  /\ LabWorld([Lab EXCEPT !.host = h]) /\ [Lab EXCEPT !.host = h].host = h
         /\ [Lab EXCEPT !.host = h].engine = engine /\ [Lab EXCEPT !.host = h].auto = auto
         /\ Heard(h) = Notify(Lab, [Lab EXCEPT !.host = h])
BY LabIsWorld DEF LabWorld, Lab, Heard

\* What the engine waits for, and the operation its release may need.
LEMMA EngineAwaits ==
  ASSUME LInv
  PROVE  /\ engine.request # 0 => engine.state \in Busy /\ engine.request \in Open(client)
         /\ engine.state \in Busy => app.pending = NoPending /\ FreeOp(client) # {}
         /\ LabFits(Lab, crossed) /\ LabWorld(Lab) /\ HostFits(World, crossed)
         /\ World \in Worlds /\ client \in Client /\ app.pending \in PendingCommand \cup {NoPending}
         /\ faults \in 0..MaxFaults /\ crossed \in BOOLEAN /\ 0 \notin Ids
<1>1. LabFits(Lab, crossed) /\ LabWorld(Lab) /\ HostFits(World, crossed) /\ EngineFits(Lab)
      /\ faults \in 0..MaxFaults /\ crossed \in BOOLEAN
  BY LabIsWorld DEF LInv, LabFits
<1>2. World \in Worlds /\ client \in Client /\ app.pending \in PendingCommand \cup {NoPending}
      /\ 0 \notin Ids
  BY <1>1, WorldHosts, LabIsWorld, AppAssumption DEF HostFits, Fine
<1>3. engine.request # 0 => engine.state \in Busy /\ engine.request \in Open(client)
  BY <1>1, LabIsWorld DEF EngineFits, CaseWaits
<1>4. engine.state \in Busy => app.pending = NoPending /\ FreeOp(client) # {}
  BY <1>1, LabIsWorld DEF EngineFits, HostServes
<1> QED
  BY <1>1, <1>2, <1>3, <1>4

LEMMA LabTurnKeeps ==
  ASSUME LInv, NEW s \in ConnectionState, LabTurn(s)
  PROVE  LInv'
<1> DEFINE turned == [World EXCEPT !.client = Turned(client, s)]
           h == IF s = client.state THEN turned ELSE HandleConnectionStateChanged(turned, s)
           v == IF s = client.state THEN [Lab EXCEPT !.host = turned]
                ELSE Heard(HandleConnectionStateChanged(turned, s))
<1>1. /\ MayTurn(client, s) /\ faults' = (IF s = "Faulted" THEN faults + 1 ELSE faults)
      /\ faults' <= MaxFaults /\ crossed' = (crossed \/ Turned(client, s).overtaken)
      /\ LabBecomes(v)
  BY DEF LabTurn
<1>2. /\ LabFits(Lab, crossed) /\ LabWorld(Lab) /\ HostFits(World, crossed)
      /\ World \in Worlds /\ client \in Client /\ faults \in 0..MaxFaults /\ crossed \in BOOLEAN
  BY EngineAwaits
<1>3. faults' \in 0..MaxFaults
  BY <1>1, <1>2, AppAssumption
<1>4. Turned(client, s) \in Client
  BY <1>2, TurnKeeps
<1>5. turned \in Worlds /\ turned.app = app /\ turned.mon = mon /\ turned.client = Turned(client, s)
  BY <1>2, <1>4, LabIsWorld DEF World, Worlds
<1>6. PICK y \in BOOLEAN : y = (crossed \/ Turned(client, s).overtaken)
  OBVIOUS
<1>7. crossed' = y
  BY <1>1, <1>6
<1> HIDE DEF turned
<1>8. /\ HostFits(h, y) /\ AppFollows(h.app, app)
      /\ Open(h.client) = Open(client) /\ FreeOp(h.client) = FreeOp(client)
  <2>1. /\ turned.client.overtaken => y
        /\ crossed => y
    BY <1>5, <1>6
  <2>2. /\ World.client = client /\ turned.app = World.app /\ turned.mon = World.mon
        /\ turned.client = Turned(World.client, s) /\ MayTurn(World.client, s)
        /\ World.app = app
    BY <1>1, <1>5, LabIsWorld
  <2>3. LET v0 == IF s = World.client.state THEN turned ELSE HandleConnectionStateChanged(turned, s)
        IN /\ HostFits(v0, y) /\ AppFollows(v0.app, World.app)
           /\ Open(v0.client) = Open(World.client) /\ FreeOp(v0.client) = FreeOp(World.client)
    BY <1>2, <1>5, <2>1, <2>2, TurnFits
  <2> QED
    BY <2>2, <2>3
<1>9. AppMoves(h.app, app)
  BY <1>8, FollowsMoves
<1>10. /\ engine.request # 0 => engine.request \in Open(h.client)
       /\ engine.state \in Busy => FreeOp(h.client) # {}
  BY <1>8, EngineAwaits
<1>11. LabFits(v, y)
  <2>1. CASE s = client.state
    <3>1. h = turned /\ v = [Lab EXCEPT !.host = turned]
      BY <2>1
    <3> HIDE DEF h, v
    <3>2. LabWorld(v) /\ v.host = h /\ v.engine = engine /\ v.auto = auto
      BY <1>2, <3>1, HeardIs
    <3>3. h.app = app
      BY <1>5, <3>1
    <3> QED
      BY <1>2, <1>6, <1>8, <1>9, <1>10, <3>2, <3>3, UnheardFits, LabIsWorld
  <2>2. CASE s # client.state
    <3>1. v = Notify(Lab, [Lab EXCEPT !.host = h])
      BY <1>2, <2>2, HeardIs
    <3> HIDE DEF h, v
    <3>2. h.app.pending = NoPending /\ app.pending # NoPending => h.app.state = "Error"
      BY <1>8 DEF AppFollows, Broken, NoPending
    <3> QED
      BY <1>2, <1>6, <1>8, <1>9, <1>10, <3>1, <3>2, NotifyFits, LabIsWorld
  <2> QED
    BY <2>1, <2>2
<1> HIDE DEF v
<1>12. LabFits(Lab, crossed)' /\ engine' = v.engine
  BY <1>1, <1>7, <1>11, LabTakes
<1> QED
  BY <1>3, <1>7, <1>11, <1>12 DEF LInv

\* An answer of the client, ok or not, of an operation or of a transition.
LEMMA AnsweredKeeps ==
  ASSUME LInv, NEW op \in OpIds, NEW ok \in BOOLEAN, NEW y \in BOOLEAN, crossed => y,
         NEW d, Replies(d, client, op, ok, y), FreeId(client) # {},
         LabBecomes(Heard(HandleControlCompleted([World EXCEPT !.client = d], op, ok))),
         crossed' = y, faults' = faults
  PROVE  LInv'
<1> DEFINE w == [World EXCEPT !.client = d]
           h == HandleControlCompleted(w, op, ok)
           v == Heard(h)
<1>1. /\ LabFits(Lab, crossed) /\ LabWorld(Lab) /\ HostFits(World, crossed)
      /\ World \in Worlds /\ client \in Client /\ faults \in 0..MaxFaults /\ crossed \in BOOLEAN
  BY EngineAwaits
<1>2. d \in Client
  BY DEF Replies, Clears
<1>3. w \in Worlds /\ w.app = app /\ w.mon = mon /\ w.client = d
  BY <1>1, <1>2, LabIsWorld DEF World, Worlds
<1>4. LabBecomes(v)
  OBVIOUS
<1> HIDE DEF w
<1>5. /\ HostFits(h, y) /\ AppMoves(h.app, app) /\ Open(h.client) = Open(client)
      /\ h.app.pending = NoPending => h.client = w.client /\ FreeOp(h.client) # {}
      /\ h.app.pending = NoPending /\ h.app # app /\ h.app.state = "Testing" =>
           ~h.client.inTransition
  BY <1>1, <1>3, AnswerFits, LabIsWorld
<1>6. v = Notify(Lab, [Lab EXCEPT !.host = h])
  BY <1>1, HeardIs
<1> HIDE DEF h, v
<1>7. FreeId(h.client) # {}
  BY <1>5 DEF FreeId
<1>8. engine.request # 0 => engine.request \in Open(h.client)
  BY <1>5, EngineAwaits
<1>9. engine.state \in Busy => FreeOp(h.client) # {}
  BY <1>5, EngineAwaits DEF AppMoves, Broken
<1>10. LabFits(v, y)
  <2>1. /\ h.app.pending = NoPending /\ app.pending # NoPending /\ h.app.state # "Error"
        => /\ FreeOp(h.client) # {} /\ FreeId(h.client) # {}
           /\ h.app.state = "Testing" => ~h.client.inTransition
    BY <1>5, <1>7
  <2>2. Lab.host = World /\ Lab.engine = engine
    BY LabIsWorld
  <2> DEFINE u == Notify(Lab, [Lab EXCEPT !.host = h])
  <2>3. LabFits(u, y)
    <3>1. AppMoves(h.app, Lab.host.app)
      BY <1>5, <2>2 DEF World
    <3>2. Lab.engine.request # 0 => Lab.engine.request \in Open(h.client)
      BY <1>8, <2>2
    <3>3. Lab.engine.state \in Busy => FreeOp(h.client) # {}
      BY <1>9, <2>2
    <3>4. /\ h.app.pending = NoPending /\ Lab.host.app.pending # NoPending
          /\ h.app.state # "Error"
          => /\ FreeOp(h.client) # {} /\ FreeId(h.client) # {}
             /\ h.app.state = "Testing" => ~h.client.inTransition
      BY <2>1, <2>2 DEF World
    <3> QED
      BY <1>1, <1>5, <2>2, <3>1, <3>2, <3>3, <3>4, NotifyFits
  <2> QED
    BY <1>6, <2>3
<1>11. LabFits(Lab, crossed)' /\ engine' = v.engine
  BY <1>4, <1>10, LabTakes
<1> QED
  BY <1>1, <1>10, <1>11 DEF LInv

LEMMA LabAnswerKeeps ==
  ASSUME LInv, NEW op \in OpIds, LabAnswer(op)
  PROVE  LInv'
<1>1. FreeId(client) # {} /\ client \in Client /\ crossed \in BOOLEAN
      /\ MovesAreAsked(client)
  BY EngineAwaits, LabIsWorld DEF LabAnswer, HostFits
<1>2. PICK ok \in BOOLEAN :
        \/ /\ MayAnswerControl(client, op, ok)
           /\ LabBecomes(Heard(HandleControlCompleted(
                [World EXCEPT !.client = ControlAnswered(client, op, ok)], op, ok)))
           /\ UNCHANGED history
        \/ /\ MayAnswerTransition(client, op, ok)
           /\ LabBecomes(Heard(HandleControlCompleted(
                [World EXCEPT !.client = TransitionAnswered(client, op, ok)], op, ok)))
           /\ crossed' = (crossed \/ ~ok) /\ UNCHANGED faults
  BY DEF LabAnswer
<1>3. CASE /\ MayAnswerControl(client, op, ok)
           /\ LabBecomes(Heard(HandleControlCompleted(
                [World EXCEPT !.client = ControlAnswered(client, op, ok)], op, ok)))
           /\ UNCHANGED history
  <2>1. PICK y \in BOOLEAN : y = crossed
    BY <1>1
  <2>2. PICK d : d = ControlAnswered(client, op, ok)
    OBVIOUS
  <2>3. Replies(d, client, op, ok, y)
    BY <1>1, <1>3, <2>2, ControlReplies
  <2>4. crossed' = y /\ faults' = faults
    BY <1>3, <2>1 DEF history
  <2>5. LabBecomes(Heard(HandleControlCompleted([World EXCEPT !.client = d], op, ok)))
    BY <1>3, <2>2
  <2> QED
    BY <1>1, <2>1, <2>3, <2>4, <2>5, AnsweredKeeps
<1>4. CASE /\ MayAnswerTransition(client, op, ok)
           /\ LabBecomes(Heard(HandleControlCompleted(
                [World EXCEPT !.client = TransitionAnswered(client, op, ok)], op, ok)))
           /\ crossed' = (crossed \/ ~ok) /\ UNCHANGED faults
  <2>1. PICK y \in BOOLEAN : y = (crossed \/ ~ok)
    OBVIOUS
  <2>2. PICK d : d = TransitionAnswered(client, op, ok)
    OBVIOUS
  <2>3. Replies(d, client, op, ok, y)
    BY <1>1, <1>4, <2>1, <2>2, TransitionReplies
  <2>4. crossed' = y /\ faults' = faults /\ (crossed => y)
    BY <1>4, <2>1
  <2>5. LabBecomes(Heard(HandleControlCompleted([World EXCEPT !.client = d], op, ok)))
    BY <1>4, <2>2
  <2> QED
    BY <1>1, <2>3, <2>4, <2>5, AnsweredKeeps
<1> QED
  BY <1>2, <1>3, <1>4

\* What is heard at the end of a request the engine has not asked for.
LEMMA OtherRequestHeard ==
  ASSUME LInv, NEW id \in Ids, engine.request # id, NEW h, HostFits(h, crossed),
         AppFollows(h.app, app),
         ~mon.active => Open(h.client) = Open(client) \ {id} /\ FreeOp(h.client) = FreeOp(client)
  PROVE  /\ LabFits(Heard(h), crossed)
         /\ Heard(h).engine.request \in {0, engine.request} /\ LabWorld(Heard(h))
<1> DEFINE heard == Heard(h)
<1>1. /\ LabFits(Lab, crossed) /\ LabWorld(Lab)
      /\ engine.request # 0 => engine.state \in Busy /\ engine.request \in Open(client)
      /\ engine.state \in Busy => app.pending = NoPending /\ FreeOp(client) # {}
  BY EngineAwaits
<1>2. engine.state \in Busy => ~mon.active
  BY BusyIs
<1>3. /\ engine.request # 0 => engine.request \in Open(h.client)
      /\ engine.state \in Busy => FreeOp(h.client) # {}
  BY <1>1, <1>2
<1>4. heard = Notify(Lab, [Lab EXCEPT !.host = h])
  BY <1>1, HeardIs
<1> HIDE DEF heard
<1>5. AppMoves(h.app, app)
  BY FollowsMoves
<1>6. h.app.pending = NoPending /\ app.pending # NoPending => h.app.state = "Error"
  BY DEF AppFollows, Broken, NoPending
<1>7. /\ LabFits(heard, crossed)
      /\ heard.engine.request \in {0, engine.request}
  BY <1>1, <1>3, <1>4, <1>5, <1>6, NotifyFits, LabIsWorld
<1> QED
  BY <1>7 DEF heard, LabFits

\* Nothing is heard at the end of the engine's own request.
LEMMA OwnRequestHeard ==
  ASSUME LInv, NEW id \in Ids, engine.request = id, NEW h
  PROVE  /\ LabWorld(Heard(h)) /\ Heard(h).host = h
         /\ Heard(h).engine = engine /\ Heard(h).auto = auto
<1>1. LabWorld(Lab) /\ app.pending = NoPending
  BY EngineAwaits
<1>2. Heard(h) = Notify(Lab, [Lab EXCEPT !.host = h])
  BY <1>1, HeardIs
<1>3. Lab.host.app.pending.command = "None"
  BY <1>1, LabIsWorld DEF NoPending
<1>4. Notify(Lab, [Lab EXCEPT !.host = h]) = [Lab EXCEPT !.host = h]
  BY <1>3, Zenon DEF Notify
<1> DEFINE u == [Lab EXCEPT !.host = h]
<1>5. LabWorld(u) /\ u.host = h /\ u.engine = engine /\ u.auto = auto
  BY <1>1, HeardIs
<1>6. Heard(h) = u
  BY <1>2, <1>4
<1> HIDE DEF u
<1> QED
  BY <1>5, <1>6

\* The lateness of an answer is forgotten with it.
LEMMA LateForgotten ==
  ASSUME NEW v, NEW x, LabFits(v, x)
  PROVE  LabFits([v EXCEPT !.engine.late = FALSE], x)
<1>1. LabWorld(v) /\ DOMAIN v.engine = EngineFields
  BY DEF LabFits, LabWorld, EngineFields
<1> DEFINE g == [v.engine EXCEPT !.late = FALSE]
           u == With(v, g)
           last == [v EXCEPT !.engine.late = FALSE]
<1>2. u = last
  BY <1>1 DEF With, LabWorld
<1>3. DOMAIN g = EngineFields /\ \A f \in EngineFields \ {"late"} : g[f] = v.engine[f]
  BY <1>1, EngineFieldsAre
<1> HIDE DEF g
<1>4. LabFits(u, x)
  BY <1>3, LateIsPast
<1> HIDE DEF u, last
<1> QED
  BY <1>2, <1>4 DEF last

\* The end of a request the engine has not asked for.
LEMMA OtherRequestKeeps ==
  ASSUME LInv, NEW id \in Ids, engine.request # id, NEW h, HostFits(h, crossed),
         AppFollows(h.app, app),
         ~mon.active => Open(h.client) = Open(client) \ {id} /\ FreeOp(h.client) = FreeOp(client),
         NEW e, DOMAIN e = EngineFields, ~e.late, e.late \in BOOLEAN,
         \A f \in EngineFields \ {"late"} : e[f] = Heard(h).engine[f],
         UNCHANGED history, NEW outcome,
         LabBecomes([RequestCompleted(With(Heard(h), e), id, outcome)
                       EXCEPT !.engine.late = FALSE])
  PROVE  LInv'
<1> DEFINE heard == Heard(h)
           v == RequestCompleted(With(heard, e), id, outcome)
           last == [v EXCEPT !.engine.late = FALSE]
<1>1. 0 \notin Ids
  BY EngineAwaits
<1>2. LabBecomes(last)
  OBVIOUS
<1>7. /\ LabFits(heard, crossed)
      /\ heard.engine.request \in {0, engine.request}
  BY OtherRequestHeard
<1>9. \A f \in EngineFields \ {"late"} : e[f] = heard.engine[f]
  OBVIOUS
<1> HIDE DEF heard, last
<1>8. LabWorld(heard) /\ e.request = heard.engine.request
  BY <1>7, <1>9, EngineFieldsAre DEF LabFits
<1> DEFINE done == With(heard, e)
<1>10. LabWorld(done) /\ done.engine = e
  BY <1>8, WithIs
<1>11. v = done
  <2>1. done.engine.request # id
    BY <1>1, <1>7, <1>8, <1>10
  <2> HIDE DEF done
  <2>2. RequestCompleted(done, id, outcome) = done
    BY <2>1, Zenon DEF RequestCompleted
  <2> QED
    BY <2>2 DEF done
<1>12. LabFits(done, crossed)
  BY <1>7, <1>9, LateIsPast
<1> HIDE DEF done, v
<1>13. LabFits(last, crossed)
  BY <1>11, <1>12, LateForgotten DEF last
<1> QED
  BY <1>2, <1>13, LabTakesQuietly

\* The end of the engine's request: what the device holds then, the case goes on from.
LEMMA OwnRequestKeeps ==
  ASSUME LInv, NEW id \in Ids, engine.request = id, NEW h, HostFits(h, crossed),
         h.app = app, Open(h.client) = Open(client) \ {id}, FreeOp(h.client) = FreeOp(client),
         NEW outcome \in Outcome, NEW applied \in BOOLEAN,
         applied => engine.step \in {"Write", "Restore"},
         engine.step = "Restore" /\ outcome = "Values" => applied,
         NEW e, DOMAIN e = EngineFields,
         \A f \in EngineFields \ {"register", "late"} : e[f] = engine[f],
         applied => e.register = IF engine.step = "Write" THEN Wanted ELSE engine.original,
         ~applied => e.register = engine.register,
         UNCHANGED history,
         LabBecomes([RequestCompleted(With(Heard(h), e), id, outcome)
                       EXCEPT !.engine.late = FALSE])
  PROVE  LInv'
<1> DEFINE heard == Heard(h)
           done == With(heard, e)
           v == RequestCompleted(done, id, outcome)
<1>1. /\ LabFits(Lab, crossed) /\ LabWorld(Lab) /\ id # 0 /\ engine.state \in Busy
      /\ app.pending = NoPending
  BY EngineAwaits
<1>2. /\ HostServes(World) /\ CaseWaits(Lab) /\ CaseKeeps(Lab) /\ CaseCounts(Lab)
      /\ EngineKept(engine)
      /\ auto.state = "Running" /\ auto.action = "None"
  BY <1>1, BusyIs
<1>3. id \in Open(client) /\ ~engine.delay /\ engine.step \in Step
  BY <1>1, <1>2, LabIsWorld DEF CaseWaits
<1>4. LabWorld(heard) /\ heard.host = h /\ heard.engine = engine /\ heard.auto = auto
  BY OwnRequestHeard
<1>5. LabBecomes([v EXCEPT !.engine.late = FALSE])
  OBVIOUS
<1> DEFINE value == IF engine.step = "Write" THEN Wanted ELSE engine.original
<1>6. e.register = IF applied THEN value ELSE engine.register
  OBVIOUS
<1>7. DOMAIN engine = EngineFields
  BY <1>1, LabIsWorld DEF LabWorld, EngineFields
<1> HIDE DEF heard, value
<1>8. /\ e.state = engine.state /\ e.request = id
      /\ e.step = engine.step /\ e.attempts = engine.attempts /\ ~e.delay
      /\ e.index = engine.index /\ e.original = engine.original
      /\ e.before = engine.before /\ e.silent = engine.silent
      /\ e.position = engine.position /\ e.taken = engine.taken
      /\ e.restores = engine.restores /\ e.tries = engine.tries /\ e.overdue = engine.overdue
  <2>1. /\ e.state = engine.state /\ e.request = id /\ e.step = engine.step
        /\ e.attempts = engine.attempts /\ ~e.delay /\ e.index = engine.index
        /\ e.original = engine.original /\ e.before = engine.before
        /\ e.silent = engine.silent
    BY <1>3, EngineFieldsAre
  <2>2. /\ e.position = engine.position /\ e.taken = engine.taken
        /\ e.restores = engine.restores /\ e.tries = engine.tries /\ e.overdue = engine.overdue
    BY EngineFieldsAre
  <2> QED
    BY <2>1, <2>2
<1>9. e.accepted = engine.accepted
  BY EngineFieldsAre
<1>10. applied => Kind(Lab) = "WriteAndVerify" /\ engine.step # "ReadBefore"
  BY <1>2, LabIsWorld DEF CaseKeeps, FirstStep
<1>11. applied /\ engine.step = "Restore" => value = engine.before
  BY <1>2, <1>10, LabIsWorld DEF CaseKeeps, value
<1>12. applied => value \in Values
  BY <1>2, <1>11 DEF EngineKept, value, Values
<1>13. EngineKept(e)
  BY <1>2, <1>6, <1>8, <1>12 DEF EngineKept
<1>14. /\ LabWorld(done) /\ done.engine = e /\ done.host = h /\ done.auto = auto
       /\ Kind(done) = Kind(Lab)
  <2>1. Kind(heard) = Kind(Lab)
    BY <1>4, LabIsWorld DEF Kind
  <2>2. e.index = heard.engine.index
    BY <1>4, <1>8
  <2> QED
    BY <1>4, <2>1, <2>2, WithIs, KindWith
<1> HIDE DEF done
<1>15. CaseKeeps(done) /\ CaseCounts(done)
  <2>1. CaseKeeps(Lab) /\ CaseCounts(Lab)
    BY <1>2
  <2>2. CaseKeeps(done)
    BY <1>6, <1>8, <1>9, <1>10, <1>14, <2>1, LabIsWorld DEF CaseKeeps
  <2>3. Quota(done, e.step) = Quota(Lab, engine.step)
    BY <1>8, <1>14, LabIsWorld DEF Quota
  <2>4. CaseCounts(done)
    BY <1>8, <1>14, <2>1, <2>3, LabIsWorld DEF CaseCounts
  <2> QED
    BY <2>2, <2>4
<1>16. HostServes(h)
  BY <1>2, LabIsWorld DEF HostServes
<1>17. FreeId(h.client) # {}
  BY DEF FreeId
<1>18. InRun(done, crossed)
  BY <1>1, <1>2, <1>8, <1>13, <1>14, <1>16, <1>17 DEF InRun
<1>19. Settles(v, auto, crossed)
  <2>1. done.engine.step = "Restore" /\ outcome = "Values"
        => done.engine.register = done.engine.before
    BY <1>6, <1>8, <1>11, <1>14
  <2>2. v = RequestCompleted(done, done.engine.request, outcome)
    BY <1>8, <1>14
  <2> HIDE DEF v
  <2> QED
    BY <1>3, <2>2, <1>8, <1>14, <1>15, <1>17, <1>18, <2>1, RequestCompletedSettles
<1> HIDE DEF v
<1>20. LabFits(v, crossed)
  BY <1>2, <1>19, SettlesFits
<1> DEFINE last == [v EXCEPT !.engine.late = FALSE]
<1>21. LabFits(last, crossed)
  BY <1>20, LateForgotten
<1> HIDE DEF last
<1> QED
  BY <1>5, <1>21, LabTakesQuietly DEF last

LEMMA WorldCompletes ==
  ASSUME HostFits(World, crossed), NEW id \in Ids, NEW reading \in BOOLEAN, NEW decodes \in BOOLEAN,
         NEW w \in Worlds, w.app = app, w.mon = mon, w.client = Completed(client, id)
  PROVE  LET v == HandleRequestCompleted(w, id, reading, decodes) IN
         /\ HostFits(v, crossed) /\ AppFollows(v.app, app) /\ (~mon.active => v = w)
         /\ Open(w.client) = Open(client) \ {id} /\ FreeOp(w.client) = FreeOp(client)
<1> DEFINE v == HandleRequestCompleted(w, id, reading, decodes)
<1>1. World.client = client /\ World.app = app /\ World.mon = mon
  BY LabIsWorld
<1>2. /\ HostFits(v, crossed) /\ AppFollows(v.app, World.app) /\ (~World.mon.active => v = w)
      /\ Open(w.client) = Open(World.client) \ {id} /\ FreeOp(w.client) = FreeOp(World.client)
  BY <1>1, CompletedFits
<1> HIDE DEF v
<1> QED
  BY <1>1, <1>2 DEF v

LEMMA LabRequestCompletesKeeps ==
  ASSUME LInv, NEW id \in Ids, LabRequestCompletes(id)
  PROVE  LInv'
<1>1. id \in Open(client) /\ UNCHANGED history
  BY DEF LabRequestCompletes
<1>2. PICK outcome \in Outcome, applied \in BOOLEAN, decodes \in BOOLEAN, late \in BOOLEAN :
        LET mine == engine.request = id
            writes == mine /\ engine.step \in {"Write", "Restore"}
            value == IF engine.step = "Write" THEN Wanted ELSE engine.original
            host == HandleRequestCompleted([World EXCEPT !.client = Completed(client, id)],
                                           id, outcome = "Values", decodes)
            done == [Heard(host) EXCEPT !.engine.register = IF applied THEN value ELSE @,
                                        !.engine.late = late]
            answered == outcome \in {"Values", "Exception"}
        IN /\ answered => id \in client.sent
           /\ applied => writes /\ id \in client.sent /\ outcome # "Exception"
           /\ writes /\ outcome = "Values" => applied
           /\ mon.active \/ ~decodes
           /\ late => mine /\ Kind(Lab) = "Stability"
           /\ LabBecomes([RequestCompleted(done, id, outcome) EXCEPT !.engine.late = FALSE])
  BY Zenon DEF LabRequestCompletes
<1> DEFINE w == [World EXCEPT !.client = Completed(client, id)]
           h == HandleRequestCompleted(w, id, outcome = "Values", decodes)
           value == IF engine.step = "Write" THEN Wanted ELSE engine.original
           e == [[Heard(h).engine EXCEPT !.register = IF applied THEN value ELSE @]
                   EXCEPT !.late = late]
           done == [Heard(h) EXCEPT !.engine.register = IF applied THEN value ELSE @,
                                    !.engine.late = late]
           v == RequestCompleted(With(Heard(h), e), id, outcome)
<1>3. /\ applied => engine.request = id /\ engine.step \in {"Write", "Restore"}
      /\ engine.request = id /\ engine.step \in {"Write", "Restore"} /\ outcome = "Values"
         => applied
      /\ late => engine.request = id
      /\ LabBecomes([RequestCompleted(done, id, outcome) EXCEPT !.engine.late = FALSE])
  BY <1>2
<1>4. /\ LabFits(Lab, crossed) /\ LabWorld(Lab) /\ HostFits(World, crossed)
      /\ World \in Worlds /\ client \in Client
  BY EngineAwaits
<1>5. Completed(client, id) \in Client
  BY <1>4, RequestsKeep
<1>6. w \in Worlds /\ w.app = app /\ w.mon = mon /\ w.client = Completed(client, id)
  BY <1>4, <1>5, LabIsWorld DEF World, Worlds
<1> HIDE DEF w
<1>7. (outcome = "Values") \in BOOLEAN
  OBVIOUS
<1>8. /\ HostFits(h, crossed) /\ AppFollows(h.app, app) /\ (~mon.active => h = w)
      /\ Open(w.client) = Open(client) \ {id} /\ FreeOp(w.client) = FreeOp(client)
  <2>1. PICK reading \in BOOLEAN : reading = (outcome = "Values")
    BY <1>7
  <2>2. PICK v0 : v0 = HandleRequestCompleted(w, id, reading, decodes)
    OBVIOUS
  <2>3. /\ HostFits(v0, crossed) /\ AppFollows(v0.app, app) /\ (~mon.active => v0 = w)
        /\ Open(w.client) = Open(client) \ {id} /\ FreeOp(w.client) = FreeOp(client)
    BY <1>4, <1>6, <2>2, WorldCompletes
  <2> QED
    BY <2>1, <2>2, <2>3
<1>9. engine.request = id => ~mon.active
  BY EngineAwaits, BusyIs
<1>10. LabWorld(Heard(h))
  <2> HIDE DEF h
  <2>1. CASE engine.request = id
    BY <2>1, OwnRequestHeard
  <2>2. CASE engine.request # id
    BY <1>6, <1>8, <2>2, OtherRequestHeard
  <2> QED
    BY <2>1, <2>2
<1>11. done = With(Heard(h), e)
  <2> HIDE DEF h, value
  <2> QED
    BY <1>10 DEF With, LabWorld
<1>12. LabBecomes([v EXCEPT !.engine.late = FALSE])
  <2> HIDE DEF h, e, done
  <2> QED
    BY <1>3, <1>11
<1>13. PICK f : f = e
  OBVIOUS
<1>14. LabBecomes([RequestCompleted(With(Heard(h), f), id, outcome) EXCEPT !.engine.late = FALSE])
  <2> HIDE DEF h, e
  <2> QED
    BY <1>12, <1>13
<1>15. /\ DOMAIN f = EngineFields /\ f.late = late
       /\ \A g \in EngineFields \ {"register", "late"} : f[g] = Heard(h).engine[g]
       /\ f.register = IF applied THEN value ELSE Heard(h).engine.register
  <2> HIDE DEF h, value
  <2> QED
    BY <1>10, <1>13, EngineFieldsAre DEF LabWorld, EngineFields
<1> HIDE DEF e, v, done
<1>16. CASE engine.request # id
  <2>1. ~applied /\ ~late
    BY <1>3, <1>16
  <2>2. \A g \in EngineFields \ {"late"} : f[g] = Heard(h).engine[g]
    BY <1>15, <2>1
  <2>3. ~mon.active => Open(h.client) = Open(client) \ {id} /\ FreeOp(h.client) = FreeOp(client)
    BY <1>6, <1>8
  <2> HIDE DEF h
  <2> QED
    BY <1>1, <1>8, <1>14, <1>15, <1>16, <2>1, <2>2, <2>3, OtherRequestKeeps
<1>17. CASE engine.request = id
  <2>1. /\ h.app = app /\ Open(h.client) = Open(client) \ {id}
        /\ FreeOp(h.client) = FreeOp(client)
    BY <1>6, <1>8, <1>9, <1>17
  <2>2. Heard(h).engine = engine
    BY <1>17, OwnRequestHeard
  <2>3. /\ \A g \in EngineFields \ {"register", "late"} : f[g] = engine[g]
        /\ applied => f.register = IF engine.step = "Write" THEN Wanted ELSE engine.original
        /\ ~applied => f.register = engine.register
    <3> HIDE DEF h
    <3> QED
      BY <1>15, <2>2
  <2> HIDE DEF h
  <2> QED
    BY <1>1, <1>3, <1>8, <1>14, <1>15, <1>17, <2>1, <2>3, OwnRequestKeeps
<1> QED
  BY <1>16, <1>17

-----------------------------------------------------------------------------
(***************************************************************************)
(* The theorems.                                                           *)
(***************************************************************************)
LEMMA LabStarts == LabInit => LInv
<1> SUFFICES ASSUME LabInit
             PROVE  LInv
  OBVIOUS
<1>1. AppInit /\ engine = NewEngine(<<>>) /\ auto = NoRun
  BY DEF LabInit
<1>2. Fine(World) /\ InStep(World) /\ faults \in 0..MaxFaults /\ crossed \in BOOLEAN
      /\ app.state = "Disconnected" /\ app.pending = NoPending
      /\ client = ClientInit
  BY <1>1, Starts DEF IInv, AppInit
<1>3. Unlent(client) /\ MovesAreAsked(client)
  BY <1>2, AppAssumption, ContractAssumption DEF Unlent, MovesAreAsked, ClientInit, NoAsk
<1>4. HostFits(World, crossed)
  BY <1>2, <1>3, UnlentIsLent, LabIsWorld DEF HostFits
<1>5. LabWorld(Lab)
  BY <1>1, LabIsWorld DEF LabWorld, NewEngine, Lab
<1>6. EngineKept(engine) /\ engine.state = "Idle" /\ engine.request = 0 /\ ~engine.delay
  BY <1>1, EngineAssumption DEF EngineKept, NewEngine, Values
<1>7. auto.state = "Idle" /\ auto.action = "None"
  BY <1>1 DEF NoRun
<1> QED
  BY <1>2, <1>4, <1>5, <1>6, <1>7, LabIsWorld
    DEF LInv, LabFits, EngineFits, LineWanted, AutoFits, Busy, Waiting, NoPending

LEMMA LabStepKeeps ==
  ASSUME LInv, LabNext
  PROVE  LInv'
<1>1. CASE LabUserCommand
  BY <1>1, UserCommandKeeps
<1>2. CASE \E suite \in Suites, resume \in BOOLEAN :
             \E chosen \in SUBSET DOMAIN suite : BeginRun(suite, chosen, resume)
  BY <1>2, BeginRunKeeps
<1>3. CASE SkipCase
  BY <1>3, SkipCaseKeeps
<1>4. CASE Abort
  BY <1>4, AbortKeeps
<1>5. CASE CaseTimePasses
  BY <1>5, CaseTimePassesKeeps
<1>6. CASE DelayEnds
  BY <1>6, DelayEndsKeeps
<1>7. CASE MonitorTask /\ UNCHANGED <<engine, auto>>
  BY <1>7, MonitorTaskKeeps
<1>8. ASSUME NEW s \in ConnectionState, LabTurn(s)
      PROVE  LInv'
  BY <1>8, LabTurnKeeps
<1>9. ASSUME NEW op \in OpIds, LabAnswer(op)
      PROVE  LInv'
  BY <1>9, LabAnswerKeeps
<1>10. ASSUME NEW id \in Ids, RequestStarts(id) /\ UNCHANGED <<engine, auto>>
       PROVE  LInv'
  BY <1>10, RequestStartsKeeps
<1>11. ASSUME NEW id \in Ids, LabRequestCompletes(id)
       PROVE  LInv'
  BY <1>11, LabRequestCompletesKeeps
<1> QED
  BY <1>1, <1>2, <1>3, <1>4, <1>5, <1>6, <1>7, <1>8, <1>9, <1>10, <1>11 DEF LabNext

LEMMA LabKeeps == LInv /\ [LabNext]_engineVars => LInv'
<1> SUFFICES ASSUME LInv, [LabNext]_engineVars
             PROVE  LInv'
  OBVIOUS
<1>1. CASE LabNext
  BY <1>1, LabStepKeeps
<1>2. CASE UNCHANGED engineVars
  <2>1. engine' = engine /\ auto' = auto /\ client' = client /\ app' = app /\ mon' = mon
        /\ faults' = faults /\ crossed' = crossed
    BY <1>2 DEF engineVars, appVars, history
  <2>2. Lab' = Lab
    BY <2>1 DEF Lab, World
  <2> QED
    BY <2>1, <2>2 DEF LInv
<1> QED
  BY <1>1, <1>2

\* Whatever the user, the line and the device do, and in whatever order the signals of
\* the client come, the services, the engine and the automation are in step: the engine
\* has a case only with the line and nothing else under way, waits for something while it
\* has one, and knows what the case has found in the register until it is there again.
THEOREM LabInvariant == LabSpec => []LInv
BY LabStarts, LabKeeps, PTL DEF LabSpec

LEMMA LInvIs ==
  ASSUME LInv
  PROVE  /\ EngineFits(Lab) /\ LineWanted(Lab, crossed) /\ AutoFits(Lab, crossed)
         /\ HostFits(World, crossed) /\ World.client = client /\ World.app = app
         /\ Lab.host = World /\ Lab.engine = engine /\ Lab.auto = auto
BY LabIsWorld DEF LInv, LabFits

\* A run is always waiting for something that is still to come: the engine for a request
\* that is open in the client, for the end of a pause or for its release of the line, and
\* the automation for its command or for the engine, although neither of them is told
\* when the connection is lost.
THEOREM RunWaits == LabSpec => []RunIsAwaited
<1>1. LInv => RunIsAwaited
  <2> SUFFICES ASSUME LInv
               PROVE  RunIsAwaited
    OBVIOUS
  <2>1. /\ engine.state \in Busy => CaseWaits(Lab)
        /\ engine.state = "Releasing" => app.pending.command = "StopTesting"
    BY LInvIs DEF EngineFits
  <2>2. CaseWaits(Lab) =>
          \/ engine.request \in Open(client)
          \/ engine.delay /\ engine.state = "Running"
    BY LInvIs DEF CaseWaits
  <2> QED
    BY <2>1, <2>2, LInvIs DEF RunIsAwaited, AutoFits, Busy, Waiting
<1> QED
  BY <1>1, LabInvariant, PTL

\* A case that writes a register leaves in it what it has found there, or reports that it
\* could not, whatever fails, times out or is aborted on the way.
THEOREM RegisterRestoredOrReported == LabSpec => []RestoredOrReported
<1>1. LInv => RestoredOrReported
  BY LInvIs DEF EngineFits, EngineKept, RestoredOrReported
<1> QED
  BY <1>1, LabInvariant, PTL

\* The line does not stay with Testing when no run wants it, neither after a run nor after
\* one that could not begin, unless a fault has overtaken an operation of the client.
THEOREM LineComesBack == LabSpec => []LineGivenBack
<1>1. LInv => LineGivenBack
  <2> SUFFICES ASSUME LInv, ~Engaged, ~crossed, app.pending = NoPending
               PROVE  client.owner # Testing
    BY DEF LineGivenBack
  <2>1. engine.state \notin Busy
    BY LInvIs DEF AutoFits, Engaged, Busy
  <2>2. app.state # "Testing"
    BY <2>1, LInvIs DEF LineWanted
  <2> QED
    BY <2>2, LInvIs, LentOnlyToTesting
<1> QED
  BY <1>1, LabInvariant, PTL

\* After an abort, and once the budget of its case is over, the engine sends nothing but
\* the request that restores the register, and sends that at most once in a case, whatever
\* its answer; no step of a case is sent more often than once and its retries, and no case
\* begins more steps than it has (a stability case: one in each iteration).
THEOREM SendsAreModest == LabSpec => []SendsNoMoreThanItMay
<1>1. LInv => SendsNoMoreThanItMay
  <2> SUFFICES ASSUME LInv
               PROVE  SendsNoMoreThanItMay
    OBVIOUS
  <2>1. EngineKept(engine)
    BY LInvIs DEF EngineFits
  <2>2. ASSUME engine.state \in Busy
        PROVE  engine.taken <= StepLimit(Kind(Lab))
    <3>1. engine.taken <= Quota(Lab, engine.step)
      BY <2>2, LInvIs DEF EngineFits, CaseCounts
    <3>2. /\ Quota(Lab, engine.step) \in Nat /\ StepLimit(Kind(Lab)) \in Nat
          /\ Quota(Lab, engine.step) <= StepLimit(Kind(Lab))
      BY <2>1, EngineAssumption, LInvIs DEF Quota, StepLimit, EngineKept
    <3> QED
      BY <2>1, <3>1, <3>2 DEF EngineKept
  <2> QED
    BY <2>1, <2>2 DEF SendsNoMoreThanItMay, EngineKept, Busy
<1> QED
  BY <1>1, LabInvariant, PTL
=============================================================================
