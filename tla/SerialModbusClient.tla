------------------------- MODULE SerialModbusClient -------------------------
(***************************************************************************)
(* The production Modbus client of the host: QSerialPortModbusClient (the  *)
(* facade, in the application thread) and CommunicationWorker (queue,      *)
(* serial port and timers, in the communication thread).                   *)
(*                                                                         *)
(* The threads share no data.  The facade posts commands to the worker's   *)
(* event queue (inbox); the worker's signals are queued to the facade      *)
(* (worker.outbox).  Qt keeps both in order.  A step of the model is one   *)
(* facade call, or one event handled by one of the two threads.  The       *)
(* worker's handlers call each other, so they are operators from a worker  *)
(* record to a worker record, composed as the code composes them.          *)
(***************************************************************************)
EXTENDS Naturals, Sequences, FiniteSets

CONSTANTS
  Owners,       \* CommunicationOwner without None
  NoOwner,      \* CommunicationOwner::None
  MaxPending,   \* ModbusConnectionConfig::maxPendingRequests
  MaxRequests,  \* bound: RequestIds handed out
  MaxOps,       \* bound: OperationIds handed out
  MaxFaults,    \* bound: serial errors the port reports
  MaxNoise,     \* bound: bursts of bytes that answer no request
  LateAnswers   \* may the slave answer after a request has ended and the line
                \* has been silent for 3.5 characters since?

ASSUME ClientAssumption ==
  /\ NoOwner \notin Owners
  /\ MaxPending \in Nat /\ MaxRequests \in Nat /\ MaxOps \in Nat
  /\ MaxFaults \in Nat /\ MaxNoise \in Nat
  /\ LateAnswers \in BOOLEAN

Ids == 1..MaxRequests
OpIds == 1..MaxOps
OwnerOrNone == Owners \cup {NoOwner}

ConnectionState == {"Disconnected", "Opening", "Connected", "Closing", "Faulted"}
TerminalState == {"Succeeded", "Failed", "Cancelled"}
RequestState == {"Queued", "InFlight"} \cup TerminalState
CloseMode == {"CancelAll", "FinishInFlight"}
HandoffMode == {"FinishInFlight", "CancelInFlight"}
ControlKind == {"Open", "Close", "AcquireOwnership", "ReleaseOwnership"}

Request == [id : Ids, owner : Owners]
NoRequest == [id |-> 0, owner |-> NoOwner]

\* The source of bytes that no request of ours caused.
Noise == 0

Transition == [op : OpIds, target : OwnerOrNone]
NoTransition == [op |-> 0, target |-> NoOwner]

(***************************************************************************)
(* Commands the facade posts, and signals the worker emits.                *)
(***************************************************************************)
Command ==
       [kind : {"open"}, op : OpIds]
  \cup [kind : {"close"}, op : OpIds, mode : CloseMode]
  \cup [kind : {"acquire", "release"}, op : OpIds, owner : Owners, mode : HandoffMode]
  \cup [kind : {"enqueue"}, req : Request]
  \cup [kind : {"cancel"}, id : Ids]
  \cup [kind : {"shutdown"}]

Signal ==
       [kind : {"connection"}, state : ConnectionState]
  \cup [kind : {"control"}, op : OpIds, control : {"Open", "Close"}, ok : BOOLEAN]
  \cup [kind : {"ownership"}, op : OpIds, owner : OwnerOrNone, ok : BOOLEAN]
  \cup [kind : {"state"}, id : Ids, state : RequestState \ {"Queued"}]
  \cup [kind : {"completed"}, id : Ids, state : TerminalState, from : Ids \cup {Noise}]

ConnectionSignal(s) == [kind |-> "connection", state |-> s]
ControlSignal(op, c, ok) == [kind |-> "control", op |-> op, control |-> c, ok |-> ok]
OwnershipSignal(op, o, ok) == [kind |-> "ownership", op |-> op, owner |-> o, ok |-> ok]
StateSignal(id, s) == [kind |-> "state", id |-> id, state |-> s]
\* from: the request whose answer the bytes were (success only).
CompletedSignal(id, s, from) ==
  [kind |-> "completed", id |-> id, state |-> s, from |-> from]

VARIABLES
  connection,      \* facade: state_
  owner,           \* facade: owner_
  requests,        \* facade: requests_, "None" for an absent id
  cancelling,      \* facade: cancellationRequested_
  queuedCount,     \* facade: queuedCount_
  inTransition,    \* facade: ownershipTransition_
  pendingKind,     \* facade: pendingOwnershipControlKind_, "None" when empty
  accepting,       \* facade: acceptingRequests_
  ops,             \* facade: operations accepted, with the results reported
  nextOp, nextId,  \* facade: operationIds_, requestIds_
  alive,           \* the facade has not been destroyed
  inbox,           \* commands queued to the worker thread
  worker,          \* the worker thread, see Worker
  faults, noise    \* environment: errors and noise bursts so far

facadeVars == <<connection, owner, requests, cancelling, queuedCount,
                inTransition, pendingKind, accepting, ops, nextOp, nextId, alive>>
vars == <<facadeVars, inbox, worker, faults, noise>>

Worker == [
  state    : ConnectionState,
  port     : BOOLEAN,                         \* transport_->isOpen()
  owner    : OwnerOrNone,
  queue    : Seq(Request),
  active   : Request \cup {NoRequest},
  trans    : Transition \cup {NoTransition},  \* ownershipTransition_
  closing  : OpIds \cup {0},                  \* closeTransition_
  resync   : BOOLEAN,                         \* resynchronizing_
  quiet    : BOOLEAN,                         \* lastRxTimer_ >= silence interval
  timer    : BOOLEAN,                         \* silenceTimer_ is running
  partial  : BOOLEAN,                         \* active_'s rxAdu is not empty
  line     : SUBSET Ids,                      \* requests the slave may yet answer
  stopped  : BOOLEAN,                         \* shuttingDown_, the loop has quit
  outbox   : Seq(Signal)]

Operation == [kind : ControlKind \cup {"None"}, answers : Seq(ControlKind)]

TypeOK ==
  /\ connection \in ConnectionState
  /\ owner \in OwnerOrNone
  /\ requests \in [Ids -> RequestState \cup {"None"}]
  /\ cancelling \in SUBSET Ids
  /\ queuedCount \in Nat
  /\ inTransition \in BOOLEAN
  /\ pendingKind \in ControlKind \cup {"None"}
  /\ accepting \in BOOLEAN
  /\ ops \in [OpIds -> Operation]
  /\ nextOp \in 1..(MaxOps + 1)
  /\ nextId \in 1..(MaxRequests + 1)
  /\ alive \in BOOLEAN
  /\ inbox \in Seq(Command)
  /\ worker \in Worker
  /\ faults \in 0..MaxFaults /\ noise \in 0..MaxNoise

Init ==
  /\ connection = "Disconnected" /\ owner = NoOwner
  /\ requests = [id \in Ids |-> "None"]
  /\ cancelling = {} /\ queuedCount = 0
  /\ inTransition = FALSE /\ pendingKind = "None" /\ accepting = FALSE
  /\ ops = [op \in OpIds |-> [kind |-> "None", answers |-> <<>>]]
  /\ nextOp = 1 /\ nextId = 1 /\ alive = TRUE /\ inbox = <<>>
  /\ worker = [state |-> "Disconnected", port |-> FALSE, owner |-> NoOwner,
               queue |-> <<>>, active |-> NoRequest, trans |-> NoTransition,
               closing |-> 0, resync |-> FALSE, quiet |-> TRUE, timer |-> FALSE,
               partial |-> FALSE, line |-> {}, stopped |-> FALSE, outbox |-> <<>>]
  /\ faults = 0 /\ noise = 0

-----------------------------------------------------------------------------
(***************************************************************************)
(* The worker's private functions.                                         *)
(***************************************************************************)
Emit(w, signals) == [w EXCEPT !.outbox = @ \o signals]

\* The elements of q at the indices in K, in their order in q.  (SelectSeq says
\* the same through a recursion the provers cannot follow.)
SubsequenceAt(q, K) ==
  [k \in 1..Cardinality(K) |->
     q[CHOOSE i \in K : Cardinality({j \in K : j < i}) = k - 1]]

IndicesOfOwner(q, o) == {i \in DOMAIN q : q[i].owner = o}
IndicesOfId(q, id) == {i \in DOMAIN q : q[i].id = id}

\* finalize() for every request of q in turn: two signals each.
Finalize(w, q, state, from) ==
  Emit(w, [i \in 1 .. 2 * Len(q) |->
             IF i % 2 = 1 THEN StateSignal(q[(i + 1) \div 2].id, state)
                          ELSE CompletedSignal(q[i \div 2].id, state, from)])

\* Mutant of EndActive: the next request may follow at once.
EndActiveWithoutResync(w, state) ==
  Finalize([w EXCEPT !.active = NoRequest, !.partial = FALSE, !.timer = TRUE],
           <<w.active>>, state, Noise)

\* The active request ends without a usable answer; the line must fall silent
\* again before anything else is sent, so no transition can complete here.
EndActive(w, state) ==
  Finalize([w EXCEPT !.active = NoRequest, !.partial = FALSE, !.resync = TRUE,
                     !.quiet = FALSE, !.timer = TRUE],
           <<w.active>>, state, Noise)

CompleteActiveError(w) == EndActive(w, "Failed")
CompleteActiveCancelled(w) == EndActive(w, "Cancelled")

\* The requests at the indices K leave the queue as Cancelled.
CancelQueued(w, K) ==
  Finalize([w EXCEPT !.queue = SubsequenceAt(@, DOMAIN @ \ K)],
           SubsequenceAt(w.queue, K), "Cancelled", Noise)

\* Mutant of CancelQueuedByOwner: the requests go without a result.
ForgetQueuedByOwner(w, o) ==
  [w EXCEPT !.queue = SubsequenceAt(@, DOMAIN @ \ IndicesOfOwner(@, o))]

CancelQueuedByOwner(w, o) == CancelQueued(w, IndicesOfOwner(w.queue, o))

MaySend(w) ==
  /\ w.active = NoRequest /\ w.queue # <<>> /\ w.state = "Connected"
  /\ w.trans = NoTransition /\ w.closing = 0

\* startNext(): write is "full" when the port takes the whole ADU.
StartNext(w, write) ==
  LET req == Head(w.queue)
      sent == Emit([w EXCEPT !.active = req, !.queue = Tail(@), !.partial = FALSE],
                   <<StateSignal(req.id, "InFlight")>>)
  IN IF write = "full" THEN [sent EXCEPT !.line = @ \cup {req.id}]
                       ELSE CompleteActiveError(sent)

\* Mutant of StartNextWhenSilent: the silence of the line is not looked at.
StartNextAtOnce(w, write) ==
  IF MaySend(w) THEN StartNext([w EXCEPT !.resync = FALSE], write) ELSE w

\* Mutant of StartNextWhenSilent: nothing is left to call it again.
StartNextOrForget(w, write) ==
  IF MaySend(w) /\ w.quiet THEN StartNext([w EXCEPT !.resync = FALSE], write)
                           ELSE [w EXCEPT !.timer = @ /\ ~MaySend(w)]

StartNextWhenSilent(w, write) ==
  CASE ~MaySend(w)             -> w
    [] MaySend(w) /\ w.quiet   -> StartNext([w EXCEPT !.resync = FALSE], write)
    [] MaySend(w) /\ ~w.quiet  -> [w EXCEPT !.timer = TRUE]

FinishOwnershipTransition(w, write) ==
  StartNextWhenSilent(
    Emit([w EXCEPT !.trans = NoTransition, !.owner = w.trans.target],
         <<OwnershipSignal(w.trans.op, w.trans.target, TRUE)>>),
    write)

FinishClose(w) ==
  Emit([w EXCEPT !.closing = 0, !.timer = FALSE, !.port = FALSE, !.owner = NoOwner,
                 !.resync = FALSE, !.quiet = TRUE, !.state = "Disconnected"],
       <<ConnectionSignal("Disconnected"), ControlSignal(w.closing, "Close", TRUE)>>)

MaybeCompleteTransition(w, write) ==
  CASE w.active # NoRequest \/ w.resync \/ w.state = "Faulted" -> w
    [] OTHER ->
         CASE w.closing # 0            -> FinishClose(w)
           [] w.closing = 0 /\ w.trans # NoTransition
                                       -> FinishOwnershipTransition(w, write)
           [] OTHER                    -> w

CompleteActiveSuccess(w, from, write) ==
  StartNextWhenSilent(
    MaybeCompleteTransition(
      Finalize([w EXCEPT !.active = NoRequest, !.partial = FALSE],
               <<w.active>>, "Succeeded", from),
      write),
    write)

-----------------------------------------------------------------------------
(***************************************************************************)
(* The worker's slots, one operator per queued command.                    *)
(***************************************************************************)

\* outcome: "rejected" when a port parameter is refused, "failed" when the port
\* does not open.  QSerialPort::open fails on a port that is already open.
WorkerOpen(w, op, outcome) ==
  IF outcome = "ok"
    THEN Emit([w EXCEPT !.queue = <<>>, !.active = NoRequest, !.partial = FALSE,
                        !.owner = NoOwner, !.resync = TRUE, !.quiet = FALSE,
                        !.timer = TRUE, !.port = TRUE, !.state = "Connected"],
              <<ConnectionSignal("Connected"), ControlSignal(op, "Open", TRUE)>>)
    ELSE Emit([w EXCEPT !.state = "Faulted",
                        !.port = IF outcome = "failed" THEN FALSE ELSE @],
              <<ConnectionSignal("Faulted"), ControlSignal(op, "Open", FALSE)>>)

OpenOutcomes(w) == {"rejected", "failed"} \cup (IF w.port THEN {} ELSE {"ok"})

WorkerClose(w, op, mode, write) ==
  LET flushed == CancelQueued(
                   Emit([w EXCEPT !.closing = op, !.state = "Closing"],
                        <<ConnectionSignal("Closing")>>),
                   DOMAIN w.queue)
  IN MaybeCompleteTransition(
       IF w.active # NoRequest /\ mode = "CancelAll"
         THEN CompleteActiveCancelled(flushed) ELSE flushed,
       write)

\* Mutant of HandOver: the owner changes before its request in flight has ended.
HandOverAtOnce(w, op, o, target, mode, write) ==
  FinishOwnershipTransition(
    CancelQueuedByOwner([w EXCEPT !.trans = [op |-> op, target |-> target]], o), write)

\* The part acquireOwnership and releaseOwnership share: o gives up the line.
HandOver(w, op, o, target, mode, write) ==
  LET waiting == CancelQueuedByOwner(
                   [w EXCEPT !.trans = [op |-> op, target |-> target]], o)
  IN MaybeCompleteTransition(
       IF w.active # NoRequest /\ w.active.owner = o /\ mode = "CancelInFlight"
         THEN CompleteActiveCancelled(waiting) ELSE waiting,
       write)

WorkerAcquire(w, op, o, mode, write) ==
  IF w.owner \in {NoOwner, o}
    THEN Emit([w EXCEPT !.owner = o], <<OwnershipSignal(op, o, TRUE)>>)
    ELSE HandOver(w, op, w.owner, o, mode, write)

WorkerRelease(w, op, o, mode, write) == HandOver(w, op, o, NoOwner, mode, write)

\* Mutant of WorkerEnqueue: push_front for push_back.
WorkerEnqueueFirst(w, req, write) ==
  IF w.state # "Connected" \/ w.trans # NoTransition \/ w.closing # 0
    THEN Finalize(w, <<req>>, "Failed", Noise)
    ELSE StartNextWhenSilent([w EXCEPT !.queue = <<req>> \o @], write)

WorkerEnqueue(w, req, write) ==
  IF w.state # "Connected" \/ w.trans # NoTransition \/ w.closing # 0
    THEN Finalize(w, <<req>>, "Failed", Noise)
    ELSE StartNextWhenSilent([w EXCEPT !.queue = Append(@, req)], write)

WorkerCancel(w, id) ==
  CASE IndicesOfId(w.queue, id) # {} -> CancelQueued(w, IndicesOfId(w.queue, id))
    [] IndicesOfId(w.queue, id) = {} /\ w.active.id = id -> CompleteActiveCancelled(w)
    [] OTHER -> w

\* Requests still held are dropped: nobody is left to receive their results.
WorkerShutdown(w) ==
  [w EXCEPT !.stopped = TRUE, !.timer = FALSE, !.queue = <<>>, !.active = NoRequest,
            !.partial = FALSE, !.port = FALSE, !.state = "Disconnected",
            !.owner = NoOwner]

(***************************************************************************)
(* Worker thread: one command, or one event of the port or of a timer.     *)
(* write says whether the port would take a frame sent in this step.       *)
(***************************************************************************)
Writes == {"full", "failed"}

Execute(c, w, write, outcome) ==
  CASE c.kind = "open"    -> WorkerOpen(w, c.op, outcome)
    [] c.kind = "close"   -> WorkerClose(w, c.op, c.mode, write)
    [] c.kind = "acquire" -> WorkerAcquire(w, c.op, c.owner, c.mode, write)
    [] c.kind = "release" -> WorkerRelease(w, c.op, c.owner, c.mode, write)
    [] c.kind = "enqueue" -> WorkerEnqueue(w, c.req, write)
    [] c.kind = "cancel"  -> WorkerCancel(w, c.id)
    [] c.kind = "shutdown" -> WorkerShutdown(w)

ProcessCommand ==
  /\ inbox # <<>> /\ ~worker.stopped
  /\ inbox' = Tail(inbox)
  /\ \E write \in Writes, outcome \in OpenOutcomes(worker) :
       worker' = Execute(Head(inbox), worker, write, outcome)
  /\ UNCHANGED <<facadeVars, faults, noise>>

\* markRxActivity()
Received(w) == [w EXCEPT !.quiet = FALSE, !.timer = TRUE]

\* onReadyRead: bytes arrive, caused by request src (or by none).  They are
\* dropped unless a request is active; else the candidate frame stays
\* incomplete, or it decodes to a result.  A frame arrives in two pieces at most.
OnReadyRead(src, verdict) ==
  /\ worker.port
  /\ src \in worker.line \/ (src = Noise /\ noise < MaxNoise)
  /\ IF worker.active = NoRequest \/ worker.resync
       THEN /\ verdict = "dropped"
            /\ worker' = Received([worker EXCEPT !.line = @ \ {src}])
       ELSE LET heard == Received([worker EXCEPT !.line = @ \ {src}])
            IN \/ /\ verdict = "more" /\ ~worker.partial
                  /\ worker' = [Received(worker) EXCEPT !.partial = TRUE]
               \/ /\ verdict = "success" /\ src # Noise
                  /\ \E write \in Writes :
                       worker' = CompleteActiveSuccess(heard, src, write)
               \/ /\ verdict = "error"
                  /\ worker' = CompleteActiveError(heard)
  /\ noise' = IF src = Noise THEN noise + 1 ELSE noise
  /\ UNCHANGED <<facadeVars, inbox, faults>>

OnResponseTimeout ==
  /\ worker.active # NoRequest
  /\ worker' = CompleteActiveError(worker)
  /\ UNCHANGED <<facadeVars, inbox, faults, noise>>

\* Time passes without a byte until the line counts as silent.  Unless answers
\* may be late, a slave that nobody waits for has then said all it had to say.
LineFallsSilent ==
  /\ ~worker.quiet
  /\ worker' = [worker EXCEPT
                  !.quiet = TRUE,
                  !.line = IF LateAnswers \/ worker.active # NoRequest THEN @ ELSE {}]
  /\ UNCHANGED <<facadeVars, inbox, faults, noise>>

\* Mutant of OnSilenceElapsed: a transition that waits for silence is not resumed.
SilenceForgetsTransition ==
  /\ worker.timer /\ worker.quiet
  /\ \E write \in Writes :
       worker' = StartNextWhenSilent([worker EXCEPT !.timer = FALSE, !.resync = FALSE], write)
  /\ UNCHANGED <<facadeVars, inbox, faults, noise>>

\* onSilenceElapsed: a frame that is complete and wrong ends the active request,
\* a fragment does not; with no active request the line is usable again.
OnSilenceElapsed ==
  /\ worker.timer /\ worker.quiet
  /\ LET w == [worker EXCEPT !.timer = FALSE]
     IN IF w.active # NoRequest /\ ~w.resync
          THEN \/ worker' = w
               \/ w.partial /\ worker' = CompleteActiveError(w)
          ELSE \E write \in Writes :
                 worker' = StartNextWhenSilent(
                             MaybeCompleteTransition([w EXCEPT !.resync = FALSE], write),
                             write)
  /\ UNCHANGED <<facadeVars, inbox, faults, noise>>

\* Mutant of OnSerialError: failAllQueued() is left out.
FaultKeepsQueue ==
  /\ worker.port /\ worker.state # "Closing" /\ faults < MaxFaults
  /\ LET down == [worker EXCEPT !.state = "Faulted", !.trans = NoTransition]
         ended == IF down.active # NoRequest THEN CompleteActiveError(down) ELSE down
     IN worker' = Emit([ended EXCEPT !.port = FALSE, !.owner = NoOwner],
                       <<ConnectionSignal("Faulted")>>)
  /\ faults' = faults + 1
  /\ UNCHANGED <<facadeVars, inbox, noise>>

OnSerialError ==
  /\ worker.port /\ worker.state # "Closing" /\ faults < MaxFaults
  /\ LET down == [worker EXCEPT !.state = "Faulted"]
         ended == IF down.active # NoRequest THEN CompleteActiveError(down) ELSE down
         flushed == Finalize([ended EXCEPT !.queue = <<>>], ended.queue, "Failed", Noise)
         settled == IF flushed.trans = NoTransition THEN flushed
                    ELSE Emit([flushed EXCEPT !.trans = NoTransition],
                              <<OwnershipSignal(flushed.trans.op, NoOwner, FALSE)>>)
     IN worker' = Emit([settled EXCEPT !.port = FALSE, !.owner = NoOwner],
                       <<ConnectionSignal("Faulted")>>)
  /\ faults' = faults + 1
  /\ UNCHANGED <<facadeVars, inbox, noise>>

-----------------------------------------------------------------------------
(***************************************************************************)
(* The facade's public calls.  A call that is refused changes nothing.     *)
(***************************************************************************)
Accept(kind) ==
  /\ alive /\ nextOp <= MaxOps
  /\ ops' = [ops EXCEPT ![nextOp].kind = kind]
  /\ nextOp' = nextOp + 1

Post(command) == inbox' = Append(inbox, command)

Open ==
  /\ connection = "Disconnected"
  /\ Accept("Open")
  /\ Post([kind |-> "open", op |-> nextOp])
  /\ connection' = "Opening" /\ owner' = NoOwner /\ accepting' = FALSE
  /\ UNCHANGED <<requests, cancelling, queuedCount, inTransition, pendingKind,
                 nextId, alive, worker, faults, noise>>

Close(mode) ==
  /\ connection \in {"Connected", "Faulted"} /\ ~inTransition
  /\ Accept("Close")
  /\ Post([kind |-> "close", op |-> nextOp, mode |-> mode])
  /\ connection' = "Closing" /\ accepting' = FALSE
  /\ UNCHANGED <<owner, requests, cancelling, queuedCount, inTransition,
                 pendingKind, nextId, alive, worker, faults, noise>>

\* Mutant of StartTransition: a second transition is accepted beside the first.
StartTransitionUngated(control, command, o, mode) ==
  /\ connection = "Connected"
  /\ Accept(control)
  /\ Post([kind |-> command, op |-> nextOp, owner |-> o, mode |-> mode])
  /\ pendingKind' = control /\ accepting' = FALSE
  /\ UNCHANGED <<connection, owner, requests, cancelling, queuedCount, inTransition,
                 nextId, alive, worker, faults, noise>>

StartTransition(control, command, o, mode) ==
  /\ connection = "Connected" /\ ~inTransition
  /\ Accept(control)
  /\ Post([kind |-> command, op |-> nextOp, owner |-> o, mode |-> mode])
  /\ inTransition' = TRUE /\ pendingKind' = control /\ accepting' = FALSE
  /\ UNCHANGED <<connection, owner, requests, cancelling, queuedCount, nextId,
                 alive, worker, faults, noise>>

AcquireOwnership(o, mode) == StartTransition("AcquireOwnership", "acquire", o, mode)

ReleaseOwnership(o, mode) ==
  o = owner /\ StartTransition("ReleaseOwnership", "release", o, mode)

\* readHoldingRegisters and writeSingleRegister
Submit ==
  /\ alive /\ connection = "Connected" /\ accepting /\ ~inTransition
  /\ owner # NoOwner /\ queuedCount < MaxPending
  /\ nextId <= MaxRequests
  /\ nextId' = nextId + 1
  /\ requests' = [requests EXCEPT ![nextId] = "Queued"]
  /\ queuedCount' = queuedCount + 1
  /\ Post([kind |-> "enqueue", req |-> [id |-> nextId, owner |-> owner]])
  /\ UNCHANGED <<connection, owner, cancelling, inTransition, pendingKind,
                 accepting, ops, nextOp, alive, worker, faults, noise>>

CancelRequest(id) ==
  /\ alive /\ requests[id] # "None" /\ id \notin cancelling
  /\ cancelling' = cancelling \cup {id}
  /\ Post([kind |-> "cancel", id |-> id])
  /\ UNCHANGED <<connection, owner, requests, queuedCount, inTransition,
                 pendingKind, accepting, ops, nextOp, nextId, alive, worker, faults, noise>>

\* ~QSerialPortModbusClient: waits in place until the worker has run shutdown().
Destroy ==
  /\ alive
  /\ alive' = FALSE /\ accepting' = FALSE
  /\ Post([kind |-> "shutdown"])
  /\ UNCHANGED <<connection, owner, requests, cancelling, queuedCount, inTransition,
                 pendingKind, ops, nextOp, nextId, worker, faults, noise>>

(***************************************************************************)
(* The facade's slots: one queued signal of the worker each.               *)
(***************************************************************************)
Take(kind) ==
  /\ alive /\ worker.outbox # <<>>
  /\ Head(worker.outbox).kind = kind
  /\ worker' = [worker EXCEPT !.outbox = Tail(@)]
  /\ UNCHANGED <<inbox, faults, noise, nextOp, nextId, alive>>

Answered(op, kind) == [ops EXCEPT ![op].answers = Append(@, kind)]

OnWorkerConnectionStateChanged ==
  LET s == Head(worker.outbox)
      lost == s.state \in {"Faulted", "Disconnected"}
  IN /\ Take("connection")
     /\ connection' = s.state
     /\ accepting' = IF s.state = "Connected" THEN owner # NoOwner
                     ELSE accepting /\ ~lost
     /\ owner' = IF lost THEN NoOwner ELSE owner
     /\ inTransition' = (inTransition /\ ~lost)
     /\ pendingKind' = IF lost THEN "None" ELSE pendingKind
     /\ UNCHANGED <<requests, cancelling, queuedCount, ops>>

OnWorkerControlCompleted ==
  LET s == Head(worker.outbox)
      closed == s.control = "Close" /\ s.ok
  IN /\ Take("control")
     /\ accepting' = (accepting /\ ~s.ok)
     /\ owner' = IF closed THEN NoOwner ELSE owner
     /\ inTransition' = (inTransition /\ ~closed)
     /\ pendingKind' = IF closed THEN "None" ELSE pendingKind
     /\ ops' = Answered(s.op, s.control)
     /\ UNCHANGED <<connection, requests, cancelling, queuedCount>>

OnWorkerOwnershipChanged ==
  LET s == Head(worker.outbox)
      kind == IF pendingKind # "None" THEN pendingKind
              ELSE IF s.owner = NoOwner THEN "ReleaseOwnership" ELSE "AcquireOwnership"
  IN /\ Take("ownership")
     /\ inTransition' = FALSE /\ pendingKind' = "None"
     /\ owner' = IF s.ok THEN s.owner ELSE owner
     /\ accepting' = (s.ok /\ s.owner # NoOwner /\ connection = "Connected")
     /\ ops' = Answered(s.op, kind)
     /\ UNCHANGED <<connection, requests, cancelling, queuedCount>>

\* Mutant of OnWorkerRequestStateChanged: every state change leaves the queue.
CountEveryStateChange ==
  LET s == Head(worker.outbox)
  IN /\ Take("state")
     /\ IF requests[s.id] = "None"
          THEN UNCHANGED <<requests, queuedCount>>
          ELSE /\ requests' = [requests EXCEPT ![s.id] = s.state]
               /\ queuedCount' = queuedCount - 1
     /\ UNCHANGED <<connection, owner, cancelling, inTransition, pendingKind,
                    accepting, ops>>

OnWorkerRequestStateChanged ==
  LET s == Head(worker.outbox)
  IN /\ Take("state")
     /\ IF requests[s.id] = "None"
          THEN UNCHANGED <<requests, queuedCount>>
          ELSE /\ requests' = [requests EXCEPT ![s.id] = s.state]
               /\ queuedCount' = IF requests[s.id] = "Queued" /\ s.state # "Queued"
                                   THEN queuedCount - 1 ELSE queuedCount
     /\ UNCHANGED <<connection, owner, cancelling, inTransition, pendingKind,
                    accepting, ops>>

OnWorkerRequestCompleted ==
  LET s == Head(worker.outbox)
  IN /\ Take("completed")
     /\ IF requests[s.id] = "None"
          THEN UNCHANGED <<requests, queuedCount, cancelling>>
          ELSE /\ requests' = [requests EXCEPT ![s.id] = "None"]
               /\ queuedCount' = IF requests[s.id] = "Queued"
                                   THEN queuedCount - 1 ELSE queuedCount
               /\ cancelling' = cancelling \ {s.id}
     /\ UNCHANGED <<connection, owner, inTransition, pendingKind, accepting, ops>>

-----------------------------------------------------------------------------
Calls ==
  \/ Open
  \/ \E mode \in CloseMode : Close(mode)
  \/ \E o \in Owners, mode \in HandoffMode : AcquireOwnership(o, mode)
  \/ \E o \in Owners, mode \in HandoffMode : ReleaseOwnership(o, mode)
  \/ Submit
  \/ \E id \in Ids : CancelRequest(id)
  \/ Destroy

FacadeSlots ==
  \/ OnWorkerConnectionStateChanged
  \/ OnWorkerControlCompleted
  \/ OnWorkerOwnershipChanged
  \/ OnWorkerRequestStateChanged
  \/ OnWorkerRequestCompleted

Verdicts == {"dropped", "more", "success", "error"}

WorkerEvents ==
  \/ ProcessCommand
  \/ \E src \in Ids \cup {Noise}, verdict \in Verdicts : OnReadyRead(src, verdict)
  \/ OnResponseTimeout
  \/ LineFallsSilent
  \/ OnSilenceElapsed
  \/ OnSerialError

Next == Calls \/ FacadeSlots \/ WorkerEvents

Spec == Init /\ [][Next]_vars

(***************************************************************************)
(* Both event loops run what is queued to them, the running timers fire,   *)
(* and the line falls silent.  Nothing obliges the slave to answer, the    *)
(* port to fail, or the application to call.                               *)
(***************************************************************************)
Fairness ==
  /\ WF_vars(FacadeSlots)
  /\ WF_vars(ProcessCommand)
  /\ WF_vars(OnResponseTimeout)
  /\ WF_vars(LineFallsSilent)
  /\ WF_vars(OnSilenceElapsed)

FairSpec == Spec /\ Fairness

-----------------------------------------------------------------------------
(***************************************************************************)
(* Safety.                                                                 *)
(***************************************************************************)
Places(id) ==
    Cardinality({i \in DOMAIN inbox : inbox[i].kind = "enqueue" /\ inbox[i].req.id = id})
  + Cardinality({i \in DOMAIN worker.queue : worker.queue[i].id = id})
  + (IF worker.active.id = id THEN 1 ELSE 0)
  + Cardinality({i \in DOMAIN worker.outbox :
                   worker.outbox[i].kind = "completed" /\ worker.outbox[i].id = id})

\* Every request the facade holds open is in exactly one place between the
\* threads, and every other request in none: none is lost, completed twice, or
\* completed and still queued (requests_ against queue_, active_ and finalize()).
RequestConservation ==
  alive => \A id \in Ids : Places(id) = IF requests[id] = "None" THEN 0 ELSE 1

\* queuedCount_, which two slots decrement, counts the requests shown as Queued
\* and never passes maxPendingRequests.
QueueBounded ==
  /\ queuedCount = Cardinality({id \in Ids : requests[id] = "Queued"})
  /\ queuedCount <= MaxPending

\* The limit the facade keeps on its own count bounds the worker's real queue.
WorkerQueueBounded == alive => Len(worker.queue) <= queuedCount

\* Requests reach the wire in the order in which they were accepted.
FifoOrder ==
  /\ \A i, j \in DOMAIN worker.queue : i < j => worker.queue[i].id < worker.queue[j].id
  /\ \A i \in DOMAIN worker.queue : worker.active.id < worker.queue[i].id

\* When the application sees Disconnected, every request has its result: close()
\* reports the end of the connection only after the last requestCompleted.  After a
\* fault stale signals of an earlier close can still show it too soon.
DisconnectedIsQuiescent ==
  connection = "Disconnected" => \A id \in Ids : requests[id] = "None"

\* The worker holds requests only while it has a live port to serve them, so
\* neither a fault, a close nor a reopen can strand one.
NoStrandedRequest ==
  (worker.queue # <<>> \/ worker.active # NoRequest) =>
     worker.port /\ worker.state \in {"Connected", "Closing"}

\* The worker never waits for an event that cannot come.  A resynchronization, a
\* close, a handover and a waiting queue each still have the response timer of a
\* request in flight, or the silence timer, to bring them forward; and a request
\* in flight is never one whose answer onReadyRead() would drop.
NeverStalls ==
  /\ worker.active # NoRequest => ~worker.resync
  /\ worker.resync => worker.timer \/ worker.stopped
  /\ MaySend(worker) => worker.timer
  /\ worker.closing # 0 /\ worker.state = "Closing" =>
       worker.active # NoRequest \/ worker.resync
  /\ worker.trans # NoTransition /\ worker.state = "Connected" =>
       worker.active # NoRequest \/ worker.resync

\* Nothing the client runs belongs to a consumer that does not own the line.
InFlightBelongsToOwner ==
  /\ worker.active # NoRequest => worker.active.owner = worker.owner
  /\ \A i \in DOMAIN worker.queue : worker.queue[i].owner = worker.owner

\* When a handover is announced (the facade is connected with no owner), the
\* previous owner has received the result of each of its requests.
HandoverIsDrained ==
  connection = "Connected" /\ owner = NoOwner => \A id \in Ids : requests[id] = "None"

\* A success delivers the answer to the request it completes, not to another.
SuccessAnswersItsRequest ==
  \A i \in DOMAIN worker.outbox :
    LET s == worker.outbox[i]
    IN s.kind = "completed" /\ s.state = "Succeeded" => s.from = s.id

\* No operation is answered twice, and the answer names the kind accepted.
OpsAnsweredOnce ==
  \A op \in OpIds :
    /\ Len(ops[op].answers) <= 1
    /\ \A i \in DOMAIN ops[op].answers : ops[op].answers[i] = ops[op].kind

\* Q_ASSERT(!port_.isOpen()) in QSerialPortTransport::configure.
OpensClosedPort ==
  inbox # <<>> /\ Head(inbox).kind = "open" => ~worker.port

\* Only a connected client has an owner: an owner is granted in Connected only.
OwnerNeedsConnection == owner # NoOwner => connection \in {"Connected", "Closing"}

(***************************************************************************)
(* What a step may never do.                                               *)
(***************************************************************************)
\* A frame goes out only after the line has been silent for 3.5 characters,
\* whichever of the five paths leads to startNext().
SendsIntoSilence ==
  [][\A id \in Ids : id \in worker'.line /\ id \notin worker.line => worker.quiet]_vars

\* While connected, an owner leaves only through a transition it asked for.
OwnerLeavesByTransition ==
  [][owner # NoOwner /\ owner' # owner => inTransition \/ connection' # "Connected"]_vars

(***************************************************************************)
(* Liveness.                                                               *)
(***************************************************************************)
\* Every accepted request gets its terminal result, through any mix of faults,
\* cancellations, handovers and closes.
EveryRequestCompletes ==
  \A id \in Ids : (requests[id] # "None") ~> (requests[id] = "None" \/ ~alive)

\* While the port reports no error, every accepted operation is answered: a
\* handover and a close end whatever they have to wait for.
HealthyOpAnswered ==
  \A op \in OpIds :
    (ops[op].kind # "None") ~> (ops[op].answers # <<>> \/ ~alive \/ faults > 0)

\* Every accepted operation gets its terminal result.
EveryOpAnswered ==
  \A op \in OpIds : (ops[op].kind # "None") ~> (ops[op].answers # <<>> \/ ~alive)
=============================================================================
