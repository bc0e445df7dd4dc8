--------------------------- MODULE Configuration ---------------------------
(***************************************************************************)
(* ConfigurationService, which reads the alarm thresholds and writes them  *)
(* one by one with a readback each, beside the services of AppMonitor.     *)
(*                                                                         *)
(* It borrows the line from the application: while an operation runs the   *)
(* owner is ManualDebug and the application shows ConnectedIdle.  Neither  *)
(* knows of the other's calls, and the service has no slot for a change of *)
(* the connection: a fault reaches it only through the answers to its own  *)
(* operations and requests.                                                *)
(***************************************************************************)
EXTENDS AppMonitor

CONSTANTS
  ManualDebug,  \* the owner an operation works as
  Channels,     \* the number of device::TemperatureChannels
  Factory,      \* a threshold as the device has it after a restart
  Wanted,       \* the threshold the user writes
  MaxCancels    \* bound: calls of cancel() accepted during one operation

ASSUME ConfigurationAssumption ==
  /\ ManualDebug \in Owners \ {Monitor, Testing}
  /\ Channels \in Nat \ {0} /\ Factory # Wanted /\ MaxCancels \in Nat

VARIABLE config  \* ConfigurationService, and the registers it works on

serviceVars == <<appVars, config>>

Items == 1..Channels
Thresholds == [Items -> {Factory, Wanted}]
ConfigurationState == {"Idle", "AcquiringOwner", "ReadingCurrent", "Writing",
                       "Verifying", "Cancelling", "ReleasingOwner"}
ConfigurationCommand == {"ReadThresholds", "WriteThresholds"}
ItemStatus == {"Pending", "Succeeded", "WriteFailed", "ReadbackFailed",
               "ReadbackMismatch", "Cancelled"}

\* The operation under way, pending_.  The result's errors and cancelled flag are
\* left out; verified is result.verifiedThresholds, which thresholds_ follows.
Operation == [
  state     : ConfigurationState,
  command   : ConfigurationCommand,
  op        : OpIds \cup {0},      \* controlOperationId
  request   : Ids \cup {0},        \* requestId
  writing   : BOOLEAN,             \* that request is a write
  cancels   : 0..MaxCancels,       \* cancelRequested, counted
  index     : 1..Channels + 1,     \* itemIndex, from 1
  items     : [Items -> ItemStatus],
  verified  : Thresholds,
  device    : Thresholds,          \* the registers of the device
  start     : Thresholds,          \* and what they were when the operation began
  restarted : BOOLEAN]             \* history: the device has restarted since then

All(v) == [i \in Items |-> v]
NoOperation == [
  state |-> "Idle", command |-> "ReadThresholds", op |-> 0, request |-> 0,
  writing |-> FALSE, cancels |-> 0, index |-> 1, items |-> All("Pending"),
  verified |-> All(Factory), device |-> All(Factory), start |-> All(Factory),
  restarted |-> FALSE]

Busy == config.state # "Idle"

Services == [client |-> client, app |-> app, mon |-> mon, config |-> config]
ServicesBecome(w) == Become(w) /\ config' = w.config

-----------------------------------------------------------------------------
(***************************************************************************)
(* The private functions of the service.                                   *)
(***************************************************************************)
\* completeAfterRelease and completeWithError.
CompleteOperation(w) == [w EXCEPT !.config = NoOperation]

\* Mutant of BeginRelease: the operation ends without giving the owner back.
EndsWithoutRelease(w) == CompleteOperation(w)

BeginRelease(w) ==
  IF CanRelease(w.client, ManualDebug) /\ w.client.owner = ManualDebug
    THEN [w EXCEPT !.client = ReleaseCall(w.client, NextOp(w.client), ManualDebug),
                   !.config.op = NextOp(w.client), !.config.request = 0,
                   !.config.state = "ReleasingOwner"]
    ELSE CompleteOperation(w)

\* What is left from the item at hand on has a status of its own.
Rest(w, status) ==
  [w EXCEPT !.config.items =
     [i \in Items |-> IF i >= w.config.index /\ @[i] = "Pending" THEN status ELSE @[i]]]

\* markRemainingCancelled, and the release.
CancelRemaining(w) == BeginRelease(Rest(w, "Cancelled"))

MaySubmit(w) == CanSubmit(w.client) /\ w.client.owner = ManualDebug
Submit(w, state) ==
  [w EXCEPT !.client = SubmitCall(w.client, NextId(w.client)),
            !.config.request = NextId(w.client),
            !.config.writing = state = "Writing",
            !.config.state = state]

SubmitInitialRead(w) ==
  IF MaySubmit(w) THEN Submit(w, "ReadingCurrent") ELSE BeginRelease(w)

\* Mutant of SubmitWrite: a refused write ends the work, but not the operation.
RefusedWriteHangs(w) ==
  IF w.config.index > Channels THEN BeginRelease(w)
  ELSE IF MaySubmit(w) THEN Submit(w, "Writing")
  ELSE Rest(w, "WriteFailed")

\* A write that is refused fails its item, and the next one is tried; what refuses
\* one refuses them all.
SubmitWrite(w) ==
  IF w.config.index > Channels THEN BeginRelease(w)
  ELSE IF MaySubmit(w) THEN Submit(w, "Writing")
  ELSE BeginRelease(Rest(w, "WriteFailed"))

AdvanceItem(w, status) ==
  LET next == [w EXCEPT !.config.items[w.config.index] = status,
                        !.config.index = @ + 1]
  IN IF w.config.cancels > 0 THEN CancelRemaining(next) ELSE SubmitWrite(next)

SubmitReadback(w) ==
  IF MaySubmit(w) THEN Submit(w, "Verifying") ELSE AdvanceItem(w, "ReadbackFailed")

-----------------------------------------------------------------------------
(***************************************************************************)
(* The service's slots.                                                    *)
(***************************************************************************)
\* handleControlCompleted.
OperationAnswered(w, op, ok) ==
  LET heard == [w EXCEPT !.config.op = 0]
      owned == w.client.owner = ManualDebug
  IN CASE w.config.op # op -> w
       [] w.config.op = op /\ w.config.state = "ReleasingOwner" -> CompleteOperation(heard)
       [] OTHER ->
            IF ~ok \/ ~owned
              THEN IF owned THEN BeginRelease(heard) ELSE CompleteOperation(heard)
              ELSE IF w.config.cancels > 0 THEN CancelRemaining(heard)
              ELSE SubmitInitialRead(heard)

\* Mutant of ReadCurrent: the values to write are taken for those read.
ReadTakesWanted(w) ==
  LET read == [w EXCEPT !.config.verified = All(Wanted)]
  IN IF w.config.command = "ReadThresholds" THEN BeginRelease(read) ELSE SubmitWrite(read)

ReadCurrent(w) ==
  LET read == [w EXCEPT !.config.verified = w.config.device]
  IN IF w.config.command = "ReadThresholds" THEN BeginRelease(read) ELSE SubmitWrite(read)

Verify(w) ==
  LET i == w.config.index
  IN IF w.config.device[i] = Wanted
       THEN AdvanceItem([w EXCEPT !.config.verified[i] = Wanted], "Succeeded")
       ELSE AdvanceItem(w, "ReadbackMismatch")

\* handleRequestCompleted.  ok: the answer is there, is of the kind asked for and
\* decodes.
RequestAnswered(w, id, ok) ==
  LET heard == [w EXCEPT !.config.request = 0]
      state == w.config.state
  IN CASE w.config.request # id -> w
       [] w.config.request = id /\ w.config.cancels > 0 -> CancelRemaining(heard)
       [] w.config.request = id /\ w.config.cancels = 0 ->
            CASE state = "ReadingCurrent" -> IF ok THEN ReadCurrent(heard)
                                                   ELSE BeginRelease(heard)
              [] state = "Writing"   -> IF ok THEN SubmitReadback(heard)
                                              ELSE AdvanceItem(heard, "WriteFailed")
              [] state = "Verifying" -> IF ok THEN Verify(heard)
                                              ELSE AdvanceItem(heard, "ReadbackFailed")

-----------------------------------------------------------------------------
(***************************************************************************)
(* The user's calls.                                                       *)
(***************************************************************************)
\* readThresholds and writeThresholds: begin.  What the registers hold then is
\* either value; the service has yet to read it.
BeginOperation ==
  /\ FreeOp(client) # {} /\ ~Busy
  /\ app.state = "ConnectedIdle" /\ Idle
  /\ client.owner = NoOwner /\ CanAcquire(client, ManualDebug)
  /\ \E command \in ConfigurationCommand, v \in {Factory, Wanted} :
       config' = [NoOperation EXCEPT
                    !.state = "AcquiringOwner", !.command = command, !.op = NextOp(client),
                    !.device = All(v), !.start = All(v)]
  /\ client' = AcquireCall(client, NextOp(client), ManualDebug)
  /\ UNCHANGED <<app, mon, history>>

\* Bound: what may set off an operation of the client waits for an OperationId.
OpLeft == CanMove(client) => FreeOp(client) # {}

\* cancel.  While the owner is being acquired the answer is waited for; a second
\* call, which finds the state Cancelling, no longer waits.
Cancel ==
  /\ Busy /\ config.state # "ReleasingOwner" /\ config.cancels < MaxCancels /\ OpLeft
  /\ LET id == config.request
         w == [Services EXCEPT !.config.cancels = @ + 1, !.config.state = "Cancelling"]
     IN ServicesBecome(
          CASE id # 0 /\ CanCancel(client, id)  -> [w EXCEPT !.client = CancelCall(client, id)]
            [] id # 0 /\ ~CanCancel(client, id) ->
                 CancelRemaining([w EXCEPT !.config.request = 0])
            [] id = 0 -> IF config.state = "AcquiringOwner" THEN w ELSE CancelRemaining(w))
  /\ UNCHANGED history

\* The device loses power for a moment: the thresholds are not persistent.
DeviceRestarts ==
  /\ Busy /\ ~config.restarted
  /\ config' = [config EXCEPT !.device = All(Factory), !.restarted = TRUE]
  /\ UNCHANGED appVars

-----------------------------------------------------------------------------
(***************************************************************************)
(* The signals of the client, heard by the application's slot and then by  *)
(* this service's.                                                         *)
(***************************************************************************)
\* Bound: the answer after which a request may be submitted waits for a RequestId.
AnswerBoth(op, ok, answered) ==
  /\ CanSubmit(answered) => FreeId(answered) # {}
  /\ ServicesBecome(OperationAnswered(
       HandleControlCompleted([Services EXCEPT !.client = answered], op, ok), op, ok))

\* A transition fails only because of a fault, whose signal comes next.
ServiceAnswer(op) ==
  \E ok \in BOOLEAN :
    \/ /\ MayAnswerControl(client, op, ok)
       /\ AnswerBoth(op, ok, ControlAnswered(client, op, ok))
       /\ UNCHANGED history
    \/ /\ MayAnswerTransition(client, op, ok)
       /\ AnswerBoth(op, ok, TransitionAnswered(client, op, ok))
       /\ crossed' = (crossed \/ ~ok) /\ UNCHANGED faults

\* A write that was sent and brought no good answer may have reached the device.
ServiceRequestCompletes(id) ==
  /\ id \in Open(client) /\ OpLeft
  /\ \E ok, decodes, applied \in BOOLEAN :
       LET mine == config.request = id
           done == [Services EXCEPT
                      !.client = Completed(client, id),
                      !.config.device = [i \in Items |->
                        IF applied /\ i = config.index THEN Wanted ELSE @[i]]]
       IN /\ ok => id \in client.sent
          /\ applied => mine /\ config.writing /\ id \in client.sent
          /\ mine /\ config.writing /\ ok => applied
          /\ ServicesBecome(RequestAnswered(
               HandleRequestCompleted(done, id, ok, decodes), id, ok))
  /\ UNCHANGED history

ServicesInit == AppInit /\ config = NoOperation

ServicesNext ==
  \/ UserCommand /\ UNCHANGED config
  \/ MonitorTask /\ UNCHANGED config
  \/ \E s \in ConnectionState : Turn(s) /\ UNCHANGED config
  \/ \E id \in Ids : RequestStarts(id) /\ UNCHANGED config
  \/ BeginOperation \/ Cancel \/ DeviceRestarts
  \/ \E op \in OpIds : ServiceAnswer(op)
  \/ \E id \in Ids : ServiceRequestCompletes(id)

ServicesSpec == ServicesInit /\ [][ServicesNext]_serviceVars

-----------------------------------------------------------------------------
\* The services keep to their types.
ServicesTypeOK == AppTypeOK /\ config \in Operation

\* An operation that has ended leaves the line to the others: while the connection
\* lasts nobody holds it, or is about to get it, as ManualDebug (unless a fault has
\* overtaken an operation, or made one fail).
NothingLeftBehind ==
  ~Busy /\ ~crossed /\ client.state = "Connected" =>
    client.owner # ManualDebug /\ \A op \in OpIds : client.asks[op].target # ManualDebug

\* What the service reports is what the device has: an item that succeeded holds the
\* value written, one that was not tried holds what it held, and the thresholds
\* published are the device's but for the items that failed or are at hand.
ReportsTheDevice ==
  Busy /\ ~config.restarted =>
    \A i \in Items :
      /\ config.items[i] = "Succeeded" => config.device[i] = Wanted
      /\ i > config.index => config.device[i] = config.start[i]
      /\ /\ config.state \in {"Writing", "Verifying"}
         /\ i # config.index
         /\ config.items[i] \notin {"WriteFailed", "ReadbackFailed"}
         => config.verified[i] = config.device[i]

\* An operation always waits for an answer that is still to come, whatever was
\* refused, cancelled or lost on the way: it never gets stuck half-way.
OperationIsAwaited ==
  Busy =>
    \/ config.request \in Open(client)
    \/ /\ config.op # 0
       /\ client.asks[config.op].kind =
            IF config.state = "ReleasingOwner" THEN "ReleaseOwnership" ELSE "AcquireOwnership"
=============================================================================
