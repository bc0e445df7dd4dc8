---------------------------- MODULE ModbusClient ----------------------------
(***************************************************************************)
(* What a Modbus client promises to the application thread: IModbusClient, *)
(* seen through its calls and its signals.  The services of the host are   *)
(* written against this interface, and their models are composed with this *)
(* module; SerialModbusClient, the production client, implements it (see   *)
(* ModbusClientRefinement).                                                *)
(*                                                                         *)
(* A call and the slots that run when a signal is emitted are one step of  *)
(* the application thread, and a slot may call the client again.  So every *)
(* call and signal is an operator from a client to a client, which the     *)
(* models of the services compose; Next is the client with any caller.     *)
(***************************************************************************)
EXTENDS Naturals, FiniteSets

CONSTANTS
  Owners,      \* CommunicationOwner without None
  NoOwner,     \* CommunicationOwner::None
  MaxPending,  \* ModbusConnectionConfig::maxPendingRequests
  Ids, OpIds   \* RequestIds and OperationIds

ASSUME ContractAssumption ==
  /\ NoOwner \notin Owners /\ MaxPending \in Nat
  /\ IsFiniteSet(Ids) /\ IsFiniteSet(OpIds)

VARIABLE client

OwnerOrNone == Owners \cup {NoOwner}
ConnectionState == {"Disconnected", "Opening", "Connected", "Closing", "Faulted"}
TransitionKind == {"AcquireOwnership", "ReleaseOwnership"}
ControlKind == {"Open", "Close"} \cup TransitionKind

\* An operation accepted and not yet answered; target is the owner it asks for.
Ask == [kind : ControlKind \cup {"None"}, target : OwnerOrNone]
NoAsk == [kind |-> "None", target |-> NoOwner]

Client == [
  state        : ConnectionState,
  owner        : OwnerOrNone,
  inTransition : BOOLEAN,
  pendingKind  : TransitionKind \cup {"None"},
  accepting    : BOOLEAN,
  queued       : SUBSET Ids,     \* requests not yet on the wire
  sent         : SUBSET Ids,     \* requests in flight, or ended and not completed
  cancelling   : SUBSET Ids,
  asks         : [OpIds -> Ask],
  overtaken    : BOOLEAN]        \* a fault has come between an operation and its
                                 \* answer, and the client has not been at rest since:
                                 \* an operation is unanswered, or a request is open

ClientInit == [
  state |-> "Disconnected", owner |-> NoOwner, inTransition |-> FALSE,
  pendingKind |-> "None", accepting |-> FALSE, queued |-> {}, sent |-> {},
  cancelling |-> {}, asks |-> [op \in OpIds |-> NoAsk], overtaken |-> FALSE]

Open(c) == c.queued \cup c.sent
Asked(c) == {op \in OpIds : c.asks[op].kind # "None"}
Awaits(c, kind) == \E op \in OpIds : c.asks[op].kind = kind

-----------------------------------------------------------------------------
(***************************************************************************)
(* The calls.  Each has the condition under which it is accepted.          *)
(***************************************************************************)
Asking(c, op, kind, target) ==
  [c EXCEPT !.asks[op] = [kind |-> kind, target |-> target]]

CanOpen(c) == c.state = "Disconnected"
OpenCall(c, op) ==
  [Asking(c, op, "Open", NoOwner) EXCEPT
     !.state = "Opening", !.owner = NoOwner, !.accepting = FALSE]

CanClose(c) == c.state \in {"Connected", "Faulted"} /\ ~c.inTransition
CloseCall(c, op) ==
  [Asking(c, op, "Close", NoOwner) EXCEPT !.state = "Closing", !.accepting = FALSE]

CanMove(c) == c.state = "Connected" /\ ~c.inTransition
MoveCall(c, op, kind, target) ==
  [Asking(c, op, kind, target) EXCEPT
     !.inTransition = TRUE, !.pendingKind = kind, !.accepting = FALSE]

CanAcquire(c, o) == CanMove(c)
AcquireCall(c, op, o) == MoveCall(c, op, "AcquireOwnership", o)

CanRelease(c, o) == CanMove(c) /\ o = c.owner
ReleaseCall(c, op, o) == MoveCall(c, op, "ReleaseOwnership", NoOwner)

CanSubmit(c) ==
  /\ c.state = "Connected" /\ c.accepting /\ ~c.inTransition /\ c.owner # NoOwner
  /\ Cardinality(c.queued) < MaxPending
SubmitCall(c, id) == [c EXCEPT !.queued = @ \cup {id}]

CanCancel(c, id) == id \in Open(c) \ c.cancelling
CancelCall(c, id) == [c EXCEPT !.cancelling = @ \cup {id}]

\* The identifiers the next accepted call may be given.
FreeOp(c) == OpIds \ Asked(c)
FreeId(c) == Ids \ Open(c)

-----------------------------------------------------------------------------
(***************************************************************************)
(* The signals.  Each has the promise that goes with it.                   *)
(***************************************************************************)

\* connectionStateChanged.  A connection comes up and goes down with nothing on the
\* wire: what was sent has its result.  A request of an earlier connection is never
\* seen in a later one, and it outlives its own only where a fault has overtaken an
\* operation.
MayTurn(c, s) ==
  /\ s # "Closing" => c.sent = {}
  /\ s # "Closing" /\ c.state \in {"Disconnected", "Opening"} => c.queued = {}
  /\ \/ s = "Connected" /\ Awaits(c, "Open") /\ (c.state = "Opening" \/ c.overtaken)
     \/ s = "Closing" /\ Awaits(c, "Close") /\ (c.state = "Closing" \/ c.overtaken)
     \/ /\ s = "Disconnected" /\ Awaits(c, "Close")
        /\ (c.state = "Closing" /\ c.queued = {}) \/ c.overtaken
     \/ s = "Faulted" /\ (c.state # "Disconnected" \/ c.overtaken)

Turned(c, s) ==
  LET lost == s \in {"Faulted", "Disconnected"}
  IN [c EXCEPT
        !.state = s,
        !.accepting = IF s = "Connected" THEN c.owner # NoOwner ELSE @ /\ ~lost,
        !.owner = IF lost THEN NoOwner ELSE @,
        !.inTransition = @ /\ ~lost,
        !.pendingKind = IF lost THEN "None" ELSE @,
        !.overtaken = @ \/ (s = "Faulted" /\ \E op \in Asked(c) : c.asks[op].kind # "Open")]

Answered(c, op) ==
  [c EXCEPT !.asks[op] = NoAsk,
            !.overtaken = @ /\ (Asked(c) # {op} \/ Open(c) # {})]

\* controlCompleted of open() and close() comes right after the state it is about
\* has been signalled, so only a call may have changed that since.  A close that
\* was accepted succeeds.
MayAnswerControl(c, op, ok) ==
  \/ c.asks[op].kind = "Open" /\ ok /\ c.state \in {"Connected", "Closing"}
  \/ c.asks[op].kind = "Open" /\ ~ok /\ c.state \in {"Faulted", "Closing"}
  \/ c.asks[op].kind = "Close" /\ ok /\ c.state \in {"Disconnected", "Opening"}

ControlAnswered(c, op, ok) ==
  LET closed == ok /\ c.asks[op].kind = "Close"
  IN [Answered(c, op) EXCEPT
        !.accepting = @ /\ ~ok,
        !.owner = IF closed THEN NoOwner ELSE @,
        !.inTransition = @ /\ ~closed,
        !.pendingKind = IF closed THEN "None" ELSE @]

\* controlCompleted of a transition.  Unless a fault came between, a success
\* hands over to the owner asked for, and a new owner finds no request of the
\* one before it.
MayAnswerTransition(c, op, ok) ==
  /\ c.asks[op].kind \in TransitionKind
  /\ ~c.overtaken =>
       /\ c.inTransition /\ c.pendingKind = c.asks[op].kind
       /\ ok /\ c.owner # c.asks[op].target => Open(c) = {}

\* The kind the answer names: that of the transition in progress, if there is one.
AnswerKind(c, op, ok) ==
  IF c.asks[op].kind \notin TransitionKind THEN c.asks[op].kind
  ELSE IF c.pendingKind # "None" THEN c.pendingKind
  ELSE IF ok /\ c.asks[op].target # NoOwner THEN "AcquireOwnership"
  ELSE "ReleaseOwnership"

TransitionAnswered(c, op, ok) ==
  LET target == c.asks[op].target
  IN [Answered(c, op) EXCEPT
        !.inTransition = FALSE, !.pendingKind = "None",
        !.owner = IF ok THEN target ELSE @,
        !.accepting = ok /\ target # NoOwner /\ c.state = "Connected"]

\* requestStateChanged(InFlight) and requestCompleted.
Started(c, id) == [c EXCEPT !.queued = @ \ {id}, !.sent = @ \cup {id}]
Completed(c, id) ==
  [c EXCEPT !.queued = @ \ {id}, !.sent = @ \ {id}, !.cancelling = @ \ {id},
            !.overtaken = @ /\ (Asked(c) # {} \/ Open(c) # {id})]

\* The destructor.
Destroyed(c) == [c EXCEPT !.accepting = FALSE]

-----------------------------------------------------------------------------
Init == client = ClientInit

Call ==
  \/ \E op \in FreeOp(client) :
       \/ CanOpen(client) /\ client' = OpenCall(client, op)
       \/ CanClose(client) /\ client' = CloseCall(client, op)
       \/ \E o \in Owners :
            \/ CanAcquire(client, o) /\ client' = AcquireCall(client, op, o)
            \/ CanRelease(client, o) /\ client' = ReleaseCall(client, op, o)
  \/ \E id \in FreeId(client) : CanSubmit(client) /\ client' = SubmitCall(client, id)
  \/ \E id \in Ids : CanCancel(client, id) /\ client' = CancelCall(client, id)
  \/ client' = Destroyed(client)

Signal ==
  \/ \E s \in ConnectionState : MayTurn(client, s) /\ client' = Turned(client, s)
  \/ \E op \in Asked(client), ok \in BOOLEAN :
       \/ MayAnswerControl(client, op, ok) /\ client' = ControlAnswered(client, op, ok)
       \/ MayAnswerTransition(client, op, ok) /\ client' = TransitionAnswered(client, op, ok)
  \/ \E id \in client.queued : client' = Started(client, id)
  \/ \E id \in Open(client) : client' = Completed(client, id)

Next == Call \/ Signal

Spec == Init /\ [][Next]_client
=============================================================================
