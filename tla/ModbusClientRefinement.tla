----------------------- MODULE ModbusClientRefinement -----------------------
(***************************************************************************)
(* The production client implements the interface the services are written *)
(* against.  The application thread sees the members of the facade.  Two   *)
(* history variables recall what the facade itself forgets: the owner each *)
(* unanswered operation asked for, and whether a fault has overtaken one.  *)
(***************************************************************************)
EXTENDS SerialModbusClient

VARIABLES
  target,    \* the owner an unanswered operation asked for
  overtaken  \* Faulted was signalled before an answer, and the client has not been at
             \* rest since: answers or results are missing

Unanswered == {op \in OpIds : ops[op].kind # "None" /\ ops[op].answers = <<>>}

\* The client as the application thread sees it.
Seen == [
  state        |-> connection,
  owner        |-> owner,
  inTransition |-> inTransition,
  pendingKind  |-> pendingKind,
  accepting    |-> accepting,
  queued       |-> {id \in Ids : requests[id] = "Queued"},
  sent         |-> {id \in Ids : requests[id] \notin {"None", "Queued"}},
  cancelling   |-> cancelling,
  asks         |-> [op \in OpIds |->
                      IF op \in Unanswered THEN [kind |-> ops[op].kind, target |-> target[op]]
                      ELSE [kind |-> "None", target |-> NoOwner]],
  overtaken    |-> overtaken]

Contract == INSTANCE ModbusClient WITH Ids <- Ids, OpIds <- OpIds, client <- Seen

HistoryInit ==
  /\ Init
  /\ target = [op \in OpIds |-> NoOwner] /\ overtaken = FALSE

LatestCommand == inbox'[Len(inbox')]
FaultSignalled == worker.outbox[1] = ConnectionSignal("Faulted")

HistoryNext ==
  /\ Next
  /\ target' = [op \in OpIds |->
                  CASE op \notin Unanswered' -> NoOwner
                    [] op \in Unanswered     -> target[op]
                    [] OTHER -> IF LatestCommand.kind = "acquire" THEN LatestCommand.owner
                                ELSE NoOwner]
  /\ overtaken' =
       /\ Unanswered' # {} \/ \E id \in Ids : requests'[id] # "None"
       /\ \/ overtaken
          \/ /\ Len(worker'.outbox) < Len(worker.outbox) /\ FaultSignalled
             /\ \E op \in Unanswered : ops[op].kind # "Open"

HistorySpec == HistoryInit /\ [][HistoryNext]_<<vars, target, overtaken>>

FairHistorySpec == HistorySpec /\ Fairness

\* Whatever the worker and the line do, the application meets only the calls and
\* signals, in the order and with the promises, that its services are built on.
ImplementsContract == Contract!Spec
=============================================================================
