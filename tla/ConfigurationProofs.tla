------------------------ MODULE ConfigurationProofs ------------------------
(***************************************************************************)
(* Proofs about Configuration, whose service shares the client with the    *)
(* application and the monitor: an operation always waits for an answer    *)
(* that is to come, what it reports is what the device has, and when it    *)
(* has ended the line is nobody's, for every number of channels, faults    *)
(* and identifiers.                                                        *)
(*                                                                         *)
(* The other services are seen only through the calls their slots make of  *)
(* the client (CallsOnce and Commands of AppMonitorProofs).                *)
(***************************************************************************)
EXTENDS Configuration, AppMonitorProofs

ServiceWorld(w) ==
  /\ Hosts(w) /\ DOMAIN w = {"client", "app", "mon", "config"}
  /\ w.client \in Client /\ w.config \in Operation

Moving(c) == {op \in OpIds : c.asks[op].kind \in TransitionKind}

\* The service waits for one answer, and the application for another.
Working == {"ReadingCurrent", "Writing", "Verifying", "Cancelling"}

Awaiting(c, g) ==
  \/ g.state = "Idle" /\ g.op = 0 /\ g.request = 0
  \/ g.state \in Working /\ g.op = 0 /\ g.request \in Open(c)
  \/ /\ g.state \in {"AcquiringOwner", "Cancelling"} /\ g.request = 0
     /\ g.op \in OpIds /\ c.asks[g.op].kind = "AcquireOwnership"
  \/ /\ g.state = "ReleasingOwner" /\ g.request = 0
     /\ g.op \in OpIds /\ c.asks[g.op].kind = "ReleaseOwnership"

Apart(c, g, p) == p # 0 => p \in Asked(c) /\ p # g.op

Cancels(g) ==
  /\ g.cancels > 0 => g.state \in {"Cancelling", "ReleasingOwner"}
  /\ g.state = "Cancelling" => g.cancels > 0

Waiting(w) ==
  /\ Awaiting(w.client, w.config) /\ Cancels(w.config)
  /\ Apart(w.client, w.config, w.app.pending.op)

\* What is reported is what the device has; the items up to the one at hand may be
\* written, and those from it on have been read.
Told(g) ==
  \A i \in Items :
    /\ g.items[i] = "Succeeded" => g.device[i] = Wanted
    /\ i > g.index => g.device[i] = g.start[i]
    /\ g.device[i] \in {g.start[i], Wanted}

Follows(g) ==
  \A i \in Items :
    /\ i >= g.index => g.verified[i] = g.start[i]
    /\ i < g.index /\ g.items[i] \notin {"WriteFailed", "ReadbackFailed"}
         => g.verified[i] = g.device[i]

Telling(g) ==
  /\ ~g.restarted => Told(g)
  /\ g.state \in {"AcquiringOwner", "ReadingCurrent"} =>
       g.index = 1 /\ ~g.writing /\ (~g.restarted => g.device = g.start)
  /\ g.state \in {"Writing", "Verifying"} =>
       g.index \in Items /\ (~g.restarted => Follows(g))

\* Until a fault overtakes an operation the client has one transition at a time, and
\* only in a connection; ManualDebug has the line, or is about to get it, only while
\* an operation of the service is at it.
OneMove(c) ==
  /\ ~c.overtaken
  /\ Moving(c) # {} => c.state = "Connected" /\ c.inTransition
  /\ \A a, b \in Moving(c) : a = b
  /\ c.owner = ManualDebug => c.state \in {"Connected", "Closing"}

Line(c, g) ==
  /\ OneMove(c)
  /\ \A op \in OpIds :
       c.asks[op].target = ManualDebug =>
         op = g.op /\ g.state \in {"AcquiringOwner", "Cancelling"}
  /\ c.owner = ManualDebug /\ c.state = "Connected" =>
       /\ g.state # "Idle"
       /\ IF g.state = "ReleasingOwner" THEN g.op \in Moving(c)
          ELSE g.op = 0 /\ ~c.inTransition

CInv ==
  /\ ServiceWorld(Services) /\ crossed \in BOOLEAN
  /\ Waiting(Services) /\ Telling(config)
  /\ MaxCancels <= 1 /\ ~crossed => Line(client, config)

\* While the service decides what to do next, no answer to it is to come.
Free(c) ==
  /\ OneMove(c)
  /\ \A op \in OpIds : c.asks[op].target # ManualDebug
  /\ c.owner = ManualDebug /\ c.state = "Connected" => ~c.inTransition

-----------------------------------------------------------------------------
(***************************************************************************)
(* The calls of the client.                                                *)
(***************************************************************************)
LEMMA OwnersDiffer ==
  /\ ManualDebug \in Owners /\ ManualDebug # NoOwner
  /\ ManualDebug # Monitor /\ ManualDebug # Testing
BY ConfigurationAssumption, ContractAssumption

LEMMA NextIdIsFree ==
  ASSUME NEW c, FreeId(c) # {}
  PROVE  NextId(c) \in Ids /\ NextId(c) \notin Open(c)
BY DEF NextId, FreeId

\* A call that begins an operation.
LEMMA MoveIs ==
  ASSUME NEW c \in Client, NEW op \in FreeOp(c), NEW kind \in TransitionKind,
         NEW o \in OwnerOrNone
  PROVE  LET d == MoveCall(c, op, kind, o)
         IN /\ d \in Client /\ Open(d) = Open(c) /\ d.overtaken = c.overtaken
            /\ d.state = c.state /\ d.owner = c.owner /\ d.inTransition
            /\ d.asks[op].kind = kind /\ d.asks[op].target = o
            /\ \A other \in OpIds \ {op} : d.asks[other] = c.asks[other]
BY DEF MoveCall, Asking, Client, Ask, Open, OwnerOrNone, ControlKind, TransitionKind, FreeOp

LEMMA CloseIs ==
  ASSUME NEW c \in Client, NEW op \in FreeOp(c)
  PROVE  LET d == CloseCall(c, op)
         IN /\ d \in Client /\ Open(d) = Open(c) /\ d.overtaken = c.overtaken
            /\ d.state = "Closing" /\ d.owner = c.owner /\ d.inTransition = c.inTransition
            /\ d.asks[op].kind = "Close" /\ d.asks[op].target = NoOwner
            /\ \A other \in OpIds \ {op} : d.asks[other] = c.asks[other]
BY DEF CloseCall, Asking, Client, Ask, Open, OwnerOrNone, ControlKind, FreeOp, ConnectionState

LEMMA OpenIs ==
  ASSUME NEW c \in Client, NEW op \in FreeOp(c)
  PROVE  LET d == OpenCall(c, op)
         IN /\ d \in Client /\ Open(d) = Open(c) /\ d.overtaken = c.overtaken
            /\ d.state = "Opening" /\ d.owner = NoOwner /\ d.inTransition = c.inTransition
            /\ d.asks[op].kind = "Open" /\ d.asks[op].target = NoOwner
            /\ \A other \in OpIds \ {op} : d.asks[other] = c.asks[other]
BY DEF OpenCall, Asking, Client, Ask, Open, OwnerOrNone, ControlKind, FreeOp, ConnectionState

\* Submitted, cancelled, started and completed requests are no operations.
SameMoves(d, c) ==
  /\ d \in Client /\ d.asks = c.asks /\ d.state = c.state /\ d.owner = c.owner
  /\ d.overtaken => c.overtaken
  /\ d.inTransition = c.inTransition

LEMMA RequestIs ==
  ASSUME NEW c \in Client, NEW id \in Ids
  PROVE  /\ SameMoves(SubmitCall(c, id), c) /\ Open(SubmitCall(c, id)) = Open(c) \cup {id}
         /\ SameMoves(CancelCall(c, id), c) /\ Open(CancelCall(c, id)) = Open(c)
         /\ SameMoves(Started(c, id), c) /\ Open(c) \subseteq Open(Started(c, id))
         /\ SameMoves(Completed(c, id), c) /\ Open(Completed(c, id)) = Open(c) \ {id}
<1>1. /\ SubmitCall(c, id) \in Client /\ CancelCall(c, id) \in Client
      /\ Started(c, id) \in Client /\ Completed(c, id) \in Client
  BY RequestsKeep
<1> QED
  BY <1>1 DEF SameMoves, SubmitCall, CancelCall, Started, Completed, Client, Open

LEMMA SameMovesKeep ==
  ASSUME NEW c, NEW d, SameMoves(d, c)
  PROVE  /\ Moving(d) = Moving(c) /\ Asked(d) = Asked(c) /\ FreeOp(d) = FreeOp(c)
         /\ CanMove(d) = CanMove(c) /\ CanClose(d) = CanClose(c)
         /\ Free(c) => Free(d)
         /\ \A g : Line(c, g) => Line(d, g)
<1>1. Moving(d) = Moving(c) /\ Asked(d) = Asked(c) /\ FreeOp(d) = FreeOp(c)
  BY DEF SameMoves, Moving, Asked, FreeOp
<1>2. CanMove(d) = CanMove(c) /\ CanClose(d) = CanClose(c)
  BY DEF SameMoves, CanMove, CanClose
<1>3. OneMove(c) => OneMove(d)
  BY <1>1 DEF SameMoves, OneMove
<1>4. Free(c) => Free(d)
  BY <1>3 DEF SameMoves, Free
<1>5. \A g : Line(c, g) => Line(d, g)
  BY <1>1, <1>3 DEF SameMoves, Line
<1> QED
  BY <1>1, <1>2, <1>4, <1>5

\* A new operation is none that is waited for.
LEMMA AskKeeps ==
  ASSUME NEW c \in Client, NEW d, NEW op \in FreeOp(c), Open(d) = Open(c),
         d.asks[op].kind # "None",
         \A other \in OpIds \ {op} : d.asks[other] = c.asks[other],
         NEW g, Awaiting(c, g)
  PROVE  Awaiting(d, g) /\ Apart(d, g, op)
<1>1. op \in OpIds /\ c.asks[op].kind = "None"
  BY DEF FreeOp, Asked
<1>2. g.op # op
  BY <1>1, AppAssumption DEF Awaiting
<1>3. Awaiting(d, g)
  BY <1>1 DEF Awaiting
<1>4. Asked(c) \subseteq Asked(d) /\ op \in Asked(d)
  BY <1>1 DEF Asked
<1> QED
  BY <1>2, <1>3, <1>4 DEF Apart

\* The other services take and give back the line for their owners.
LEMMA OthersMove ==
  ASSUME NEW c \in Client, NEW op \in FreeOp(c), NEW kind \in TransitionKind,
         NEW o \in OwnerOrNone \ {ManualDebug}, CanMove(c), c.owner # ManualDebug,
         NEW d, d = MoveCall(c, op, kind, o)
  PROVE  (Free(c) => Free(d)) /\ (\A g : Line(c, g) => Line(d, g))
<1>1. /\ op \in OpIds /\ d.overtaken = c.overtaken
      /\ d.state = "Connected" /\ d.owner = c.owner /\ d.inTransition
      /\ d.asks[op].kind = kind /\ d.asks[op].target = o
      /\ \A other \in OpIds \ {op} : d.asks[other] = c.asks[other]
  BY MoveIs DEF FreeOp, CanMove
<1>2. ~c.inTransition
  BY DEF CanMove
<1>3. ASSUME OneMove(c)
      PROVE  OneMove(d)
  <2>1. Moving(c) = {}
    BY <1>2, <1>3 DEF OneMove
  <2>2. Moving(d) = {op}
    BY <1>1, <2>1 DEF Moving
  <2> QED
    BY <1>1, <1>3, <2>2 DEF OneMove
<1>4. Free(c) => Free(d)
  BY <1>1, <1>3 DEF Free
<1>5. \A g : Line(c, g) => Line(d, g)
  BY <1>1, <1>3 DEF Line
<1> QED
  BY <1>4, <1>5

\* The connection is closed between two transitions, and opened after them all.
LEMMA OthersConnect ==
  ASSUME NEW c \in Client, NEW op \in FreeOp(c), NEW d,
         \/ CanClose(c) /\ d = CloseCall(c, op)
         \/ CanOpen(c) /\ d = OpenCall(c, op)
  PROVE  (Free(c) => Free(d)) /\ (\A g : Line(c, g) => Line(d, g))
<1>1. /\ op \in OpIds /\ d.overtaken = c.overtaken /\ d.state # "Connected"
      /\ d.owner # ManualDebug \/ (d.owner = c.owner /\ d.state = "Closing")
      /\ d.asks[op].kind \in {"Open", "Close"} /\ d.asks[op].target # ManualDebug
      /\ \A other \in OpIds \ {op} : d.asks[other] = c.asks[other]
  BY CloseIs, OpenIs, OwnersDiffer DEF FreeOp
<1>2. ~c.inTransition \/ c.state # "Connected"
  BY DEF CanClose, CanOpen
<1>3. ASSUME OneMove(c)
      PROVE  OneMove(d)
  <2>1. Moving(c) = {}
    BY <1>2, <1>3 DEF OneMove
  <2>2. Moving(d) = {}
    BY <1>1, <2>1 DEF Moving, TransitionKind
  <2> QED
    BY <1>1, <1>3, <2>2 DEF OneMove
<1>4. Free(c) => Free(d)
  BY <1>1, <1>3 DEF Free
<1>5. \A g : Line(c, g) => Line(d, g)
  BY <1>1, <1>3 DEF Line
<1> QED
  BY <1>4, <1>5

\* Whatever the other services do, the service keeps what it has, and the pending
\* command, which may be another, waits for an answer that is to come.
Owes(w) == w.app.pending.op # 0 => w.app.pending.op \in Asked(w.client)

Unhurt(v, w) ==
  /\ ServiceWorld(v) /\ v.config = w.config
  /\ Open(w.client) \subseteq Open(v.client)
  /\ Waiting(w) => Waiting(v)
  /\ Owes(w) => Owes(v)
  /\ Free(w.client) => Free(v.client)
  /\ \A g : Line(w.client, g) => Line(v.client, g)

LEMMA UnhurtIs ==
  ASSUME NEW w, ServiceWorld(w), NEW v, Beside(v, w)
  PROVE  /\ v.config = w.config /\ v.config \in Operation
         /\ v.client \in Client => ServiceWorld(v)
BY DEF ServiceWorld, Beside

LEMMA StillUnhurt ==
  ASSUME NEW w, ServiceWorld(w), NEW v, Still(v, w)
  PROVE  Unhurt(v, w)
<1>1. Beside(v, w) /\ v.client = w.client /\ v.app.pending.op \in {0, w.app.pending.op}
  BY DEF Still
<1>2. ServiceWorld(v) /\ v.config = w.config
  BY <1>1, UnhurtIs DEF ServiceWorld
<1>3. Waiting(w) => Waiting(v)
  BY <1>1, <1>2 DEF Waiting, Apart
<1> QED
  BY <1>1, <1>2, <1>3 DEF Unhurt, Owes

\* One of the other services asks for an operation, and the application waits for it.
LEMMA AskUnhurt ==
  ASSUME NEW w, ServiceWorld(w), FreeOp(w.client) # {}, NEW v,
         Closes(v, w) \/ Releases(v, w) \/ Commands(v, w)
  PROVE  /\ Unhurt(v, w)
         /\ Awaiting(w.client, w.config) /\ Cancels(w.config) => Waiting(v)
<1> DEFINE c == w.client
           d == v.client
           op == NextOp(c)
<1>1. Beside(v, w) /\ v.app.pending.op = op
  BY DEF Closes, Releases, Commands
<1>2. /\ \/ CanClose(c) /\ d = CloseCall(c, op)
         \/ CanOpen(c) /\ d = OpenCall(c, op)
         \/ \E kind \in TransitionKind, o \in OwnerOrNone \ {ManualDebug} :
              CanMove(c) /\ c.owner # ManualDebug /\ d = MoveCall(c, op, kind, o)
  BY OwnersDiffer, AppAssumption
     DEF Closes, Releases, Commands, CanRelease, CanAcquire, ReleaseCall, AcquireCall,
         TransitionKind, OwnerOrNone
<1>3. c \in Client /\ op \in FreeOp(c)
  BY DEF ServiceWorld, NextOp
<1> HIDE DEF c, d, op
<1>4. /\ d \in Client /\ Open(d) = Open(c) /\ d.asks[op].kind # "None"
      /\ \A other \in OpIds \ {op} : d.asks[other] = c.asks[other]
  BY <1>2, <1>3, CloseIs, OpenIs, MoveIs DEF TransitionKind
<1>5. (Free(c) => Free(d)) /\ (\A g : Line(c, g) => Line(d, g))
  BY <1>2, <1>3, OthersMove, OthersConnect
<1>6. ServiceWorld(v) /\ v.config = w.config
  BY <1>1, <1>4, UnhurtIs DEF d
<1>7. Awaiting(w.client, w.config) /\ Cancels(w.config) => Waiting(v)
  BY <1>1, <1>3, <1>4, <1>6, AskKeeps DEF Waiting, c, d
<1>8. op \in Asked(d)
  BY <1>3, <1>4 DEF Asked, FreeOp
<1> QED
  BY <1>1, <1>4, <1>5, <1>6, <1>7, <1>8 DEF Unhurt, Waiting, Owes, c, d

LEMMA RequestsUnhurt ==
  ASSUME NEW w, ServiceWorld(w), NEW v,
         (Submits(v, w) /\ FreeId(w.client) # {}) \/ Revokes(v, w)
  PROVE  Unhurt(v, w) /\ CanMove(v.client) = CanMove(w.client)
         /\ FreeOp(v.client) = FreeOp(w.client)
<1> DEFINE c == w.client
           d == v.client
<1>1. Beside(v, w) /\ v.app.pending.op = w.app.pending.op
  BY DEF Submits, Revokes
<1>2. c \in Client
  BY DEF ServiceWorld
<1>3. \E id \in Ids : d = SubmitCall(c, id) \/ d = CancelCall(c, id)
  <2>1. Open(c) \subseteq Ids
    BY <1>2 DEF Open, Client
  <2> QED
    BY <2>1, NextIdIsFree DEF Submits, Revokes
<1> HIDE DEF c, d
<1>4. SameMoves(d, c) /\ Open(c) \subseteq Open(d)
  BY <1>2, <1>3, RequestIs
<1>5. ServiceWorld(v) /\ v.config = w.config
  BY <1>1, <1>4, UnhurtIs DEF SameMoves, d
<1>6. Waiting(w) => Waiting(v)
  BY <1>1, <1>4, <1>5, SameMovesKeep DEF Waiting, Awaiting, Apart, SameMoves, c, d
<1>7. Owes(w) => Owes(v)
  BY <1>1, <1>4, SameMovesKeep DEF Owes, c, d
<1> QED
  BY <1>4, <1>5, <1>6, <1>7, SameMovesKeep DEF Unhurt, c, d

LEMMA CallsUnhurt ==
  ASSUME NEW w, ServiceWorld(w), NEW v, CallsOnce(v, w),
         CanMove(w.client) => FreeOp(w.client) # {},
         CanSubmit(w.client) => FreeId(w.client) # {}
  PROVE  /\ Unhurt(v, w)
         /\ CanMove(v.client) => FreeOp(v.client) # {}
         /\ CanSubmit(v.client) /\ v.client.owner = ManualDebug => FreeId(v.client) # {}
<1> DEFINE c == w.client
           d == v.client
<1>1. c \in Client
  BY DEF ServiceWorld
<1>2. CASE Still(v, w)
  BY <1>2, StillUnhurt DEF Still
<1>3. CASE Releases(v, w)
  <2>1. CanMove(c) /\ d = MoveCall(c, NextOp(c), "ReleaseOwnership", NoOwner)
    BY <1>3 DEF Releases, CanRelease, ReleaseCall
  <2>2. NextOp(c) \in FreeOp(c) /\ NoOwner \in OwnerOrNone
    BY <2>1 DEF NextOp, OwnerOrNone
  <2> HIDE DEF c, d
  <2>3. d.inTransition
    BY <1>1, <2>1, <2>2, MoveIs DEF TransitionKind
  <2>4. Unhurt(v, w)
    BY <1>3, <2>2, AskUnhurt DEF c
  <2> QED
    BY <2>3, <2>4 DEF CanMove, CanSubmit, d
<1>4. CASE Submits(v, w)
  <2>1. c.owner = Monitor /\ FreeId(c) # {} /\ d = SubmitCall(c, NextId(c))
    BY <1>4 DEF Submits
  <2>2. NextId(c) \in Ids
    BY <2>1, NextIdIsFree
  <2> HIDE DEF c, d
  <2>3. SameMoves(d, c)
    BY <1>1, <2>1, <2>2, RequestIs
  <2>4. d.owner = Monitor
    BY <2>1, <2>3 DEF SameMoves
  <2> QED
    BY <1>4, <2>1, <2>4, RequestsUnhurt, OwnersDiffer DEF c, d
<1>5. CASE Revokes(v, w)
  <2>1. PICK id \in Ids : d = CancelCall(c, id)
    BY <1>1, <1>5 DEF Revokes, Open, Client
  <2> HIDE DEF c, d
  <2>2. SameMoves(d, c) /\ Open(d) = Open(c)
    BY <1>1, <2>1, RequestIs
  <2>3. d.accepting = c.accepting /\ d.queued = c.queued
    BY <1>1, <2>1 DEF CancelCall, Client
  <2>4. CanSubmit(d) => FreeId(d) # {}
    BY <2>2, <2>3 DEF CanSubmit, FreeId, SameMoves, c
  <2> QED
    BY <1>5, <2>4, RequestsUnhurt DEF c, d
<1> QED
  BY <1>2, <1>3, <1>4, <1>5 DEF CallsOnce

-----------------------------------------------------------------------------
(***************************************************************************)
(* What the service does next.                                             *)
(***************************************************************************)
Deciding(w) ==
  /\ ServiceWorld(w)
  /\ Owes(w)
  /\ CanMove(w.client) => FreeOp(w.client) # {}
  /\ ~w.config.restarted => Told(w.config)

Submitting(w) ==
  /\ Deciding(w) /\ w.config.op = 0 /\ w.config.cancels = 0
  /\ CanSubmit(w.client) /\ w.client.owner = ManualDebug => FreeId(w.client) # {}

\* What it has decided leaves it waiting for an answer, or idle.
Decided(v, c) ==
  /\ ServiceWorld(v) /\ Waiting(v) /\ Telling(v.config)
  /\ Free(c) => Line(v.client, v.config)

LEMMA NothingTyped == All(Factory) \in Thresholds /\ NoOperation \in Operation
<1>1. All(Factory) \in Thresholds /\ All("Pending") \in [Items -> ItemStatus]
  BY DEF All, Thresholds, ItemStatus
<1>2. 1 \in 1..Channels + 1 /\ 0 \in 0..MaxCancels
  BY ConfigurationAssumption
<1> QED
  BY <1>1, <1>2 DEF NoOperation, Operation, ConfigurationState, ConfigurationCommand

\* completeAfterRelease and completeWithError.
LEMMA Completes ==
  ASSUME NEW w, ServiceWorld(w),
         Owes(w),
         NEW v, v = CompleteOperation(w)
  PROVE  /\ ServiceWorld(v) /\ Waiting(v) /\ Telling(v.config)
         /\ Free(w.client) /\ ~(w.client.owner = ManualDebug /\ w.client.state = "Connected")
              => Line(v.client, v.config)
<1>1. /\ v.config = NoOperation /\ v.client = w.client /\ v.app = w.app
      /\ DOMAIN v = DOMAIN w
  BY DEF CompleteOperation, ServiceWorld
<1>2. ServiceWorld(v)
  BY <1>1, NothingTyped DEF ServiceWorld, Hosts
<1>3. Waiting(v)
  BY <1>1 DEF Waiting, Awaiting, Cancels, Apart, Owes, NoOperation
<1>4. Telling(NoOperation)
  BY DEF Telling, Told, NoOperation, All
<1>5. Free(w.client) /\ ~(w.client.owner = ManualDebug /\ w.client.state = "Connected")
        => Line(v.client, v.config)
  BY <1>1 DEF Free, Line
<1> QED
  BY <1>1, <1>2, <1>3, <1>4, <1>5

\* What the service reports does not hang on what it waits for.
LEMMA ReleasingTells ==
  ASSUME NEW g \in Operation, ~g.restarted => Told(g), NEW h,
         h.items = g.items, h.device = g.device, h.start = g.start, h.index = g.index,
         h.restarted = g.restarted,
         h.state \notin {"AcquiringOwner", "ReadingCurrent", "Writing", "Verifying"}
  PROVE  Telling(h)
BY DEF Telling, Told

LEMMA BeginReleaseDecides ==
  ASSUME NEW w, Deciding(w)
  PROVE  Decided(BeginRelease(w), w.client)
<1> DEFINE c == w.client
           g == w.config
           v == BeginRelease(w)
           op == NextOp(c)
<1>1. /\ ServiceWorld(w) /\ c \in Client /\ g \in Operation
      /\ Owes(w)
      /\ CanMove(c) => FreeOp(c) # {} /\ op \in FreeOp(c)
      /\ ~g.restarted => Told(g)
  BY DEF Deciding, ServiceWorld, NextOp
<1>2. CASE CanRelease(c, ManualDebug) /\ c.owner = ManualDebug
  <2> DEFINE d == MoveCall(c, op, "ReleaseOwnership", NoOwner)
             h == [[[g EXCEPT !.op = op] EXCEPT !.request = 0]
                     EXCEPT !.state = "ReleasingOwner"]
  <2>1. CanMove(c) /\ op \in FreeOp(c) /\ op \in OpIds /\ NoOwner \in OwnerOrNone
    BY <1>1, <1>2 DEF CanRelease, FreeOp, OwnerOrNone
  <2>2. v = [[w EXCEPT !.client = d] EXCEPT !.config = h]
    BY <1>1, <1>2 DEF BeginRelease, ReleaseCall, ServiceWorld
  <2>3. /\ h \in Operation
        /\ h.items = g.items /\ h.device = g.device /\ h.start = g.start /\ h.index = g.index
        /\ h.restarted = g.restarted /\ h.state = "ReleasingOwner" /\ h.op = op /\ h.request = 0
    BY <1>1, <2>1 DEF Operation, ConfigurationState
  <2> HIDE DEF h, v, op
  <2>4. /\ d \in Client /\ d.overtaken = c.overtaken
        /\ d.state = c.state /\ d.owner = c.owner /\ d.inTransition
        /\ d.asks[op].kind = "ReleaseOwnership" /\ d.asks[op].target = NoOwner
        /\ \A other \in OpIds \ {op} : d.asks[other] = c.asks[other]
    BY <1>1, <2>1, MoveIs DEF TransitionKind
  <2> HIDE DEF d, c, g
  <2>5. /\ v.client = d /\ v.config = h /\ v.app = w.app /\ DOMAIN v = DOMAIN w
        /\ ServiceWorld(v)
    BY <1>1, <2>2, <2>3, <2>4 DEF ServiceWorld, Hosts
  <2>6. Waiting(v)
    <3>1. Asked(c) \subseteq Asked(d) /\ op \notin Asked(c)
      BY <2>1, <2>4 DEF Asked, FreeOp
    <3>2. Awaiting(d, h) /\ Cancels(h)
      BY <2>1, <2>3, <2>4 DEF Awaiting, Cancels
    <3>3. Apart(d, h, w.app.pending.op)
      BY <1>1, <2>3, <3>1 DEF Apart, Owes, c
    <3> QED
      BY <2>5, <3>2, <3>3 DEF Waiting
  <2>7. Telling(h)
    BY <1>1, <2>3, ReleasingTells
  <2>8. ASSUME Free(c)
        PROVE  Line(d, h)
    <3>1. Moving(c) = {} /\ c.state = "Connected"
      BY <2>1, <2>8 DEF Free, OneMove, CanMove
    <3>2. Moving(d) = {op}
      BY <2>1, <2>4, <3>1 DEF Moving, TransitionKind
    <3>3. OneMove(d)
      BY <2>4, <2>8, <3>1, <3>2 DEF OneMove, Free
    <3> QED
      BY <2>3, <2>4, <2>8, <3>2, <3>3, OwnersDiffer DEF Line, Free
  <2> QED
    BY <2>5, <2>6, <2>7, <2>8 DEF Decided, v, c
<1>3. CASE ~(CanRelease(c, ManualDebug) /\ c.owner = ManualDebug)
  <2>1. v = CompleteOperation(w)
    BY <1>3 DEF BeginRelease
  <2>2. Free(c) => ~(c.owner = ManualDebug /\ c.state = "Connected")
    BY <1>3 DEF Free, CanRelease, CanMove
  <2> QED
    BY <1>1, <2>1, <2>2, Completes DEF Decided
<1> QED
  BY <1>2, <1>3

\* What is left from the item at hand on has a status of its own.
LEMMA RestDecides ==
  ASSUME NEW w, Deciding(w), NEW status \in {"WriteFailed", "Cancelled"}
  PROVE  /\ Deciding(Rest(w, status))
         /\ Rest(w, status).client = w.client
<1> DEFINE g == w.config
           items == [i \in Items |-> IF i >= g.index /\ g.items[i] = "Pending"
                                       THEN status ELSE g.items[i]]
           v == Rest(w, status)
           h == [g EXCEPT !.items = items]
<1>1. /\ ServiceWorld(w) /\ g \in Operation
      /\ Owes(w)
      /\ CanMove(w.client) => FreeOp(w.client) # {}
      /\ ~g.restarted => Told(g)
  BY DEF Deciding, ServiceWorld
<1>2. v = [w EXCEPT !.config = h]
  BY <1>1 DEF Rest, ServiceWorld
<1>3. items \in [Items -> ItemStatus]
  BY <1>1 DEF Operation, ItemStatus
<1>4. \A i \in Items : items[i] = "Succeeded" => g.items[i] = "Succeeded"
  OBVIOUS
<1> HIDE DEF items, v
<1>5. /\ h \in Operation /\ h.device = g.device /\ h.start = g.start
      /\ h.index = g.index /\ h.items = items /\ h.restarted = g.restarted
  BY <1>1, <1>3 DEF Operation
<1> HIDE DEF g, h
<1>6. ~h.restarted => Told(h)
  BY <1>1, <1>4, <1>5 DEF Told
<1>7. /\ v.config = h /\ v.client = w.client /\ v.app = w.app /\ DOMAIN v = DOMAIN w
      /\ ServiceWorld(v)
  BY <1>1, <1>2, <1>5 DEF ServiceWorld, Hosts
<1> QED
  BY <1>1, <1>6, <1>7 DEF Deciding, Owes, v

LEMMA CancelRemainingDecides ==
  ASSUME NEW w, Deciding(w)
  PROVE  Decided(CancelRemaining(w), w.client)
<1>1. Deciding(Rest(w, "Cancelled")) /\ Rest(w, "Cancelled").client = w.client
  BY RestDecides
<1> HIDE DEF Rest
<1> QED
  BY <1>1, BeginReleaseDecides DEF CancelRemaining

\* A request is submitted, and its answer waited for.
LEMMA SubmitDecides ==
  ASSUME NEW w, Submitting(w), MaySubmit(w),
         NEW state \in {"ReadingCurrent", "Writing", "Verifying"},
         state = "ReadingCurrent" =>
           w.config.index = 1 /\ (~w.config.restarted => w.config.device = w.config.start),
         state # "ReadingCurrent" =>
           w.config.index \in Items /\ (~w.config.restarted => Follows(w.config))
  PROVE  Decided(Submit(w, state), w.client)
<1> DEFINE c == w.client
           g == w.config
           id == NextId(c)
           d == SubmitCall(c, id)
           b == state = "Writing"
           h == [[[g EXCEPT !.request = id] EXCEPT !.writing = b] EXCEPT !.state = state]
           v == Submit(w, state)
<1>1. /\ ServiceWorld(w) /\ c \in Client /\ g \in Operation
      /\ Owes(w)
      /\ ~g.restarted => Told(g)
      /\ FreeId(c) # {} /\ g.op = 0 /\ g.cancels = 0
  BY DEF Submitting, Deciding, ServiceWorld, MaySubmit
<1>2. id \in Ids /\ b \in BOOLEAN
  BY <1>1, NextIdIsFree
<1>3. v = [[w EXCEPT !.client = d] EXCEPT !.config = h]
  BY <1>1 DEF Submit, ServiceWorld
<1>4. SameMoves(d, c) /\ id \in Open(d)
  BY <1>1, <1>2, RequestIs
<1>5. c.state = "Connected" /\ ~c.inTransition
  BY DEF MaySubmit, CanSubmit
<1> HIDE DEF d, id, v, b
<1>6. /\ h \in Operation /\ h.device = g.device /\ h.start = g.start /\ h.index = g.index
      /\ h.items = g.items /\ h.restarted = g.restarted /\ h.verified = g.verified
      /\ h.state = state /\ h.request = id /\ h.op = 0 /\ h.cancels = 0 /\ h.writing = b
  BY <1>1, <1>2 DEF Operation, ConfigurationState
<1> HIDE DEF c, g, h
<1>7. /\ v.config = h /\ v.client = d /\ v.app = w.app /\ DOMAIN v = DOMAIN w
      /\ ServiceWorld(v)
  BY <1>1, <1>3, <1>4, <1>6 DEF ServiceWorld, Hosts, SameMoves
<1>8. Waiting(v)
  <2>1. Asked(d) = Asked(c)
    BY <1>4, SameMovesKeep
  <2>2. Awaiting(d, h) /\ Cancels(h)
    BY <1>4, <1>6 DEF Awaiting, Working, Cancels
  <2>3. Apart(d, h, w.app.pending.op)
    BY <1>1, <1>6, <2>1 DEF Apart, Owes, c
  <2> QED
    BY <1>7, <2>2, <2>3 DEF Waiting
<1>9. Telling(h)
  <2>1. ~h.restarted => Told(h)
    BY <1>1, <1>6 DEF Told
  <2>2. state = "ReadingCurrent" =>
          h.index = 1 /\ ~h.writing /\ (~h.restarted => h.device = h.start)
    BY <1>6 DEF b, g
  <2>3. state # "ReadingCurrent" => h.index \in Items /\ (~h.restarted => Follows(h))
    BY <1>6 DEF Follows, g
  <2> QED
    BY <1>6, <2>1, <2>2, <2>3 DEF Telling
<1>10. ASSUME Free(c)
       PROVE  Line(d, h)
  <2>1. Free(d) /\ ~d.inTransition
    BY <1>4, <1>5, <1>10, SameMovesKeep DEF SameMoves, c
  <2> QED
    BY <1>6, <2>1 DEF Free, Line
<1> QED
  BY <1>7, <1>8, <1>9, <1>10 DEF Decided, v, c

LEMMA InitialReadDecides ==
  ASSUME NEW w, Submitting(w), w.config.index = 1,
         ~w.config.restarted => w.config.device = w.config.start
  PROVE  Decided(SubmitInitialRead(w), w.client)
<1>1. CASE MaySubmit(w)
  BY <1>1, SubmitDecides DEF SubmitInitialRead
<1>2. CASE ~MaySubmit(w)
  BY <1>2, BeginReleaseDecides DEF SubmitInitialRead, Submitting
<1> QED
  BY <1>1, <1>2

LEMMA WriteDecides ==
  ASSUME NEW w, Submitting(w), ~w.config.restarted => Follows(w.config)
  PROVE  Decided(SubmitWrite(w), w.client)
<1>1. Deciding(w)
  BY DEF Submitting
<1>2. CASE w.config.index > Channels
  BY <1>1, <1>2, BeginReleaseDecides DEF SubmitWrite
<1>3. CASE ~(w.config.index > Channels) /\ MaySubmit(w)
  <2>1. w.config.index \in Items
    BY <1>1, <1>3, ConfigurationAssumption DEF Deciding, ServiceWorld, Operation, Items
  <2> QED
    BY <1>3, <2>1, SubmitDecides DEF SubmitWrite
<1>4. CASE ~(w.config.index > Channels) /\ ~MaySubmit(w)
  <2>1. Deciding(Rest(w, "WriteFailed")) /\ Rest(w, "WriteFailed").client = w.client
    BY <1>1, RestDecides
  <2>2. SubmitWrite(w) = BeginRelease(Rest(w, "WriteFailed"))
    BY <1>4 DEF SubmitWrite
  <2> HIDE DEF Rest
  <2> QED
    BY <2>1, <2>2, BeginReleaseDecides
<1> QED
  BY <1>2, <1>3, <1>4

\* The item at hand is what its status will say it is.
FollowsElsewhere(g) ==
  \A i \in Items \ {g.index} :
    /\ i >= g.index => g.verified[i] = g.start[i]
    /\ i < g.index /\ g.items[i] \notin {"WriteFailed", "ReadbackFailed"}
         => g.verified[i] = g.device[i]

LEMMA AdvanceDecides ==
  ASSUME NEW w, Submitting(w), w.config.index \in Items, NEW status \in ItemStatus,
         ~w.config.restarted =>
           /\ FollowsElsewhere(w.config)
           /\ status = "Succeeded" => w.config.device[w.config.index] = Wanted
           /\ \/ status \in {"WriteFailed", "ReadbackFailed"}
              \/ w.config.verified[w.config.index] = w.config.device[w.config.index]
  PROVE  Decided(AdvanceItem(w, status), w.client)
<1> DEFINE g == w.config
           k == g.index
           items == [g.items EXCEPT ![k] = status]
           h == [[g EXCEPT !.items = items] EXCEPT !.index = k + 1]
           next == [w EXCEPT !.config.items[w.config.index] = status, !.config.index = @ + 1]
<1>1. /\ ServiceWorld(w) /\ g \in Operation
      /\ Owes(w)
      /\ CanMove(w.client) => FreeOp(w.client) # {}
      /\ ~g.restarted => Told(g)
      /\ CanSubmit(w.client) /\ w.client.owner = ManualDebug => FreeId(w.client) # {}
      /\ g.op = 0 /\ g.cancels = 0
  BY DEF Submitting, Deciding, ServiceWorld
<1>2. next = [w EXCEPT !.config = h]
  BY <1>1 DEF ServiceWorld, Operation
<1>3. items \in [Items -> ItemStatus] /\ items[k] = status
      /\ \A i \in Items \ {k} : items[i] = g.items[i]
  BY <1>1 DEF Operation
<1>4. k + 1 \in 1..Channels + 1 /\ k \in 1..Channels
  BY ConfigurationAssumption DEF Items
<1> HIDE DEF items, next, k
<1>5. /\ h \in Operation /\ h.device = g.device /\ h.start = g.start /\ h.index = k + 1
      /\ h.items = items /\ h.restarted = g.restarted /\ h.verified = g.verified
      /\ h.op = 0 /\ h.cancels = 0
  BY <1>1, <1>3, <1>4 DEF Operation
<1>6. g.index = k
  BY DEF k
<1> HIDE DEF h
<1>7. ~h.restarted => Told(h)
  <2> SUFFICES ASSUME ~h.restarted, NEW i \in Items
               PROVE  /\ items[i] = "Succeeded" => g.device[i] = Wanted
                      /\ i > k + 1 => g.device[i] = g.start[i]
                      /\ g.device[i] \in {g.start[i], Wanted}
    BY <1>5 DEF Told
  <2>1. /\ g.items[i] = "Succeeded" => g.device[i] = Wanted
        /\ i > k => g.device[i] = g.start[i]
        /\ g.device[i] \in {g.start[i], Wanted}
    BY <1>1, <1>5, <1>6 DEF Told
  <2>2. items[i] = "Succeeded" => g.device[i] = Wanted
    BY <1>3, <1>5, <1>6, <2>1
  <2>3. i > k + 1 => i > k
    BY <1>4, ConfigurationAssumption DEF Items
  <2> QED
    BY <2>1, <2>2, <2>3
<1>8. ~h.restarted => Follows(h)
  <2> SUFFICES ASSUME ~h.restarted, NEW i \in Items
               PROVE  /\ i >= k + 1 => g.verified[i] = g.start[i]
                      /\ i < k + 1 /\ items[i] \notin {"WriteFailed", "ReadbackFailed"}
                           => g.verified[i] = g.device[i]
    BY <1>5 DEF Follows
  <2>1. i # k =>
          /\ i >= k => g.verified[i] = g.start[i]
          /\ i < k /\ g.items[i] \notin {"WriteFailed", "ReadbackFailed"}
               => g.verified[i] = g.device[i]
    BY <1>5, <1>6 DEF FollowsElsewhere
  <2>2. status \in {"WriteFailed", "ReadbackFailed"} \/ g.verified[k] = g.device[k]
    BY <1>5, <1>6
  <2>3. i >= k + 1 => i >= k /\ i # k
    BY <1>4, ConfigurationAssumption DEF Items
  <2>4. i < k + 1 => i < k \/ i = k
    BY <1>4, ConfigurationAssumption DEF Items
  <2>5. i < k => i # k
    BY <1>4, ConfigurationAssumption DEF Items
  <2> QED
    BY <1>3, <2>1, <2>2, <2>3, <2>4, <2>5
<1>9. /\ next.config = h /\ next.client = w.client /\ next.app = w.app
      /\ DOMAIN next = DOMAIN w /\ ServiceWorld(next)
  BY <1>1, <1>2, <1>5 DEF ServiceWorld, Hosts
<1>10. Submitting(next)
  BY <1>1, <1>5, <1>7, <1>9 DEF Submitting, Deciding, Owes
<1>11. AdvanceItem(w, status) = SubmitWrite(next)
  BY <1>1 DEF AdvanceItem, next
<1> QED
  BY <1>8, <1>9, <1>10, <1>11, WriteDecides

LEMMA ReadbackDecides ==
  ASSUME NEW w, Submitting(w), w.config.index \in Items,
         ~w.config.restarted => Follows(w.config)
  PROVE  Decided(SubmitReadback(w), w.client)
<1>1. CASE MaySubmit(w)
  BY <1>1, SubmitDecides DEF SubmitReadback
<1>2. CASE ~MaySubmit(w)
  <2>1. Follows(w.config) => FollowsElsewhere(w.config)
    BY DEF Follows, FollowsElsewhere
  <2>2. "ReadbackFailed" \in ItemStatus
    BY DEF ItemStatus
  <2> QED
    BY <1>2, <2>1, <2>2, AdvanceDecides DEF SubmitReadback
<1> QED
  BY <1>1, <1>2

LEMMA VerifyDecides ==
  ASSUME NEW w, Submitting(w), w.config.index \in Items,
         ~w.config.restarted => Follows(w.config)
  PROVE  Decided(Verify(w), w.client)
<1> DEFINE g == w.config
           k == g.index
<1>1. g \in Operation /\ ServiceWorld(w) /\ (~g.restarted => Told(g)) /\ k \in Items
  BY DEF Submitting, Deciding, ServiceWorld
<1>2. Follows(g) => FollowsElsewhere(g)
  BY DEF Follows, FollowsElsewhere
<1>3. CASE g.device[k] = Wanted
  <2> DEFINE verified == [g.verified EXCEPT ![k] = Wanted]
             h == [g EXCEPT !.verified = verified]
             u == [w EXCEPT !.config.verified[k] = Wanted]
  <2>1. u = [w EXCEPT !.config = h]
    BY <1>1 DEF ServiceWorld, Operation
  <2>2. verified \in Thresholds /\ verified[k] = Wanted
        /\ \A i \in Items \ {k} : verified[i] = g.verified[i]
    BY <1>1 DEF Operation, Thresholds
  <2>3. Verify(w) = AdvanceItem(u, "Succeeded")
    BY <1>3 DEF Verify
  <2> HIDE DEF verified, u
  <2>4. /\ h \in Operation /\ h.device = g.device /\ h.start = g.start /\ h.index = k
        /\ h.items = g.items /\ h.restarted = g.restarted /\ h.verified = verified
        /\ h.op = g.op /\ h.cancels = g.cancels
    BY <1>1, <2>2 DEF Operation
  <2> HIDE DEF h
  <2>5. /\ u.config = h /\ u.client = w.client /\ u.app = w.app /\ DOMAIN u = DOMAIN w
        /\ ServiceWorld(u)
    BY <1>1, <2>1, <2>4 DEF ServiceWorld, Hosts
  <2>6. ~h.restarted => Told(h)
    BY <1>1, <2>4 DEF Told
  <2>7. Submitting(u)
    BY <2>4, <2>5, <2>6 DEF Submitting, Deciding, Owes
  <2>8. ~h.restarted => FollowsElsewhere(h)
    BY <1>2, <2>2, <2>4 DEF FollowsElsewhere
  <2>9. "Succeeded" \in ItemStatus
    BY DEF ItemStatus
  <2> HIDE DEF AdvanceItem
  <2>10. Decided(AdvanceItem(u, "Succeeded"), u.client)
    BY <1>1, <1>3, <2>2, <2>4, <2>5, <2>7, <2>8, <2>9, AdvanceDecides
  <2> QED
    BY <2>3, <2>5, <2>10
<1>4. CASE g.device[k] # Wanted
  <2>1. ~g.restarted => g.verified[k] = g.device[k]
    <3>1. g.index = k /\ k \in Nat
      BY <1>1, ConfigurationAssumption DEF Items
    <3> HIDE DEF k
    <3>2. k >= k
      BY <3>1
    <3> QED
      BY <1>1, <1>4, <3>1, <3>2 DEF Told, Follows
  <2>2. "ReadbackMismatch" \in ItemStatus
    BY DEF ItemStatus
  <2>3. Verify(w) = AdvanceItem(w, "ReadbackMismatch")
    BY <1>4 DEF Verify
  <2> HIDE DEF AdvanceItem
  <2> QED
    BY <1>2, <2>1, <2>2, <2>3, AdvanceDecides
<1> QED
  BY <1>3, <1>4

LEMMA ReadDecides ==
  ASSUME NEW w, Submitting(w), w.config.index = 1,
         ~w.config.restarted => w.config.device = w.config.start
  PROVE  Decided(ReadCurrent(w), w.client)
<1> DEFINE g == w.config
           h == [g EXCEPT !.verified = g.device]
           read == [w EXCEPT !.config.verified = w.config.device]
<1>1. g \in Operation /\ ServiceWorld(w) /\ (~g.restarted => Told(g))
  BY DEF Submitting, Deciding, ServiceWorld
<1>2. read = [w EXCEPT !.config = h]
  BY <1>1 DEF ServiceWorld
<1>3. /\ h \in Operation /\ h.device = g.device /\ h.start = g.start /\ h.index = 1
      /\ h.items = g.items /\ h.restarted = g.restarted /\ h.verified = g.device
      /\ h.op = g.op /\ h.cancels = g.cancels
  BY <1>1 DEF Operation
<1>4. ReadCurrent(w) = BeginRelease(read) \/ ReadCurrent(w) = SubmitWrite(read)
  BY DEF ReadCurrent
<1> HIDE DEF h, read
<1>5. /\ read.config = h /\ read.client = w.client /\ read.app = w.app
      /\ DOMAIN read = DOMAIN w /\ ServiceWorld(read)
  BY <1>1, <1>2, <1>3 DEF ServiceWorld, Hosts
<1>6. ~h.restarted => Told(h)
  BY <1>1, <1>3 DEF Told
<1>7. Submitting(read)
  BY <1>3, <1>5, <1>6 DEF Submitting, Deciding, Owes
<1>8. ~h.restarted => Follows(h)
  <2>1. \A i \in Items : ~(i < 1)
    BY ConfigurationAssumption DEF Items
  <2> QED
    BY <1>3, <2>1 DEF Follows
<1>9. Decided(SubmitWrite(read), w.client)
  BY <1>5, <1>7, <1>8, WriteDecides
<1>10. Decided(BeginRelease(read), w.client)
  BY <1>5, <1>7, BeginReleaseDecides DEF Submitting
<1> QED
  BY <1>4, <1>9, <1>10

-----------------------------------------------------------------------------
(***************************************************************************)
(* The service's slots.                                                    *)
(***************************************************************************)
\* The answer is heard: what was waited for is no longer.
LEMMA HeardDecides ==
  ASSUME NEW w, ServiceWorld(w), Telling(w.config),
         Owes(w),
         CanMove(w.client) => FreeOp(w.client) # {},
         NEW h, h = [w.config EXCEPT !.op = 0] \/ h = [w.config EXCEPT !.request = 0],
         NEW heard, heard = [w EXCEPT !.config = h]
  PROVE  /\ Deciding(heard) /\ heard.client = w.client /\ heard.app = w.app
         /\ heard.config = h /\ Telling(h)
         /\ h.state = w.config.state /\ h.cancels = w.config.cancels
<1> DEFINE g == w.config
<1>1. g \in Operation
  BY DEF ServiceWorld
<1>2. /\ h \in Operation /\ h.device = g.device /\ h.start = g.start /\ h.index = g.index
      /\ h.items = g.items /\ h.restarted = g.restarted /\ h.verified = g.verified
      /\ h.state = g.state /\ h.cancels = g.cancels /\ h.writing = g.writing
  BY <1>1 DEF Operation
<1>3. /\ heard.config = h /\ heard.client = w.client /\ heard.app = w.app
      /\ DOMAIN heard = DOMAIN w /\ ServiceWorld(heard)
  BY <1>2 DEF ServiceWorld, Hosts
<1>4. Telling(h)
  BY <1>2 DEF Telling, Told, Follows
<1> QED
  BY <1>2, <1>3, <1>4 DEF Deciding, Telling, Owes

\* handleControlCompleted.
LEMMA OperationAnsweredDecides ==
  ASSUME NEW w, ServiceWorld(w), NEW c0, Awaiting(c0, w.config), Cancels(w.config),
         Telling(w.config), NEW op \in OpIds, w.config.op = op, NEW ok \in BOOLEAN,
         Owes(w),
         CanMove(w.client) => FreeOp(w.client) # {},
         CanSubmit(w.client) => FreeId(w.client) # {}
  PROVE  LET v == OperationAnswered(w, op, ok)
         IN /\ ServiceWorld(v) /\ Waiting(v) /\ Telling(v.config)
            /\ /\ Free(w.client)
               /\ w.config.state = "ReleasingOwner" =>
                    ~(w.client.owner = ManualDebug /\ w.client.state = "Connected")
               => Line(v.client, v.config)
<1> DEFINE g == w.config
           h == [g EXCEPT !.op = 0]
           heard == [w EXCEPT !.config.op = 0]
           v == OperationAnswered(w, op, ok)
           owned == w.client.owner = ManualDebug
<1>1. g \in Operation /\ op # 0
  BY AppAssumption DEF ServiceWorld
<1>2. heard = [w EXCEPT !.config = h]
  BY DEF ServiceWorld
<1>3. g.state \in {"AcquiringOwner", "Cancelling", "ReleasingOwner"}
  BY <1>1 DEF Awaiting
<1>4. v = IF g.state = "ReleasingOwner" THEN CompleteOperation(heard)
          ELSE IF ~ok \/ ~owned
            THEN IF owned THEN BeginRelease(heard) ELSE CompleteOperation(heard)
          ELSE IF g.cancels > 0 THEN CancelRemaining(heard)
          ELSE SubmitInitialRead(heard)
  BY DEF OperationAnswered
<1> HIDE DEF heard, v
<1>5. h.op = 0
  BY <1>1 DEF Operation
<1>6. /\ Deciding(heard) /\ heard.client = w.client /\ heard.app = w.app
      /\ heard.config = h /\ Telling(h) /\ h.state = g.state /\ h.cancels = g.cancels
  BY <1>2, HeardDecides
<1> HIDE DEF h, g
<1>7. ServiceWorld(heard)
  BY <1>6 DEF Deciding
<1>8. CASE g.state = "ReleasingOwner" \/ ~owned
  <2>1. v = CompleteOperation(heard)
    BY <1>4, <1>8
  <2> QED
    BY <1>6, <1>7, <1>8, <2>1, Completes DEF Owes, v, g
<1>9. CASE g.state # "ReleasingOwner" /\ owned
  <2>1. CASE v = BeginRelease(heard)
    BY <1>6, <2>1, BeginReleaseDecides DEF Decided, v
  <2>2. CASE v = CancelRemaining(heard)
    BY <1>6, <2>2, CancelRemainingDecides DEF Decided, v
  <2>3. CASE ok /\ ~(g.cancels > 0)
    <3>1. g.state = "AcquiringOwner" /\ g.cancels = 0
      BY <1>1, <1>3, <1>9, <2>3, ConfigurationAssumption DEF Cancels, Operation, g
    <3>2. h.index = 1 /\ (~h.restarted => h.device = h.start)
      BY <1>6, <3>1 DEF Telling
    <3>3. Submitting(heard)
      BY <1>5, <1>6, <3>1 DEF Submitting
    <3>4. v = SubmitInitialRead(heard)
      BY <1>4, <1>9, <2>3
    <3> QED
      BY <1>6, <3>2, <3>3, <3>4, InitialReadDecides DEF Decided, v
  <2> QED
    BY <1>4, <1>9, <2>1, <2>2, <2>3
<1> QED
  BY <1>8, <1>9

\* handleRequestCompleted.
LEMMA RequestAnsweredDecides ==
  ASSUME NEW w, ServiceWorld(w), Cancels(w.config), Telling(w.config),
         NEW id \in Ids, w.config.request = id, w.config.op = 0, w.config.state \in Working,
         NEW ok \in BOOLEAN,
         Owes(w),
         CanMove(w.client) => FreeOp(w.client) # {},
         CanSubmit(w.client) /\ w.client.owner = ManualDebug => FreeId(w.client) # {}
  PROVE  Decided(RequestAnswered(w, id, ok), w.client)
<1> DEFINE g == w.config
           h == [g EXCEPT !.request = 0]
           heard == [w EXCEPT !.config.request = 0]
           v == RequestAnswered(w, id, ok)
<1>1. g \in Operation /\ g.cancels \in Nat
  BY ConfigurationAssumption DEF ServiceWorld, Operation
<1>2. heard = [w EXCEPT !.config = h]
  BY DEF ServiceWorld
<1>3. /\ g.cancels > 0 => v = CancelRemaining(heard)
      /\ g.cancels = 0 /\ g.state = "ReadingCurrent" =>
           v = IF ok THEN ReadCurrent(heard) ELSE BeginRelease(heard)
      /\ g.cancels = 0 /\ g.state = "Writing" =>
           v = IF ok THEN SubmitReadback(heard) ELSE AdvanceItem(heard, "WriteFailed")
      /\ g.cancels = 0 /\ g.state = "Verifying" =>
           v = IF ok THEN Verify(heard) ELSE AdvanceItem(heard, "ReadbackFailed")
  <2>1. ~(g.cancels > 0 /\ g.cancels = 0)
    BY <1>1
  <2> DEFINE cancelled == CancelRemaining(heard)
             read == IF ok THEN ReadCurrent(heard) ELSE BeginRelease(heard)
             written == IF ok THEN SubmitReadback(heard) ELSE AdvanceItem(heard, "WriteFailed")
             verified == IF ok THEN Verify(heard) ELSE AdvanceItem(heard, "ReadbackFailed")
  <2>2. v = CASE g.request # id -> w
              [] g.request = id /\ g.cancels > 0 -> cancelled
              [] g.request = id /\ g.cancels = 0 ->
                   CASE g.state = "ReadingCurrent" -> read
                     [] g.state = "Writing" -> written
                     [] g.state = "Verifying" -> verified
    BY DEF RequestAnswered
  <2>3. g.request = id
    OBVIOUS
  <2> HIDE DEF cancelled, read, written, verified, v, g
  <2>4. /\ g.cancels > 0 => v = cancelled
        /\ g.cancels = 0 /\ g.state = "ReadingCurrent" => v = read
        /\ g.cancels = 0 /\ g.state = "Writing" => v = written
        /\ g.cancels = 0 /\ g.state = "Verifying" => v = verified
    BY <2>1, <2>2, <2>3
  <2> QED
    BY <2>4 DEF cancelled, read, written, verified
<1> HIDE DEF heard, v
<1>4. h.op = 0 /\ h.index = g.index
  BY <1>1 DEF Operation
<1>5. /\ Deciding(heard) /\ heard.client = w.client /\ heard.app = w.app
      /\ heard.config = h /\ Telling(h) /\ h.state = g.state /\ h.cancels = g.cancels
  BY <1>2, HeardDecides
<1> HIDE DEF h, g
<1>6. CASE g.cancels > 0
  BY <1>3, <1>5, <1>6, CancelRemainingDecides DEF v
<1>7. CASE ~(g.cancels > 0)
  <2>1. g.cancels = 0 /\ g.state \in {"ReadingCurrent", "Writing", "Verifying"}
    <3>1. g.cancels = 0
      BY <1>1, <1>7
    <3> QED
      BY <3>1 DEF Cancels, Working, g
  <2>2. Submitting(heard)
    BY <1>4, <1>5, <2>1 DEF Submitting
  <2>3. CASE g.state = "ReadingCurrent"
    <3>1. h.index = 1 /\ (~h.restarted => h.device = h.start)
      BY <1>5, <2>3 DEF Telling
    <3>2. v = ReadCurrent(heard) \/ v = BeginRelease(heard)
      BY <1>3, <2>1, <2>3
    <3> QED
      BY <1>5, <2>2, <3>1, <3>2, ReadDecides, BeginReleaseDecides DEF v
  <2>4. CASE g.state \in {"Writing", "Verifying"}
    <3>1. h.index \in Items /\ (~h.restarted => Follows(h))
      BY <1>5, <2>4 DEF Telling
    <3>2. Follows(h) => FollowsElsewhere(h)
      BY DEF Follows, FollowsElsewhere
    <3>3. \/ v = SubmitReadback(heard) \/ v = Verify(heard)
          \/ v = AdvanceItem(heard, "WriteFailed") \/ v = AdvanceItem(heard, "ReadbackFailed")
      BY <1>3, <2>1, <2>4
    <3>4. "WriteFailed" \in ItemStatus /\ "ReadbackFailed" \in ItemStatus
      BY DEF ItemStatus
    <3>5. /\ Decided(AdvanceItem(heard, "WriteFailed"), heard.client)
          /\ Decided(AdvanceItem(heard, "ReadbackFailed"), heard.client)
      BY <1>5, <2>2, <3>1, <3>2, <3>4, AdvanceDecides
    <3>6. Decided(SubmitReadback(heard), heard.client) /\ Decided(Verify(heard), heard.client)
      BY <1>5, <2>2, <3>1, ReadbackDecides, VerifyDecides
    <3> QED
      BY <1>5, <3>3, <3>5, <3>6 DEF v
  <2> QED
    BY <2>1, <2>3, <2>4
<1> QED
  BY <1>6, <1>7

-----------------------------------------------------------------------------
(***************************************************************************)
(* The answers to the operations and the changes of the connection.        *)
(***************************************************************************)
LEMMA AnsweredIs ==
  ASSUME NEW c \in Client, NEW op \in OpIds, NEW ok \in BOOLEAN
  PROVE  /\ ControlAnswered(c, op, ok).owner \in {NoOwner, c.owner}
         /\ ControlAnswered(c, op, ok).inTransition =>
              c.inTransition /\ ~(ok /\ c.asks[op].kind = "Close")
         /\ c.inTransition => \/ ControlAnswered(c, op, ok).inTransition
                              \/ ok /\ c.asks[op].kind = "Close"
         /\ TransitionAnswered(c, op, ok).inTransition = FALSE
<1> DEFINE a == Answered(c, op)
           closed == ok /\ c.asks[op].kind = "Close"
<1>1. a \in Client /\ a.owner = c.owner
  BY AnswerClears DEF Clears
<1>2. a.inTransition = c.inTransition
  BY DEF Answered, Client
<1> HIDE DEF a
<1>3. closed \in BOOLEAN /\ c.inTransition \in BOOLEAN
  BY DEF Client
<1>4. /\ ControlAnswered(c, op, ok).owner = IF closed THEN NoOwner ELSE a.owner
      /\ ControlAnswered(c, op, ok).inTransition = (a.inTransition /\ ~closed)
      /\ TransitionAnswered(c, op, ok).inTransition = FALSE
  BY <1>1 DEF ControlAnswered, TransitionAnswered, Client, a
<1> QED
  BY <1>1, <1>2, <1>3, <1>4

\* An operation answered is no longer one of the client's moves.
LEMMA ClearedMoves ==
  ASSUME NEW c \in Client, NEW op \in OpIds, NEW d, Clears(d, c, op)
  PROVE  /\ Moving(d) = Moving(c) \ {op}
         /\ d.asks[op].kind = "None" /\ d.asks[op].target = NoOwner
         /\ \A other \in OpIds \ {op} : d.asks[other] = c.asks[other]
         /\ Asked(d) = Asked(c) \ {op}
<1>1. /\ d.asks[op] = NoAsk /\ NoAsk.kind = "None" /\ NoAsk.target = NoOwner
      /\ \A other \in OpIds \ {op} : d.asks[other] = c.asks[other]
  BY DEF Clears, Client, NoAsk
<1> QED
  BY <1>1 DEF Moving, Asked, TransitionKind

\* The line is as it was when the connection has been opened or closed.
LEMMA ControlLine ==
  ASSUME NEW c \in Client, NEW op \in OpIds, NEW ok \in BOOLEAN, MayAnswerControl(c, op, ok),
         NEW g, Line(c, g)
  PROVE  Line(ControlAnswered(c, op, ok), g)
<1> DEFINE d == ControlAnswered(c, op, ok)
<1>1. /\ Clears(d, c, op) /\ d.owner \in {NoOwner, c.owner}
      /\ d.inTransition => c.inTransition
      /\ c.inTransition => d.inTransition \/ (ok /\ c.asks[op].kind = "Close")
  BY ControlClears, AnsweredIs
<1> HIDE DEF d
<1>2. d.state = c.state /\ (d.overtaken => c.overtaken)
  BY <1>1 DEF Clears
<1>3. /\ Moving(d) = Moving(c) \ {op} /\ d.asks[op].target = NoOwner
      /\ \A other \in OpIds \ {op} : d.asks[other] = c.asks[other]
  BY <1>1, ClearedMoves
<1>4. op \notin Moving(c)
  BY DEF MayAnswerControl, Moving, TransitionKind
<1>5. OneMove(d)
  <2>1. Moving(d) # {} => d.state = "Connected" /\ d.inTransition
    BY <1>1, <1>2, <1>3 DEF Line, OneMove, MayAnswerControl
  <2> QED
    BY <1>1, <1>2, <1>3, <2>1, OwnersDiffer DEF Line, OneMove
<1>6. \A other \in OpIds : d.asks[other].target = ManualDebug =>
        other = g.op /\ g.state \in {"AcquiringOwner", "Cancelling"}
  BY <1>3, OwnersDiffer DEF Line
<1> QED
  BY <1>1, <1>2, <1>3, <1>4, <1>5, <1>6, OwnersDiffer DEF Line, d

\* A transition that has succeeded is the only one there was.
LEMMA TransitionLine ==
  ASSUME NEW c \in Client, NEW op \in OpIds, NEW ok \in BOOLEAN, ok,
         MayAnswerTransition(c, op, ok), NEW g, Line(c, g)
  PROVE  LET d == TransitionAnswered(c, op, ok)
         IN /\ g.op = op => Free(d)
            /\ g.op = op /\ g.state = "ReleasingOwner" => d.owner # ManualDebug
            /\ g.op # op => Line(d, g)
<1> DEFINE d == TransitionAnswered(c, op, ok)
<1>1. Clears(d, c, op) /\ d.owner = c.asks[op].target /\ d.inTransition = FALSE
  <2>1. Clears(d, c, op) /\ d.owner = c.asks[op].target
    BY TransitionClears
  <2>2. d.inTransition = FALSE
    BY AnsweredIs
  <2> QED
    BY <2>1, <2>2
<1> HIDE DEF d
<1>2. d.state = c.state /\ (d.overtaken => c.overtaken)
  BY <1>1 DEF Clears
<1>3. /\ Moving(d) = Moving(c) \ {op} /\ d.asks[op].target = NoOwner
      /\ \A other \in OpIds \ {op} : d.asks[other] = c.asks[other]
  BY <1>1, ClearedMoves
<1>4. op \in Moving(c)
  BY DEF MayAnswerTransition, Moving
<1>5. Moving(d) = {} /\ c.state = "Connected"
  BY <1>3, <1>4 DEF Line, OneMove
<1>6. OneMove(d)
  BY <1>2, <1>5 DEF Line, OneMove
<1>7. \A other \in OpIds : d.asks[other].target = ManualDebug => other = g.op /\ other # op
  BY <1>3, OwnersDiffer DEF Line
<1>8. d.owner = ManualDebug =>
        g.op = op /\ g.state \in {"AcquiringOwner", "Cancelling"}
  BY <1>1 DEF Line
<1>9. g.op = op => Free(d)
  BY <1>1, <1>6, <1>7 DEF Free
<1>10. g.op # op => Line(d, g)
  <2> SUFFICES ASSUME g.op # op
               PROVE  Line(d, g)
    OBVIOUS
  <2>1. \A other \in OpIds : d.asks[other].target = ManualDebug =>
          other = g.op /\ g.state \in {"AcquiringOwner", "Cancelling"}
    BY <1>3, OwnersDiffer DEF Line
  <2> QED
    BY <1>6, <1>8, <2>1 DEF Line
<1> QED
  BY <1>8, <1>9, <1>10 DEF d

\* The connection changes between two transitions.
LEMMA TurnLine ==
  ASSUME NEW c \in Client, NEW s \in ConnectionState, MayTurn(c, s), NEW g, Line(c, g),
         ~Turned(c, s).overtaken
  PROVE  Line(Turned(c, s), g)
<1> DEFINE d == Turned(c, s)
<1>1. /\ d.asks = c.asks /\ d.state = s
      /\ s \notin {"Faulted", "Disconnected"} => d.owner = c.owner
      /\ s = "Faulted" => \A op \in Asked(c) : c.asks[op].kind = "Open"
      /\ ~d.overtaken
  BY TurnKeeps
<1>2. s \in {"Faulted", "Disconnected"} => d.owner = NoOwner
  BY DEF Turned, Client
<1> HIDE DEF d
<1>3. ~c.overtaken
  BY DEF Line, OneMove
<1>4. s # "Faulted" => c.state \in {"Opening", "Closing"}
  BY <1>3 DEF MayTurn, ConnectionState
<1>5. Moving(c) = {}
  <2>1. s = "Faulted" => Moving(c) = {}
    BY <1>1 DEF Moving, Asked, TransitionKind
  <2>2. s # "Faulted" => Moving(c) = {}
    BY <1>4 DEF Line, OneMove
  <2> QED
    BY <2>1, <2>2
<1>6. Moving(d) = {}
  BY <1>1, <1>5 DEF Moving
<1>7. d.owner = ManualDebug => s = "Closing"
  <2>1. d.owner = ManualDebug => s \notin {"Faulted", "Disconnected"} /\ c.owner = ManualDebug
    BY <1>1, <1>2, OwnersDiffer
  <2>2. c.owner = ManualDebug /\ s # "Faulted" => c.state = "Closing"
    BY <1>4 DEF Line, OneMove
  <2>3. c.state = "Closing" => s \in {"Faulted", "Disconnected", "Closing"}
    BY <1>3 DEF MayTurn
  <2> QED
    BY <2>1, <2>2, <2>3
<1>8. OneMove(d)
  BY <1>1, <1>6, <1>7 DEF OneMove
<1> QED
  BY <1>1, <1>7, <1>8 DEF Line, d

-----------------------------------------------------------------------------
(***************************************************************************)
(* The steps of the other services.                                        *)
(***************************************************************************)
LEMMA ServicesAre ==
  /\ Services.client = client /\ Services.app = app /\ Services.mon = mon
  /\ Services.config = config /\ DOMAIN Services = {"client", "app", "mon", "config"}
BY DEF Services

LEMMA ServicesWith ==
  ASSUME NEW d, NEW h
  PROVE  [[Services EXCEPT !.client = d] EXCEPT !.config = h] =
           [client |-> d, app |-> app, mon |-> mon, config |-> h]
<1> DEFINE u == [Services EXCEPT !.client = d]
           v == [u EXCEPT !.config = h]
           w == [client |-> d, app |-> app, mon |-> mon, config |-> h]
<1>1. /\ DOMAIN u = DOMAIN Services /\ u.client = d /\ u.app = app /\ u.mon = mon
  BY ServicesAre
<1> HIDE DEF u
<1>2. /\ DOMAIN v = DOMAIN Services /\ v.client = d /\ v.app = app /\ v.mon = mon
      /\ v.config = h
  BY <1>1, ServicesAre
<1>3. \A f \in DOMAIN v : v[f] = w[f]
  BY <1>2, ServicesAre
<1>4. v = [f \in DOMAIN v |-> v[f]]
  OBVIOUS
<1> HIDE DEF v
<1>5. DOMAIN v = {"client", "app", "mon", "config"}
  BY <1>2, ServicesAre
<1> QED
  BY <1>3, <1>4, <1>5 DEF u, v

\* The world after a step.
LEMMA Becomes ==
  ASSUME NEW w, ServiceWorld(w), Waiting(w), Telling(w.config), ServicesBecome(w),
         crossed' \in BOOLEAN, MaxCancels <= 1 /\ ~crossed' => Line(w.client, w.config)
  PROVE  CInv'
<1> DEFINE u == [client |-> w.client, app |-> w.app, mon |-> w.mon, config |-> w.config]
<1>1. Services' = u /\ config' = w.config /\ client' = w.client
  BY DEF ServicesBecome, Become, Services
<1>2. /\ u.client = w.client /\ u.app = w.app /\ u.config = w.config
      /\ DOMAIN u = {"client", "app", "mon", "config"}
  OBVIOUS
<1> HIDE DEF u
<1>3. ServiceWorld(u) /\ Waiting(u)
  BY <1>2 DEF ServiceWorld, Hosts, Waiting
<1>4. ServiceWorld(Services)' /\ Waiting(Services)' /\ Telling(config)'
  BY <1>1, <1>3
<1> QED
  BY <1>1, <1>4 DEF CInv

LEMMA UnhurtKeeps ==
  ASSUME CInv, NEW u, Unhurt(u, Services), ServicesBecome(u), UNCHANGED crossed
  PROVE  CInv'
<1>1. /\ ServiceWorld(u) /\ u.config = config /\ Waiting(u) /\ Telling(u.config)
      /\ Line(client, config) => Line(u.client, u.config)
  BY ServicesAre DEF Unhurt, CInv
<1>2. crossed' = crossed /\ crossed \in BOOLEAN
  BY DEF CInv
<1>3. MaxCancels <= 1 /\ ~crossed' => Line(u.client, u.config)
  BY <1>1, <1>2 DEF CInv
<1> QED
  BY <1>1, <1>2, <1>3, Becomes

\* The application and the monitor do not see the service.
LEMMA OthersKeep ==
  ASSUME CInv, NEW v, Become(v), UNCHANGED <<config, crossed>>,
         \/ Still(v, World)
         \/ Revokes(v, World)
         \/ Submits(v, World) /\ FreeId(client) # {}
         \/ (Releases(v, World) \/ Commands(v, World)) /\ FreeOp(client) # {}
  PROVE  CInv'
<1> DEFINE u == [client |-> v.client, app |-> v.app, mon |-> v.mon, config |-> config]
           w == Services
<1>1. /\ u.client = v.client /\ u.app = v.app /\ u.mon = v.mon /\ u.config = config
      /\ DOMAIN u = DOMAIN w /\ w.client = client
  BY ServicesAre
<1>2. Shows(w, World) /\ Shows(u, v)
  BY ServicesAre DEF Shows, World
<1>3. ServicesBecome(u)
  BY <1>1 DEF ServicesBecome, Become
<1>4. ServiceWorld(w) /\ Hosts(w) /\ \A f \in DOMAIN w \ {"client", "app", "mon"} : u[f] = w[f]
  BY <1>1, ServicesAre DEF CInv, ServiceWorld
<1> HIDE DEF u, w
<1>5. \/ Still(u, w)
      \/ Revokes(u, w)
      \/ Submits(u, w) /\ FreeId(w.client) # {}
      \/ (Releases(u, w) \/ Commands(u, w)) /\ FreeOp(w.client) # {}
  BY <1>1, <1>2, <1>4, ShownElsewhere
<1>6. Unhurt(u, w)
  BY <1>4, <1>5, StillUnhurt, RequestsUnhurt, AskUnhurt
<1> QED
  BY <1>3, <1>6, UnhurtKeeps DEF w

LEMMA WorldHosts ==
  ASSUME CInv
  PROVE  Hosts(World) /\ client \in Client
BY DEF CInv, ServiceWorld, Hosts, Services, World

LEMMA UserCommandKeeps ==
  ASSUME CInv, UserCommand, UNCHANGED config
  PROVE  CInv'
<1>1. CanCommand
  BY WorldHosts, UserCommandCalls
<1>2. PICK v : Become(v) /\ UserCalls(v, World)
  BY WorldHosts, UserCommandCalls
<1>3. FreeOp(client) # {} /\ UNCHANGED crossed
  BY <1>1 DEF CanCommand, history
<1> QED
  BY <1>2, <1>3, OthersKeep DEF UserCalls

LEMMA MonitorTaskKeeps ==
  ASSUME CInv, MonitorTask, UNCHANGED config
  PROVE  CInv'
<1>1. /\ Become(BeginBatch(World)) /\ FreeId(client) # {} /\ UNCHANGED crossed
  BY DEF MonitorTask, history
<1>2. Still(BeginBatch(World), World) \/ Submits(BeginBatch(World), World)
  BY WorldHosts, BeginBatchCalls
<1> QED
  BY <1>1, <1>2, OthersKeep

LEMMA TurnKeepsWaiting ==
  ASSUME CInv, NEW s \in ConnectionState, Turn(s), UNCHANGED config
  PROVE  CInv'
<1> DEFINE d == Turned(client, s)
           turned == [client |-> d, app |-> app, mon |-> mon]
           v == IF s = client.state THEN turned ELSE HandleConnectionStateChanged(turned, s)
           w == [client |-> d, app |-> app, mon |-> mon, config |-> config]
           u == [client |-> v.client, app |-> v.app, mon |-> v.mon, config |-> config]
<1>1. [World EXCEPT !.client = d] = turned
  BY DEF World
<1>2. MayTurn(client, s) /\ Become(v) /\ crossed' = (crossed \/ d.overtaken)
  BY <1>1 DEF Turn
<1>3. /\ w.client = d /\ w.app = app /\ w.mon = mon /\ w.config = config
      /\ u.client = v.client /\ u.app = v.app /\ u.mon = v.mon /\ u.config = config
      /\ turned.client = d /\ turned.app = app /\ turned.mon = mon
      /\ DOMAIN w = {"client", "app", "mon", "config"} /\ DOMAIN u = DOMAIN w
      /\ DOMAIN turned = {"client", "app", "mon"}
  OBVIOUS
<1>4. client \in Client /\ Hosts(Services)
  BY WorldHosts DEF CInv, ServiceWorld
<1>5. /\ d \in Client /\ Open(d) = Open(client) /\ d.asks = client.asks
  BY <1>4, TurnKeeps
<1>6. d.overtaken \in BOOLEAN
  BY <1>5 DEF Client
<1> HIDE DEF d, turned, w
<1>7. Hosts(turned) /\ Hosts(w) /\ ServiceWorld(w)
  BY <1>3, <1>4, <1>5, ServicesAre DEF Hosts, ServiceWorld, CInv
<1>8. Still(v, turned)
  <2>1. Still(turned, turned)
    BY <1>7 DEF Still, Beside
  <2> QED
    BY <1>7, <2>1, TurnStill
<1> HIDE DEF v, u
<1>9. Still(u, w)
  <2>1. Shows(w, turned) /\ Shows(u, v)
    BY <1>3 DEF Shows
  <2>2. \A f \in DOMAIN w \ {"client", "app", "mon"} : u[f] = w[f]
    BY <1>3
  <2> QED
    BY <1>3, <1>7, <1>8, <2>1, <2>2, ShownElsewhere
<1>10. Waiting(w)
  <2>1. Asked(d) = Asked(client)
    BY <1>5 DEF Asked
  <2>2. Waiting(Services)
    BY DEF CInv
  <2> QED
    BY <1>3, <1>5, <2>1, <2>2, ServicesAre DEF Waiting, Awaiting, Apart
<1>11. Unhurt(u, w)
  BY <1>7, <1>9, StillUnhurt
<1>12. /\ ServiceWorld(u) /\ Waiting(u) /\ u.config = config
       /\ Line(d, config) => Line(u.client, u.config)
  BY <1>3, <1>10, <1>11 DEF Unhurt
<1>13. MaxCancels <= 1 /\ ~crossed' => Line(u.client, u.config)
  <2>1. MaxCancels <= 1 /\ ~crossed' => Line(client, config) /\ ~d.overtaken
    BY <1>2 DEF CInv
  <2>2. Line(client, config) /\ ~d.overtaken => Line(d, config)
    BY <1>2, <1>4, TurnLine DEF d
  <2> QED
    BY <1>12, <2>1, <2>2
<1>14. crossed' \in BOOLEAN
  BY <1>2, <1>6 DEF CInv
<1>15. ServicesBecome(u)
  BY <1>2, <1>3 DEF ServicesBecome, Become
<1>16. Telling(u.config)
  BY <1>3 DEF CInv
<1> QED
  BY <1>12, <1>13, <1>14, <1>15, <1>16, Becomes

LEMMA RequestStartsKeeps ==
  ASSUME CInv, NEW id \in Ids, RequestStarts(id), UNCHANGED config
  PROVE  CInv'
<1> DEFINE d == Started(client, id)
           u == [client |-> d, app |-> app, mon |-> mon, config |-> config]
           w == Services
<1>1. client' = d /\ UNCHANGED <<app, mon, config, crossed>>
  BY DEF RequestStarts, history
<1>2. client \in Client
  BY WorldHosts
<1>3. SameMoves(d, client) /\ Open(client) \subseteq Open(d)
  BY <1>2, RequestIs
<1>4. /\ u.client = d /\ u.app = app /\ u.mon = mon /\ u.config = config
      /\ DOMAIN u = DOMAIN w
  BY ServicesAre
<1> HIDE DEF d, u
<1>5. ServiceWorld(u) /\ ServiceWorld(w)
  BY <1>3, <1>4, ServicesAre DEF CInv, ServiceWorld, Hosts, SameMoves
<1>6. Asked(d) = Asked(client)
  BY <1>3, SameMovesKeep
<1>7. (Waiting(w) => Waiting(u)) /\ (Owes(w) => Owes(u))
  BY <1>3, <1>4, <1>6, ServicesAre DEF Waiting, Awaiting, Apart, Owes, SameMoves
<1>8. Unhurt(u, w)
  BY <1>3, <1>4, <1>5, <1>7, ServicesAre, SameMovesKeep DEF Unhurt
<1>9. ServicesBecome(u)
  BY <1>1, <1>4 DEF ServicesBecome, Become
<1> QED
  BY <1>1, <1>8, <1>9, UnhurtKeeps DEF w

-----------------------------------------------------------------------------
(***************************************************************************)
(* The steps of the service.                                               *)
(***************************************************************************)
\* What CInv says of the service at work: nobody else has the line.
LEMMA WorkingIsFree ==
  ASSUME NEW c, NEW g, Line(c, g), g.op = 0, g.state # "ReleasingOwner"
  PROVE  Free(c)
BY AppAssumption DEF Line, Free

LEMMA BeginOperationKeeps ==
  ASSUME CInv, BeginOperation
  PROVE  CInv'
<1> DEFINE op == NextOp(client)
           d == MoveCall(client, op, "AcquireOwnership", ManualDebug)
<1>1. PICK command \in ConfigurationCommand, value \in {Factory, Wanted} :
        config' = [NoOperation EXCEPT
                     !.state = "AcquiringOwner", !.command = command, !.op = op,
                     !.device = All(value), !.start = All(value)]
  BY DEF BeginOperation
<1>2. /\ client' = d /\ UNCHANGED <<app, mon, crossed>>
      /\ FreeOp(client) # {} /\ config.state = "Idle" /\ app.pending = NoPending
      /\ CanMove(client) /\ client.owner = NoOwner
  BY DEF BeginOperation, AcquireCall, CanAcquire, Busy, Idle, history
<1> DEFINE thresholds == All(value)
           h == [NoOperation EXCEPT
                   !.state = "AcquiringOwner", !.command = command, !.op = op,
                   !.device = thresholds, !.start = thresholds]
           u == [client |-> d, app |-> app, mon |-> mon, config |-> h]
<1>3. client \in Client /\ Hosts(Services)
  BY WorldHosts DEF CInv, ServiceWorld
<1>4. op \in FreeOp(client) /\ op \in OpIds /\ ManualDebug \in OwnerOrNone
  BY <1>2, OwnersDiffer DEF NextOp, FreeOp, OwnerOrNone
<1>5. thresholds \in Thresholds
  BY DEF All, Thresholds
<1>6. config' = h
  BY <1>1
<1> HIDE DEF op, thresholds
<1>7. h \in Operation
  BY <1>4, <1>5, NothingTyped DEF Operation, ConfigurationState
<1>8. /\ h.state = "AcquiringOwner" /\ h.op = op /\ h.device = thresholds
      /\ h.start = thresholds
      /\ h.request = 0 /\ h.cancels = 0 /\ h.index = 1 /\ h.items = All("Pending")
      /\ h.writing = FALSE
  BY DEF NoOperation
<1>9. /\ d \in Client /\ d.overtaken = client.overtaken
      /\ d.state = client.state /\ d.owner = client.owner
      /\ d.inTransition /\ d.asks[op].kind = "AcquireOwnership"
      /\ d.asks[op].target = ManualDebug
      /\ \A other \in OpIds \ {op} : d.asks[other] = client.asks[other]
  BY <1>3, <1>4, MoveIs DEF TransitionKind
<1> HIDE DEF d, h
<1>10. /\ u.client = d /\ u.app = app /\ u.mon = mon /\ u.config = h
       /\ DOMAIN u = {"client", "app", "mon", "config"}
  OBVIOUS
<1> HIDE DEF u
<1>11. ServiceWorld(u)
  BY <1>3, <1>7, <1>9, <1>10, ServicesAre DEF ServiceWorld, Hosts
<1>12. Waiting(u)
  <2>1. app.pending.op = 0
    BY <1>2 DEF NoPending
  <2>2. Awaiting(d, h) /\ Cancels(h)
    BY <1>4, <1>8, <1>9 DEF Awaiting, Cancels
  <2> QED
    BY <1>10, <2>1, <2>2 DEF Waiting, Apart
<1>13. Telling(h)
  <2>1. Told(h)
    BY <1>8 DEF Told, All
  <2> QED
    BY <1>8, <2>1 DEF Telling
<1>14. MaxCancels <= 1 /\ ~crossed' => Line(d, h)
  <2> SUFFICES ASSUME Line(client, config)
               PROVE  Line(d, h)
    BY <1>2 DEF CInv
  <2>1. Moving(client) = {} /\ client.state = "Connected"
    BY <1>2 DEF Line, OneMove, CanMove
  <2>2. Moving(d) = {op}
    BY <1>4, <1>9, <2>1 DEF Moving, TransitionKind
  <2>3. OneMove(d)
    BY <1>2, <1>9, <2>1, <2>2, OwnersDiffer DEF Line, OneMove
  <2>4. \A other \in OpIds : d.asks[other].target = ManualDebug => other = op
    BY <1>2, <1>9 DEF Line
  <2> QED
    BY <1>2, <1>8, <1>9, <2>3, <2>4, OwnersDiffer DEF Line
<1>15. ServicesBecome(u)
  BY <1>2, <1>6, <1>10 DEF ServicesBecome, Become
<1>16. crossed' \in BOOLEAN
  BY <1>2 DEF CInv
<1> QED
  BY <1>10, <1>11, <1>12, <1>13, <1>14, <1>15, <1>16, Becomes

LEMMA DeviceRestartsKeeps ==
  ASSUME CInv, DeviceRestarts
  PROVE  CInv'
<1> DEFINE g == config
           thresholds == All(Factory)
           h == [[g EXCEPT !.device = thresholds] EXCEPT !.restarted = TRUE]
           u == [client |-> client, app |-> app, mon |-> mon, config |-> h]
<1>1. UNCHANGED <<client, app, mon, crossed>> /\ g \in Operation
  BY ServicesAre DEF DeviceRestarts, appVars, history, CInv, ServiceWorld
<1>2. config' = h
  BY <1>1 DEF DeviceRestarts
<1>3. thresholds \in Thresholds
  BY NothingTyped
<1> HIDE DEF thresholds
<1>4. /\ h \in Operation /\ h.state = g.state /\ h.op = g.op /\ h.request = g.request
      /\ h.cancels = g.cancels /\ h.index = g.index /\ h.writing = g.writing
      /\ h.restarted = TRUE
  BY <1>1, <1>3 DEF Operation
<1> HIDE DEF h
<1>5. /\ u.client = client /\ u.app = app /\ u.mon = mon /\ u.config = h
      /\ DOMAIN u = {"client", "app", "mon", "config"}
  OBVIOUS
<1> HIDE DEF u
<1>6. ServiceWorld(u)
  BY <1>4, <1>5, ServicesAre DEF CInv, ServiceWorld, Hosts
<1>7. Waiting(u)
  BY <1>4, <1>5, ServicesAre DEF CInv, Waiting, Awaiting, Cancels, Apart
<1>8. Telling(h)
  BY <1>4 DEF CInv, Telling
<1>9. Line(client, config) => Line(client, h)
  BY <1>4 DEF Line
<1>10. ServicesBecome(u) /\ crossed' = crossed
  BY <1>1, <1>2, <1>5 DEF ServicesBecome, Become
<1> QED
  BY <1>5, <1>6, <1>7, <1>8, <1>9, <1>10, Becomes DEF CInv

\* cancel.
LEMMA CancelKeeps ==
  ASSUME CInv, Cancel
  PROVE  CInv'
<1> DEFINE g == config
           h == [[g EXCEPT !.cancels = g.cancels + 1] EXCEPT !.state = "Cancelling"]
           w == [Services EXCEPT !.config.cancels = @ + 1, !.config.state = "Cancelling"]
           id == g.request
           revoked == [w EXCEPT !.client = CancelCall(client, id)]
           dropped == [w EXCEPT !.config.request = 0]
<1>1. /\ client \in Client /\ g \in Operation /\ Hosts(Services)
      /\ Awaiting(client, g) /\ Cancels(g) /\ Apart(client, g, app.pending.op)
      /\ ~g.restarted => Told(g)
      /\ MaxCancels <= 1 /\ ~crossed => Line(client, g)
  BY ServicesAre DEF CInv, ServiceWorld, Waiting, Telling
<1>2. /\ g.state \notin {"Idle", "ReleasingOwner"} /\ g.cancels < MaxCancels
      /\ CanMove(client) => FreeOp(client) # {}
      /\ UNCHANGED crossed
      /\ ServicesBecome(
           CASE id # 0 /\ CanCancel(client, id)  -> revoked
             [] id # 0 /\ ~CanCancel(client, id) -> CancelRemaining(dropped)
             [] id = 0 -> IF config.state = "AcquiringOwner" THEN w ELSE CancelRemaining(w))
  BY DEF Cancel, Busy, OpLeft, history
<1>3. /\ id # 0 /\ CanCancel(client, id) => ServicesBecome(revoked)
      /\ id # 0 /\ ~CanCancel(client, id) => ServicesBecome(CancelRemaining(dropped))
      /\ id = 0 /\ config.state = "AcquiringOwner" => ServicesBecome(w)
      /\ id = 0 /\ config.state # "AcquiringOwner" => ServicesBecome(CancelRemaining(w))
  <2> HIDE DEF revoked, dropped, w, id
  <2> QED
    BY <1>2
<1>4. w = [Services EXCEPT !.config = h]
  BY ServicesAre
<1>5. g.cancels + 1 \in 0..MaxCancels /\ g.cancels + 1 > 0
  BY <1>1, <1>2, ConfigurationAssumption DEF Operation
<1>6. /\ h \in Operation /\ h.state = "Cancelling" /\ h.op = g.op /\ h.request = g.request
      /\ h.cancels > 0 /\ h.index = g.index /\ h.items = g.items /\ h.device = g.device
      /\ h.start = g.start /\ h.restarted = g.restarted
  BY <1>1, <1>5 DEF Operation, ConfigurationState
<1> HIDE DEF h, w
<1>7. /\ w.client = client /\ w.app = app /\ w.config = h /\ DOMAIN w = DOMAIN Services
      /\ ServiceWorld(w)
  BY <1>1, <1>4, <1>6, ServicesAre DEF ServiceWorld, Hosts
<1>8. Told(g) => Told(h)
  BY <1>6 DEF Told
<1>9. Telling(h)
  BY <1>1, <1>6, <1>8 DEF Telling
<1>10. Owes(w) /\ Deciding(w)
  BY <1>1, <1>2, <1>6, <1>7, <1>8 DEF Apart, Owes, Deciding
<1>11. Waiting(w)
  <2>1. Awaiting(client, h) /\ Cancels(h)
    BY <1>1, <1>2, <1>6 DEF Awaiting, Cancels, Working
  <2>2. Apart(client, h, app.pending.op)
    BY <1>1, <1>6 DEF Apart
  <2> QED
    BY <1>7, <2>1, <2>2 DEF Waiting
<1>12. Line(client, g) => Line(client, h)
  <2>1. g.state # "AcquiringOwner" /\ g.state # "Cancelling" =>
          \A op \in OpIds : ~(Line(client, g) /\ client.asks[op].target = ManualDebug)
    BY DEF Line
  <2> QED
    BY <1>2, <1>6, <2>1 DEF Line
<1>13. CASE id # 0 /\ CanCancel(client, id)
  <2> DEFINE d == CancelCall(client, id)
  <2>1. id \in Ids
    BY <1>1, <1>13 DEF Operation
  <2>2. SameMoves(d, client) /\ Open(d) = Open(client) /\ d \in Client
    BY <1>1, <2>1, RequestIs DEF SameMoves
  <2>3. revoked = [w EXCEPT !.client = d] /\ ServicesBecome(revoked)
    BY <1>3, <1>13
  <2> HIDE DEF revoked, d, id
  <2>4. /\ revoked.client = d /\ revoked.app = app /\ revoked.config = h
        /\ DOMAIN revoked = DOMAIN Services /\ ServiceWorld(revoked)
    BY <1>7, <2>2, <2>3, ServicesAre DEF ServiceWorld, Hosts
  <2>5. Asked(d) = Asked(client)
    BY <2>2, SameMovesKeep
  <2>6. Waiting(revoked)
    BY <1>7, <1>11, <2>2, <2>4, <2>5 DEF Waiting, Awaiting, Apart, SameMoves
  <2>7. Line(client, g) => Line(d, h)
    BY <1>1, <1>12, <2>2, SameMovesKeep
  <2> QED
    BY <1>1, <1>2, <1>9, <2>3, <2>4, <2>6, <2>7, Becomes DEF CInv
<1>14. CASE id = 0 /\ g.state = "AcquiringOwner"
  BY <1>1, <1>2, <1>3, <1>7, <1>9, <1>11, <1>12, <1>14, Becomes DEF CInv
<1>15. CASE id = 0 /\ g.state # "AcquiringOwner"
  <2> DEFINE v == CancelRemaining(w)
  <2>1. g.state = "Cancelling"
    BY <1>1, <1>2, <1>15, AppAssumption DEF Awaiting, Open, Client, Working
  <2>2. ~(MaxCancels <= 1)
    <3>1. g.cancels > 0
      BY <1>1, <2>1 DEF Cancels
    <3> QED
      BY <1>1, <1>2, <3>1, ConfigurationAssumption DEF Operation
  <2>3. Decided(v, w.client)
    BY <1>10, CancelRemainingDecides
  <2>4. ServicesBecome(v)
    BY <1>3, <1>15
  <2> HIDE DEF v
  <2> QED
    BY <1>2, <2>2, <2>3, <2>4, Becomes DEF CInv, Decided
<1>16. CASE id # 0 /\ ~CanCancel(client, id)
  <2> DEFINE v == CancelRemaining(dropped)
             k == [h EXCEPT !.request = 0]
  <2>1. g.op = 0
    BY <1>1, <1>2, <1>16 DEF Awaiting
  <2>2. dropped = [w EXCEPT !.config = k]
    BY <1>7
  <2> HIDE DEF dropped, k
  <2>3. Deciding(dropped) /\ dropped.client = client
    BY <1>7, <1>9, <1>10, <2>2, HeardDecides DEF Deciding, k
  <2>4. Decided(v, client)
    BY <2>3, CancelRemainingDecides
  <2>5. MaxCancels <= 1 /\ ~crossed => Free(client)
    BY <1>1, <1>2, <2>1, WorkingIsFree
  <2>6. ServicesBecome(v)
    BY <1>3, <1>16 DEF dropped
  <2> HIDE DEF v
  <2> QED
    BY <1>2, <2>4, <2>5, <2>6, Becomes DEF CInv, Decided
<1> QED
  BY <1>13, <1>14, <1>15, <1>16

\* controlCompleted, which the application hears before the service does.
LEMMA ServiceAnswerKeeps ==
  ASSUME CInv, NEW op \in OpIds, ServiceAnswer(op)
  PROVE  CInv'
<1>1. PICK ok \in BOOLEAN :
        \/ /\ MayAnswerControl(client, op, ok)
           /\ AnswerBoth(op, ok, ControlAnswered(client, op, ok))
           /\ UNCHANGED history
        \/ /\ MayAnswerTransition(client, op, ok)
           /\ AnswerBoth(op, ok, TransitionAnswered(client, op, ok))
           /\ crossed' = (crossed \/ ~ok) /\ UNCHANGED faults
  BY DEF ServiceAnswer
<1>2. PICK d :
        /\ AnswerBoth(op, ok, d)
        /\ \/ MayAnswerControl(client, op, ok) /\ d = ControlAnswered(client, op, ok)
              /\ crossed' = crossed
           \/ MayAnswerTransition(client, op, ok) /\ d = TransitionAnswered(client, op, ok)
              /\ crossed' = (crossed \/ ~ok)
  BY <1>1 DEF history
<1> DEFINE g == config
           w == [Services EXCEPT !.client = d]
           heard == HandleControlCompleted(w, op, ok)
           v == OperationAnswered(heard, op, ok)
<1>3. /\ client \in Client /\ g \in Operation /\ Hosts(Services)
      /\ Awaiting(client, g) /\ Cancels(g) /\ Apart(client, g, app.pending.op)
      /\ Telling(g)
      /\ MaxCancels <= 1 /\ ~crossed => Line(client, g)
  BY ServicesAre DEF CInv, ServiceWorld, Waiting
<1>4. Clears(d, client, op) /\ d \in Client
  BY <1>2, <1>3, ControlClears, TransitionClears DEF Clears
<1>5. /\ op \in Asked(client)
      /\ client.asks[op].kind \in TransitionKind \/ MayAnswerControl(client, op, ok)
  BY <1>2 DEF MayAnswerControl, MayAnswerTransition, Asked, TransitionKind
<1>6. CanSubmit(d) => FreeId(d) # {}
  BY <1>2 DEF AnswerBoth
<1>7. ServicesBecome(v)
  BY <1>2 DEF AnswerBoth
<1>8. crossed' \in BOOLEAN
  BY <1>2 DEF CInv
<1>9. /\ w.client = d /\ w.app = app /\ w.config = g /\ DOMAIN w = DOMAIN Services
      /\ ServiceWorld(w)
  BY <1>3, <1>4, ServicesAre DEF ServiceWorld, Hosts
<1> HIDE DEF w
<1>10. Asked(d) = Asked(client) \ {op} /\ FreeOp(d) # {} /\ Open(d) = Open(client)
       /\ \A other \in OpIds \ {op} : d.asks[other] = client.asks[other]
  BY <1>3, <1>4, ClearedMoves DEF Clears
<1>11. CASE g.op = op
  <2>1. heard = w
    BY <1>9, <1>11, <1>3, AppAssumption, OtherAnswerStill DEF Apart
  <2>2. Owes(w)
    BY <1>3, <1>9, <1>10, <1>11 DEF Apart, Owes
  <2>3. client.asks[op].kind \in TransitionKind
    BY <1>3, <1>11, AppAssumption DEF Awaiting, TransitionKind
  <2>4. ~MayAnswerControl(client, op, ok)
    BY <2>3 DEF MayAnswerControl, TransitionKind
  <2>5. MaxCancels <= 1 /\ ~crossed' => Line(client, g) /\ ok
    BY <1>2, <1>3, <2>4
  <2>6. Line(client, g) /\ ok =>
          Free(d) /\ (g.state = "ReleasingOwner" => d.owner # ManualDebug)
    BY <1>2, <1>3, <1>11, <2>4, TransitionLine
  <2>7. v = OperationAnswered(w, op, ok)
    BY <2>1
  <2> HIDE DEF v, heard
  <2>8. /\ ServiceWorld(v) /\ Waiting(v) /\ Telling(v.config)
        /\ /\ Free(d)
           /\ g.state = "ReleasingOwner" => ~(d.owner = ManualDebug /\ d.state = "Connected")
           => Line(v.client, v.config)
    BY <1>3, <1>6, <1>9, <1>10, <1>11, <2>2, <2>7, OperationAnsweredDecides
  <2> QED
    BY <1>7, <1>8, <2>5, <2>6, <2>8, Becomes
<1>12. CASE g.op # op
  <2>1. Awaiting(d, g)
    BY <1>3, <1>10, <1>12 DEF Awaiting
  <2>2. /\ \/ heard = w /\ app.pending.op # op
           \/ Ends(heard, w) \/ Releases(heard, w) \/ Closes(heard, w)
    BY <1>9, ControlCalls DEF ServiceWorld
  <2> HIDE DEF heard
  <2>3. Unhurt(heard, w) /\ Waiting(heard)
    <3>1. CASE heard = w /\ app.pending.op # op
      <4>1. Apart(d, g, app.pending.op)
        BY <1>3, <1>10, <3>1 DEF Apart
      <4>2. Still(w, w)
        BY <1>9 DEF ServiceWorld, Still, Beside
      <4> QED
        BY <1>3, <1>9, <2>1, <3>1, <4>1, <4>2, StillUnhurt DEF Waiting
    <3>2. CASE Ends(heard, w)
      <4>1. Unhurt(heard, w)
        BY <1>9, <3>2, StillUnhurt DEF Ends
      <4>2. heard.app.pending.op = 0 /\ heard.client = d /\ heard.config = g
        BY <1>9, <3>2, <4>1 DEF Ends, Still, Unhurt
      <4> QED
        BY <1>3, <2>1, <4>1, <4>2 DEF Waiting, Apart
    <3>3. CASE Releases(heard, w) \/ Closes(heard, w)
      BY <1>3, <1>9, <1>10, <2>1, <3>3, AskUnhurt
    <3> QED
      BY <2>2, <3>1, <3>2, <3>3
  <2>4. heard.config = g /\ ServiceWorld(heard)
    BY <1>9, <2>3 DEF Unhurt
  <2>5. v = heard
    BY <1>12, <2>4 DEF OperationAnswered
  <2>6. MaxCancels <= 1 /\ ~crossed' => Line(d, g)
    <3>1. CASE MayAnswerControl(client, op, ok) /\ d = ControlAnswered(client, op, ok)
                 /\ crossed' = crossed
      BY <1>3, <3>1, ControlLine
    <3>2. CASE MayAnswerTransition(client, op, ok) /\ d = TransitionAnswered(client, op, ok)
                 /\ crossed' = (crossed \/ ~ok)
      <4>1. MaxCancels <= 1 /\ ~crossed' => Line(client, g) /\ ok
        BY <1>3, <3>2
      <4>2. Line(client, g) /\ ok => Line(d, g)
        BY <1>3, <1>12, <3>2, TransitionLine
      <4> QED
        BY <4>1, <4>2
    <3> QED
      BY <1>2, <3>1, <3>2
  <2>7. Line(d, g) => Line(heard.client, heard.config)
    BY <1>9, <2>3, <2>4 DEF Unhurt
  <2> HIDE DEF v
  <2> QED
    BY <1>3, <1>7, <1>8, <2>3, <2>4, <2>5, <2>6, <2>7, Becomes
<1> QED
  BY <1>11, <1>12

\* requestCompleted, which the monitor hears before the service does.
LEMMA ServiceRequestCompletesKeeps ==
  ASSUME CInv, NEW id \in Ids, ServiceRequestCompletes(id)
  PROVE  CInv'
<1> DEFINE g == config
           d == Completed(client, id)
<1>1. PICK ok \in BOOLEAN, decodes \in BOOLEAN, applied \in BOOLEAN :
        LET done == [Services EXCEPT
                       !.client = d,
                       !.config.device = [i \in Items |->
                         IF applied /\ i = config.index THEN Wanted ELSE @[i]]]
        IN /\ applied => config.request = id /\ config.writing
           /\ ServicesBecome(RequestAnswered(
                HandleRequestCompleted(done, id, ok, decodes), id, ok))
  BY DEF ServiceRequestCompletes
<1>2. (CanMove(client) => FreeOp(client) # {}) /\ UNCHANGED crossed
  BY DEF ServiceRequestCompletes, OpLeft, history
<1> DEFINE device == [i \in Items |->
                        IF applied /\ i = g.index THEN Wanted ELSE g.device[i]]
           h == [g EXCEPT !.device = device]
           done == [client |-> d, app |-> app, mon |-> mon, config |-> h]
           heard == HandleRequestCompleted(done, id, ok, decodes)
           v == RequestAnswered(heard, id, ok)
<1>3. /\ client \in Client /\ g \in Operation /\ Hosts(Services)
      /\ Awaiting(client, g) /\ Cancels(g) /\ Apart(client, g, app.pending.op)
      /\ Telling(g)
      /\ MaxCancels <= 1 /\ ~crossed => Line(client, g)
  BY ServicesAre DEF CInv, ServiceWorld, Waiting
<1>4. [Services EXCEPT
         !.client = d,
         !.config.device = [i \in Items |->
           IF applied /\ i = config.index THEN Wanted ELSE @[i]]] = done
  <2> DEFINE read == [i \in Items |->
                        IF applied /\ i = config.index THEN Wanted
                        ELSE Services.config.device[i]]
  <2>1. read = device
    BY ServicesAre
  <2> HIDE DEF device, d
  <2>2. [Services EXCEPT !.client = d, !.config.device = device] = done
    <3>1. [Services EXCEPT !.client = d, !.config.device = device] =
            [[Services EXCEPT !.client = d] EXCEPT !.config = h]
      BY ServicesAre
    <3>2. [[Services EXCEPT !.client = d] EXCEPT !.config = h] = done
      BY ServicesWith
    <3> QED
      BY <3>1, <3>2
  <2>3. [Services EXCEPT !.client = d, !.config.device = read] = done
    BY <2>1, <2>2
  <2> QED
    BY <2>3
<1>5. (applied => g.request = id /\ g.writing) /\ ServicesBecome(v)
  BY <1>1, <1>4
<1>6. SameMoves(d, client) /\ Open(d) = Open(client) \ {id}
  BY <1>3, RequestIs
<1>7. CanSubmit(d) => FreeId(d) # {}
  BY <1>6 DEF FreeId
<1>8. device \in Thresholds
        /\ \A i \in Items : device[i] = IF applied /\ i = g.index THEN Wanted ELSE g.device[i]
  BY <1>3 DEF Operation, Thresholds
<1> HIDE DEF d, device
<1>9. /\ h \in Operation /\ h.device = device /\ h.start = g.start /\ h.index = g.index
      /\ h.items = g.items /\ h.restarted = g.restarted /\ h.verified = g.verified
      /\ h.state = g.state /\ h.op = g.op /\ h.request = g.request /\ h.cancels = g.cancels
      /\ h.writing = g.writing
  BY <1>3, <1>8 DEF Operation
<1> HIDE DEF h
<1>10. /\ done.client = d /\ done.app = app /\ done.mon = mon /\ done.config = h
       /\ DOMAIN done = {"client", "app", "mon", "config"}
  OBVIOUS
<1> HIDE DEF done
<1>11. ServiceWorld(done)
  BY <1>3, <1>6, <1>9, <1>10, ServicesAre DEF ServiceWorld, Hosts, SameMoves
<1>12. Asked(d) = Asked(client) /\ CanMove(d) = CanMove(client) /\ FreeOp(d) = FreeOp(client)
       /\ (Free(client) => Free(d)) /\ (\A k : Line(client, k) => Line(d, k))
  BY <1>6, SameMovesKeep
<1>13. Owes(done)
  BY <1>3, <1>10, <1>12 DEF Owes, Apart
<1>14. /\ Unhurt(heard, done)
       /\ CanMove(heard.client) => FreeOp(heard.client) # {}
       /\ CanSubmit(heard.client) /\ heard.client.owner = ManualDebug =>
            FreeId(heard.client) # {}
  <2>1. CallsOnce(heard, done)
    BY <1>11, BlockCalls DEF ServiceWorld
  <2> HIDE DEF heard
  <2> QED
    BY <1>2, <1>7, <1>10, <1>11, <1>12, <2>1, CallsUnhurt
<1> HIDE DEF heard
<1>15. ServiceWorld(heard) /\ heard.config = h /\ Owes(heard)
  BY <1>10, <1>13, <1>14 DEF Unhurt
<1>16. CASE g.request = id
  <2>1. g.state \in Working /\ g.op = 0
    BY <1>3, <1>16, AppAssumption DEF Awaiting
  <2>2. Told(g) => Told(h)
    <3> SUFFICES ASSUME Told(g), NEW i \in Items
                 PROVE  /\ h.items[i] = "Succeeded" => h.device[i] = Wanted
                        /\ i > h.index => h.device[i] = h.start[i]
                        /\ h.device[i] \in {h.start[i], Wanted}
      BY DEF Told
    <3>1. /\ g.items[i] = "Succeeded" => g.device[i] = Wanted
          /\ i > g.index => g.device[i] = g.start[i]
          /\ g.device[i] \in {g.start[i], Wanted}
      BY DEF Told
    <3>2. device[i] = g.device[i] \/ (device[i] = Wanted /\ i = g.index)
      BY <1>8
    <3>3. i = g.index => ~(i > g.index)
      BY <1>3, ConfigurationAssumption DEF Items
    <3> QED
      BY <1>9, <3>1, <3>2, <3>3
  <2>3. Follows(g) => Follows(h)
    <3> SUFFICES ASSUME Follows(g), NEW i \in Items
                 PROVE  /\ i >= h.index => h.verified[i] = h.start[i]
                        /\ i < h.index /\ h.items[i] \notin {"WriteFailed", "ReadbackFailed"}
                             => h.verified[i] = h.device[i]
      BY DEF Follows
    <3>1. /\ i >= g.index => g.verified[i] = g.start[i]
          /\ i < g.index /\ g.items[i] \notin {"WriteFailed", "ReadbackFailed"}
               => g.verified[i] = g.device[i]
      BY DEF Follows
    <3>2. i < g.index => i # g.index
      BY <1>3, ConfigurationAssumption DEF Items
    <3>3. i < g.index => device[i] = g.device[i]
      BY <1>8, <3>2
    <3> QED
      BY <1>9, <3>1, <3>3
  <2>4. ~g.writing => device = g.device
    <3> SUFFICES ASSUME ~applied
                 PROVE  device = g.device
      BY <1>5
    <3> QED
      BY <1>3, <1>8 DEF Operation, Thresholds
  <2>5. Telling(h)
    <3>1. ~h.restarted => Told(h)
      BY <1>3, <1>9, <2>2 DEF Telling
    <3>2. h.state \in {"AcquiringOwner", "ReadingCurrent"} =>
            h.index = 1 /\ ~h.writing /\ (~h.restarted => h.device = h.start)
      BY <1>3, <1>9, <2>4 DEF Telling
    <3>3. h.state \in {"Writing", "Verifying"} =>
            h.index \in Items /\ (~h.restarted => Follows(h))
      BY <1>3, <1>9, <2>3 DEF Telling
    <3> QED
      BY <3>1, <3>2, <3>3 DEF Telling
  <2>6. Cancels(h)
    BY <1>3, <1>9 DEF Cancels
  <2>7. Decided(v, heard.client)
    BY <1>9, <1>14, <1>15, <1>16, <2>1, <2>5, <2>6, RequestAnsweredDecides
  <2>8. MaxCancels <= 1 /\ ~crossed => Free(heard.client)
    <3>1. g.state # "ReleasingOwner"
      BY <2>1 DEF Working
    <3>2. MaxCancels <= 1 /\ ~crossed => Free(client)
      BY <1>3, <2>1, <3>1, WorkingIsFree
    <3> QED
      BY <1>10, <1>12, <1>14, <3>2 DEF Unhurt
  <2> HIDE DEF v
  <2> QED
    BY <1>2, <1>5, <2>7, <2>8, Becomes DEF Decided, CInv
<1>17. CASE g.request # id
  <2>1. device = g.device
    BY <1>3, <1>5, <1>8, <1>17 DEF Operation, Thresholds
  <2>2. h = g
    BY <1>3, <2>1 DEF h, Operation
  <2>3. v = heard
    BY <1>15, <1>17, <2>2 DEF RequestAnswered
  <2>4. Waiting(done)
    <3>1. Awaiting(d, g)
      BY <1>3, <1>6, <1>17 DEF Awaiting, SameMoves
    <3> QED
      BY <1>3, <1>10, <1>12, <2>2, <3>1 DEF Waiting, Apart
  <2>5. Waiting(heard) /\ (Line(client, g) => Line(heard.client, heard.config))
    BY <1>10, <1>12, <1>14, <1>15, <2>2, <2>4 DEF Unhurt
  <2> HIDE DEF v
  <2> QED
    BY <1>2, <1>3, <1>5, <1>15, <2>2, <2>3, <2>5, Becomes DEF CInv
<1> QED
  BY <1>16, <1>17

-----------------------------------------------------------------------------
(***************************************************************************)
(* The invariant.                                                          *)
(***************************************************************************)
LEMMA InitCInv == ServicesInit => CInv
<1> SUFFICES ASSUME ServicesInit
             PROVE  CInv
  OBVIOUS
<1>1. NoAsk \in Ask /\ NoAsk.kind = "None" /\ NoAsk.target = NoOwner
  BY DEF NoAsk, Ask, OwnerOrNone
<1>2. /\ client \in Client /\ client.owner = NoOwner /\ client.state = "Disconnected"
      /\ client.overtaken = FALSE
      /\ \A op \in OpIds : client.asks[op].kind = "None" /\ client.asks[op].target = NoOwner
  BY <1>1 DEF ServicesInit, AppInit, ClientInit, Client, ConnectionState, OwnerOrNone
<1>3. /\ app = [state |-> "Disconnected", pending |-> NoPending] /\ config = NoOperation
      /\ DOMAIN NoPending = {"command", "stage", "op"} /\ NoPending.op = 0
  BY DEF ServicesInit, AppInit, NoPending
<1>4. ServiceWorld(Services)
  BY <1>2, <1>3, ServicesAre, NothingTyped DEF ServiceWorld, Hosts
<1>5. crossed \in BOOLEAN
  BY Zenon DEF ServicesInit, AppInit
<1>6. Waiting(Services)
  BY <1>3, ServicesAre DEF Waiting, Awaiting, Cancels, Apart, NoOperation
<1>7. Telling(config)
  BY <1>3 DEF Telling, Told, NoOperation, All
<1>8. Line(client, config)
  BY <1>2, OwnersDiffer DEF Line, OneMove, Moving, TransitionKind
<1> QED
  BY <1>4, <1>5, <1>6, <1>7, <1>8 DEF CInv

LEMMA NextKeeps == CInv /\ [ServicesNext]_serviceVars => CInv'
<1> SUFFICES ASSUME CInv, [ServicesNext]_serviceVars
             PROVE  CInv'
  OBVIOUS
<1>1. CASE UserCommand /\ UNCHANGED config
  BY <1>1, UserCommandKeeps
<1>2. CASE MonitorTask /\ UNCHANGED config
  BY <1>2, MonitorTaskKeeps
<1>3. ASSUME NEW s \in ConnectionState, Turn(s) /\ UNCHANGED config
      PROVE  CInv'
  BY <1>3, TurnKeepsWaiting
<1>4. ASSUME NEW id \in Ids, RequestStarts(id) /\ UNCHANGED config
      PROVE  CInv'
  BY <1>4, RequestStartsKeeps
<1>5. CASE BeginOperation \/ Cancel \/ DeviceRestarts
  BY <1>5, BeginOperationKeeps, CancelKeeps, DeviceRestartsKeeps
<1>6. ASSUME NEW op \in OpIds, ServiceAnswer(op)
      PROVE  CInv'
  BY <1>6, ServiceAnswerKeeps
<1>7. ASSUME NEW id \in Ids, ServiceRequestCompletes(id)
      PROVE  CInv'
  BY <1>7, ServiceRequestCompletesKeeps
<1>8. CASE UNCHANGED serviceVars
  BY <1>8 DEF serviceVars, appVars, history, CInv, Services
<1> QED
  BY <1>1, <1>2, <1>3, <1>4, <1>5, <1>6, <1>7, <1>8 DEF ServicesNext

\* Every state of the services satisfies the invariant: the operation under way, what it
\* has found out and the owner of the line are in step.
THEOREM ConfigurationInvariance == ServicesSpec => []CInv
BY InitCInv, NextKeeps, PTL DEF ServicesSpec

\* An operation always waits for an answer that is still to come, whatever was refused,
\* cancelled, cut off by a fault or lost on the way.
THEOREM ConfigurationNeverHangs == ServicesSpec => []OperationIsAwaited
<1>1. CInv => OperationIsAwaited
  BY ServicesAre, AppAssumption
     DEF CInv, Waiting, Awaiting, Working, OperationIsAwaited, Busy
<1> QED
  BY <1>1, ConfigurationInvariance, PTL

\* What the service reports of an item, and publishes as the thresholds, is what the
\* device has, unless the device has restarted since the operation began.
THEOREM ConfigurationReportsTheDevice == ServicesSpec => []ReportsTheDevice
<1>1. CInv => ReportsTheDevice
  <2> SUFFICES ASSUME CInv, Busy, ~config.restarted, NEW i \in Items
               PROVE  /\ config.items[i] = "Succeeded" => config.device[i] = Wanted
                      /\ i > config.index => config.device[i] = config.start[i]
                      /\ /\ config.state \in {"Writing", "Verifying"}
                         /\ i # config.index
                         /\ config.items[i] \notin {"WriteFailed", "ReadbackFailed"}
                         => config.verified[i] = config.device[i]
    BY DEF ReportsTheDevice
  <2>1. Told(config) /\ config \in Operation
    BY ServicesAre DEF CInv, Telling, ServiceWorld
  <2>2. config.state \in {"Writing", "Verifying"} => Follows(config)
    BY DEF CInv, Telling
  <2>3. config.index \in Nat /\ i \in Nat
    BY <2>1, ConfigurationAssumption DEF Operation, Items
  <2>4. CASE i > config.index
    <3>1. i >= config.index
      BY <2>3, <2>4
    <3> QED
      BY <2>1, <2>2, <2>4, <3>1 DEF Told, Follows
  <2>5. CASE i < config.index
    BY <2>1, <2>2, <2>5 DEF Told, Follows
  <2>6. CASE i = config.index
    BY <2>1, <2>6 DEF Told
  <2> QED
    BY <2>3, <2>4, <2>5, <2>6
<1> QED
  BY <1>1, ConfigurationInvariance, PTL

\* An operation that has ended has given the line back: unless a fault has overtaken an
\* operation of the client, or made one fail, nobody holds it as ManualDebug, or is about
\* to.  It takes one call of cancel() at most during an operation.
THEOREM ConfigurationGivesTheLineBack ==
  ASSUME MaxCancels <= 1
  PROVE  ServicesSpec => []NothingLeftBehind
<1>1. CInv => NothingLeftBehind
  BY DEF CInv, Line, NothingLeftBehind, Busy
<1> QED
  BY <1>1, ConfigurationInvariance, PTL
=============================================================================
