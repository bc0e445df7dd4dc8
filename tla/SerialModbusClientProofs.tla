---------------------- MODULE SerialModbusClientProofs ----------------------
(***************************************************************************)
(* Theorems about SerialModbusClient, for every value of its constants.    *)
(*                                                                         *)
(* A step of the worker thread is a composition of operators on the worker *)
(* record, so each operator has a lemma saying what it preserves, and the  *)
(* lemma of an action cites those of the operators it is composed of.      *)
(*                                                                         *)
(* The first half is about the types and the orders of what is under way,  *)
(* the second about what becomes of a request: it is in one place at a     *)
(* time, it moves in order, and it ends with one result, however many      *)
(* faults, closes and reopens come between.                                *)
(***************************************************************************)
EXTENDS SerialModbusClient, FiniteSetTheorems, TLAPS

-----------------------------------------------------------------------------
(***************************************************************************)
(* Subsequences.                                                           *)
(***************************************************************************)

\* A set of natural numbers that is not empty has a least element.
LEMMA LeastNatural ==
  ASSUME NEW T \in SUBSET Nat, T # {}
  PROVE  \E x \in T : \A y \in T : x <= y
<1>1. IsWellFoundedOn(OpToRel(<, Nat), Nat)
  BY NatLessThanWellFounded
<1>2. PICK x \in T : \A y \in T : <<y, x>> \notin OpToRel(<, Nat)
  BY <1>1, WFMin
<1>3. \A y \in T : ~(y < x)
  BY <1>2 DEF OpToRel
<1> QED
  BY <1>3

\* A set of indices has a k-th element for every k up to its cardinality.
LEMMA KthIndexExists ==
  ASSUME NEW n \in Nat, NEW K \in SUBSET (1..n), NEW k \in 1..Cardinality(K)
  PROVE  \E i \in K : Cardinality({j \in K : j < i}) = k - 1
<1> DEFINE Below(m) == {j \in K : j < m}
           T == {m \in Nat : Cardinality(Below(m)) >= k}
<1>1. IsFiniteSet(K) /\ Cardinality(K) \in Nat
  <2>1. IsFiniteSet(1..n)
    BY FS_Interval
  <2>2. IsFiniteSet(K)
    BY <2>1, FS_Subset
  <2> QED
    BY <2>2, FS_CardinalityType
<1>2. \A m \in Nat : IsFiniteSet(Below(m)) /\ Cardinality(Below(m)) \in Nat
  BY <1>1, FS_Subset, FS_CardinalityType
<1>3. n + 1 \in T
  <2>1. \A j \in K : j \in 1..n /\ j < n + 1
    OBVIOUS
  <2>2. Below(n + 1) = K
    BY <2>1
  <2> QED
    BY <2>2, <1>1
<1>4. PICK m \in T : \A y \in T : m <= y
  <2>1. T \in SUBSET Nat /\ T # {}
    BY <1>3
  <2> HIDE DEF T
  <2> QED
    BY <2>1, LeastNatural
<1>5. m # 0
  <2>1. \A j \in K : j \in 1..n /\ ~(j < 0)
    OBVIOUS
  <2>2. Below(0) = {}
    BY <2>1
  <2>3. Cardinality(Below(0)) = 0
    BY <2>2, FS_EmptySet
  <2> QED
    BY <2>3, <1>4
<1> DEFINE p == m - 1
<1>6. p \in Nat /\ m = p + 1
  BY <1>5
<1>7. Cardinality(Below(m)) >= k /\ Cardinality(Below(p)) \in Nat /\ k \in Nat
  BY <1>1, <1>2, <1>4, <1>6
<1>8. Cardinality(Below(p)) < k
  <2>1. p \notin T
    BY <1>4, <1>6
  <2>2. ~(Cardinality(Below(p)) >= k)
    BY <2>1, <1>6
  <2> HIDE DEF Below, p
  <2> QED
    BY <2>2, <1>7
<1>9. \A j \in K : j \in Nat /\ (j < m <=> (j < p \/ j = p))
  <2>1. \A j \in K : j \in 1..n
    OBVIOUS
  <2> QED
    BY <2>1, <1>6
<1>10. p \in K
  <2> SUFFICES ASSUME p \notin K
               PROVE  FALSE
    OBVIOUS
  <2>1. Below(m) = Below(p)
    BY <1>9
  <2> HIDE DEF Below, p
  <2> QED
    BY <2>1, <1>7, <1>8
<1>11. Cardinality(Below(m)) = Cardinality(Below(p)) + 1
  <2>1. Below(m) = Below(p) \cup {p}
    BY <1>9, <1>10
  <2>2. p \notin Below(p)
    BY <1>6
  <2>3. IsFiniteSet(Below(p))
    BY <1>2, <1>6
  <2> HIDE DEF Below, p
  <2> QED
    BY <2>1, <2>2, <2>3, FS_AddElement
<1>12. Cardinality(Below(p)) = k - 1
  <2> HIDE DEF Below, p
  <2> QED
    BY <1>7, <1>8, <1>11
<1> QED
  BY <1>10, <1>12

\* A subsequence of a sequence over S is a sequence over S.
LEMMA SubsequenceType ==
  ASSUME NEW S, NEW q \in Seq(S), NEW K \in SUBSET DOMAIN q
  PROVE  SubsequenceAt(q, K) \in Seq(S)
<1> DEFINE At(k) == CHOOSE i \in K : Cardinality({j \in K : j < i}) = k - 1
<1>1. Len(q) \in Nat /\ DOMAIN q = 1..Len(q)
  OBVIOUS
<1>2. \A k \in 1..Cardinality(K) : At(k) \in K
  BY <1>1, KthIndexExists
<1>3. Cardinality(K) \in Nat
  <2>1. IsFiniteSet(DOMAIN q)
    BY <1>1, FS_Interval
  <2>2. IsFiniteSet(K)
    BY <2>1, FS_Subset
  <2> QED
    BY <2>2, FS_CardinalityType
<1>4. \A k \in 1..Cardinality(K) : q[At(k)] \in S
  <2>1. \A i \in DOMAIN q : q[i] \in S
    OBVIOUS
  <2> HIDE DEF At
  <2> QED
    BY <1>2, <2>1
<1> HIDE DEF At
<1>5. [k \in 1..Cardinality(K) |-> q[At(k)]] \in Seq(S)
  BY <1>3, <1>4
<1> QED
  BY <1>5 DEF SubsequenceAt, At

-----------------------------------------------------------------------------
(***************************************************************************)
(* Signals.                                                                *)
(***************************************************************************)

\* Each constructor makes a signal of the declared type.
LEMMA SignalTypes ==
  /\ \A s \in ConnectionState : ConnectionSignal(s) \in Signal
  /\ \A op \in OpIds, c \in {"Open", "Close"}, ok \in BOOLEAN :
       ControlSignal(op, c, ok) \in Signal
  /\ \A op \in OpIds, o \in OwnerOrNone, ok \in BOOLEAN :
       OwnershipSignal(op, o, ok) \in Signal
  /\ \A id \in Ids, s \in RequestState \ {"Queued"} : StateSignal(id, s) \in Signal
  /\ \A id \in Ids, s \in TerminalState, from \in Ids \cup {Noise} :
       CompletedSignal(id, s, from) \in Signal
BY DEF ConnectionSignal, ControlSignal, OwnershipSignal, StateSignal,
       CompletedSignal, Signal

LEMMA SignalSequences ==
  \A s, t \in Signal : <<s>> \in Seq(Signal) /\ <<s, t>> \in Seq(Signal)
OBVIOUS

\* v is w but for signals still to be delivered.
Says(w, v) == \E out \in Seq(Signal) : v = [w EXCEPT !.outbox = out]

\* Emitting signals says something and does nothing else.
LEMMA EmitSays ==
  ASSUME NEW w \in Worker, NEW signals \in Seq(Signal)
  PROVE  Says(w, Emit(w, signals))
<1>1. w.outbox \o signals \in Seq(Signal)
  BY DEF Worker
<1> QED
  BY <1>1 DEF Emit, Says

\* finalize() says something and does nothing else.
LEMMA FinalizeSays ==
  ASSUME NEW w \in Worker, NEW q \in Seq(Request), NEW state \in TerminalState,
         NEW from \in Ids \cup {Noise}
  PROVE  Says(w, Finalize(w, q, state, from))
<1> DEFINE signals == [i \in 1 .. 2 * Len(q) |->
             IF i % 2 = 1 THEN StateSignal(q[(i + 1) \div 2].id, state)
                          ELSE CompletedSignal(q[i \div 2].id, state, from)]
<1>1. \A i \in 1..Len(q) : q[i].id \in Ids
  <2>1. \A i \in 1..Len(q) : q[i] \in Request
    OBVIOUS
  <2> QED
    BY <2>1 DEF Request
<1>2. state \in RequestState \ {"Queued"}
  BY DEF RequestState, TerminalState
<1>3. ASSUME NEW i \in 1 .. 2 * Len(q), i % 2 = 1
      PROVE  StateSignal(q[(i + 1) \div 2].id, state) \in Signal
  <2>1. (i + 1) \div 2 \in 1..Len(q)
    BY <1>3
  <2> QED
    BY <2>1, <1>1, <1>2, SignalTypes
<1>4. ASSUME NEW i \in 1 .. 2 * Len(q), i % 2 # 1
      PROVE  CompletedSignal(q[i \div 2].id, state, from) \in Signal
  <2>1. i \div 2 \in 1..Len(q)
    BY <1>4
  <2> QED
    BY <2>1, <1>1, SignalTypes
<1>5. signals \in Seq(Signal)
  <2>1. 2 * Len(q) \in Nat
    OBVIOUS
  <2>2. \A i \in 1 .. 2 * Len(q) : signals[i] \in Signal
    BY <1>3, <1>4
  <2> HIDE DEF signals
  <2>3. signals = [i \in 1 .. 2 * Len(q) |-> signals[i]]
    BY DEF signals
  <2> QED
    BY <2>1, <2>2, <2>3
<1> QED
  BY <1>5, EmitSays DEF Finalize

\* What saying something leaves alone.
LEMMA SaysKeeps ==
  ASSUME NEW w \in Worker, NEW v, Says(w, v)
  PROVE  /\ v \in Worker
         /\ v.state = w.state /\ v.port = w.port /\ v.owner = w.owner
         /\ v.queue = w.queue /\ v.active = w.active /\ v.trans = w.trans
         /\ v.closing = w.closing /\ v.resync = w.resync /\ v.quiet = w.quiet
         /\ v.timer = w.timer /\ v.partial = w.partial /\ v.line = w.line
         /\ v.stopped = w.stopped
BY DEF Says, Worker

-----------------------------------------------------------------------------
(***************************************************************************)
(* The worker's private functions.                                         *)
(***************************************************************************)

\* The part of NeverStalls that holds between any two steps of a handler.
Sound(w) ==
  /\ w \in Worker
  /\ w.active # NoRequest => ~w.resync
  /\ w.resync => w.timer \/ w.stopped

\* A waiting queue has the silence timer to bring it forward.
Armed(w) == MaySend(w) => w.timer

\* A pending transition waits for the request in flight or for silence.
Moving(w) ==
  /\ w.closing # 0 /\ w.state = "Closing" => w.active # NoRequest \/ w.resync
  /\ w.trans # NoTransition /\ w.state = "Connected" => w.active # NoRequest \/ w.resync

Settled(w) == Sound(w) /\ Armed(w) /\ Moving(w)

\* From w to v a frame was sent only if the line was silent in w.
Polite(w, v) == v.line \subseteq w.line \/ w.quiet

\* No request is no request.
LEMMA NoRequestIsNone == NoRequest \notin Request /\ \A id \in Ids : NoRequest.id # id
BY ClientAssumption DEF NoRequest, Request, Ids

\* What the end of the active request leaves behind.
Ended(w, v) ==
  /\ v \in Worker
  /\ v.active = NoRequest /\ v.resync /\ v.timer /\ ~v.quiet
  /\ v.queue = w.queue /\ v.state = w.state /\ v.port = w.port /\ v.owner = w.owner
  /\ v.trans = w.trans /\ v.closing = w.closing /\ v.line = w.line
  /\ v.stopped = w.stopped

LEMMA EndActiveEnds ==
  ASSUME NEW w \in Worker, w.active # NoRequest, NEW state \in TerminalState
  PROVE  Ended(w, EndActive(w, state))
<1> DEFINE ended == [w EXCEPT !.active = NoRequest, !.partial = FALSE, !.resync = TRUE,
                              !.quiet = FALSE, !.timer = TRUE]
<1>1. ended \in Worker /\ Ended(w, ended)
  BY DEF Worker, Ended
<1>2. <<w.active>> \in Seq(Request)
  <2>1. w.active \in Request
    BY DEF Worker
  <2> QED
    BY <2>1
<1> HIDE DEF ended
<1>3. Says(ended, Finalize(ended, <<w.active>>, state, Noise))
  BY <1>1, <1>2, FinalizeSays
<1>4. Ended(w, Finalize(ended, <<w.active>>, state, Noise))
  BY <1>1, <1>3, SaysKeeps DEF Ended
<1> QED
  BY <1>4 DEF EndActive, ended

\* An ended request leaves the worker settled: it waits for silence.
LEMMA EndedSettled ==
  ASSUME NEW w \in Worker, NEW v, Ended(w, v)
  PROVE  Settled(v) /\ Polite(w, v)
BY DEF Ended, Settled, Sound, Armed, Moving, Polite

\* Cancelling queued requests touches the queue only.
LEMMA CancelQueuedKeeps ==
  ASSUME NEW w \in Worker, NEW K \in SUBSET DOMAIN w.queue
  PROVE  LET v == CancelQueued(w, K)
             rest == [w EXCEPT !.queue = SubsequenceAt(w.queue, DOMAIN w.queue \ K)]
         IN rest \in Worker /\ Says(rest, v)
<1> DEFINE rest == [w EXCEPT !.queue = SubsequenceAt(w.queue, DOMAIN w.queue \ K)]
<1>1. w.queue \in Seq(Request)
  BY DEF Worker
<1>2. /\ SubsequenceAt(w.queue, DOMAIN w.queue \ K) \in Seq(Request)
      /\ SubsequenceAt(w.queue, K) \in Seq(Request)
  BY <1>1, SubsequenceType
<1>3. rest \in Worker
  BY <1>2 DEF Worker
<1>4. "Cancelled" \in TerminalState
  BY DEF TerminalState
<1> HIDE DEF rest
<1>5. Says(rest, Finalize(rest, SubsequenceAt(w.queue, K), "Cancelled", Noise))
  BY <1>2, <1>3, <1>4, FinalizeSays
<1> QED
  BY <1>3, <1>5 DEF CancelQueued, rest

\* Silence is not gained inside a handler, except by closing the port.
Hushed(w, v) == v.quiet => w.quiet \/ v.state = "Disconnected"

\* startNext() leaves a request in flight, or a line to be resynchronized.
LEMMA StartNextSettles ==
  ASSUME NEW w \in Worker, MaySend(w), ~w.resync, NEW write \in Writes
  PROVE  LET v == StartNext(w, write)
         IN Settled(v) /\ v.state = w.state /\ (v.quiet => w.quiet)
<1> DEFINE req == Head(w.queue)
           loaded == [w EXCEPT !.active = req, !.queue = Tail(@), !.partial = FALSE]
           sent == Emit(loaded, <<StateSignal(req.id, "InFlight")>>)
           v == StartNext(w, write)
<1>1. w.queue \in Seq(Request) /\ w.queue # <<>>
  BY DEF Worker, MaySend
<1>2. req \in Request /\ Tail(w.queue) \in Seq(Request)
  BY <1>1
<1>3. req.id \in Ids /\ req # NoRequest
  BY <1>2, NoRequestIsNone DEF Request
<1> HIDE DEF req
<1>4. loaded \in Worker
  BY <1>2 DEF Worker
<1>5. <<StateSignal(req.id, "InFlight")>> \in Seq(Signal)
  <2>1. StateSignal(req.id, "InFlight") \in Signal
    BY <1>3, SignalTypes DEF RequestState, TerminalState
  <2> QED
    BY <2>1
<1>6. loaded.active = req /\ loaded.resync = w.resync /\ loaded.state = w.state
      /\ loaded.quiet = w.quiet /\ loaded.trans = w.trans /\ loaded.closing = w.closing
  BY DEF Worker
<1> HIDE DEF loaded
<1>7. Says(loaded, sent)
  BY <1>4, <1>5, EmitSays
<1>8. /\ sent \in Worker /\ sent.active = req /\ ~sent.resync /\ sent.state = w.state
      /\ sent.quiet = w.quiet
  BY <1>4, <1>6, <1>7, SaysKeeps
<1> HIDE DEF sent
<1>9. CASE write = "full"
  <2>1. v = [sent EXCEPT !.line = @ \cup {req.id}]
    BY <1>9 DEF StartNext, sent, loaded, req
  <2>2. /\ v \in Worker /\ v.active = req /\ ~v.resync /\ v.state = w.state
        /\ v.quiet = w.quiet
    <3>1. sent.line \cup {req.id} \in SUBSET Ids
      BY <1>3, <1>8 DEF Worker
    <3> QED
      BY <2>1, <3>1, <1>8 DEF Worker
  <2> HIDE DEF v
  <2>3. Settled(v)
    BY <2>2, <1>3 DEF Settled, Sound, Armed, Moving, MaySend
  <2> QED
    BY <2>2, <2>3 DEF v
<1>10. CASE write # "full"
  <2>1. v = EndActive(sent, "Failed")
    BY <1>10 DEF StartNext, CompleteActiveError, sent, loaded, req
  <2>2. Ended(sent, v)
    BY <2>1, <1>3, <1>8, EndActiveEnds DEF TerminalState
  <2> QED
    BY <2>2, <1>8, EndedSettled DEF Ended
<1> QED
  BY <1>9, <1>10

LEMMA StartNextWhenSilentSettles ==
  ASSUME NEW w, Sound(w), Moving(w), NEW write \in Writes
  PROVE  LET v == StartNextWhenSilent(w, write)
         IN Settled(v) /\ Polite(w, v) /\ Hushed(w, v) /\ v.state = w.state
<1>1. CASE ~MaySend(w)
  BY <1>1 DEF StartNextWhenSilent, Settled, Armed, Polite, Hushed
<1>2. CASE MaySend(w) /\ w.quiet
  <2> DEFINE ready == [w EXCEPT !.resync = FALSE]
  <2>1. ready \in Worker /\ ~ready.resync /\ ready.state = w.state /\ MaySend(ready)
    BY <1>2 DEF Sound, Worker, MaySend
  <2>2. StartNextWhenSilent(w, write) = StartNext(ready, write)
    BY <1>2 DEF StartNextWhenSilent
  <2> HIDE DEF ready
  <2> QED
    BY <2>1, <2>2, <1>2, StartNextSettles DEF Polite, Hushed
<1>3. CASE MaySend(w) /\ ~w.quiet
  <2>1. StartNextWhenSilent(w, write) = [w EXCEPT !.timer = TRUE]
    BY <1>3 DEF StartNextWhenSilent
  <2> QED
    BY <2>1, <1>3 DEF Sound, Worker, Moving, Settled, Armed, Polite, Hushed, MaySend
<1> QED
  BY <1>1, <1>2, <1>3

LEMMA FinishOwnershipTransitionSettles ==
  ASSUME NEW w, Sound(w), w.closing = 0, w.trans # NoTransition, NEW write \in Writes
  PROVE  LET v == FinishOwnershipTransition(w, write)
         IN Settled(v) /\ Polite(w, v) /\ Hushed(w, v) /\ v.state = w.state
<1> DEFINE rest == [w EXCEPT !.trans = NoTransition, !.owner = w.trans.target]
           signals == <<OwnershipSignal(w.trans.op, w.trans.target, TRUE)>>
           told == Emit(rest, signals)
<1>1. w.trans.op \in OpIds /\ w.trans.target \in OwnerOrNone
  BY DEF Sound, Worker, Transition
<1>2. signals \in Seq(Signal)
  <2>1. OwnershipSignal(w.trans.op, w.trans.target, TRUE) \in Signal
    BY <1>1, SignalTypes
  <2> QED
    BY <2>1, SignalSequences
<1>3. rest \in Worker /\ Sound(rest) /\ Moving(rest) /\ rest.quiet = w.quiet
      /\ rest.line = w.line /\ rest.state = w.state
  BY <1>1 DEF Sound, Worker, Moving
<1> HIDE DEF rest, signals
<1>4. Says(rest, told)
  BY <1>2, <1>3, EmitSays
<1>5. Sound(told) /\ Moving(told) /\ told.quiet = w.quiet /\ told.line = w.line
      /\ told.state = w.state
  BY <1>3, <1>4, SaysKeeps DEF Sound, Moving
<1>6. FinishOwnershipTransition(w, write) = StartNextWhenSilent(told, write)
  BY DEF FinishOwnershipTransition, told, rest, signals
<1> HIDE DEF told
<1> QED
  BY <1>5, <1>6, StartNextWhenSilentSettles DEF Polite, Hushed

LEMMA FinishCloseSettles ==
  ASSUME NEW w, Sound(w), w.closing # 0
  PROVE  LET v == FinishClose(w)
         IN Settled(v) /\ Polite(w, v) /\ Hushed(w, v) /\ v.state = "Disconnected"
<1> DEFINE rest == [w EXCEPT !.closing = 0, !.timer = FALSE, !.port = FALSE,
                             !.owner = NoOwner, !.resync = FALSE, !.quiet = TRUE,
                             !.state = "Disconnected"]
           signals == <<ConnectionSignal("Disconnected"),
                        ControlSignal(w.closing, "Close", TRUE)>>
<1>1. rest \in Worker /\ rest.state = "Disconnected" /\ ~rest.resync /\ rest.line = w.line
  BY DEF Sound, Worker, ConnectionState, OwnerOrNone
<1>2. signals \in Seq(Signal)
  <2>1. w.closing \in OpIds
    BY DEF Sound, Worker
  <2>2. ConnectionSignal("Disconnected") \in Signal
        /\ ControlSignal(w.closing, "Close", TRUE) \in Signal
    BY <2>1, SignalTypes DEF ConnectionState
  <2> QED
    BY <2>2, SignalSequences
<1>3. FinishClose(w) = Emit(rest, signals)
  BY DEF FinishClose
<1> HIDE DEF rest, signals
<1>4. Says(rest, FinishClose(w))
  BY <1>1, <1>2, <1>3, EmitSays
<1> QED
  BY <1>1, <1>4, SaysKeeps DEF Settled, Sound, Armed, Moving, MaySend, Polite, Hushed

\* After maybeCompleteTransition() no transition waits on nothing.
LEMMA MaybeCompleteTransitionMoves ==
  ASSUME NEW w, Sound(w), NEW write \in Writes
  PROVE  LET v == MaybeCompleteTransition(w, write)
         IN /\ Sound(v) /\ Moving(v) /\ (Armed(w) => Armed(v))
            /\ Polite(w, v) /\ Hushed(w, v) /\ v.state \in {w.state, "Disconnected"}
<1> DEFINE v == MaybeCompleteTransition(w, write)
<1>1. CASE w.active # NoRequest \/ w.resync \/ w.state = "Faulted"
  <2>1. v = w
    BY <1>1 DEF MaybeCompleteTransition
  <2> QED
    BY <2>1, <1>1 DEF Moving, Polite, Hushed
<1>2. CASE ~(w.active # NoRequest \/ w.resync \/ w.state = "Faulted")
  <2>1. CASE w.closing # 0
    <3>1. v = FinishClose(w)
      BY <1>2, <2>1 DEF MaybeCompleteTransition
    <3> QED
      BY <3>1, <2>1, FinishCloseSettles DEF Settled
  <2>2. CASE w.closing = 0 /\ w.trans # NoTransition
    <3>1. v = FinishOwnershipTransition(w, write)
      BY <1>2, <2>2 DEF MaybeCompleteTransition
    <3> QED
      BY <3>1, <2>2, FinishOwnershipTransitionSettles DEF Settled
  <2>3. CASE w.closing = 0 /\ w.trans = NoTransition
    <3>1. v = w
      BY <1>2, <2>3 DEF MaybeCompleteTransition
    <3> QED
      BY <3>1, <2>3 DEF Moving, Polite, Hushed
  <2> QED
    BY <2>1, <2>2, <2>3
<1> QED
  BY <1>1, <1>2

\* The tail that completeActiveSuccess() and onSilenceElapsed() share.
LEMMA CompleteThenStartSettles ==
  ASSUME NEW w, Sound(w), NEW write \in Writes
  PROVE  LET v == StartNextWhenSilent(MaybeCompleteTransition(w, write), write)
         IN Settled(v) /\ Polite(w, v)
<1> DEFINE u == MaybeCompleteTransition(w, write)
           v == StartNextWhenSilent(u, write)
<1>1. Sound(u) /\ Moving(u) /\ Polite(w, u) /\ Hushed(w, u)
  BY MaybeCompleteTransitionMoves
<1> HIDE DEF u
<1>2. Settled(v) /\ Polite(u, v)
  BY <1>1, StartNextWhenSilentSettles
<1>3. u.state = "Disconnected" => v = u
  BY DEF StartNextWhenSilent, MaySend
<1> QED
  BY <1>1, <1>2, <1>3 DEF Polite, Hushed, u

LEMMA CompleteActiveSuccessSettles ==
  ASSUME NEW w, Sound(w), w.active # NoRequest, NEW from \in Ids, NEW write \in Writes
  PROVE  LET v == CompleteActiveSuccess(w, from, write)
         IN Settled(v) /\ Polite(w, v)
<1> DEFINE rest == [w EXCEPT !.active = NoRequest, !.partial = FALSE]
           told == Finalize(rest, <<w.active>>, "Succeeded", from)
<1>1. rest \in Worker /\ Sound(rest) /\ rest.line = w.line /\ rest.quiet = w.quiet
  BY DEF Sound, Worker
<1>2. <<w.active>> \in Seq(Request)
  <2>1. w.active \in Request
    BY DEF Sound, Worker
  <2> QED
    BY <2>1
<1> HIDE DEF rest
<1>3. Says(rest, told)
  BY <1>1, <1>2, FinalizeSays DEF TerminalState
<1>4. Sound(told) /\ told.line = w.line /\ told.quiet = w.quiet
  BY <1>1, <1>3, SaysKeeps DEF Sound
<1>5. CompleteActiveSuccess(w, from, write)
        = StartNextWhenSilent(MaybeCompleteTransition(told, write), write)
  BY DEF CompleteActiveSuccess, told, rest
<1> HIDE DEF told
<1> QED
  BY <1>4, <1>5, CompleteThenStartSettles DEF Polite

-----------------------------------------------------------------------------
(***************************************************************************)
(* The worker's slots: each leaves a settled worker settled.               *)
(***************************************************************************)
LEMMA WorkerOpenSettles ==
  ASSUME NEW w, Settled(w), NEW op \in OpIds, NEW outcome \in OpenOutcomes(w)
  PROVE  LET v == WorkerOpen(w, op, outcome) IN Settled(v) /\ Polite(w, v)
<1> DEFINE up == [w EXCEPT !.queue = <<>>, !.active = NoRequest, !.partial = FALSE,
                           !.owner = NoOwner, !.resync = TRUE, !.quiet = FALSE,
                           !.timer = TRUE, !.port = TRUE, !.state = "Connected"]
           down == [w EXCEPT !.state = "Faulted",
                             !.port = IF outcome = "failed" THEN FALSE ELSE @]
           news(s, ok) == <<ConnectionSignal(s), ControlSignal(op, "Open", ok)>>
<1>1. \A s \in ConnectionState, ok \in BOOLEAN : news(s, ok) \in Seq(Signal)
  BY SignalTypes, SignalSequences
<1>2. "Connected" \in ConnectionState /\ "Faulted" \in ConnectionState
  BY DEF ConnectionState
<1>3. up \in Worker /\ Settled(up) /\ up.line = w.line
  <2>1. <<>> \in Seq(Request)
    OBVIOUS
  <2>2. up \in Worker
    BY <1>2, <2>1 DEF Settled, Sound, Worker, OwnerOrNone
  <2>3. up.active = NoRequest /\ up.resync /\ up.timer /\ up.line = w.line
    BY DEF Settled, Sound, Worker
  <2> HIDE DEF up
  <2> QED
    BY <2>2, <2>3 DEF Settled, Sound, Armed, Moving
<1>4. down \in Worker /\ Settled(down) /\ down.line = w.line
  BY <1>2 DEF Settled, Sound, Armed, Moving, MaySend, Worker
<1> HIDE DEF up, down, news
<1>5. CASE outcome = "ok"
  <2>1. WorkerOpen(w, op, outcome) = Emit(up, news("Connected", TRUE))
    BY <1>5 DEF WorkerOpen, up, news
  <2>2. Says(up, WorkerOpen(w, op, outcome))
    BY <2>1, <1>1, <1>2, <1>3, EmitSays
  <2> QED
    BY <2>2, <1>3, SaysKeeps DEF Settled, Sound, Armed, Moving, MaySend, Polite
<1>6. CASE outcome # "ok"
  <2>1. WorkerOpen(w, op, outcome) = Emit(down, news("Faulted", FALSE))
    BY <1>6 DEF WorkerOpen, down, news
  <2>2. Says(down, WorkerOpen(w, op, outcome))
    BY <2>1, <1>1, <1>2, <1>4, EmitSays
  <2> QED
    BY <2>2, <1>4, SaysKeeps DEF Settled, Sound, Armed, Moving, MaySend, Polite
<1> QED
  BY <1>5, <1>6

\* Requests waiting in the queue are cancelled; the active one as asked.
LEMMA WorkerCloseSettles ==
  ASSUME NEW w, Settled(w), NEW op \in OpIds, NEW mode, NEW write \in Writes
  PROVE  LET v == WorkerClose(w, op, mode, write) IN Settled(v) /\ Polite(w, v)
<1> DEFINE closing == [w EXCEPT !.closing = op, !.state = "Closing"]
           told == Emit(closing, <<ConnectionSignal("Closing")>>)
           flushed == CancelQueued(told, DOMAIN w.queue)
           ended == IF w.active # NoRequest /\ mode = "CancelAll"
                      THEN CompleteActiveCancelled(flushed) ELSE flushed
<1>1. "Closing" \in ConnectionState /\ "Closing" # "Connected"
  BY DEF ConnectionState
<1>2. closing \in Worker /\ Sound(closing) /\ closing.state = "Closing"
      /\ closing.line = w.line /\ closing.quiet = w.quiet /\ closing.active = w.active
      /\ closing.queue = w.queue
  BY <1>1 DEF Settled, Sound, Worker
<1>3. <<ConnectionSignal("Closing")>> \in Seq(Signal)
  BY <1>1, SignalTypes, SignalSequences
<1> HIDE DEF closing
<1>4. Says(closing, told)
  BY <1>2, <1>3, EmitSays
<1>5. told \in Worker /\ Sound(told) /\ told.state = "Closing"
      /\ told.line = w.line /\ told.quiet = w.quiet /\ told.active = w.active
      /\ told.queue = w.queue
  BY <1>2, <1>4, SaysKeeps DEF Sound
<1> HIDE DEF told
<1>6. flushed \in Worker /\ Sound(flushed) /\ flushed.state = "Closing"
      /\ flushed.line = w.line /\ flushed.quiet = w.quiet /\ flushed.active = w.active
  <2> DEFINE rest == [told EXCEPT !.queue = SubsequenceAt(told.queue,
                                               DOMAIN told.queue \ DOMAIN w.queue)]
  <2>1. rest \in Worker /\ Says(rest, flushed)
    BY <1>5, CancelQueuedKeeps
  <2>2. Sound(rest) /\ rest.state = "Closing" /\ rest.line = w.line
        /\ rest.quiet = w.quiet /\ rest.active = w.active
    BY <1>5, <2>1 DEF Sound, Worker
  <2> HIDE DEF rest, flushed
  <2> QED
    BY <2>1, <2>2, SaysKeeps DEF Sound
<1> HIDE DEF flushed
<1>7. Sound(ended) /\ Armed(ended) /\ Polite(w, ended) /\ (ended.quiet => w.quiet)
  <2>1. CASE w.active # NoRequest /\ mode = "CancelAll"
    <3>1. Ended(flushed, ended)
      BY <2>1, <1>6, EndActiveEnds DEF CompleteActiveCancelled, TerminalState
    <3> QED
      BY <3>1, <1>6, EndedSettled DEF Settled, Polite, Ended
  <2>2. CASE ~(w.active # NoRequest /\ mode = "CancelAll")
    BY <2>2, <1>1, <1>6 DEF Armed, MaySend, Polite
  <2> QED
    BY <2>1, <2>2
<1>8. WorkerClose(w, op, mode, write) = MaybeCompleteTransition(ended, write)
  BY DEF WorkerClose, ended, flushed, told, closing
<1> HIDE DEF ended
<1> QED
  BY <1>7, <1>8, MaybeCompleteTransitionMoves DEF Settled, Polite

LEMMA HandOverSettles ==
  ASSUME NEW w, Settled(w), NEW op \in OpIds, NEW o, NEW target \in OwnerOrNone,
         NEW mode, NEW write \in Writes
  PROVE  LET v == HandOver(w, op, o, target, mode, write) IN Settled(v) /\ Polite(w, v)
<1> DEFINE due == [w EXCEPT !.trans = [op |-> op, target |-> target]]
           waiting == CancelQueuedByOwner(due, o)
           ended == IF w.active # NoRequest /\ w.active.owner = o /\ mode = "CancelInFlight"
                      THEN CompleteActiveCancelled(waiting) ELSE waiting
<1>1. [op |-> op, target |-> target] \in Transition
      /\ [op |-> op, target |-> target] # NoTransition
  BY ClientAssumption DEF Transition, NoTransition, OpIds
<1>2. due \in Worker /\ Sound(due) /\ due.trans # NoTransition /\ due.line = w.line
      /\ due.quiet = w.quiet /\ due.active = w.active
  BY <1>1 DEF Settled, Sound, Worker
<1> HIDE DEF due
<1>3. waiting \in Worker /\ Sound(waiting) /\ waiting.trans # NoTransition
      /\ waiting.line = w.line /\ waiting.quiet = w.quiet /\ waiting.active = w.active
  <2> DEFINE K == IndicesOfOwner(due.queue, o)
             rest == [due EXCEPT !.queue = SubsequenceAt(due.queue, DOMAIN due.queue \ K)]
  <2>1. K \in SUBSET DOMAIN due.queue
    BY DEF IndicesOfOwner
  <2> HIDE DEF K
  <2>2. rest \in Worker /\ Says(rest, CancelQueued(due, K))
    BY <1>2, <2>1, CancelQueuedKeeps
  <2>3. Sound(rest) /\ rest.trans # NoTransition /\ rest.line = w.line
        /\ rest.quiet = w.quiet /\ rest.active = w.active
    BY <1>2, <2>2 DEF Sound, Worker
  <2>4. waiting = CancelQueued(due, K)
    BY DEF CancelQueuedByOwner, K
  <2> HIDE DEF rest, waiting
  <2> QED
    BY <2>2, <2>3, <2>4, SaysKeeps DEF Sound
<1> HIDE DEF waiting
<1>4. Sound(ended) /\ Armed(ended) /\ Polite(w, ended) /\ (ended.quiet => w.quiet)
  <2>1. CASE w.active # NoRequest /\ w.active.owner = o /\ mode = "CancelInFlight"
    <3>1. Ended(waiting, ended)
      BY <2>1, <1>3, EndActiveEnds DEF CompleteActiveCancelled, TerminalState
    <3> QED
      BY <3>1, <1>3, EndedSettled DEF Settled, Polite, Ended
  <2>2. CASE ~(w.active # NoRequest /\ w.active.owner = o /\ mode = "CancelInFlight")
    BY <2>2, <1>3 DEF Armed, MaySend, Polite
  <2> QED
    BY <2>1, <2>2
<1>5. HandOver(w, op, o, target, mode, write) = MaybeCompleteTransition(ended, write)
  BY DEF HandOver, ended, waiting, due
<1> HIDE DEF ended
<1> QED
  BY <1>4, <1>5, MaybeCompleteTransitionMoves DEF Settled, Polite

LEMMA WorkerAcquireSettles ==
  ASSUME NEW w, Settled(w), NEW op \in OpIds, NEW o \in Owners, NEW mode,
         NEW write \in Writes
  PROVE  LET v == WorkerAcquire(w, op, o, mode, write) IN Settled(v) /\ Polite(w, v)
<1>1. CASE w.owner \in {NoOwner, o}
  <2> DEFINE rest == [w EXCEPT !.owner = o]
  <2>1. rest \in Worker /\ Settled(rest) /\ rest.line = w.line
    BY DEF Settled, Sound, Armed, Moving, MaySend, Worker, OwnerOrNone
  <2>2. <<OwnershipSignal(op, o, TRUE)>> \in Seq(Signal)
    BY SignalTypes, SignalSequences DEF OwnerOrNone
  <2>3. WorkerAcquire(w, op, o, mode, write) = Emit(rest, <<OwnershipSignal(op, o, TRUE)>>)
    BY <1>1 DEF WorkerAcquire
  <2> HIDE DEF rest
  <2>4. Says(rest, WorkerAcquire(w, op, o, mode, write))
    BY <2>1, <2>2, <2>3, EmitSays
  <2> QED
    BY <2>1, <2>4, SaysKeeps DEF Settled, Sound, Armed, Moving, MaySend, Polite
<1>2. CASE w.owner \notin {NoOwner, o}
  BY <1>2, HandOverSettles DEF WorkerAcquire, OwnerOrNone
<1> QED
  BY <1>1, <1>2

LEMMA WorkerEnqueueSettles ==
  ASSUME NEW w, Settled(w), NEW req \in Request, NEW write \in Writes
  PROVE  LET v == WorkerEnqueue(w, req, write) IN Settled(v) /\ Polite(w, v)
<1>1. CASE w.state # "Connected" \/ w.trans # NoTransition \/ w.closing # 0
  <2>1. Says(w, WorkerEnqueue(w, req, write))
    <3>1. <<req>> \in Seq(Request)
      OBVIOUS
    <3> QED
      BY <3>1, <1>1, FinalizeSays DEF WorkerEnqueue, Settled, Sound, TerminalState
  <2> QED
    BY <2>1, SaysKeeps DEF Settled, Sound, Armed, Moving, MaySend, Polite
<1>2. CASE ~(w.state # "Connected" \/ w.trans # NoTransition \/ w.closing # 0)
  <2> DEFINE longer == [w EXCEPT !.queue = Append(@, req)]
  <2>1. Append(w.queue, req) \in Seq(Request)
    BY DEF Settled, Sound, Worker
  <2>2. Sound(longer) /\ Moving(longer) /\ longer.line = w.line /\ longer.quiet = w.quiet
    BY <2>1, <1>2 DEF Settled, Sound, Moving, Worker
  <2>3. WorkerEnqueue(w, req, write) = StartNextWhenSilent(longer, write)
    BY <1>2 DEF WorkerEnqueue
  <2> HIDE DEF longer
  <2> QED
    BY <2>2, <2>3, StartNextWhenSilentSettles DEF Polite
<1> QED
  BY <1>1, <1>2

LEMMA WorkerCancelSettles ==
  ASSUME NEW w, Settled(w), NEW id \in Ids
  PROVE  LET v == WorkerCancel(w, id) IN Settled(v) /\ Polite(w, v)
<1> DEFINE K == IndicesOfId(w.queue, id)
<1>1. CASE K # {}
  <2> DEFINE rest == [w EXCEPT !.queue = SubsequenceAt(w.queue, DOMAIN w.queue \ K)]
  <2>1. K \in SUBSET DOMAIN w.queue
    BY DEF IndicesOfId
  <2>2. WorkerCancel(w, id) = CancelQueued(w, K)
    BY <1>1 DEF WorkerCancel
  <2>3. w.queue # <<>>
    BY <1>1 DEF IndicesOfId
  <2> HIDE DEF K
  <2>4. rest \in Worker /\ Says(rest, WorkerCancel(w, id))
    BY <2>1, <2>2, CancelQueuedKeeps DEF Settled, Sound
  <2>5. Settled(rest) /\ rest.line = w.line
    BY <2>3, <2>4 DEF Settled, Sound, Armed, Moving, MaySend, Worker
  <2> HIDE DEF rest
  <2> QED
    BY <2>4, <2>5, SaysKeeps DEF Settled, Sound, Armed, Moving, MaySend, Polite
<1>2. CASE K = {} /\ w.active.id = id
  <2>1. w.active # NoRequest
    BY <1>2, NoRequestIsNone
  <2>2. WorkerCancel(w, id) = EndActive(w, "Cancelled")
    BY <1>2 DEF WorkerCancel, CompleteActiveCancelled
  <2>3. Ended(w, WorkerCancel(w, id))
    BY <2>1, <2>2, EndActiveEnds DEF Settled, Sound, TerminalState
  <2> QED
    BY <2>3, EndedSettled DEF Settled, Sound
<1>3. CASE K = {} /\ w.active.id # id
  BY <1>3 DEF WorkerCancel, Polite
<1> QED
  BY <1>1, <1>2, <1>3

LEMMA WorkerShutdownSettles ==
  ASSUME NEW w, Settled(w)
  PROVE  Settled(WorkerShutdown(w)) /\ Polite(w, WorkerShutdown(w))
<1> DEFINE v == WorkerShutdown(w)
<1>1. v \in Worker
  <2>1. <<>> \in Seq(Request)
    OBVIOUS
  <2> QED
    BY <2>1 DEF WorkerShutdown, Settled, Sound, Worker, ConnectionState, OwnerOrNone
<1>2. v.active = NoRequest /\ v.stopped /\ v.state = "Disconnected" /\ v.line = w.line
  BY DEF WorkerShutdown, Settled, Sound, Worker
<1> HIDE DEF v
<1>3. Settled(v) /\ Polite(w, v)
  BY <1>1, <1>2 DEF Settled, Sound, Armed, Moving, MaySend, Polite
<1> QED
  BY <1>3 DEF v

\* Whatever command comes next, the worker settles.
LEMMA ExecuteSettles ==
  ASSUME NEW c \in Command, NEW w, Settled(w), NEW write \in Writes,
         NEW outcome \in OpenOutcomes(w)
  PROVE  LET v == Execute(c, w, write, outcome) IN Settled(v) /\ Polite(w, v)
<1>1. CASE c.kind = "open"
  BY <1>1, WorkerOpenSettles DEF Execute, Command
<1>2. CASE c.kind = "close"
  BY <1>2, WorkerCloseSettles DEF Execute, Command
<1>3. CASE c.kind = "acquire"
  BY <1>3, WorkerAcquireSettles DEF Execute, Command
<1>4. CASE c.kind = "release"
  BY <1>4, HandOverSettles DEF Execute, Command, WorkerRelease, OwnerOrNone
<1>5. CASE c.kind = "enqueue"
  BY <1>5, WorkerEnqueueSettles DEF Execute, Command
<1>6. CASE c.kind = "cancel"
  BY <1>6, WorkerCancelSettles DEF Execute, Command
<1>7. CASE c.kind = "shutdown"
  BY <1>7, WorkerShutdownSettles DEF Execute, Command
<1> QED
  BY <1>1, <1>2, <1>3, <1>4, <1>5, <1>6, <1>7 DEF Command

-----------------------------------------------------------------------------
(***************************************************************************)
(* The facade's count of queued requests.                                  *)
(***************************************************************************)
QueuedIn(r) == {id \in Ids : r[id] = "Queued"}

LEMMA QueuedFinite ==
  ASSUME NEW r
  PROVE  IsFiniteSet(QueuedIn(r)) /\ Cardinality(QueuedIn(r)) \in Nat
<1>1. IsFiniteSet(Ids)
  BY ClientAssumption, FS_Interval DEF Ids
<1>2. QueuedIn(r) \in SUBSET Ids
  BY DEF QueuedIn
<1>3. IsFiniteSet(QueuedIn(r))
  BY <1>1, <1>2, FS_Subset
<1> QED
  BY <1>3, FS_CardinalityType

\* A request that becomes Queued is counted once more, one that stops being
\* Queued once less, and any other change is not counted.
LEMMA QueuedChange ==
  ASSUME NEW r \in [Ids -> RequestState \cup {"None"}], NEW id \in Ids, NEW s
  PROVE  LET before == Cardinality(QueuedIn(r))
             after == Cardinality(QueuedIn([r EXCEPT ![id] = s]))
         IN /\ r[id] # "Queued" /\ s = "Queued" => after = before + 1
            /\ r[id] = "Queued" /\ s # "Queued" => after = before - 1 /\ before > 0
            /\ r[id] # "Queued" /\ s # "Queued" => after = before
<1> DEFINE t == [r EXCEPT ![id] = s]
<1>1. \A i \in Ids : t[i] = IF i = id THEN s ELSE r[i]
  OBVIOUS
<1> HIDE DEF t
<1>2. IsFiniteSet(QueuedIn(r)) /\ Cardinality(QueuedIn(r)) \in Nat
  BY QueuedFinite
<1>3. ASSUME r[id] # "Queued", s = "Queued"
      PROVE  Cardinality(QueuedIn(t)) = Cardinality(QueuedIn(r)) + 1
  <2>1. QueuedIn(t) = QueuedIn(r) \cup {id} /\ id \notin QueuedIn(r)
    BY <1>1, <1>3 DEF QueuedIn
  <2> QED
    BY <2>1, <1>2, FS_AddElement
<1>4. ASSUME r[id] = "Queued", s # "Queued"
      PROVE  Cardinality(QueuedIn(t)) = Cardinality(QueuedIn(r)) - 1
             /\ Cardinality(QueuedIn(r)) > 0
  <2>1. QueuedIn(t) = QueuedIn(r) \ {id} /\ id \in QueuedIn(r)
    BY <1>1, <1>4 DEF QueuedIn
  <2>2. Cardinality(QueuedIn(t)) = Cardinality(QueuedIn(r)) - 1
    BY <2>1, <1>2, FS_RemoveElement
  <2>3. Cardinality(QueuedIn(r)) # 0
    BY <2>1, <1>2, FS_EmptySet
  <2> QED
    BY <2>2, <2>3, <1>2
<1>5. ASSUME r[id] # "Queued", s # "Queued"
      PROVE  QueuedIn(t) = QueuedIn(r)
  BY <1>1, <1>5 DEF QueuedIn
<1> QED
  BY <1>3, <1>4, <1>5 DEF t

-----------------------------------------------------------------------------
(***************************************************************************)
(* The inductive invariant.  TypeOK is not inductive by itself: that       *)
(* queuedCount stays a natural number rests on its being the count of the  *)
(* queued requests, and that rests on nextId naming an unused request.     *)
(***************************************************************************)
IInv ==
  /\ TypeOK
  /\ Settled(worker)
  /\ QueueBounded
  /\ \A id \in Ids : id >= nextId => requests[id] = "None"

LEMMA InitIInv == Init => IInv
<1> SUFFICES ASSUME Init
             PROVE  IInv
  OBVIOUS
<1> USE DEF Init
<1>1. <<>> \in Seq(Request) /\ <<>> \in Seq(Signal) /\ <<>> \in Seq(Command)
      /\ <<>> \in Seq(ControlKind)
  OBVIOUS
<1>2. worker \in Worker
  BY <1>1 DEF Worker, ConnectionState, OwnerOrNone
<1>3. ops \in [OpIds -> Operation]
  BY <1>1 DEF Operation
<1>4. TypeOK
  <2>1. requests \in [Ids -> RequestState \cup {"None"}] /\ cancelling \in SUBSET Ids
    OBVIOUS
  <2>2. nextOp \in 1..(MaxOps + 1) /\ nextId \in 1..(MaxRequests + 1)
        /\ faults \in 0..MaxFaults /\ noise \in 0..MaxNoise /\ queuedCount \in Nat
    BY ClientAssumption
  <2>3. connection \in ConnectionState /\ owner \in OwnerOrNone
        /\ inTransition \in BOOLEAN /\ pendingKind \in ControlKind \cup {"None"}
        /\ accepting \in BOOLEAN /\ alive \in BOOLEAN /\ inbox \in Seq(Command)
    BY <1>1 DEF ConnectionState, OwnerOrNone
  <2> QED
    BY <1>2, <1>3, <2>1, <2>2, <2>3 DEF TypeOK
<1>5. Settled(worker)
  BY <1>2 DEF Settled, Sound, Armed, Moving, MaySend
<1>6. QueueBounded
  <2>1. {id \in Ids : requests[id] = "Queued"} = {}
    OBVIOUS
  <2>2. Cardinality({id \in Ids : requests[id] = "Queued"}) = 0
    BY <2>1, FS_EmptySet
  <2>3. queuedCount = 0 /\ 0 <= MaxPending
    BY ClientAssumption
  <2> QED
    BY <2>2, <2>3 DEF QueueBounded
<1> QED
  BY <1>4, <1>5, <1>6 DEF IInv

\* A step of the worker thread that leaves the facade alone.
LEMMA WorkerStep ==
  ASSUME IInv, UNCHANGED facadeVars, Settled(worker'), inbox' \in Seq(Command),
         faults' \in 0..MaxFaults, noise' \in 0..MaxNoise
  PROVE  IInv'
BY DEF IInv, TypeOK, QueueBounded, facadeVars, Settled, Sound

LEMMA ProcessCommandStep ==
  ASSUME IInv, ProcessCommand
  PROVE  IInv' /\ Polite(worker, worker')
<1>1. Head(inbox) \in Command /\ Tail(inbox) \in Seq(Command)
  BY DEF IInv, TypeOK, ProcessCommand
<1>2. PICK write \in Writes, outcome \in OpenOutcomes(worker) :
        worker' = Execute(Head(inbox), worker, write, outcome)
  BY DEF ProcessCommand
<1>3. Settled(worker') /\ Polite(worker, worker')
  BY <1>1, <1>2, ExecuteSettles DEF IInv
<1> QED
  BY <1>1, <1>3, WorkerStep DEF ProcessCommand, IInv, TypeOK

LEMMA OnReadyReadStep ==
  ASSUME IInv, NEW src \in Ids \cup {Noise}, NEW verdict, OnReadyRead(src, verdict)
  PROVE  IInv' /\ Polite(worker, worker')
<1> DEFINE heard == Received([worker EXCEPT !.line = @ \ {src}])
<1>1. worker \in Worker /\ Sound(worker) /\ Moving(worker)
  BY DEF IInv, Settled, Sound
<1>2. /\ heard \in Worker /\ heard.timer /\ ~heard.quiet /\ heard.line \subseteq worker.line
      /\ heard.active = worker.active /\ heard.resync = worker.resync
      /\ heard.trans = worker.trans /\ heard.closing = worker.closing
      /\ heard.state = worker.state
  BY <1>1 DEF Worker, Received
<1>3. Settled(heard)
  BY <1>1, <1>2 DEF Settled, Sound, Armed, Moving
<1> HIDE DEF heard
<1>4. Settled(worker') /\ Polite(worker, worker')
  <2>1. CASE worker' = heard
    BY <2>1, <1>2, <1>3 DEF Polite
  <2>2. CASE worker' = [Received(worker) EXCEPT !.partial = TRUE]
    <3>1. /\ worker' \in Worker /\ worker'.timer /\ worker'.line = worker.line
          /\ worker'.active = worker.active /\ worker'.resync = worker.resync
          /\ worker'.trans = worker.trans /\ worker'.closing = worker.closing
          /\ worker'.state = worker.state
      BY <2>2, <1>1 DEF Worker, Received
    <3> QED
      BY <3>1, <1>1 DEF Settled, Sound, Armed, Moving, Polite
  <2>3. ASSUME NEW write \in Writes, worker.active # NoRequest, src # Noise,
               worker' = CompleteActiveSuccess(heard, src, write)
        PROVE  Settled(worker') /\ Polite(worker, worker')
    BY <2>3, <1>2, <1>3, CompleteActiveSuccessSettles DEF Settled, Polite
  <2>4. CASE worker.active # NoRequest /\ worker' = CompleteActiveError(heard)
    BY <2>4, <1>2, EndActiveEnds, EndedSettled DEF CompleteActiveError, TerminalState, Polite
  <2> QED
    BY <2>1, <2>2, <2>3, <2>4 DEF OnReadyRead, heard
<1>5. noise' \in 0..MaxNoise
  <2>1. src = Noise => noise < MaxNoise
    BY <1>1 DEF OnReadyRead, Worker, Noise, Ids
  <2>2. noise \in 0..MaxNoise /\ noise' = IF src = Noise THEN noise + 1 ELSE noise
    BY DEF OnReadyRead, IInv, TypeOK
  <2> QED
    BY <2>1, <2>2, ClientAssumption
<1> QED
  BY <1>4, <1>5, WorkerStep DEF OnReadyRead, IInv, TypeOK

LEMMA OnResponseTimeoutStep ==
  ASSUME IInv, OnResponseTimeout
  PROVE  IInv' /\ Polite(worker, worker')
<1>1. Ended(worker, worker')
  BY EndActiveEnds DEF OnResponseTimeout, CompleteActiveError, TerminalState, IInv,
     Settled, Sound
<1>2. Settled(worker') /\ Polite(worker, worker')
  BY <1>1, EndedSettled DEF IInv, Settled, Sound
<1> QED
  BY <1>2, WorkerStep DEF OnResponseTimeout, IInv, TypeOK

LEMMA LineFallsSilentStep ==
  ASSUME IInv, LineFallsSilent
  PROVE  IInv' /\ Polite(worker, worker')
<1> DEFINE heard == IF LateAnswers \/ worker.active # NoRequest THEN worker.line ELSE {}
<1>1. worker' = [worker EXCEPT !.quiet = TRUE, !.line = heard]
  BY DEF LineFallsSilent
<1>2. heard \subseteq worker.line
  OBVIOUS
<1> HIDE DEF heard
<1>3. Settled(worker') /\ Polite(worker, worker')
  BY <1>1, <1>2 DEF IInv, Settled, Sound, Armed, Moving, MaySend, Worker, Polite
<1> QED
  BY <1>3, WorkerStep DEF LineFallsSilent, IInv, TypeOK

LEMMA OnSilenceElapsedStep ==
  ASSUME IInv, OnSilenceElapsed
  PROVE  IInv' /\ Polite(worker, worker')
<1> DEFINE w == [worker EXCEPT !.timer = FALSE]
           clear == [w EXCEPT !.resync = FALSE]
<1>1. worker \in Worker /\ Sound(worker) /\ Moving(worker)
  BY DEF IInv, Settled, Sound
<1>2. w \in Worker /\ w.active = worker.active /\ w.resync = worker.resync
      /\ w.line = worker.line /\ w.trans = worker.trans /\ w.closing = worker.closing
      /\ w.state = worker.state /\ w.quiet = worker.quiet
  BY <1>1 DEF Worker
<1>3. CASE worker.active # NoRequest /\ ~worker.resync
  <2>1. Settled(w) /\ Polite(worker, w)
    BY <1>1, <1>2, <1>3 DEF Settled, Sound, Armed, Moving, MaySend, Polite
  <2>2. worker' = w \/ worker' = CompleteActiveError(w)
    BY <1>2, <1>3 DEF OnSilenceElapsed
  <2> HIDE DEF w
  <2>3. Settled(worker') /\ Polite(worker, worker')
    BY <2>1, <2>2, <1>2, <1>3, EndActiveEnds, EndedSettled
       DEF CompleteActiveError, TerminalState, Polite
  <2> QED
    BY <2>3, WorkerStep DEF OnSilenceElapsed, IInv, TypeOK
<1>4. CASE ~(worker.active # NoRequest /\ ~worker.resync)
  <2>1. Sound(clear) /\ clear.line = worker.line /\ clear.quiet = worker.quiet
    BY <1>2 DEF Sound, Worker
  <2>2. PICK write \in Writes :
          worker' = StartNextWhenSilent(MaybeCompleteTransition(clear, write), write)
    BY <1>2, <1>4 DEF OnSilenceElapsed
  <2> HIDE DEF clear
  <2>3. Settled(worker') /\ Polite(worker, worker')
    BY <2>1, <2>2, CompleteThenStartSettles DEF Polite
  <2> QED
    BY <2>3, WorkerStep DEF OnSilenceElapsed, IInv, TypeOK
<1> QED
  BY <1>3, <1>4

LEMMA OnSerialErrorStep ==
  ASSUME IInv, OnSerialError
  PROVE  IInv' /\ Polite(worker, worker')
<1> DEFINE down == [worker EXCEPT !.state = "Faulted"]
           ended == IF down.active # NoRequest THEN CompleteActiveError(down) ELSE down
           empty == [ended EXCEPT !.queue = <<>>]
           flushed == Finalize(empty, ended.queue, "Failed", Noise)
           free == [flushed EXCEPT !.trans = NoTransition]
           settled == IF flushed.trans = NoTransition THEN flushed
                      ELSE Emit(free, <<OwnershipSignal(flushed.trans.op, NoOwner, FALSE)>>)
           closed == [settled EXCEPT !.port = FALSE, !.owner = NoOwner]
           Kept(v) == Sound(v) /\ v.state = "Faulted" /\ v.line = worker.line
<1>1. Kept(down)
  BY DEF IInv, Settled, Sound, Worker, ConnectionState
<1> HIDE DEF down
<1>2. Kept(ended)
  <2>1. CASE down.active # NoRequest
    <3>1. Ended(down, ended)
      BY <1>1, <2>1, EndActiveEnds DEF CompleteActiveError, TerminalState, Sound
    <3> QED
      BY <3>1, <1>1, EndedSettled DEF Ended, Settled, Sound
  <2>2. CASE down.active = NoRequest
    BY <1>1, <2>2
  <2> QED
    BY <2>1, <2>2
<1> HIDE DEF ended
<1>3. ended.queue \in Seq(Request) /\ <<>> \in Seq(Request)
  BY <1>2 DEF Sound, Worker
<1>4. Kept(empty)
  BY <1>2, <1>3 DEF Sound, Worker
<1> HIDE DEF empty
<1>5. Kept(flushed)
  <2>1. Says(empty, flushed)
    BY <1>3, <1>4, FinalizeSays DEF Sound, TerminalState
  <2> QED
    BY <2>1, <1>4, SaysKeeps DEF Sound
<1> HIDE DEF flushed
<1>6. Kept(settled)
  <2>1. CASE flushed.trans = NoTransition
    BY <1>5, <2>1
  <2>2. CASE flushed.trans # NoTransition
    <3>1. Kept(free)
      BY <1>5 DEF Sound, Worker
    <3>2. flushed.trans.op \in OpIds
      BY <1>5, <2>2 DEF Sound, Worker, Transition
    <3> HIDE DEF free
    <3>3. <<OwnershipSignal(flushed.trans.op, NoOwner, FALSE)>> \in Seq(Signal)
      BY <3>2, SignalTypes, SignalSequences DEF OwnerOrNone
    <3>4. Says(free, settled)
      BY <2>2, <3>1, <3>3, EmitSays DEF Sound
    <3> QED
      BY <3>1, <3>4, SaysKeeps DEF Sound
  <2> QED
    BY <2>1, <2>2
<1> HIDE DEF settled
<1>7. Kept(closed)
  BY <1>6 DEF Sound, Worker, OwnerOrNone
<1> HIDE DEF closed
<1>8. worker' = Emit(closed, <<ConnectionSignal("Faulted")>>)
  BY DEF OnSerialError, closed, settled, free, flushed, empty, ended, down
<1>9. Says(closed, worker')
  BY <1>7, <1>8, EmitSays, SignalTypes, SignalSequences DEF Sound, ConnectionState
<1>10. Kept(worker')
  BY <1>7, <1>9, SaysKeeps DEF Sound
<1>11. Settled(worker') /\ Polite(worker, worker')
  BY <1>10 DEF Settled, Armed, Moving, MaySend, Polite
<1>12. faults' \in 0..MaxFaults
  BY ClientAssumption DEF OnSerialError, IInv, TypeOK
<1> QED
  BY <1>11, <1>12, WorkerStep DEF OnSerialError, IInv, TypeOK

-----------------------------------------------------------------------------
(***************************************************************************)
(* The facade's calls.                                                     *)
(***************************************************************************)

\* A call that accepts an operation: what it may change, and the command typed.
LEMMA AcceptStep ==
  ASSUME IInv, NEW kind \in ControlKind, Accept(kind), NEW c \in Command, Post(c),
         connection' \in ConnectionState, owner' \in OwnerOrNone,
         inTransition' \in BOOLEAN, pendingKind' \in ControlKind \cup {"None"},
         accepting' \in BOOLEAN,
         UNCHANGED <<requests, cancelling, queuedCount, nextId, alive, worker,
                     faults, noise>>
  PROVE  IInv' /\ Polite(worker, worker')
<1>1. nextOp \in OpIds /\ nextOp' \in 1..(MaxOps + 1)
  BY SMTT(30), ClientAssumption DEF Accept, IInv, TypeOK, OpIds
<1>2. ops' \in [OpIds -> Operation]
  BY <1>1 DEF Accept, IInv, TypeOK, Operation
<1>3. inbox' \in Seq(Command)
  BY DEF Post, IInv, TypeOK
<1>4. TypeOK'
  BY <1>1, <1>2, <1>3 DEF IInv, TypeOK
<1> QED
  BY <1>4 DEF IInv, QueueBounded, Polite, Settled, Sound, Armed, Moving, MaySend

LEMMA CommandTypes ==
  /\ \A op \in OpIds : [kind |-> "open", op |-> op] \in Command
  /\ \A op \in OpIds, mode \in CloseMode :
       [kind |-> "close", op |-> op, mode |-> mode] \in Command
  /\ \A command \in {"acquire", "release"}, op \in OpIds, o \in Owners, mode \in HandoffMode :
       [kind |-> command, op |-> op, owner |-> o, mode |-> mode] \in Command
  /\ \A req \in Request : [kind |-> "enqueue", req |-> req] \in Command
  /\ \A id \in Ids : [kind |-> "cancel", id |-> id] \in Command
  /\ [kind |-> "shutdown"] \in Command
BY DEF Command

LEMMA NextOpFresh ==
  ASSUME IInv, nextOp <= MaxOps
  PROVE  nextOp \in OpIds
BY ClientAssumption DEF IInv, TypeOK, OpIds

LEMMA OpenStep ==
  ASSUME IInv, Open
  PROVE  IInv' /\ Polite(worker, worker')
<1>1. [kind |-> "open", op |-> nextOp] \in Command
  BY CommandTypes, NextOpFresh DEF Open, Accept
<1>2. "Open" \in ControlKind /\ "Opening" \in ConnectionState /\ NoOwner \in OwnerOrNone
  BY DEF ControlKind, ConnectionState, OwnerOrNone
<1> QED
  BY <1>1, <1>2, AcceptStep DEF Open, IInv, TypeOK

LEMMA CloseStep ==
  ASSUME IInv, NEW mode \in CloseMode, Close(mode)
  PROVE  IInv' /\ Polite(worker, worker')
<1>1. [kind |-> "close", op |-> nextOp, mode |-> mode] \in Command
  BY CommandTypes, NextOpFresh DEF Close, Accept
<1>2. "Close" \in ControlKind /\ "Closing" \in ConnectionState
  BY DEF ControlKind, ConnectionState
<1> QED
  BY <1>1, <1>2, AcceptStep DEF Close, IInv, TypeOK

LEMMA TransitionStep ==
  ASSUME IInv, NEW control \in ControlKind, NEW command \in {"acquire", "release"},
         NEW o \in Owners, NEW mode \in HandoffMode,
         StartTransition(control, command, o, mode)
  PROVE  IInv' /\ Polite(worker, worker')
<1>1. [kind |-> command, op |-> nextOp, owner |-> o, mode |-> mode] \in Command
  BY CommandTypes, NextOpFresh DEF StartTransition, Accept
<1> QED
  BY <1>1, AcceptStep DEF StartTransition, IInv, TypeOK

LEMMA SubmitStep ==
  ASSUME IInv, Submit
  PROVE  IInv' /\ Polite(worker, worker')
<1>1. nextId \in Ids /\ nextId' = nextId + 1 /\ nextId' \in 1..(MaxRequests + 1)
  BY ClientAssumption DEF Submit, IInv, TypeOK, Ids
<1>2. requests \in [Ids -> RequestState \cup {"None"}] /\ requests[nextId] = "None"
  BY <1>1 DEF IInv, TypeOK, Ids
<1>3. requests' = [requests EXCEPT ![nextId] = "Queued"]
      /\ requests' \in [Ids -> RequestState \cup {"None"}]
  BY <1>1, <1>2 DEF Submit, RequestState
<1>4. [id |-> nextId, owner |-> owner] \in Request
  BY <1>1 DEF Submit, IInv, TypeOK, OwnerOrNone, Request
<1>5. inbox' \in Seq(Command)
  <2>1. [kind |-> "enqueue", req |-> [id |-> nextId, owner |-> owner]] \in Command
    BY <1>4, CommandTypes
  <2> QED
    BY <2>1 DEF Submit, Post, IInv, TypeOK
<1>6. queuedCount \in Nat /\ queuedCount < MaxPending /\ queuedCount' = queuedCount + 1
      /\ MaxPending \in Nat
  BY ClientAssumption DEF Submit, IInv, TypeOK
<1>7. QueueBounded'
  <2>1. queuedCount = Cardinality(QueuedIn(requests))
    BY DEF IInv, QueueBounded, QueuedIn
  <2>2. Cardinality(QueuedIn(requests')) = Cardinality(QueuedIn(requests)) + 1
    BY <1>1, <1>2, <1>3, QueuedChange
  <2>3. queuedCount' = Cardinality(QueuedIn(requests')) /\ queuedCount' <= MaxPending
    BY <2>1, <2>2, <1>6
  <2> QED
    BY <2>3 DEF QueueBounded, QueuedIn
<1>8. TypeOK'
  BY <1>1, <1>3, <1>5, <1>6 DEF Submit, IInv, TypeOK
<1>9. \A id \in Ids : id >= nextId' => requests'[id] = "None"
  BY <1>1, <1>2, <1>3 DEF IInv, Ids
<1> QED
  BY <1>7, <1>8, <1>9
     DEF Submit, IInv, Polite, Settled, Sound, Armed, Moving, MaySend

LEMMA CancelRequestStep ==
  ASSUME IInv, NEW id \in Ids, CancelRequest(id)
  PROVE  IInv' /\ Polite(worker, worker')
<1>1. [kind |-> "cancel", id |-> id] \in Command
  BY CommandTypes
<1>2. inbox' \in Seq(Command) /\ cancelling' \in SUBSET Ids
  BY <1>1 DEF CancelRequest, Post, IInv, TypeOK
<1>3. TypeOK'
  BY <1>2 DEF CancelRequest, IInv, TypeOK
<1> QED
  BY <1>3 DEF CancelRequest, IInv, QueueBounded, Polite, Settled, Sound, Armed, Moving,
              MaySend

LEMMA DestroyStep ==
  ASSUME IInv, Destroy
  PROVE  IInv' /\ Polite(worker, worker')
<1>1. inbox' \in Seq(Command)
  BY CommandTypes DEF Destroy, Post, IInv, TypeOK
<1>2. TypeOK'
  BY <1>1 DEF Destroy, IInv, TypeOK
<1> QED
  BY <1>2 DEF Destroy, IInv, QueueBounded, Polite, Settled, Sound, Armed, Moving, MaySend

-----------------------------------------------------------------------------
(***************************************************************************)
(* The facade's slots.                                                     *)
(***************************************************************************)

\* Taking a signal leaves the worker as it was.
LEMMA TakeSays ==
  ASSUME IInv, NEW kind, Take(kind)
  PROVE  /\ Head(worker.outbox) \in Signal /\ Head(worker.outbox).kind = kind
         /\ Settled(worker') /\ Polite(worker, worker')
<1>1. worker \in Worker /\ worker.outbox \in Seq(Signal) /\ worker.outbox # <<>>
  BY DEF Take, IInv, TypeOK, Worker
<1>2. Head(worker.outbox) \in Signal /\ Tail(worker.outbox) \in Seq(Signal)
  BY <1>1
<1>3. Says(worker, worker')
  BY <1>2 DEF Take, Says
<1> QED
  BY <1>1, <1>2, <1>3, SaysKeeps
     DEF Take, IInv, Settled, Sound, Armed, Moving, MaySend, Polite

\* A slot that leaves the requests alone.
LEMMA SlotStep ==
  ASSUME IInv, NEW kind, Take(kind),
         connection' \in ConnectionState, owner' \in OwnerOrNone,
         inTransition' \in BOOLEAN, pendingKind' \in ControlKind \cup {"None"},
         accepting' \in BOOLEAN, ops' \in [OpIds -> Operation],
         UNCHANGED <<requests, cancelling, queuedCount>>
  PROVE  IInv' /\ Polite(worker, worker')
<1>1. Settled(worker') /\ Polite(worker, worker')
  BY TakeSays
<1>2. TypeOK'
  BY <1>1 DEF Take, IInv, TypeOK, Settled, Sound
<1> QED
  BY <1>1, <1>2 DEF Take, IInv, QueueBounded

LEMMA OnWorkerConnectionStateChangedStep ==
  ASSUME IInv, OnWorkerConnectionStateChanged
  PROVE  IInv' /\ Polite(worker, worker')
<1>1. Take("connection")
  BY DEF OnWorkerConnectionStateChanged
<1>2. Head(worker.outbox) \in Signal /\ Head(worker.outbox).kind = "connection"
  BY <1>1, TakeSays
<1>3. Head(worker.outbox).state \in ConnectionState
  BY <1>2 DEF Signal
<1> QED
  BY <1>1, <1>3, SlotStep DEF OnWorkerConnectionStateChanged, IInv, TypeOK, OwnerOrNone

LEMMA AnsweredType ==
  ASSUME IInv, NEW op \in OpIds, NEW kind \in ControlKind
  PROVE  Answered(op, kind) \in [OpIds -> Operation]
<1>1. ops \in [OpIds -> Operation] /\ ops[op].answers \in Seq(ControlKind)
  BY DEF IInv, TypeOK, Operation
<1>2. Append(ops[op].answers, kind) \in Seq(ControlKind)
  BY <1>1
<1> QED
  BY <1>1, <1>2 DEF Answered, Operation

LEMMA OnWorkerControlCompletedStep ==
  ASSUME IInv, OnWorkerControlCompleted
  PROVE  IInv' /\ Polite(worker, worker')
<1> DEFINE s == Head(worker.outbox)
<1>1. Take("control")
  BY DEF OnWorkerControlCompleted
<1>2. s \in Signal /\ s.kind = "control"
  BY <1>1, TakeSays
<1>3. s.op \in OpIds /\ s.control \in ControlKind
  BY <1>2 DEF Signal, ControlKind
<1>4. ops' \in [OpIds -> Operation]
  BY <1>3, AnsweredType DEF OnWorkerControlCompleted
<1> QED
  BY <1>1, <1>4, SlotStep DEF OnWorkerControlCompleted, IInv, TypeOK, OwnerOrNone

LEMMA OnWorkerOwnershipChangedStep ==
  ASSUME IInv, OnWorkerOwnershipChanged
  PROVE  IInv' /\ Polite(worker, worker')
<1> DEFINE s == Head(worker.outbox)
           kind == IF pendingKind # "None" THEN pendingKind
                   ELSE IF s.owner = NoOwner THEN "ReleaseOwnership" ELSE "AcquireOwnership"
<1>1. Take("ownership")
  BY DEF OnWorkerOwnershipChanged
<1>2. s \in Signal /\ s.kind = "ownership"
  BY <1>1, TakeSays
<1>3. s.op \in OpIds /\ s.owner \in OwnerOrNone /\ s.ok \in BOOLEAN
  BY <1>2 DEF Signal
<1>4. kind \in ControlKind
  BY DEF IInv, TypeOK, ControlKind
<1>5. ops' = Answered(s.op, kind)
  BY DEF OnWorkerOwnershipChanged
<1> HIDE DEF kind
<1>6. ops' \in [OpIds -> Operation]
  BY <1>3, <1>4, <1>5, AnsweredType
<1>7. accepting' \in BOOLEAN /\ owner' \in OwnerOrNone
  BY <1>3 DEF OnWorkerOwnershipChanged, IInv, TypeOK
<1> QED
  BY <1>1, <1>6, <1>7, SlotStep DEF OnWorkerOwnershipChanged, IInv, TypeOK

\* A slot that moves request id to state s, or forgets it.
LEMMA RequestSlotStep ==
  ASSUME IInv, NEW kind, Take(kind), NEW id \in Ids,
         NEW s \in (RequestState \ {"Queued"}) \cup {"None"},
         requests[id] # "None", requests' = [requests EXCEPT ![id] = s],
         queuedCount' = IF requests[id] = "Queued" THEN queuedCount - 1 ELSE queuedCount,
         cancelling' \in SUBSET Ids,
         UNCHANGED <<connection, owner, inTransition, pendingKind, accepting, ops>>
  PROVE  IInv' /\ Polite(worker, worker')
<1>1. Settled(worker') /\ Polite(worker, worker')
  BY TakeSays
<1>2. requests \in [Ids -> RequestState \cup {"None"}] /\ s # "Queued"
  BY DEF IInv, TypeOK, RequestState, TerminalState
<1>3. requests' \in [Ids -> RequestState \cup {"None"}]
  BY <1>2
<1>4. queuedCount = Cardinality(QueuedIn(requests)) /\ queuedCount <= MaxPending
      /\ queuedCount \in Nat /\ MaxPending \in Nat
  BY ClientAssumption DEF IInv, QueueBounded, QueuedIn, TypeOK
<1>5. queuedCount' = Cardinality(QueuedIn(requests')) /\ queuedCount' \in Nat
      /\ queuedCount' <= MaxPending
  <2> DEFINE before == Cardinality(QueuedIn(requests))
             after == Cardinality(QueuedIn(requests'))
  <2>1. CASE requests[id] = "Queued"
    <3>1. after = before - 1 /\ before > 0
      BY <2>1, <1>2, QueuedChange
    <3>2. queuedCount' = queuedCount - 1
      BY <2>1
    <3> HIDE DEF before, after
    <3>3. queuedCount = before
      BY <1>4 DEF before
    <3>4. queuedCount' = after /\ queuedCount' \in Nat /\ queuedCount' <= MaxPending
      BY <3>1, <3>2, <3>3, <1>4
    <3> QED
      BY <3>4 DEF after
  <2>2. CASE requests[id] # "Queued"
    <3>1. after = before
      BY <2>2, <1>2, QueuedChange
    <3> QED
      BY <2>2, <3>1, <1>4
  <2> QED
    BY <2>1, <2>2
<1>6. QueueBounded'
  BY <1>5 DEF QueueBounded, QueuedIn
<1>7. TypeOK'
  BY <1>1, <1>3, <1>5 DEF Take, IInv, TypeOK, Settled, Sound
<1>8. \A i \in Ids : i >= nextId' => requests'[i] = "None"
  BY <1>2 DEF Take, IInv
<1> QED
  BY <1>1, <1>6, <1>7, <1>8 DEF IInv

\* A slot about a request the facade no longer knows changes nothing.
LEMMA UnknownRequestSlotStep ==
  ASSUME IInv, NEW kind, Take(kind),
         UNCHANGED <<connection, owner, inTransition, pendingKind, accepting, ops,
                     requests, queuedCount, cancelling>>
  PROVE  IInv' /\ Polite(worker, worker')
BY SlotStep DEF IInv, TypeOK

LEMMA OnWorkerRequestStateChangedStep ==
  ASSUME IInv, OnWorkerRequestStateChanged
  PROVE  IInv' /\ Polite(worker, worker')
<1> DEFINE s == Head(worker.outbox)
<1>1. Take("state")
  BY DEF OnWorkerRequestStateChanged
<1>2. s \in Signal /\ s.kind = "state"
  BY <1>1, TakeSays
<1>3. s.id \in Ids /\ s.state \in RequestState \ {"Queued"}
  BY <1>2 DEF Signal
<1>4. CASE requests[s.id] = "None"
  BY <1>1, <1>4, UnknownRequestSlotStep DEF OnWorkerRequestStateChanged
<1>5. CASE requests[s.id] # "None"
  <2>1. requests' = [requests EXCEPT ![s.id] = s.state]
        /\ queuedCount' = (IF requests[s.id] = "Queued" THEN queuedCount - 1 ELSE queuedCount)
        /\ cancelling' \in SUBSET Ids
        /\ UNCHANGED <<connection, owner, inTransition, pendingKind, accepting, ops>>
    BY <1>3, <1>5 DEF OnWorkerRequestStateChanged, IInv, TypeOK
  <2> HIDE DEF s
  <2> QED
    BY <1>1, <1>3, <1>5, <2>1, RequestSlotStep
<1> QED
  BY <1>4, <1>5

LEMMA OnWorkerRequestCompletedStep ==
  ASSUME IInv, OnWorkerRequestCompleted
  PROVE  IInv' /\ Polite(worker, worker')
<1> DEFINE s == Head(worker.outbox)
<1>1. Take("completed")
  BY DEF OnWorkerRequestCompleted
<1>2. s \in Signal /\ s.kind = "completed"
  BY <1>1, TakeSays
<1>3. s.id \in Ids
  BY <1>2 DEF Signal
<1>4. CASE requests[s.id] = "None"
  BY <1>1, <1>4, UnknownRequestSlotStep DEF OnWorkerRequestCompleted
<1>5. CASE requests[s.id] # "None"
  <2>1. requests' = [requests EXCEPT ![s.id] = "None"]
        /\ queuedCount' = (IF requests[s.id] = "Queued" THEN queuedCount - 1 ELSE queuedCount)
        /\ cancelling' \in SUBSET Ids
        /\ UNCHANGED <<connection, owner, inTransition, pendingKind, accepting, ops>>
    BY <1>3, <1>5 DEF OnWorkerRequestCompleted, IInv, TypeOK
  <2> HIDE DEF s
  <2> QED
    BY <1>1, <1>3, <1>5, <2>1, RequestSlotStep
<1> QED
  BY <1>4, <1>5

-----------------------------------------------------------------------------
(***************************************************************************)
(* The theorems.                                                           *)
(***************************************************************************)
LEMMA NextStep ==
  ASSUME IInv, [Next]_vars
  PROVE  IInv' /\ Polite(worker, worker')
<1>1. CASE UNCHANGED vars
  BY <1>1 DEF vars, facadeVars, IInv, TypeOK, Settled, Sound, Armed, Moving, MaySend,
              QueueBounded, Polite
<1>2. CASE Calls
  <2>1. CASE Open
    BY <2>1, OpenStep
  <2>2. ASSUME NEW mode \in CloseMode, Close(mode)
        PROVE  IInv' /\ Polite(worker, worker')
    BY <2>2, CloseStep
  <2>3. ASSUME NEW o \in Owners, NEW mode \in HandoffMode,
               AcquireOwnership(o, mode) \/ ReleaseOwnership(o, mode)
        PROVE  IInv' /\ Polite(worker, worker')
    BY <2>3, TransitionStep DEF AcquireOwnership, ReleaseOwnership, ControlKind
  <2>4. CASE Submit
    BY <2>4, SubmitStep
  <2>5. ASSUME NEW id \in Ids, CancelRequest(id)
        PROVE  IInv' /\ Polite(worker, worker')
    BY <2>5, CancelRequestStep
  <2>6. CASE Destroy
    BY <2>6, DestroyStep
  <2> QED
    BY <1>2, <2>1, <2>2, <2>3, <2>4, <2>5, <2>6 DEF Calls
<1>3. CASE FacadeSlots
  BY <1>3, OnWorkerConnectionStateChangedStep, OnWorkerControlCompletedStep,
     OnWorkerOwnershipChangedStep, OnWorkerRequestStateChangedStep,
     OnWorkerRequestCompletedStep DEF FacadeSlots
<1>4. CASE WorkerEvents
  BY <1>4, ProcessCommandStep, OnReadyReadStep, OnResponseTimeoutStep,
     LineFallsSilentStep, OnSilenceElapsedStep, OnSerialErrorStep DEF WorkerEvents
<1> QED
  BY <1>1, <1>2, <1>3, <1>4 DEF Next

\* The inductive invariant holds in every reachable state.
THEOREM Invariance == Spec => []IInv
<1>1. IInv /\ [Next]_vars => IInv'
  BY NextStep
<1> QED
  BY InitIInv, <1>1, PTL DEF Spec

\* Facade, worker and the two queues between them stay within their types.
THEOREM TypeCorrect == Spec => []TypeOK
<1>1. IInv => TypeOK
  BY DEF IInv
<1> QED
  BY Invariance, <1>1, PTL

\* The worker never waits for an event that cannot come: every resynchronization,
\* transition and waiting queue has a running timer, or a request in flight.
THEOREM WorkerNeverStalls == Spec => []NeverStalls
<1>1. IInv => NeverStalls
  BY DEF IInv, Settled, Sound, Armed, Moving, NeverStalls
<1> QED
  BY Invariance, <1>1, PTL

\* The facade's count is the number of queued requests and keeps to the limit.
THEOREM QueueLimitKept == Spec => []QueueBounded
<1>1. IInv => QueueBounded
  BY DEF IInv
<1> QED
  BY Invariance, <1>1, PTL

\* No frame is sent into a line that has not been silent for 3.5 characters.
THEOREM FramesAreSeparated == Spec => SendsIntoSilence
<1>1. IInv /\ [Next]_vars =>
        [\A id \in Ids : id \in worker'.line /\ id \notin worker.line => worker.quiet]_vars
  BY NextStep DEF Polite
<1> QED
  BY Invariance, <1>1, PTL DEF Spec, SendsIntoSilence

-----------------------------------------------------------------------------
(***************************************************************************)
(* What becomes of a request.                                              *)
(*                                                                         *)
(* The argument has two halves.  Inside the worker a handler hands each    *)
(* request on, from queue_ to active_ to a result (Keeps).  Between the    *)
(* threads, open() of the worker empties queue_ and active_ and reports    *)
(* nothing, so it must never meet a request; what rules this out is the    *)
(* order in which opens, closes and requests can be under way (Calm and    *)
(* Engaged).                                                               *)
(***************************************************************************)

-----------------------------------------------------------------------------
(***************************************************************************)
(* Where a request can be.                                                 *)
(***************************************************************************)
Ascending(q) == \A i, j \in DOMAIN q : i < j => q[i].id < q[j].id

Waiting(q) == {id \in Ids : \E i \in DOMAIN q : q[i].id = id}

IsResult(s) == s.kind = "completed"
Tells(s) == s.kind \in {"state", "completed"}

\* The requests a sequence of signals brings the result of, or is about at all.
Reported(out) == {id \in Ids : \E i \in DOMAIN out : IsResult(out[i]) /\ out[i].id = id}
Told(out) == {id \in Ids : \E i \in DOMAIN out : Tells(out[i]) /\ out[i].id = id}

OneResultEach(out) ==
  \A i, j \in DOMAIN out :
    IsResult(out[i]) /\ IsResult(out[j]) /\ out[i].id = out[j].id => i = j

\* A success brings the answer to its own request.
Truthful(out) ==
  \A i \in DOMAIN out :
    IsResult(out[i]) /\ out[i].state = "Succeeded" => out[i].from = out[i].id

Pending(w) == Waiting(w.queue) \cup ({w.active.id} \cap Ids)
Held(w) == Pending(w) \cup Reported(w.outbox)

\* The requests still on their way to the worker.
Enqueues(c) == c.kind = "enqueue"
Posted(q) == {id \in Ids : \E i \in DOMAIN q : Enqueues(q[i]) /\ q[i].req.id = id}

-----------------------------------------------------------------------------
(***************************************************************************)
(* The worker between two handlers.                                        *)
(***************************************************************************)
Tidy(w) ==
  /\ Ascending(w.queue)
  /\ \A id \in Waiting(w.queue) : w.active.id < id
  /\ OneResultEach(w.outbox)
  /\ Waiting(w.queue) \cap Told(w.outbox) = {}
  /\ w.active.id \notin Reported(w.outbox)

\* While answers are never late, the line carries the answer awaited or nothing.
Clear(w) ==
  /\ w.port /\ w.active = NoRequest /\ (w.quiet \/ ~w.resync) => w.line = {}
  /\ w.port /\ w.active # NoRequest => w.line \subseteq {w.active.id}
  /\ Truthful(w.outbox)

\* What holds between any two steps of a handler.
Sane(w) ==
  /\ w \in Worker /\ Tidy(w)
  /\ w.state = "Connected" => w.port
  /\ ~LateAnswers => Clear(w)

\* No request waits behind a close, and none is held without a port.
Shut(w) == w.closing # 0 => w.queue = <<>>
Idle(w) == w.queue = <<>> /\ w.active = NoRequest
Served(w) == Idle(w) \/ (w.port /\ w.state \in {"Connected", "Closing"})

Good(w) == Sane(w) /\ Shut(w) /\ Served(w)

\* Closed, and nothing left to do.
Dead(w) ==
  /\ w.state = "Disconnected" /\ ~w.port /\ ~w.resync /\ w.closing = 0
  /\ Idle(w)

-----------------------------------------------------------------------------
(***************************************************************************)
(* The order in which opens, closes and requests are under way.            *)
(*                                                                         *)
(* A double close or a fault lets signals of an earlier connection reach   *)
(* the facade late, so opens and closes of several connections can be in   *)
(* the two queues at once.  Until the first sign of a new connection the   *)
(* facade takes the ends of old ones (Calm): every close comes before      *)
(* every open.  After it the facade may close and submit (Engaged): every  *)
(* open comes before every close and every request.                        *)
(***************************************************************************)
IsUp(s) == s.kind = "connection" /\ s.state \notin {"Closing", "Disconnected"}
IsDown(s) == s.kind = "connection" /\ s.state = "Disconnected"

HasUp(out) == \E i \in DOMAIN out : IsUp(out[i])
HasDown(out) == \E i \in DOMAIN out : IsDown(out[i])

Opens(c) == c.kind = "open"
ClosesOrEnqueues(c) == c.kind \in {"close", "enqueue"}

HasOpen(q) == \E i \in DOMAIN q : Opens(q[i])

HasCloseOrEnqueue(q) == \E i \in DOMAIN q : ClosesOrEnqueues(q[i])

DownsFirst(out) == \A i, j \in DOMAIN out : i < j /\ IsUp(out[i]) => ~IsDown(out[j])
UpsFirst(out) == \A i, j \in DOMAIN out : i < j /\ IsDown(out[i]) => ~IsUp(out[j])
OpensLast(q) == \A i, j \in DOMAIN q : i < j /\ Opens(q[i]) => ~ClosesOrEnqueues(q[j])
OpensFirst(q) == \A i, j \in DOMAIN q : i < j /\ ClosesOrEnqueues(q[i]) => ~Opens(q[j])

Calm ==
  /\ connection \notin {"Connected", "Faulted"}
  /\ Idle(worker) /\ DownsFirst(worker.outbox) /\ OpensLast(inbox)
  /\ HasUp(worker.outbox) => worker.closing = 0 /\ ~HasCloseOrEnqueue(inbox)
  /\ ~HasUp(worker.outbox) => Dead(worker)

Engaged ==
  /\ connection # "Disconnected"
  /\ UpsFirst(worker.outbox) /\ OpensFirst(inbox)
  /\ HasDown(worker.outbox) => Dead(worker)
  /\ HasOpen(inbox) =>
       Idle(worker) /\ worker.closing = 0 /\ ~HasDown(worker.outbox)

-----------------------------------------------------------------------------
\* Requests on their way come in the order of their ids, behind those the worker
\* has and ahead of those not yet made.
InTurn(q) ==
  \A i, j \in DOMAIN q :
    i < j /\ Enqueues(q[i]) /\ Enqueues(q[j]) => q[i].req.id < q[j].req.id

InOrder ==
  /\ InTurn(inbox)
  /\ \A id \in Posted(inbox), held \in Pending(worker) : held < id
  /\ Posted(inbox) \cap Told(worker.outbox) = {}
  /\ \A id \in Posted(inbox) \cup Held(worker) \cup Told(worker.outbox) : id < nextId

\* While the facade lives, the requests it holds open are those under way, and
\* it shows as Queued those the worker has not yet said anything about.
NoShutdown(q) == \A i \in DOMAIN q : q[i].kind # "shutdown"

Accounted ==
  /\ NoShutdown(inbox)
  /\ \A id \in Ids : requests[id] # "None" <=> id \in Posted(inbox) \cup Held(worker)
  /\ \A id \in Posted(inbox) \cup Waiting(worker.queue) : requests[id] = "Queued"

CInv ==
  /\ IInv /\ Good(worker) /\ InOrder
  /\ Calm \/ Engaged
  /\ alive => Accounted

-----------------------------------------------------------------------------
(***************************************************************************)
(* Sequences of requests.                                                  *)
(***************************************************************************)
LEMMA WaitingNone ==
  ASSUME NEW q \in Seq(Request)
  PROVE  q = <<>> <=> Waiting(q) = {}
<1>1. q # <<>> => q[1] \in Request /\ 1 \in DOMAIN q
  OBVIOUS
<1>2. q # <<>> => q[1].id \in Waiting(q)
  BY <1>1 DEF Waiting, Request
<1>3. Waiting(<<>>) = {}
  BY DEF Waiting
<1> QED
  BY <1>2, <1>3

LEMMA WaitingOne ==
  ASSUME NEW r \in Request
  PROVE  Waiting(<<r>>) = {r.id} /\ Ascending(<<r>>) /\ <<r>> \in Seq(Request)
<1>1. r.id \in Ids
  BY DEF Request
<1> QED
  BY <1>1 DEF Waiting, Ascending

\* The tail of a queue is the queue without its first request.
LEMMA WaitingTail ==
  ASSUME NEW q \in Seq(Request), q # <<>>
  PROVE  /\ Waiting(q) = Waiting(Tail(q)) \cup {Head(q).id}
         /\ Ascending(q) => /\ Ascending(Tail(q))
                            /\ \A id \in Waiting(Tail(q)) : Head(q).id < id
<1>1. Head(q) \in Request /\ Head(q).id \in Ids /\ Head(q) = q[1] /\ Len(q) \in Nat
      /\ Len(q) >= 1
  <2>1. Head(q) \in Request /\ Head(q) = q[1] /\ Len(q) \in Nat /\ Len(q) >= 1
    OBVIOUS
  <2> QED
    BY <2>1 DEF Request
<1>2. DOMAIN q = 1..Len(q) /\ DOMAIN Tail(q) = 1 .. (Len(q) - 1)
  OBVIOUS
<1>3. \A i \in DOMAIN Tail(q) : i + 1 \in DOMAIN q /\ Tail(q)[i] = q[i + 1] /\ 1 < i + 1
  BY <1>2
<1>4. \A i \in DOMAIN q : i = 1 \/ (i - 1 \in DOMAIN Tail(q) /\ Tail(q)[i - 1] = q[i])
  BY <1>1, <1>2
<1>5. 1 \in DOMAIN q
  BY <1>1, <1>2
<1>6. Waiting(q) = Waiting(Tail(q)) \cup {Head(q).id}
  BY <1>1, <1>3, <1>4, <1>5 DEF Waiting
<1>7. ASSUME Ascending(q)
      PROVE  Ascending(Tail(q)) /\ \A id \in Waiting(Tail(q)) : Head(q).id < id
  <2>1. \A i, j \in DOMAIN Tail(q) : i < j => i + 1 < j + 1
    BY <1>2
  <2>2. Ascending(Tail(q))
    BY <1>3, <1>7, <2>1 DEF Ascending
  <2>3. \A i \in DOMAIN Tail(q) : q[1].id < q[i + 1].id
    BY <1>3, <1>5, <1>7 DEF Ascending
  <2>4. \A id \in Waiting(Tail(q)) : Head(q).id < id
    BY <1>1, <1>3, <2>3 DEF Waiting
  <2> QED
    BY <2>2, <2>4
<1> QED
  BY <1>6, <1>7

LEMMA WaitingAppend ==
  ASSUME NEW q \in Seq(Request), NEW r \in Request
  PROVE  /\ Append(q, r) \in Seq(Request)
         /\ Waiting(Append(q, r)) = Waiting(q) \cup {r.id}
         /\ Ascending(q) /\ (\A id \in Waiting(q) : id < r.id) => Ascending(Append(q, r))
<1>1. r.id \in Ids /\ Len(q) \in Nat
  BY DEF Request
<1>2. DOMAIN q = 1..Len(q) /\ DOMAIN Append(q, r) = 1 .. (Len(q) + 1)
      /\ Append(q, r) \in Seq(Request)
  OBVIOUS
<1>3. \A i \in DOMAIN q : Append(q, r)[i] = q[i] /\ i \in DOMAIN Append(q, r)
      /\ q[i].id \in Ids
  <2>1. \A i \in DOMAIN q : Append(q, r)[i] = q[i] /\ q[i] \in Request
    OBVIOUS
  <2> QED
    BY <1>2, <2>1 DEF Request
<1>4. Append(q, r)[Len(q) + 1] = r /\ Len(q) + 1 \in DOMAIN Append(q, r)
  BY <1>1, <1>2
<1>5. \A i \in DOMAIN Append(q, r) : i \in DOMAIN q \/ i = Len(q) + 1
  BY <1>1, <1>2
<1>6. Waiting(Append(q, r)) = Waiting(q) \cup {r.id}
  BY <1>1, <1>3, <1>4, <1>5 DEF Waiting
<1>7. ASSUME Ascending(q), \A id \in Waiting(q) : id < r.id
      PROVE  Ascending(Append(q, r))
  <2>1. \A i \in DOMAIN q : q[i].id < r.id
    BY <1>3, <1>7 DEF Waiting
  <2>2. \A i, j \in DOMAIN Append(q, r) : i < j => i \in DOMAIN q
    BY <1>1, <1>2
  <2> QED
    BY <1>3, <1>4, <1>5, <1>7, <2>1, <2>2 DEF Ascending
<1> QED
  BY <1>2, <1>6, <1>7

\* A subsequence has the requests at its indices, in the order they had.
LEMMA SubsequencePicks ==
  ASSUME NEW q \in Seq(Request), NEW K \in SUBSET DOMAIN q
  PROVE  LET s == SubsequenceAt(q, K)
         IN /\ s \in Seq(Request)
            /\ Waiting(s) = {id \in Ids : \E i \in K : q[i].id = id}
            /\ Ascending(q) => Ascending(s)
<1> DEFINE Below(i) == {j \in K : j < i}
           At(k) == CHOOSE i \in K : Cardinality({j \in K : j < i}) = k - 1
           s == SubsequenceAt(q, K)
<1>1. Len(q) \in Nat /\ DOMAIN q = 1..Len(q)
  OBVIOUS
<1>2. \A i \in K : i \in Nat
  BY <1>1
<1>3. IsFiniteSet(K) /\ Cardinality(K) \in Nat
  <2>1. IsFiniteSet(DOMAIN q)
    BY <1>1, FS_Interval
  <2>2. IsFiniteSet(K)
    BY <2>1, FS_Subset
  <2> QED
    BY <2>2, FS_CardinalityType
<1>4. \A k \in 1..Cardinality(K) : At(k) \in K /\ Cardinality(Below(At(k))) = k - 1
  BY ZenonT(60), <1>1, KthIndexExists
<1>5. \A i \in K : IsFiniteSet(Below(i)) /\ Cardinality(Below(i)) \in Nat
  BY <1>3, FS_Subset, FS_CardinalityType
<1>6. ASSUME NEW i \in K, NEW j \in K, i < j
      PROVE  Cardinality(Below(i)) + 1 <= Cardinality(Below(j))
  <2>1. i \notin Below(i) /\ Below(i) \cup {i} \subseteq Below(j)
    BY <1>2, <1>6
  <2>2. Cardinality(Below(i) \cup {i}) = Cardinality(Below(i)) + 1
    <3> HIDE DEF Below
    <3> QED
      BY <2>1, <1>5, FS_AddElement
  <2>3. Cardinality(Below(i) \cup {i}) <= Cardinality(Below(j))
    <3> HIDE DEF Below
    <3> QED
      BY <2>1, <1>5, FS_Subset
  <2> QED
    BY <2>2, <2>3
<1>7. \A i \in K : Cardinality(Below(i)) + 1 \in 1..Cardinality(K)
  <2> SUFFICES ASSUME NEW i \in K
               PROVE  Cardinality(Below(i)) + 1 \in 1..Cardinality(K)
    OBVIOUS
  <2>1. i \notin Below(i) /\ Below(i) \cup {i} \subseteq K
    BY <1>2
  <2>2. Cardinality(Below(i) \cup {i}) = Cardinality(Below(i)) + 1
    <3> HIDE DEF Below
    <3> QED
      BY <2>1, <1>5, FS_AddElement
  <2>3. Cardinality(Below(i) \cup {i}) <= Cardinality(K)
    <3> HIDE DEF Below
    <3> QED
      BY <2>1, <1>3, FS_Subset
  <2>4. Cardinality(Below(i)) \in Nat
    BY <1>5
  <2> HIDE DEF Below
  <2> QED
    BY <2>2, <2>3, <2>4, <1>3
<1>8. DOMAIN s = 1..Cardinality(K) /\ \A k \in DOMAIN s : s[k] = q[At(k)]
  BY DEF SubsequenceAt
<1>9. s \in Seq(Request)
  BY SubsequenceType
<1> HIDE DEF s, At
<1>10. \A i \in K : \E k \in DOMAIN s : s[k] = q[i]
  <2> SUFFICES ASSUME NEW i \in K
               PROVE  \E k \in DOMAIN s : s[k] = q[i]
    OBVIOUS
  <2> DEFINE k == Cardinality(Below(i)) + 1
  <2>1. k \in 1..Cardinality(K)
    BY <1>7
  <2>2. At(k) \in K /\ Cardinality(Below(At(k))) = Cardinality(Below(i))
    <3>1. At(k) \in K /\ Cardinality(Below(At(k))) = k - 1
      BY <2>1, <1>4
    <3>2. Cardinality(Below(i)) \in Nat
      BY <1>5
    <3>3. k - 1 = Cardinality(Below(i))
      <4> HIDE DEF Below
      <4> QED
        BY <3>2
    <3> QED
      BY <3>1, <3>3
  <2>3. ~(At(k) < i) /\ ~(i < At(k))
    <3>1. Cardinality(Below(i)) \in Nat /\ Cardinality(Below(At(k))) \in Nat
      BY <1>5, <2>2
    <3> HIDE DEF k, Below
    <3> QED
      BY <2>2, <3>1, <1>6
  <2>4. At(k) = i
    <3> HIDE DEF k
    <3> QED
      BY <2>2, <2>3, <1>2
  <2> HIDE DEF k
  <2> QED
    BY <2>1, <2>4, <1>8
<1>11. Waiting(s) = {id \in Ids : \E i \in K : q[i].id = id}
  BY <1>4, <1>8, <1>10 DEF Waiting
<1>12. ASSUME Ascending(q)
       PROVE  Ascending(s)
  <2> SUFFICES ASSUME NEW k \in DOMAIN s, NEW l \in DOMAIN s, k < l
               PROVE  s[k].id < s[l].id
    BY DEF Ascending
  <2>1. At(k) \in K /\ At(l) \in K /\ k \in Nat /\ l \in Nat
        /\ Cardinality(Below(At(k))) = k - 1 /\ Cardinality(Below(At(l))) = l - 1
    BY <1>4, <1>8
  <2>2. At(k) # At(l)
    <3> HIDE DEF Below
    <3> QED
      BY <2>1
  <2>3. ~(At(l) < At(k))
    <3> HIDE DEF Below
    <3> QED
      BY <2>1, <1>6
  <2>4. At(k) < At(l)
    BY <2>1, <2>2, <2>3, <1>2
  <2>5. At(k) \in DOMAIN q /\ At(l) \in DOMAIN q
    BY <2>1
  <2> QED
    BY <2>4, <2>5, <1>8, <1>12 DEF Ascending
<1> QED
  BY <1>9, <1>11, <1>12 DEF s

\* What is taken from a queue and what stays in it make up the queue.
LEMMA SubsequencesSplit ==
  ASSUME NEW q \in Seq(Request), Ascending(q), NEW K \in SUBSET DOMAIN q
  PROVE  LET taken == SubsequenceAt(q, K)
             rest == SubsequenceAt(q, DOMAIN q \ K)
         IN /\ taken \in Seq(Request) /\ rest \in Seq(Request)
            /\ Ascending(taken) /\ Ascending(rest)
            /\ Waiting(taken) \cup Waiting(rest) = Waiting(q)
            /\ Waiting(taken) \cap Waiting(rest) = {}
            /\ K = DOMAIN q => rest = <<>>
<1> DEFINE taken == SubsequenceAt(q, K)
           rest == SubsequenceAt(q, DOMAIN q \ K)
<1>1. /\ taken \in Seq(Request) /\ Ascending(taken)
      /\ Waiting(taken) = {id \in Ids : \E i \in K : q[i].id = id}
  BY SubsequencePicks
<1>2. /\ rest \in Seq(Request) /\ Ascending(rest)
      /\ Waiting(rest) = {id \in Ids : \E i \in DOMAIN q \ K : q[i].id = id}
  BY SubsequencePicks
<1> HIDE DEF taken, rest
<1>3. \A i, j \in DOMAIN q : q[i].id = q[j].id => i = j
  <2>1. \A i \in DOMAIN q : i \in Nat /\ q[i].id \in Nat
    <3>1. \A i \in DOMAIN q : q[i] \in Request
      OBVIOUS
    <3> QED
      BY <3>1 DEF Request, Ids
  <2>2. \A i, j \in DOMAIN q : i < j => q[i].id < q[j].id
    BY DEF Ascending
  <2> QED
    BY <2>1, <2>2
<1>4. Waiting(taken) \cup Waiting(rest) = Waiting(q)
  BY <1>1, <1>2 DEF Waiting
<1>5. Waiting(taken) \cap Waiting(rest) = {}
  BY <1>1, <1>2, <1>3
<1>6. K = DOMAIN q => rest = <<>>
  BY <1>2, WaitingNone
<1> QED
  BY <1>1, <1>2, <1>4, <1>5, <1>6 DEF taken, rest

-----------------------------------------------------------------------------
(***************************************************************************)
(* Sequences of signals.                                                   *)
(***************************************************************************)
LEMMA ConcatIndices ==
  ASSUME NEW A \in Seq(Signal), NEW B \in Seq(Signal)
  PROVE  /\ A \o B \in Seq(Signal) /\ Len(A) \in Nat /\ Len(A \o B) >= Len(A)
         /\ \A i \in DOMAIN A : i \in DOMAIN (A \o B) /\ (A \o B)[i] = A[i]
         /\ \A i \in DOMAIN B : Len(A) + i \in DOMAIN (A \o B) /\ (A \o B)[Len(A) + i] = B[i]
         /\ \A i \in DOMAIN (A \o B) :
              i \in DOMAIN A \/ (i > Len(A) /\ i - Len(A) \in DOMAIN B
                                 /\ (A \o B)[i] = B[i - Len(A)])
OBVIOUS

LEMMA ConcatTold ==
  ASSUME NEW A \in Seq(Signal), NEW B \in Seq(Signal)
  PROVE  /\ Reported(A \o B) = Reported(A) \cup Reported(B)
         /\ Told(A \o B) = Told(A) \cup Told(B)
         /\ OneResultEach(A) /\ OneResultEach(B) /\ Reported(A) \cap Reported(B) = {}
              => OneResultEach(A \o B)
         /\ Truthful(A) /\ Truthful(B) => Truthful(A \o B)
<1> DEFINE C == A \o B
<1>1. /\ \A i \in DOMAIN A : i \in DOMAIN C /\ C[i] = A[i]
      /\ \A i \in DOMAIN B : Len(A) + i \in DOMAIN C /\ C[Len(A) + i] = B[i]
      /\ \A i \in DOMAIN C : i \in DOMAIN A \/ (i > Len(A) /\ i - Len(A) \in DOMAIN B
                                                 /\ C[i] = B[i - Len(A)])
  BY ConcatIndices
<1>2. C \in Seq(Signal) /\ \A i \in DOMAIN C : i \in Nat /\ C[i] \in Signal
  BY ConcatIndices
<1>3. Len(A) \in Nat /\ \A i \in DOMAIN A : i \in Nat
  OBVIOUS
<1> HIDE DEF C
<1>4. Reported(C) = Reported(A) \cup Reported(B)
  BY <1>1 DEF Reported
<1>5. Told(C) = Told(A) \cup Told(B)
  BY <1>1 DEF Told
<1>6. Truthful(A) /\ Truthful(B) => Truthful(C)
  BY <1>1 DEF Truthful
<1>7. ASSUME OneResultEach(A), OneResultEach(B), Reported(A) \cap Reported(B) = {}
      PROVE  OneResultEach(C)
  <2> SUFFICES ASSUME NEW i \in DOMAIN C, NEW j \in DOMAIN C,
                      IsResult(C[i]), IsResult(C[j]), C[i].id = C[j].id
               PROVE  i = j
    BY DEF OneResultEach
  <2>1. C[i].id \in Ids
    BY <1>2 DEF IsResult, Signal
  <2>2. CASE i \in DOMAIN A /\ j \in DOMAIN A
    BY <2>2, <1>1, <1>7 DEF OneResultEach
  <2>3. CASE i \notin DOMAIN A /\ j \notin DOMAIN A
    <3>1. i - Len(A) = j - Len(A)
      BY <2>3, <1>1, <1>7 DEF OneResultEach
    <3> QED
      BY <3>1, <1>2, <1>3
  <2>4. CASE i \in DOMAIN A /\ j \notin DOMAIN A
    <3>1. C[i].id \in Reported(A) /\ C[i].id \in Reported(B)
      BY <2>1, <2>4, <1>1 DEF Reported
    <3> QED
      BY <3>1, <1>7
  <2>5. CASE i \notin DOMAIN A /\ j \in DOMAIN A
    <3>1. C[i].id \in Reported(A) /\ C[i].id \in Reported(B)
      BY <2>1, <2>5, <1>1 DEF Reported
    <3> QED
      BY <3>1, <1>7
  <2> QED
    BY <2>2, <2>3, <2>4, <2>5
<1> QED
  BY <1>4, <1>5, <1>6, <1>7 DEF C

\* The signals of finalize().
Results(q, state, from) ==
  [i \in 1 .. 2 * Len(q) |->
     IF i % 2 = 1 THEN StateSignal(q[(i + 1) \div 2].id, state)
                  ELSE CompletedSignal(q[i \div 2].id, state, from)]

LEMMA ResultsTell ==
  ASSUME NEW q \in Seq(Request), NEW state \in TerminalState, NEW from \in Ids \cup {Noise}
  PROVE  LET news == Results(q, state, from)
         IN /\ news \in Seq(Signal)
            /\ Reported(news) = Waiting(q) /\ Told(news) = Waiting(q)
            /\ Ascending(q) => OneResultEach(news)
            /\ (state # "Succeeded" \/ \A k \in DOMAIN q : q[k].id = from) => Truthful(news)
            /\ \A i \in DOMAIN news : ~IsUp(news[i]) /\ ~IsDown(news[i])
<1> DEFINE news == Results(q, state, from)
<1>1. DOMAIN q = 1..Len(q) /\ Len(q) \in Nat
  OBVIOUS
<1>2. \A k \in DOMAIN q : q[k].id \in Ids /\ q[k].id \in Nat
  <2>1. \A k \in DOMAIN q : q[k] \in Request
    OBVIOUS
  <2> QED
    BY <2>1 DEF Request, Ids
<1>3. DOMAIN news = 1 .. 2 * Len(q)
  BY DEF Results
<1>4. ASSUME NEW i \in DOMAIN news, i % 2 = 1
      PROVE  /\ (i + 1) \div 2 \in DOMAIN q
             /\ news[i] = StateSignal(q[(i + 1) \div 2].id, state)
  <2>1. (i + 1) \div 2 \in DOMAIN q
    BY <1>1, <1>3, <1>4
  <2> QED
    BY <1>3, <1>4, <2>1 DEF Results
<1>5. ASSUME NEW i \in DOMAIN news, i % 2 # 1
      PROVE  /\ i \div 2 \in DOMAIN q /\ i = 2 * (i \div 2)
             /\ news[i] = CompletedSignal(q[i \div 2].id, state, from)
  <2>1. i \div 2 \in DOMAIN q /\ i = 2 * (i \div 2)
    BY <1>1, <1>3, <1>5
  <2> QED
    BY <1>3, <1>5, <2>1 DEF Results
<1>6. ASSUME NEW k \in DOMAIN q
      PROVE  /\ 2 * k \in DOMAIN news
             /\ news[2 * k] = CompletedSignal(q[k].id, state, from)
  <2>1. k \in Nat /\ 2 * k \in DOMAIN news /\ (2 * k) % 2 # 1 /\ (2 * k) \div 2 = k
    BY <1>1, <1>3
  <2> QED
    BY <1>3, <2>1 DEF Results
<1> HIDE DEF news
<1>7. \A i \in DOMAIN news :
        \/ i % 2 = 1 /\ ~IsResult(news[i]) /\ ~IsUp(news[i]) /\ ~IsDown(news[i])
           /\ Tells(news[i]) /\ \E k \in DOMAIN q : news[i].id = q[k].id
        \/ i % 2 # 1 /\ IsResult(news[i]) /\ ~IsUp(news[i]) /\ ~IsDown(news[i])
           /\ Tells(news[i]) /\ i = 2 * (i \div 2) /\ i \div 2 \in DOMAIN q
           /\ news[i].id = q[i \div 2].id /\ news[i].state = state /\ news[i].from = from
  <2> SUFFICES ASSUME NEW i \in DOMAIN news
               PROVE
                 \/ i % 2 = 1 /\ ~IsResult(news[i]) /\ ~IsUp(news[i]) /\ ~IsDown(news[i])
                    /\ Tells(news[i]) /\ \E k \in DOMAIN q : news[i].id = q[k].id
                 \/ i % 2 # 1 /\ IsResult(news[i]) /\ ~IsUp(news[i]) /\ ~IsDown(news[i])
                    /\ Tells(news[i]) /\ i = 2 * (i \div 2) /\ i \div 2 \in DOMAIN q
                    /\ news[i].id = q[i \div 2].id /\ news[i].state = state
                    /\ news[i].from = from
    OBVIOUS
  <2>1. CASE i % 2 = 1
    <3> DEFINE k == (i + 1) \div 2
    <3>1. k \in DOMAIN q /\ news[i] = StateSignal(q[k].id, state)
      BY <2>1, <1>4
    <3> HIDE DEF k
    <3> QED
      BY <2>1, <3>1 DEF StateSignal, IsResult, IsUp, IsDown, Tells
  <2>2. CASE i % 2 # 1
    <3>1. i \div 2 \in DOMAIN q /\ i = 2 * (i \div 2)
          /\ news[i] = CompletedSignal(q[i \div 2].id, state, from)
      BY <2>2, <1>5
    <3> QED
      BY <2>2, <3>1 DEF CompletedSignal, IsResult, IsUp, IsDown, Tells
  <2> QED
    BY <2>1, <2>2
<1>8. \A k \in DOMAIN q : 2 * k \in DOMAIN news /\ IsResult(news[2 * k])
        /\ Tells(news[2 * k]) /\ news[2 * k].id = q[k].id
  <2> SUFFICES ASSUME NEW k \in DOMAIN q
               PROVE  2 * k \in DOMAIN news /\ IsResult(news[2 * k])
                      /\ Tells(news[2 * k]) /\ news[2 * k].id = q[k].id
    OBVIOUS
  <2> DEFINE i == 2 * k
  <2>1. i \in DOMAIN news /\ news[i] = CompletedSignal(q[k].id, state, from)
    BY <1>6
  <2> HIDE DEF i
  <2>2. IsResult(news[i]) /\ Tells(news[i]) /\ news[i].id = q[k].id
    BY <2>1 DEF CompletedSignal, IsResult, Tells
  <2> QED
    BY <2>1, <2>2 DEF i
<1>9. Reported(news) = Waiting(q)
  <2>1. Reported(news) \subseteq Waiting(q)
    BY <1>7 DEF Reported, Waiting
  <2>2. Waiting(q) \subseteq Reported(news)
    BY <1>8 DEF Reported, Waiting
  <2> QED
    BY <2>1, <2>2
<1>10. Told(news) = Waiting(q)
  <2>1. Told(news) \subseteq Waiting(q)
    BY <1>7 DEF Told, Waiting
  <2>2. Waiting(q) \subseteq Told(news)
    BY <1>8 DEF Told, Waiting
  <2> QED
    BY <2>1, <2>2
<1>11. ASSUME Ascending(q)
       PROVE  OneResultEach(news)
  <2> SUFFICES ASSUME NEW i \in DOMAIN news, NEW j \in DOMAIN news,
                      IsResult(news[i]), IsResult(news[j]), news[i].id = news[j].id
               PROVE  i = j
    BY DEF OneResultEach
  <2> DEFINE k == i \div 2
             l == j \div 2
  <2>1. k \in DOMAIN q /\ l \in DOMAIN q /\ i = 2 * k /\ j = 2 * l /\ q[k].id = q[l].id
    BY <1>7
  <2> HIDE DEF k, l
  <2>2. ~(k < l) /\ ~(l < k)
    <3>1. k < l => q[k].id < q[l].id
      BY <2>1, <1>11 DEF Ascending
    <3>2. l < k => q[l].id < q[k].id
      BY <2>1, <1>11 DEF Ascending
    <3> QED
      BY <2>1, <3>1, <3>2, <1>2
  <2> QED
    BY <2>1, <2>2, <1>1
<1>12. (state # "Succeeded" \/ \A k \in DOMAIN q : q[k].id = from) => Truthful(news)
  BY <1>7 DEF Truthful
<1>13. news \in Seq(Signal)
  <2>1. \A i \in DOMAIN news : news[i] \in Signal
    <3>1. state \in RequestState \ {"Queued"}
      BY DEF RequestState, TerminalState
    <3> SUFFICES ASSUME NEW i \in DOMAIN news
                 PROVE  news[i] \in Signal
      OBVIOUS
    <3>2. CASE i % 2 = 1
      BY <3>1, <3>2, <1>2, <1>4, SignalTypes DEF news
    <3>3. CASE i % 2 # 1
      BY <3>3, <1>2, <1>5, SignalTypes DEF news
    <3> QED
      BY <3>2, <3>3
  <2>2. 2 * Len(q) \in Nat
    BY <1>1
  <2>3. news = [i \in 1 .. 2 * Len(q) |-> news[i]]
    BY DEF news, Results
  <2> QED
    BY <1>3, <2>1, <2>2, <2>3
<1> QED
  BY <1>7, <1>9, <1>10, <1>11, <1>12, <1>13 DEF news

\* Signals about the connection, an operation or the owner concern no request.
Plain(news) == news \in Seq(Signal) /\ \A i \in DOMAIN news : ~Tells(news[i])

LEMMA PlainTells ==
  ASSUME NEW news, Plain(news)
  PROVE  /\ Reported(news) = {} /\ Told(news) = {}
         /\ OneResultEach(news) /\ Truthful(news)
<1>1. \A i \in DOMAIN news : ~IsResult(news[i])
  BY DEF Plain, Tells, IsResult
<1> QED
  BY <1>1 DEF Plain, Reported, Told, OneResultEach, Truthful

LEMMA PlainSignals ==
  /\ \A s \in ConnectionState : ConnectionSignal(s) \in Signal /\ ~Tells(ConnectionSignal(s))
  /\ \A op \in OpIds, c \in {"Open", "Close"}, ok \in BOOLEAN :
       LET s == ControlSignal(op, c, ok)
       IN s \in Signal /\ ~Tells(s) /\ ~IsUp(s) /\ ~IsDown(s)
  /\ \A op \in OpIds, o \in OwnerOrNone, ok \in BOOLEAN :
       LET s == OwnershipSignal(op, o, ok)
       IN s \in Signal /\ ~Tells(s) /\ ~IsUp(s) /\ ~IsDown(s)
<1>1. \A s \in ConnectionState : ~Tells(ConnectionSignal(s))
  BY DEF ConnectionSignal, Tells
<1>2. \A op, c, ok : LET s == ControlSignal(op, c, ok)
                     IN ~Tells(s) /\ ~IsUp(s) /\ ~IsDown(s)
  BY DEF ControlSignal, Tells, IsUp, IsDown
<1>3. \A op, o, ok : LET s == OwnershipSignal(op, o, ok)
                     IN ~Tells(s) /\ ~IsUp(s) /\ ~IsDown(s)
  BY DEF OwnershipSignal, Tells, IsUp, IsDown
<1> QED
  BY <1>1, <1>2, <1>3, SignalTypes

LEMMA PlainSequences ==
  ASSUME NEW s \in Signal, ~Tells(s)
  PROVE  /\ Plain(<<s>>)
         /\ \A t \in Signal : ~Tells(t) => Plain(<<s, t>>)
BY SignalSequences DEF Plain

-----------------------------------------------------------------------------
(***************************************************************************)
(* What a handler of the worker keeps.                                     *)
(***************************************************************************)
Extends(w, v) ==
  /\ Len(v.outbox) >= Len(w.outbox)
  /\ \A i \in DOMAIN w.outbox : i \in DOMAIN v.outbox /\ v.outbox[i] = w.outbox[i]

\* The signals v adds to those of w bring no connection up, or none down.
NoRise(w, v) == \A i \in DOMAIN v.outbox : i > Len(w.outbox) => ~IsUp(v.outbox[i])
NoFall(w, v) == \A i \in DOMAIN v.outbox : i > Len(w.outbox) => ~IsDown(v.outbox[i])

\* Requests are handed on, and none is lost or made.
Carries(w, v) ==
  /\ Held(v) = Held(w) /\ Pending(v) \subseteq Pending(w)
  /\ Waiting(v.queue) \subseteq Waiting(w.queue)
  /\ Told(v.outbox) \subseteq Told(w.outbox) \cup Pending(w)

\* The connection comes down by a close only, and stays down.
Descends(w, v) ==
  /\ Extends(w, v) /\ NoRise(w, v)
  /\ v.closing \in {0, w.closing}
  /\ NoFall(w, v) \/ (w.closing # 0 /\ Dead(v))
  /\ Dead(w) => Dead(v)

Keeps(w, v) ==
  /\ Sane(v) /\ Carries(w, v) /\ Descends(w, v)
  /\ Shut(w) => Shut(v)
  /\ Served(w) => Served(v)

LEMMA OutboxTypes ==
  ASSUME NEW w \in Worker
  PROVE  /\ w.outbox \in Seq(Signal) /\ w.queue \in Seq(Request)
         /\ Len(w.outbox) \in Nat /\ DOMAIN w.outbox = 1..Len(w.outbox)
<1>1. w.outbox \in Seq(Signal) /\ w.queue \in Seq(Request)
  BY DEF Worker
<1> QED
  BY <1>1

LEMMA CarriesTransitive ==
  ASSUME NEW w, NEW u, NEW v, Carries(w, u), Carries(u, v)
  PROVE  Carries(w, v)
BY DEF Carries

LEMMA ExtendsTransitive ==
  ASSUME NEW w \in Worker, NEW u \in Worker, NEW v \in Worker,
         Extends(w, u), Extends(u, v)
  PROVE  /\ Extends(w, v)
         /\ NoRise(w, u) /\ NoRise(u, v) => NoRise(w, v)
         /\ NoFall(w, u) /\ NoFall(u, v) => NoFall(w, v)
<1>1. /\ Len(w.outbox) \in Nat /\ Len(u.outbox) \in Nat /\ Len(v.outbox) \in Nat
      /\ DOMAIN u.outbox = 1..Len(u.outbox) /\ DOMAIN v.outbox = 1..Len(v.outbox)
  BY OutboxTypes
<1>2. Extends(w, v)
  BY <1>1 DEF Extends
<1>3. \A i \in DOMAIN v.outbox :
        i \in Nat /\ (i \notin DOMAIN u.outbox => i > Len(u.outbox))
  BY <1>1
<1>4. \A i \in DOMAIN u.outbox : v.outbox[i] = u.outbox[i]
  BY DEF Extends
<1>5. NoRise(w, u) /\ NoRise(u, v) => NoRise(w, v)
  BY <1>3, <1>4 DEF NoRise
<1>6. NoFall(w, u) /\ NoFall(u, v) => NoFall(w, v)
  BY <1>3, <1>4 DEF NoFall
<1> QED
  BY <1>2, <1>5, <1>6

LEMMA DescendsTransitive ==
  ASSUME NEW w \in Worker, NEW u \in Worker, NEW v \in Worker,
         Descends(w, u), Descends(u, v)
  PROVE  Descends(w, v)
<1>1. Extends(w, v) /\ NoRise(w, v) /\ (NoFall(w, u) /\ NoFall(u, v) => NoFall(w, v))
  BY ExtendsTransitive DEF Descends
<1> QED
  BY <1>1 DEF Descends, Dead

LEMMA KeepsTransitive ==
  ASSUME NEW w, Sane(w), NEW u, Keeps(w, u), NEW v, Keeps(u, v)
  PROVE  Keeps(w, v)
<1>1. w \in Worker /\ u \in Worker /\ v \in Worker
  BY DEF Keeps, Sane
<1>2. Carries(w, v)
  BY CarriesTransitive DEF Keeps
<1>3. Descends(w, v)
  BY <1>1, DescendsTransitive DEF Keeps
<1> QED
  BY <1>2, <1>3 DEF Keeps

\* Adding signals extends the sequence of signals.
LEMMA AddsExtends ==
  ASSUME NEW w \in Worker, NEW v \in Worker, NEW news \in Seq(Signal),
         v.outbox = w.outbox \o news
  PROVE  /\ Extends(w, v)
         /\ (\A i \in DOMAIN news : ~IsUp(news[i])) => NoRise(w, v)
         /\ (\A i \in DOMAIN news : ~IsDown(news[i])) => NoFall(w, v)
<1> DEFINE A == w.outbox
           C == v.outbox
<1>1. /\ A \in Seq(Signal) /\ C = A \o news
      /\ Len(A) \in Nat /\ DOMAIN A = 1..Len(A)
  BY OutboxTypes
<1>2. /\ Len(C) >= Len(A)
      /\ \A i \in DOMAIN A : i \in DOMAIN C /\ C[i] = A[i]
      /\ \A i \in DOMAIN C : i \in DOMAIN A \/ (i > Len(A) /\ i - Len(A) \in DOMAIN news
                                                 /\ C[i] = news[i - Len(A)])
  BY <1>1, ConcatIndices
<1> HIDE DEF A, C
<1>3. \A i \in DOMAIN C : i > Len(A) => i - Len(A) \in DOMAIN news /\ C[i] = news[i - Len(A)]
  <2>1. \A i \in DOMAIN A : ~(i > Len(A))
    BY <1>1
  <2> QED
    BY <1>2, <2>1
<1>4. /\ Extends(w, v)
      /\ \A i \in DOMAIN v.outbox : i > Len(w.outbox) =>
           i - Len(w.outbox) \in DOMAIN news /\ v.outbox[i] = news[i - Len(w.outbox)]
  BY <1>2, <1>3 DEF A, C, Extends
<1> QED
  BY <1>4 DEF NoRise, NoFall

\* Nothing said.
LEMMA SilentExtends ==
  ASSUME NEW w \in Worker, NEW v \in Worker, v.outbox = w.outbox
  PROVE  Extends(w, v) /\ NoRise(w, v) /\ NoFall(w, v)
<1>1. Len(w.outbox) \in Nat /\ DOMAIN w.outbox = 1..Len(w.outbox)
  BY OutboxTypes
<1>2. \A i \in DOMAIN w.outbox : ~(i > Len(w.outbox))
  BY <1>1
<1> QED
  BY <1>1, <1>2 DEF Extends, NoRise, NoFall

LEMMA ReportedIsTold ==
  ASSUME NEW out
  PROVE  Reported(out) \subseteq Told(out) /\ Told(out) \subseteq Ids
BY DEF Reported, Told, IsResult, Tells

\* The ids of a worker's requests.
LEMMA WorkerIds ==
  ASSUME NEW w \in Worker
  PROVE  /\ Waiting(w.queue) \subseteq Ids
         /\ w.active # NoRequest => w.active \in Request /\ w.active.id \in Ids
         /\ NoRequest.id = 0 /\ 0 \notin Ids
         /\ Pending(w) = Waiting(w.queue) \cup
                           (IF w.active = NoRequest THEN {} ELSE {w.active.id})
         /\ Idle(w) <=> Pending(w) = {}
<1>1. w.queue \in Seq(Request) /\ w.active \in Request \cup {NoRequest}
  BY DEF Worker
<1>2. w.active # NoRequest => w.active \in Request /\ w.active.id \in Ids
  BY <1>1 DEF Request
<1>3. NoRequest.id = 0 /\ 0 \notin Ids
  BY DEF NoRequest, Ids
<1>4. w.queue = <<>> <=> Waiting(w.queue) = {}
  BY <1>1, WaitingNone
<1>5. Pending(w) = Waiting(w.queue) \cup (IF w.active = NoRequest THEN {} ELSE {w.active.id})
  BY <1>2, <1>3 DEF Pending
<1> QED
  BY <1>2, <1>3, <1>4, <1>5 DEF Waiting, Idle

-----------------------------------------------------------------------------
(***************************************************************************)
(* The ways requests are handed on.                                        *)
(***************************************************************************)

\* Queue and active request stay, and the signals concern no request.
LEMMA SameWork ==
  ASSUME NEW w, Tidy(w), NEW v,
         w \in Worker, v \in Worker, v.queue = w.queue, v.active = w.active,
         NEW news, Plain(news), v.outbox = w.outbox \o news
  PROVE  /\ Tidy(v) /\ Carries(w, v)
         /\ Truthful(w.outbox) => Truthful(v.outbox)
<1>1. w.outbox \in Seq(Signal) /\ news \in Seq(Signal)
  BY OutboxTypes DEF Plain
<1>2. /\ Reported(v.outbox) = Reported(w.outbox) /\ Told(v.outbox) = Told(w.outbox)
      /\ OneResultEach(w.outbox) => OneResultEach(v.outbox)
      /\ Truthful(w.outbox) => Truthful(v.outbox)
  <2>1. Reported(news) = {} /\ Told(news) = {} /\ OneResultEach(news) /\ Truthful(news)
    BY PlainTells
  <2>2. Reported(v.outbox) = Reported(w.outbox) \cup Reported(news)
        /\ Told(v.outbox) = Told(w.outbox) \cup Told(news)
    BY <1>1, ConcatTold
  <2>3. Reported(w.outbox) \cap Reported(news) = {}
    BY <2>1
  <2>4. OneResultEach(w.outbox) => OneResultEach(v.outbox)
    BY <1>1, <2>1, <2>3, ConcatTold
  <2>5. Truthful(w.outbox) => Truthful(v.outbox)
    BY <1>1, <2>1, ConcatTold
  <2> QED
    BY <2>1, <2>2, <2>4, <2>5
<1> QED
  BY <1>2 DEF Tidy, Carries, Held, Pending

LEMMA SameWorkSilent ==
  ASSUME NEW w, Tidy(w), NEW v,
         v.queue = w.queue, v.active = w.active, v.outbox = w.outbox
  PROVE  Tidy(v) /\ Carries(w, v)
BY DEF Tidy, Carries, Held, Pending

\* The active request ends with its result.
LEMMA ActiveHandedOn ==
  ASSUME NEW w, Tidy(w), NEW v, w \in Worker, v \in Worker, w.active # NoRequest,
         v.queue = w.queue, v.active = NoRequest,
         NEW state \in TerminalState, NEW from \in Ids \cup {Noise},
         v.outbox = w.outbox \o Results(<<w.active>>, state, from)
  PROVE  /\ Tidy(v) /\ Carries(w, v) /\ Extends(w, v) /\ NoRise(w, v) /\ NoFall(w, v)
         /\ Truthful(w.outbox) /\ (state # "Succeeded" \/ from = w.active.id)
              => Truthful(v.outbox)
<1> DEFINE news == Results(<<w.active>>, state, from)
<1>1. w.active \in Request /\ w.active.id \in Ids /\ 0 \notin Ids /\ v.active.id = 0
      /\ Waiting(w.queue) \subseteq Ids
  BY WorkerIds
<1>2. <<w.active>> \in Seq(Request) /\ Waiting(<<w.active>>) = {w.active.id}
      /\ Ascending(<<w.active>>)
  BY <1>1, WaitingOne
<1>3. /\ news \in Seq(Signal)
      /\ Reported(news) = {w.active.id} /\ Told(news) = {w.active.id}
      /\ OneResultEach(news)
      /\ state # "Succeeded" \/ from = w.active.id => Truthful(news)
      /\ \A i \in DOMAIN news : ~IsUp(news[i]) /\ ~IsDown(news[i])
  <2>1. /\ news \in Seq(Signal)
        /\ Reported(news) = {w.active.id} /\ Told(news) = {w.active.id}
        /\ OneResultEach(news)
        /\ (state # "Succeeded" \/ \A k \in DOMAIN <<w.active>> : <<w.active>>[k].id = from)
             => Truthful(news)
        /\ \A i \in DOMAIN news : ~IsUp(news[i]) /\ ~IsDown(news[i])
    BY <1>2, ResultsTell
  <2>2. \A k \in DOMAIN <<w.active>> : <<w.active>>[k] = w.active
    OBVIOUS
  <2> HIDE DEF news
  <2> QED
    BY <2>1, <2>2
<1> HIDE DEF news
<1>4. w.outbox \in Seq(Signal) /\ v.outbox = w.outbox \o news
  BY OutboxTypes DEF news
<1>5. w.active.id \notin Reported(w.outbox) /\ OneResultEach(w.outbox)
      /\ Ascending(w.queue) /\ Waiting(w.queue) \cap Told(w.outbox) = {}
      /\ \A id \in Waiting(w.queue) : w.active.id < id
  BY DEF Tidy
<1>6. /\ Reported(v.outbox) = Reported(w.outbox) \cup {w.active.id}
      /\ Told(v.outbox) = Told(w.outbox) \cup {w.active.id}
      /\ OneResultEach(v.outbox)
      /\ Truthful(w.outbox) /\ Truthful(news) => Truthful(v.outbox)
  <2>1. Reported(w.outbox) \cap Reported(news) = {}
    BY <1>3, <1>5
  <2>2. Reported(v.outbox) = Reported(w.outbox) \cup Reported(news)
        /\ Told(v.outbox) = Told(w.outbox) \cup Told(news)
    BY <1>3, <1>4, ConcatTold
  <2>3. OneResultEach(v.outbox)
    <3>1. /\ w.outbox \in Seq(Signal) /\ news \in Seq(Signal) /\ v.outbox = w.outbox \o news
          /\ OneResultEach(w.outbox) /\ OneResultEach(news)
      BY <1>3, <1>4, <1>5
    <3>2. OneResultEach(w.outbox \o news)
      BY <3>1, <2>1, ConcatTold
    <3> QED
      BY <3>1, <3>2
  <2>4. Truthful(w.outbox) /\ Truthful(news) => Truthful(v.outbox)
    BY <1>3, <1>4, ConcatTold
  <2> QED
    BY <2>2, <2>3, <2>4, <1>3
<1>7. Extends(w, v) /\ NoRise(w, v) /\ NoFall(w, v)
  BY <1>3, <1>4, AddsExtends
<1>8. Tidy(v)
  <2>1. \A id \in Waiting(w.queue) : 0 < id /\ id # w.active.id
    BY <1>1, <1>5 DEF Ids
  <2>2. 0 \notin Reported(v.outbox)
    BY <1>1, ReportedIsTold
  <2> QED
    BY <1>1, <1>5, <1>6, <2>1, <2>2 DEF Tidy
<1>9. Carries(w, v)
  BY <1>1, <1>6 DEF Carries, Held, Pending
<1> QED
  BY <1>3, <1>6, <1>7, <1>8, <1>9

\* Some requests leave the queue with their results.
LEMMA QueueHandedOn ==
  ASSUME NEW w, Tidy(w), NEW v, w \in Worker, v \in Worker,
         NEW taken \in Seq(Request), Ascending(taken), Ascending(v.queue),
         Waiting(taken) \cup Waiting(v.queue) = Waiting(w.queue),
         Waiting(taken) \cap Waiting(v.queue) = {},
         v.active = w.active, NEW state \in TerminalState, state # "Succeeded",
         v.outbox = w.outbox \o Results(taken, state, Noise)
  PROVE  /\ Tidy(v) /\ Carries(w, v) /\ Extends(w, v) /\ NoRise(w, v) /\ NoFall(w, v)
         /\ Truthful(w.outbox) => Truthful(v.outbox)
<1> DEFINE news == Results(taken, state, Noise)
<1>1. /\ news \in Seq(Signal)
      /\ Reported(news) = Waiting(taken) /\ Told(news) = Waiting(taken)
      /\ OneResultEach(news) /\ Truthful(news)
      /\ \A i \in DOMAIN news : ~IsUp(news[i]) /\ ~IsDown(news[i])
  BY ResultsTell
<1> HIDE DEF news
<1>2. w.outbox \in Seq(Signal) /\ v.outbox = w.outbox \o news
  BY OutboxTypes DEF news
<1>3. w.active.id \notin Reported(w.outbox) /\ OneResultEach(w.outbox)
      /\ Waiting(w.queue) \cap Told(w.outbox) = {}
      /\ \A id \in Waiting(w.queue) : w.active.id < id
  BY DEF Tidy
<1>4. Reported(w.outbox) \cap Reported(news) = {}
  BY <1>1, <1>3, ReportedIsTold
<1>5. /\ Reported(v.outbox) = Reported(w.outbox) \cup Waiting(taken)
      /\ Told(v.outbox) = Told(w.outbox) \cup Waiting(taken)
      /\ OneResultEach(v.outbox)
      /\ Truthful(w.outbox) => Truthful(v.outbox)
  BY <1>1, <1>2, <1>3, <1>4, ConcatTold
<1>6. Extends(w, v) /\ NoRise(w, v) /\ NoFall(w, v)
  BY <1>1, <1>2, AddsExtends
<1>7. w.active.id \notin Waiting(w.queue)
  <2>1. Waiting(w.queue) \subseteq Ids /\ \A id \in Ids : ~(id < id)
    BY WorkerIds DEF Ids
  <2> QED
    BY <2>1, <1>3
<1>8. Tidy(v)
  BY <1>3, <1>5, <1>7 DEF Tidy
<1>9. Carries(w, v)
  BY <1>5 DEF Carries, Held, Pending
<1> QED
  BY <1>5, <1>6, <1>8, <1>9

\* The first request of the queue becomes active.
LEMMA HeadHandedOn ==
  ASSUME NEW w, Tidy(w), NEW v, w \in Worker, v \in Worker,
         w.active = NoRequest, w.queue # <<>>,
         v.queue = Tail(w.queue), v.active = Head(w.queue),
         v.outbox = w.outbox \o <<StateSignal(Head(w.queue).id, "InFlight")>>
  PROVE  /\ Tidy(v) /\ Carries(w, v) /\ Extends(w, v) /\ NoRise(w, v) /\ NoFall(w, v)
         /\ Truthful(w.outbox) => Truthful(v.outbox)
<1> DEFINE id == Head(w.queue).id
           news == <<StateSignal(id, "InFlight")>>
<1>1. w.queue \in Seq(Request) /\ w.outbox \in Seq(Signal)
  BY OutboxTypes
<1>2. Head(w.queue) \in Request
  BY <1>1
<1>3. id \in Ids
  BY <1>2 DEF Request
<1> HIDE DEF id
<1>4. /\ news \in Seq(Signal)
      /\ \A i \in DOMAIN news : news[i] = StateSignal(id, "InFlight")
      /\ 1 \in DOMAIN news
  <2>1. StateSignal(id, "InFlight") \in Signal
    BY <1>3, SignalTypes DEF RequestState, TerminalState
  <2> QED
    BY <2>1
<1>5. v.outbox = w.outbox \o news
  BY DEF id
<1> HIDE DEF news
<1>6. /\ Reported(news) = {} /\ Told(news) = {id} /\ OneResultEach(news) /\ Truthful(news)
      /\ \A i \in DOMAIN news : ~IsUp(news[i]) /\ ~IsDown(news[i])
  <2> DEFINE s == StateSignal(id, "InFlight")
  <2>1. ~IsResult(s) /\ Tells(s) /\ s.id = id /\ ~IsUp(s) /\ ~IsDown(s)
    BY DEF StateSignal, IsResult, Tells, IsUp, IsDown
  <2> HIDE DEF s
  <2>2. 1 \in DOMAIN news /\ \A i \in DOMAIN news : news[i] = s
    BY <1>4 DEF s
  <2> QED
    BY <2>1, <2>2, <1>3 DEF Reported, Told, OneResultEach, Truthful
<1>7. /\ Reported(v.outbox) = Reported(w.outbox)
      /\ Told(v.outbox) = Told(w.outbox) \cup {id}
      /\ OneResultEach(w.outbox) => OneResultEach(v.outbox)
      /\ Truthful(w.outbox) => Truthful(v.outbox)
  <2>1. Reported(v.outbox) = Reported(w.outbox) \cup Reported(news)
        /\ Told(v.outbox) = Told(w.outbox) \cup Told(news)
    BY <1>1, <1>4, <1>5, ConcatTold
  <2>2. Reported(w.outbox) \cap Reported(news) = {}
    BY <1>6
  <2>3. OneResultEach(w.outbox) => OneResultEach(v.outbox)
    BY <1>1, <1>4, <1>5, <1>6, <2>2, ConcatTold
  <2>4. Truthful(w.outbox) => Truthful(v.outbox)
    BY <1>1, <1>4, <1>5, <1>6, ConcatTold
  <2> QED
    BY <2>1, <2>3, <2>4, <1>6
<1>8. Extends(w, v) /\ NoRise(w, v) /\ NoFall(w, v)
  BY <1>4, <1>5, <1>6, AddsExtends
<1>9. /\ Waiting(w.queue) = Waiting(v.queue) \cup {id}
      /\ Ascending(v.queue) /\ \A i \in Waiting(v.queue) : id < i
  BY <1>1, WaitingTail DEF Tidy, id
<1>10. v.active.id = id /\ id \notin Waiting(v.queue)
  <2>1. Waiting(v.queue) \subseteq Ids /\ \A i \in Ids : ~(i < i)
    BY WorkerIds DEF Ids
  <2> QED
    BY <2>1, <1>9 DEF id
<1>11. Tidy(v)
  BY <1>7, <1>9, <1>10, ReportedIsTold DEF Tidy
<1>12. Carries(w, v)
  <2>1. Pending(w) = Waiting(w.queue)
    BY WorkerIds
  <2>2. Pending(v) = Waiting(v.queue) \cup {id}
    BY <1>3, <1>10 DEF Pending
  <2> QED
    BY <2>1, <2>2, <1>7, <1>9 DEF Carries, Held
<1> QED
  BY <1>7, <1>8, <1>11, <1>12

-----------------------------------------------------------------------------
(***************************************************************************)
(* The worker's private functions.                                         *)
(***************************************************************************)
LEMMA EmitOutbox ==
  ASSUME NEW w \in Worker, NEW signals
  PROVE  Emit(w, signals).outbox = w.outbox \o signals
BY DEF Emit, Worker

LEMMA FinalizeOutbox ==
  ASSUME NEW w \in Worker, NEW q, NEW state, NEW src
  PROVE  Finalize(w, q, state, src).outbox = w.outbox \o Results(q, state, src)
<1>1. Finalize(w, q, state, src) = Emit(w, Results(q, state, src))
  BY DEF Finalize, Results
<1> QED
  BY <1>1, EmitOutbox

\* A handler that leaves the state of the connection alone.
LEMMA SteadyKeeps ==
  ASSUME NEW w, Sane(w), NEW v \in Worker, Tidy(v), Carries(w, v),
         Extends(w, v), NoRise(w, v), NoFall(w, v),
         v.state = w.state, v.port = w.port, v.closing = w.closing,
         v.resync => w.resync \/ ~Idle(w),
         ~LateAnswers => Clear(v)
  PROVE  Keeps(w, v)
<1>1. w \in Worker
  BY DEF Sane
<1>2. Idle(w) => Idle(v)
  BY <1>1, WorkerIds DEF Carries
<1>3. w.queue = <<>> => v.queue = <<>>
  <2>1. w.queue \in Seq(Request) /\ v.queue \in Seq(Request)
    BY <1>1, OutboxTypes
  <2>2. (w.queue = <<>> <=> Waiting(w.queue) = {})
        /\ (v.queue = <<>> <=> Waiting(v.queue) = {})
    BY <2>1, WaitingNone
  <2> QED
    BY <2>2 DEF Carries
<1>4. Sane(v)
  BY DEF Sane
<1>5. Dead(w) => Dead(v)
  <2>1. ASSUME Dead(w) PROVE Dead(v)
    <3>1. Idle(w) /\ ~w.resync
      BY <2>1 DEF Dead
    <3>2. ~v.resync
      BY <3>1
    <3> QED
      BY <2>1, <3>1, <3>2, <1>2 DEF Dead
  <2> QED
    BY <2>1
<1>6. Descends(w, v)
  BY <1>5 DEF Descends
<1>7. Shut(w) => Shut(v)
  BY <1>3 DEF Shut
<1>8. Served(w) => Served(v)
  BY <1>2 DEF Served
<1> QED
  BY <1>4, <1>6, <1>7, <1>8 DEF Keeps

\* The same, when nothing is said and no request moves.
LEMMA RestingKeeps ==
  ASSUME NEW w, Sane(w), NEW v \in Worker,
         v.queue = w.queue, v.active = w.active, v.outbox = w.outbox,
         v.state = w.state, v.port = w.port, v.closing = w.closing,
         v.resync => w.resync,
         ~LateAnswers =>
           /\ v.port /\ v.active = NoRequest /\ (v.quiet \/ ~v.resync) => v.line = {}
           /\ v.port /\ v.active # NoRequest => v.line \subseteq {v.active.id}
  PROVE  Keeps(w, v)
<1>1. w \in Worker /\ Tidy(w)
  BY DEF Sane
<1>2. Tidy(v) /\ Carries(w, v)
  BY <1>1, SameWorkSilent
<1>3. Extends(w, v) /\ NoRise(w, v) /\ NoFall(w, v)
  BY <1>1, SilentExtends
<1>4. ~LateAnswers => Clear(v)
  BY DEF Sane, Clear
<1> QED
  BY <1>2, <1>3, <1>4, SteadyKeeps

\* The same, when what is said concerns no request and no connection.
LEMMA AnnouncingKeeps ==
  ASSUME NEW w, Sane(w), NEW v \in Worker,
         NEW s \in Signal, ~Tells(s), ~IsUp(s), ~IsDown(s),
         v.outbox = w.outbox \o <<s>>,
         v.queue = w.queue, v.active = w.active, v.line = w.line,
         v.state = w.state, v.port = w.port, v.closing = w.closing,
         v.resync = w.resync, v.quiet = w.quiet
  PROVE  Keeps(w, v)
<1> DEFINE news == <<s>>
<1>1. w \in Worker /\ Tidy(w)
  BY DEF Sane
<1>2. Plain(news) /\ news \in Seq(Signal)
  BY PlainSequences DEF Plain
<1>3. \A i \in DOMAIN news : ~IsUp(news[i]) /\ ~IsDown(news[i])
  BY <1>2
<1>4. v.outbox = w.outbox \o news
  OBVIOUS
<1> HIDE DEF news
<1>5. Tidy(v) /\ Carries(w, v) /\ (Truthful(w.outbox) => Truthful(v.outbox))
  BY <1>1, <1>2, <1>4, SameWork
<1>6. Extends(w, v) /\ NoRise(w, v) /\ NoFall(w, v)
  BY <1>1, <1>2, <1>3, <1>4, AddsExtends
<1>7. ~LateAnswers => Clear(v)
  BY <1>5 DEF Sane, Clear
<1> QED
  BY <1>5, <1>6, <1>7, SteadyKeeps

LEMMA EndActiveKeeps ==
  ASSUME NEW w, Sane(w), w.active # NoRequest, NEW state \in {"Failed", "Cancelled"}
  PROVE  LET v == EndActive(w, state)
         IN Keeps(w, v) /\ Ended(w, v)
<1> DEFINE ended == [w EXCEPT !.active = NoRequest, !.partial = FALSE, !.resync = TRUE,
                              !.quiet = FALSE, !.timer = TRUE]
           v == EndActive(w, state)
<1>1. w \in Worker /\ Tidy(w) /\ state \in TerminalState
  BY DEF Sane, TerminalState
<1>2. Ended(w, v)
  BY <1>1, EndActiveEnds
<1>3. ended \in Worker /\ ended.outbox = w.outbox
  BY <1>1 DEF Worker
<1>4. v = Finalize(ended, <<w.active>>, state, Noise)
  BY DEF EndActive
<1> HIDE DEF ended, v
<1>5. v.outbox = w.outbox \o Results(<<w.active>>, state, Noise)
  <2> DEFINE q == <<w.active>>
  <2> HIDE DEF q
  <2>1. Finalize(ended, q, state, Noise).outbox = ended.outbox \o Results(q, state, Noise)
    BY <1>3, FinalizeOutbox
  <2> QED
    BY <2>1, <1>3, <1>4 DEF q
<1>6. v \in Worker /\ v.active = NoRequest /\ v.queue = w.queue
  BY <1>2 DEF Ended
<1>7. Noise \in Ids \cup {Noise} /\ state # "Succeeded"
  OBVIOUS
<1>8. Tidy(v) /\ Carries(w, v) /\ Extends(w, v) /\ NoRise(w, v) /\ NoFall(w, v)
      /\ (Truthful(w.outbox) => Truthful(v.outbox))
  BY <1>1, <1>5, <1>6, <1>7, ActiveHandedOn
<1>9. ~LateAnswers => Clear(v)
  BY <1>2, <1>8 DEF Sane, Clear, Ended
<1>10. ~Idle(w)
  BY DEF Idle
<1>11. v.state = w.state /\ v.port = w.port /\ v.closing = w.closing
  BY <1>2 DEF Ended
<1>12. Keeps(w, v)
  BY <1>6, <1>8, <1>9, <1>10, <1>11, SteadyKeeps
<1> QED
  BY <1>2, <1>12 DEF v

LEMMA CancelQueuedTidies ==
  ASSUME NEW w, Sane(w), NEW K \in SUBSET DOMAIN w.queue
  PROVE  LET v == CancelQueued(w, K)
         IN /\ Keeps(w, v) /\ v.state = w.state /\ v.port = w.port
            /\ v.closing = w.closing /\ v.resync = w.resync
            /\ v.active = w.active /\ v.trans = w.trans
            /\ K = DOMAIN w.queue => v.queue = <<>>
<1> DEFINE taken == SubsequenceAt(w.queue, K)
           left == SubsequenceAt(w.queue, DOMAIN w.queue \ K)
           rest == [w EXCEPT !.queue = left]
           v == CancelQueued(w, K)
<1>1. w \in Worker /\ Tidy(w) /\ w.queue \in Seq(Request) /\ Ascending(w.queue)
  BY OutboxTypes DEF Sane, Tidy
<1>2. /\ taken \in Seq(Request) /\ left \in Seq(Request)
      /\ Ascending(taken) /\ Ascending(left)
      /\ Waiting(taken) \cup Waiting(left) = Waiting(w.queue)
      /\ Waiting(taken) \cap Waiting(left) = {}
      /\ K = DOMAIN w.queue => left = <<>>
  BY <1>1, SubsequencesSplit
<1>3. rest \in Worker /\ Says(rest, v)
  BY <1>1, CancelQueuedKeeps
<1>4. v = Finalize(rest, taken, "Cancelled", Noise)
  BY DEF CancelQueued
<1> HIDE DEF taken, left, v
<1>5. /\ rest.queue = left /\ rest.outbox = w.outbox /\ rest.state = w.state
      /\ rest.port = w.port /\ rest.closing = w.closing /\ rest.resync = w.resync
      /\ rest.active = w.active /\ rest.line = w.line /\ rest.quiet = w.quiet
      /\ rest.trans = w.trans
  BY <1>1 DEF Worker
<1> HIDE DEF rest
<1>6. /\ v \in Worker /\ v.queue = left /\ v.state = w.state
      /\ v.port = w.port /\ v.closing = w.closing /\ v.resync = w.resync
      /\ v.active = w.active /\ v.line = w.line /\ v.quiet = w.quiet
      /\ v.trans = w.trans
  BY <1>3, <1>5, SaysKeeps
<1>7. v.outbox = w.outbox \o Results(taken, "Cancelled", Noise)
  BY ZenonT(60), <1>3, <1>4, <1>5, FinalizeOutbox
<1>8. "Cancelled" \in TerminalState /\ "Cancelled" # "Succeeded"
  BY DEF TerminalState
<1>9. Tidy(v) /\ Carries(w, v) /\ Extends(w, v) /\ NoRise(w, v) /\ NoFall(w, v)
      /\ (Truthful(w.outbox) => Truthful(v.outbox))
  BY <1>1, <1>2, <1>6, <1>7, <1>8, QueueHandedOn
<1>10. ~LateAnswers => Clear(v)
  BY <1>6, <1>9 DEF Sane, Clear
<1>11. Keeps(w, v)
  BY <1>6, <1>9, <1>10, SteadyKeeps
<1> QED
  BY <1>2, <1>6, <1>11 DEF v

LEMMA StartNextKeeps ==
  ASSUME NEW w, Sane(w), MaySend(w), w.quiet, ~w.resync, NEW write \in Writes
  PROVE  Keeps(w, StartNext(w, write))
<1> DEFINE req == Head(w.queue)
           loaded == [w EXCEPT !.active = req, !.queue = Tail(@), !.partial = FALSE]
           news == <<StateSignal(req.id, "InFlight")>>
           sent == Emit(loaded, news)
           v == StartNext(w, write)
<1>1. w \in Worker /\ Tidy(w) /\ w.queue \in Seq(Request) /\ w.queue # <<>>
      /\ w.active = NoRequest /\ w.state = "Connected" /\ w.port
  BY OutboxTypes DEF MaySend, Sane
<1>2. req \in Request /\ Tail(w.queue) \in Seq(Request)
  BY <1>1
<1>3. req.id \in Ids /\ req # NoRequest
  BY <1>2, NoRequestIsNone DEF Request
<1>4. v = IF write = "full" THEN [sent EXCEPT !.line = @ \cup {req.id}]
                            ELSE EndActive(sent, "Failed")
  BY DEF StartNext, CompleteActiveError
<1> HIDE DEF req, v
<1>5. /\ loaded \in Worker /\ loaded.active = req /\ loaded.queue = Tail(w.queue)
      /\ loaded.outbox = w.outbox /\ loaded.state = w.state /\ loaded.port = w.port
      /\ loaded.closing = w.closing /\ loaded.resync = w.resync /\ loaded.line = w.line
  BY <1>1, <1>2 DEF Worker
<1> HIDE DEF loaded
<1>6. news \in Seq(Signal)
  <2>1. StateSignal(req.id, "InFlight") \in Signal
    BY <1>3, SignalTypes DEF RequestState, TerminalState
  <2> QED
    BY <2>1
<1>7. sent.outbox = w.outbox \o news
  BY <1>5, EmitOutbox
<1>8. Says(loaded, sent)
  BY <1>5, <1>6, EmitSays
<1> HIDE DEF sent, news
<1>9. /\ sent \in Worker /\ sent.active = req /\ sent.queue = Tail(w.queue)
      /\ sent.state = w.state /\ sent.port = w.port /\ sent.closing = w.closing
      /\ sent.resync = w.resync /\ sent.line = w.line
  BY <1>5, <1>8, SaysKeeps
<1>10. Tidy(sent) /\ Carries(w, sent) /\ Extends(w, sent) /\ NoRise(w, sent)
       /\ NoFall(w, sent) /\ (Truthful(w.outbox) => Truthful(sent.outbox))
  BY <1>1, <1>7, <1>9, HeadHandedOn DEF news, req
<1>11. ~LateAnswers => sent.line = {} /\ Clear(sent)
  BY <1>1, <1>3, <1>9, <1>10 DEF Sane, Clear
<1>12. Keeps(w, sent)
  BY <1>9, <1>10, <1>11, SteadyKeeps
<1>13. Sane(sent)
  BY <1>12 DEF Keeps
<1>14. CASE write = "full"
  <2>1. v = [sent EXCEPT !.line = @ \cup {req.id}]
    BY <1>4, <1>14
  <2>2. /\ v \in Worker /\ v.active = req /\ v.queue = sent.queue
        /\ v.outbox = sent.outbox /\ v.state = sent.state /\ v.port = sent.port
        /\ v.closing = sent.closing /\ v.resync = sent.resync
        /\ v.line = sent.line \cup {req.id}
    <3>1. sent.line \cup {req.id} \in SUBSET Ids
      BY <1>3, <1>9 DEF Worker
    <3> QED
      BY <2>1, <3>1, <1>9 DEF Worker
  <2>3. Keeps(sent, v)
    BY <2>2, <1>3, <1>9, <1>11, <1>13, RestingKeeps
  <2> QED
    BY <2>3, <1>12, KeepsTransitive DEF v
<1>15. CASE write # "full"
  <2>1. v = EndActive(sent, "Failed")
    BY <1>4, <1>15
  <2>2. Keeps(sent, v)
    BY <2>1, <1>3, <1>9, <1>13, EndActiveKeeps
  <2> QED
    BY <2>2, <1>12, KeepsTransitive DEF v
<1> QED
  BY <1>14, <1>15

LEMMA StartNextWhenSilentKeeps ==
  ASSUME NEW w, Sane(w), NEW write \in Writes
  PROVE  Keeps(w, StartNextWhenSilent(w, write))
<1> DEFINE v == StartNextWhenSilent(w, write)
<1>1. w \in Worker
  BY DEF Sane
<1>2. Keeps(w, w)
  BY <1>1, RestingKeeps DEF Sane, Clear
<1>3. CASE ~MaySend(w)
  <2>1. v = w
    BY <1>3 DEF StartNextWhenSilent
  <2> QED
    BY <2>1, <1>2
<1>4. CASE MaySend(w) /\ w.quiet
  <2> DEFINE ready == [w EXCEPT !.resync = FALSE]
  <2>1. /\ ready \in Worker /\ ready.queue = w.queue /\ ready.active = w.active
        /\ ready.outbox = w.outbox /\ ready.state = w.state /\ ready.port = w.port
        /\ ready.closing = w.closing /\ ~ready.resync /\ ready.line = w.line
        /\ ready.quiet = w.quiet /\ ready.trans = w.trans
    BY <1>1 DEF Worker
  <2>2. v = StartNext(ready, write)
    BY <1>4 DEF StartNextWhenSilent
  <2> HIDE DEF ready, v
  <2>3. w.active = NoRequest
    BY <1>4 DEF MaySend
  <2>4. ~LateAnswers => (w.port => w.line = {})
    BY <2>3, <1>4 DEF Sane, Clear
  <2>5. Keeps(w, ready)
    BY <2>1, <2>3, <2>4, RestingKeeps
  <2>6. Sane(ready) /\ MaySend(ready) /\ ready.quiet
    BY <2>1, <2>5, <1>4 DEF Keeps, MaySend
  <2>7. Keeps(ready, v)
    BY <2>1, <2>2, <2>6, StartNextKeeps
  <2> QED
    BY <2>5, <2>7, KeepsTransitive DEF v
<1>5. CASE MaySend(w) /\ ~w.quiet
  <2>1. v = [w EXCEPT !.timer = TRUE]
    BY <1>5 DEF StartNextWhenSilent
  <2>2. /\ v \in Worker /\ v.queue = w.queue /\ v.active = w.active
        /\ v.outbox = w.outbox /\ v.state = w.state /\ v.port = w.port
        /\ v.closing = w.closing /\ v.resync = w.resync /\ v.line = w.line
        /\ v.quiet = w.quiet
    BY <2>1, <1>1 DEF Worker
  <2> HIDE DEF v
  <2>3. Keeps(w, v)
    BY <2>2, RestingKeeps DEF Sane, Clear
  <2> QED
    BY <2>3 DEF v
<1> QED
  BY <1>3, <1>4, <1>5

LEMMA FinishOwnershipTransitionKeeps ==
  ASSUME NEW w, Sane(w), w.trans # NoTransition, NEW write \in Writes
  PROVE  Keeps(w, FinishOwnershipTransition(w, write))
<1> DEFINE rest == [w EXCEPT !.trans = NoTransition, !.owner = w.trans.target]
           s == OwnershipSignal(w.trans.op, w.trans.target, TRUE)
           told == Emit(rest, <<s>>)
<1>1. w \in Worker
  BY DEF Sane
<1>2. w.trans.op \in OpIds /\ w.trans.target \in OwnerOrNone
  BY <1>1 DEF Worker, Transition
<1>3. s \in Signal /\ ~Tells(s) /\ ~IsUp(s) /\ ~IsDown(s)
  BY <1>2, PlainSignals
<1>4. FinishOwnershipTransition(w, write) = StartNextWhenSilent(told, write)
  BY DEF FinishOwnershipTransition
<1>5. /\ rest \in Worker /\ rest.queue = w.queue /\ rest.active = w.active
      /\ rest.outbox = w.outbox /\ rest.state = w.state /\ rest.port = w.port
      /\ rest.closing = w.closing /\ rest.resync = w.resync /\ rest.line = w.line
      /\ rest.quiet = w.quiet
  BY <1>1, <1>2 DEF Worker
<1> HIDE DEF rest, s
<1>6. Says(rest, told) /\ told.outbox = w.outbox \o <<s>>
  BY <1>3, <1>5, SignalSequences, EmitSays, EmitOutbox
<1> HIDE DEF told
<1>7. Keeps(w, told)
  BY <1>3, <1>5, <1>6, SaysKeeps, AnnouncingKeeps
<1>8. Keeps(told, StartNextWhenSilent(told, write))
  BY <1>7, StartNextWhenSilentKeeps DEF Keeps
<1> QED
  BY <1>4, <1>7, <1>8, KeepsTransitive

LEMMA FinishCloseKeeps ==
  ASSUME NEW w, Sane(w), Shut(w), w.active = NoRequest, w.closing # 0
  PROVE  Keeps(w, FinishClose(w)) /\ Dead(FinishClose(w))
<1> DEFINE rest == [w EXCEPT !.closing = 0, !.timer = FALSE, !.port = FALSE,
                             !.owner = NoOwner, !.resync = FALSE, !.quiet = TRUE,
                             !.state = "Disconnected"]
           down == ConnectionSignal("Disconnected")
           done == ControlSignal(w.closing, "Close", TRUE)
           news == <<down, done>>
           v == FinishClose(w)
<1>1. w \in Worker /\ Tidy(w) /\ w.queue = <<>>
  BY DEF Sane, Shut
<1>2. w.closing \in OpIds
  BY <1>1 DEF Worker
<1>3. /\ down \in Signal /\ ~Tells(down) /\ ~IsUp(down)
      /\ done \in Signal /\ ~Tells(done) /\ ~IsUp(done)
  <2>1. "Disconnected" \in ConnectionState
    BY DEF ConnectionState
  <2>2. ~IsUp(down)
    BY DEF ConnectionSignal, IsUp
  <2> QED
    BY <2>1, <2>2, <1>2, PlainSignals
<1>4. v = Emit(rest, news)
  BY DEF FinishClose
<1>5. /\ rest \in Worker /\ rest.queue = <<>> /\ rest.active = NoRequest
      /\ rest.outbox = w.outbox /\ rest.state = "Disconnected" /\ ~rest.port
      /\ rest.closing = 0 /\ ~rest.resync
  BY <1>1 DEF Worker, ConnectionState, OwnerOrNone
<1> HIDE DEF rest, down, done, v
<1>6. Plain(news) /\ news \in Seq(Signal)
  BY <1>3, PlainSequences DEF Plain
<1>7. \A i \in DOMAIN news : ~IsUp(news[i])
  <2>1. \A i \in DOMAIN news : news[i] \in {down, done}
    OBVIOUS
  <2> HIDE DEF news
  <2> QED
    BY <2>1, <1>3
<1> HIDE DEF news
<1>8. Says(rest, v) /\ v.outbox = w.outbox \o news
  BY <1>4, <1>5, <1>6, EmitSays, EmitOutbox
<1>9. /\ v \in Worker /\ v.queue = w.queue /\ v.active = w.active
      /\ v.state = "Disconnected" /\ ~v.port /\ v.closing = 0 /\ ~v.resync
  BY <1>1, <1>5, <1>8, SaysKeeps
<1>10. Tidy(v) /\ Carries(w, v) /\ (Truthful(w.outbox) => Truthful(v.outbox))
  BY <1>1, <1>6, <1>8, <1>9, SameWork
<1>11. Extends(w, v) /\ NoRise(w, v)
  BY <1>1, <1>6, <1>7, <1>8, <1>9, AddsExtends
<1>12. Dead(v) /\ Idle(v)
  BY <1>1, <1>9 DEF Dead, Idle
<1>13. Sane(v)
  BY <1>9, <1>10 DEF Sane, Clear
<1>14. Descends(w, v)
  BY <1>9, <1>11, <1>12 DEF Descends
<1>15. Shut(v) /\ Served(v)
  BY <1>9, <1>12 DEF Shut, Served
<1> QED
  BY <1>10, <1>12, <1>13, <1>14, <1>15 DEF Keeps, v

LEMMA MaybeCompleteTransitionKeeps ==
  ASSUME NEW w, Sane(w), Shut(w), NEW write \in Writes
  PROVE  Keeps(w, MaybeCompleteTransition(w, write))
<1> DEFINE v == MaybeCompleteTransition(w, write)
<1>1. w \in Worker
  BY DEF Sane
<1>2. Keeps(w, w)
  BY <1>1, RestingKeeps DEF Sane, Clear
<1>3. CASE w.active # NoRequest \/ w.resync \/ w.state = "Faulted"
  <2>1. v = w
    BY <1>3 DEF MaybeCompleteTransition
  <2> QED
    BY <2>1, <1>2
<1>4. CASE ~(w.active # NoRequest \/ w.resync \/ w.state = "Faulted") /\ w.closing # 0
  <2>1. v = FinishClose(w)
    BY <1>4 DEF MaybeCompleteTransition
  <2> QED
    BY <2>1, <1>4, FinishCloseKeeps
<1>5. CASE ~(w.active # NoRequest \/ w.resync \/ w.state = "Faulted") /\ w.closing = 0
           /\ w.trans # NoTransition
  <2>1. v = FinishOwnershipTransition(w, write)
    BY <1>5 DEF MaybeCompleteTransition
  <2> QED
    BY <2>1, <1>5, FinishOwnershipTransitionKeeps
<1>6. CASE ~(w.active # NoRequest \/ w.resync \/ w.state = "Faulted") /\ w.closing = 0
           /\ w.trans = NoTransition
  <2>1. v = w
    BY <1>6 DEF MaybeCompleteTransition
  <2> QED
    BY <2>1, <1>2
<1> QED
  BY <1>3, <1>4, <1>5, <1>6

LEMMA CompleteThenStartKeeps ==
  ASSUME NEW w, Sane(w), Shut(w), NEW write \in Writes
  PROVE  Keeps(w, StartNextWhenSilent(MaybeCompleteTransition(w, write), write))
<1> DEFINE u == MaybeCompleteTransition(w, write)
<1>1. Keeps(w, u)
  BY MaybeCompleteTransitionKeeps
<1> HIDE DEF u
<1>2. Keeps(u, StartNextWhenSilent(u, write))
  BY <1>1, StartNextWhenSilentKeeps DEF Keeps
<1>3. Keeps(w, StartNextWhenSilent(u, write))
  BY <1>1, <1>2, KeepsTransitive
<1> QED
  BY <1>3 DEF u

\* While answers are never late, what has been heard was the answer awaited.
LEMMA CompleteActiveSuccessKeeps ==
  ASSUME NEW w, Sane(w), Shut(w), w.active # NoRequest, NEW from \in Ids,
         ~LateAnswers => from = w.active.id /\ w.line = {},
         NEW write \in Writes
  PROVE  Keeps(w, CompleteActiveSuccess(w, from, write))
<1> DEFINE rest == [w EXCEPT !.active = NoRequest, !.partial = FALSE]
           told == Finalize(rest, <<w.active>>, "Succeeded", from)
<1>1. w \in Worker /\ Tidy(w)
  BY DEF Sane
<1>2. <<w.active>> \in Seq(Request)
  BY <1>1, WorkerIds, WaitingOne
<1>3. CompleteActiveSuccess(w, from, write)
        = StartNextWhenSilent(MaybeCompleteTransition(told, write), write)
  BY DEF CompleteActiveSuccess
<1>4. /\ rest \in Worker /\ rest.queue = w.queue /\ rest.active = NoRequest
      /\ rest.outbox = w.outbox /\ rest.state = w.state /\ rest.port = w.port
      /\ rest.closing = w.closing /\ rest.resync = w.resync /\ rest.line = w.line
  BY <1>1 DEF Worker
<1> HIDE DEF rest
<1>5. "Succeeded" \in TerminalState /\ from \in Ids \cup {Noise}
  BY DEF TerminalState
<1>6. Says(rest, told)
      /\ told.outbox = w.outbox \o Results(<<w.active>>, "Succeeded", from)
  <2> DEFINE q == <<w.active>>
             state == "Succeeded"
  <2> HIDE DEF q, state
  <2>1. Finalize(rest, q, state, from).outbox = rest.outbox \o Results(q, state, from)
    <3>1. \A u \in Worker :
            Finalize(u, q, state, from).outbox = u.outbox \o Results(q, state, from)
      BY FinalizeOutbox
    <3>2. rest \in Worker
      BY <1>4
    <3> QED
      BY <3>1, <3>2
  <2>2. told.outbox = w.outbox \o Results(<<w.active>>, "Succeeded", from)
    BY <2>1, <1>4 DEF q, state
  <2>3. Says(rest, told)
    BY <1>2, <1>4, FinalizeSays DEF TerminalState
  <2> QED
    BY <2>2, <2>3
<1> HIDE DEF told
<1>7. /\ told \in Worker /\ told.queue = w.queue /\ told.active = NoRequest
      /\ told.state = w.state /\ told.port = w.port
      /\ told.closing = w.closing /\ told.resync = w.resync /\ told.line = w.line
  BY <1>4, <1>6, SaysKeeps
<1>8. Tidy(told) /\ Carries(w, told) /\ Extends(w, told) /\ NoRise(w, told)
      /\ NoFall(w, told)
      /\ (Truthful(w.outbox) /\ from = w.active.id => Truthful(told.outbox))
  BY ZenonT(60), <1>1, <1>5, <1>6, <1>7, ActiveHandedOn
<1>9. ~LateAnswers => Clear(told)
  BY <1>7, <1>8 DEF Sane, Clear
<1>10. Keeps(w, told)
  BY <1>7, <1>8, <1>9, SteadyKeeps
<1>11. Sane(told) /\ Shut(told)
  BY <1>10 DEF Keeps
<1>12. Keeps(told, StartNextWhenSilent(MaybeCompleteTransition(told, write), write))
  BY <1>11, CompleteThenStartKeeps
<1> QED
  BY <1>3, <1>10, <1>12, KeepsTransitive

-----------------------------------------------------------------------------
(***************************************************************************)
(* The worker's slots.                                                     *)
(***************************************************************************)

\* The connection comes up, or fails, in a worker that holds no request.
Rises(w, v) ==
  /\ Good(v) /\ Idle(v) /\ Carries(w, v)
  /\ Extends(w, v) /\ NoFall(w, v) /\ HasUp(v.outbox)
  /\ v.closing = w.closing

LEMMA WorkerOpenRises ==
  ASSUME NEW w, Sane(w), Idle(w), NEW op \in OpIds, NEW outcome \in OpenOutcomes(w)
  PROVE  Rises(w, WorkerOpen(w, op, outcome))
<1> DEFINE up == [w EXCEPT !.queue = <<>>, !.active = NoRequest, !.partial = FALSE,
                           !.owner = NoOwner, !.resync = TRUE, !.quiet = FALSE,
                           !.timer = TRUE, !.port = TRUE, !.state = "Connected"]
           down == [w EXCEPT !.state = "Faulted",
                             !.port = IF outcome = "failed" THEN FALSE ELSE @]
           v == WorkerOpen(w, op, outcome)
<1>1. w \in Worker /\ Tidy(w) /\ w.queue = <<>> /\ w.active = NoRequest
  BY DEF Sane, Idle
<1>2. /\ up \in Worker /\ up.queue = w.queue /\ up.active = w.active /\ up.outbox = w.outbox
      /\ up.port /\ ~up.quiet /\ up.resync /\ up.closing = w.closing
  <2>1. <<>> \in Seq(Request)
    OBVIOUS
  <2> QED
    BY <1>1, <2>1 DEF Worker, ConnectionState, OwnerOrNone
<1>3. /\ down \in Worker /\ down.queue = w.queue /\ down.active = w.active
      /\ down.outbox = w.outbox /\ down.state = "Faulted" /\ down.line = w.line
      /\ (down.port => w.port) /\ down.quiet = w.quiet /\ down.resync = w.resync
      /\ down.closing = w.closing
  BY <1>1 DEF Worker, ConnectionState
<1>4. ASSUME NEW u, u \in Worker, u.queue = w.queue, u.active = w.active,
             u.outbox = w.outbox, u.closing = w.closing,
             u.state = "Connected" => u.port,
             ~LateAnswers => (u.port /\ (u.quiet \/ ~u.resync) => u.line = {}),
             NEW s \in {"Connected", "Faulted"}, NEW ok \in BOOLEAN,
             v = Emit(u, <<ConnectionSignal(s), ControlSignal(op, "Open", ok)>>)
      PROVE  Rises(w, v)
  <2> DEFINE c == ConnectionSignal(s)
             d == ControlSignal(op, "Open", ok)
             news == <<c, d>>
  <2>1. /\ c \in Signal /\ ~Tells(c) /\ ~IsDown(c) /\ IsUp(c)
        /\ d \in Signal /\ ~Tells(d) /\ ~IsDown(d)
    <3>1. s \in ConnectionState
      BY DEF ConnectionState
    <3>2. ~IsDown(c) /\ IsUp(c)
      BY DEF ConnectionSignal, IsDown, IsUp
    <3> QED
      BY <3>1, <3>2, PlainSignals
  <2> HIDE DEF c, d
  <2>2. Plain(news) /\ news \in Seq(Signal)
    BY <2>1, PlainSequences DEF Plain
  <2>3. (\A i \in DOMAIN news : ~IsDown(news[i])) /\ 1 \in DOMAIN news /\ news[1] = c
    <3>1. \A i \in DOMAIN news : news[i] \in {c, d}
      OBVIOUS
    <3>2. 1 \in DOMAIN news /\ news[1] = c
      OBVIOUS
    <3> HIDE DEF news
    <3> QED
      BY <2>1, <3>1, <3>2
  <2>4. v = Emit(u, news)
    BY <1>4 DEF c, d
  <2> HIDE DEF news, v
  <2>5. Says(u, v) /\ v.outbox = w.outbox \o news
    BY <1>4, <2>2, <2>4, EmitSays, EmitOutbox
  <2>6. /\ v \in Worker /\ v.queue = w.queue /\ v.active = w.active /\ v.state = u.state
        /\ v.port = u.port /\ v.line = u.line /\ v.quiet = u.quiet /\ v.resync = u.resync
        /\ v.closing = w.closing
    BY <1>4, <2>5, SaysKeeps
  <2>7. Tidy(v) /\ Carries(w, v) /\ (Truthful(w.outbox) => Truthful(v.outbox))
    BY <1>1, <2>2, <2>5, <2>6, SameWork
  <2>8. Extends(w, v) /\ NoFall(w, v)
    BY <1>1, <2>2, <2>3, <2>5, <2>6, AddsExtends
  <2>9. HasUp(v.outbox)
    <3>1. w.outbox \in Seq(Signal)
      BY <1>1, OutboxTypes
    <3>2. Len(w.outbox) + 1 \in DOMAIN v.outbox /\ v.outbox[Len(w.outbox) + 1] = c
      BY <2>2, <2>3, <2>5, <3>1, ConcatIndices
    <3> QED
      BY <2>1, <3>2 DEF HasUp
  <2>10. Sane(v)
    BY <1>1, <1>4, <2>6, <2>7 DEF Sane, Clear
  <2>11. Idle(v) /\ Shut(v) /\ Served(v)
    BY <1>1, <2>6 DEF Idle, Shut, Served
  <2> QED
    BY <2>6, <2>7, <2>8, <2>9, <2>10, <2>11 DEF Rises, Good
<1>5. CASE outcome = "ok"
  <2>1. v = Emit(up, <<ConnectionSignal("Connected"), ControlSignal(op, "Open", TRUE)>>)
    BY <1>5 DEF WorkerOpen
  <2> HIDE DEF up, v
  <2>2. Rises(w, v)
    BY <2>1, <1>2, <1>4
  <2> QED
    BY <2>2 DEF v
<1>6. CASE outcome # "ok"
  <2>1. v = Emit(down, <<ConnectionSignal("Faulted"), ControlSignal(op, "Open", FALSE)>>)
    BY <1>6 DEF WorkerOpen
  <2>2. ~LateAnswers => (down.port /\ (down.quiet \/ ~down.resync) => down.line = {})
    BY <1>1, <1>3 DEF Sane, Clear
  <2> HIDE DEF down, v
  <2>3. Rises(w, v)
    BY <2>1, <2>2, <1>3, <1>4
  <2> QED
    BY <2>3 DEF v
<1> QED
  BY <1>5, <1>6

\* A close empties the queue; the connection comes down now or later.
Closes(w, v) ==
  /\ Good(v) /\ Carries(w, v)
  /\ Extends(w, v) /\ NoRise(w, v)
  /\ NoFall(w, v) \/ Dead(v)
  /\ Dead(w) => Dead(v)

LEMMA WorkerCloseCloses ==
  ASSUME NEW w, Good(w), NEW op \in OpIds, NEW mode, NEW write \in Writes
  PROVE  Closes(w, WorkerClose(w, op, mode, write))
<1> DEFINE closing == [w EXCEPT !.closing = op, !.state = "Closing"]
           s == ConnectionSignal("Closing")
           told == Emit(closing, <<s>>)
           flushed == CancelQueued(told, DOMAIN w.queue)
           ended == IF w.active # NoRequest /\ mode = "CancelAll"
                      THEN CompleteActiveCancelled(flushed) ELSE flushed
           v == WorkerClose(w, op, mode, write)
<1>1. w \in Worker /\ Tidy(w) /\ op # 0
  BY DEF Good, Sane, OpIds
<1>2. s \in Signal /\ ~Tells(s) /\ ~IsUp(s) /\ ~IsDown(s)
  <2>1. "Closing" \in ConnectionState
    BY DEF ConnectionState
  <2>2. ~IsUp(s) /\ ~IsDown(s)
    BY DEF ConnectionSignal, IsUp, IsDown
  <2> QED
    BY <2>1, <2>2, PlainSignals
<1>3. v = MaybeCompleteTransition(ended, write)
  BY DEF WorkerClose
<1>4. /\ closing \in Worker /\ closing.queue = w.queue /\ closing.active = w.active
      /\ closing.outbox = w.outbox /\ closing.state = "Closing" /\ closing.port = w.port
      /\ closing.closing = op /\ closing.resync = w.resync /\ closing.line = w.line
      /\ closing.quiet = w.quiet
  BY <1>1 DEF Worker, ConnectionState
<1> HIDE DEF closing, s
<1>5. Plain(<<s>>) /\ <<s>> \in Seq(Signal)
      /\ \A i \in DOMAIN <<s>> : ~IsUp(<<s>>[i]) /\ ~IsDown(<<s>>[i])
  BY <1>2, PlainSequences
<1>6. Says(closing, told) /\ told.outbox = w.outbox \o <<s>>
  BY <1>4, <1>5, EmitSays, EmitOutbox
<1> HIDE DEF told
<1>7. /\ told \in Worker /\ told.queue = w.queue /\ told.active = w.active
      /\ told.state = "Closing" /\ told.port = w.port
      /\ told.closing = op /\ told.resync = w.resync /\ told.line = w.line
      /\ told.quiet = w.quiet
  BY <1>4, <1>6, SaysKeeps
<1>8. Tidy(told) /\ Carries(w, told) /\ (Truthful(w.outbox) => Truthful(told.outbox))
  BY <1>1, <1>5, <1>6, <1>7, SameWork
<1>9. Extends(w, told) /\ NoRise(w, told) /\ NoFall(w, told)
  BY <1>1, <1>5, <1>6, <1>7, AddsExtends
<1>10. Sane(told) /\ Served(told)
  BY <1>7, <1>8 DEF Good, Sane, Clear, Served, Idle
<1>11. /\ Keeps(told, flushed) /\ flushed.queue = <<>> /\ flushed.active = w.active
       /\ flushed.state = "Closing" /\ flushed.closing = op /\ flushed.resync = w.resync
  BY <1>7, <1>10, CancelQueuedTidies
<1> HIDE DEF flushed
<1>12. Sane(flushed) /\ Shut(flushed)
  BY <1>11 DEF Keeps, Shut
<1>13. Keeps(told, ended) /\ Sane(ended) /\ Shut(ended)
  <2>1. CASE w.active # NoRequest /\ mode = "CancelAll"
    <3>1. Keeps(flushed, ended)
      BY <2>1, <1>11, <1>12, EndActiveKeeps DEF CompleteActiveCancelled
    <3> HIDE DEF ended
    <3>2. Keeps(told, ended)
      BY <3>1, <1>10, <1>11, KeepsTransitive
    <3> QED
      BY <3>1, <3>2, <1>12 DEF Keeps
  <2>2. CASE ~(w.active # NoRequest /\ mode = "CancelAll")
    BY <2>2, <1>11, <1>12
  <2> QED
    BY <2>1, <2>2
<1>14. ASSUME Dead(w)
       PROVE  Dead(v)
  <2>1. w.active = NoRequest /\ ~w.resync
    BY <1>14 DEF Dead, Idle
  <2>2. ended = flushed
    BY <2>1
  <2>3. flushed.active = NoRequest /\ ~flushed.resync /\ flushed.state # "Faulted"
        /\ flushed.closing # 0
    BY <2>1, <1>1, <1>11
  <2>4. v = FinishClose(flushed)
    BY <2>2, <2>3, <1>3 DEF MaybeCompleteTransition
  <2>5. Dead(FinishClose(flushed))
    BY <2>3, <1>12, FinishCloseKeeps
  <2> QED
    BY <2>4, <2>5
<1> HIDE DEF ended, v
<1>15. Keeps(ended, v)
  BY <1>3, <1>13, MaybeCompleteTransitionKeeps
<1>16. Keeps(told, v)
  BY <1>10, <1>13, <1>15, KeepsTransitive
<1>17. Good(v)
  BY <1>10, <1>13, <1>15, <1>16 DEF Keeps, Good
<1>18. Carries(w, v)
  BY <1>8, <1>16, CarriesTransitive DEF Keeps
<1>19. v \in Worker /\ Extends(told, v) /\ NoRise(told, v) /\ (NoFall(told, v) \/ Dead(v))
  BY <1>16 DEF Keeps, Sane, Descends
<1>20. Extends(w, v) /\ NoRise(w, v) /\ (NoFall(told, v) => NoFall(w, v))
  BY <1>1, <1>7, <1>9, <1>19, ExtendsTransitive
<1>21. Closes(w, v)
  BY <1>14, <1>17, <1>18, <1>19, <1>20 DEF Closes
<1> QED
  BY <1>21 DEF v

LEMMA HandOverKeeps ==
  ASSUME NEW w, Sane(w), Shut(w), NEW op \in OpIds, NEW o, NEW target \in OwnerOrNone,
         NEW mode, NEW write \in Writes
  PROVE  Keeps(w, HandOver(w, op, o, target, mode, write))
<1> DEFINE due == [w EXCEPT !.trans = [op |-> op, target |-> target]]
           waiting == CancelQueuedByOwner(due, o)
           ended == IF w.active # NoRequest /\ w.active.owner = o /\ mode = "CancelInFlight"
                      THEN CompleteActiveCancelled(waiting) ELSE waiting
           v == HandOver(w, op, o, target, mode, write)
<1>1. w \in Worker
  BY DEF Sane
<1>2. v = MaybeCompleteTransition(ended, write)
  BY DEF HandOver
<1>3. [op |-> op, target |-> target] \in Transition
  BY DEF Transition
<1>4. /\ due \in Worker /\ due.queue = w.queue /\ due.active = w.active
      /\ due.outbox = w.outbox /\ due.state = w.state /\ due.port = w.port
      /\ due.closing = w.closing /\ due.resync = w.resync /\ due.line = w.line
      /\ due.quiet = w.quiet
  BY <1>1, <1>3 DEF Worker
<1> HIDE DEF due
<1>5. Keeps(w, due)
  BY <1>4, RestingKeeps DEF Sane, Clear
<1>6. Keeps(due, waiting) /\ waiting.active = w.active
  <2> DEFINE K == IndicesOfOwner(due.queue, o)
  <2>1. K \in SUBSET DOMAIN due.queue
    BY DEF IndicesOfOwner
  <2>2. waiting = CancelQueued(due, K)
    BY DEF CancelQueuedByOwner
  <2> HIDE DEF K, waiting
  <2>3. Sane(due)
    BY <1>5 DEF Keeps
  <2> QED
    BY <2>1, <2>2, <2>3, <1>4, CancelQueuedTidies
<1> HIDE DEF waiting
<1>7. Keeps(w, waiting)
  BY <1>5, <1>6, KeepsTransitive
<1>8. Keeps(w, ended)
  <2>1. CASE w.active # NoRequest /\ w.active.owner = o /\ mode = "CancelInFlight"
    <3>1. Sane(waiting) /\ waiting.active # NoRequest
      BY <2>1, <1>6 DEF Keeps
    <3>2. Keeps(waiting, CompleteActiveCancelled(waiting))
      BY <3>1, EndActiveKeeps DEF CompleteActiveCancelled
    <3>3. Keeps(w, CompleteActiveCancelled(waiting))
      BY <3>2, <1>7, KeepsTransitive
    <3> QED
      BY <2>1, <3>3
  <2>2. CASE ~(w.active # NoRequest /\ w.active.owner = o /\ mode = "CancelInFlight")
    BY <2>2, <1>7
  <2> QED
    BY <2>1, <2>2
<1> HIDE DEF ended, v
<1>9. Keeps(ended, v)
  BY <1>2, <1>8, MaybeCompleteTransitionKeeps DEF Keeps
<1>10. Keeps(w, v)
  BY <1>8, <1>9, KeepsTransitive
<1> QED
  BY <1>10 DEF v

LEMMA WorkerAcquireKeeps ==
  ASSUME NEW w, Sane(w), Shut(w), NEW op \in OpIds, NEW o \in Owners, NEW mode,
         NEW write \in Writes
  PROVE  Keeps(w, WorkerAcquire(w, op, o, mode, write))
<1>1. CASE w.owner \in {NoOwner, o}
  <2> DEFINE rest == [w EXCEPT !.owner = o]
             s == OwnershipSignal(op, o, TRUE)
             v == WorkerAcquire(w, op, o, mode, write)
  <2>1. w \in Worker /\ o \in OwnerOrNone
    BY DEF Sane, OwnerOrNone
  <2>2. s \in Signal /\ ~Tells(s) /\ ~IsUp(s) /\ ~IsDown(s)
    BY <2>1, PlainSignals
  <2>3. v = Emit(rest, <<s>>)
    BY <1>1 DEF WorkerAcquire
  <2>4. /\ rest \in Worker /\ rest.queue = w.queue /\ rest.active = w.active
        /\ rest.outbox = w.outbox /\ rest.state = w.state /\ rest.port = w.port
        /\ rest.closing = w.closing /\ rest.resync = w.resync /\ rest.line = w.line
        /\ rest.quiet = w.quiet
    BY <2>1 DEF Worker
  <2> HIDE DEF rest, s, v
  <2>5. Says(rest, v) /\ v.outbox = w.outbox \o <<s>>
    BY <2>2, <2>3, <2>4, SignalSequences, EmitSays, EmitOutbox
  <2>6. Keeps(w, v)
    BY <2>2, <2>4, <2>5, SaysKeeps, AnnouncingKeeps
  <2> QED
    BY <2>6 DEF v
<1>2. CASE w.owner \notin {NoOwner, o}
  BY <1>2, HandOverKeeps DEF WorkerAcquire, OwnerOrNone
<1> QED
  BY <1>1, <1>2

LEMMA WorkerCancelKeeps ==
  ASSUME NEW w, Sane(w), NEW id \in Ids
  PROVE  Keeps(w, WorkerCancel(w, id))
<1> DEFINE K == IndicesOfId(w.queue, id)
<1>1. w \in Worker
  BY DEF Sane
<1>2. CASE K # {}
  <2>1. K \in SUBSET DOMAIN w.queue
    BY DEF IndicesOfId
  <2>2. WorkerCancel(w, id) = CancelQueued(w, K)
    BY <1>2 DEF WorkerCancel
  <2> HIDE DEF K
  <2> QED
    BY <2>1, <2>2, CancelQueuedTidies
<1>3. CASE K = {} /\ w.active.id = id
  <2>1. w.active # NoRequest
    BY <1>3, NoRequestIsNone
  <2>2. WorkerCancel(w, id) = EndActive(w, "Cancelled")
    BY <1>3 DEF WorkerCancel, CompleteActiveCancelled
  <2> QED
    BY <2>1, <2>2, EndActiveKeeps
<1>4. CASE K = {} /\ w.active.id # id
  <2>1. WorkerCancel(w, id) = w
    BY <1>4 DEF WorkerCancel
  <2> QED
    BY <2>1, <1>1, RestingKeeps DEF Sane, Clear
<1> QED
  BY <1>2, <1>3, <1>4

\* A request with a new id is handed to the worker.
Receives(w, v, id) ==
  /\ Good(v)
  /\ Held(v) = Held(w) \cup {id} /\ Pending(v) \subseteq Pending(w) \cup {id}
  /\ Waiting(v.queue) \subseteq Waiting(w.queue) \cup {id}
  /\ Told(v.outbox) \subseteq Told(w.outbox) \cup Pending(w) \cup {id}
  /\ Extends(w, v) /\ NoRise(w, v) /\ NoFall(w, v)
  /\ Dead(w) => Dead(v)

LEMMA WorkerEnqueueReceives ==
  ASSUME NEW w, Good(w), NEW req \in Request, NEW write \in Writes,
         \A id \in Pending(w) : id < req.id, req.id \notin Told(w.outbox)
  PROVE  Receives(w, WorkerEnqueue(w, req, write), req.id)
<1> DEFINE v == WorkerEnqueue(w, req, write)
           id == req.id
<1>1. w \in Worker /\ Tidy(w) /\ Sane(w) /\ w.queue \in Seq(Request)
      /\ w.outbox \in Seq(Signal)
  BY OutboxTypes DEF Good, Sane
<1>2. /\ id \in Ids /\ 0 < id /\ 0 \notin Ids
      /\ Waiting(w.queue) \subseteq Ids
      /\ w.active # NoRequest => w.active.id \in Ids
      /\ w.active = NoRequest => w.active.id = 0
      /\ Pending(w) = Waiting(w.queue) \cup (IF w.active = NoRequest THEN {} ELSE {w.active.id})
  <2>1. id \in Ids /\ 0 < id
    BY DEF Request, Ids
  <2> QED
    BY <2>1, <1>1, WorkerIds
<1>3. w.active.id < id /\ id \notin Pending(w) /\ w.active.id # id
      /\ (\A i \in Waiting(w.queue) : i < id) /\ id \notin Waiting(w.queue)
  <2>1. \A i \in Ids : ~(i < i)
    BY DEF Ids
  <2>2. w.active.id < id
    BY <1>2
  <2>3. id \notin Pending(w)
    BY <2>1, <1>2
  <2> QED
    BY <2>1, <2>2, <2>3, <1>2
<1>4. CASE w.state # "Connected" \/ w.trans # NoTransition \/ w.closing # 0
  <2> DEFINE q == <<req>>
             news == Results(q, "Failed", Noise)
  <2>1. v = Finalize(w, q, "Failed", Noise)
    BY <1>4 DEF WorkerEnqueue
  <2>2. q \in Seq(Request) /\ Waiting(q) = {id} /\ Ascending(q)
    BY WaitingOne
  <2> HIDE DEF q, v, id
  <2>3. "Failed" \in TerminalState /\ "Failed" # "Succeeded"
    BY DEF TerminalState
  <2>4. /\ news \in Seq(Signal) /\ Reported(news) = {id} /\ Told(news) = {id}
        /\ OneResultEach(news) /\ Truthful(news)
        /\ \A i \in DOMAIN news : ~IsUp(news[i]) /\ ~IsDown(news[i])
    BY <2>2, <2>3, ResultsTell
  <2>5. v.outbox = w.outbox \o news
    BY <2>1, <1>1, FinalizeOutbox
  <2> HIDE DEF news
  <2>6. Says(w, v)
    BY <2>1, <2>2, <2>3, <1>1, FinalizeSays
  <2>7. /\ v \in Worker /\ v.queue = w.queue /\ v.active = w.active /\ v.state = w.state
        /\ v.port = w.port /\ v.closing = w.closing /\ v.resync = w.resync
        /\ v.line = w.line /\ v.quiet = w.quiet
    BY <2>6, <1>1, SaysKeeps
  <2>8. id \notin Told(w.outbox) /\ id \notin Reported(w.outbox)
    <3>1. id \notin Told(w.outbox)
      BY DEF id
    <3> QED
      BY <3>1, ReportedIsTold
  <2>9. /\ Reported(v.outbox) = Reported(w.outbox) \cup {id}
        /\ Told(v.outbox) = Told(w.outbox) \cup {id}
    BY <2>4, <2>5, <1>1, ConcatTold
  <2>10. Reported(w.outbox) \cap Reported(news) = {}
    BY <2>4, <2>8
  <2>11. OneResultEach(v.outbox) /\ (Truthful(w.outbox) => Truthful(v.outbox))
    <3>1. OneResultEach(w.outbox)
      BY <1>1 DEF Tidy
    <3>2. OneResultEach(w.outbox \o news)
      BY <2>4, <2>10, <3>1, <1>1, ConcatTold
    <3>3. Truthful(w.outbox) => Truthful(w.outbox \o news)
      BY <2>4, <1>1, ConcatTold
    <3> QED
      BY <2>5, <3>2, <3>3
  <2>12. Extends(w, v) /\ NoRise(w, v) /\ NoFall(w, v)
    BY <2>4, <2>5, <2>7, <1>1, AddsExtends
  <2>13. Tidy(v)
    BY <2>7, <2>9, <2>11, <1>1, <1>3 DEF Tidy
  <2>14. Sane(v)
    BY <2>7, <2>11, <2>13, <1>1 DEF Sane, Clear
  <2>15. Shut(v) /\ Served(v)
    BY <2>7 DEF Good, Shut, Served, Idle
  <2>16. Held(v) = Held(w) \cup {id} /\ Pending(v) = Pending(w)
    BY <2>7, <2>9 DEF Held, Pending
  <2>17. Dead(w) => Dead(v)
    BY <2>7 DEF Dead, Idle
  <2>18. Receives(w, v, id)
    BY <2>7, <2>9, <2>12, <2>14, <2>15, <2>16, <2>17 DEF Receives, Good
  <2> QED
    BY <2>18 DEF v, id
<1>5. CASE ~(w.state # "Connected" \/ w.trans # NoTransition \/ w.closing # 0)
  <2> DEFINE longer == [w EXCEPT !.queue = Append(@, req)]
  <2>1. v = StartNextWhenSilent(longer, write)
    BY <1>5 DEF WorkerEnqueue
  <2>2. /\ Append(w.queue, req) \in Seq(Request)
        /\ Waiting(Append(w.queue, req)) = Waiting(w.queue) \cup {id}
        /\ Ascending(w.queue) /\ (\A i \in Waiting(w.queue) : i < id)
             => Ascending(Append(w.queue, req))
    BY <1>1, WaitingAppend
  <2>3. /\ longer \in Worker /\ longer.queue = Append(w.queue, req)
        /\ longer.active = w.active /\ longer.outbox = w.outbox
        /\ longer.state = w.state /\ longer.port = w.port /\ longer.closing = w.closing
        /\ longer.resync = w.resync /\ longer.line = w.line /\ longer.quiet = w.quiet
    BY <2>2, <1>1 DEF Worker
  <2> HIDE DEF longer, v
  <2>4. Tidy(longer)
    <3>1. id \notin Told(w.outbox)
      OBVIOUS
    <3>2. Ascending(w.queue)
      BY <1>1 DEF Tidy
    <3> HIDE DEF id
    <3> QED
      BY <2>2, <2>3, <3>1, <3>2, <1>1, <1>3 DEF Tidy
  <2>5. Sane(longer)
    BY <2>3, <2>4, <1>1 DEF Sane, Clear
  <2>6. Shut(longer) /\ Served(longer)
    BY <2>3, <1>1, <1>5 DEF Shut, Served, Sane
  <2>7. /\ Pending(longer) = Pending(w) \cup {id} /\ Held(longer) = Held(w) \cup {id}
    BY <2>2, <2>3 DEF Held, Pending
  <2>8. Keeps(longer, v)
    BY <2>1, <2>5, StartNextWhenSilentKeeps
  <2>9. Good(v)
    BY <2>6, <2>8 DEF Keeps, Good
  <2>10. /\ Held(v) = Held(w) \cup {id} /\ Pending(v) \subseteq Pending(w) \cup {id}
         /\ Waiting(v.queue) \subseteq Waiting(w.queue) \cup {id}
         /\ Told(v.outbox) \subseteq Told(w.outbox) \cup Pending(w) \cup {id}
    BY <2>2, <2>3, <2>7, <2>8 DEF Keeps, Carries
  <2>11. Extends(longer, v) /\ NoRise(longer, v) /\ NoFall(longer, v)
    BY <2>3, <2>8, <1>5 DEF Keeps, Descends
  <2>12. Extends(w, v) /\ NoRise(w, v) /\ NoFall(w, v)
    BY <2>3, <2>11 DEF Extends, NoRise, NoFall
  <2>13. ~Dead(w)
    BY <1>5 DEF Dead
  <2> HIDE DEF id
  <2>14. Receives(w, v, id)
    BY <2>9, <2>10, <2>12, <2>13 DEF Receives
  <2> QED
    BY <2>14 DEF v, id
<1> QED
  BY <1>4, <1>5

\* shutdown() drops the requests the worker holds.
Drops(w, v) ==
  /\ Good(v) /\ Idle(v) /\ Held(v) \subseteq Held(w)
  /\ v.outbox = w.outbox /\ v.closing = w.closing
  /\ Dead(w) => Dead(v)

LEMMA WorkerShutdownDrops ==
  ASSUME NEW w, Good(w)
  PROVE  Drops(w, WorkerShutdown(w))
<1> DEFINE v == WorkerShutdown(w)
<1>1. w \in Worker /\ Tidy(w) /\ (~LateAnswers => Clear(w))
  BY DEF Good, Sane
<1>2. /\ v \in Worker /\ v.queue = <<>> /\ v.active = NoRequest /\ v.outbox = w.outbox
      /\ v.state = "Disconnected" /\ ~v.port /\ v.closing = w.closing
      /\ v.resync = w.resync
  <2>1. <<>> \in Seq(Request)
    OBVIOUS
  <2> QED
    BY <1>1, <2>1 DEF WorkerShutdown, Worker, ConnectionState, OwnerOrNone
<1> HIDE DEF v
<1>3. Idle(v) /\ Pending(v) = {} /\ Waiting(v.queue) = {} /\ v.active.id = 0
      /\ 0 \notin Ids
  BY <1>2, WorkerIds DEF Idle
<1>4. Tidy(v)
  <2>1. Ascending(v.queue)
    BY <1>2 DEF Ascending
  <2>2. v.active.id \notin Reported(v.outbox)
    BY <1>3, ReportedIsTold
  <2> QED
    BY <2>1, <2>2, <1>1, <1>2, <1>3 DEF Tidy
<1>5. Sane(v)
  BY <1>1, <1>2, <1>4 DEF Sane, Clear
<1>6. Shut(v) /\ Served(v)
  BY <1>2, <1>3 DEF Shut, Served
<1>7. Held(v) \subseteq Held(w)
  BY <1>2, <1>3 DEF Held
<1>8. Dead(w) => Dead(v)
  BY <1>2, <1>3 DEF Dead
<1>9. Drops(w, v)
  BY <1>2, <1>3, <1>5, <1>6, <1>7, <1>8 DEF Drops, Good
<1> QED
  BY <1>9 DEF v

-----------------------------------------------------------------------------
(***************************************************************************)
(* The two queues between the threads.                                     *)
(***************************************************************************)
LEMMA TailIndices ==
  ASSUME NEW S, NEW q \in Seq(S), q # <<>>
  PROVE  /\ 1 \in DOMAIN q /\ Head(q) = q[1] /\ Head(q) \in S /\ Tail(q) \in Seq(S)
         /\ \A i \in DOMAIN Tail(q) : i \in Nat /\ 1 < i + 1 /\ i + 1 \in DOMAIN q
                                      /\ Tail(q)[i] = q[i + 1]
         /\ \A i \in DOMAIN q : i = 1 \/ (1 < i /\ i - 1 \in DOMAIN Tail(q)
                                            /\ Tail(q)[i - 1] = q[i])
OBVIOUS

LEMMA AppendIndices ==
  ASSUME NEW S, NEW q \in Seq(S), NEW c \in S
  PROVE  LET t == Append(q, c)
         IN /\ t \in Seq(S)
            /\ \A i \in DOMAIN q : i \in Nat /\ i \in DOMAIN t /\ t[i] = q[i]
                                   /\ i < Len(q) + 1
            /\ Len(q) + 1 \in DOMAIN t /\ t[Len(q) + 1] = c
            /\ \A i \in DOMAIN t : i \in DOMAIN q \/ i = Len(q) + 1
OBVIOUS

LEMMA EnqueueTypes ==
  ASSUME NEW c \in Command, Enqueues(c)
  PROVE  c.req \in Request /\ c.req.id \in Ids /\ ~Opens(c) /\ ClosesOrEnqueues(c)
<1>1. c.req \in Request
  BY DEF Command, Enqueues
<1> QED
  BY <1>1 DEF Request, Enqueues, Opens, ClosesOrEnqueues

\* What the rest of a queue of commands inherits from it.
Shortens(q, t) ==
  /\ OpensLast(q) => OpensLast(t)
  /\ OpensFirst(q) => OpensFirst(t)
  /\ HasOpen(t) => HasOpen(q)
  /\ HasCloseOrEnqueue(t) => HasCloseOrEnqueue(q)
  /\ NoShutdown(q) => NoShutdown(t)
  /\ InTurn(q) => InTurn(t)

LEMMA ShortensItself == \A q : Shortens(q, q)
BY DEF Shortens

LEMMA InboxTail ==
  ASSUME NEW q \in Seq(Command), q # <<>>
  PROVE  LET c == Head(q)
             t == Tail(q)
         IN /\ Shortens(q, t)
            /\ Opens(c) => HasOpen(q)
            /\ ClosesOrEnqueues(c) => HasCloseOrEnqueue(q)
            /\ Opens(c) /\ OpensLast(q) => ~HasCloseOrEnqueue(t)
            /\ ClosesOrEnqueues(c) /\ OpensFirst(q) => ~HasOpen(t)
            /\ c.kind = "shutdown" => ~NoShutdown(q)
            /\ ~Enqueues(c) => Posted(q) = Posted(t)
            /\ Enqueues(c) => /\ Posted(q) = Posted(t) \cup {c.req.id}
                              /\ InTurn(q) => \A id \in Posted(t) : c.req.id < id
<1> DEFINE c == Head(q)
           t == Tail(q)
<1>1. /\ 1 \in DOMAIN q /\ c = q[1] /\ c \in Command
      /\ \A i \in DOMAIN t : i \in Nat /\ 1 < i + 1 /\ i + 1 \in DOMAIN q /\ t[i] = q[i + 1]
      /\ \A i \in DOMAIN q : i = 1 \/ (1 < i /\ i - 1 \in DOMAIN t /\ t[i - 1] = q[i])
  BY TailIndices
<1> HIDE DEF c, t
<1>2. \A i, j \in DOMAIN t : i < j => i + 1 < j + 1
  BY <1>1
<1>3. Shortens(q, t)
  BY <1>1, <1>2 DEF Shortens, OpensLast, OpensFirst, HasOpen, HasCloseOrEnqueue, NoShutdown,
                    InTurn
<1>4. /\ Opens(c) => HasOpen(q)
      /\ ClosesOrEnqueues(c) => HasCloseOrEnqueue(q)
      /\ c.kind = "shutdown" => ~NoShutdown(q)
  BY <1>1 DEF HasOpen, HasCloseOrEnqueue, NoShutdown
<1>5. /\ Opens(c) /\ OpensLast(q) => ~HasCloseOrEnqueue(t)
      /\ ClosesOrEnqueues(c) /\ OpensFirst(q) => ~HasOpen(t)
  BY <1>1 DEF OpensLast, OpensFirst, HasOpen, HasCloseOrEnqueue
<1>6. ~Enqueues(c) => Posted(q) = Posted(t)
  BY <1>1 DEF Posted
<1>7. ASSUME Enqueues(c)
      PROVE  /\ Posted(q) = Posted(t) \cup {c.req.id}
             /\ InTurn(q) => \A id \in Posted(t) : c.req.id < id
  <2>1. c.req.id \in Ids
    BY <1>1, <1>7, EnqueueTypes
  <2>2. Posted(q) = Posted(t) \cup {c.req.id}
    BY <1>1, <1>7, <2>1 DEF Posted
  <2>3. InTurn(q) => \A id \in Posted(t) : c.req.id < id
    BY <1>1, <1>7 DEF InTurn, Posted
  <2> QED
    BY <2>2, <2>3
<1> QED
  BY <1>3, <1>4, <1>5, <1>6, <1>7 DEF c, t

LEMMA InboxAppend ==
  ASSUME NEW q \in Seq(Command), NEW c \in Command
  PROVE  LET t == Append(q, c)
         IN /\ OpensLast(q) /\ ~(HasOpen(q) /\ ClosesOrEnqueues(c)) => OpensLast(t)
            /\ OpensFirst(q) /\ ~(HasCloseOrEnqueue(q) /\ Opens(c)) => OpensFirst(t)
            /\ HasOpen(t) <=> HasOpen(q) \/ Opens(c)
            /\ HasCloseOrEnqueue(t) <=> HasCloseOrEnqueue(q) \/ ClosesOrEnqueues(c)
            /\ NoShutdown(q) /\ c.kind # "shutdown" => NoShutdown(t)
            /\ InTurn(q) /\ (Enqueues(c) => \A id \in Posted(q) : id < c.req.id)
                 => InTurn(t)
            /\ ~Enqueues(c) => Posted(t) = Posted(q)
            /\ Enqueues(c) => Posted(t) = Posted(q) \cup {c.req.id}
<1> DEFINE t == Append(q, c)
           n == Len(q) + 1
<1>1. /\ \A i \in DOMAIN q : i \in Nat /\ i \in DOMAIN t /\ t[i] = q[i] /\ i < n
      /\ n \in DOMAIN t /\ t[n] = c
      /\ \A i \in DOMAIN t : i \in DOMAIN q \/ i = n
  BY AppendIndices
<1>2. n \in Nat /\ \A i \in DOMAIN q : q[i] \in Command
  OBVIOUS
<1> HIDE DEF t, n
<1>3. \A i, j \in DOMAIN t : i < j => i \in DOMAIN q
  BY <1>1, <1>2
<1>4. HasOpen(t) <=> HasOpen(q) \/ Opens(c)
  BY <1>1 DEF HasOpen
<1>5. HasCloseOrEnqueue(t) <=> HasCloseOrEnqueue(q) \/ ClosesOrEnqueues(c)
  BY <1>1 DEF HasCloseOrEnqueue
<1>6. NoShutdown(q) /\ c.kind # "shutdown" => NoShutdown(t)
  BY <1>1 DEF NoShutdown
<1>7. OpensLast(q) /\ ~(HasOpen(q) /\ ClosesOrEnqueues(c)) => OpensLast(t)
  BY <1>1, <1>3 DEF OpensLast, HasOpen
<1>8. OpensFirst(q) /\ ~(HasCloseOrEnqueue(q) /\ Opens(c)) => OpensFirst(t)
  BY <1>1, <1>3 DEF OpensFirst, HasCloseOrEnqueue
<1>9. InTurn(q) /\ (Enqueues(c) => \A id \in Posted(q) : id < c.req.id) => InTurn(t)
  <2>1. \A i \in DOMAIN q : Enqueues(q[i]) => q[i].req.id \in Posted(q)
    BY <1>2, EnqueueTypes DEF Posted
  <2> QED
    BY <1>1, <1>3, <2>1 DEF InTurn
<1>10. ~Enqueues(c) => Posted(t) = Posted(q)
  BY <1>1 DEF Posted
<1>11. Enqueues(c) => Posted(t) = Posted(q) \cup {c.req.id}
  BY <1>1, EnqueueTypes DEF Posted
<1> QED
  BY <1>4, <1>5, <1>6, <1>7, <1>8, <1>9, <1>10, <1>11 DEF t

LEMMA OutboxTail ==
  ASSUME NEW out \in Seq(Signal), out # <<>>
  PROVE  LET s == Head(out)
             t == Tail(out)
         IN /\ HasUp(out) <=> IsUp(s) \/ HasUp(t)
            /\ HasDown(out) <=> IsDown(s) \/ HasDown(t)
            /\ DownsFirst(out) => DownsFirst(t) /\ (IsUp(s) => ~HasDown(t))
            /\ UpsFirst(out) => UpsFirst(t) /\ (IsDown(s) => ~HasUp(t))
            /\ Told(t) \subseteq Told(out)
            /\ Tells(s) => s.id \in Told(out)
            /\ IsResult(s) => Reported(out) = Reported(t) \cup {s.id}
            /\ ~IsResult(s) => Reported(out) = Reported(t)
            /\ OneResultEach(out) =>
                 OneResultEach(t) /\ (IsResult(s) => s.id \notin Reported(t))
            /\ Truthful(out) => Truthful(t)
<1> DEFINE s == Head(out)
           t == Tail(out)
<1>1. /\ 1 \in DOMAIN out /\ s = out[1] /\ s \in Signal
      /\ \A i \in DOMAIN t : i \in Nat /\ 1 < i + 1 /\ i + 1 \in DOMAIN out
                             /\ t[i] = out[i + 1]
      /\ \A i \in DOMAIN out : i = 1 \/ (1 < i /\ i - 1 \in DOMAIN t /\ t[i - 1] = out[i])
  BY TailIndices
<1> HIDE DEF s, t
<1>2. \A i, j \in DOMAIN t : (i < j => i + 1 < j + 1) /\ (i + 1 = j + 1 => i = j)
  BY <1>1
<1>3. Tells(s) => s.id \in Ids
  BY <1>1 DEF Tells, Signal
<1>4. IsResult(s) => Tells(s)
  BY DEF IsResult, Tells
<1>5. HasUp(out) <=> IsUp(s) \/ HasUp(t)
  BY <1>1 DEF HasUp
<1>6. HasDown(out) <=> IsDown(s) \/ HasDown(t)
  BY <1>1 DEF HasDown
<1>7. DownsFirst(out) => DownsFirst(t) /\ (IsUp(s) => ~HasDown(t))
  BY <1>1, <1>2 DEF DownsFirst, HasDown
<1>8. UpsFirst(out) => UpsFirst(t) /\ (IsDown(s) => ~HasUp(t))
  BY <1>1, <1>2 DEF UpsFirst, HasUp
<1>9. Told(t) \subseteq Told(out) /\ (Tells(s) => s.id \in Told(out))
  BY <1>1, <1>3 DEF Told
<1>10. IsResult(s) => Reported(out) = Reported(t) \cup {s.id}
  BY <1>1, <1>3, <1>4 DEF Reported
<1>11. ~IsResult(s) => Reported(out) = Reported(t)
  BY <1>1 DEF Reported
<1>12. ASSUME OneResultEach(out)
       PROVE  OneResultEach(t) /\ (IsResult(s) => s.id \notin Reported(t))
  <2>1. OneResultEach(t)
    BY <1>1, <1>2, <1>12 DEF OneResultEach
  <2>2. ASSUME IsResult(s), s.id \in Reported(t)
        PROVE  FALSE
    <3>1. PICK i \in DOMAIN t : IsResult(t[i]) /\ t[i].id = s.id
      BY <2>2 DEF Reported
    <3>2. i + 1 = 1
      BY <1>1, <1>12, <2>2, <3>1 DEF OneResultEach
    <3> QED
      BY <3>2, <1>1
  <2> QED
    BY <2>1, <2>2
<1>13. Truthful(out) => Truthful(t)
  BY <1>1 DEF Truthful
<1> QED
  BY <1>5, <1>6, <1>7, <1>8, <1>9, <1>10, <1>11, <1>12, <1>13 DEF s, t

LEMMA OutboxExtended ==
  ASSUME NEW w \in Worker, NEW v \in Worker, Extends(w, v)
  PROVE  /\ HasUp(w.outbox) => HasUp(v.outbox)
         /\ HasDown(w.outbox) => HasDown(v.outbox)
         /\ NoRise(w, v) /\ HasUp(v.outbox) => HasUp(w.outbox)
         /\ NoFall(w, v) /\ HasDown(v.outbox) => HasDown(w.outbox)
         /\ NoFall(w, v) /\ DownsFirst(w.outbox) => DownsFirst(v.outbox)
         /\ NoRise(w, v) /\ UpsFirst(w.outbox) => UpsFirst(v.outbox)
         /\ ~HasUp(v.outbox) => DownsFirst(v.outbox)
         /\ ~HasDown(v.outbox) => UpsFirst(v.outbox)
<1> DEFINE A == w.outbox
           C == v.outbox
           n == Len(A)
<1>1. /\ n \in Nat /\ DOMAIN A = 1..n /\ DOMAIN C = 1..Len(C) /\ Len(C) \in Nat
  BY OutboxTypes
<1>2. \A i \in DOMAIN A : i \in DOMAIN C /\ C[i] = A[i]
  BY DEF Extends
<1>3. /\ NoRise(w, v) => \A i \in DOMAIN C : i > n => ~IsUp(C[i])
      /\ NoFall(w, v) => \A i \in DOMAIN C : i > n => ~IsDown(C[i])
  BY DEF NoRise, NoFall
<1> HIDE DEF A, C, n
<1>4. \A i \in DOMAIN C : i \in DOMAIN A \/ i > n
  BY <1>1
<1>5. \A i, j \in DOMAIN C : i < j /\ j \in DOMAIN A => i \in DOMAIN A
  BY <1>1
<1>6. (HasUp(A) => HasUp(C)) /\ (HasDown(A) => HasDown(C))
  BY <1>2 DEF HasUp, HasDown
<1>7. NoRise(w, v) /\ HasUp(C) => HasUp(A)
  BY <1>2, <1>3, <1>4 DEF HasUp
<1>8. NoFall(w, v) /\ HasDown(C) => HasDown(A)
  BY <1>2, <1>3, <1>4 DEF HasDown
<1>9. NoFall(w, v) /\ DownsFirst(A) => DownsFirst(C)
  BY <1>2, <1>3, <1>4, <1>5 DEF DownsFirst
<1>10. NoRise(w, v) /\ UpsFirst(A) => UpsFirst(C)
  BY <1>2, <1>3, <1>4, <1>5 DEF UpsFirst
<1>11. (~HasUp(C) => DownsFirst(C)) /\ (~HasDown(C) => UpsFirst(C))
  BY DEF HasUp, HasDown, DownsFirst, UpsFirst
<1> QED
  BY <1>6, <1>7, <1>8, <1>9, <1>10, <1>11 DEF A, C

-----------------------------------------------------------------------------
(***************************************************************************)
(* Steps of the worker thread.                                             *)
(***************************************************************************)

\* An event handled, or a command that brings no connection up or down.
LEMMA OrderKept ==
  ASSUME worker \in Worker, worker' \in Worker,
         Descends(worker, worker'), Idle(worker) => Idle(worker'),
         connection' = connection, Shortens(inbox, inbox')
  PROVE  (Calm => Calm') /\ (Engaged => Engaged')
<1> DEFINE w == worker
           v == worker'
<1>1. /\ Extends(w, v) /\ NoRise(w, v) /\ v.closing \in {0, w.closing}
      /\ NoFall(w, v) \/ (w.closing # 0 /\ Dead(v))
      /\ Dead(w) => Dead(v)
  BY DEF Descends
<1>2. /\ HasUp(w.outbox) => HasUp(v.outbox)
      /\ HasUp(v.outbox) => HasUp(w.outbox)
      /\ NoFall(w, v) /\ HasDown(v.outbox) => HasDown(w.outbox)
      /\ NoFall(w, v) /\ DownsFirst(w.outbox) => DownsFirst(v.outbox)
      /\ UpsFirst(w.outbox) => UpsFirst(v.outbox)
      /\ ~HasUp(v.outbox) => DownsFirst(v.outbox)
  BY <1>1, OutboxExtended
<1>3. ASSUME Calm PROVE Calm'
  <2>1. HasUp(w.outbox) => NoFall(w, v) /\ v.closing = 0 /\ ~HasCloseOrEnqueue(inbox')
    BY <1>1, <1>3 DEF Calm, Shortens
  <2>2. DownsFirst(v.outbox)
    BY <1>2, <1>3, <2>1 DEF Calm
  <2>3. Calm'
    BY <1>1, <1>2, <1>3, <2>1, <2>2 DEF Calm, Shortens
  <2> QED
    BY <2>3
<1>4. ASSUME Engaged PROVE Engaged'
  <2>1. HasDown(v.outbox) => Dead(v)
    BY <1>1, <1>2, <1>4 DEF Engaged
  <2>2. HasOpen(inbox') => Idle(v) /\ v.closing = 0 /\ ~HasDown(v.outbox)
    BY <1>1, <1>2, <1>4 DEF Engaged, Shortens
  <2>3. Engaged'
    BY <1>2, <1>4, <2>1, <2>2 DEF Engaged, Shortens
  <2> QED
    BY <2>3
<1> QED
  BY <1>3, <1>4

LEMMA OrderRisen ==
  ASSUME worker \in Worker, Rises(worker, worker'),
         connection' = connection, Shortens(inbox, inbox'),
         Calm => worker.closing = 0 /\ ~HasCloseOrEnqueue(inbox'),
         Engaged => ~HasDown(worker.outbox)
  PROVE  (Calm => Calm') /\ (Engaged => Engaged')
<1> DEFINE w == worker
           v == worker'
<1>1. /\ Extends(w, v) /\ NoFall(w, v) /\ v.closing = w.closing /\ HasUp(v.outbox)
      /\ Idle(v) /\ v \in Worker
  BY DEF Rises, Good, Sane
<1>2. /\ HasDown(v.outbox) => HasDown(w.outbox)
      /\ DownsFirst(w.outbox) => DownsFirst(v.outbox)
      /\ ~HasDown(v.outbox) => UpsFirst(v.outbox)
  BY <1>1, OutboxExtended
<1>3. ASSUME Calm PROVE Calm'
  <2>1. Calm'
    BY <1>1, <1>2, <1>3 DEF Calm, Shortens
  <2> QED
    BY <2>1
<1>4. ASSUME Engaged PROVE Engaged'
  <2>1. Engaged'
    BY <1>1, <1>2, <1>4 DEF Engaged, Shortens
  <2> QED
    BY <2>1
<1> QED
  BY <1>3, <1>4

LEMMA OrderClosed ==
  ASSUME worker \in Worker, Closes(worker, worker'),
         connection' = connection, inbox \in Seq(Command), inbox # <<>>,
         Head(inbox).kind = "close", inbox' = Tail(inbox)
  PROVE  (Calm => Calm') /\ (Engaged => Engaged')
<1> DEFINE w == worker
           v == worker'
<1>1. /\ Extends(w, v) /\ NoRise(w, v) /\ v \in Worker
      /\ NoFall(w, v) \/ Dead(v)
      /\ Dead(w) => Dead(v)
  BY DEF Closes, Good, Sane
<1>2. /\ HasUp(v.outbox) => HasUp(w.outbox)
      /\ NoFall(w, v) /\ HasDown(v.outbox) => HasDown(w.outbox)
      /\ UpsFirst(w.outbox) => UpsFirst(v.outbox)
      /\ ~HasUp(v.outbox) => DownsFirst(v.outbox)
  BY <1>1, OutboxExtended
<1>3. ClosesOrEnqueues(Head(inbox))
  BY DEF ClosesOrEnqueues
<1>4. /\ Shortens(inbox, inbox') /\ HasCloseOrEnqueue(inbox)
      /\ OpensFirst(inbox) => ~HasOpen(inbox')
  BY <1>3, InboxTail
<1>5. ASSUME Calm PROVE Calm'
  <2>1. ~HasUp(w.outbox) /\ Dead(v)
    BY <1>1, <1>4, <1>5 DEF Calm
  <2>2. ~HasUp(v.outbox) /\ Idle(v)
    BY <1>2, <2>1 DEF Dead
  <2>3. Calm'
    BY <1>2, <1>4, <1>5, <2>1, <2>2 DEF Calm, Shortens
  <2> QED
    BY <2>3
<1>6. ASSUME Engaged PROVE Engaged'
  <2>1. Engaged'
    BY <1>1, <1>2, <1>4, <1>6 DEF Engaged, Shortens
  <2> QED
    BY <2>1
<1> QED
  BY <1>5, <1>6

LEMMA OrderReceived ==
  ASSUME worker \in Worker, NEW id, Receives(worker, worker', id),
         connection' = connection, inbox \in Seq(Command), inbox # <<>>,
         Head(inbox).kind = "enqueue", inbox' = Tail(inbox)
  PROVE  (Calm => Calm') /\ (Engaged => Engaged')
<1> DEFINE w == worker
           v == worker'
<1>1. /\ Extends(w, v) /\ NoRise(w, v) /\ NoFall(w, v) /\ v \in Worker
      /\ Dead(w) => Dead(v)
  BY DEF Receives, Good, Sane
<1>2. /\ HasUp(v.outbox) => HasUp(w.outbox)
      /\ HasDown(v.outbox) => HasDown(w.outbox)
      /\ UpsFirst(w.outbox) => UpsFirst(v.outbox)
      /\ ~HasUp(v.outbox) => DownsFirst(v.outbox)
  BY <1>1, OutboxExtended
<1>3. ClosesOrEnqueues(Head(inbox))
  BY DEF ClosesOrEnqueues
<1>4. /\ Shortens(inbox, inbox') /\ HasCloseOrEnqueue(inbox)
      /\ OpensFirst(inbox) => ~HasOpen(inbox')
  BY <1>3, InboxTail
<1>5. ASSUME Calm PROVE Calm'
  <2>1. ~HasUp(w.outbox) /\ Dead(v)
    BY <1>1, <1>4, <1>5 DEF Calm
  <2>2. ~HasUp(v.outbox) /\ Idle(v)
    BY <1>2, <2>1 DEF Dead
  <2>3. Calm'
    BY <1>2, <1>4, <1>5, <2>1, <2>2 DEF Calm, Shortens
  <2> QED
    BY <2>3
<1>6. ASSUME Engaged PROVE Engaged'
  <2>1. Engaged'
    BY <1>1, <1>2, <1>4, <1>6 DEF Engaged, Shortens
  <2> QED
    BY <2>1
<1> QED
  BY <1>5, <1>6

\* The requests new leave the inbox for the worker.
LEMMA InOrderMoved ==
  ASSUME InOrder, worker \in Worker, NEW new \in SUBSET Ids,
         Posted(inbox) = Posted(inbox') \cup new,
         \A id \in Posted(inbox'), n \in new : n < id,
         InTurn(inbox) => InTurn(inbox'),
         Held(worker') \subseteq Held(worker) \cup new,
         Pending(worker') \subseteq Pending(worker) \cup new,
         Told(worker'.outbox) \subseteq Told(worker.outbox) \cup Pending(worker) \cup new,
         nextId' = nextId
  PROVE  InOrder'
<1>1. /\ InTurn(inbox)
      /\ \A id \in Posted(inbox), held \in Pending(worker) : held < id
      /\ Posted(inbox) \cap Told(worker.outbox) = {}
      /\ \A id \in Posted(inbox) \cup Held(worker) \cup Told(worker.outbox) : id < nextId
  BY DEF InOrder
<1>2. Posted(inbox) \subseteq Ids /\ Pending(worker) \subseteq Held(worker)
      /\ \A id \in Ids : ~(id < id)
  BY DEF Posted, Held, Ids
<1>3. \A id \in Posted(inbox'), held \in Pending(worker') : held < id
  BY <1>1
<1>4. Posted(inbox') \cap Told(worker'.outbox) = {}
  BY <1>1, <1>2
<1>5. \A id \in Posted(inbox') \cup Held(worker') \cup Told(worker'.outbox) : id < nextId
  BY <1>1, <1>2
<1> QED
  BY <1>1, <1>3, <1>4, <1>5 DEF InOrder

LEMMA AccountedMoved ==
  ASSUME Accounted, NEW new \in SUBSET Ids,
         Posted(inbox) = Posted(inbox') \cup new,
         NoShutdown(inbox) => NoShutdown(inbox'),
         Held(worker') = Held(worker) \cup new,
         Waiting(worker'.queue) \subseteq Waiting(worker.queue) \cup new,
         requests' = requests
  PROVE  Accounted'
<1>1. /\ \A id \in Ids : requests[id] # "None" <=> id \in Posted(inbox) \cup Held(worker)
      /\ \A id \in Posted(inbox) \cup Waiting(worker.queue) : requests[id] = "Queued"
      /\ NoShutdown(inbox)
  BY DEF Accounted
<1>2. Posted(inbox') \cup Held(worker') = Posted(inbox) \cup Held(worker)
  OBVIOUS
<1>3. \A id \in Posted(inbox') \cup Waiting(worker'.queue) : requests[id] = "Queued"
  BY <1>1
<1> QED
  BY <1>1, <1>2, <1>3 DEF Accounted

-----------------------------------------------------------------------------
(***************************************************************************)
(* Events of the worker thread, and the commands that bring no connection  *)
(* up or down and no request in.                                           *)
(***************************************************************************)
LEMMA CInvTypes ==
  ASSUME CInv
  PROVE  /\ worker \in Worker /\ inbox \in Seq(Command) /\ worker.outbox \in Seq(Signal)
         /\ Good(worker) /\ Sane(worker) /\ Shut(worker) /\ Served(worker) /\ Tidy(worker)
BY OutboxTypes DEF CInv, IInv, TypeOK, Good, Sane

\* A step of the worker that hands its requests on and takes none in.
LEMMA CarryingStep ==
  ASSUME CInv, IInv', UNCHANGED facadeVars, Good(worker'), Carries(worker, worker'),
         (Calm \/ Engaged)',
         \/ inbox' = inbox
         \/ inbox # <<>> /\ inbox' = Tail(inbox) /\ ~Enqueues(Head(inbox))
  PROVE  CInv'
<1> DEFINE new == {}
<1>1. worker \in Worker /\ inbox \in Seq(Command)
  BY CInvTypes
<1>2. nextId' = nextId /\ requests' = requests /\ alive' = alive
  BY DEF facadeVars
<1>3. Shortens(inbox, inbox') /\ Posted(inbox) = Posted(inbox')
  <2>1. CASE inbox' = inbox
    BY <2>1, ShortensItself
  <2>2. CASE inbox # <<>> /\ inbox' = Tail(inbox) /\ ~Enqueues(Head(inbox))
    BY <2>2, <1>1, InboxTail
  <2> QED
    BY <2>1, <2>2
<1>4. /\ new \in SUBSET Ids /\ Posted(inbox) = Posted(inbox') \cup new
      /\ \A id \in Posted(inbox'), n \in new : n < id
      /\ Held(worker') = Held(worker) \cup new
      /\ Pending(worker') \subseteq Pending(worker) \cup new
      /\ Waiting(worker'.queue) \subseteq Waiting(worker.queue) \cup new
      /\ Told(worker'.outbox) \subseteq Told(worker.outbox) \cup Pending(worker) \cup new
  BY <1>3 DEF Carries
<1> HIDE DEF new
<1>5. InOrder'
  BY <1>1, <1>2, <1>3, <1>4, InOrderMoved DEF CInv, Shortens
<1>6. alive' => Accounted'
  BY <1>2, <1>3, <1>4, AccountedMoved DEF CInv, Shortens
<1> QED
  BY <1>5, <1>6 DEF CInv

\* A handler that keeps its requests and the order of opens and closes.
LEMMA KeepingStep ==
  ASSUME CInv, IInv', Keeps(worker, worker'), UNCHANGED facadeVars,
         \/ inbox' = inbox
         \/ inbox # <<>> /\ inbox' = Tail(inbox) /\ ~Enqueues(Head(inbox))
  PROVE  CInv'
<1>1. /\ worker \in Worker /\ inbox \in Seq(Command) /\ Good(worker)
      /\ worker' \in Worker /\ Good(worker')
  BY CInvTypes DEF Keeps, Good, Sane
<1>2. /\ Carries(worker, worker') /\ Descends(worker, worker')
      /\ connection' = connection
  BY DEF Keeps, facadeVars
<1>3. Shortens(inbox, inbox')
  BY <1>1, ShortensItself, InboxTail
<1>4. Idle(worker) => Idle(worker')
  BY <1>1, <1>2, WorkerIds DEF Carries
<1>5. (Calm \/ Engaged)'
  BY <1>1, <1>2, <1>3, <1>4, OrderKept DEF CInv
<1> QED
  BY <1>1, <1>2, <1>5, CarryingStep

LEMMA OnReadyReadConserves ==
  ASSUME CInv, NEW src \in Ids \cup {Noise}, NEW verdict, OnReadyRead(src, verdict)
  PROVE  CInv'
<1> DEFINE heard == Received([worker EXCEPT !.line = @ \ {src}])
           w == worker
<1>1. w \in Worker /\ Sane(w) /\ Shut(w) /\ (~LateAnswers => Clear(w))
  BY CInvTypes DEF Sane
<1>2. /\ heard \in Worker /\ heard.queue = w.queue /\ heard.active = w.active
      /\ heard.outbox = w.outbox /\ heard.state = w.state /\ heard.port = w.port
      /\ heard.closing = w.closing /\ heard.resync = w.resync
      /\ heard.line = w.line \ {src} /\ ~heard.quiet
  BY <1>1 DEF Received, Worker
<1>3. Keeps(w, heard)
  <2> HIDE DEF heard
  <2>1. ~LateAnswers =>
          /\ heard.port /\ heard.active = NoRequest /\ (heard.quiet \/ ~heard.resync)
               => heard.line = {}
          /\ heard.port /\ heard.active # NoRequest => heard.line \subseteq {heard.active.id}
    BY <1>1, <1>2 DEF Clear
  <2> QED
    BY <1>1, <1>2, <2>1, RestingKeeps
<1>4. Keeps(w, worker')
  <2>1. CASE w.active = NoRequest \/ w.resync
    BY <1>3, <2>1 DEF OnReadyRead
  <2>2. CASE ~(w.active = NoRequest \/ w.resync) /\ verdict = "more"
    <3> DEFINE v == [Received(w) EXCEPT !.partial = TRUE]
    <3>1. worker' = v
      BY <2>2 DEF OnReadyRead
    <3>2. /\ v \in Worker /\ v.queue = w.queue /\ v.active = w.active
          /\ v.outbox = w.outbox /\ v.state = w.state /\ v.port = w.port
          /\ v.closing = w.closing /\ v.resync = w.resync /\ v.line = w.line /\ ~v.quiet
      BY <1>1 DEF Received, Worker
    <3> HIDE DEF v
    <3>3. Keeps(w, v)
      BY <1>1, <3>2, RestingKeeps DEF Clear
    <3> QED
      BY <3>1, <3>3
  <2>3. CASE ~(w.active = NoRequest \/ w.resync) /\ verdict = "success"
    <3>1. PICK write \in Writes : worker' = CompleteActiveSuccess(heard, src, write)
      BY <2>3 DEF OnReadyRead
    <3>2. src \in Ids /\ src \in w.line /\ w.port
      BY <2>3 DEF OnReadyRead
    <3> HIDE DEF heard
    <3>3. ~LateAnswers => src = heard.active.id /\ heard.line = {}
      <4>1. ~LateAnswers => w.line \subseteq {w.active.id}
        BY <1>1, <2>3, <3>2 DEF Clear
      <4> QED
        BY <4>1, <1>2, <3>2
    <3>4. Keeps(heard, worker')
      BY <1>1, <1>2, <1>3, <2>3, <3>1, <3>2, <3>3, CompleteActiveSuccessKeeps DEF Keeps
    <3> QED
      BY <1>1, <1>3, <3>4, KeepsTransitive
  <2>4. CASE ~(w.active = NoRequest \/ w.resync) /\ verdict = "error"
    <3>1. worker' = EndActive(heard, "Failed")
      BY <2>4 DEF OnReadyRead, CompleteActiveError
    <3> HIDE DEF heard
    <3>2. Keeps(heard, EndActive(heard, "Failed"))
      BY <1>2, <1>3, <2>4, EndActiveKeeps DEF Keeps
    <3> QED
      BY <1>1, <1>3, <3>1, <3>2, KeepsTransitive
  <2> QED
    BY <2>1, <2>2, <2>3, <2>4 DEF OnReadyRead
<1>5. IInv' /\ UNCHANGED facadeVars /\ inbox' = inbox
  BY OnReadyReadStep DEF CInv, OnReadyRead
<1> QED
  BY <1>4, <1>5, KeepingStep

LEMMA OnResponseTimeoutConserves ==
  ASSUME CInv, OnResponseTimeout
  PROVE  CInv'
<1>1. IInv' /\ UNCHANGED facadeVars /\ inbox' = inbox
  BY OnResponseTimeoutStep DEF CInv, OnResponseTimeout
<1>2. Keeps(worker, EndActive(worker, "Failed"))
  BY CInvTypes, EndActiveKeeps DEF OnResponseTimeout
<1>3. worker' = EndActive(worker, "Failed")
  BY DEF OnResponseTimeout, CompleteActiveError
<1> QED
  BY <1>1, <1>2, <1>3, KeepingStep

LEMMA LineFallsSilentConserves ==
  ASSUME CInv, LineFallsSilent
  PROVE  CInv'
<1> DEFINE w == worker
           v == worker'
<1>1. IInv' /\ UNCHANGED facadeVars /\ inbox' = inbox
  BY LineFallsSilentStep DEF CInv, LineFallsSilent
<1>2. w \in Worker /\ Sane(w) /\ (~LateAnswers => Clear(w))
  BY CInvTypes DEF Sane
<1>3. /\ v \in Worker /\ v.queue = w.queue /\ v.active = w.active
      /\ v.outbox = w.outbox /\ v.state = w.state /\ v.port = w.port
      /\ v.closing = w.closing /\ v.resync = w.resync
  BY <1>2 DEF LineFallsSilent, Worker
<1>4. v.line = IF LateAnswers \/ w.active # NoRequest THEN w.line ELSE {}
  BY <1>2 DEF LineFallsSilent, Worker
<1>5. Keeps(w, v)
  BY <1>2, <1>3, <1>4, RestingKeeps DEF Clear
<1> QED
  BY <1>1, <1>5, KeepingStep

LEMMA OnSilenceElapsedConserves ==
  ASSUME CInv, OnSilenceElapsed
  PROVE  CInv'
<1> DEFINE w == [worker EXCEPT !.timer = FALSE]
           clear == [w EXCEPT !.resync = FALSE]
<1>1. IInv' /\ UNCHANGED facadeVars /\ inbox' = inbox /\ worker.quiet
  BY OnSilenceElapsedStep DEF CInv, OnSilenceElapsed
<1>2. worker \in Worker /\ Sane(worker) /\ Shut(worker) /\ (~LateAnswers => Clear(worker))
  BY CInvTypes DEF Sane
<1>3. ASSUME NEW u \in Worker, u.queue = worker.queue, u.active = worker.active,
             u.outbox = worker.outbox, u.state = worker.state, u.port = worker.port,
             u.closing = worker.closing, u.resync => worker.resync, u.line = worker.line
      PROVE  Keeps(worker, u)
  BY <1>1, <1>2, <1>3, RestingKeeps DEF Clear
<1>4. Keeps(worker, w) /\ w.active = worker.active /\ w.resync = worker.resync
  <2>1. /\ w \in Worker /\ w.queue = worker.queue /\ w.active = worker.active
        /\ w.outbox = worker.outbox /\ w.state = worker.state
        /\ w.port = worker.port /\ w.closing = worker.closing /\ w.resync = worker.resync
        /\ w.line = worker.line
    BY <1>2 DEF Worker
  <2> HIDE DEF w
  <2> QED
    BY <2>1, <1>3
<1>5. Keeps(worker, clear)
  <2>1. /\ clear \in Worker /\ clear.queue = worker.queue /\ clear.active = worker.active
        /\ clear.outbox = worker.outbox /\ clear.state = worker.state
        /\ clear.port = worker.port /\ clear.closing = worker.closing /\ ~clear.resync
        /\ clear.line = worker.line
    BY <1>2 DEF Worker
  <2> HIDE DEF clear
  <2> QED
    BY <2>1, <1>3
<1>6. CASE w.active # NoRequest /\ ~w.resync
  <2>1. worker' \in {w, EndActive(w, "Failed")}
    BY <1>6 DEF OnSilenceElapsed, CompleteActiveError
  <2> HIDE DEF w
  <2>2. Keeps(w, EndActive(w, "Failed"))
    BY <1>4, <1>6, EndActiveKeeps DEF Keeps
  <2>3. Keeps(worker, EndActive(w, "Failed"))
    BY <1>2, <1>4, <2>2, KeepsTransitive
  <2> QED
    BY <1>1, <1>4, <2>1, <2>3, KeepingStep
<1>7. CASE ~(w.active # NoRequest /\ ~w.resync)
  <2>1. PICK write \in Writes :
          worker' = StartNextWhenSilent(MaybeCompleteTransition(clear, write), write)
    BY <1>7 DEF OnSilenceElapsed
  <2> HIDE DEF clear
  <2>2. Keeps(clear, worker')
    BY <1>2, <1>5, <2>1, CompleteThenStartKeeps DEF Keeps
  <2>3. Keeps(worker, worker')
    BY <1>2, <1>5, <2>2, KeepsTransitive
  <2> QED
    BY <1>1, <2>3, KeepingStep
<1> QED
  BY <1>6, <1>7

\* A worker on its way to Faulted.
Failing(w, v) ==
  /\ v \in Worker /\ Tidy(v) /\ Carries(w, v) /\ Extends(w, v) /\ NoFall(w, v)
  /\ v.state = "Faulted" /\ v.closing = w.closing
  /\ ~LateAnswers => Truthful(v.outbox)

LEMMA FailingFurther ==
  ASSUME NEW w \in Worker, NEW u, Failing(w, u), NEW v \in Worker,
         Tidy(v), Carries(u, v), Extends(u, v), NoFall(u, v),
         v.state = "Faulted", v.closing = u.closing,
         Truthful(u.outbox) => Truthful(v.outbox)
  PROVE  Failing(w, v)
BY CarriesTransitive, ExtendsTransitive DEF Failing

LEMMA FailingAloud ==
  ASSUME NEW w \in Worker, NEW u, Failing(w, u), NEW v \in Worker,
         v.queue = u.queue, v.active = u.active, v.state = "Faulted",
         v.closing = u.closing,
         NEW s \in Signal, ~Tells(s), ~IsDown(s), v.outbox = u.outbox \o <<s>>
  PROVE  Failing(w, v)
<1> DEFINE news == <<s>>
<1>1. u \in Worker /\ Tidy(u)
  BY DEF Failing
<1>2. Plain(news) /\ news \in Seq(Signal) /\ \A i \in DOMAIN news : ~IsDown(news[i])
  BY PlainSequences
<1> HIDE DEF news
<1>3. v.outbox = u.outbox \o news
  BY DEF news
<1>4. Tidy(v) /\ Carries(u, v) /\ (Truthful(u.outbox) => Truthful(v.outbox))
  BY <1>1, <1>2, <1>3, SameWork
<1>5. Extends(u, v) /\ NoFall(u, v)
  BY <1>1, <1>2, <1>3, AddsExtends
<1> QED
  BY <1>4, <1>5, FailingFurther

LEMMA OnSerialErrorRises ==
  ASSUME CInv, OnSerialError
  PROVE  Rises(worker, worker')
<1> DEFINE w == worker
           down == [w EXCEPT !.state = "Faulted"]
           ended == IF down.active # NoRequest THEN CompleteActiveError(down) ELSE down
           empty == [ended EXCEPT !.queue = <<>>]
           flushed == Finalize(empty, ended.queue, "Failed", Noise)
           free == [flushed EXCEPT !.trans = NoTransition]
           due == OwnershipSignal(flushed.trans.op, NoOwner, FALSE)
           settled == IF flushed.trans = NoTransition THEN flushed ELSE Emit(free, <<due>>)
           closed == [settled EXCEPT !.port = FALSE, !.owner = NoOwner]
           s == ConnectionSignal("Faulted")
           v == worker'
<1>1. w \in Worker /\ Tidy(w) /\ (~LateAnswers => Clear(w))
  BY CInvTypes DEF Sane
<1>2. v = Emit(closed, <<s>>)
  BY DEF OnSerialError
<1>3. "Faulted" \in ConnectionState /\ "Failed" \in TerminalState
      /\ Noise \in Ids \cup {Noise} /\ "Failed" # "Succeeded"
  BY DEF ConnectionState, TerminalState
<1>4. Failing(w, down) /\ Sane(down)
  <2>1. /\ down \in Worker /\ down.queue = w.queue /\ down.active = w.active
        /\ down.outbox = w.outbox /\ down.state = "Faulted" /\ down.closing = w.closing
        /\ down.port = w.port /\ down.line = w.line /\ down.quiet = w.quiet
        /\ down.resync = w.resync
    BY <1>1, <1>3 DEF Worker
  <2> HIDE DEF down
  <2>2. Tidy(down) /\ Carries(w, down)
    BY <1>1, <2>1, SameWorkSilent
  <2>3. Extends(w, down) /\ NoFall(w, down)
    BY <1>1, <2>1, SilentExtends
  <2> QED
    BY <1>1, <2>1, <2>2, <2>3 DEF Failing, Sane, Clear
<1>5. Failing(w, ended) /\ ended.active = NoRequest
  <2>1. CASE down.active # NoRequest
    <3>1. ended = EndActive(down, "Failed")
      BY <2>1 DEF CompleteActiveError
    <3> HIDE DEF down, ended
    <3>2. Keeps(down, ended) /\ Ended(down, ended)
      BY <1>4, <2>1, <3>1, EndActiveKeeps
    <3>3. /\ ended \in Worker /\ ended.active = NoRequest /\ ended.state = "Faulted"
          /\ ended.closing = down.closing
      BY <1>4, <3>2 DEF Ended, Failing
    <3>4. /\ Tidy(ended) /\ Carries(down, ended) /\ Extends(down, ended)
          /\ NoFall(down, ended)
      BY <3>2, <3>3 DEF Keeps, Sane, Descends, Dead
    <3>5. ~LateAnswers => Truthful(ended.outbox)
      BY <3>2 DEF Keeps, Sane, Clear
    <3>6. Carries(w, ended) /\ Extends(w, ended) /\ NoFall(w, ended)
      BY <1>1, <1>4, <3>3, <3>4, CarriesTransitive, ExtendsTransitive DEF Failing
    <3> QED
      BY <1>4, <3>3, <3>4, <3>5, <3>6 DEF Failing
  <2>2. CASE down.active = NoRequest
    BY <1>4, <2>2
  <2> QED
    BY <2>1, <2>2
<1> HIDE DEF down, ended
<1>6. Failing(w, flushed) /\ flushed.active = NoRequest /\ flushed.queue = <<>>
  <2>1. ended \in Worker /\ Tidy(ended) /\ ended.queue \in Seq(Request)
        /\ ended.state = "Faulted" /\ <<>> \in Seq(Request)
    BY <1>5, OutboxTypes DEF Failing
  <2>2. /\ empty \in Worker /\ empty.queue = <<>> /\ empty.active = NoRequest
        /\ empty.outbox = ended.outbox /\ empty.state = "Faulted"
        /\ empty.closing = ended.closing
    BY <1>5, <2>1 DEF Worker
  <2> DEFINE q == ended.queue
  <2> HIDE DEF empty, q
  <2>3. flushed = Finalize(empty, q, "Failed", Noise)
    BY DEF q
  <2>4. q \in Seq(Request) /\ Ascending(q) /\ Waiting(q) = Waiting(ended.queue)
    BY <2>1 DEF q, Tidy
  <2> HIDE DEF flushed
  <2>5. Says(empty, flushed) /\ flushed.outbox = ended.outbox \o Results(q, "Failed", Noise)
    BY <1>3, <2>2, <2>3, <2>4, FinalizeSays, FinalizeOutbox
  <2>6. /\ flushed \in Worker /\ flushed.queue = <<>> /\ flushed.active = NoRequest
        /\ flushed.state = "Faulted" /\ flushed.closing = ended.closing
    BY <2>2, <2>5, SaysKeeps
  <2>7. Ascending(flushed.queue) /\ Waiting(flushed.queue) = {}
    <3>1. Ascending(<<>>) /\ Waiting(<<>>) = {}
      BY DEF Ascending, Waiting
    <3> QED
      BY <2>6, <3>1
  <2>8. /\ Tidy(flushed) /\ Carries(ended, flushed) /\ Extends(ended, flushed)
        /\ NoFall(ended, flushed)
        /\ Truthful(ended.outbox) => Truthful(flushed.outbox)
    BY <1>3, <1>5, <2>1, <2>4, <2>5, <2>6, <2>7, QueueHandedOn
  <2> QED
    BY <1>1, <1>5, <2>6, <2>8, FailingFurther
<1> HIDE DEF empty, flushed
<1>7. Failing(w, settled) /\ settled.active = NoRequest /\ settled.queue = <<>>
  <2>1. CASE flushed.trans = NoTransition
    BY <1>6, <2>1
  <2>2. CASE flushed.trans # NoTransition
    <3>1. flushed \in Worker
      BY <1>6 DEF Failing
    <3>2. /\ free \in Worker /\ free.queue = <<>> /\ free.active = NoRequest
          /\ free.outbox = flushed.outbox /\ free.state = flushed.state
          /\ free.closing = flushed.closing
      BY <1>6, <3>1 DEF Worker
    <3>3. flushed.trans.op \in OpIds /\ NoOwner \in OwnerOrNone /\ FALSE \in BOOLEAN
      BY <2>2, <3>1 DEF Worker, Transition, OwnerOrNone
    <3>4. due \in Signal /\ ~Tells(due) /\ ~IsDown(due)
      BY <3>3, PlainSignals
    <3> HIDE DEF free, due
    <3>5. settled = Emit(free, <<due>>)
      BY <2>2
    <3> HIDE DEF settled
    <3>6. Says(free, settled) /\ settled.outbox = flushed.outbox \o <<due>>
      BY <3>2, <3>4, <3>5, EmitSays, EmitOutbox, SignalSequences
    <3>7. /\ settled \in Worker /\ settled.queue = <<>> /\ settled.active = NoRequest
          /\ settled.state = flushed.state /\ settled.closing = flushed.closing
      BY <3>2, <3>6, SaysKeeps
    <3>8. flushed.state = "Faulted"
      BY <1>6 DEF Failing
    <3> QED
      BY <1>1, <1>6, <3>4, <3>6, <3>7, <3>8, FailingAloud
  <2> QED
    BY <2>1, <2>2
<1> HIDE DEF settled
<1>8. /\ Failing(w, closed) /\ closed.active = NoRequest /\ closed.queue = <<>>
      /\ ~closed.port
  <2>1. settled \in Worker /\ Tidy(settled) /\ settled.state = "Faulted"
    BY <1>7 DEF Failing
  <2>2. /\ closed \in Worker /\ closed.queue = <<>> /\ closed.active = NoRequest
        /\ closed.outbox = settled.outbox /\ closed.state = "Faulted"
        /\ closed.closing = settled.closing /\ ~closed.port
    BY <1>7, <2>1 DEF Worker, OwnerOrNone
  <2> HIDE DEF closed
  <2>3. Tidy(closed) /\ Carries(settled, closed)
    BY <1>7, <2>1, <2>2, SameWorkSilent
  <2>4. Extends(settled, closed) /\ NoFall(settled, closed)
    BY <2>1, <2>2, SilentExtends
  <2> QED
    BY <1>1, <1>7, <2>2, <2>3, <2>4, FailingFurther
<1>9. s \in Signal /\ ~Tells(s) /\ ~IsDown(s) /\ IsUp(s)
  <2>1. ~IsDown(s) /\ IsUp(s)
    BY DEF ConnectionSignal, IsDown, IsUp
  <2> QED
    BY <1>3, <2>1, PlainSignals
<1> HIDE DEF closed, s
<1>10. closed \in Worker /\ closed.state = "Faulted" /\ closed.closing = w.closing
  BY <1>8 DEF Failing
<1>11. Says(closed, v) /\ v.outbox = closed.outbox \o <<s>>
  BY <1>2, <1>9, <1>10, EmitSays, EmitOutbox, SignalSequences
<1>12. /\ v \in Worker /\ v.queue = <<>> /\ v.active = NoRequest /\ v.state = "Faulted"
       /\ v.closing = w.closing /\ ~v.port
  BY <1>8, <1>10, <1>11, SaysKeeps
<1>13. Failing(w, v)
  BY <1>1, <1>8, <1>9, <1>10, <1>11, <1>12, FailingAloud
<1>14. HasUp(v.outbox)
  <2>1. closed.outbox \in Seq(Signal) /\ <<s>> \in Seq(Signal) /\ 1 \in DOMAIN <<s>>
        /\ <<s>>[1] = s
    BY <1>9, <1>10, OutboxTypes, SignalSequences
  <2>2. Len(closed.outbox) + 1 \in DOMAIN v.outbox /\ v.outbox[Len(closed.outbox) + 1] = s
    BY <1>11, <2>1, ConcatIndices
  <2> QED
    BY <1>9, <2>2 DEF HasUp
<1>15. Sane(v) /\ Idle(v) /\ Shut(v) /\ Served(v)
  BY <1>12, <1>13 DEF Failing, Sane, Clear, Idle, Shut, Served
<1> QED
  BY <1>12, <1>13, <1>14, <1>15 DEF Failing, Rises, Good

LEMMA OnSerialErrorConserves ==
  ASSUME CInv, OnSerialError
  PROVE  CInv'
<1>1. IInv' /\ UNCHANGED facadeVars /\ inbox' = inbox /\ worker.port
  BY OnSerialErrorStep DEF CInv, OnSerialError
<1>2. Rises(worker, worker') /\ worker \in Worker
  BY OnSerialErrorRises, CInvTypes
<1>3. /\ Calm => worker.closing = 0 /\ ~HasCloseOrEnqueue(inbox')
      /\ Engaged => ~HasDown(worker.outbox)
      /\ connection' = connection
  BY <1>1 DEF Calm, Engaged, Dead, facadeVars
<1>4. (Calm \/ Engaged)'
  BY <1>1, <1>2, <1>3, ShortensItself, OrderRisen DEF CInv
<1> QED
  BY <1>1, <1>2, <1>4, CarryingStep DEF Rises

-----------------------------------------------------------------------------
(***************************************************************************)
(* The commands.                                                           *)
(***************************************************************************)
LEMMA OpenConserves ==
  ASSUME CInv, IInv', UNCHANGED facadeVars,
         inbox # <<>>, inbox' = Tail(inbox), Opens(Head(inbox)),
         NEW op \in OpIds, NEW outcome \in OpenOutcomes(worker),
         worker' = WorkerOpen(worker, op, outcome)
  PROVE  CInv'
<1> DEFINE c == Head(inbox)
<1>1. worker \in Worker /\ Sane(worker) /\ inbox \in Seq(Command)
  BY CInvTypes
<1>2. ~Enqueues(c) /\ Opens(c)
  BY DEF Opens, Enqueues
<1>3. /\ Shortens(inbox, inbox') /\ HasOpen(inbox)
      /\ OpensLast(inbox) => ~HasCloseOrEnqueue(inbox')
  BY <1>1, <1>2, InboxTail
<1> HIDE DEF c
<1>4. /\ Calm \/ Engaged
      /\ Calm => Idle(worker) /\ worker.closing = 0 /\ ~HasCloseOrEnqueue(inbox')
      /\ Engaged => Idle(worker) /\ ~HasDown(worker.outbox)
  BY <1>3 DEF CInv, Calm, Engaged, Dead
<1>5. Rises(worker, worker')
  BY <1>1, <1>4, WorkerOpenRises
<1>6. connection' = connection
  BY DEF facadeVars
<1>7. (Calm \/ Engaged)'
  BY <1>1, <1>3, <1>4, <1>5, <1>6, OrderRisen
<1> QED
  BY <1>2, <1>5, <1>7, CarryingStep DEF Rises, c

LEMMA CloseConserves ==
  ASSUME CInv, IInv', UNCHANGED facadeVars,
         inbox # <<>>, inbox' = Tail(inbox), Head(inbox).kind = "close",
         NEW op \in OpIds, NEW mode, NEW write \in Writes,
         worker' = WorkerClose(worker, op, mode, write)
  PROVE  CInv'
<1>1. worker \in Worker /\ Good(worker) /\ inbox \in Seq(Command)
  BY CInvTypes
<1>2. Closes(worker, worker')
  BY <1>1, WorkerCloseCloses
<1>3. connection' = connection /\ (Calm \/ Engaged)
  BY DEF facadeVars, CInv
<1>4. (Calm \/ Engaged)'
  BY <1>1, <1>2, <1>3, OrderClosed
<1>5. ~Enqueues(Head(inbox))
  BY DEF Enqueues
<1> QED
  BY <1>2, <1>4, <1>5, CarryingStep DEF Closes

LEMMA EnqueueConserves ==
  ASSUME CInv, IInv', UNCHANGED facadeVars,
         inbox # <<>>, inbox' = Tail(inbox), Enqueues(Head(inbox)),
         NEW write \in Writes,
         worker' = WorkerEnqueue(worker, Head(inbox).req, write)
  PROVE  CInv'
<1> DEFINE req == Head(inbox).req
           id == req.id
           new == {id}
<1>1. worker \in Worker /\ Good(worker) /\ inbox \in Seq(Command)
  BY CInvTypes
<1>2. Head(inbox) \in Command
  BY <1>1, TailIndices
<1>3. req \in Request /\ id \in Ids
  BY <1>2, EnqueueTypes
<1>4. /\ Shortens(inbox, inbox') /\ Posted(inbox) = Posted(inbox') \cup {id}
      /\ InTurn(inbox) => \A i \in Posted(inbox') : id < i
  BY <1>1, InboxTail
<1>5. /\ InTurn(inbox)
      /\ \A i \in Posted(inbox), held \in Pending(worker) : held < i
      /\ Posted(inbox) \cap Told(worker.outbox) = {}
  BY DEF CInv, InOrder
<1>6. (\A i \in Pending(worker) : i < id) /\ id \notin Told(worker.outbox)
  BY <1>4, <1>5
<1>7. Head(inbox).kind = "enqueue"
  BY DEF Enqueues
<1> HIDE DEF req
<1>8. Receives(worker, worker', id)
  BY <1>1, <1>3, <1>6, WorkerEnqueueReceives DEF req
<1> HIDE DEF id
<1>9. nextId' = nextId /\ requests' = requests /\ alive' = alive
      /\ connection' = connection /\ (Calm \/ Engaged)
  BY DEF facadeVars, CInv
<1>10. (Calm \/ Engaged)'
  BY <1>1, <1>7, <1>8, <1>9, OrderReceived
<1>11. /\ new \in SUBSET Ids /\ Posted(inbox) = Posted(inbox') \cup new
       /\ \A i \in Posted(inbox'), n \in new : n < i
       /\ Held(worker') = Held(worker) \cup new
       /\ Pending(worker') \subseteq Pending(worker) \cup new
       /\ Waiting(worker'.queue) \subseteq Waiting(worker.queue) \cup new
       /\ Told(worker'.outbox) \subseteq Told(worker.outbox) \cup Pending(worker) \cup new
  BY <1>3, <1>4, <1>5, <1>8 DEF Receives
<1> HIDE DEF new
<1>12. InOrder'
  BY <1>1, <1>4, <1>9, <1>11, InOrderMoved DEF CInv, Shortens
<1>13. alive' => Accounted'
  BY <1>4, <1>9, <1>11, AccountedMoved DEF CInv, Shortens
<1> QED
  BY <1>8, <1>10, <1>12, <1>13 DEF CInv, Receives

\* The worker is shut down by the destructor of the facade.
LEMMA ShutdownConserves ==
  ASSUME CInv, IInv', UNCHANGED facadeVars,
         inbox # <<>>, inbox' = Tail(inbox), Head(inbox).kind = "shutdown",
         worker' = WorkerShutdown(worker)
  PROVE  CInv'
<1> DEFINE new == {}
           w == worker
           v == worker'
<1>1. w \in Worker /\ Good(w) /\ inbox \in Seq(Command)
  BY CInvTypes
<1>2. Drops(w, v)
  BY <1>1, WorkerShutdownDrops
<1>3. v \in Worker /\ Good(v) /\ Idle(v)
  BY <1>2 DEF Drops, Good, Sane
<1>4. nextId' = nextId /\ alive' = alive /\ connection' = connection /\ (Calm \/ Engaged)
  BY DEF facadeVars, CInv
<1>5. ~Enqueues(Head(inbox))
  BY DEF Enqueues
<1>6. Shortens(inbox, inbox') /\ Posted(inbox) = Posted(inbox') /\ ~NoShutdown(inbox)
  BY <1>1, <1>5, InboxTail
<1>7. Descends(w, v)
  BY <1>1, <1>2, <1>3, SilentExtends DEF Drops, Descends
<1>8. (Calm \/ Engaged)'
  BY <1>1, <1>3, <1>4, <1>6, <1>7, OrderKept
<1>9. Pending(v) = {}
  BY <1>3, WorkerIds
<1>10. /\ new \in SUBSET Ids /\ Posted(inbox) = Posted(inbox') \cup new
       /\ \A id \in Posted(inbox'), n \in new : n < id
       /\ Held(v) \subseteq Held(w) \cup new
       /\ Pending(v) \subseteq Pending(w) \cup new
       /\ Told(v.outbox) \subseteq Told(w.outbox) \cup Pending(w) \cup new
  BY <1>2, <1>6, <1>9 DEF Drops
<1> HIDE DEF new
<1>11. InOrder'
  BY <1>1, <1>4, <1>6, <1>10, InOrderMoved DEF CInv, Shortens
<1>12. ~alive'
  BY <1>4, <1>6 DEF CInv, Accounted
<1> QED
  BY <1>3, <1>8, <1>11, <1>12 DEF CInv

LEMMA ProcessCommandConserves ==
  ASSUME CInv, ProcessCommand
  PROVE  CInv'
<1> DEFINE c == Head(inbox)
<1>1. IInv' /\ UNCHANGED facadeVars /\ inbox # <<>> /\ inbox' = Tail(inbox)
  BY ProcessCommandStep DEF CInv, ProcessCommand
<1>2. PICK write \in Writes, outcome \in OpenOutcomes(worker) :
        worker' = Execute(c, worker, write, outcome)
  BY DEF ProcessCommand
<1>3. c \in Command /\ Good(worker) /\ Sane(worker) /\ Shut(worker)
  BY <1>1, CInvTypes, TailIndices
<1>4. CASE c.kind = "open"
  <2>1. c.op \in OpIds /\ Opens(c)
    BY <1>3, <1>4 DEF Command, Opens
  <2>2. worker' = WorkerOpen(worker, c.op, outcome)
    BY <1>2, <1>4 DEF Execute
  <2> QED
    BY <1>1, <2>1, <2>2, OpenConserves
<1>5. CASE c.kind = "close"
  <2>1. c.op \in OpIds
    BY <1>3, <1>5 DEF Command
  <2>2. worker' = WorkerClose(worker, c.op, c.mode, write)
    BY <1>2, <1>5 DEF Execute
  <2> QED
    BY <1>1, <1>5, <2>1, <2>2, CloseConserves
<1>6. CASE c.kind = "enqueue"
  <2>1. worker' = WorkerEnqueue(worker, c.req, write) /\ Enqueues(c)
    BY <1>2, <1>6 DEF Execute, Enqueues
  <2> QED
    BY <1>1, <2>1, EnqueueConserves
<1>7. CASE c.kind = "shutdown"
  <2>1. worker' = WorkerShutdown(worker)
    BY <1>2, <1>7 DEF Execute
  <2> QED
    BY <1>1, <1>7, <2>1, ShutdownConserves
<1>8. CASE c.kind \in {"acquire", "release", "cancel"}
  <2>1. ~Enqueues(c)
    BY <1>8 DEF Enqueues
  <2>2. CASE c.kind = "acquire"
    <3>1. c.op \in OpIds /\ c.owner \in Owners
      BY <1>3, <2>2 DEF Command
    <3>2. worker' = WorkerAcquire(worker, c.op, c.owner, c.mode, write)
      BY <1>2, <2>2 DEF Execute
    <3> QED
      BY <1>1, <1>3, <2>1, <3>1, <3>2, WorkerAcquireKeeps, KeepingStep
  <2>3. CASE c.kind = "release"
    <3>1. c.op \in OpIds /\ NoOwner \in OwnerOrNone
      BY <1>3, <2>3 DEF Command, OwnerOrNone
    <3>2. worker' = HandOver(worker, c.op, c.owner, NoOwner, c.mode, write)
      BY <1>2, <2>3 DEF Execute, WorkerRelease
    <3> QED
      BY <1>1, <1>3, <2>1, <3>1, <3>2, HandOverKeeps, KeepingStep
  <2>4. CASE c.kind = "cancel"
    <3>1. c.id \in Ids
      BY <1>3, <2>4 DEF Command
    <3>2. worker' = WorkerCancel(worker, c.id)
      BY <1>2, <2>4 DEF Execute
    <3> QED
      BY <1>1, <1>3, <2>1, <3>1, <3>2, WorkerCancelKeeps, KeepingStep
  <2> QED
    BY <1>8, <2>2, <2>3, <2>4
<1> QED
  BY <1>3, <1>4, <1>5, <1>6, <1>7, <1>8 DEF Command

-----------------------------------------------------------------------------
(***************************************************************************)
(* The facade's calls.                                                     *)
(***************************************************************************)

\* A call that posts anything but a request.
LEMMA PostingStep ==
  ASSUME CInv, IInv', NEW c \in Command, ~Enqueues(c), inbox' = Append(inbox, c),
         UNCHANGED <<worker, requests, nextId>>,
         alive' => alive /\ c.kind # "shutdown",
         \/ connection' = connection /\ ~Opens(c) /\ ~ClosesOrEnqueues(c)
         \/ connection = "Disconnected" /\ connection' = "Opening" /\ ~ClosesOrEnqueues(c)
         \/ connection \in {"Connected", "Faulted"} /\ connection' = "Closing" /\ ~Opens(c)
  PROVE  CInv'
<1> DEFINE new == {}
<1>1. inbox \in Seq(Command) /\ worker \in Worker /\ Good(worker)
  BY CInvTypes
<1>2. /\ OpensLast(inbox) /\ ~(HasOpen(inbox) /\ ClosesOrEnqueues(c)) => OpensLast(inbox')
      /\ OpensFirst(inbox) /\ ~(HasCloseOrEnqueue(inbox) /\ Opens(c)) => OpensFirst(inbox')
      /\ HasOpen(inbox') <=> HasOpen(inbox) \/ Opens(c)
      /\ HasCloseOrEnqueue(inbox') <=> HasCloseOrEnqueue(inbox) \/ ClosesOrEnqueues(c)
      /\ NoShutdown(inbox) /\ c.kind # "shutdown" => NoShutdown(inbox')
      /\ InTurn(inbox) => InTurn(inbox')
      /\ Posted(inbox') = Posted(inbox)
  BY <1>1, InboxAppend
<1>3. Calm \/ Engaged
  BY DEF CInv
<1>4. (Calm \/ Engaged)'
  <2>1. CASE connection' = connection /\ ~Opens(c) /\ ~ClosesOrEnqueues(c)
    BY <1>2, <1>3, <2>1 DEF Calm, Engaged
  <2>2. CASE connection = "Disconnected" /\ connection' = "Opening" /\ ~ClosesOrEnqueues(c)
    BY <1>2, <1>3, <2>2 DEF Calm, Engaged
  <2>3. CASE connection \in {"Connected", "Faulted"} /\ connection' = "Closing" /\ ~Opens(c)
    BY <1>2, <1>3, <2>3 DEF Calm, Engaged
  <2> QED
    BY <2>1, <2>2, <2>3
<1>5. /\ new \in SUBSET Ids /\ Posted(inbox) = Posted(inbox') \cup new
      /\ \A id \in Posted(inbox'), n \in new : n < id
      /\ Held(worker') = Held(worker) \cup new
      /\ Pending(worker') \subseteq Pending(worker) \cup new
      /\ Waiting(worker'.queue) \subseteq Waiting(worker.queue) \cup new
      /\ Told(worker'.outbox) \subseteq Told(worker.outbox) \cup Pending(worker) \cup new
  BY <1>2
<1> HIDE DEF new
<1>6. InOrder'
  BY <1>1, <1>2, <1>5, InOrderMoved DEF CInv
<1>7. alive' => Accounted'
  BY <1>2, <1>5, AccountedMoved DEF CInv
<1> QED
  BY <1>1, <1>4, <1>6, <1>7 DEF CInv

LEMMA OpenCallConserves ==
  ASSUME CInv, Open
  PROVE  CInv'
<1> DEFINE c == [kind |-> "open", op |-> nextOp]
<1>1. c \in Command
  BY CommandTypes, NextOpFresh DEF Open, Accept, CInv
<1>2. ~Enqueues(c) /\ ~ClosesOrEnqueues(c) /\ c.kind # "shutdown"
  BY DEF Enqueues, ClosesOrEnqueues
<1>3. inbox' = Append(inbox, c)
  BY DEF Open, Post
<1> HIDE DEF c
<1>4. /\ UNCHANGED <<worker, requests, nextId, alive>>
      /\ connection = "Disconnected" /\ connection' = "Opening"
  BY DEF Open
<1> QED
  BY <1>1, <1>2, <1>3, <1>4, OpenStep, PostingStep DEF CInv

LEMMA CloseCallConserves ==
  ASSUME CInv, NEW mode \in CloseMode, Close(mode)
  PROVE  CInv'
<1> DEFINE c == [kind |-> "close", op |-> nextOp, mode |-> mode]
<1>1. c \in Command
  BY CommandTypes, NextOpFresh DEF Close, Accept, CInv
<1>2. ~Enqueues(c) /\ ~Opens(c) /\ c.kind # "shutdown"
  BY DEF Enqueues, Opens
<1>3. inbox' = Append(inbox, c)
  BY DEF Close, Post
<1> HIDE DEF c
<1>4. /\ UNCHANGED <<worker, requests, nextId, alive>>
      /\ connection \in {"Connected", "Faulted"} /\ connection' = "Closing"
  BY DEF Close
<1> QED
  BY <1>1, <1>2, <1>3, <1>4, CloseStep, PostingStep DEF CInv

LEMMA TransitionCallConserves ==
  ASSUME CInv, NEW control \in ControlKind, NEW command \in {"acquire", "release"},
         NEW o \in Owners, NEW mode \in HandoffMode,
         StartTransition(control, command, o, mode)
  PROVE  CInv'
<1> DEFINE c == [kind |-> command, op |-> nextOp, owner |-> o, mode |-> mode]
<1>1. c \in Command
  BY CommandTypes, NextOpFresh DEF StartTransition, Accept, CInv
<1>2. ~Enqueues(c) /\ ~Opens(c) /\ ~ClosesOrEnqueues(c) /\ c.kind # "shutdown"
  BY DEF Enqueues, Opens, ClosesOrEnqueues
<1>3. inbox' = Append(inbox, c)
  BY DEF StartTransition, Post
<1> HIDE DEF c
<1>4. UNCHANGED <<worker, requests, nextId, alive, connection>>
  BY DEF StartTransition
<1> QED
  BY <1>1, <1>2, <1>3, <1>4, TransitionStep, PostingStep DEF CInv

LEMMA CancelCallConserves ==
  ASSUME CInv, NEW id \in Ids, CancelRequest(id)
  PROVE  CInv'
<1> DEFINE c == [kind |-> "cancel", id |-> id]
<1>1. c \in Command
  BY CommandTypes
<1>2. ~Enqueues(c) /\ ~Opens(c) /\ ~ClosesOrEnqueues(c) /\ c.kind # "shutdown"
  BY DEF Enqueues, Opens, ClosesOrEnqueues
<1>3. inbox' = Append(inbox, c)
  BY DEF CancelRequest, Post
<1> HIDE DEF c
<1>4. UNCHANGED <<worker, requests, nextId, alive, connection>>
  BY DEF CancelRequest
<1> QED
  BY <1>1, <1>2, <1>3, <1>4, CancelRequestStep, PostingStep DEF CInv

LEMMA DestroyConserves ==
  ASSUME CInv, Destroy
  PROVE  CInv'
<1> DEFINE c == [kind |-> "shutdown"]
<1>1. c \in Command
  BY CommandTypes
<1>2. ~Enqueues(c) /\ ~Opens(c) /\ ~ClosesOrEnqueues(c)
  BY DEF Enqueues, Opens, ClosesOrEnqueues
<1>3. inbox' = Append(inbox, c)
  BY DEF Destroy, Post
<1> HIDE DEF c
<1>4. UNCHANGED <<worker, requests, nextId, connection>> /\ ~alive'
  BY DEF Destroy
<1> QED
  BY <1>1, <1>2, <1>3, <1>4, DestroyStep, PostingStep DEF CInv

LEMMA SubmitConserves ==
  ASSUME CInv, Submit
  PROVE  CInv'
<1> DEFINE req == [id |-> nextId, owner |-> owner]
           c == [kind |-> "enqueue", req |-> req]
<1>1. /\ IInv' /\ inbox \in Seq(Command) /\ worker \in Worker /\ Good(worker)
      /\ worker' = worker /\ alive' = alive /\ connection' = connection
      /\ connection = "Connected" /\ nextId' = nextId + 1
  BY CInvTypes, SubmitStep DEF CInv, Submit
<1>2. nextId \in Ids /\ Ids \in SUBSET Nat
  BY ClientAssumption DEF Submit, CInv, IInv, TypeOK, Ids
<1>3. c \in Command /\ c.req.id = nextId
  <2>1. req \in Request
    BY <1>2 DEF Submit, CInv, IInv, TypeOK, OwnerOrNone, Request
  <2> QED
    BY <2>1, CommandTypes
<1>4. Enqueues(c) /\ ~Opens(c) /\ c.kind # "shutdown"
  BY DEF Enqueues, Opens
<1>5. inbox' = Append(inbox, c)
  BY DEF Submit, Post
<1> HIDE DEF c, req
<1>6. /\ InTurn(inbox)
      /\ \A id \in Posted(inbox), held \in Pending(worker) : held < id
      /\ Posted(inbox) \cap Told(worker.outbox) = {}
      /\ \A id \in Posted(inbox) \cup Held(worker) \cup Told(worker.outbox) : id < nextId
  BY DEF CInv, InOrder
<1>7. /\ OpensFirst(inbox) => OpensFirst(inbox')
      /\ HasOpen(inbox') <=> HasOpen(inbox)
      /\ NoShutdown(inbox) => NoShutdown(inbox')
      /\ InTurn(inbox')
      /\ Posted(inbox') = Posted(inbox) \cup {nextId}
  <2>1. \A id \in Posted(inbox) : id < c.req.id
    BY <1>3, <1>6
  <2> QED
    BY <2>1, <1>1, <1>3, <1>4, <1>5, <1>6, InboxAppend
<1>8. Engaged'
  BY <1>1, <1>7 DEF CInv, Calm, Engaged
<1>9. InOrder'
  <2>1. /\ Posted(inbox) \cup Held(worker) \cup Told(worker.outbox) \in SUBSET Ids
        /\ Pending(worker) \subseteq Held(worker)
    BY DEF Posted, Held, Pending, Told, Waiting, Reported
  <2>2. \A id \in Posted(inbox) \cup Held(worker) \cup Told(worker.outbox) \cup {nextId} :
          id < nextId'
    <3>1. \A id \in Ids : id < nextId \/ id = nextId => id < nextId'
      BY <1>1, <1>2
    <3> QED
      BY <2>1, <3>1, <1>2, <1>6
  <2>3. nextId \notin Told(worker.outbox)
    BY <1>2, <1>6
  <2>4. Posted(inbox') \cap Told(worker.outbox) = {}
    BY <2>3, <1>6, <1>7
  <2>5. \A id \in Posted(inbox'), held \in Pending(worker) : held < id
    BY <2>1, <1>6, <1>7
  <2> QED
    BY <2>2, <2>4, <2>5, <1>1, <1>7 DEF InOrder
<1>10. ASSUME alive'
       PROVE  Accounted'
  <2>1. Accounted /\ requests' = [requests EXCEPT ![nextId] = "Queued"]
    BY <1>1, <1>10 DEF CInv, Submit
  <2>2. DOMAIN requests = Ids
    BY DEF CInv, IInv, TypeOK
  <2>3. \A id \in Ids : requests'[id] = IF id = nextId THEN "Queued" ELSE requests[id]
    BY <2>1, <2>2
  <2>4. NoShutdown(inbox')
    BY <2>1, <1>7 DEF Accounted
  <2>5. \A id \in Ids : requests'[id] # "None" <=> id \in Posted(inbox') \cup Held(worker)
    BY <2>1, <2>3, <1>7 DEF Accounted
  <2>6. Posted(inbox') \cup Waiting(worker.queue) \subseteq Ids
    BY DEF Posted, Waiting
  <2>7. \A id \in Posted(inbox') \cup Waiting(worker.queue) : requests'[id] = "Queued"
    BY <2>1, <2>3, <2>6, <1>7 DEF Accounted
  <2> QED
    BY <2>4, <2>5, <2>7, <1>1 DEF Accounted
<1> QED
  BY <1>1, <1>8, <1>9, <1>10 DEF CInv

-----------------------------------------------------------------------------
(***************************************************************************)
(* The facade's slots.                                                     *)
(***************************************************************************)

\* Taking a signal leaves the worker's requests where they are.
LEMMA TakeKeeps ==
  ASSUME CInv, NEW kind, Take(kind)
  PROVE  /\ worker.outbox \in Seq(Signal) /\ worker.outbox # <<>>
         /\ Head(worker.outbox) \in Signal /\ Head(worker.outbox).kind = kind
         /\ worker'.outbox = Tail(worker.outbox) /\ worker' \in Worker /\ Good(worker')
         /\ Dead(worker) => Dead(worker')
         /\ Idle(worker) => Idle(worker')
         /\ worker'.closing = worker.closing /\ inbox' = inbox
         /\ Pending(worker') = Pending(worker)
         /\ Waiting(worker'.queue) = Waiting(worker.queue)
         /\ InOrder'
<1> DEFINE w == worker
           v == worker'
           new == {}
<1>1. /\ w \in Worker /\ Good(w) /\ Tidy(w) /\ w.outbox \in Seq(Signal)
      /\ w.outbox # <<>> /\ Head(w.outbox).kind = kind /\ inbox' = inbox
      /\ nextId' = nextId
  BY CInvTypes DEF Take
<1>2. Head(w.outbox) \in Signal /\ Tail(w.outbox) \in Seq(Signal)
  BY <1>1
<1>3. /\ v \in Worker /\ v.queue = w.queue /\ v.active = w.active
      /\ v.outbox = Tail(w.outbox) /\ v.state = w.state /\ v.port = w.port
      /\ v.closing = w.closing /\ v.resync = w.resync /\ v.line = w.line
      /\ v.quiet = w.quiet
  BY <1>1, <1>2 DEF Take, Worker
<1>4. /\ Told(v.outbox) \subseteq Told(w.outbox)
      /\ Reported(v.outbox) \subseteq Reported(w.outbox)
      /\ OneResultEach(w.outbox) => OneResultEach(v.outbox)
      /\ Truthful(w.outbox) => Truthful(v.outbox)
  BY <1>1, <1>3, OutboxTail
<1>5. Tidy(v)
  BY <1>1, <1>3, <1>4 DEF Tidy
<1>6. Good(v)
  BY <1>1, <1>3, <1>4, <1>5 DEF Good, Sane, Clear, Shut, Served, Idle
<1>7. (Dead(w) => Dead(v)) /\ (Idle(w) => Idle(v))
  BY <1>3 DEF Dead, Idle
<1>8. Pending(v) = Pending(w) /\ Held(v) \subseteq Held(w)
  BY <1>3, <1>4 DEF Held, Pending
<1>9. /\ new \in SUBSET Ids /\ Posted(inbox) = Posted(inbox') \cup new
      /\ \A id \in Posted(inbox'), n \in new : n < id
      /\ Held(v) \subseteq Held(w) \cup new
      /\ Pending(v) \subseteq Pending(w) \cup new
      /\ Told(v.outbox) \subseteq Told(w.outbox) \cup Pending(w) \cup new
      /\ InTurn(inbox) => InTurn(inbox')
  BY <1>1, <1>4, <1>8
<1> HIDE DEF new
<1>10. InOrder'
  BY <1>1, <1>9, InOrderMoved DEF CInv
<1> QED
  BY <1>1, <1>2, <1>3, <1>6, <1>7, <1>8, <1>10

\* Signals that bring no connection up or down.
LEMMA OrderTaken ==
  ASSUME CInv, NEW kind, Take(kind), kind # "connection", connection' = connection
  PROVE  (Calm => Calm') /\ (Engaged => Engaged')
<1> DEFINE s == Head(worker.outbox)
<1>1. /\ worker.outbox \in Seq(Signal) /\ worker.outbox # <<>> /\ s.kind = kind
      /\ worker'.outbox = Tail(worker.outbox)
      /\ Dead(worker) => Dead(worker')
      /\ Idle(worker) => Idle(worker')
      /\ worker'.closing = worker.closing /\ inbox' = inbox
  BY TakeKeeps
<1>2. ~IsUp(s) /\ ~IsDown(s)
  BY <1>1 DEF IsUp, IsDown
<1>3. /\ HasUp(worker'.outbox) <=> HasUp(worker.outbox)
      /\ HasDown(worker'.outbox) <=> HasDown(worker.outbox)
      /\ DownsFirst(worker.outbox) => DownsFirst(worker'.outbox)
      /\ UpsFirst(worker.outbox) => UpsFirst(worker'.outbox)
  BY <1>1, <1>2, OutboxTail
<1>4. Calm => Calm'
  BY <1>1, <1>3 DEF Calm
<1>5. Engaged => Engaged'
  BY <1>1, <1>3 DEF Engaged
<1> QED
  BY <1>4, <1>5 DEF CInv

\* A signal that reports no result: the requests stay, or one changes its state.
LEMMA AccountedTaken ==
  ASSUME CInv, NEW kind, Take(kind), kind # "completed", alive,
         \/ requests' = requests
         \/ /\ kind = "state" /\ requests[Head(worker.outbox).id] # "None"
            /\ requests' = [requests EXCEPT ![Head(worker.outbox).id] =
                              Head(worker.outbox).state]
  PROVE  Accounted'
<1> DEFINE s == Head(worker.outbox)
           id == s.id
           state == s.state
<1>1. /\ worker.outbox \in Seq(Signal) /\ worker.outbox # <<>> /\ s.kind = kind
      /\ s \in Signal /\ worker'.outbox = Tail(worker.outbox)
      /\ Pending(worker') = Pending(worker) /\ inbox' = inbox
      /\ Waiting(worker'.queue) = Waiting(worker.queue)
  BY TakeKeeps
<1>2. ~IsResult(s)
  BY <1>1 DEF IsResult
<1>3. /\ Reported(worker'.outbox) = Reported(worker.outbox)
      /\ Tells(s) => id \in Told(worker.outbox)
  BY <1>1, <1>2, OutboxTail
<1>4. Held(worker') = Held(worker)
  BY <1>1, <1>3 DEF Held
<1>5. /\ Accounted /\ Posted(inbox) \cap Told(worker.outbox) = {}
      /\ Waiting(worker.queue) \cap Told(worker.outbox) = {}
      /\ DOMAIN requests = Ids
  BY CInvTypes DEF CInv, InOrder, Tidy, IInv, TypeOK
<1>6. CASE requests' = requests
  BY <1>1, <1>4, <1>5, <1>6 DEF Accounted
<1>7. CASE /\ kind = "state" /\ requests[id] # "None"
           /\ requests' = [requests EXCEPT ![id] = state]
  <2>1. state # "None" /\ Tells(s)
    BY <1>1, <1>7 DEF Signal, RequestState, TerminalState, Tells
  <2>2. id \notin Posted(inbox) /\ id \notin Waiting(worker.queue)
    BY <2>1, <1>3, <1>5
  <2> HIDE DEF id, state, s
  <2>3. \A i \in Ids : requests'[i] = IF i = id THEN state ELSE requests[i]
    BY <1>5, <1>7
  <2>4. \A i \in Ids : requests'[i] # "None" <=> requests[i] # "None"
    BY <2>1, <2>3, <1>7
  <2>5. \A i \in Posted(inbox) \cup Waiting(worker.queue) : requests'[i] = requests[i]
    BY <2>2, <2>3 DEF Posted, Waiting
  <2> QED
    BY <2>4, <2>5, <1>1, <1>4, <1>5 DEF Accounted
<1> QED
  BY <1>6, <1>7

LEMMA OnWorkerConnectionStateChangedConserves ==
  ASSUME CInv, OnWorkerConnectionStateChanged
  PROVE  CInv'
<1> DEFINE s == Head(worker.outbox)
           out == worker.outbox
           rest == worker'.outbox
<1>1. /\ Take("connection") /\ IInv' /\ requests' = requests /\ alive' = alive
      /\ connection' = s.state
  BY OnWorkerConnectionStateChangedStep DEF CInv, OnWorkerConnectionStateChanged, Take
<1>2. /\ out \in Seq(Signal) /\ out # <<>> /\ s.kind = "connection" /\ rest = Tail(out)
      /\ Good(worker') /\ InOrder'
      /\ Dead(worker) => Dead(worker')
      /\ Idle(worker) => Idle(worker')
      /\ worker'.closing = worker.closing /\ inbox' = inbox
  BY <1>1, TakeKeeps
<1>3. alive' => Accounted'
  BY <1>1, AccountedTaken
<1>4. Calm \/ Engaged
  BY DEF CInv
<1>5. /\ HasUp(out) <=> IsUp(s) \/ HasUp(rest)
      /\ HasDown(out) <=> IsDown(s) \/ HasDown(rest)
      /\ DownsFirst(out) => DownsFirst(rest) /\ (IsUp(s) => ~HasDown(rest))
      /\ UpsFirst(out) => UpsFirst(rest) /\ (IsDown(s) => ~HasUp(rest))
  BY <1>2, OutboxTail
<1>6. CASE IsUp(s)
  <2>1. connection' \notin {"Closing", "Disconnected"}
    BY <1>1, <1>6 DEF IsUp
  <2>2. ASSUME Calm
        PROVE  UpsFirst(rest) /\ OpensFirst(inbox) /\ ~HasDown(rest)
               /\ Idle(worker') /\ worker'.closing = 0
    <3>1. ~HasDown(rest) /\ ~HasCloseOrEnqueue(inbox) /\ Idle(worker') /\ worker'.closing = 0
      BY <2>2, <1>2, <1>5, <1>6 DEF Calm
    <3>2. UpsFirst(rest) /\ OpensFirst(inbox)
      BY <3>1 DEF HasDown, UpsFirst, HasCloseOrEnqueue, OpensFirst
    <3> QED
      BY <3>1, <3>2
  <2>3. Engaged'
    BY <2>1, <2>2, <1>2, <1>4, <1>5 DEF Engaged
  <2> QED
    BY <2>3, <1>1, <1>2, <1>3 DEF CInv
<1>7. CASE IsDown(s)
  <2>1. connection' = "Disconnected"
    BY <1>1, <1>7 DEF IsDown
  <2>2. ASSUME Engaged
        PROVE  Dead(worker) /\ ~HasUp(rest) /\ DownsFirst(rest) /\ OpensLast(inbox)
    <3>1. Dead(worker) /\ ~HasUp(rest) /\ ~HasOpen(inbox)
      BY <2>2, <1>5, <1>7 DEF Engaged
    <3>2. DownsFirst(rest) /\ OpensLast(inbox)
      BY <3>1 DEF HasUp, DownsFirst, HasOpen, OpensLast
    <3> QED
      BY <3>1, <3>2
  <2>3. ASSUME Calm
        PROVE  /\ Idle(worker) /\ DownsFirst(rest) /\ OpensLast(inbox)
               /\ HasUp(rest) => worker.closing = 0 /\ ~HasCloseOrEnqueue(inbox)
               /\ ~HasUp(rest) => Dead(worker)
    BY <2>3, <1>5, <1>7 DEF Calm, IsUp, IsDown
  <2>4. Calm'
    BY <2>1, <2>2, <2>3, <1>2, <1>4 DEF Calm, Dead
  <2> QED
    BY <2>4, <1>1, <1>2, <1>3 DEF CInv
<1>8. CASE ~IsUp(s) /\ ~IsDown(s)
  <2>1. connection' = "Closing"
    BY <1>1, <1>2, <1>8 DEF IsUp, IsDown
  <2>2. Calm => Calm'
    BY <2>1, <1>2, <1>5, <1>8 DEF Calm
  <2>3. Engaged => Engaged'
    BY <2>1, <1>2, <1>5, <1>8 DEF Engaged
  <2> QED
    BY <2>2, <2>3, <1>1, <1>2, <1>3, <1>4 DEF CInv
<1> QED
  BY <1>6, <1>7, <1>8

\* A slot about an operation, or about the state of a request.
LEMMA SlotConserves ==
  ASSUME CInv, IInv', NEW kind, Take(kind), kind \notin {"connection", "completed"},
         connection' = connection,
         \/ requests' = requests
         \/ /\ kind = "state" /\ requests[Head(worker.outbox).id] # "None"
            /\ requests' = [requests EXCEPT ![Head(worker.outbox).id] =
                              Head(worker.outbox).state]
  PROVE  CInv'
<1>1. (Calm \/ Engaged)'
  BY OrderTaken DEF CInv
<1>2. Good(worker') /\ InOrder'
  BY TakeKeeps
<1>3. alive' => Accounted'
  BY AccountedTaken DEF Take
<1> QED
  BY <1>1, <1>2, <1>3 DEF CInv

LEMMA OnWorkerRequestCompletedConserves ==
  ASSUME CInv, OnWorkerRequestCompleted
  PROVE  CInv'
<1> DEFINE s == Head(worker.outbox)
           id == s.id
<1>1. Take("completed") /\ IInv' /\ connection' = connection /\ alive' = alive
  BY OnWorkerRequestCompletedStep DEF CInv, OnWorkerRequestCompleted, Take
<1>2. /\ worker.outbox \in Seq(Signal) /\ worker.outbox # <<>> /\ s.kind = "completed"
      /\ s \in Signal /\ worker'.outbox = Tail(worker.outbox)
      /\ Good(worker') /\ InOrder'
      /\ Pending(worker') = Pending(worker) /\ inbox' = inbox
      /\ Waiting(worker'.queue) = Waiting(worker.queue)
  BY <1>1, TakeKeeps
<1>3. (Calm \/ Engaged)'
  BY <1>1, OrderTaken DEF CInv
<1>4. /\ id \in Ids /\ IsResult(s) /\ Tells(s)
  BY <1>2 DEF Signal, IsResult, Tells
<1>5. /\ \/ requests' = [requests EXCEPT ![id] = "None"]
         \/ requests[id] = "None" /\ requests' = requests
      /\ DOMAIN requests = Ids
  BY DEF OnWorkerRequestCompleted, CInv, IInv, TypeOK
<1>6. Tidy(worker) /\ OneResultEach(worker.outbox)
  BY CInvTypes DEF Tidy
<1> HIDE DEF s, id
<1>7. /\ Reported(worker.outbox) = Reported(worker'.outbox) \cup {id}
      /\ id \notin Reported(worker'.outbox) /\ id \in Told(worker.outbox)
  BY <1>2, <1>4, <1>6, OutboxTail DEF s, id
<1>8. /\ id \notin Posted(inbox) /\ id \notin Waiting(worker.queue) /\ id \notin Pending(worker)
  BY <1>6, <1>7 DEF CInv, InOrder, Tidy, Pending
<1>9. Held(worker') = Held(worker) \ {id}
  BY <1>2, <1>7, <1>8 DEF Held
<1>10. \A i \in Ids : requests'[i] = IF i = id THEN "None" ELSE requests[i]
  BY <1>4, <1>5
<1>11. ASSUME alive'
       PROVE  Accounted'
  <2>1. Accounted
    BY <1>1, <1>11 DEF CInv
  <2>2. \A i \in Ids : requests'[i] # "None" <=> i \in Posted(inbox) \cup Held(worker')
    BY <2>1, <1>8, <1>9, <1>10 DEF Accounted
  <2>3. \A i \in Posted(inbox) \cup Waiting(worker.queue) : requests'[i] = "Queued"
    BY <2>1, <1>8, <1>10 DEF Accounted, Posted, Waiting
  <2> QED
    BY <2>1, <2>2, <2>3, <1>2 DEF Accounted
<1> QED
  BY <1>1, <1>2, <1>3, <1>11 DEF CInv

-----------------------------------------------------------------------------
(***************************************************************************)
(* The invariant is inductive.                                             *)
(***************************************************************************)
LEMMA InitCInv == Init => CInv
<1> SUFFICES ASSUME Init
             PROVE  CInv
  OBVIOUS
<1>1. IInv /\ worker \in Worker
  BY InitIInv DEF IInv, TypeOK
<1>2. /\ worker.state = "Disconnected" /\ ~worker.port /\ worker.queue = <<>>
      /\ worker.active = NoRequest /\ worker.closing = 0 /\ ~worker.resync
      /\ worker.line = {} /\ worker.outbox = <<>> /\ inbox = <<>>
      /\ connection = "Disconnected" /\ requests = [id \in Ids |-> "None"]
  BY DEF Init
<1>3. /\ Waiting(<<>>) = {} /\ Reported(<<>>) = {} /\ Told(<<>>) = {} /\ Posted(<<>>) = {}
      /\ Ascending(<<>>) /\ OneResultEach(<<>>) /\ Truthful(<<>>) /\ InTurn(<<>>)
      /\ NoShutdown(<<>>) /\ DownsFirst(<<>>) /\ OpensLast(<<>>) /\ ~HasUp(<<>>)
  BY DEF Waiting, Reported, Told, Posted, Ascending, OneResultEach, Truthful, InTurn,
         NoShutdown, DownsFirst, OpensLast, HasUp
<1>4. Pending(worker) = {} /\ Held(worker) = {} /\ Idle(worker)
  BY <1>1, <1>2, <1>3, WorkerIds DEF Held, Idle
<1>5. Tidy(worker)
  BY <1>2, <1>3 DEF Tidy
<1>6. Good(worker)
  BY <1>1, <1>2, <1>3, <1>4, <1>5 DEF Good, Sane, Clear, Shut, Served
<1>7. InOrder
  BY <1>2, <1>3, <1>4 DEF InOrder
<1>8. Calm
  BY <1>2, <1>3, <1>4 DEF Calm, Dead
<1>9. Accounted
  BY <1>2, <1>3, <1>4 DEF Accounted
<1> QED
  BY <1>1, <1>6, <1>7, <1>8, <1>9 DEF CInv

LEMMA StutterConserves ==
  ASSUME CInv, UNCHANGED vars
  PROVE  CInv'
<1>1. IInv'
  BY NextStep DEF CInv
<1> QED
  BY <1>1 DEF CInv, InOrder, Calm, Engaged, Accounted, vars, facadeVars

LEMMA NextConserves ==
  ASSUME CInv, [Next]_vars
  PROVE  CInv'
<1>1. CASE UNCHANGED vars
  BY <1>1, StutterConserves
<1>2. CASE Calls
  <2>1. CASE Open
    BY <2>1, OpenCallConserves
  <2>2. ASSUME NEW mode \in CloseMode, Close(mode)
        PROVE  CInv'
    BY <2>2, CloseCallConserves
  <2>3. ASSUME NEW o \in Owners, NEW mode \in HandoffMode,
               AcquireOwnership(o, mode) \/ ReleaseOwnership(o, mode)
        PROVE  CInv'
    BY <2>3, TransitionCallConserves DEF AcquireOwnership, ReleaseOwnership, ControlKind
  <2>4. CASE Submit
    BY <2>4, SubmitConserves
  <2>5. ASSUME NEW id \in Ids, CancelRequest(id)
        PROVE  CInv'
    BY <2>5, CancelCallConserves
  <2>6. CASE Destroy
    BY <2>6, DestroyConserves
  <2> QED
    BY <1>2, <2>1, <2>2, <2>3, <2>4, <2>5, <2>6 DEF Calls
<1>3. CASE FacadeSlots
  <2>1. CASE OnWorkerConnectionStateChanged
    BY <2>1, OnWorkerConnectionStateChangedConserves
  <2>2. CASE OnWorkerControlCompleted
    <3>1. Take("control") /\ IInv' /\ connection' = connection /\ requests' = requests
      BY <2>2, OnWorkerControlCompletedStep DEF CInv, OnWorkerControlCompleted
    <3> QED
      BY <3>1, SlotConserves
  <2>3. CASE OnWorkerOwnershipChanged
    <3>1. Take("ownership") /\ IInv' /\ connection' = connection /\ requests' = requests
      BY <2>3, OnWorkerOwnershipChangedStep DEF CInv, OnWorkerOwnershipChanged
    <3> QED
      BY <3>1, SlotConserves
  <2>4. CASE OnWorkerRequestStateChanged
    <3>1. Take("state") /\ IInv' /\ connection' = connection
      BY <2>4, OnWorkerRequestStateChangedStep DEF CInv, OnWorkerRequestStateChanged
    <3> QED
      BY <2>4, <3>1, SlotConserves DEF OnWorkerRequestStateChanged
  <2>5. CASE OnWorkerRequestCompleted
    BY <2>5, OnWorkerRequestCompletedConserves
  <2> QED
    BY <1>3, <2>1, <2>2, <2>3, <2>4, <2>5 DEF FacadeSlots
<1>4. CASE WorkerEvents
  BY <1>4, ProcessCommandConserves, OnReadyReadConserves, OnResponseTimeoutConserves,
     LineFallsSilentConserves, OnSilenceElapsedConserves, OnSerialErrorConserves
     DEF WorkerEvents
<1> QED
  BY <1>1, <1>2, <1>3, <1>4 DEF Next

-----------------------------------------------------------------------------
(***************************************************************************)
(* From places to numbers.                                                 *)
(***************************************************************************)
LEMMA OnePlace ==
  ASSUME NEW S, \A i, j \in S : i = j
  PROVE  Cardinality(S) = IF S = {} THEN 0 ELSE 1
<1>1. CASE S = {}
  BY <1>1, FS_EmptySet
<1>2. CASE S # {}
  <2>1. PICK i \in S : TRUE
    BY <1>2
  <2>2. S = {i}
    BY <2>1
  <2> QED
    BY <1>2, <2>2, FS_Singleton
<1> QED
  BY <1>1, <1>2

\* A sequence in ascending order holds each id once.
LEMMA AscendingCount ==
  ASSUME NEW q \in Seq(Request), Ascending(q)
  PROVE  Cardinality(Waiting(q)) = Len(q)
<1> DEFINE f == [i \in 1..Len(q) |-> q[i].id]
           S == Waiting(q)
           n == Len(q)
<1>1. n \in Nat /\ DOMAIN q = 1..n /\ \A i \in 1..n : q[i] \in Request
  OBVIOUS
<1>2. \A i \in 1..n : q[i].id \in Ids
  BY <1>1 DEF Request
<1>3. \A i \in 1..n : q[i].id \in S
  BY <1>1, <1>2 DEF Waiting
<1>4. \A t \in S : \E i \in 1..n : q[i].id = t
  BY <1>1 DEF Waiting
<1>5. \A i, j \in 1..n : i < j => q[i].id < q[j].id
  BY <1>1 DEF Ascending
<1>6. \A i, j \in 1..n : q[i].id = q[j].id => i = j
  <2>1. \A x \in Ids : ~(x < x)
    BY DEF Ids
  <2>2. \A i, j \in 1..n : i = j \/ i < j \/ j < i
    BY <1>1
  <2> QED
    BY <2>1, <2>2, <1>2, <1>5
<1> HIDE DEF S, n
<1>7. f \in [1..n -> S] /\ \A i \in 1..n : f[i] = q[i].id
  BY <1>3 DEF n
<1> HIDE DEF f
<1>8. f \in Bijection(1..n, S)
  <2>1. (\A i, j \in 1..n : f[i] = f[j] => i = j) /\ (\A t \in S : \E i \in 1..n : f[i] = t)
    BY <1>4, <1>6, <1>7
  <2>2. f \in Injection(1..n, S)
    BY <2>1, <1>7 DEF Injection, IsInjective
  <2>3. f \in Surjection(1..n, S)
    BY <2>1, <1>7 DEF Surjection
  <2> QED
    BY <2>2, <2>3 DEF Bijection
<1>9. ExistsBijection(1..n, S)
  BY <1>8 DEF ExistsBijection
<1>10. Cardinality(S) = n
  BY <1>1, <1>9, FS_CountingElements
<1> QED
  BY <1>10 DEF S, n

LEMMA PlacesCount ==
  ASSUME CInv, alive, NEW id \in Ids
  PROVE  Places(id) = IF requests[id] = "None" THEN 0 ELSE 1
<1> DEFINE posted == {i \in DOMAIN inbox :
                        inbox[i].kind = "enqueue" /\ inbox[i].req.id = id}
           waiting == {i \in DOMAIN worker.queue : worker.queue[i].id = id}
           reported == {i \in DOMAIN worker.outbox :
                          worker.outbox[i].kind = "completed" /\ worker.outbox[i].id = id}
<1>1. /\ worker \in Worker /\ Tidy(worker)
      /\ inbox \in Seq(Command) /\ worker.queue \in Seq(Request)
      /\ InOrder /\ Accounted
  BY CInvTypes, OutboxTypes DEF CInv
<1>2. ~(id < id)
  BY DEF Ids
<1>3. Cardinality(posted) = IF id \in Posted(inbox) THEN 1 ELSE 0
  <2>1. \A i, j \in posted : ~(i < j)
    BY <1>1, <1>2 DEF InOrder, InTurn, Enqueues
  <2>2. \A i, j \in posted : i = j
    <3>1. DOMAIN inbox \in SUBSET Nat
      BY <1>1
    <3> HIDE DEF posted
    <3>2. posted \subseteq Nat
      BY <3>1 DEF posted
    <3> QED
      BY <2>1, <3>2
  <2>3. id \in Posted(inbox) <=> posted # {}
    BY DEF Posted, Enqueues
  <2> HIDE DEF posted
  <2> QED
    BY <2>2, <2>3, OnePlace
<1>4. Cardinality(waiting) = IF id \in Waiting(worker.queue) THEN 1 ELSE 0
  <2>1. \A i, j \in waiting : ~(i < j)
    BY <1>1, <1>2 DEF Tidy, Ascending
  <2>2. \A i, j \in waiting : i = j
    <3>1. DOMAIN worker.queue \in SUBSET Nat
      BY <1>1
    <3> HIDE DEF waiting
    <3>2. waiting \subseteq Nat
      BY <3>1 DEF waiting
    <3> QED
      BY <2>1, <3>2
  <2>3. id \in Waiting(worker.queue) <=> waiting # {}
    BY DEF Waiting
  <2> HIDE DEF waiting
  <2> QED
    BY <2>2, <2>3, OnePlace
<1>5. Cardinality(reported) = IF id \in Reported(worker.outbox) THEN 1 ELSE 0
  <2>1. \A i, j \in reported : i = j
    BY <1>1 DEF Tidy, OneResultEach, IsResult
  <2>2. id \in Reported(worker.outbox) <=> reported # {}
    BY DEF Reported, IsResult
  <2> HIDE DEF reported
  <2> QED
    BY <2>1, <2>2, OnePlace
<1>6. /\ id \in Posted(inbox) => id \notin Pending(worker) /\ id \notin Reported(worker.outbox)
      /\ id \in Waiting(worker.queue) =>
           worker.active.id # id /\ id \notin Reported(worker.outbox)
      /\ worker.active.id = id => id \notin Reported(worker.outbox)
  BY <1>1, <1>2, ReportedIsTold DEF InOrder, Tidy
<1>7. id \in Pending(worker) <=> id \in Waiting(worker.queue) \/ worker.active.id = id
  BY DEF Pending
<1>8. requests[id] # "None" <=>
        \/ id \in Posted(inbox) \/ id \in Waiting(worker.queue)
        \/ worker.active.id = id \/ id \in Reported(worker.outbox)
  BY <1>1, <1>7 DEF Accounted, Held
<1>9. Places(id) = Cardinality(posted) + Cardinality(waiting)
                     + (IF worker.active.id = id THEN 1 ELSE 0) + Cardinality(reported)
  BY DEF Places
<1> HIDE DEF posted, waiting, reported
<1>10. CASE id \in Posted(inbox)
  BY <1>3, <1>4, <1>5, <1>6, <1>7, <1>8, <1>9, <1>10
<1>11. CASE id \notin Posted(inbox) /\ id \in Waiting(worker.queue)
  BY <1>3, <1>4, <1>5, <1>6, <1>8, <1>9, <1>11
<1>12. CASE id \notin Posted(inbox) /\ id \notin Waiting(worker.queue)
  BY <1>3, <1>4, <1>5, <1>6, <1>8, <1>9, <1>12
<1> QED
  BY <1>10, <1>11, <1>12

-----------------------------------------------------------------------------
(***************************************************************************)
(* The theorems.                                                           *)
(***************************************************************************)

\* The strengthened invariant holds in every reachable state.
THEOREM ConservationInvariance == Spec => []CInv
<1>1. CInv /\ [Next]_vars => CInv'
  BY NextConserves
<1> QED
  BY InitCInv, <1>1, PTL DEF Spec

\* Every request the facade holds open is in exactly one place between the two
\* threads, and no other request is anywhere: no fault, close, reopen, handover or
\* cancellation loses a request or completes it twice.
THEOREM RequestsConserved == Spec => []RequestConservation
<1>1. CInv => RequestConservation
  BY PlacesCount DEF RequestConservation
<1> QED
  BY ConservationInvariance, <1>1, PTL

\* Requests reach the wire in the order in which the facade accepted them.
THEOREM RequestsInOrder == Spec => []FifoOrder
<1>1. ASSUME CInv
      PROVE  FifoOrder
  <2>1. Tidy(worker) /\ worker.queue \in Seq(Request)
    BY <1>1, CInvTypes, OutboxTypes
  <2>2. \A i \in DOMAIN worker.queue : worker.queue[i].id \in Waiting(worker.queue)
    <3>1. \A i \in DOMAIN worker.queue : worker.queue[i] \in Request
      BY <2>1
    <3> QED
      BY <3>1 DEF Waiting, Request
  <2> QED
    BY <2>1, <2>2 DEF Tidy, Ascending, FifoOrder
<1> QED
  BY ConservationInvariance, <1>1, PTL

\* If the slave says nothing more once the line has fallen silent, a success
\* delivers the answer to the request it completes, whatever noise, timeouts,
\* cancellations and faults came before.
THEOREM SuccessesAreTrue ==
  ASSUME ~LateAnswers
  PROVE  Spec => []SuccessAnswersItsRequest
<1>1. CInv => SuccessAnswersItsRequest
  BY CInvTypes DEF Sane, Clear, Truthful, IsResult, SuccessAnswersItsRequest
<1> QED
  BY ConservationInvariance, <1>1, PTL

\* The worker holds requests only while it has a live port to serve them.
THEOREM NoRequestStranded == Spec => []NoStrandedRequest
<1>1. CInv => NoStrandedRequest
  BY CInvTypes DEF Served, Idle, NoStrandedRequest
<1> QED
  BY ConservationInvariance, <1>1, PTL

\* The limit the facade keeps on its own count bounds the worker's queue, although
\* the two threads never compare them.
THEOREM WorkerQueueLimited == Spec => []WorkerQueueBounded
<1>1. ASSUME CInv, alive
      PROVE  Len(worker.queue) <= queuedCount
  <2> DEFINE S == Waiting(worker.queue)
             Q == QueuedIn(requests)
  <2>1. worker.queue \in Seq(Request) /\ Ascending(worker.queue)
    BY <1>1, CInvTypes, OutboxTypes DEF Tidy
  <2>2. Cardinality(S) = Len(worker.queue)
    BY <2>1, AscendingCount
  <2>3. S \in SUBSET Q
    BY <1>1 DEF CInv, Accounted, Waiting, QueuedIn
  <2>4. queuedCount = Cardinality(Q)
    BY <1>1 DEF CInv, IInv, QueueBounded, QueuedIn
  <2> HIDE DEF S, Q
  <2>5. IsFiniteSet(Q)
    BY QueuedFinite DEF Q
  <2>6. Cardinality(S) <= Cardinality(Q)
    BY <2>3, <2>5, FS_Subset
  <2> QED
    BY <2>2, <2>4, <2>6
<1>2. CInv => WorkerQueueBounded
  BY <1>1 DEF WorkerQueueBounded
<1> QED
  BY ConservationInvariance, <1>2, PTL
=============================================================================
