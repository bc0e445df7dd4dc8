---------------------- MODULE SerialModbusClientHandover ----------------------
(***************************************************************************)
(* Whom SerialModbusClient serves, for every value of its constants: as    *)
(* long as the port has not failed, the worker holds requests of the owner *)
(* of the line only.                                                       *)
(*                                                                         *)
(* The facade decides who may submit from what it has heard, the worker    *)
(* who owns the line from what it has done; between the two lie the two    *)
(* queues.  The argument follows an order of the facade through them.      *)
(* First every handler of the worker is reduced to the signals it adds     *)
(* that are not about a request (Steady, Hands, Ends, and one operator for *)
(* each command); then a transition is shown to be in one of four stages   *)
(* (Resting, Sent, Working, Heard), each with what it keeps; and each step *)
(* leaves it in its stage or moves it to the next.                         *)
(***************************************************************************)
EXTENDS SerialModbusClientProofs
-----------------------------------------------------------------------------
(***************************************************************************)
(* The handlers of the worker, once more.  What matters of them to the     *)
(* facade are the few signals that are not about a request; everything     *)
(* else a handler does is Steady.                                          *)
(***************************************************************************)

\* The signals that v adds to those of w are about requests.
Mute(w, v) == \A i \in DOMAIN v.outbox : i > Len(w.outbox) => Tells(v.outbox[i])

\* The requests of v are requests of w.
Stems(w, v) ==
  /\ \/ v.active \in {NoRequest, w.active}
     \/ \E j \in DOMAIN w.queue : v.active = w.queue[j]
  /\ \A i \in DOMAIN v.queue : \E j \in DOMAIN w.queue : v.queue[i] = w.queue[j]

Stays(w, v) ==
  /\ v.state = w.state /\ v.port = w.port /\ v.owner = w.owner
  /\ v.closing = w.closing /\ v.stopped = w.stopped

Steady(w, v) ==
  Keeps(w, v) /\ Stays(w, v) /\ v.trans = w.trans /\ Stems(w, v) /\ Mute(w, v)

LEMMA MuteTransitive ==
  ASSUME NEW w \in Worker, NEW u \in Worker, NEW v \in Worker,
         Mute(w, u), Mute(u, v), Extends(u, v)
  PROVE  Mute(w, v)
<1>1. /\ DOMAIN u.outbox = 1..Len(u.outbox) /\ DOMAIN v.outbox = 1..Len(v.outbox)
      /\ Len(u.outbox) \in Nat /\ Len(v.outbox) \in Nat /\ Len(w.outbox) \in Nat
  BY OutboxTypes
<1>2. ASSUME NEW i \in DOMAIN v.outbox, i > Len(w.outbox)
      PROVE  Tells(v.outbox[i])
  <2>1. CASE i <= Len(u.outbox)
    <3>1. i \in DOMAIN u.outbox
      BY <1>1, <2>1
    <3> QED
      BY <1>2, <3>1 DEF Mute, Extends
  <2>2. CASE i > Len(u.outbox)
    BY <2>2 DEF Mute
  <2> QED
    BY <1>1, <2>1, <2>2
<1> QED
  BY <1>2 DEF Mute

LEMMA SteadyTransitive ==
  ASSUME NEW w, Sane(w), NEW u, Steady(w, u), NEW v, Steady(u, v)
  PROVE  Steady(w, v)
<1>1. w \in Worker /\ u \in Worker /\ v \in Worker /\ Extends(u, v)
  BY DEF Steady, Keeps, Sane, Descends
<1>2. Keeps(w, v)
  BY KeepsTransitive DEF Steady
<1>3. Mute(w, v)
  BY <1>1, MuteTransitive DEF Steady
<1>4. Stems(w, v)
  BY DEF Steady, Stems
<1> QED
  BY <1>2, <1>3, <1>4 DEF Steady, Stays

\* Adding signals about requests.
LEMMA MuteAdds ==
  ASSUME NEW w \in Worker, NEW v, NEW news \in Seq(Signal), v.outbox = w.outbox \o news,
         \A i \in DOMAIN news : Tells(news[i])
  PROVE  Mute(w, v)
<1>1. w.outbox \in Seq(Signal) /\ Len(w.outbox) \in Nat
      /\ DOMAIN w.outbox = 1..Len(w.outbox)
  BY OutboxTypes
<1>2. \A i \in DOMAIN v.outbox :
        i \in DOMAIN w.outbox \/ (i > Len(w.outbox) /\ i - Len(w.outbox) \in DOMAIN news
                                  /\ v.outbox[i] = news[i - Len(w.outbox)])
  BY <1>1, ConcatIndices
<1> QED
  BY <1>1, <1>2 DEF Mute

LEMMA MuteSilent ==
  ASSUME NEW w \in Worker, NEW v, v.outbox = w.outbox
  PROVE  Mute(w, v)
BY OutboxTypes DEF Mute

LEMMA ResultsAreTold ==
  ASSUME NEW q \in Seq(Request), NEW state \in TerminalState, NEW from \in Ids \cup {Noise}
  PROVE  /\ Results(q, state, from) \in Seq(Signal)
         /\ \A i \in DOMAIN Results(q, state, from) : Tells(Results(q, state, from)[i])
<1>1. Results(q, state, from) \in Seq(Signal)
  BY ResultsTell
<1>2. \A i \in DOMAIN Results(q, state, from) :
        \/ \E id : Results(q, state, from)[i] = StateSignal(id, state)
        \/ \E id : Results(q, state, from)[i] = CompletedSignal(id, state, from)
  BY DEF Results
<1> QED
  BY <1>1, <1>2 DEF Tells, StateSignal, CompletedSignal

LEMMA SteadyItself ==
  ASSUME NEW w, Sane(w)
  PROVE  Steady(w, w)
<1>1. w \in Worker
  BY DEF Sane
<1>2. Keeps(w, w)
  BY <1>1, RestingKeeps DEF Sane, Clear
<1> QED
  BY <1>1, <1>2, MuteSilent DEF Steady, Stays, Stems

\* Timers and the line aside, nothing changes.
LEMMA RestingSteady ==
  ASSUME NEW w, Sane(w), NEW v, Keeps(w, v), Stays(w, v), v.trans = w.trans,
         v.queue = w.queue, v.active = w.active, v.outbox = w.outbox
  PROVE  Steady(w, v)
<1>1. w \in Worker
  BY DEF Sane
<1> QED
  BY <1>1, MuteSilent DEF Steady, Stems

LEMMA EndActiveSteady ==
  ASSUME NEW w, Sane(w), w.active # NoRequest, NEW state \in {"Failed", "Cancelled"}
  PROVE  LET v == EndActive(w, state) IN Steady(w, v) /\ v.queue = w.queue /\ v.resync
<1> DEFINE ended == [w EXCEPT !.active = NoRequest, !.partial = FALSE, !.resync = TRUE,
                              !.quiet = FALSE, !.timer = TRUE]
           v == EndActive(w, state)
           q == <<w.active>>
<1>1. w \in Worker /\ state \in TerminalState
  BY DEF Sane, TerminalState
<1>2. Keeps(w, v) /\ Ended(w, v)
  BY EndActiveKeeps
<1>3. ended \in Worker /\ ended.outbox = w.outbox
  BY <1>1 DEF Worker
<1>4. v = Finalize(ended, q, state, Noise)
  BY DEF EndActive
<1>5. q \in Seq(Request)
  BY <1>1, WorkerIds
<1> HIDE DEF ended, v, q
<1>6. v.outbox = w.outbox \o Results(q, state, Noise)
  <2>1. Finalize(ended, q, state, Noise).outbox = ended.outbox \o Results(q, state, Noise)
    BY <1>3, FinalizeOutbox
  <2> QED
    BY <2>1, <1>3, <1>4
<1>7. Noise \in Ids \cup {Noise}
  OBVIOUS
<1>8. Mute(w, v)
  BY <1>1, <1>5, <1>6, <1>7, MuteAdds, ResultsAreTold
<1>9. Steady(w, v) /\ v.queue = w.queue /\ v.resync
  BY <1>2, <1>8 DEF Steady, Ended, Stays, Stems
<1> QED
  BY <1>9 DEF v

\* The elements of a subsequence are elements of the sequence.
LEMMA SubsequenceElements ==
  ASSUME NEW q \in Seq(Request), NEW K \in SUBSET DOMAIN q
  PROVE  LET s == SubsequenceAt(q, K)
         IN \A k \in DOMAIN s : \E i \in K : s[k] = q[i]
<1>1. /\ DOMAIN q = 1..Len(q) /\ Len(q) \in Nat
  OBVIOUS
<1>2. ASSUME NEW k \in DOMAIN SubsequenceAt(q, K)
      PROVE  \E i \in K : SubsequenceAt(q, K)[k] = q[i]
  <2>1. k \in 1..Cardinality(K)
    BY DEF SubsequenceAt
  <2>2. \E i \in K : Cardinality({j \in K : j < i}) = k - 1
    BY <1>1, <2>1, KthIndexExists
  <2> DEFINE i == CHOOSE i \in K : Cardinality({j \in K : j < i}) = k - 1
  <2>3. i \in K
    BY <2>2
  <2>4. SubsequenceAt(q, K)[k] = q[i]
    BY <2>1 DEF SubsequenceAt
  <2> QED
    BY <2>3, <2>4
<1> QED
  BY <1>2

LEMMA CancelQueuedSteady ==
  ASSUME NEW w, Sane(w), NEW K \in SUBSET DOMAIN w.queue
  PROVE  LET v == CancelQueued(w, K)
         IN /\ Steady(w, v) /\ v.active = w.active /\ v.resync = w.resync
            /\ \A i \in DOMAIN v.queue : \E j \in DOMAIN w.queue \ K : v.queue[i] = w.queue[j]
<1> DEFINE taken == SubsequenceAt(w.queue, K)
           left == SubsequenceAt(w.queue, DOMAIN w.queue \ K)
           rest == [w EXCEPT !.queue = left]
           v == CancelQueued(w, K)
<1>1. w \in Worker /\ w.queue \in Seq(Request)
  BY OutboxTypes DEF Sane
<1>2. /\ taken \in Seq(Request) /\ left \in Seq(Request)
  BY <1>1, SubsequenceType
<1>3. rest \in Worker /\ Says(rest, v)
  BY <1>1, CancelQueuedKeeps
<1>4. v = Finalize(rest, taken, "Cancelled", Noise)
  BY DEF CancelQueued
<1>5. Keeps(w, v)
  BY CancelQueuedTidies
<1>6. \A i \in DOMAIN left : \E j \in DOMAIN w.queue \ K : left[i] = w.queue[j]
  BY <1>1, SubsequenceElements
<1> HIDE DEF taken, left, v
<1>7. /\ rest.queue = left /\ rest.outbox = w.outbox /\ Stays(w, rest)
      /\ rest.trans = w.trans /\ rest.active = w.active /\ rest.resync = w.resync
  BY <1>1 DEF Worker, Stays
<1> HIDE DEF rest
<1>8. /\ v.queue = left /\ Stays(w, v) /\ v.trans = w.trans /\ v.active = w.active
      /\ v.resync = w.resync
  BY <1>3, <1>7, SaysKeeps DEF Stays
<1>9. v.outbox = w.outbox \o Results(taken, "Cancelled", Noise)
  BY ZenonT(60), <1>3, <1>4, <1>7, FinalizeOutbox
<1>10. "Cancelled" \in TerminalState /\ Noise \in Ids \cup {Noise}
  BY DEF TerminalState
<1>11. Mute(w, v)
  BY <1>1, <1>2, <1>9, <1>10, MuteAdds, ResultsAreTold
<1>12. Stems(w, v)
  BY <1>6, <1>8 DEF Stems
<1>13. Steady(w, v)
  BY <1>5, <1>8, <1>11, <1>12 DEF Steady
<1> QED
  BY <1>6, <1>8, <1>13 DEF v

\* v adds one signal to those of w, or two.
Utters(w, v, s) ==
  /\ Extends(w, v) /\ Len(v.outbox) = Len(w.outbox) + 1
  /\ v.outbox[Len(w.outbox) + 1] = s
Pairs(w, v, s, t) ==
  /\ Extends(w, v) /\ Len(v.outbox) = Len(w.outbox) + 2
  /\ v.outbox[Len(w.outbox) + 1] = s /\ v.outbox[Len(w.outbox) + 2] = t

\* A transition is completed, or a close.
Hands(w, v) ==
  /\ Keeps(w, v)
  /\ w.closing = 0 /\ w.trans # NoTransition /\ w.active = NoRequest /\ w.state # "Faulted"
  /\ v.state = w.state /\ v.port = w.port /\ v.closing = w.closing /\ v.stopped = w.stopped
  /\ v.queue = w.queue /\ v.active = w.active
  /\ v.trans = NoTransition /\ v.owner = w.trans.target
  /\ Utters(w, v, OwnershipSignal(w.trans.op, w.trans.target, TRUE))

Ends(w, v) ==
  /\ Keeps(w, v) /\ w.closing # 0 /\ Idle(w) /\ Dead(v)
  /\ v.owner = NoOwner /\ v.trans = w.trans /\ v.stopped = w.stopped
  /\ Pairs(w, v, ConnectionSignal("Disconnected"), ControlSignal(w.closing, "Close", TRUE))

\* What a handler does, the commands that bring about a transition and faults aside.
Goes(w, v) ==
  \/ Steady(w, v)
  \/ \E a, b : Steady(w, a) /\ (Hands(a, b) \/ Ends(a, b)) /\ Steady(b, v)

LEMMA UttersAdds ==
  ASSUME NEW w \in Worker, NEW v \in Worker, NEW s \in Signal, v.outbox = w.outbox \o <<s>>
  PROVE  Utters(w, v, s)
<1>1. w.outbox \in Seq(Signal) /\ <<s>> \in Seq(Signal)
  BY OutboxTypes
<1>2. Extends(w, v)
  BY <1>1, AddsExtends
<1>3. Len(v.outbox) = Len(w.outbox) + 1 /\ v.outbox[Len(w.outbox) + 1] = s
  BY <1>1
<1> QED
  BY <1>2, <1>3 DEF Utters

LEMMA PairsAdds ==
  ASSUME NEW w \in Worker, NEW v \in Worker, NEW s \in Signal, NEW t \in Signal,
         v.outbox = w.outbox \o <<s, t>>
  PROVE  Pairs(w, v, s, t)
<1>1. w.outbox \in Seq(Signal) /\ <<s, t>> \in Seq(Signal)
  BY OutboxTypes
<1>2. Extends(w, v)
  BY <1>1, AddsExtends
<1>3. /\ Len(v.outbox) = Len(w.outbox) + 2 /\ v.outbox[Len(w.outbox) + 1] = s
      /\ v.outbox[Len(w.outbox) + 2] = t
  BY <1>1
<1> QED
  BY <1>2, <1>3 DEF Pairs

LEMMA StartNextSteady ==
  ASSUME NEW w, Sane(w), MaySend(w), w.quiet, ~w.resync, NEW write \in Writes
  PROVE  Steady(w, StartNext(w, write))
<1> DEFINE req == Head(w.queue)
           loaded == [w EXCEPT !.active = req, !.queue = Tail(@), !.partial = FALSE]
           news == <<StateSignal(req.id, "InFlight")>>
           sent == Emit(loaded, news)
           v == StartNext(w, write)
<1>1. w \in Worker /\ w.queue \in Seq(Request) /\ w.queue # <<>> /\ w.active = NoRequest
      /\ Tidy(w) /\ w.state = "Connected" /\ w.port
  BY OutboxTypes DEF MaySend, Sane
<1>2. /\ req \in Request /\ Tail(w.queue) \in Seq(Request) /\ 1 \in DOMAIN w.queue
      /\ req = w.queue[1]
      /\ \A i \in DOMAIN Tail(w.queue) : i + 1 \in DOMAIN w.queue
                                         /\ Tail(w.queue)[i] = w.queue[i + 1]
  BY <1>1
<1>3. req.id \in Ids /\ req # NoRequest
  BY <1>2, NoRequestIsNone DEF Request
<1>4. v = IF write = "full" THEN [sent EXCEPT !.line = @ \cup {req.id}]
                            ELSE EndActive(sent, "Failed")
  BY DEF StartNext, CompleteActiveError
<1>5. Keeps(w, v)
  BY StartNextKeeps
<1> HIDE DEF req, v
<1>6. /\ loaded \in Worker /\ loaded.active = req /\ loaded.queue = Tail(w.queue)
      /\ loaded.outbox = w.outbox /\ Stays(w, loaded) /\ loaded.trans = w.trans
      /\ loaded.line = w.line /\ loaded.resync = w.resync
  BY <1>1, <1>2 DEF Worker, Stays
<1> HIDE DEF loaded
<1>7. news \in Seq(Signal) /\ \A i \in DOMAIN news : Tells(news[i])
  <2>1. StateSignal(req.id, "InFlight") \in Signal /\ Tells(StateSignal(req.id, "InFlight"))
    BY <1>3, SignalTypes DEF RequestState, TerminalState, Tells, StateSignal
  <2> QED
    BY <2>1
<1>8. sent.outbox = w.outbox \o news
  BY <1>6, EmitOutbox
<1>9. Says(loaded, sent)
  BY <1>6, <1>7, EmitSays
<1> HIDE DEF sent, news
<1>10. /\ sent \in Worker /\ sent.active = req /\ sent.queue = Tail(w.queue)
       /\ Stays(w, sent) /\ sent.trans = w.trans /\ sent.line = w.line
       /\ sent.resync = w.resync
  BY <1>6, <1>9, SaysKeeps DEF Stays
<1>11. Mute(w, sent) /\ Stems(w, sent)
  <2>1. Mute(w, sent)
    BY <1>1, <1>7, <1>8, MuteAdds
  <2>2. Stems(w, sent)
    BY <1>2, <1>10 DEF Stems, req
  <2> QED
    BY <2>1, <2>2
<1>12. CASE write = "full"
  <2>1. v = [sent EXCEPT !.line = @ \cup {req.id}]
    BY <1>4, <1>12
  <2>2. /\ v.active = req /\ v.queue = sent.queue /\ v.outbox = sent.outbox
        /\ Stays(sent, v) /\ v.trans = sent.trans
    BY <2>1, <1>10 DEF Worker, Stays
  <2>3. Mute(w, v) /\ Stems(w, v)
    BY <1>10, <1>11, <2>2 DEF Mute, Stems
  <2> QED
    BY <1>5, <1>10, <2>2, <2>3 DEF Steady, Stays, v
<1>13. CASE write # "full"
  <2>1. v = EndActive(sent, "Failed")
    BY <1>4, <1>13
  <2>2. Tidy(sent) /\ Carries(w, sent) /\ (Truthful(w.outbox) => Truthful(sent.outbox))
    BY <1>1, <1>8, <1>10, HeadHandedOn DEF news, req
  <2>3. Sane(sent)
    BY <1>1, <1>3, <1>10, <2>2 DEF Sane, Clear, Stays
  <2>4. Steady(sent, v)
    BY <1>3, <1>10, <2>1, <2>3, EndActiveSteady
  <2>5. Mute(w, v)
    <3>1. v \in Worker /\ Extends(sent, v)
      BY <2>4 DEF Steady, Keeps, Sane, Descends
    <3> QED
      BY <1>1, <1>10, <1>11, <2>4, <3>1, MuteTransitive DEF Steady
  <2>6. Stems(w, v)
    BY <1>11, <2>4 DEF Steady, Stems
  <2> QED
    BY <1>5, <1>10, <2>4, <2>5, <2>6 DEF Steady, Stays, v
<1> QED
  BY <1>12, <1>13

LEMMA StartNextWhenSilentSteady ==
  ASSUME NEW w, Sane(w), NEW write \in Writes
  PROVE  Steady(w, StartNextWhenSilent(w, write))
<1> DEFINE v == StartNextWhenSilent(w, write)
<1>1. w \in Worker /\ Keeps(w, v)
  BY StartNextWhenSilentKeeps DEF Sane
<1>2. CASE ~MaySend(w)
  <2>1. v = w
    BY <1>2 DEF StartNextWhenSilent
  <2> QED
    BY <2>1, SteadyItself
<1>3. CASE MaySend(w) /\ w.quiet
  <2> DEFINE ready == [w EXCEPT !.resync = FALSE]
  <2>1. /\ ready \in Worker /\ ready.queue = w.queue /\ ready.active = w.active
        /\ ready.outbox = w.outbox /\ Stays(w, ready) /\ ready.trans = w.trans
        /\ ~ready.resync /\ ready.line = w.line /\ ready.quiet = w.quiet
    BY <1>1 DEF Worker, Stays
  <2>2. v = StartNext(ready, write)
    BY <1>3 DEF StartNextWhenSilent
  <2> HIDE DEF ready, v
  <2>3. w.active = NoRequest
    BY <1>3 DEF MaySend
  <2>4. ~LateAnswers => (w.port => w.line = {})
    BY <2>3, <1>3 DEF Sane, Clear
  <2>5. Keeps(w, ready)
    BY <2>1, <2>3, <2>4, RestingKeeps DEF Stays
  <2>6. Sane(ready) /\ MaySend(ready) /\ ready.quiet
    BY <2>1, <2>5, <1>3 DEF Keeps, MaySend, Stays
  <2>7. Steady(ready, v)
    BY <2>1, <2>2, <2>6, StartNextSteady
  <2>8. Steady(w, ready)
    BY <2>1, <2>5, RestingSteady
  <2> QED
    BY <2>7, <2>8, SteadyTransitive DEF v
<1>4. CASE MaySend(w) /\ ~w.quiet
  <2>1. v = [w EXCEPT !.timer = TRUE]
    BY <1>4 DEF StartNextWhenSilent
  <2>2. /\ v.queue = w.queue /\ v.active = w.active /\ v.outbox = w.outbox
        /\ Stays(w, v) /\ v.trans = w.trans
    BY <2>1, <1>1 DEF Worker, Stays
  <2> HIDE DEF v
  <2> QED
    BY <2>2, <1>1, RestingSteady DEF v
<1> QED
  BY <1>2, <1>3, <1>4

LEMMA FinishOwnershipTransitionGoes ==
  ASSUME NEW w, Sane(w), w.trans # NoTransition, w.closing = 0, w.active = NoRequest,
         w.state # "Faulted", NEW write \in Writes
  PROVE  Goes(w, FinishOwnershipTransition(w, write))
<1> DEFINE rest == [w EXCEPT !.trans = NoTransition, !.owner = w.trans.target]
           s == OwnershipSignal(w.trans.op, w.trans.target, TRUE)
           told == Emit(rest, <<s>>)
           v == FinishOwnershipTransition(w, write)
<1>1. w \in Worker
  BY DEF Sane
<1>2. w.trans.op \in OpIds /\ w.trans.target \in OwnerOrNone
  BY <1>1 DEF Worker, Transition
<1>3. s \in Signal /\ ~Tells(s) /\ ~IsUp(s) /\ ~IsDown(s)
  BY <1>2, PlainSignals
<1>4. v = StartNextWhenSilent(told, write)
  BY DEF FinishOwnershipTransition
<1>5. /\ rest \in Worker /\ rest.queue = w.queue /\ rest.active = w.active
      /\ rest.outbox = w.outbox /\ rest.state = w.state /\ rest.port = w.port
      /\ rest.closing = w.closing /\ rest.resync = w.resync /\ rest.line = w.line
      /\ rest.quiet = w.quiet /\ rest.stopped = w.stopped
      /\ rest.trans = NoTransition /\ rest.owner = w.trans.target
  BY <1>1, <1>2 DEF Worker
<1> HIDE DEF rest, s
<1>6. Says(rest, told) /\ told.outbox = w.outbox \o <<s>>
  BY <1>3, <1>5, SignalSequences, EmitSays, EmitOutbox
<1> HIDE DEF told
<1>7. Keeps(w, told) /\ told \in Worker
  BY <1>3, <1>5, <1>6, SaysKeeps, AnnouncingKeeps
<1>8. Utters(w, told, s)
  BY <1>1, <1>3, <1>6, <1>7, UttersAdds
<1>9. Hands(w, told)
  BY ZenonT(60), <1>5, <1>6, <1>7, <1>8, SaysKeeps DEF Hands, s
<1>10. Steady(told, v)
  BY <1>4, <1>7, StartNextWhenSilentSteady DEF Keeps
<1>11. Steady(w, w)
  BY SteadyItself
<1> HIDE DEF v
<1>12. Goes(w, v)
  BY <1>9, <1>10, <1>11 DEF Goes
<1> QED
  BY <1>12 DEF v

LEMMA FinishCloseEnds ==
  ASSUME NEW w, Sane(w), Shut(w), w.active = NoRequest, w.closing # 0
  PROVE  Ends(w, FinishClose(w))
<1> DEFINE rest == [w EXCEPT !.closing = 0, !.timer = FALSE, !.port = FALSE,
                             !.owner = NoOwner, !.resync = FALSE, !.quiet = TRUE,
                             !.state = "Disconnected"]
           down == ConnectionSignal("Disconnected")
           done == ControlSignal(w.closing, "Close", TRUE)
           v == FinishClose(w)
<1>1. w \in Worker /\ Idle(w)
  BY DEF Sane, Shut, Idle
<1>2. w.closing \in OpIds
  BY <1>1 DEF Worker
<1>3. down \in Signal /\ done \in Signal
  BY <1>2, SignalTypes DEF ConnectionState
<1>4. v = Emit(rest, <<down, done>>)
  BY DEF FinishClose
<1>5. /\ rest \in Worker /\ rest.outbox = w.outbox /\ rest.owner = NoOwner
      /\ rest.trans = w.trans /\ rest.stopped = w.stopped
  BY <1>1 DEF Worker, ConnectionState, OwnerOrNone
<1>6. Keeps(w, v) /\ Dead(v)
  BY FinishCloseKeeps
<1> HIDE DEF rest, down, done, v
<1>7. Says(rest, v) /\ v.outbox = w.outbox \o <<down, done>>
  BY <1>3, <1>4, <1>5, SignalSequences, EmitSays, EmitOutbox
<1>8. v \in Worker /\ v.owner = NoOwner /\ v.trans = w.trans /\ v.stopped = w.stopped
  BY <1>5, <1>7, SaysKeeps
<1>9. Pairs(w, v, down, done)
  BY <1>1, <1>3, <1>7, <1>8, PairsAdds
<1>10. Ends(w, v)
  BY <1>1, <1>6, <1>8, <1>9 DEF Ends, down, done
<1> QED
  BY <1>10 DEF v

\* Handlers one after the other, when the others are steady.
LEMMA GoesAfterSteady ==
  ASSUME NEW w, Sane(w), NEW u, Steady(w, u), NEW v, Goes(u, v)
  PROVE  Goes(w, v)
<1>1. CASE Steady(u, v)
  BY <1>1, SteadyTransitive DEF Goes
<1>2. ASSUME NEW a, NEW b, Steady(u, a), Hands(a, b) \/ Ends(a, b), Steady(b, v)
      PROVE  Goes(w, v)
  <2>1. Steady(w, a)
    BY <1>2, SteadyTransitive
  <2> QED
    BY <1>2, <2>1 DEF Goes
<1> QED
  BY <1>1, <1>2 DEF Goes

LEMMA GoesThenSteady ==
  ASSUME NEW w, Sane(w), NEW u, Goes(w, u), NEW v, Steady(u, v)
  PROVE  Goes(w, v)
<1>1. CASE Steady(w, u)
  BY <1>1, SteadyTransitive DEF Goes
<1>2. ASSUME NEW a, NEW b, Steady(w, a), Hands(a, b) \/ Ends(a, b), Steady(b, u)
      PROVE  Goes(w, v)
  <2>1. Sane(b)
    BY <1>2 DEF Hands, Ends, Keeps
  <2>2. Steady(b, v)
    BY <1>2, <2>1, SteadyTransitive
  <2> QED
    BY <1>2, <2>2 DEF Goes
<1> QED
  BY <1>1, <1>2 DEF Goes

LEMMA MaybeCompleteTransitionGoes ==
  ASSUME NEW w, Sane(w), Shut(w), NEW write \in Writes
  PROVE  Goes(w, MaybeCompleteTransition(w, write))
<1> DEFINE v == MaybeCompleteTransition(w, write)
<1>1. Steady(w, w)
  BY SteadyItself
<1>2. CASE w.active # NoRequest \/ w.resync \/ w.state = "Faulted"
  <2>1. v = w
    BY <1>2 DEF MaybeCompleteTransition
  <2> QED
    BY <2>1, <1>1 DEF Goes
<1>3. CASE ~(w.active # NoRequest \/ w.resync \/ w.state = "Faulted") /\ w.closing # 0
  <2>1. v = FinishClose(w)
    BY <1>3 DEF MaybeCompleteTransition
  <2> HIDE DEF v
  <2>2. Ends(w, v)
    BY <2>1, <1>3, FinishCloseEnds
  <2>3. Steady(v, v)
    BY <2>2, SteadyItself DEF Ends, Keeps
  <2>4. Goes(w, v)
    BY <1>1, <2>2, <2>3 DEF Goes
  <2> QED
    BY <2>4 DEF v
<1>4. CASE ~(w.active # NoRequest \/ w.resync \/ w.state = "Faulted") /\ w.closing = 0
           /\ w.trans # NoTransition
  <2>1. v = FinishOwnershipTransition(w, write)
    BY <1>4 DEF MaybeCompleteTransition
  <2> QED
    BY <2>1, <1>4, FinishOwnershipTransitionGoes
<1>5. CASE ~(w.active # NoRequest \/ w.resync \/ w.state = "Faulted") /\ w.closing = 0
           /\ w.trans = NoTransition
  <2>1. v = w
    BY <1>5 DEF MaybeCompleteTransition
  <2> QED
    BY <2>1, <1>1 DEF Goes
<1> QED
  BY <1>2, <1>3, <1>4, <1>5

LEMMA CompleteThenStartGoes ==
  ASSUME NEW w, Sane(w), Shut(w), NEW write \in Writes
  PROVE  Goes(w, StartNextWhenSilent(MaybeCompleteTransition(w, write), write))
<1> DEFINE u == MaybeCompleteTransition(w, write)
<1>1. Goes(w, u) /\ Keeps(w, u)
  BY MaybeCompleteTransitionGoes, MaybeCompleteTransitionKeeps
<1> HIDE DEF u
<1>2. Steady(u, StartNextWhenSilent(u, write))
  BY <1>1, StartNextWhenSilentSteady DEF Keeps
<1>3. Goes(w, StartNextWhenSilent(u, write))
  BY <1>1, <1>2, GoesThenSteady
<1> QED
  BY <1>3 DEF u

LEMMA CompleteActiveSuccessGoes ==
  ASSUME NEW w, Sane(w), Shut(w), w.active # NoRequest, NEW from \in Ids,
         ~LateAnswers => from = w.active.id /\ w.line = {},
         NEW write \in Writes
  PROVE  Goes(w, CompleteActiveSuccess(w, from, write))
<1> DEFINE rest == [w EXCEPT !.active = NoRequest, !.partial = FALSE]
           q == <<w.active>>
           state == "Succeeded"
           told == Finalize(rest, q, state, from)
<1>1. w \in Worker /\ Tidy(w)
  BY DEF Sane
<1>2. q \in Seq(Request)
  BY <1>1, WorkerIds, WaitingOne
<1>3. CompleteActiveSuccess(w, from, write)
        = StartNextWhenSilent(MaybeCompleteTransition(told, write), write)
  BY DEF CompleteActiveSuccess
<1>4. /\ rest \in Worker /\ rest.queue = w.queue /\ rest.active = NoRequest
      /\ rest.outbox = w.outbox /\ Stays(w, rest) /\ rest.trans = w.trans
      /\ rest.resync = w.resync /\ rest.line = w.line
  BY <1>1 DEF Worker, Stays
<1>5. state \in TerminalState /\ from \in Ids \cup {Noise}
  BY DEF TerminalState
<1> HIDE DEF rest, q, state
<1>6. Says(rest, told) /\ told.outbox = w.outbox \o Results(q, state, from)
  <2>1. Finalize(rest, q, state, from).outbox = rest.outbox \o Results(q, state, from)
    <3>1. \A u \in Worker :
            Finalize(u, q, state, from).outbox = u.outbox \o Results(q, state, from)
      BY FinalizeOutbox
    <3> QED
      BY <3>1, <1>4
  <2>2. Says(rest, told)
    BY <1>2, <1>4, <1>5, FinalizeSays
  <2> QED
    BY <1>4, <2>1, <2>2
<1> HIDE DEF told
<1>7. /\ told \in Worker /\ told.queue = w.queue /\ told.active = NoRequest
      /\ Stays(w, told) /\ told.trans = w.trans /\ told.resync = w.resync
      /\ told.line = w.line
  BY <1>4, <1>6, SaysKeeps DEF Stays
<1>8. Tidy(told) /\ Carries(w, told) /\ Extends(w, told) /\ NoRise(w, told)
      /\ NoFall(w, told)
      /\ (Truthful(w.outbox) /\ from = w.active.id => Truthful(told.outbox))
  BY <1>1, <1>5, <1>6, <1>7, ActiveHandedOn DEF q
<1>9. ~LateAnswers => Clear(told)
  BY <1>7, <1>8 DEF Sane, Clear
<1>10. Keeps(w, told)
  BY <1>7, <1>8, <1>9, SteadyKeeps DEF Stays
<1>11. Sane(told) /\ Shut(told)
  BY <1>10 DEF Keeps
<1>12. Mute(w, told)
  BY <1>1, <1>2, <1>5, <1>6, MuteAdds, ResultsAreTold
<1>13. Steady(w, told)
  BY <1>7, <1>10, <1>12 DEF Steady, Stems
<1>14. Goes(told, StartNextWhenSilent(MaybeCompleteTransition(told, write), write))
  BY <1>11, CompleteThenStartGoes
<1> QED
  BY <1>3, <1>13, <1>14, GoesAfterSteady


-----------------------------------------------------------------------------
(***************************************************************************)
(* The commands.                                                           *)
(***************************************************************************)

\* An open is answered, with the state the connection then has.
Comes(w, v, op, ok) ==
  LET s == IF ok THEN "Connected" ELSE "Faulted"
  IN /\ Rises(w, v) /\ v.state = s /\ v.trans = w.trans /\ v.stopped = w.stopped
     /\ Pairs(w, v, ConnectionSignal(s), ControlSignal(op, "Open", ok))
     /\ IF ok THEN v.owner = NoOwner ELSE v.owner = w.owner /\ (v.port => w.port)

\* The close op begins.
Starts(w, u, op) ==
  /\ Sane(u) /\ Carries(w, u) /\ Utters(w, u, ConnectionSignal("Closing"))
  /\ u.queue = w.queue /\ u.active = w.active /\ u.trans = w.trans
  /\ u.port = w.port /\ u.owner = w.owner /\ u.stopped = w.stopped
  /\ u.state = "Closing" /\ u.closing = op

\* The line is given at once to o.
Grants(w, v, op, o) ==
  /\ Keeps(w, v) /\ w.owner \in {NoOwner, o} /\ v.owner = o
  /\ v.state = w.state /\ v.port = w.port /\ v.closing = w.closing /\ v.stopped = w.stopped
  /\ v.trans = w.trans /\ v.queue = w.queue /\ v.active = w.active
  /\ Utters(w, v, OwnershipSignal(op, o, TRUE))

\* The line is claimed for target: the requests of o that wait are cancelled.
Claims(w, u, op, o, target) ==
  /\ Keeps(w, u) /\ Stays(w, u) /\ Stems(w, u) /\ Mute(w, u)
  /\ u.trans = [op |-> op, target |-> target]
  /\ \A i \in DOMAIN u.queue : u.queue[i].owner # o

\* A request is taken in; it is refused unless the connection is up and at rest.
Admits(w, v, req) ==
  /\ Receives(w, v, req.id) /\ Stays(w, v) /\ v.trans = w.trans /\ Mute(w, v)
  /\ v.active \in {NoRequest, w.active, req} \/ \E j \in DOMAIN w.queue : v.active = w.queue[j]
  /\ \A i \in DOMAIN v.queue : v.queue[i] = req \/ \E j \in DOMAIN w.queue : v.queue[i] = w.queue[j]
  /\ w.state # "Connected" \/ w.trans # NoTransition \/ w.closing # 0 => Stems(w, v)

Off(w) == Idle(w) /\ ~w.port /\ ~w.timer

\* The port fails: the requests end, and the transition does.
Falls(w, v) ==
  /\ Rises(w, v) /\ v.state = "Faulted" /\ ~v.port /\ v.owner = NoOwner
  /\ v.trans = NoTransition /\ v.stopped = w.stopped
  /\ \E u \in Worker :
       /\ Extends(w, u) /\ Mute(w, u) /\ Carries(w, u) /\ Idle(u)
       /\ IF w.trans = NoTransition
            THEN Utters(u, v, ConnectionSignal("Faulted"))
            ELSE Pairs(u, v, OwnershipSignal(w.trans.op, NoOwner, FALSE),
                             ConnectionSignal("Faulted"))

LEMMA WorkerOpenComes ==
  ASSUME NEW w, Sane(w), Idle(w), NEW op \in OpIds, NEW outcome \in OpenOutcomes(w)
  PROVE  \E ok \in BOOLEAN : Comes(w, WorkerOpen(w, op, outcome), op, ok)
<1> DEFINE up == [w EXCEPT !.queue = <<>>, !.active = NoRequest, !.partial = FALSE,
                           !.owner = NoOwner, !.resync = TRUE, !.quiet = FALSE,
                           !.timer = TRUE, !.port = TRUE, !.state = "Connected"]
           down == [w EXCEPT !.state = "Faulted",
                             !.port = IF outcome = "failed" THEN FALSE ELSE @]
           v == WorkerOpen(w, op, outcome)
<1>1. w \in Worker
  BY DEF Sane
<1>2. Rises(w, v)
  BY WorkerOpenRises
<1>3. /\ up \in Worker /\ up.outbox = w.outbox /\ up.owner = NoOwner
      /\ up.trans = w.trans /\ up.stopped = w.stopped /\ up.state = "Connected"
  <2>1. <<>> \in Seq(Request)
    OBVIOUS
  <2> QED
    BY <1>1, <2>1 DEF Worker, ConnectionState, OwnerOrNone
<1>4. /\ down \in Worker /\ down.outbox = w.outbox /\ down.state = "Faulted"
      /\ (down.port => w.port) /\ down.trans = w.trans /\ down.stopped = w.stopped
      /\ down.owner = w.owner
  BY <1>1 DEF Worker, ConnectionState
<1>5. ASSUME NEW u, u \in Worker, u.outbox = w.outbox,
             NEW s \in {"Connected", "Faulted"}, NEW ok \in BOOLEAN,
             v = Emit(u, <<ConnectionSignal(s), ControlSignal(op, "Open", ok)>>)
      PROVE  /\ Pairs(w, v, ConnectionSignal(s), ControlSignal(op, "Open", ok))
             /\ v.state = u.state /\ v.trans = u.trans /\ v.stopped = u.stopped
             /\ v.owner = u.owner /\ v.port = u.port
  <2> DEFINE c == ConnectionSignal(s)
             d == ControlSignal(op, "Open", ok)
  <2>1. c \in Signal /\ d \in Signal
    BY SignalTypes DEF ConnectionState
  <2>2. v = Emit(u, <<c, d>>)
    BY <1>5
  <2> HIDE DEF c, d, v
  <2>3. Says(u, v) /\ v.outbox = w.outbox \o <<c, d>>
    BY <1>5, <2>1, <2>2, SignalSequences, EmitSays, EmitOutbox
  <2>4. v \in Worker /\ v.state = u.state /\ v.trans = u.trans /\ v.stopped = u.stopped
        /\ v.owner = u.owner /\ v.port = u.port
    BY <1>5, <2>3, SaysKeeps
  <2>5. Pairs(w, v, c, d)
    BY <1>1, <2>1, <2>3, <2>4, PairsAdds
  <2> QED
    BY <2>4, <2>5 DEF c, d
<1>6. CASE outcome = "ok"
  <2>1. v = Emit(up, <<ConnectionSignal("Connected"), ControlSignal(op, "Open", TRUE)>>)
    BY <1>6 DEF WorkerOpen
  <2> HIDE DEF up, v
  <2>2. /\ Pairs(w, v, ConnectionSignal("Connected"), ControlSignal(op, "Open", TRUE))
        /\ v.state = "Connected" /\ v.trans = w.trans /\ v.stopped = w.stopped
        /\ v.owner = NoOwner
    BY <2>1, <1>3, <1>5
  <2>3. Comes(w, v, op, TRUE)
    BY <2>2, <1>2 DEF Comes
  <2> QED
    BY <2>3 DEF v
<1>7. CASE outcome # "ok"
  <2>1. v = Emit(down, <<ConnectionSignal("Faulted"), ControlSignal(op, "Open", FALSE)>>)
    BY <1>7 DEF WorkerOpen
  <2> HIDE DEF down, v
  <2>2. /\ Pairs(w, v, ConnectionSignal("Faulted"), ControlSignal(op, "Open", FALSE))
        /\ v.state = "Faulted" /\ v.trans = w.trans /\ v.stopped = w.stopped
        /\ v.owner = w.owner /\ (v.port => w.port)
    BY <2>1, <1>4, <1>5
  <2>3. Comes(w, v, op, FALSE)
    BY <2>2, <1>2 DEF Comes
  <2> QED
    BY <2>3 DEF v
<1> QED
  BY <1>6, <1>7

LEMMA WorkerCloseStarts ==
  ASSUME NEW w, Good(w), NEW op \in OpIds, NEW mode, NEW write \in Writes
  PROVE  \E u : Starts(w, u, op) /\ Goes(u, WorkerClose(w, op, mode, write))
<1> DEFINE closing == [w EXCEPT !.closing = op, !.state = "Closing"]
           s == ConnectionSignal("Closing")
           told == Emit(closing, <<s>>)
           flushed == CancelQueued(told, DOMAIN w.queue)
           ended == IF w.active # NoRequest /\ mode = "CancelAll"
                      THEN CompleteActiveCancelled(flushed) ELSE flushed
           v == WorkerClose(w, op, mode, write)
<1>1. w \in Worker /\ Tidy(w) /\ op # 0
  BY DEF Good, Sane, OpIds
<1>2. s \in Signal /\ ~Tells(s)
  BY PlainSignals DEF ConnectionState
<1>3. v = MaybeCompleteTransition(ended, write)
  BY DEF WorkerClose
<1>4. /\ closing \in Worker /\ closing.queue = w.queue /\ closing.active = w.active
      /\ closing.outbox = w.outbox /\ closing.state = "Closing" /\ closing.port = w.port
      /\ closing.closing = op /\ closing.resync = w.resync /\ closing.line = w.line
      /\ closing.quiet = w.quiet /\ closing.trans = w.trans /\ closing.owner = w.owner
      /\ closing.stopped = w.stopped
  BY <1>1 DEF Worker, ConnectionState
<1>5. s = ConnectionSignal("Closing")
  OBVIOUS
<1> HIDE DEF closing, s
<1>6. Plain(<<s>>) /\ <<s>> \in Seq(Signal)
  BY <1>2, PlainSequences DEF Plain
<1>7. Says(closing, told) /\ told.outbox = w.outbox \o <<s>>
  BY <1>4, <1>6, EmitSays, EmitOutbox
<1> HIDE DEF told
<1>8. /\ told \in Worker /\ told.queue = w.queue /\ told.active = w.active
      /\ told.state = "Closing" /\ told.port = w.port
      /\ told.closing = op /\ told.resync = w.resync /\ told.line = w.line
      /\ told.quiet = w.quiet /\ told.trans = w.trans /\ told.owner = w.owner
      /\ told.stopped = w.stopped
  BY <1>4, <1>7, SaysKeeps
<1>9. Tidy(told) /\ Carries(w, told) /\ (Truthful(w.outbox) => Truthful(told.outbox))
  BY <1>1, <1>6, <1>7, <1>8, SameWork
<1>10. Sane(told)
  BY <1>8, <1>9 DEF Good, Sane, Clear
<1>11. Utters(w, told, s)
  BY <1>1, <1>2, <1>7, <1>8, UttersAdds
<1>12. Starts(w, told, op)
  BY <1>5, <1>8, <1>9, <1>10, <1>11 DEF Starts
<1>13. Keeps(told, flushed) /\ Steady(told, flushed) /\ flushed.queue = <<>>
       /\ flushed.active = w.active
  BY <1>8, <1>10, CancelQueuedTidies, CancelQueuedSteady
<1> HIDE DEF flushed
<1>14. Sane(flushed) /\ Shut(flushed)
  BY <1>13 DEF Keeps, Shut
<1>15. Steady(told, ended) /\ Shut(ended)
  <2>1. CASE w.active # NoRequest /\ mode = "CancelAll"
    <3>1. Steady(flushed, ended)
      BY <2>1, <1>13, <1>14, EndActiveSteady DEF CompleteActiveCancelled
    <3> HIDE DEF ended
    <3>2. Steady(told, ended)
      BY <3>1, <1>10, <1>13, SteadyTransitive
    <3> QED
      BY <3>1, <3>2, <1>14 DEF Steady, Keeps
  <2>2. CASE ~(w.active # NoRequest /\ mode = "CancelAll")
    BY <2>2, <1>13, <1>14
  <2> QED
    BY <2>1, <2>2
<1> HIDE DEF ended, v
<1>16. Goes(ended, v)
  BY <1>3, <1>15, MaybeCompleteTransitionGoes DEF Steady, Keeps
<1>17. Goes(told, v)
  BY <1>10, <1>15, <1>16, GoesAfterSteady
<1> QED
  BY <1>12, <1>17 DEF v

LEMMA HandOverClaims ==
  ASSUME NEW w, Sane(w), Shut(w), NEW op \in OpIds, NEW o, NEW target \in OwnerOrNone,
         NEW mode, NEW write \in Writes
  PROVE  \E u : Claims(w, u, op, o, target)
                /\ Goes(u, HandOver(w, op, o, target, mode, write))
<1> DEFINE due == [w EXCEPT !.trans = [op |-> op, target |-> target]]
           waiting == CancelQueuedByOwner(due, o)
           ended == IF w.active # NoRequest /\ w.active.owner = o /\ mode = "CancelInFlight"
                      THEN CompleteActiveCancelled(waiting) ELSE waiting
           v == HandOver(w, op, o, target, mode, write)
<1>1. w \in Worker
  BY DEF Sane
<1>2. v = MaybeCompleteTransition(ended, write)
  BY DEF HandOver
<1>3. [op |-> op, target |-> target] \in Transition
  BY DEF Transition
<1>4. /\ due \in Worker /\ due.queue = w.queue /\ due.active = w.active
      /\ due.outbox = w.outbox /\ due.state = w.state /\ due.port = w.port
      /\ due.closing = w.closing /\ due.resync = w.resync /\ due.line = w.line
      /\ due.quiet = w.quiet /\ due.owner = w.owner /\ due.stopped = w.stopped
      /\ due.trans = [op |-> op, target |-> target]
  BY <1>1, <1>3 DEF Worker
<1> HIDE DEF due
<1>5. Keeps(w, due)
  BY <1>4, RestingKeeps DEF Sane, Clear
<1>6. /\ Steady(due, waiting) /\ waiting.active = w.active
      /\ \A i \in DOMAIN waiting.queue : waiting.queue[i].owner # o
  <2> DEFINE K == IndicesOfOwner(due.queue, o)
  <2>1. K \in SUBSET DOMAIN due.queue
    BY DEF IndicesOfOwner
  <2>2. waiting = CancelQueued(due, K)
    BY DEF CancelQueuedByOwner
  <2>3. \A j \in DOMAIN due.queue \ K : due.queue[j].owner # o
    BY DEF IndicesOfOwner
  <2> HIDE DEF K, waiting
  <2>4. Sane(due)
    BY <1>5 DEF Keeps
  <2>5. /\ Steady(due, waiting) /\ waiting.active = due.active
        /\ \A i \in DOMAIN waiting.queue :
             \E j \in DOMAIN due.queue \ K : waiting.queue[i] = due.queue[j]
    BY <2>1, <2>2, <2>4, CancelQueuedSteady
  <2> QED
    BY <2>3, <2>5, <1>4
<1> HIDE DEF waiting
<1>7. Claims(w, waiting, op, o, target)
  <2>1. Keeps(w, waiting)
    BY <1>5, <1>6, KeepsTransitive DEF Steady
  <2>2. Stays(w, waiting) /\ waiting.trans = [op |-> op, target |-> target]
    BY <1>4, <1>6 DEF Steady, Stays
  <2>3. Stems(w, waiting) /\ Mute(w, waiting)
    BY <1>4, <1>6 DEF Steady, Stems, Mute
  <2> QED
    BY <1>6, <2>1, <2>2, <2>3 DEF Claims
<1>8. Sane(waiting) /\ Shut(waiting)
  BY <1>7 DEF Claims, Keeps
<1>9. Steady(waiting, ended)
  <2>1. CASE w.active # NoRequest /\ w.active.owner = o /\ mode = "CancelInFlight"
    <3>1. Steady(waiting, CompleteActiveCancelled(waiting))
      BY <1>6, <1>8, <2>1, EndActiveSteady DEF CompleteActiveCancelled
    <3> QED
      BY <2>1, <3>1
  <2>2. CASE ~(w.active # NoRequest /\ w.active.owner = o /\ mode = "CancelInFlight")
    BY <2>2, <1>8, SteadyItself
  <2> QED
    BY <2>1, <2>2
<1> HIDE DEF ended, v
<1>10. Goes(ended, v)
  BY <1>2, <1>8, <1>9, MaybeCompleteTransitionGoes DEF Steady, Keeps
<1>11. Goes(waiting, v)
  BY <1>8, <1>9, <1>10, GoesAfterSteady
<1> QED
  BY <1>7, <1>11 DEF v

LEMMA WorkerAcquireGrants ==
  ASSUME NEW w, Sane(w), NEW op \in OpIds, NEW o \in Owners, w.owner \in {NoOwner, o},
         NEW mode, NEW write \in Writes
  PROVE  Grants(w, WorkerAcquire(w, op, o, mode, write), op, o)
<1> DEFINE rest == [w EXCEPT !.owner = o]
           s == OwnershipSignal(op, o, TRUE)
           v == WorkerAcquire(w, op, o, mode, write)
<1>1. w \in Worker /\ o \in OwnerOrNone
  BY DEF Sane, OwnerOrNone
<1>2. s \in Signal /\ ~Tells(s) /\ ~IsUp(s) /\ ~IsDown(s)
  BY <1>1, PlainSignals
<1>3. v = Emit(rest, <<s>>)
  BY DEF WorkerAcquire
<1>4. /\ rest \in Worker /\ rest.queue = w.queue /\ rest.active = w.active
      /\ rest.outbox = w.outbox /\ rest.state = w.state /\ rest.port = w.port
      /\ rest.closing = w.closing /\ rest.resync = w.resync /\ rest.line = w.line
      /\ rest.quiet = w.quiet /\ rest.owner = o /\ rest.trans = w.trans
      /\ rest.stopped = w.stopped
  BY <1>1 DEF Worker
<1>5. s = OwnershipSignal(op, o, TRUE)
  OBVIOUS
<1> HIDE DEF rest, s, v
<1>6. Says(rest, v) /\ v.outbox = w.outbox \o <<s>>
  BY <1>2, <1>3, <1>4, SignalSequences, EmitSays, EmitOutbox
<1>7. Keeps(w, v)
  BY <1>2, <1>4, <1>6, SaysKeeps, AnnouncingKeeps
<1>8. /\ v \in Worker /\ v.owner = o /\ v.state = w.state /\ v.port = w.port
      /\ v.closing = w.closing /\ v.stopped = w.stopped /\ v.trans = w.trans
      /\ v.queue = w.queue /\ v.active = w.active
  BY <1>4, <1>6, SaysKeeps
<1>9. Utters(w, v, s)
  BY <1>1, <1>2, <1>6, <1>8, UttersAdds
<1>10. Grants(w, v, op, o)
  BY <1>5, <1>7, <1>8, <1>9 DEF Grants
<1> QED
  BY <1>10 DEF v

LEMMA WorkerCancelSteady ==
  ASSUME NEW w, Sane(w), NEW id \in Ids
  PROVE  Steady(w, WorkerCancel(w, id))
<1> DEFINE K == IndicesOfId(w.queue, id)
<1>1. w \in Worker
  BY DEF Sane
<1>2. CASE K # {}
  <2>1. K \in SUBSET DOMAIN w.queue
    BY DEF IndicesOfId
  <2>2. WorkerCancel(w, id) = CancelQueued(w, K)
    BY <1>2 DEF WorkerCancel
  <2> HIDE DEF K
  <2> QED
    BY <2>1, <2>2, CancelQueuedSteady
<1>3. CASE K = {} /\ w.active.id = id
  <2>1. w.active # NoRequest
    BY <1>3, NoRequestIsNone
  <2>2. WorkerCancel(w, id) = EndActive(w, "Cancelled")
    BY <1>3 DEF WorkerCancel, CompleteActiveCancelled
  <2> QED
    BY <2>1, <2>2, EndActiveSteady
<1>4. CASE K = {} /\ w.active.id # id
  <2>1. WorkerCancel(w, id) = w
    BY <1>4 DEF WorkerCancel
  <2> QED
    BY <2>1, SteadyItself
<1> QED
  BY <1>2, <1>3, <1>4

LEMMA WorkerEnqueueAdmits ==
  ASSUME NEW w, Good(w), NEW req \in Request, NEW write \in Writes,
         \A id \in Pending(w) : id < req.id, req.id \notin Told(w.outbox)
  PROVE  Admits(w, WorkerEnqueue(w, req, write), req)
<1> DEFINE v == WorkerEnqueue(w, req, write)
<1>1. w \in Worker /\ Sane(w) /\ w.queue \in Seq(Request)
  BY OutboxTypes DEF Good, Sane
<1>2. Receives(w, v, req.id)
  BY WorkerEnqueueReceives
<1>3. CASE w.state # "Connected" \/ w.trans # NoTransition \/ w.closing # 0
  <2> DEFINE q == <<req>>
  <2>1. v = Finalize(w, q, "Failed", Noise)
    BY <1>3 DEF WorkerEnqueue
  <2>2. q \in Seq(Request)
    BY WaitingOne
  <2> HIDE DEF q, v
  <2>3. "Failed" \in TerminalState /\ Noise \in Ids \cup {Noise}
    BY DEF TerminalState
  <2>4. v.outbox = w.outbox \o Results(q, "Failed", Noise)
    BY <2>1, <1>1, FinalizeOutbox
  <2>5. Says(w, v)
    BY <2>1, <2>2, <2>3, <1>1, FinalizeSays
  <2>6. /\ v \in Worker /\ v.queue = w.queue /\ v.active = w.active /\ Stays(w, v)
        /\ v.trans = w.trans
    BY <2>5, <1>1, SaysKeeps DEF Stays
  <2>7. Mute(w, v)
    BY <1>1, <2>2, <2>3, <2>4, MuteAdds, ResultsAreTold
  <2>8. Stems(w, v)
    BY <2>6 DEF Stems
  <2>9. Admits(w, v, req)
    BY <1>2, <2>6, <2>7, <2>8 DEF Admits, v
  <2> QED
    BY <2>9 DEF v
<1>4. CASE ~(w.state # "Connected" \/ w.trans # NoTransition \/ w.closing # 0)
  <2> DEFINE longer == [w EXCEPT !.queue = Append(@, req)]
  <2>1. v = StartNextWhenSilent(longer, write)
    BY <1>4 DEF WorkerEnqueue
  <2>2. /\ Append(w.queue, req) \in Seq(Request)
        /\ Waiting(Append(w.queue, req)) = Waiting(w.queue) \cup {req.id}
        /\ Ascending(w.queue) /\ (\A i \in Waiting(w.queue) : i < req.id)
             => Ascending(Append(w.queue, req))
        /\ \A i \in DOMAIN Append(w.queue, req) :
             Append(w.queue, req)[i] = req
             \/ (i \in DOMAIN w.queue /\ Append(w.queue, req)[i] = w.queue[i])
    BY <1>1, WaitingAppend, AppendIndices
  <2>3. /\ longer \in Worker /\ longer.queue = Append(w.queue, req)
        /\ longer.active = w.active /\ longer.outbox = w.outbox
        /\ Stays(w, longer) /\ longer.trans = w.trans /\ longer.resync = w.resync
        /\ longer.line = w.line /\ longer.quiet = w.quiet
    BY <2>2, <1>1 DEF Worker, Stays
  <2> HIDE DEF longer, v
  <2>4. Tidy(longer)
    <3>1. /\ req.id \in Ids /\ Waiting(w.queue) \subseteq Pending(w)
          /\ w.active.id < req.id /\ w.active.id # req.id
      <4>1. req.id \in Ids /\ 0 < req.id
        BY DEF Request, Ids
      <4>2. Waiting(w.queue) \subseteq Pending(w)
        BY DEF Pending
      <4>3. w.active.id < req.id
        <5>1. CASE w.active = NoRequest
          BY <1>1, <5>1, <4>1, WorkerIds
        <5>2. CASE w.active # NoRequest
          BY <5>2, <1>1, WorkerIds DEF Pending
        <5> QED
          BY <5>1, <5>2
      <4>4. \A i \in Ids : ~(i < i)
        BY DEF Ids
      <4> QED
        BY <4>1, <4>2, <4>3, <4>4
    <3> QED
      BY <1>1, <2>2, <2>3, <3>1 DEF Sane, Tidy
  <2>5. Sane(longer)
    BY <2>3, <2>4, <1>1 DEF Sane, Clear, Stays
  <2>6. Steady(longer, v)
    BY <2>1, <2>5, StartNextWhenSilentSteady
  <2>7. Stays(w, v) /\ v.trans = w.trans
    BY <2>3, <2>6 DEF Steady, Stays
  <2>8. Mute(w, v)
    BY <2>3, <2>6 DEF Steady, Mute
  <2>9. \A j \in DOMAIN longer.queue :
          longer.queue[j] = req \/ \E k \in DOMAIN w.queue : longer.queue[j] = w.queue[k]
    BY <2>2, <2>3
  <2>10. /\ v.active \in {NoRequest, w.active} \/ \E j \in DOMAIN longer.queue : v.active = longer.queue[j]
         /\ \A i \in DOMAIN v.queue : \E j \in DOMAIN longer.queue : v.queue[i] = longer.queue[j]
    BY <2>3, <2>6 DEF Steady, Stems
  <2>11. v.active \in {NoRequest, w.active, req} \/ \E j \in DOMAIN w.queue : v.active = w.queue[j]
    BY <2>9, <2>10
  <2>12. \A i \in DOMAIN v.queue :
           v.queue[i] = req \/ \E j \in DOMAIN w.queue : v.queue[i] = w.queue[j]
    BY <2>9, <2>10
  <2>13. Admits(w, v, req)
    BY <1>2, <1>4, <2>7, <2>8, <2>11, <2>12 DEF Admits, v
  <2> QED
    BY <2>13 DEF v
<1> QED
  BY <1>3, <1>4

LEMMA WorkerShutdownStops ==
  ASSUME NEW w, Good(w)
  PROVE  LET v == WorkerShutdown(w) IN v.stopped /\ Off(v) /\ v.outbox = w.outbox
<1> DEFINE v == WorkerShutdown(w)
<1>1. Drops(w, v)
  BY WorkerShutdownDrops
<1>2. w \in Worker
  BY DEF Good, Sane
<1>3. v.stopped /\ ~v.port /\ ~v.timer
  BY <1>2 DEF WorkerShutdown, Worker
<1> HIDE DEF v
<1>4. v.stopped /\ Off(v) /\ v.outbox = w.outbox
  BY <1>1, <1>3 DEF Drops, Off
<1> QED
  BY <1>4 DEF v

LEMMA OneAfterAnother ==
  ASSUME NEW A \in Seq(Signal), NEW s \in Signal, NEW t \in Signal
  PROVE  (A \o <<s>>) \o <<t>> = A \o <<s, t>>
<1> DEFINE L == (A \o <<s>>) \o <<t>>
           R == A \o <<s, t>>
<1>1. L \in Seq(Signal) /\ R \in Seq(Signal)
  OBVIOUS
<1>2. Len(L) = Len(A) + 2 /\ Len(R) = Len(A) + 2
  OBVIOUS
<1>3. \A i \in 1..(Len(A) + 2) : L[i] = R[i]
  OBVIOUS
<1> HIDE DEF L, R
<1>4. L = R
  BY <1>1, <1>2, <1>3
<1> QED
  BY <1>4 DEF L, R

LEMMA OnSerialErrorFalls ==
  ASSUME CInv, OnSerialError
  PROVE  Falls(worker, worker')
<1> DEFINE w == worker
           down == [w EXCEPT !.state = "Faulted"]
           ended == IF down.active # NoRequest THEN CompleteActiveError(down) ELSE down
           empty == [ended EXCEPT !.queue = <<>>]
           flushed == Finalize(empty, ended.queue, "Failed", Noise)
           free == [flushed EXCEPT !.trans = NoTransition]
           due == OwnershipSignal(flushed.trans.op, NoOwner, FALSE)
           settled == IF flushed.trans = NoTransition THEN flushed ELSE Emit(free, <<due>>)
           closed == [settled EXCEPT !.port = FALSE, !.owner = NoOwner]
           s == ConnectionSignal("Faulted")
           v == worker'
<1>1. w \in Worker /\ Tidy(w) /\ (~LateAnswers => Clear(w)) /\ Rises(w, v)
  BY CInvTypes, OnSerialErrorRises DEF Sane
<1>2. v = Emit(closed, <<s>>)
  BY DEF OnSerialError
<1>3. "Faulted" \in ConnectionState /\ "Failed" \in TerminalState
      /\ Noise \in Ids \cup {Noise} /\ "Failed" # "Succeeded"
  BY DEF ConnectionState, TerminalState
<1>4. /\ down \in Worker /\ down.queue = w.queue /\ down.active = w.active
      /\ down.outbox = w.outbox /\ down.state = "Faulted" /\ down.trans = w.trans
      /\ down.port = w.port /\ down.line = w.line /\ down.quiet = w.quiet
      /\ down.resync = w.resync /\ down.stopped = w.stopped
  BY <1>1, <1>3 DEF Worker
<1> HIDE DEF down
<1>5. /\ Tidy(down) /\ Carries(w, down) /\ Sane(down)
      /\ Mute(w, down) /\ Extends(w, down)
  <2>1. Tidy(down) /\ Carries(w, down)
    BY <1>1, <1>4, SameWorkSilent
  <2>2. Extends(w, down)
    BY <1>1, <1>4, SilentExtends
  <2>3. Mute(w, down)
    BY <1>1, <1>4, MuteSilent
  <2> QED
    BY <1>1, <1>4, <2>1, <2>2, <2>3 DEF Sane, Clear
<1>6. /\ ended \in Worker /\ Tidy(ended) /\ Carries(w, ended) /\ Extends(w, ended)
      /\ Mute(w, ended) /\ ended.active = NoRequest /\ ended.trans = w.trans
      /\ ended.stopped = w.stopped /\ ended.state = "Faulted"
  <2>1. CASE down.active # NoRequest
    <3>1. ended = EndActive(down, "Failed")
      BY <2>1 DEF CompleteActiveError
    <3> HIDE DEF ended
    <3>2. Keeps(down, ended) /\ Ended(down, ended) /\ Steady(down, ended)
      BY <1>5, <2>1, <3>1, EndActiveKeeps, EndActiveSteady
    <3>3. /\ ended \in Worker /\ ended.active = NoRequest /\ ended.trans = w.trans
          /\ ended.stopped = w.stopped /\ Tidy(ended) /\ Carries(down, ended)
          /\ ended.state = "Faulted"
          /\ Extends(down, ended) /\ Mute(down, ended)
      BY <1>4, <3>2 DEF Ended, Keeps, Sane, Descends, Steady
    <3>4. Mute(w, ended) /\ Extends(w, ended) /\ Carries(w, ended)
      BY <1>1, <1>4, <1>5, <3>3, CarriesTransitive, ExtendsTransitive, MuteTransitive
    <3> QED
      BY <3>3, <3>4
  <2>2. CASE down.active = NoRequest
    BY <1>4, <1>5, <2>2
  <2> QED
    BY <2>1, <2>2
<1> HIDE DEF ended
<1>7. /\ flushed \in Worker /\ Carries(w, flushed) /\ Extends(w, flushed)
      /\ Mute(w, flushed) /\ Idle(flushed) /\ flushed.trans = w.trans
      /\ flushed.stopped = w.stopped /\ flushed.state = "Faulted"
  <2>1. ended.queue \in Seq(Request) /\ <<>> \in Seq(Request)
    BY <1>6, OutboxTypes
  <2>2. /\ empty \in Worker /\ empty.queue = <<>> /\ empty.active = NoRequest
        /\ empty.outbox = ended.outbox /\ empty.trans = w.trans /\ empty.stopped = w.stopped
        /\ empty.state = "Faulted"
    BY <1>6, <2>1 DEF Worker
  <2> DEFINE q == ended.queue
  <2> HIDE DEF empty, q
  <2>3. flushed = Finalize(empty, q, "Failed", Noise)
    BY DEF q
  <2>4. q \in Seq(Request) /\ Ascending(q) /\ Waiting(q) = Waiting(ended.queue)
    BY <1>6, <2>1 DEF q, Tidy
  <2> HIDE DEF flushed
  <2>5. Says(empty, flushed) /\ flushed.outbox = ended.outbox \o Results(q, "Failed", Noise)
    BY <1>3, <2>2, <2>3, <2>4, FinalizeSays, FinalizeOutbox
  <2>6. /\ flushed \in Worker /\ flushed.queue = <<>> /\ flushed.active = NoRequest
        /\ flushed.trans = w.trans /\ flushed.stopped = w.stopped
        /\ flushed.state = "Faulted"
    BY <2>2, <2>5, SaysKeeps
  <2>7. Ascending(flushed.queue) /\ Waiting(flushed.queue) = {}
    <3>1. Ascending(<<>>) /\ Waiting(<<>>) = {}
      BY DEF Ascending, Waiting
    <3> QED
      BY <2>6, <3>1
  <2>8. Carries(ended, flushed) /\ Extends(ended, flushed)
    BY <1>3, <1>6, <2>1, <2>4, <2>5, <2>6, <2>7, QueueHandedOn
  <2>9. Mute(ended, flushed)
    BY <1>3, <1>6, <2>4, <2>5, MuteAdds, ResultsAreTold
  <2>10. Carries(w, flushed) /\ Extends(w, flushed) /\ Mute(w, flushed)
    BY <1>1, <1>6, <2>6, <2>8, <2>9, CarriesTransitive, ExtendsTransitive, MuteTransitive
  <2> QED
    BY <2>6, <2>10 DEF Idle
<1> HIDE DEF empty, flushed
<1>8. s \in Signal
  BY <1>3, SignalTypes
<1>9. s = ConnectionSignal("Faulted")
  OBVIOUS
<1> HIDE DEF s
<1>10. ASSUME NEW x \in Worker, x.trans = NoTransition, x.stopped = w.stopped,
              x.state = "Faulted",
              closed = [x EXCEPT !.port = FALSE, !.owner = NoOwner]
       PROVE  /\ v.outbox = x.outbox \o <<s>> /\ v \in Worker
              /\ v.trans = NoTransition /\ v.stopped = w.stopped
              /\ v.owner = NoOwner /\ ~v.port /\ v.state = "Faulted"
  <2>1. /\ closed \in Worker /\ closed.outbox = x.outbox /\ closed.trans = NoTransition
        /\ closed.stopped = w.stopped /\ closed.owner = NoOwner /\ ~closed.port
        /\ closed.state = "Faulted"
    BY <1>10 DEF Worker, OwnerOrNone
  <2> HIDE DEF closed
  <2>2. Says(closed, v) /\ v.outbox = closed.outbox \o <<s>>
    BY <1>2, <1>8, <2>1, EmitSays, EmitOutbox, SignalSequences
  <2> QED
    BY <2>1, <2>2, SaysKeeps
<1>12. CASE w.trans = NoTransition
  <2>1. closed = [flushed EXCEPT !.port = FALSE, !.owner = NoOwner]
    BY <1>7, <1>12
  <2> HIDE DEF closed
  <2>2. /\ v.outbox = flushed.outbox \o <<s>> /\ v \in Worker
        /\ v.trans = NoTransition /\ v.stopped = w.stopped
        /\ v.owner = NoOwner /\ ~v.port /\ v.state = "Faulted"
    BY <1>7, <1>10, <1>12, <2>1
  <2>3. Utters(flushed, v, s)
    BY <1>7, <1>8, <2>2, UttersAdds
  <2> QED
    BY <1>1, <1>7, <1>9, <1>12, <2>2, <2>3 DEF Falls
<1>13. CASE w.trans # NoTransition
  <2>1. /\ free \in Worker /\ free.outbox = flushed.outbox /\ free.trans = NoTransition
        /\ free.stopped = w.stopped /\ free.state = "Faulted"
    BY <1>7 DEF Worker
  <2>2. flushed.trans.op \in OpIds /\ NoOwner \in OwnerOrNone /\ FALSE \in BOOLEAN
    BY <1>7, <1>13 DEF Worker, Transition, OwnerOrNone
  <2>3. due \in Signal /\ due = OwnershipSignal(w.trans.op, NoOwner, FALSE)
    BY <1>7, <2>2, PlainSignals
  <2> HIDE DEF free, due
  <2>4. settled = Emit(free, <<due>>)
    BY <1>7, <1>13
  <2>5. closed = [settled EXCEPT !.port = FALSE, !.owner = NoOwner]
    OBVIOUS
  <2> HIDE DEF settled, closed
  <2>6. Says(free, settled) /\ settled.outbox = flushed.outbox \o <<due>>
    BY <2>1, <2>3, <2>4, EmitSays, EmitOutbox, SignalSequences
  <2>7. settled \in Worker /\ settled.trans = NoTransition /\ settled.stopped = w.stopped
        /\ settled.state = "Faulted"
    BY <2>1, <2>6, SaysKeeps
  <2>8. /\ v.outbox = settled.outbox \o <<s>> /\ v \in Worker
        /\ v.trans = NoTransition /\ v.stopped = w.stopped
        /\ v.owner = NoOwner /\ ~v.port /\ v.state = "Faulted"
    BY <1>10, <2>5, <2>7
  <2>9. v.outbox = flushed.outbox \o <<due, s>>
    <3>1. flushed.outbox \in Seq(Signal)
      BY <1>7, OutboxTypes
    <3> QED
      BY <1>8, <2>3, <2>6, <2>8, <3>1, OneAfterAnother
  <2>10. Pairs(flushed, v, due, s)
    BY <1>7, <1>8, <2>3, <2>8, <2>9, PairsAdds
  <2> QED
    BY <1>1, <1>7, <1>9, <1>13, <2>3, <2>8, <2>10 DEF Falls
<1> QED
  BY <1>12, <1>13

-----------------------------------------------------------------------------
(***************************************************************************)
(* Every step of the worker thread, as one of these.                       *)
(***************************************************************************)
Executes(w, v, c) ==
  CASE c.kind = "open"     -> \E ok \in BOOLEAN : Comes(w, v, c.op, ok)
    [] c.kind = "close"    -> Closes(w, v) /\ \E u : Starts(w, u, c.op) /\ Goes(u, v)
    [] c.kind = "acquire"  -> \/ Grants(w, v, c.op, c.owner)
                              \/ /\ w.owner \notin {NoOwner, c.owner}
                                 /\ \E u : Claims(w, u, c.op, w.owner, c.owner) /\ Goes(u, v)
    [] c.kind = "release"  -> \E u : Claims(w, u, c.op, c.owner, NoOwner) /\ Goes(u, v)
    [] c.kind = "enqueue"  -> Admits(w, v, c.req)
    [] c.kind = "cancel"   -> Steady(w, v)
    [] c.kind = "shutdown" -> v.stopped /\ Off(v) /\ v.outbox = w.outbox

LEMMA ProcessCommandExecutes ==
  ASSUME CInv, ProcessCommand
  PROVE  /\ Executes(worker, worker', Head(inbox))
         /\ Head(inbox) \in Command /\ inbox # <<>> /\ inbox' = Tail(inbox)
         /\ Opens(Head(inbox)) => Idle(worker) /\ worker.closing = 0
         /\ UNCHANGED facadeVars /\ faults' = faults
<1> DEFINE c == Head(inbox)
<1>1. UNCHANGED facadeVars /\ inbox # <<>> /\ inbox' = Tail(inbox) /\ faults' = faults
  BY DEF ProcessCommand
<1>2. PICK write \in Writes, outcome \in OpenOutcomes(worker) :
        worker' = Execute(c, worker, write, outcome)
  BY DEF ProcessCommand
<1>3. c \in Command /\ Good(worker) /\ Sane(worker) /\ Shut(worker) /\ inbox \in Seq(Command)
      /\ 1 \in DOMAIN inbox /\ c = inbox[1]
  BY <1>1, CInvTypes, TailIndices
<1>4. ASSUME Opens(c)
      PROVE  Idle(worker) /\ worker.closing = 0
  <2>1. HasOpen(inbox)
    BY <1>3, <1>4 DEF HasOpen
  <2>2. CASE Calm
    <3>1. CASE HasUp(worker.outbox)
      BY <2>2, <3>1 DEF Calm
    <3>2. CASE ~HasUp(worker.outbox)
      BY <2>2, <3>2 DEF Calm, Dead
    <3> QED
      BY <3>1, <3>2
  <2>3. CASE Engaged
    BY <2>1, <2>3 DEF Engaged
  <2> QED
    BY <2>2, <2>3 DEF CInv
<1>5. Executes(worker, worker', c)
  <2>1. CASE c.kind = "open"
    <3>1. c.op \in OpIds /\ Idle(worker)
      BY <1>3, <1>4, <2>1 DEF Command, Opens
    <3>2. worker' = WorkerOpen(worker, c.op, outcome)
      BY <1>2, <2>1 DEF Execute
    <3>3. \E ok \in BOOLEAN : Comes(worker, worker', c.op, ok)
      BY <1>3, <3>1, <3>2, WorkerOpenComes
    <3> QED
      BY <2>1, <3>3 DEF Executes
  <2>2. CASE c.kind = "close"
    <3>1. c.op \in OpIds
      BY <1>3, <2>2 DEF Command
    <3>2. worker' = WorkerClose(worker, c.op, c.mode, write)
      BY <1>2, <2>2 DEF Execute
    <3>3. \E u : Starts(worker, u, c.op) /\ Goes(u, worker')
      BY <1>3, <3>1, <3>2, WorkerCloseStarts
    <3>4. Closes(worker, worker')
      BY <1>3, <3>1, <3>2, WorkerCloseCloses
    <3> QED
      BY <2>2, <3>3, <3>4 DEF Executes
  <2>3. CASE c.kind = "acquire"
    <3>1. c.op \in OpIds /\ c.owner \in Owners /\ c.owner \in OwnerOrNone
      BY <1>3, <2>3 DEF Command, OwnerOrNone
    <3>2. worker' = WorkerAcquire(worker, c.op, c.owner, c.mode, write)
      BY <1>2, <2>3 DEF Execute
    <3>3. CASE worker.owner \in {NoOwner, c.owner}
      <4>1. Grants(worker, worker', c.op, c.owner)
        BY <1>3, <3>1, <3>2, <3>3, WorkerAcquireGrants
      <4> QED
        BY <2>3, <4>1 DEF Executes
    <3>4. CASE worker.owner \notin {NoOwner, c.owner}
      <4>1. worker' = HandOver(worker, c.op, worker.owner, c.owner, c.mode, write)
        BY <3>2, <3>4 DEF WorkerAcquire
      <4>2. \E u : Claims(worker, u, c.op, worker.owner, c.owner) /\ Goes(u, worker')
        BY <1>3, <3>1, <4>1, HandOverClaims
      <4> QED
        BY <2>3, <3>4, <4>2 DEF Executes
    <3> QED
      BY <3>3, <3>4
  <2>4. CASE c.kind = "release"
    <3>1. c.op \in OpIds /\ NoOwner \in OwnerOrNone
      BY <1>3, <2>4 DEF Command, OwnerOrNone
    <3>2. worker' = HandOver(worker, c.op, c.owner, NoOwner, c.mode, write)
      BY <1>2, <2>4 DEF Execute, WorkerRelease
    <3>3. \E u : Claims(worker, u, c.op, c.owner, NoOwner) /\ Goes(u, worker')
      BY <1>3, <3>1, <3>2, HandOverClaims
    <3> QED
      BY <2>4, <3>3 DEF Executes
  <2>5. CASE c.kind = "enqueue"
    <3>1. Enqueues(c) /\ c.req \in Request
      BY <1>3, <2>5, EnqueueTypes DEF Enqueues
    <3>2. worker' = WorkerEnqueue(worker, c.req, write)
      BY <1>2, <2>5 DEF Execute
    <3>3. c.req.id \in Posted(inbox)
      BY <1>3, <3>1 DEF Posted, Request
    <3>4. (\A id \in Pending(worker) : id < c.req.id) /\ c.req.id \notin Told(worker.outbox)
      BY <3>3 DEF CInv, InOrder
    <3>5. Admits(worker, worker', c.req)
      BY <1>3, <3>1, <3>2, <3>4, WorkerEnqueueAdmits
    <3> QED
      BY <2>5, <3>5 DEF Executes
  <2>6. CASE c.kind = "cancel"
    <3>1. c.id \in Ids
      BY <1>3, <2>6 DEF Command
    <3>2. worker' = WorkerCancel(worker, c.id)
      BY <1>2, <2>6 DEF Execute
    <3>3. Steady(worker, worker')
      BY <1>3, <3>1, <3>2, WorkerCancelSteady
    <3> QED
      BY <2>6, <3>3 DEF Executes
  <2>7. CASE c.kind = "shutdown"
    <3>1. worker' = WorkerShutdown(worker)
      BY <1>2, <2>7 DEF Execute
    <3>2. worker'.stopped /\ Off(worker') /\ worker'.outbox = worker.outbox
      BY <1>3, <3>1, WorkerShutdownStops
    <3> QED
      BY <2>7, <3>2 DEF Executes
  <2> QED
    BY <1>3, <2>1, <2>2, <2>3, <2>4, <2>5, <2>6, <2>7 DEF Command
<1> QED
  BY <1>1, <1>3, <1>4, <1>5

LEMMA LineFallsSilentSteady ==
  ASSUME CInv, LineFallsSilent
  PROVE  Steady(worker, worker')
<1> DEFINE v == [worker EXCEPT
                   !.quiet = TRUE,
                   !.line = IF LateAnswers \/ worker.active # NoRequest THEN @ ELSE {}]
<1>1. worker' = v
  BY DEF LineFallsSilent
<1>2. worker \in Worker /\ Sane(worker) /\ (~LateAnswers => Clear(worker))
  BY CInvTypes DEF Sane
<1>3. /\ v \in Worker /\ v.queue = worker.queue /\ v.active = worker.active
      /\ v.outbox = worker.outbox /\ Stays(worker, v) /\ v.trans = worker.trans
      /\ v.resync = worker.resync
      /\ v.line = IF LateAnswers \/ worker.active # NoRequest THEN worker.line ELSE {}
  BY <1>2 DEF Worker, Stays
<1> HIDE DEF v
<1>4. Keeps(worker, v)
  BY <1>2, <1>3, RestingKeeps DEF Clear, Stays
<1> QED
  BY <1>1, <1>2, <1>3, <1>4, RestingSteady

LEMMA OnResponseTimeoutSteady ==
  ASSUME CInv, OnResponseTimeout
  PROVE  Steady(worker, worker')
<1>1. Sane(worker) /\ worker.active # NoRequest /\ worker' = EndActive(worker, "Failed")
  BY CInvTypes DEF OnResponseTimeout, CompleteActiveError
<1> QED
  BY <1>1, EndActiveSteady

LEMMA OnReadyReadGoes ==
  ASSUME CInv, NEW src \in Ids \cup {Noise}, NEW verdict, OnReadyRead(src, verdict)
  PROVE  Goes(worker, worker')
<1> DEFINE heard == Received([worker EXCEPT !.line = @ \ {src}])
           w == worker
<1>1. w \in Worker /\ Sane(w) /\ Shut(w) /\ (~LateAnswers => Clear(w))
  BY CInvTypes DEF Sane
<1>2. /\ heard \in Worker /\ heard.queue = w.queue /\ heard.active = w.active
      /\ heard.outbox = w.outbox /\ Stays(w, heard) /\ heard.trans = w.trans
      /\ heard.resync = w.resync /\ heard.line = w.line \ {src} /\ ~heard.quiet
  BY <1>1 DEF Received, Worker, Stays
<1>3. Keeps(w, heard)
  <2> HIDE DEF heard
  <2>1. ~LateAnswers =>
          /\ heard.port /\ heard.active = NoRequest /\ (heard.quiet \/ ~heard.resync)
               => heard.line = {}
          /\ heard.port /\ heard.active # NoRequest => heard.line \subseteq {heard.active.id}
    BY <1>1, <1>2 DEF Clear, Stays
  <2> QED
    BY <1>1, <1>2, <2>1, RestingKeeps DEF Stays
<1>4. Steady(w, heard)
  <2> HIDE DEF heard
  <2> QED
    BY <1>1, <1>2, <1>3, RestingSteady
<1>5. CASE w.active = NoRequest \/ w.resync
  BY <1>4, <1>5 DEF OnReadyRead, Goes
<1>6. CASE ~(w.active = NoRequest \/ w.resync) /\ verdict = "more"
  <2> DEFINE v == [Received(w) EXCEPT !.partial = TRUE]
  <2>1. worker' = v
    BY <1>6 DEF OnReadyRead
  <2>2. /\ v \in Worker /\ v.queue = w.queue /\ v.active = w.active
        /\ v.outbox = w.outbox /\ Stays(w, v) /\ v.trans = w.trans
        /\ v.resync = w.resync /\ v.line = w.line /\ ~v.quiet
    BY <1>1 DEF Received, Worker, Stays
  <2> HIDE DEF v
  <2>3. Keeps(w, v)
    BY <1>1, <2>2, RestingKeeps DEF Clear, Stays
  <2>4. Steady(w, v)
    BY <1>1, <2>2, <2>3, RestingSteady
  <2> QED
    BY <2>1, <2>4 DEF Goes
<1>7. CASE ~(w.active = NoRequest \/ w.resync) /\ verdict = "success"
  <2>1. PICK write \in Writes : worker' = CompleteActiveSuccess(heard, src, write)
    BY <1>7 DEF OnReadyRead
  <2>2. src \in Ids /\ src \in w.line /\ w.port
    BY <1>7 DEF OnReadyRead
  <2> HIDE DEF heard
  <2>3. ~LateAnswers => src = heard.active.id /\ heard.line = {}
    <3>1. ~LateAnswers => w.line \subseteq {w.active.id}
      BY <1>1, <1>7, <2>2 DEF Clear
    <3> QED
      BY <3>1, <1>2, <2>2
  <2>4. Goes(heard, worker')
    BY <1>1, <1>2, <1>3, <1>7, <2>1, <2>2, <2>3, CompleteActiveSuccessGoes DEF Keeps
  <2> QED
    BY <1>1, <1>4, <2>4, GoesAfterSteady
<1>8. CASE ~(w.active = NoRequest \/ w.resync) /\ verdict = "error"
  <2>1. worker' = EndActive(heard, "Failed")
    BY <1>8 DEF OnReadyRead, CompleteActiveError
  <2> HIDE DEF heard
  <2>2. Steady(heard, EndActive(heard, "Failed"))
    BY <1>2, <1>3, <1>8, EndActiveSteady DEF Keeps
  <2>3. Steady(w, worker')
    BY <1>1, <1>4, <2>1, <2>2, SteadyTransitive
  <2> QED
    BY <2>3 DEF Goes
<1> QED
  BY <1>5, <1>6, <1>7, <1>8 DEF OnReadyRead

LEMMA OnSilenceElapsedGoes ==
  ASSUME CInv, OnSilenceElapsed
  PROVE  Goes(worker, worker')
<1> DEFINE w == [worker EXCEPT !.timer = FALSE]
           clear == [w EXCEPT !.resync = FALSE]
<1>1. worker \in Worker /\ Sane(worker) /\ Shut(worker) /\ (~LateAnswers => Clear(worker))
      /\ worker.quiet
  BY CInvTypes DEF Sane, OnSilenceElapsed
<1>2. ASSUME NEW u \in Worker, u.queue = worker.queue, u.active = worker.active,
             u.outbox = worker.outbox, Stays(worker, u), u.trans = worker.trans,
             u.resync => worker.resync, u.line = worker.line
      PROVE  Steady(worker, u) /\ Shut(u)
  <2>1. Keeps(worker, u)
    BY <1>1, <1>2, RestingKeeps DEF Clear, Stays
  <2> QED
    BY <1>1, <1>2, <2>1, RestingSteady DEF Keeps
<1>3. Steady(worker, w) /\ w.active = worker.active /\ w.resync = worker.resync
  <2>1. /\ w \in Worker /\ w.queue = worker.queue /\ w.active = worker.active
        /\ w.outbox = worker.outbox /\ Stays(worker, w) /\ w.trans = worker.trans
        /\ w.resync = worker.resync /\ w.line = worker.line
    BY <1>1 DEF Worker, Stays
  <2> HIDE DEF w
  <2> QED
    BY <2>1, <1>2
<1>4. Steady(worker, clear) /\ Shut(clear)
  <2>1. /\ clear \in Worker /\ clear.queue = worker.queue /\ clear.active = worker.active
        /\ clear.outbox = worker.outbox /\ Stays(worker, clear)
        /\ clear.trans = worker.trans /\ ~clear.resync /\ clear.line = worker.line
    BY <1>1 DEF Worker, Stays
  <2> HIDE DEF clear
  <2> QED
    BY <2>1, <1>2
<1>5. CASE w.active # NoRequest /\ ~w.resync
  <2>1. worker' \in {w, EndActive(w, "Failed")}
    BY <1>5 DEF OnSilenceElapsed, CompleteActiveError
  <2> HIDE DEF w
  <2>2. Steady(w, EndActive(w, "Failed"))
    BY <1>3, <1>5, EndActiveSteady DEF Keeps, Steady
  <2>3. Steady(worker, EndActive(w, "Failed"))
    BY <1>1, <1>3, <2>2, SteadyTransitive
  <2> QED
    BY <1>3, <2>1, <2>3 DEF Goes
<1>6. CASE ~(w.active # NoRequest /\ ~w.resync)
  <2>1. PICK write \in Writes :
          worker' = StartNextWhenSilent(MaybeCompleteTransition(clear, write), write)
    BY <1>6 DEF OnSilenceElapsed
  <2> HIDE DEF clear
  <2>2. Goes(clear, worker')
    BY <1>4, <2>1, CompleteThenStartGoes DEF Steady, Keeps
  <2> QED
    BY <1>1, <1>4, <2>2, GoesAfterSteady
<1> QED
  BY <1>5, <1>6

\* A step of the worker thread.
Works ==
  /\ UNCHANGED facadeVars
  /\ \/ inbox' = inbox /\ faults' = faults /\ Goes(worker, worker')
     \/ inbox' = inbox /\ faults' = faults + 1 /\ Falls(worker, worker')
     \/ /\ inbox # <<>> /\ Head(inbox) \in Command /\ inbox' = Tail(inbox)
        /\ faults' = faults
        /\ Opens(Head(inbox)) => Idle(worker) /\ worker.closing = 0
        /\ Executes(worker, worker', Head(inbox))

LEMMA WorkerEventsWork ==
  ASSUME CInv, WorkerEvents
  PROVE  Works
<1>1. CASE ProcessCommand
  BY <1>1, ProcessCommandExecutes DEF Works
<1>2. CASE \E src \in Ids \cup {Noise}, verdict \in Verdicts : OnReadyRead(src, verdict)
  <2>1. PICK src \in Ids \cup {Noise}, verdict \in Verdicts : OnReadyRead(src, verdict)
    BY <1>2
  <2>2. UNCHANGED facadeVars /\ inbox' = inbox /\ faults' = faults
    BY <2>1 DEF OnReadyRead
  <2> QED
    BY <2>1, <2>2, OnReadyReadGoes DEF Works
<1>3. CASE OnResponseTimeout
  <2>1. UNCHANGED facadeVars /\ inbox' = inbox /\ faults' = faults
    BY <1>3 DEF OnResponseTimeout
  <2> QED
    BY <1>3, <2>1, OnResponseTimeoutSteady DEF Works, Goes
<1>4. CASE LineFallsSilent
  <2>1. UNCHANGED facadeVars /\ inbox' = inbox /\ faults' = faults
    BY <1>4 DEF LineFallsSilent
  <2> QED
    BY <1>4, <2>1, LineFallsSilentSteady DEF Works, Goes
<1>5. CASE OnSilenceElapsed
  <2>1. UNCHANGED facadeVars /\ inbox' = inbox /\ faults' = faults
    BY <1>5 DEF OnSilenceElapsed
  <2> QED
    BY <1>5, <2>1, OnSilenceElapsedGoes DEF Works
<1>6. CASE OnSerialError
  <2>1. UNCHANGED facadeVars /\ inbox' = inbox /\ faults' = faults + 1
    BY <1>6 DEF OnSerialError
  <2> QED
    BY <1>6, <2>1, OnSerialErrorFalls DEF Works
<1> QED
  BY <1>1, <1>2, <1>3, <1>4, <1>5, <1>6 DEF WorkerEvents

-----------------------------------------------------------------------------
(***************************************************************************)
(* What is under way between the threads.                                  *)
(***************************************************************************)
IsTurn(s) == s.kind = "connection"
IsClosing(s) == s.kind = "connection" /\ s.state = "Closing"
IsGrant(s) == s.kind = "ownership" /\ s.ok
IsClosed(s) == s.kind = "control" /\ s.control = "Close"

\* The state of the connection an answer is about.
About(s) == IF s.control = "Close" THEN "Disconnected" ELSE IF s.ok THEN "Connected" ELSE "Faulted"

\* Where the facade may be when it takes an answer about x.
Since(x) == IF x = "Disconnected" THEN {"Disconnected", "Opening"} ELSE {x, "Closing"}

\* An answer about the connection follows the state it is about, and a close that
\* has been signalled ends.
Adjacent(w) ==
  LET out == w.outbox IN
  /\ \A i \in DOMAIN out : out[i].kind = "control" =>
       \/ i = 1 /\ connection \in Since(About(out[i]))
       \/ i > 1 /\ out[i - 1] = ConnectionSignal(About(out[i]))
  /\ \A i \in DOMAIN out : IsTurn(out[i]) /\ out[i].state \in {"Connected", "Disconnected"} =>
       /\ i + 1 \in DOMAIN out /\ out[i + 1].kind = "control" /\ About(out[i + 1]) = out[i].state
  /\ \A i \in DOMAIN out : IsTurn(out[i]) => out[i].state # "Opening"
  /\ \A i \in DOMAIN out : IsClosing(out[i]) =>
       w.closing # 0 \/ \E j \in DOMAIN out : j > i /\ IsClosed(out[j])

\* The open requests are those under way, until the worker stops.
Balanced(w, q) ==
  /\ \A id \in Ids : requests[id] # "None" <=> id \in Posted(q) \cup Held(w)
  /\ \A id \in Posted(q) :
       requests[id] = "Queued" /\ id \notin Told(w.outbox) /\ id \notin Pending(w)

\* A worker that has stopped holds nothing, and nobody listens.
Base ==
  /\ CInv
  /\ worker.stopped => ~alive /\ Off(worker)
  /\ ~worker.stopped => Balanced(worker, inbox) /\ Adjacent(worker)

\* v adds to the signals of w in couples.
Couples(w, v) ==
  LET out == v.outbox
      n == Len(w.outbox)
  IN
  /\ Extends(w, v)
  /\ v.closing = w.closing \/ v.closing # 0 \/ \E j \in DOMAIN out : j > n /\ IsClosed(out[j])
  /\ \A i \in DOMAIN out : i > n =>
       /\ out[i].kind = "control" => i > n + 1 /\ out[i - 1] = ConnectionSignal(About(out[i]))
       /\ IsTurn(out[i]) /\ out[i].state \in {"Connected", "Disconnected"} =>
            /\ i + 1 \in DOMAIN out /\ out[i + 1].kind = "control"
            /\ About(out[i + 1]) = out[i].state
       /\ IsTurn(out[i]) => out[i].state # "Opening"
       /\ IsClosing(out[i]) => v.closing # 0

LEMMA AdjacentCouples ==
  ASSUME NEW w \in Worker, NEW v \in Worker, Adjacent(w), Couples(w, v)
  PROVE  Adjacent(v)
<1> DEFINE n == Len(w.outbox)
           A == w.outbox
           out == v.outbox
<1>1. /\ DOMAIN A = 1..n /\ n \in Nat /\ DOMAIN out = 1..Len(out) /\ Len(out) \in Nat
      /\ n <= Len(out) /\ \A i \in 1..n : out[i] = A[i]
  BY OutboxTypes DEF Couples, Extends
<1>2. ASSUME NEW i \in DOMAIN out, out[i].kind = "control"
      PROVE  \/ i = 1 /\ connection \in Since(About(out[i]))
             \/ i > 1 /\ out[i - 1] = ConnectionSignal(About(out[i]))
  <2>1. CASE i <= n
    <3>1. i \in DOMAIN A /\ (i > 1 => i - 1 \in DOMAIN A)
      BY <1>1, <2>1
    <3> QED
      BY <1>1, <1>2, <3>1 DEF Adjacent
  <2>2. CASE i > n
    BY <1>1, <1>2, <2>2 DEF Couples
  <2> QED
    BY <1>1, <2>1, <2>2
<1>3. ASSUME NEW i \in DOMAIN out, IsTurn(out[i]), out[i].state \in {"Connected", "Disconnected"}
      PROVE  /\ i + 1 \in DOMAIN out /\ out[i + 1].kind = "control"
             /\ About(out[i + 1]) = out[i].state
  <2>1. CASE i <= n
    <3>1. i \in DOMAIN A /\ i + 1 \in DOMAIN A /\ A[i + 1].kind = "control"
          /\ About(A[i + 1]) = A[i].state
      BY <1>1, <1>3, <2>1 DEF Adjacent
    <3> QED
      BY <1>1, <3>1
  <2>2. CASE i > n
    BY <1>3, <2>2 DEF Couples
  <2> QED
    BY <1>1, <2>1, <2>2
<1>4. ASSUME NEW i \in DOMAIN out, IsTurn(out[i])
      PROVE  out[i].state # "Opening"
  <2>1. CASE i <= n
    <3>1. i \in DOMAIN A /\ out[i] = A[i]
      BY <1>1, <2>1
    <3> QED
      BY <1>4, <3>1 DEF Adjacent
  <2>2. CASE i > n
    BY <1>4, <2>2 DEF Couples
  <2> QED
    BY <1>1, <2>1, <2>2
<1>5. ASSUME NEW i \in DOMAIN out, IsClosing(out[i])
      PROVE  v.closing # 0 \/ \E j \in DOMAIN out : j > i /\ IsClosed(out[j])
  <2>1. CASE i <= n
    <3>1. w.closing # 0 \/ \E j \in DOMAIN A : j > i /\ IsClosed(A[j])
      BY <1>1, <1>5, <2>1 DEF Adjacent
    <3>2. CASE w.closing # 0
      BY <1>1, <2>1, <3>2 DEF Couples
    <3>3. CASE \E j \in DOMAIN A : j > i /\ IsClosed(A[j])
      BY <1>1, <3>3
    <3> QED
      BY <3>1, <3>2, <3>3
  <2>2. CASE i > n
    BY <1>5, <2>2 DEF Couples
  <2> QED
    BY <1>1, <2>1, <2>2
<1> QED
  BY <1>2, <1>3, <1>4, <1>5 DEF Adjacent

\* The kinds of signals.
LEMMA SignalKinds ==
  /\ \A s : ConnectionSignal(s).kind = "connection" /\ ConnectionSignal(s).state = s
  /\ \A op, c, ok : LET s == ControlSignal(op, c, ok)
                    IN s.kind = "control" /\ s.op = op /\ s.control = c /\ s.ok = ok
  /\ \A op, o, ok : LET s == OwnershipSignal(op, o, ok)
                    IN s.kind = "ownership" /\ s.op = op /\ s.owner = o /\ s.ok = ok
BY DEF ConnectionSignal, ControlSignal, OwnershipSignal

LEMMA UttersOnly ==
  ASSUME NEW w \in Worker, NEW v \in Worker, NEW s, Utters(w, v, s)
  PROVE  /\ \A i \in DOMAIN v.outbox : i > Len(w.outbox) =>
              i = Len(w.outbox) + 1 /\ v.outbox[i] = s
         /\ Len(w.outbox) + 1 \in DOMAIN v.outbox
BY OutboxTypes DEF Utters

LEMMA PairsOnly ==
  ASSUME NEW w \in Worker, NEW v \in Worker, NEW s, NEW t, Pairs(w, v, s, t)
  PROVE  /\ \A i \in DOMAIN v.outbox : i > Len(w.outbox) =>
              \/ i = Len(w.outbox) + 1 /\ v.outbox[i] = s
              \/ i = Len(w.outbox) + 2 /\ v.outbox[i] = t
         /\ Len(w.outbox) + 1 \in DOMAIN v.outbox
         /\ Len(w.outbox) + 2 \in DOMAIN v.outbox
BY OutboxTypes DEF Pairs

LEMMA CouplesMute ==
  ASSUME NEW w \in Worker, NEW v \in Worker, Extends(w, v), Mute(w, v), v.closing = w.closing
  PROVE  Couples(w, v)
BY DEF Couples, Mute, Tells, IsTurn, IsClosing

LEMMA CouplesOwnership ==
  ASSUME NEW w \in Worker, NEW v \in Worker, NEW op, NEW o, NEW ok,
         Utters(w, v, OwnershipSignal(op, o, ok)), v.closing = w.closing
  PROVE  Couples(w, v)
<1>1. \A i \in DOMAIN v.outbox : i > Len(w.outbox) => v.outbox[i].kind = "ownership"
  BY UttersOnly, SignalKinds
<1> QED
  BY <1>1 DEF Couples, Utters, IsTurn, IsClosing

LEMMA CouplesClosing ==
  ASSUME NEW w \in Worker, NEW v \in Worker, Utters(w, v, ConnectionSignal("Closing")),
         v.closing # 0
  PROVE  Couples(w, v)
<1>1. \A i \in DOMAIN v.outbox : i > Len(w.outbox) =>
        v.outbox[i].kind = "connection" /\ v.outbox[i].state = "Closing"
  BY UttersOnly, SignalKinds
<1> QED
  BY <1>1 DEF Couples, Utters, IsTurn

LEMMA CouplesPair ==
  ASSUME NEW w \in Worker, NEW v \in Worker, NEW s \in {"Connected", "Faulted", "Disconnected"},
         NEW op, NEW c \in {"Open", "Close"}, NEW ok \in BOOLEAN,
         Pairs(w, v, ConnectionSignal(s), ControlSignal(op, c, ok)),
         About(ControlSignal(op, c, ok)) = s,
         v.closing = w.closing \/ c = "Close"
  PROVE  Couples(w, v)
<1> DEFINE n == Len(w.outbox)
           out == v.outbox
<1>1. n \in Nat
  BY OutboxTypes
<1>2. \A i \in DOMAIN out : i > n =>
              \/ i = n + 1 /\ out[i] = ConnectionSignal(s)
              \/ i = n + 2 /\ out[i] = ControlSignal(op, c, ok)
  BY PairsOnly
<1>3. n + 1 \in DOMAIN out /\ n + 2 \in DOMAIN out /\ out[n + 1] = ConnectionSignal(s)
      /\ out[n + 2] = ControlSignal(op, c, ok)
  BY PairsOnly DEF Pairs
<1>4. out[n + 1].kind = "connection" /\ out[n + 1].state = s
      /\ out[n + 2].kind = "control" /\ out[n + 2].control = c
  BY <1>3, SignalKinds
<1>5. c = "Close" => IsClosed(out[n + 2])
  BY <1>4 DEF IsClosed
<1>6. ASSUME NEW i \in DOMAIN out, i > n
      PROVE  /\ out[i].kind = "control" => i > n + 1 /\ out[i - 1] = ConnectionSignal(About(out[i]))
             /\ IsTurn(out[i]) /\ out[i].state \in {"Connected", "Disconnected"} =>
                  /\ i + 1 \in DOMAIN out /\ out[i + 1].kind = "control"
                  /\ About(out[i + 1]) = out[i].state
             /\ IsTurn(out[i]) => out[i].state # "Opening"
             /\ IsClosing(out[i]) => v.closing # 0
  <2>1. CASE i = n + 1
    <3>1. (n + 1) + 1 = n + 2
      BY <1>1
    <3> QED
      BY <1>3, <1>4, <2>1, <3>1 DEF IsTurn, IsClosing
  <2>2. CASE i = n + 2
    <3>1. i - 1 = n + 1 /\ i > n + 1
      BY <1>1, <2>2
    <3> QED
      BY <1>3, <1>4, <2>2, <3>1 DEF IsTurn, IsClosing
  <2> QED
    BY <1>2, <1>6, <2>1, <2>2
<1>7. \/ v.closing = w.closing \/ v.closing # 0
      \/ \E j \in DOMAIN out : j > n /\ IsClosed(out[j])
  BY <1>1, <1>3, <1>5
<1> HIDE DEF n, out
<1> QED
  BY <1>6, <1>7 DEF Couples, Pairs, n, out

LEMMA CouplesFault ==
  ASSUME NEW w \in Worker, NEW v \in Worker, v.closing = w.closing,
         \/ Utters(w, v, ConnectionSignal("Faulted"))
         \/ \E op, o : Pairs(w, v, OwnershipSignal(op, o, FALSE), ConnectionSignal("Faulted"))
  PROVE  Couples(w, v)
<1>1. \A i \in DOMAIN v.outbox : i > Len(w.outbox) =>
        \/ v.outbox[i].kind = "connection" /\ v.outbox[i].state = "Faulted"
        \/ v.outbox[i].kind = "ownership"
  <2>1. CASE Utters(w, v, ConnectionSignal("Faulted"))
    BY <2>1, UttersOnly, SignalKinds
  <2>2. ASSUME NEW op, NEW o,
               Pairs(w, v, OwnershipSignal(op, o, FALSE), ConnectionSignal("Faulted"))
        PROVE  \A i \in DOMAIN v.outbox : i > Len(w.outbox) =>
                 \/ v.outbox[i].kind = "connection" /\ v.outbox[i].state = "Faulted"
                 \/ v.outbox[i].kind = "ownership"
    <3> DEFINE s == OwnershipSignal(op, o, FALSE)
               t == ConnectionSignal("Faulted")
    <3>1. s.kind = "ownership" /\ t.kind = "connection" /\ t.state = "Faulted"
          /\ Pairs(w, v, s, t)
      BY <2>2 DEF OwnershipSignal, ConnectionSignal
    <3> HIDE DEF s, t
    <3> QED
      BY <3>1, PairsOnly
  <2> QED
    BY <2>1, <2>2
<1>2. Extends(w, v)
  BY DEF Utters, Pairs
<1> QED
  BY <1>1, <1>2 DEF Couples, IsTurn, IsClosing

LEMMA GoesKeeps ==
  ASSUME NEW w, Sane(w), NEW v, Goes(w, v)
  PROVE  Keeps(w, v) /\ w \in Worker /\ v \in Worker
<1>1. CASE Steady(w, v)
  BY <1>1 DEF Steady, Keeps, Sane
<1>2. ASSUME NEW a, NEW b, Steady(w, a), Hands(a, b) \/ Ends(a, b), Steady(b, v)
      PROVE  Keeps(w, v)
  <2>1. Keeps(w, a) /\ Keeps(a, b) /\ Keeps(b, v)
    BY <1>2 DEF Steady, Hands, Ends
  <2>2. Keeps(w, b)
    BY <2>1, KeepsTransitive
  <2> QED
    BY <2>1, <2>2, KeepsTransitive
<1>3. Keeps(w, v)
  BY <1>1, <1>2 DEF Goes, Steady
<1> QED
  BY <1>3 DEF Keeps, Sane

LEMMA SteadyCouples ==
  ASSUME NEW w, Sane(w), NEW v, Steady(w, v)
  PROVE  w \in Worker /\ v \in Worker /\ Sane(v) /\ Couples(w, v)
<1>1. w \in Worker /\ v \in Worker /\ Sane(v) /\ Extends(w, v) /\ Mute(w, v)
      /\ v.closing = w.closing
  BY DEF Steady, Stays, Keeps, Sane, Descends
<1> QED
  BY <1>1, CouplesMute

LEMMA HandsCouples ==
  ASSUME NEW w, Sane(w), NEW v, Hands(w, v)
  PROVE  w \in Worker /\ v \in Worker /\ Sane(v) /\ Couples(w, v)
<1>1. w \in Worker /\ v \in Worker /\ Sane(v) /\ v.closing = w.closing
      /\ Utters(w, v, OwnershipSignal(w.trans.op, w.trans.target, TRUE))
  BY DEF Hands, Keeps, Sane
<1> QED
  BY <1>1, CouplesOwnership

LEMMA EndsCouples ==
  ASSUME NEW w, Sane(w), NEW v, Ends(w, v)
  PROVE  w \in Worker /\ v \in Worker /\ Sane(v) /\ Couples(w, v)
<1>1. w \in Worker /\ v \in Worker /\ Sane(v)
      /\ Pairs(w, v, ConnectionSignal("Disconnected"), ControlSignal(w.closing, "Close", TRUE))
  BY DEF Ends, Keeps, Sane
<1>2. About(ControlSignal(w.closing, "Close", TRUE)) = "Disconnected"
  BY DEF About, ControlSignal
<1> QED
  BY <1>1, <1>2, CouplesPair

LEMMA AdjacentGoes ==
  ASSUME NEW w, Sane(w), Adjacent(w), NEW v, Goes(w, v)
  PROVE  Adjacent(v)
<1>1. CASE Steady(w, v)
  BY <1>1, SteadyCouples, AdjacentCouples
<1>2. ASSUME NEW a, NEW b, Steady(w, a), Hands(a, b) \/ Ends(a, b), Steady(b, v)
      PROVE  Adjacent(v)
  <2>1. Adjacent(a) /\ Sane(a)
    BY <1>2, SteadyCouples, AdjacentCouples
  <2>2. Adjacent(b) /\ Sane(b)
    BY <1>2, <2>1, HandsCouples, EndsCouples, AdjacentCouples
  <2> QED
    BY <1>2, <2>2, SteadyCouples, AdjacentCouples
<1> QED
  BY <1>1, <1>2 DEF Goes

LEMMA AdjacentFalls ==
  ASSUME NEW w \in Worker, Adjacent(w), NEW v, Falls(w, v)
  PROVE  Adjacent(v)
<1>1. PICK u \in Worker :
        /\ Extends(w, u) /\ Mute(w, u)
        /\ IF w.trans = NoTransition
             THEN Utters(u, v, ConnectionSignal("Faulted"))
             ELSE Pairs(u, v, OwnershipSignal(w.trans.op, NoOwner, FALSE),
                              ConnectionSignal("Faulted"))
  BY DEF Falls
<1>2. v \in Worker /\ v.closing = w.closing
  BY DEF Falls, Rises, Good, Sane
<1> DEFINE x == [u EXCEPT !.closing = w.closing]
<1>3. x \in Worker /\ x.outbox = u.outbox /\ x.closing = w.closing
  BY DEF Worker
<1> HIDE DEF x
<1>4. Extends(w, x) /\ Mute(w, x)
  BY <1>1, <1>3 DEF Extends, Mute
<1>5. Adjacent(x)
  BY <1>3, <1>4, CouplesMute, AdjacentCouples
<1>6. \/ Utters(x, v, ConnectionSignal("Faulted"))
      \/ \E op, o : Pairs(x, v, OwnershipSignal(op, o, FALSE), ConnectionSignal("Faulted"))
  <2>1. CASE w.trans = NoTransition
    BY <1>1, <1>3, <2>1 DEF Utters, Extends
  <2>2. CASE w.trans # NoTransition
    <3>1. Pairs(x, v, OwnershipSignal(w.trans.op, NoOwner, FALSE), ConnectionSignal("Faulted"))
      BY <1>1, <1>3, <2>2 DEF Pairs, Extends
    <3> QED
      BY <3>1
  <2> QED
    BY <2>1, <2>2
<1> QED
  BY <1>2, <1>3, <1>5, <1>6, CouplesFault, AdjacentCouples

LEMMA AdjacentWorks ==
  ASSUME CInv, Adjacent(worker), Works, ~worker'.stopped
  PROVE  Adjacent(worker')
<1> DEFINE w == worker
           v == worker'
           c == Head(inbox)
<1>1. Sane(w) /\ w \in Worker
  BY CInvTypes DEF Sane
<1>2. CASE Goes(w, v)
  BY <1>1, <1>2, AdjacentGoes
<1>3. CASE Falls(w, v)
  BY <1>1, <1>3, AdjacentFalls
<1>4. CASE c \in Command /\ Executes(w, v, c)
  <2>1. CASE c.kind = "open"
    <3>1. PICK ok \in BOOLEAN : Comes(w, v, c.op, ok)
      BY <1>4, <2>1 DEF Executes
    <3> DEFINE s == IF ok THEN "Connected" ELSE "Faulted"
    <3>2. v \in Worker /\ v.closing = w.closing
          /\ Pairs(w, v, ConnectionSignal(s), ControlSignal(c.op, "Open", ok))
      BY <3>1 DEF Comes, Rises, Good, Sane
    <3>3. About(ControlSignal(c.op, "Open", ok)) = s
      BY SignalKinds DEF About
    <3>4. Couples(w, v)
      BY <1>1, <3>2, <3>3, CouplesPair
    <3> QED
      BY <1>1, <3>2, <3>4, AdjacentCouples
  <2>2. CASE c.kind = "close"
    <3>1. PICK u : Starts(w, u, c.op) /\ Goes(u, v)
      BY <1>4, <2>2 DEF Executes
    <3>2. u \in Worker /\ Sane(u) /\ u.closing # 0
          /\ Utters(w, u, ConnectionSignal("Closing"))
      <4>1. c.op \in OpIds
        BY <1>4, <2>2 DEF Command
      <4> QED
        BY <3>1, <4>1 DEF Starts, Sane, OpIds
    <3>3. Adjacent(u)
      BY <1>1, <3>2, CouplesClosing, AdjacentCouples
    <3> QED
      BY <3>1, <3>2, <3>3, AdjacentGoes
  <2>3. ASSUME NEW u, NEW op, NEW o, NEW target, Claims(w, u, op, o, target), Goes(u, v)
        PROVE  Adjacent(v)
    <3>1. u \in Worker /\ Sane(u) /\ Extends(w, u) /\ Mute(w, u) /\ u.closing = w.closing
      BY <2>3 DEF Claims, Keeps, Sane, Descends, Stays
    <3>2. Adjacent(u)
      BY <1>1, <3>1, CouplesMute, AdjacentCouples
    <3> QED
      BY <2>3, <3>1, <3>2, AdjacentGoes
  <2>4. CASE c.kind = "acquire"
    <3>1. CASE Grants(w, v, c.op, c.owner)
      <4>1. v \in Worker /\ v.closing = w.closing
            /\ Utters(w, v, OwnershipSignal(c.op, c.owner, TRUE))
        BY <3>1 DEF Grants, Keeps, Sane
      <4>2. Couples(w, v)
        BY <1>1, <4>1, CouplesOwnership
      <4> QED
        BY <1>1, <4>1, <4>2, AdjacentCouples
    <3>2. CASE \E u : Claims(w, u, c.op, w.owner, c.owner) /\ Goes(u, v)
      BY <2>3, <3>2
    <3> QED
      BY <1>4, <2>4, <3>1, <3>2 DEF Executes
  <2>5. CASE c.kind = "release"
    BY <1>4, <2>3, <2>5 DEF Executes
  <2>6. CASE c.kind = "enqueue"
    <3>1. v \in Worker /\ Extends(w, v) /\ Mute(w, v) /\ v.closing = w.closing
      BY <1>4, <2>6 DEF Executes, Admits, Receives, Stays, Good, Sane
    <3> QED
      BY <1>1, <3>1, CouplesMute, AdjacentCouples
  <2>7. CASE c.kind = "cancel"
    <3>1. Steady(w, v)
      BY <1>4, <2>7 DEF Executes
    <3> QED
      BY <1>1, <3>1, SteadyCouples, AdjacentCouples
  <2>8. CASE c.kind = "shutdown"
    BY <1>4, <2>8 DEF Executes
  <2> QED
    BY <1>4, <2>1, <2>2, <2>4, <2>5, <2>6, <2>7, <2>8 DEF Command
<1> QED
  BY <1>2, <1>3, <1>4 DEF Works

\* What a slot takes.
LEMMA TakeHead ==
  ASSUME CInv, NEW kind, Take(kind)
  PROVE  LET A == worker.outbox
             B == worker'.outbox
         IN /\ A \in Seq(Signal) /\ B \in Seq(Signal) /\ worker \in Worker /\ worker' \in Worker
            /\ 1 \in DOMAIN A /\ Head(A) = A[1] /\ A[1].kind = kind /\ A[1] \in Signal
            /\ \A i \in DOMAIN B : i \in Nat /\ i >= 1 /\ i + 1 \in DOMAIN A /\ B[i] = A[i + 1]
            /\ \A i \in DOMAIN A : i = 1 \/ (i > 1 /\ i - 1 \in DOMAIN B /\ B[i - 1] = A[i])
            /\ \A i \in DOMAIN A : i \in Nat /\ i >= 1
            /\ DOMAIN A = 1..Len(A) /\ Len(A) \in Nat /\ DOMAIN B = 1..Len(B)
            /\ Len(B) \in Nat /\ Len(A) = Len(B) + 1
<1>1. /\ worker.outbox \in Seq(Signal) /\ worker.outbox # <<>>
      /\ Head(worker.outbox).kind = kind /\ Head(worker.outbox) \in Signal
      /\ worker'.outbox = Tail(worker.outbox) /\ worker' \in Worker
  BY TakeKeeps
<1>2. worker \in Worker
  BY CInvTypes
<1>3. \A i \in DOMAIN worker.outbox : i \in Nat /\ i >= 1
  BY <1>1
<1>4. /\ DOMAIN worker.outbox = 1..Len(worker.outbox) /\ Len(worker.outbox) \in Nat
      /\ DOMAIN worker'.outbox = 1..Len(worker'.outbox) /\ Len(worker'.outbox) \in Nat
      /\ Len(worker.outbox) = Len(worker'.outbox) + 1
  BY <1>1
<1> QED
  BY <1>1, <1>2, <1>3, <1>4, TailIndices

LEMMA TakeStays ==
  ASSUME CInv, NEW kind, Take(kind)
  PROVE  /\ worker'.state = worker.state /\ worker'.port = worker.port
         /\ worker'.owner = worker.owner /\ worker'.queue = worker.queue
         /\ worker'.active = worker.active /\ worker'.trans = worker.trans
         /\ worker'.closing = worker.closing /\ worker'.stopped = worker.stopped
         /\ worker'.timer = worker.timer /\ worker'.resync = worker.resync
BY CInvTypes DEF Take, Worker

LEMMA AdjacentTaken ==
  ASSUME CInv, Adjacent(worker), NEW kind, Take(kind),
         connection' = IF kind = "connection" THEN worker.outbox[1].state ELSE connection
  PROVE  Adjacent(worker)'
<1> DEFINE A == worker.outbox
           B == worker'.outbox
<1>1. /\ 1 \in DOMAIN A /\ A[1].kind = kind
      /\ \A i \in DOMAIN B : i \in Nat /\ i >= 1 /\ i + 1 \in DOMAIN A /\ B[i] = A[i + 1]
      /\ \A i \in DOMAIN A : i = 1 \/ (i > 1 /\ i - 1 \in DOMAIN B /\ B[i - 1] = A[i])
      /\ \A i \in DOMAIN A : i \in Nat /\ i >= 1
      /\ worker'.closing = worker.closing
      /\ DOMAIN A = 1..Len(A) /\ Len(A) \in Nat
  BY TakeHead, TakeStays
<1>2. ASSUME NEW i \in DOMAIN B, B[i].kind = "control"
      PROVE  \/ i = 1 /\ connection' \in Since(About(B[i]))
             \/ i > 1 /\ B[i - 1] = ConnectionSignal(About(B[i]))
  <2>1. i + 1 \in DOMAIN A /\ B[i] = A[i + 1] /\ i + 1 > 1 /\ (i + 1) - 1 = i /\ i + 1 # 1
    BY <1>1
  <2>2. A[i] = ConnectionSignal(About(B[i]))
    BY <1>2, <2>1 DEF Adjacent
  <2>3. CASE i = 1
    <3>1. A[1].kind = "connection" /\ A[1].state = About(B[1])
      BY <2>2, <2>3, SignalKinds
    <3>2. connection' = About(B[1])
      BY <1>1, <3>1
    <3>3. About(B[1]) \in Since(About(B[1]))
      BY DEF Since
    <3> QED
      BY <2>3, <3>2, <3>3
  <2>4. CASE i > 1
    <3>1. i - 1 \in DOMAIN B /\ B[i - 1] = A[i]
      BY <1>1, <2>1, <2>4
    <3> QED
      BY <2>2, <2>4, <3>1
  <2> QED
    BY <1>1, <2>3, <2>4
<1>3. ASSUME NEW i \in DOMAIN B, IsTurn(B[i]), B[i].state \in {"Connected", "Disconnected"}
      PROVE  /\ i + 1 \in DOMAIN B /\ B[i + 1].kind = "control"
             /\ About(B[i + 1]) = B[i].state
  <2>1. i + 1 \in DOMAIN A /\ B[i] = A[i + 1] /\ i + 1 \in Nat
    BY <1>1
  <2>2. /\ (i + 1) + 1 \in DOMAIN A /\ A[(i + 1) + 1].kind = "control"
        /\ About(A[(i + 1) + 1]) = B[i].state
    BY <1>3, <2>1 DEF Adjacent
  <2>3. (i + 1) + 1 # 1 /\ ((i + 1) + 1) - 1 = i + 1
    BY <1>1
  <2>4. i + 1 \in DOMAIN B /\ B[i + 1] = A[(i + 1) + 1]
    BY <1>1, <2>2, <2>3
  <2> QED
    BY <2>2, <2>4
<1>4. ASSUME NEW i \in DOMAIN B, IsTurn(B[i])
      PROVE  B[i].state # "Opening"
  BY <1>1, <1>4 DEF Adjacent
<1>5. ASSUME NEW i \in DOMAIN B, IsClosing(B[i])
      PROVE  worker'.closing # 0 \/ \E j \in DOMAIN B : j > i /\ IsClosed(B[j])
  <2>1. i + 1 \in DOMAIN A /\ B[i] = A[i + 1]
    BY <1>1
  <2>2. worker.closing # 0 \/ \E j \in DOMAIN A : j > i + 1 /\ IsClosed(A[j])
    BY <1>5, <2>1 DEF Adjacent
  <2>3. ASSUME NEW j \in DOMAIN A, j > i + 1, IsClosed(A[j])
        PROVE  \E k \in DOMAIN B : k > i /\ IsClosed(B[k])
    <3>1. j \in Nat /\ i \in Nat /\ j # 1 /\ i >= 1
      BY <1>1, <2>3
    <3>2. j - 1 \in DOMAIN B /\ B[j - 1] = A[j] /\ j - 1 > i
      BY <1>1, <2>3, <3>1
    <3> QED
      BY <2>3, <3>2
  <2> QED
    BY <1>1, <2>2, <2>3
<1> HIDE DEF A, B
<1> QED
  BY <1>2, <1>3, <1>4, <1>5 DEF Adjacent, B

LEMMA AdjacentCalls ==
  ASSUME Adjacent(worker), worker' = worker,
         \/ connection' = connection
         \/ connection = "Disconnected" /\ connection' = "Opening"
         \/ connection \in {"Connected", "Faulted"} /\ connection' = "Closing"
  PROVE  Adjacent(worker)'
<1>1. \A x \in {"Connected", "Faulted", "Disconnected"} :
        connection \in Since(x) => connection' \in Since(x)
  BY DEF Since
<1>2. \A i \in DOMAIN worker.outbox :
        About(worker.outbox[i]) \in {"Connected", "Faulted", "Disconnected"}
  BY DEF About
<1> QED
  BY <1>1, <1>2 DEF Adjacent

\* The facade's calls, as far as they matter here.
LEMMA CallsPost ==
  ASSUME Calls
  PROVE  /\ alive /\ worker' = worker /\ faults' = faults
         /\ \/ connection' = connection
            \/ connection = "Disconnected" /\ connection' = "Opening"
            \/ connection \in {"Connected", "Faulted"} /\ connection' = "Closing"
         /\ ~alive' => Destroy
<1>1. CASE Open
  BY <1>1 DEF Open, Accept
<1>2. CASE \E mode \in CloseMode : Close(mode)
  BY <1>2 DEF Close, Accept
<1>3. CASE \E o \in Owners, mode \in HandoffMode : AcquireOwnership(o, mode)
  BY <1>3 DEF AcquireOwnership, StartTransition, Accept
<1>4. CASE \E o \in Owners, mode \in HandoffMode : ReleaseOwnership(o, mode)
  BY <1>4 DEF ReleaseOwnership, StartTransition, Accept
<1>5. CASE Submit
  BY <1>5 DEF Submit
<1>6. CASE \E id \in Ids : CancelRequest(id)
  BY <1>6 DEF CancelRequest
<1>7. CASE Destroy
  BY <1>7 DEF Destroy
<1> QED
  BY <1>1, <1>2, <1>3, <1>4, <1>5, <1>6, <1>7 DEF Calls

LEMMA SlotsTake ==
  ASSUME FacadeSlots
  PROVE  /\ alive /\ alive' = alive /\ inbox' = inbox /\ faults' = faults
         /\ \E kind : /\ Take(kind)
                      /\ connection' = IF kind = "connection" THEN Head(worker.outbox).state
                                       ELSE connection
<1>1. CASE OnWorkerConnectionStateChanged
  BY <1>1 DEF OnWorkerConnectionStateChanged, Take
<1>2. CASE OnWorkerControlCompleted
  <2>1. Take("control") /\ connection' = connection
    BY <1>2 DEF OnWorkerControlCompleted
  <2> QED
    BY <2>1 DEF Take
<1>3. CASE OnWorkerOwnershipChanged
  <2>1. Take("ownership") /\ connection' = connection
    BY <1>3 DEF OnWorkerOwnershipChanged
  <2> QED
    BY <2>1 DEF Take
<1>4. CASE OnWorkerRequestStateChanged
  <2>1. Take("state") /\ connection' = connection
    BY <1>4 DEF OnWorkerRequestStateChanged
  <2> QED
    BY <2>1 DEF Take
<1>5. CASE OnWorkerRequestCompleted
  <2>1. Take("completed") /\ connection' = connection
    BY <1>5 DEF OnWorkerRequestCompleted
  <2> QED
    BY <2>1 DEF Take
<1> QED
  BY <1>1, <1>2, <1>3, <1>4, <1>5 DEF FacadeSlots

LEMMA AliveBalanced ==
  ASSUME CInv, alive
  PROVE  Balanced(worker, inbox)
<1>1. Accounted /\ InOrder /\ \A id \in Ids : ~(id < id)
  BY DEF CInv, Ids
<1>2. Posted(inbox) \subseteq Ids
  BY DEF Posted
<1> QED
  BY <1>1, <1>2 DEF Balanced, Accounted, InOrder

\* The requests are carried on, and none is taken from the inbox.
LEMMA BalancedCarried ==
  ASSUME NEW w, NEW q, Balanced(w, q), NEW v, Carries(w, v), NEW t, Posted(t) = Posted(q)
  PROVE  Balanced(v, t)
BY DEF Balanced, Carries

LEMMA BalancedAdmitted ==
  ASSUME CInv, Balanced(worker, inbox), inbox # <<>>, Head(inbox) \in Command,
         Enqueues(Head(inbox)), NEW v, Receives(worker, v, Head(inbox).req.id)
  PROVE  Balanced(v, Tail(inbox))
<1> DEFINE c == Head(inbox)
           t == Tail(inbox)
<1>1. /\ Posted(inbox) = Posted(t) \cup {c.req.id}
      /\ \A id \in Posted(t) : c.req.id < id
  BY CInvTypes, InboxTail DEF CInv, InOrder
<1>2. \A id \in Posted(t) : id \in Ids /\ c.req.id # id
  BY <1>1 DEF Posted, Ids
<1> HIDE DEF t, c
<1>3. Balanced(v, t)
  BY <1>1, <1>2 DEF Balanced, Receives, c
<1> QED
  BY <1>3 DEF t

LEMMA BalancedWorks ==
  ASSUME CInv, Balanced(worker, inbox), Works, ~worker'.stopped
  PROVE  Balanced(worker', inbox')
<1> DEFINE w == worker
           v == worker'
           c == Head(inbox)
<1>1. Sane(w) /\ w \in Worker /\ inbox \in Seq(Command)
  BY CInvTypes
<1>2. CASE inbox' = inbox /\ Goes(w, v)
  BY <1>1, <1>2, GoesKeeps, BalancedCarried DEF Keeps
<1>3. CASE inbox' = inbox /\ Falls(w, v)
  <2>1. Carries(w, v)
    BY <1>3 DEF Falls, Rises
  <2> QED
    BY <1>3, <2>1, BalancedCarried
<1>4. CASE inbox # <<>> /\ inbox' = Tail(inbox) /\ c \in Command /\ Executes(w, v, c)
  <2>1. CASE c.kind = "enqueue"
    <3>1. Receives(w, v, c.req.id)
      BY <1>4, <2>1 DEF Executes, Admits
    <3> QED
      BY <1>4, <2>1, <3>1, BalancedAdmitted DEF Enqueues
  <2>2. CASE c.kind # "enqueue"
    <3>1. Posted(inbox') = Posted(inbox)
      BY <1>1, <1>4, <2>2, InboxTail DEF Enqueues
    <3>2. ASSUME NEW u, Sane(u), Carries(w, u), Goes(u, v)
          PROVE  Carries(w, v)
      BY <3>2, GoesKeeps, CarriesTransitive DEF Keeps
    <3>3. CASE c.kind = "open"
      <4>1. Carries(w, v)
        BY <1>4, <3>3 DEF Executes, Comes, Rises
      <4> QED
        BY <3>1, <4>1, BalancedCarried
    <3>4. CASE c.kind = "close"
      <4>1. Carries(w, v)
        BY <1>4, <3>4 DEF Executes, Closes
      <4> QED
        BY <3>1, <4>1, BalancedCarried
    <3>5. CASE c.kind \in {"acquire", "release"}
      <4>1. Grants(w, v, c.op, c.owner)
            \/ \E u, o, target : Claims(w, u, c.op, o, target) /\ Goes(u, v)
        <5>1. CASE c.kind = "acquire"
          BY <1>4, <5>1 DEF Executes
        <5>2. CASE c.kind = "release"
          BY <1>4, <5>2 DEF Executes
        <5> QED
          BY <3>5, <5>1, <5>2
      <4>2. Carries(w, v)
        BY <3>2, <4>1 DEF Grants, Claims, Keeps
      <4> QED
        BY <3>1, <4>2, BalancedCarried
    <3>6. CASE c.kind = "cancel"
      <4>1. Carries(w, v)
        BY <1>4, <3>6 DEF Executes, Steady, Keeps
      <4> QED
        BY <3>1, <4>1, BalancedCarried
    <3>7. CASE c.kind = "shutdown"
      BY <1>4, <3>7 DEF Executes
    <3> QED
      BY <1>4, <2>2, <3>3, <3>4, <3>5, <3>6, <3>7 DEF Command
  <2> QED
    BY <2>1, <2>2
<1> QED
  BY <1>2, <1>3, <1>4 DEF Works

LEMMA BalancedDestroyed ==
  ASSUME CInv, Balanced(worker, inbox), Destroy
  PROVE  Balanced(worker, inbox)'
<1>1. inbox \in Seq(Command)
  BY CInvTypes
<1> DEFINE c == [kind |-> "shutdown"]
<1>2. c \in Command /\ ~Enqueues(c)
  BY CommandTypes DEF Enqueues
<1>3. inbox' = Append(inbox, c) /\ worker' = worker /\ requests' = requests
  BY DEF Destroy, Post
<1> HIDE DEF c
<1>4. Posted(inbox') = Posted(inbox)
  BY <1>1, <1>2, <1>3, InboxAppend
<1> QED
  BY <1>3, <1>4 DEF Balanced

LEMMA BalancedNext ==
  ASSUME CInv, Balanced(worker, inbox), [Next]_vars, CInv', ~worker'.stopped
  PROVE  Balanced(worker, inbox)'
<1>1. CASE alive'
  BY <1>1, AliveBalanced, PTL
<1>2. CASE ~alive'
  <2>1. CASE Calls
    BY <1>2, <2>1, CallsPost, BalancedDestroyed
  <2>2. CASE FacadeSlots
    BY <1>2, <2>2, SlotsTake
  <2>3. CASE WorkerEvents
    <3>1. Balanced(worker', inbox') /\ requests' = requests
      BY <2>3, WorkerEventsWork, BalancedWorks DEF Works, facadeVars
    <3> QED
      BY <3>1 DEF Balanced
  <2>4. CASE UNCHANGED vars
    BY <2>4 DEF Balanced, vars, facadeVars
  <2> QED
    BY <2>1, <2>2, <2>3, <2>4 DEF Next
<1> QED
  BY <1>1, <1>2

LEMMA GoesStopped ==
  ASSUME NEW w, NEW v, Goes(w, v)
  PROVE  v.stopped = w.stopped
BY DEF Goes, Steady, Stays, Hands, Ends

\* Only the last command stops the worker.
LEMMA WorksStopped ==
  ASSUME CInv, Works, worker'.stopped # worker.stopped
  PROVE  ~alive /\ Off(worker') /\ UNCHANGED facadeVars
<1>1. ~Goes(worker, worker') /\ ~Falls(worker, worker')
  BY GoesStopped DEF Falls
<1>2. /\ inbox # <<>> /\ Head(inbox) \in Command /\ UNCHANGED facadeVars
      /\ Executes(worker, worker', Head(inbox))
  BY <1>1 DEF Works
<1> DEFINE c == Head(inbox)
<1>3. c.kind \in {"open", "close", "acquire", "release", "enqueue", "cancel", "shutdown"}
  BY <1>2 DEF Command
<1>4. c.kind = "shutdown" /\ Off(worker')
  <2> HIDE DEF c
  <2>0. Executes(worker, worker', c)
    BY <1>2 DEF c
  <2>1. c.kind # "open"
    BY <2>0 DEF Executes, Comes
  <2>2. ASSUME c.kind = "close"
        PROVE  FALSE
    <3>1. PICK u : Starts(worker, u, c.op) /\ Goes(u, worker')
      BY <2>0, <2>2 DEF Executes
    <3> QED
      BY <3>1, GoesStopped DEF Starts
  <2>3. ASSUME c.kind = "acquire"
        PROVE  FALSE
    <3>1. ~Grants(worker, worker', c.op, c.owner)
      BY DEF Grants
    <3>2. PICK u : Claims(worker, u, c.op, worker.owner, c.owner) /\ Goes(u, worker')
      BY <2>0, <2>3, <3>1 DEF Executes
    <3> QED
      BY <3>2, GoesStopped DEF Claims, Stays
  <2>4. ASSUME c.kind = "release"
        PROVE  FALSE
    <3>1. PICK u : Claims(worker, u, c.op, c.owner, NoOwner) /\ Goes(u, worker')
      BY <2>0, <2>4 DEF Executes
    <3> QED
      BY <3>1, GoesStopped DEF Claims, Stays
  <2>5. c.kind # "enqueue"
    BY <2>0 DEF Executes, Admits, Stays
  <2>6. c.kind # "cancel"
    BY <2>0 DEF Executes, Steady, Stays
  <2>7. c.kind = "shutdown"
    BY <1>3, <2>1, <2>2, <2>3, <2>4, <2>5, <2>6
  <2> QED
    BY <2>0, <2>7 DEF Executes
<1>5. ~NoShutdown(inbox)
  BY <1>2, <1>4, InboxTail, CInvTypes
<1> QED
  BY <1>2, <1>4, <1>5 DEF CInv, Accounted

\* A worker that has stopped does nothing but let the line fall silent.
LEMMA StoppedWorker ==
  ASSUME worker \in Worker, worker.stopped, Off(worker), WorkerEvents
  PROVE  worker'.stopped /\ Off(worker') /\ UNCHANGED facadeVars
<1>1. ~ProcessCommand /\ ~OnResponseTimeout /\ ~OnSilenceElapsed /\ ~OnSerialError
  BY DEF Off, Idle, ProcessCommand, OnResponseTimeout, OnSilenceElapsed, OnSerialError
<1>2. \A src \in Ids \cup {Noise}, verdict \in Verdicts : ~OnReadyRead(src, verdict)
  BY DEF Off, OnReadyRead
<1>3. LineFallsSilent
  BY <1>1, <1>2 DEF WorkerEvents
<1> QED
  BY <1>3 DEF LineFallsSilent, Off, Idle, Worker

LEMMA StoppedNext ==
  ASSUME CInv, worker.stopped => ~alive /\ Off(worker), [Next]_vars
  PROVE  /\ (worker.stopped => ~alive /\ Off(worker))'
         /\ worker.stopped => worker'.stopped
<1>1. CASE Calls
  BY <1>1, CallsPost
<1>2. CASE FacadeSlots
  BY <1>2, SlotsTake, TakeStays
<1>3. CASE WorkerEvents
  <2>1. CASE worker.stopped
    <3>1. worker'.stopped /\ Off(worker') /\ UNCHANGED facadeVars
      BY <1>3, <2>1, StoppedWorker, CInvTypes
    <3>2. ~alive'
      BY <2>1, <3>1 DEF facadeVars
    <3>3. Off(worker)'
      BY <3>1 DEF Off, Idle
    <3> QED
      BY <3>1, <3>2, <3>3
  <2>2. CASE ~worker.stopped /\ worker'.stopped
    <3>1. ~alive /\ Off(worker') /\ UNCHANGED facadeVars
      BY <1>3, <2>2, WorkerEventsWork, WorksStopped
    <3>2. ~alive'
      BY <3>1 DEF facadeVars
    <3>3. Off(worker)'
      BY <3>1 DEF Off, Idle
    <3> QED
      BY <2>2, <3>2, <3>3
  <2> QED
    BY <2>1, <2>2
<1>4. CASE UNCHANGED vars
  BY <1>4 DEF vars, facadeVars, Off, Idle
<1> QED
  BY <1>1, <1>2, <1>3, <1>4 DEF Next

LEMMA AdjacentNext ==
  ASSUME CInv, Adjacent(worker), [Next]_vars, ~worker'.stopped
  PROVE  Adjacent(worker)'
<1>1. CASE Calls
  BY <1>1, CallsPost, AdjacentCalls
<1>2. CASE FacadeSlots
  <2>1. PICK kind : /\ Take(kind)
                    /\ connection' = IF kind = "connection" THEN Head(worker.outbox).state
                                     ELSE connection
    BY <1>2, SlotsTake
  <2> QED
    BY <2>1, AdjacentTaken, TakeHead
<1>3. CASE WorkerEvents
  <2>1. Works
    BY <1>3, WorkerEventsWork
  <2>2. Adjacent(worker') /\ connection' = connection
    BY <2>1, AdjacentWorks DEF Works, facadeVars
  <2> QED
    BY <2>2 DEF Adjacent
<1>4. CASE UNCHANGED vars
  BY <1>4 DEF vars, facadeVars, Adjacent
<1> QED
  BY <1>1, <1>2, <1>3, <1>4 DEF Next

LEMMA BaseNext ==
  ASSUME Base, [Next]_vars
  PROVE  Base'
<1>1. CInv'
  BY NextConserves DEF Base
<1>2. (worker.stopped => ~alive /\ Off(worker))' /\ (worker.stopped => worker'.stopped)
  BY StoppedNext DEF Base
<1>3. ASSUME ~worker'.stopped
      PROVE  Balanced(worker, inbox)' /\ Adjacent(worker)'
  BY <1>1, <1>2, <1>3, BalancedNext, AdjacentNext DEF Base
<1> QED
  BY <1>1, <1>2, <1>3 DEF Base

LEMMA InitBase ==
  ASSUME Init
  PROVE  Base
<1>1. CInv
  BY InitCInv
<1>2. alive /\ ~worker.stopped /\ worker.outbox = <<>>
  BY DEF Init
<1>3. Balanced(worker, inbox)
  BY <1>1, <1>2, AliveBalanced
<1>4. Adjacent(worker)
  BY <1>2 DEF Adjacent
<1> QED
  BY <1>1, <1>2, <1>3, <1>4 DEF Base

-----------------------------------------------------------------------------
(***************************************************************************)
(* While no fault occurs: one transition at a time, and what each of its   *)
(* stages keeps.                                                           *)
(***************************************************************************)
Orders(c) == c.kind \in {"open", "close", "acquire", "release"}

\* The signal that ends a transition.
IsFinal(s) == s.kind = "ownership" \/ (s.kind = "connection" /\ s.state # "Closing")

NoOrders(q) == \A i \in DOMAIN q : ~Orders(q[i])
NoEnqueues(q) == \A i \in DOMAIN q : ~Enqueues(q[i])
NoFinals(out) == \A i \in DOMAIN out : ~IsFinal(out[i])
NoClosings(out) == \A i \in DOMAIN out : ~IsClosing(out[i])
NoneOpen == \A id \in Ids : requests[id] = "None"
Free(w) == w.trans = NoTransition /\ w.closing = 0

\* What the worker holds belongs to the owner (InFlightBelongsToOwner).
Owned(w) ==
  /\ w.active # NoRequest => w.active.owner = w.owner
  /\ \A i \in DOMAIN w.queue : w.queue[i].owner = w.owner
EnqueuesOwned(w, q) == \A i \in DOMAIN q : Enqueues(q[i]) => q[i].req.owner = w.owner

\* The facade and the worker agree on the owner, or the facade has yet to acquire
\* the line a second time before it may submit.
Linked(w) ==
  /\ owner = w.owner \/ (w.owner = NoOwner /\ ~accepting /\ NoneOpen)
  /\ owner = NoOwner => NoneOpen

\* No transition.
Resting(w, q) ==
  /\ NoOrders(q) /\ NoFinals(w.outbox) /\ NoClosings(w.outbox) /\ Free(w)
  /\ ~inTransition /\ connection = w.state
  /\ \/ w.state = "Connected" /\ Linked(w) /\ EnqueuesOwned(w, q)
     \/ w.state = "Faulted"
     \/ w.state = "Disconnected" /\ ~w.port /\ NoneOpen

\* The order c is one the facade gives in the state the worker is in.
Fits(c, w) ==
  \/ /\ c.kind = "open" /\ connection = "Opening" /\ w.state = "Disconnected" /\ ~w.port
     /\ owner = NoOwner /\ ~inTransition /\ NoneOpen
  \/ /\ c.kind = "close" /\ connection = "Closing" /\ w.state \in {"Connected", "Faulted"}
     /\ ~inTransition
  \/ /\ c.kind \in {"acquire", "release"} /\ connection = "Connected" /\ w.state = "Connected"
     /\ inTransition /\ Linked(w) /\ (c.kind = "release" => c.owner = owner)
     /\ pendingKind = ops[c.op].kind

\* The order is on its way, behind every request.
Sent(w, q) ==
  /\ NoFinals(w.outbox) /\ NoClosings(w.outbox) /\ Free(w)
  /\ w.state = "Connected" => EnqueuesOwned(w, q)
  /\ \E m \in DOMAIN q :
       /\ \A i \in DOMAIN q : (Orders(q[i]) <=> i = m) /\ (Enqueues(q[i]) => i < m)
       /\ Fits(q[m], w)

\* The worker waits for the request in flight, or for silence.
Working(w, q) ==
  /\ NoOrders(q) /\ NoEnqueues(q) /\ NoFinals(w.outbox)
  /\ \/ /\ w.trans # NoTransition /\ w.closing = 0 /\ NoClosings(w.outbox)
        /\ w.state = "Connected" /\ connection = "Connected" /\ inTransition /\ w.queue = <<>>
        /\ Linked(w) /\ pendingKind = ops[w.trans.op].kind
     \/ /\ w.closing # 0 /\ w.trans = NoTransition /\ w.state = "Closing" /\ connection = "Closing"
        /\ ~inTransition

\* Nothing comes after the signal at f of what was open before it.
LastResult(out, f) == \A i \in DOMAIN out : i > f => ~IsResult(out[i])

\* The signal s at f ends the transition the facade waits for.
Agrees(w, s, f) ==
  \/ /\ connection = "Opening" /\ ~inTransition /\ owner = NoOwner /\ NoneOpen
     /\ IsUp(s) /\ s.state = w.state
     /\ w.state = "Connected" => w.owner = NoOwner
     /\ w.state = "Faulted" => ~w.port
     /\ NoClosings(w.outbox)
  \/ /\ connection = "Closing" /\ ~inTransition /\ Idle(w) /\ LastResult(w.outbox, f)
     /\ IsDown(s) /\ w.state = "Disconnected" /\ ~w.port
     /\ \A i \in DOMAIN w.outbox : i > f => ~IsClosing(w.outbox[i])
  \/ /\ connection = "Connected" /\ w.state = "Connected" /\ inTransition /\ NoClosings(w.outbox)
     /\ IsGrant(s) /\ s.owner = w.owner
     /\ pendingKind = ops[s.op].kind
     /\ owner = NoOwner => NoneOpen
     /\ s.owner = owner \/ (Idle(w) /\ LastResult(w.outbox, f))

\* The answer is on its way.
Heard(w, q) ==
  /\ NoOrders(q) /\ NoEnqueues(q) /\ Free(w)
  /\ \E f \in DOMAIN w.outbox :
       /\ \A i \in DOMAIN w.outbox : IsFinal(w.outbox[i]) <=> i = f
       /\ Agrees(w, w.outbox[f], f)

Healthy(w, q) ==
  Owned(w) /\ (Resting(w, q) \/ Sent(w, q) \/ Working(w, q) \/ Heard(w, q))

\* What is said of requests alone moves no transition.
LEMMA MuteIndices ==
  ASSUME NEW w \in Worker, NEW v \in Worker, Extends(w, v), Mute(w, v)
  PROVE  /\ \A i \in DOMAIN v.outbox :
              \/ i \in DOMAIN w.outbox /\ v.outbox[i] = w.outbox[i] /\ i <= Len(w.outbox)
              \/ i > Len(w.outbox) /\ ~IsFinal(v.outbox[i]) /\ ~IsClosing(v.outbox[i])
         /\ \A i \in DOMAIN w.outbox : i \in DOMAIN v.outbox /\ v.outbox[i] = w.outbox[i]
         /\ NoFinals(w.outbox) => NoFinals(v.outbox)
         /\ NoClosings(w.outbox) => NoClosings(v.outbox)
<1>1. \A i \in DOMAIN v.outbox : i \in Nat /\ (i \in DOMAIN w.outbox <=> i <= Len(w.outbox))
  BY OutboxTypes
<1>2. Len(w.outbox) \in Nat
  BY OutboxTypes
<1>3. ASSUME NEW i \in DOMAIN v.outbox
      PROVE  \/ i \in DOMAIN w.outbox /\ v.outbox[i] = w.outbox[i] /\ i <= Len(w.outbox)
             \/ i > Len(w.outbox) /\ ~IsFinal(v.outbox[i]) /\ ~IsClosing(v.outbox[i])
  <2>1. CASE i <= Len(w.outbox)
    BY <1>1, <2>1 DEF Extends
  <2>2. CASE i > Len(w.outbox)
    BY <2>2 DEF Mute, Tells, IsFinal, IsClosing
  <2> QED
    BY <1>1, <1>2, <2>1, <2>2
<1>4. \A i \in DOMAIN w.outbox : i \in DOMAIN v.outbox /\ v.outbox[i] = w.outbox[i]
  BY DEF Extends
<1>5. NoFinals(w.outbox) => NoFinals(v.outbox)
  BY <1>3 DEF NoFinals
<1>6. NoClosings(w.outbox) => NoClosings(v.outbox)
  BY <1>3 DEF NoClosings
<1> QED
  BY <1>3, <1>4, <1>5, <1>6

\* A worker that holds no request has no result to bring.
LEMMA IdleTellsNothing ==
  ASSUME NEW w \in Worker, NEW v \in Worker, Tidy(v), Carries(w, v), Extends(w, v), Idle(w)
  PROVE  /\ Idle(v)
         /\ \A i \in DOMAIN v.outbox : i > Len(w.outbox) => ~IsResult(v.outbox[i])
<1>1. Pending(w) = {} /\ Pending(v) = {} /\ Idle(v)
  BY WorkerIds DEF Carries
<1>2. Reported(v.outbox) = Reported(w.outbox)
  BY <1>1 DEF Carries, Held
<1>3. ASSUME NEW i \in DOMAIN v.outbox, i > Len(w.outbox), IsResult(v.outbox[i])
      PROVE  FALSE
  <2>1. v.outbox[i] \in Signal
    BY OutboxTypes
  <2>2. v.outbox[i].id \in Ids
    BY <1>3, <2>1 DEF Signal, IsResult
  <2>3. v.outbox[i].id \in Reported(v.outbox)
    BY <1>3, <2>2 DEF Reported
  <2>4. PICK j \in DOMAIN w.outbox : IsResult(w.outbox[j]) /\ w.outbox[j].id = v.outbox[i].id
    BY <1>2, <2>3 DEF Reported
  <2>5. j \in DOMAIN v.outbox /\ v.outbox[j] = w.outbox[j]
    BY DEF Extends
  <2>6. i = j
    BY <1>3, <2>4, <2>5 DEF Tidy, OneResultEach
  <2>7. j <= Len(w.outbox) /\ Len(w.outbox) \in Nat /\ j \in Nat
    BY OutboxTypes
  <2> QED
    BY <1>3, <2>6, <2>7
<1> QED
  BY <1>1, <1>3

LEMMA OwnedStems ==
  ASSUME NEW w, Owned(w), NEW v, Stems(w, v), v.owner = w.owner
  PROVE  Owned(v)
BY DEF Owned, Stems

LEMMA RestsFurther ==
  ASSUME NEW w \in Worker, NEW v \in Worker, NEW q, Extends(w, v), Mute(w, v), Stays(w, v),
         v.trans = w.trans
  PROVE  /\ Resting(w, q) => Resting(v, q)
         /\ Sent(w, q) => Sent(v, q)
<1>1. /\ NoFinals(w.outbox) => NoFinals(v.outbox)
      /\ NoClosings(w.outbox) => NoClosings(v.outbox)
  BY MuteIndices
<1>2. /\ Free(w) <=> Free(v)
      /\ Linked(w) <=> Linked(v)
      /\ EnqueuesOwned(w, q) <=> EnqueuesOwned(v, q)
      /\ \A c : Fits(c, w) <=> Fits(c, v)
  BY DEF Stays, Free, Linked, EnqueuesOwned, Fits
<1>3. v.state = w.state /\ v.port = w.port
  BY DEF Stays
<1>4. Resting(w, q) => Resting(v, q)
  BY <1>1, <1>2, <1>3 DEF Resting
<1>5. Sent(w, q) => Sent(v, q)
  BY <1>1, <1>2, <1>3 DEF Sent
<1> QED
  BY <1>4, <1>5

LEMMA AgreesSteady ==
  ASSUME NEW w, Sane(w), NEW v, Steady(w, v), NEW s, NEW f \in DOMAIN w.outbox,
         Agrees(w, s, f)
  PROVE  Agrees(v, s, f)
<1>1. w \in Worker /\ v \in Worker /\ Tidy(v) /\ Carries(w, v) /\ Extends(w, v)
  BY DEF Steady, Keeps, Sane, Descends
<1>2. v.state = w.state /\ v.port = w.port /\ v.owner = w.owner /\ Mute(w, v)
  BY DEF Steady, Stays
<1>3. f <= Len(w.outbox) /\ f \in Nat /\ Len(w.outbox) \in Nat
      /\ \A i \in DOMAIN v.outbox : i \in Nat
  BY <1>1, OutboxTypes
<1>4. ASSUME Idle(w), LastResult(w.outbox, f)
      PROVE  Idle(v) /\ LastResult(v.outbox, f)
  <2>1. /\ Idle(v)
        /\ \A i \in DOMAIN v.outbox : i > Len(w.outbox) => ~IsResult(v.outbox[i])
    BY <1>1, <1>4, IdleTellsNothing
  <2>2. \A i \in DOMAIN v.outbox :
          i > Len(w.outbox) \/ (i \in DOMAIN w.outbox /\ v.outbox[i] = w.outbox[i])
    BY <1>1, <1>2, MuteIndices
  <2> QED
    BY <1>4, <2>1, <2>2 DEF LastResult
<1>5. NoClosings(w.outbox) => NoClosings(v.outbox)
  BY <1>1, <1>2, MuteIndices
<1>6. (\A i \in DOMAIN w.outbox : i > f => ~IsClosing(w.outbox[i])) =>
        \A i \in DOMAIN v.outbox : i > f => ~IsClosing(v.outbox[i])
  BY <1>1, <1>2, MuteIndices
<1> QED
  BY <1>2, <1>4, <1>5, <1>6 DEF Agrees

LEMMA HealthySteady ==
  ASSUME NEW w, Sane(w), NEW v, Steady(w, v), NEW q, Healthy(w, q)
  PROVE  Healthy(v, q)
<1>1. w \in Worker /\ v \in Worker /\ Extends(w, v) /\ Mute(w, v) /\ Stays(w, v)
      /\ v.trans = w.trans /\ Stems(w, v)
  BY DEF Steady, Keeps, Sane, Descends
<1>2. Owned(v)
  BY <1>1, OwnedStems DEF Healthy, Stays
<1>3. CASE Resting(w, q) \/ Sent(w, q)
  BY <1>1, <1>2, <1>3, RestsFurther DEF Healthy
<1>4. CASE Working(w, q)
  <2>1. /\ NoFinals(w.outbox) => NoFinals(v.outbox)
        /\ NoClosings(w.outbox) => NoClosings(v.outbox)
    BY <1>1, MuteIndices
  <2>2. w.queue = <<>> => v.queue = <<>>
    <3> SUFFICES ASSUME w.queue = <<>>
                 PROVE  v.queue = <<>>
      OBVIOUS
    <3>1. v.queue \in Seq(Request) /\ 1 \notin DOMAIN v.queue
      BY <1>1, OutboxTypes DEF Stems
    <3> QED
      BY <3>1, TailIndices
  <2>3. Linked(w) <=> Linked(v)
    BY <1>1 DEF Stays, Linked
  <2>4. Working(v, q)
    BY <1>1, <1>4, <2>1, <2>2, <2>3 DEF Working, Stays
  <2> QED
    BY <1>2, <2>4 DEF Healthy
<1>5. CASE Heard(w, q)
  <2>1. PICK f \in DOMAIN w.outbox :
          /\ \A i \in DOMAIN w.outbox : IsFinal(w.outbox[i]) <=> i = f
          /\ Agrees(w, w.outbox[f], f)
    BY <1>5 DEF Heard
  <2>2. f \in DOMAIN v.outbox /\ v.outbox[f] = w.outbox[f] /\ f <= Len(w.outbox)
        /\ f \in Nat /\ Len(w.outbox) \in Nat
    BY <1>1, OutboxTypes DEF Extends
  <2>3. \A i \in DOMAIN v.outbox : IsFinal(v.outbox[i]) <=> i = f
    BY <1>1, <2>1, <2>2, MuteIndices
  <2>4. Agrees(v, v.outbox[f], f)
    BY <2>1, <2>2, AgreesSteady
  <2>5. Heard(v, q)
    BY <1>1, <1>5, <2>2, <2>3, <2>4 DEF Heard, Free, Stays
  <2> QED
    BY <1>2, <2>5 DEF Healthy
<1> QED
  BY <1>3, <1>4, <1>5 DEF Healthy

LEMMA HealthyHands ==
  ASSUME NEW w, Sane(w), NEW v, Hands(w, v), NEW q, Healthy(w, q)
  PROVE  Healthy(v, q)
<1>1. w \in Worker /\ v \in Worker /\ Extends(w, v)
  BY DEF Hands, Keeps, Sane, Descends
<1> DEFINE s == OwnershipSignal(w.trans.op, w.trans.target, TRUE)
           f == Len(w.outbox) + 1
<1>2. /\ w.closing = 0 /\ w.trans # NoTransition /\ w.active = NoRequest
      /\ v.state = w.state /\ v.closing = w.closing /\ v.queue = w.queue
      /\ v.active = w.active /\ v.trans = NoTransition /\ v.owner = w.trans.target
      /\ Utters(w, v, s)
  BY DEF Hands
<1>3. Working(w, q)
  BY <1>2 DEF Healthy, Resting, Sent, Heard, Free
<1>4. /\ NoOrders(q) /\ NoEnqueues(q) /\ NoFinals(w.outbox) /\ NoClosings(w.outbox)
      /\ w.state = "Connected" /\ connection = "Connected" /\ inTransition
      /\ w.queue = <<>> /\ Linked(w) /\ pendingKind = ops[w.trans.op].kind
  BY <1>2, <1>3 DEF Working
<1>5. s.kind = "ownership" /\ s.ok /\ s.owner = v.owner /\ s.op = w.trans.op
  BY <1>2 DEF OwnershipSignal
<1> HIDE DEF s
<1>6. /\ \A i \in DOMAIN v.outbox : i > Len(w.outbox) => i = f /\ v.outbox[i] = s
      /\ f \in DOMAIN v.outbox /\ v.outbox[f] = s
  BY <1>1, <1>2, UttersOnly DEF Utters
<1>7. /\ \A i \in DOMAIN v.outbox : i \in Nat /\ (i > Len(w.outbox) \/ i \in DOMAIN w.outbox)
      /\ \A i \in DOMAIN w.outbox : i # f
      /\ Len(w.outbox) \in Nat
  BY <1>1, OutboxTypes
<1>8. \A i \in DOMAIN v.outbox : IsFinal(v.outbox[i]) <=> i = f
  BY <1>1, <1>4, <1>5, <1>6, <1>7 DEF Extends, NoFinals, IsFinal
<1>9. NoClosings(v.outbox)
  BY <1>1, <1>4, <1>5, <1>6, <1>7 DEF Extends, NoClosings, IsClosing
<1>10. Idle(v) /\ LastResult(v.outbox, f)
  BY <1>2, <1>4, <1>6, <1>7 DEF Idle, LastResult
<1>11. Agrees(v, v.outbox[f], f)
  BY <1>2, <1>4, <1>5, <1>6, <1>9, <1>10 DEF Agrees, IsGrant, Linked
<1>12. Heard(v, q)
  BY <1>2, <1>4, <1>6, <1>8, <1>11 DEF Heard, Free
<1>13. Owned(v)
  BY <1>10 DEF Owned, Idle
<1> QED
  BY <1>12, <1>13 DEF Healthy

LEMMA HealthyEnds ==
  ASSUME NEW w, Sane(w), NEW v, Ends(w, v), NEW q, Healthy(w, q)
  PROVE  Healthy(v, q)
<1>1. w \in Worker /\ v \in Worker /\ Extends(w, v)
  BY DEF Ends, Keeps, Sane, Descends
<1> DEFINE s == ConnectionSignal("Disconnected")
           t == ControlSignal(w.closing, "Close", TRUE)
           f == Len(w.outbox) + 1
<1>2. w.closing # 0 /\ Dead(v) /\ v.trans = w.trans /\ Pairs(w, v, s, t)
  BY DEF Ends
<1>3. Working(w, q)
  BY <1>2 DEF Healthy, Resting, Sent, Heard, Free
<1>4. /\ NoOrders(q) /\ NoEnqueues(q) /\ NoFinals(w.outbox)
      /\ w.trans = NoTransition /\ connection = "Closing" /\ ~inTransition
  BY <1>2, <1>3 DEF Working
<1>5. s.kind = "connection" /\ s.state = "Disconnected" /\ t.kind = "control"
  BY DEF ConnectionSignal, ControlSignal
<1> HIDE DEF s, t
<1>6. /\ \A i \in DOMAIN v.outbox : i > Len(w.outbox) =>
           (i = f /\ v.outbox[i] = s) \/ (i = f + 1 /\ v.outbox[i] = t)
      /\ f \in DOMAIN v.outbox /\ v.outbox[f] = s
  <2>1. Len(w.outbox) \in Nat
    BY <1>1, OutboxTypes
  <2>2. /\ \A i \in DOMAIN v.outbox : i > Len(w.outbox) =>
             \/ i = Len(w.outbox) + 1 /\ v.outbox[i] = s
             \/ i = Len(w.outbox) + 2 /\ v.outbox[i] = t
        /\ Len(w.outbox) + 1 \in DOMAIN v.outbox
    BY <1>1, <1>2, PairsOnly
  <2>3. f + 1 = Len(w.outbox) + 2
    BY <2>1
  <2>4. v.outbox[f] = s
    BY <1>2 DEF Pairs
  <2>5. ASSUME NEW i \in DOMAIN v.outbox, i > Len(w.outbox)
        PROVE  (i = f /\ v.outbox[i] = s) \/ (i = f + 1 /\ v.outbox[i] = t)
    BY <2>2, <2>3, <2>5
  <2> QED
    BY <2>2, <2>4, <2>5
<1>7. /\ \A i \in DOMAIN v.outbox : i \in Nat /\ (i > Len(w.outbox) \/ i \in DOMAIN w.outbox)
      /\ \A i \in DOMAIN w.outbox : i # f
      /\ \A i \in DOMAIN v.outbox : i > f => i > Len(w.outbox) /\ i # f
      /\ Len(w.outbox) \in Nat /\ f + 1 # f
  BY <1>1, OutboxTypes
<1>8. \A i \in DOMAIN v.outbox : IsFinal(v.outbox[i]) <=> i = f
  BY <1>1, <1>4, <1>5, <1>6, <1>7 DEF Extends, NoFinals, IsFinal
<1>9. LastResult(v.outbox, f) /\ \A i \in DOMAIN v.outbox : i > f => ~IsClosing(v.outbox[i])
  BY <1>5, <1>6, <1>7 DEF LastResult, IsResult, IsClosing
<1>10. Agrees(v, v.outbox[f], f)
  BY <1>2, <1>4, <1>5, <1>6, <1>9 DEF Agrees, IsDown, Dead
<1>11. Heard(v, q)
  BY <1>2, <1>4, <1>6, <1>8, <1>10 DEF Heard, Free, Dead
<1>12. Owned(v)
  BY <1>2 DEF Owned, Idle, Dead
<1> QED
  BY <1>11, <1>12 DEF Healthy

LEMMA HealthyGoes ==
  ASSUME NEW w, Sane(w), NEW v, Goes(w, v), NEW q, Healthy(w, q)
  PROVE  Healthy(v, q)
<1>1. CASE Steady(w, v)
  BY <1>1, HealthySteady
<1>2. CASE \E a, b : Steady(w, a) /\ (Hands(a, b) \/ Ends(a, b)) /\ Steady(b, v)
  <2>1. PICK a, b : Steady(w, a) /\ (Hands(a, b) \/ Ends(a, b)) /\ Steady(b, v)
    BY <1>2
  <2>2. Sane(a) /\ Healthy(a, q)
    BY <2>1, HealthySteady DEF Steady, Keeps
  <2>3. Sane(b) /\ Healthy(b, q)
    BY <2>1, <2>2, HealthyHands, HealthyEnds DEF Hands, Ends, Keeps
  <2> QED
    BY <2>1, <2>3, HealthySteady
<1> QED
  BY <1>1, <1>2 DEF Goes

\* A command that is no order leaves the transition where it is.
LEMMA HealthyTail ==
  ASSUME NEW w, NEW q \in Seq(Command), q # <<>>, ~Orders(Head(q)), Healthy(w, q)
  PROVE  Healthy(w, Tail(q))
<1> DEFINE t == Tail(q)
<1>1. /\ 1 \in DOMAIN q /\ Head(q) = q[1]
      /\ \A i \in DOMAIN t : i \in Nat /\ 1 < i + 1 /\ i + 1 \in DOMAIN q /\ t[i] = q[i + 1]
      /\ \A i \in DOMAIN q : i = 1 \/ (1 < i /\ i - 1 \in DOMAIN t /\ t[i - 1] = q[i])
      /\ \A i \in DOMAIN q : i \in Nat
  BY TailIndices
<1> HIDE DEF t
<1>2. /\ NoOrders(q) => NoOrders(t)
      /\ NoEnqueues(q) => NoEnqueues(t)
      /\ EnqueuesOwned(w, q) => EnqueuesOwned(w, t)
  BY <1>1 DEF NoOrders, NoEnqueues, EnqueuesOwned
<1>3. Resting(w, q) => Resting(w, t)
  BY <1>2 DEF Resting
<1>4. Working(w, q) => Working(w, t)
  BY <1>2 DEF Working
<1>5. Heard(w, q) => Heard(w, t)
  BY <1>2 DEF Heard
<1>6. ASSUME Sent(w, q)
      PROVE  Sent(w, t)
  <2>1. PICK m \in DOMAIN q :
          /\ \A i \in DOMAIN q : (Orders(q[i]) <=> i = m) /\ (Enqueues(q[i]) => i < m)
          /\ Fits(q[m], w)
    BY <1>6 DEF Sent
  <2>2. Orders(q[m]) /\ m # 1
    BY <1>1, <2>1
  <2>3. m - 1 \in DOMAIN t /\ t[m - 1] = q[m] /\ m \in Nat
    BY <1>1, <2>2
  <2>4. ASSUME NEW i \in DOMAIN t
        PROVE  (Orders(t[i]) <=> i = m - 1) /\ (Enqueues(t[i]) => i < m - 1)
    <3>1. i \in Nat /\ i + 1 \in DOMAIN q /\ t[i] = q[i + 1]
      BY <1>1
    <3>2. (Orders(t[i]) <=> i + 1 = m) /\ (Enqueues(t[i]) => i + 1 < m)
      BY <2>1, <3>1
    <3> QED
      BY <2>3, <3>1, <3>2
  <2>5. Fits(t[m - 1], w)
    BY <2>1, <2>3
  <2> QED
    BY <1>2, <1>6, <2>3, <2>4, <2>5 DEF Sent
<1> QED
  BY <1>3, <1>4, <1>5, <1>6 DEF Healthy, t

\* An order at the head of the queue is the last thing under way.
LEMMA OrderAtHead ==
  ASSUME NEW w, NEW q \in Seq(Command), q # <<>>, Orders(Head(q)), Healthy(w, q)
  PROVE  /\ Owned(w) /\ NoFinals(w.outbox) /\ NoClosings(w.outbox) /\ Free(w)
         /\ Fits(Head(q), w)
         /\ NoOrders(Tail(q)) /\ NoEnqueues(Tail(q))
<1> DEFINE t == Tail(q)
<1>1. /\ 1 \in DOMAIN q /\ Head(q) = q[1]
      /\ \A i \in DOMAIN t : i \in Nat /\ 1 < i + 1 /\ i + 1 \in DOMAIN q /\ t[i] = q[i + 1]
  BY TailIndices
<1> HIDE DEF t
<1>2. ~NoOrders(q)
  BY <1>1 DEF NoOrders
<1>3. Owned(w) /\ Sent(w, q)
  BY <1>2 DEF Healthy, Resting, Working, Heard
<1>4. PICK m \in DOMAIN q :
        /\ \A i \in DOMAIN q : (Orders(q[i]) <=> i = m) /\ (Enqueues(q[i]) => i < m)
        /\ Fits(q[m], w)
  BY <1>3 DEF Sent
<1>5. m = 1
  BY <1>1, <1>4
<1>6. \A i \in DOMAIN t : i + 1 # 1 /\ ~(i + 1 < 1)
  BY <1>1
<1>7. NoOrders(t) /\ NoEnqueues(t)
  BY <1>1, <1>4, <1>5, <1>6 DEF NoOrders, NoEnqueues
<1> QED
  BY <1>1, <1>3, <1>4, <1>5, <1>7 DEF Sent, t

LEMMA HealthyAdmits ==
  ASSUME NEW w, Sane(w), NEW q \in Seq(Command), q # <<>>, Enqueues(Head(q)),
         NEW v, Admits(w, v, Head(q).req), Healthy(w, q)
  PROVE  Healthy(v, Tail(q))
<1> DEFINE c == Head(q)
           t == Tail(q)
<1>1. 1 \in DOMAIN q /\ c = q[1] /\ ~Orders(c)
  BY TailIndices DEF Orders, Enqueues
<1>2. Healthy(w, t)
  BY <1>1, HealthyTail
<1>3. /\ w \in Worker /\ v \in Worker /\ Extends(w, v) /\ Mute(w, v) /\ Stays(w, v)
      /\ v.trans = w.trans
  BY DEF Admits, Receives, Good, Sane
<1>4. ~NoEnqueues(q)
  BY <1>1 DEF NoEnqueues
<1>5. Resting(w, q) \/ Sent(w, q)
  BY <1>4 DEF Healthy, Working, Heard
<1>6. w.state = "Connected" => c.req.owner = w.owner
  BY <1>1, <1>5 DEF Resting, Sent, EnqueuesOwned
<1> HIDE DEF c, t
<1>7. Owned(v)
  <2>1. Owned(w) /\ v.owner = w.owner
    BY <1>2, <1>3 DEF Healthy, Stays
  <2>2. CASE w.state = "Connected"
    <3>1. Admits(w, v, c.req)
      BY DEF c
    <3>2. v.active # NoRequest => v.active.owner = w.owner
      BY <1>6, <2>1, <2>2, <3>1 DEF Admits, Owned
    <3>3. \A i \in DOMAIN v.queue : v.queue[i].owner = w.owner
      BY <1>6, <2>1, <2>2, <3>1 DEF Admits, Owned
    <3> QED
      BY <2>1, <3>2, <3>3 DEF Owned
  <2>3. CASE w.state # "Connected"
    BY <2>1, <2>3, OwnedStems DEF Admits
  <2> QED
    BY <2>2, <2>3
<1>8. Resting(w, t) \/ Sent(w, t)
  <2>1. Resting(w, q) => w.trans = NoTransition /\ w.closing = 0 /\ NoFinals(w.outbox)
    BY DEF Resting, Free
  <2>2. Sent(w, q) => w.trans = NoTransition /\ w.closing = 0 /\ NoFinals(w.outbox)
    BY DEF Sent, Free
  <2>3. ~Working(w, t)
    BY <1>5, <2>1, <2>2 DEF Working
  <2>4. ~Heard(w, t)
    BY <1>5, <2>1, <2>2 DEF Heard, NoFinals
  <2> QED
    BY <1>2, <2>3, <2>4 DEF Healthy
<1>9. Resting(v, t) \/ Sent(v, t)
  BY <1>3, <1>8, RestsFurther
<1> QED
  BY <1>7, <1>9 DEF Healthy, t

LEMMA HealthyComes ==
  ASSUME NEW w, Sane(w), NEW q \in Seq(Command), q # <<>>, Head(q).kind = "open",
         NEW v, NEW ok \in BOOLEAN, Comes(w, v, Head(q).op, ok), Healthy(w, q)
  PROVE  Healthy(v, Tail(q))
<1> DEFINE c == Head(q)
           x == IF ok THEN "Connected" ELSE "Faulted"
           s == ConnectionSignal(x)
           a == ControlSignal(c.op, "Open", ok)
           f == Len(w.outbox) + 1
           t == Tail(q)
<1>1. /\ NoFinals(w.outbox) /\ NoClosings(w.outbox) /\ Free(w) /\ Fits(c, w)
      /\ NoOrders(t) /\ NoEnqueues(t) /\ c.kind = "open"
  BY OrderAtHead DEF Orders
<1>2. /\ connection = "Opening" /\ ~w.port /\ owner = NoOwner /\ ~inTransition /\ NoneOpen
  BY <1>1 DEF Fits
<1>3. /\ Rises(w, v) /\ v.state = x /\ v.trans = w.trans /\ Pairs(w, v, s, a)
      /\ (ok => v.owner = NoOwner) /\ (~ok => ~v.port)
  BY <1>2 DEF Comes
<1>4. w \in Worker /\ v \in Worker /\ Extends(w, v) /\ Idle(v) /\ v.closing = w.closing
  BY <1>3 DEF Rises, Good, Sane
<1>5. s.kind = "connection" /\ s.state = x /\ a.kind = "control"
      /\ x \in {"Connected", "Faulted"}
  BY DEF ConnectionSignal, ControlSignal
<1>6. (x = "Connected" => ok) /\ (x = "Faulted" => ~ok)
  OBVIOUS
<1> HIDE DEF s, a, x, t
<1>7. /\ \A i \in DOMAIN v.outbox : i > Len(w.outbox) =>
             \/ i = Len(w.outbox) + 1 /\ v.outbox[i] = s
             \/ i = Len(w.outbox) + 2 /\ v.outbox[i] = a
      /\ f \in DOMAIN v.outbox /\ v.outbox[f] = s
  BY <1>3, <1>4, PairsOnly DEF Pairs
<1>8. /\ \A i \in DOMAIN v.outbox : i \in Nat /\ (i > Len(w.outbox) \/ i \in DOMAIN w.outbox)
      /\ \A i \in DOMAIN w.outbox : i # f
      /\ Len(w.outbox) \in Nat /\ Len(w.outbox) + 2 # f
  BY <1>4, OutboxTypes
<1>9. ASSUME NEW i \in DOMAIN v.outbox
      PROVE  (IsFinal(v.outbox[i]) <=> i = f) /\ ~IsClosing(v.outbox[i])
  <2>1. CASE i \in DOMAIN w.outbox
    BY <1>1, <1>4, <1>8, <2>1 DEF Extends, NoFinals, NoClosings
  <2>2. CASE i > Len(w.outbox)
    BY <1>5, <1>7, <1>8, <2>2 DEF IsFinal, IsClosing
  <2> QED
    BY <1>8, <2>1, <2>2
<1>10. NoClosings(v.outbox)
  BY <1>9 DEF NoClosings
<1>11. Agrees(v, v.outbox[f], f)
  BY <1>2, <1>3, <1>5, <1>6, <1>7, <1>10 DEF Agrees, IsUp
<1>12. Free(v)
  BY <1>1, <1>3, <1>4 DEF Free
<1>13. Heard(v, t)
  BY <1>1, <1>7, <1>9, <1>11, <1>12 DEF Heard
<1>14. Owned(v)
  BY <1>4 DEF Owned, Idle
<1> QED
  BY <1>13, <1>14 DEF Healthy, t

LEMMA HealthyStarts ==
  ASSUME NEW w, Sane(w), NEW q \in Seq(Command), q # <<>>, Head(q) \in Command,
         Head(q).kind = "close", NEW u, Starts(w, u, Head(q).op), Healthy(w, q)
  PROVE  Healthy(u, Tail(q))
<1> DEFINE c == Head(q)
           t == Tail(q)
           s == ConnectionSignal("Closing")
<1>1. /\ Owned(w) /\ NoFinals(w.outbox) /\ Free(w) /\ Fits(c, w)
      /\ NoOrders(t) /\ NoEnqueues(t)
  BY OrderAtHead DEF Orders
<1>2. connection = "Closing" /\ ~inTransition
  BY <1>1 DEF Fits
<1>3. c.op # 0
  BY DEF Command, OpIds
<1>4. /\ u \in Worker /\ w \in Worker /\ Extends(w, u) /\ Utters(w, u, s)
      /\ u.queue = w.queue /\ u.active = w.active /\ u.trans = w.trans /\ u.owner = w.owner
      /\ u.state = "Closing" /\ u.closing = c.op
  BY DEF Starts, Sane, Utters
<1>5. ~IsFinal(s)
  BY DEF ConnectionSignal, IsFinal
<1> HIDE DEF s, t, c
<1>6. \A i \in DOMAIN u.outbox : i \in Nat /\ (i > Len(w.outbox) \/ i \in DOMAIN w.outbox)
  BY <1>4, OutboxTypes
<1>7. NoFinals(u.outbox)
  BY <1>1, <1>4, <1>5, <1>6, UttersOnly DEF Extends, NoFinals
<1>8. Working(u, t)
  BY <1>1, <1>2, <1>3, <1>4, <1>7 DEF Working, Free
<1>9. Owned(u)
  BY <1>1, <1>4 DEF Owned
<1> QED
  BY <1>8, <1>9 DEF Healthy, t

LEMMA HealthyGrants ==
  ASSUME NEW w, Sane(w), NEW q \in Seq(Command), q # <<>>, Head(q).kind = "acquire",
         NEW v, NEW o \in Owners, Grants(w, v, Head(q).op, o), Healthy(w, q)
  PROVE  Healthy(v, Tail(q))
<1> DEFINE c == Head(q)
           t == Tail(q)
           s == OwnershipSignal(c.op, o, TRUE)
           f == Len(w.outbox) + 1
<1>1. /\ Owned(w) /\ NoFinals(w.outbox) /\ NoClosings(w.outbox) /\ Free(w) /\ Fits(c, w)
      /\ NoOrders(t) /\ NoEnqueues(t)
  BY OrderAtHead DEF Orders
<1>2. /\ connection = "Connected" /\ w.state = "Connected" /\ inTransition /\ Linked(w)
      /\ pendingKind = ops[c.op].kind
  BY <1>1 DEF Fits
<1>3. /\ v \in Worker /\ w \in Worker /\ Extends(w, v) /\ Utters(w, v, s)
      /\ w.owner \in {NoOwner, o} /\ v.owner = o
      /\ v.state = w.state /\ v.closing = w.closing /\ v.trans = w.trans
      /\ v.queue = w.queue /\ v.active = w.active
  BY DEF Grants, Keeps, Sane, Utters
<1>4. IsGrant(s) /\ s.kind = "ownership" /\ s.owner = o /\ s.op = c.op
  BY DEF OwnershipSignal, IsGrant
<1> HIDE DEF s, t, c
<1>5. o # NoOwner
  BY ClientAssumption
<1>6. w.owner = NoOwner => Idle(v)
  <2> SUFFICES ASSUME w.owner = NoOwner
               PROVE  Idle(v)
    OBVIOUS
  <2>1. w.active = NoRequest
    BY <1>1, <1>3, WorkerIds, ClientAssumption DEF Owned, Request
  <2>2. w.queue \in Seq(Request) /\ \A i \in DOMAIN w.queue : w.queue[i].owner # NoOwner
    <3>1. w.queue \in Seq(Request)
      BY <1>3, OutboxTypes
    <3>2. \A i \in DOMAIN w.queue : w.queue[i] \in Request
      BY <3>1
    <3> QED
      BY <3>1, <3>2, ClientAssumption DEF Request
  <2>3. 1 \notin DOMAIN w.queue
    BY <1>1, <2>2 DEF Owned
  <2>4. w.queue = <<>>
    BY <2>2, <2>3, TailIndices
  <2> QED
    BY <1>3, <2>1, <2>4 DEF Idle
<1>7. /\ \A i \in DOMAIN v.outbox : i > Len(w.outbox) =>
             i = Len(w.outbox) + 1 /\ v.outbox[i] = s
      /\ f \in DOMAIN v.outbox /\ v.outbox[f] = s
  BY <1>3, UttersOnly DEF Utters
<1>8. /\ \A i \in DOMAIN v.outbox : i \in Nat /\ (i > Len(w.outbox) \/ i \in DOMAIN w.outbox)
      /\ \A i \in DOMAIN w.outbox : i # f
      /\ Len(w.outbox) \in Nat /\ \A i \in DOMAIN v.outbox : i > f => i > Len(w.outbox) /\ i # f
  BY <1>3, OutboxTypes
<1>9. ASSUME NEW i \in DOMAIN v.outbox
      PROVE  (IsFinal(v.outbox[i]) <=> i = f) /\ ~IsClosing(v.outbox[i])
  <2>1. CASE i \in DOMAIN w.outbox
    BY <1>1, <1>3, <1>8, <2>1 DEF Extends, NoFinals, NoClosings
  <2>2. CASE i > Len(w.outbox)
    BY <1>4, <1>7, <2>2 DEF IsFinal, IsClosing
  <2> QED
    BY <1>8, <2>1, <2>2
<1>10. NoClosings(v.outbox)
  BY <1>9 DEF NoClosings
<1>11. LastResult(v.outbox, f)
  BY <1>7, <1>8 DEF LastResult
<1>12. o = owner \/ Idle(v)
  BY <1>2, <1>3, <1>6 DEF Linked
<1>13. Agrees(v, v.outbox[f], f)
  BY <1>2, <1>3, <1>4, <1>7, <1>10, <1>11, <1>12 DEF Agrees, Linked
<1>14. Free(v)
  BY <1>1, <1>3 DEF Free
<1>15. Heard(v, t)
  BY <1>1, <1>7, <1>9, <1>13, <1>14 DEF Heard
<1>16. Owned(v)
  <2>1. Idle(v) => Owned(v)
    BY DEF Idle, Owned
  <2>2. w.owner = o => Owned(v)
    BY <1>1, <1>3 DEF Owned
  <2> QED
    BY <1>3, <1>6, <2>1, <2>2
<1> QED
  BY <1>15, <1>16 DEF Healthy, t

LEMMA HealthyClaims ==
  ASSUME NEW w, Sane(w), NEW q \in Seq(Command), q # <<>>,
         NEW u, NEW o, NEW target, Claims(w, u, Head(q).op, o, target),
         Head(q) \in Command, Healthy(w, q),
         \/ Head(q).kind = "acquire" /\ o = w.owner
         \/ Head(q).kind = "release" /\ o = Head(q).owner
  PROVE  Healthy(u, Tail(q))
<1> DEFINE c == Head(q)
           t == Tail(q)
<1>0. c.op \in OpIds
  BY DEF Command
<1>1. /\ Owned(w) /\ NoFinals(w.outbox) /\ NoClosings(w.outbox) /\ Free(w) /\ Fits(c, w)
      /\ NoOrders(t) /\ NoEnqueues(t)
  BY OrderAtHead DEF Orders
<1>2. /\ connection = "Connected" /\ w.state = "Connected" /\ inTransition /\ Linked(w)
      /\ pendingKind = ops[c.op].kind /\ (c.kind = "release" => c.owner = owner)
  BY <1>1 DEF Fits
<1>3. /\ u \in Worker /\ w \in Worker /\ Extends(w, u) /\ Mute(w, u) /\ Stems(w, u)
      /\ Stays(w, u) /\ \A i \in DOMAIN u.queue : u.queue[i].owner # o
      /\ u.trans = [op |-> c.op, target |-> target]
  BY DEF Claims, Keeps, Sane, Descends
<1>4. NoFinals(u.outbox) /\ NoClosings(u.outbox)
  BY <1>1, <1>3, MuteIndices
<1>5. Owned(u) /\ u.owner = w.owner /\ u.state = w.state /\ u.closing = w.closing
  BY <1>1, <1>3, OwnedStems DEF Stays
<1>6. u.trans # NoTransition /\ u.trans.op = c.op
  BY <1>0, <1>3 DEF NoTransition, OpIds
<1> HIDE DEF t, c
<1>7. u.queue \in Seq(Request) /\ \A i \in DOMAIN u.queue : u.queue[i].owner # NoOwner
  <2>1. u.queue \in Seq(Request)
    BY <1>3, OutboxTypes
  <2>2. \A i \in DOMAIN u.queue : u.queue[i] \in Request
    BY <2>1
  <2> QED
    BY <2>1, <2>2, ClientAssumption DEF Request
<1>8. o = w.owner \/ w.owner = NoOwner
  BY <1>2 DEF Linked, c
<1>9. 1 \notin DOMAIN u.queue
  BY <1>3, <1>5, <1>7, <1>8 DEF Owned
<1>10. u.queue = <<>>
  BY <1>7, <1>9, TailIndices
<1>11. Linked(u)
  BY <1>2, <1>5 DEF Linked
<1>12. Working(u, t)
  BY <1>1, <1>2, <1>4, <1>5, <1>6, <1>10, <1>11 DEF Working, Free
<1> QED
  BY <1>5, <1>12 DEF Healthy, t

LEMMA HealthyExecutes ==
  ASSUME NEW w, Sane(w), NEW q \in Seq(Command), q # <<>>, NEW v,
         Executes(w, v, Head(q)), Head(q).kind # "shutdown", Healthy(w, q)
  PROVE  Healthy(v, Tail(q))
<1> DEFINE c == Head(q)
<1>0. c \in Command /\ Executes(w, v, c)
  BY TailIndices
<1>1. CASE c.kind = "open"
  <2>1. PICK ok \in BOOLEAN : Comes(w, v, c.op, ok)
    BY <1>0, <1>1 DEF Executes
  <2> QED
    BY <1>1, <2>1, HealthyComes
<1>2. CASE c.kind = "close"
  <2>1. PICK u : Starts(w, u, c.op) /\ Goes(u, v)
    BY <1>0, <1>2 DEF Executes
  <2>2. Sane(u) /\ Healthy(u, Tail(q))
    BY <1>0, <1>2, <2>1, HealthyStarts DEF Starts
  <2> QED
    BY <2>1, <2>2, HealthyGoes
<1>3. CASE c.kind = "acquire"
  <2>1. \/ Grants(w, v, c.op, c.owner)
        \/ \E u : Claims(w, u, c.op, w.owner, c.owner) /\ Goes(u, v)
    BY <1>0, <1>3 DEF Executes
  <2>2. CASE Grants(w, v, c.op, c.owner)
    <3>1. c.owner \in Owners
      BY <1>0, <1>3 DEF Command
    <3> QED
      BY <1>3, <2>2, <3>1, HealthyGrants
  <2>3. CASE \E u : Claims(w, u, c.op, w.owner, c.owner) /\ Goes(u, v)
    <3>1. PICK u : Claims(w, u, c.op, w.owner, c.owner) /\ Goes(u, v)
      BY <2>3
    <3>2. Sane(u) /\ Healthy(u, Tail(q))
      BY <1>0, <1>3, <3>1, HealthyClaims DEF Claims, Keeps
    <3> QED
      BY <3>1, <3>2, HealthyGoes
  <2> QED
    BY <2>1, <2>2, <2>3
<1>4. CASE c.kind = "release"
  <2>1. PICK u : Claims(w, u, c.op, c.owner, NoOwner) /\ Goes(u, v)
    BY <1>0, <1>4 DEF Executes
  <2>2. Sane(u) /\ Healthy(u, Tail(q))
    BY <1>0, <1>4, <2>1, HealthyClaims DEF Claims, Keeps
  <2> QED
    BY <2>1, <2>2, HealthyGoes
<1>5. CASE c.kind = "enqueue"
  <2>1. Admits(w, v, c.req)
    BY <1>0, <1>5 DEF Executes
  <2> QED
    BY <1>5, <2>1, HealthyAdmits DEF Enqueues
<1>6. CASE c.kind = "cancel"
  <2>1. Steady(w, v)
    BY <1>0, <1>6 DEF Executes
  <2>2. Healthy(w, Tail(q))
    BY <1>6, HealthyTail DEF Orders
  <2> QED
    BY <2>1, <2>2, HealthySteady
<1> QED
  BY <1>0, <1>1, <1>2, <1>3, <1>4, <1>5, <1>6 DEF Command

LEMMA HealthyWorks ==
  ASSUME CInv, Works, Healthy(worker, inbox), faults' = 0, ~worker'.stopped
  PROVE  Healthy(worker', inbox')
<1>1. Sane(worker) /\ inbox \in Seq(Command) /\ faults \in Nat
  BY CInvTypes DEF CInv, IInv, TypeOK
<1>2. faults' # faults + 1
  BY <1>1
<1>3. CASE inbox' = inbox /\ Goes(worker, worker')
  BY <1>1, <1>3, HealthyGoes
<1>4. CASE inbox # <<>> /\ inbox' = Tail(inbox) /\ Executes(worker, worker', Head(inbox))
  <2>1. Head(inbox).kind # "shutdown"
    BY <1>4 DEF Executes
  <2> QED
    BY <1>1, <1>4, <2>1, HealthyExecutes
<1> QED
  BY <1>2, <1>3, <1>4 DEF Works

-----------------------------------------------------------------------------
(***************************************************************************)
(* The facade, while no fault occurs.                                      *)
(***************************************************************************)

\* A step after which the facade waits for the same, and may do no more.
LEMMA FacadeKeeps ==
  ASSUME Healthy(worker', inbox'),
         connection' = connection, owner' = owner, inTransition' = inTransition,
         pendingKind' = pendingKind, accepting' => accepting, NoneOpen => NoneOpen',
         \A op : ops'[op].kind = ops[op].kind
  PROVE  Healthy(worker, inbox)'
<1>1. /\ Owned(worker') <=> Owned(worker)'
      /\ NoOrders(inbox') <=> NoOrders(inbox)'
      /\ NoEnqueues(inbox') <=> NoEnqueues(inbox)'
      /\ NoFinals(worker'.outbox) <=> NoFinals(worker.outbox)'
      /\ NoClosings(worker'.outbox) <=> NoClosings(worker.outbox)'
      /\ Free(worker') <=> Free(worker)'
      /\ EnqueuesOwned(worker', inbox') <=> EnqueuesOwned(worker, inbox)'
      /\ Idle(worker') <=> Idle(worker)'
  BY DEF Owned, NoOrders, NoEnqueues, NoFinals, NoClosings, Free, EnqueuesOwned, Idle
<1>2. Linked(worker') => Linked(worker)'
  BY DEF Linked
<1>3. \A m : Fits(inbox'[m], worker') => Fits(inbox[m], worker)'
  BY <1>2 DEF Fits
<1>4. \A f : Agrees(worker', worker'.outbox[f], f) => Agrees(worker, worker.outbox[f], f)'
  BY <1>1 DEF Agrees, LastResult
<1>5. Resting(worker', inbox') => Resting(worker, inbox)'
  BY <1>1, <1>2 DEF Resting
<1>6. Sent(worker', inbox') => Sent(worker, inbox)'
  BY <1>1, <1>3 DEF Sent
<1>7. Working(worker', inbox') => Working(worker, inbox)'
  BY <1>1, <1>2 DEF Working
<1>8. Heard(worker', inbox') => Heard(worker, inbox)'
  BY <1>1, <1>4 DEF Heard
<1> QED
  BY <1>1, <1>5, <1>6, <1>7, <1>8 DEF Healthy

LEMMA AppendHealthy ==
  ASSUME NEW w, NEW q \in Seq(Command), NEW c \in Command, ~Orders(c), ~Enqueues(c),
         Healthy(w, q)
  PROVE  Healthy(w, Append(q, c))
<1> DEFINE t == Append(q, c)
<1>1. /\ \A i \in DOMAIN q : i \in DOMAIN t /\ t[i] = q[i]
      /\ \A i \in DOMAIN t : i \in DOMAIN q \/ i = Len(q) + 1
      /\ t[Len(q) + 1] = c
  BY AppendIndices
<1> HIDE DEF t
<1>2. \A i \in DOMAIN t :
        \/ i \in DOMAIN q /\ t[i] = q[i]
        \/ ~Orders(t[i]) /\ ~Enqueues(t[i])
  BY <1>1
<1>3. /\ NoOrders(q) => NoOrders(t)
      /\ NoEnqueues(q) => NoEnqueues(t)
      /\ EnqueuesOwned(w, q) => EnqueuesOwned(w, t)
  BY <1>2 DEF NoOrders, NoEnqueues, EnqueuesOwned
<1>4. Resting(w, q) => Resting(w, t)
  BY <1>3 DEF Resting
<1>5. Working(w, q) => Working(w, t)
  BY <1>3 DEF Working
<1>6. Heard(w, q) => Heard(w, t)
  BY <1>3 DEF Heard
<1>7. ASSUME Sent(w, q)
      PROVE  Sent(w, t)
  <2>1. PICK m \in DOMAIN q :
          /\ \A i \in DOMAIN q : (Orders(q[i]) <=> i = m) /\ (Enqueues(q[i]) => i < m)
          /\ Fits(q[m], w)
    BY <1>7 DEF Sent
  <2>2. m \in DOMAIN t /\ t[m] = q[m] /\ Orders(t[m])
    BY <1>1, <2>1
  <2>3. \A i \in DOMAIN t : (Orders(t[i]) <=> i = m) /\ (Enqueues(t[i]) => i < m)
    BY <1>2, <2>1, <2>2
  <2> QED
    BY <1>3, <1>7, <2>1, <2>2, <2>3 DEF Sent
<1> QED
  BY <1>4, <1>5, <1>6, <1>7 DEF Healthy, t

\* An order is posted behind every request.
LEMMA OrderPosted ==
  ASSUME CInv, NEW c \in Command, Orders(c), Resting(worker, inbox), Owned(worker),
         worker' = worker, inbox' = Append(inbox, c), Fits(c, worker)'
  PROVE  Healthy(worker, inbox)'
<1>0. PICK m : m = Len(inbox) + 1
  OBVIOUS
<1>1. /\ \A i \in DOMAIN inbox : i \in Nat /\ inbox'[i] = inbox[i] /\ i < m
      /\ m \in DOMAIN inbox' /\ inbox'[m] = c
      /\ \A i \in DOMAIN inbox' : i \in DOMAIN inbox \/ i = m
  BY <1>0, CInvTypes, AppendIndices
<1>2. ~Enqueues(c)
  BY DEF Orders, Enqueues
<1>3. NoOrders(inbox) /\ Free(worker) /\ NoFinals(worker.outbox) /\ NoClosings(worker.outbox)
      /\ (worker.state = "Connected" => EnqueuesOwned(worker, inbox))
  BY DEF Resting
<1>4. \A i \in DOMAIN inbox' :
        /\ Orders(inbox'[i]) <=> i = m
        /\ Enqueues(inbox'[i]) => i < m /\ i \in DOMAIN inbox /\ inbox'[i] = inbox[i]
  BY <1>1, <1>2, <1>3 DEF NoOrders
<1>5. (worker.state = "Connected" => EnqueuesOwned(worker, inbox))'
  BY <1>3, <1>4 DEF EnqueuesOwned
<1>6. (Free(worker) /\ NoFinals(worker.outbox) /\ NoClosings(worker.outbox) /\ Owned(worker))'
  BY <1>3 DEF Free, NoFinals, NoClosings, Owned
<1>7. Fits(inbox[m], worker)'
  BY <1>1
<1>8. Sent(worker, inbox)'
  BY <1>1, <1>4, <1>5, <1>6, <1>7 DEF Sent
<1> QED
  BY <1>6, <1>8 DEF Healthy

LEMMA OpenHealthy ==
  ASSUME CInv, Healthy(worker, inbox), Open
  PROVE  Healthy(worker, inbox)'
<1>0. PICK c : c = [kind |-> "open", op |-> nextOp]
  OBVIOUS
<1>1. nextOp \in OpIds /\ worker' = worker /\ inbox' = Append(inbox, c)
      /\ connection = "Disconnected" /\ connection' = "Opening" /\ owner' = NoOwner
      /\ requests' = requests /\ inTransition' = inTransition
  BY <1>0, NextOpFresh DEF Open, Accept, Post, CInv, IInv, TypeOK
<1>2. c \in Command /\ Orders(c) /\ c.kind = "open"
  BY <1>0, <1>1 DEF Command, Orders
<1>3. Resting(worker, inbox) /\ Owned(worker)
  BY <1>1 DEF Healthy, Sent, Fits, Working, Heard, Agrees
<1>4. worker.state = "Disconnected" /\ ~worker.port /\ NoneOpen /\ ~inTransition
  BY <1>1, <1>3 DEF Resting
<1>5. Fits(c, worker)'
  BY <1>1, <1>2, <1>4 DEF Fits, NoneOpen
<1> QED
  BY <1>1, <1>2, <1>3, <1>5, OrderPosted

LEMMA CloseHealthy ==
  ASSUME CInv, Healthy(worker, inbox), NEW mode \in CloseMode, Close(mode)
  PROVE  Healthy(worker, inbox)'
<1>0. PICK c : c = [kind |-> "close", op |-> nextOp, mode |-> mode]
  OBVIOUS
<1>1. nextOp \in OpIds /\ worker' = worker /\ inbox' = Append(inbox, c)
      /\ connection \in {"Connected", "Faulted"} /\ ~inTransition /\ connection' = "Closing"
      /\ inTransition' = inTransition
  BY <1>0, NextOpFresh DEF Close, Accept, Post, CInv, IInv, TypeOK
<1>2. c \in Command /\ Orders(c) /\ c.kind = "close"
  BY <1>0, <1>1 DEF Command, Orders
<1>3. Resting(worker, inbox) /\ Owned(worker)
  BY <1>1 DEF Healthy, Sent, Fits, Working, Heard, Agrees
<1>4. worker.state \in {"Connected", "Faulted"}
  BY <1>1, <1>3 DEF Resting
<1>5. Fits(c, worker)'
  BY <1>1, <1>2, <1>4 DEF Fits
<1> QED
  BY <1>1, <1>2, <1>3, <1>5, OrderPosted

LEMMA TransitionHealthy ==
  ASSUME CInv, Healthy(worker, inbox), NEW control \in ControlKind,
         NEW command \in {"acquire", "release"}, NEW o \in Owners, NEW mode \in HandoffMode,
         StartTransition(control, command, o, mode), command = "release" => o = owner
  PROVE  Healthy(worker, inbox)'
<1>0. PICK c : c = [kind |-> command, op |-> nextOp, owner |-> o, mode |-> mode]
  OBVIOUS
<1>1. nextOp \in OpIds /\ worker' = worker /\ inbox' = Append(inbox, c)
      /\ connection = "Connected" /\ ~inTransition /\ connection' = "Connected"
      /\ inTransition' /\ pendingKind' = control /\ owner' = owner /\ requests' = requests
      /\ ~accepting' /\ ops' = [ops EXCEPT ![nextOp].kind = control]
      /\ ops \in [OpIds -> Operation]
  BY <1>0, NextOpFresh DEF StartTransition, Accept, Post, CInv, IInv, TypeOK
<1>2. c \in Command /\ Orders(c) /\ c.kind = command /\ c.owner = o /\ c.op = nextOp
  BY <1>0, <1>1 DEF Command, Orders
<1>3. Resting(worker, inbox) /\ Owned(worker)
  BY <1>1 DEF Healthy, Sent, Fits, Working, Heard, Agrees
<1>4. worker.state = "Connected" /\ Linked(worker)
  BY <1>1, <1>3 DEF Resting
<1>5. Linked(worker)'
  BY <1>1, <1>4 DEF Linked, NoneOpen
<1>6. ops'[nextOp].kind = control
  BY <1>1 DEF Operation
<1>7. Fits(c, worker)'
  BY <1>1, <1>2, <1>4, <1>5, <1>6 DEF Fits
<1> QED
  BY <1>1, <1>2, <1>3, <1>7, OrderPosted

LEMMA SubmitHealthy ==
  ASSUME CInv, Healthy(worker, inbox), Submit
  PROVE  Healthy(worker, inbox)'
<1> DEFINE c == [kind |-> "enqueue", req |-> [id |-> nextId, owner |-> owner]]
<1>1. worker' = worker /\ inbox' = Append(inbox, c) /\ connection = "Connected"
      /\ connection' = connection /\ ~inTransition /\ inTransition' = inTransition
      /\ owner # NoOwner /\ owner' = owner /\ accepting
      /\ owner \in OwnerOrNone /\ nextId \in Ids
  BY DEF Submit, Post, CInv, IInv, TypeOK, Ids
<1>2. c \in Command /\ ~Orders(c) /\ Enqueues(c) /\ c.req.owner = owner
  BY <1>1 DEF Command, Orders, Enqueues, Request, OwnerOrNone
<1>3. Resting(worker, inbox) /\ Owned(worker)
  BY <1>1 DEF Healthy, Sent, Fits, Working, Heard, Agrees
<1>4. worker.state = "Connected" /\ owner = worker.owner /\ EnqueuesOwned(worker, inbox)
      /\ NoOrders(inbox) /\ NoFinals(worker.outbox) /\ NoClosings(worker.outbox)
      /\ Free(worker)
  BY <1>1, <1>3 DEF Resting, Linked
<1> HIDE DEF c
<1>5. /\ \A i \in DOMAIN inbox' : \/ i \in DOMAIN inbox /\ inbox'[i] = inbox[i]
                                  \/ inbox'[i] = c
  BY <1>1, <1>2, CInvTypes, AppendIndices
<1>6. EnqueuesOwned(worker, inbox)' /\ NoOrders(inbox)'
  BY <1>1, <1>2, <1>4, <1>5 DEF EnqueuesOwned, NoOrders
<1>7. (NoFinals(worker.outbox) /\ NoClosings(worker.outbox) /\ Free(worker)
        /\ Owned(worker) /\ Linked(worker))'
  BY <1>1, <1>3, <1>4 DEF NoFinals, NoClosings, Free, Owned, Linked
<1>8. Resting(worker, inbox)'
  BY <1>1, <1>4, <1>6, <1>7 DEF Resting
<1> QED
  BY <1>7, <1>8 DEF Healthy

LEMMA CallsHealthy ==
  ASSUME CInv, Healthy(worker, inbox), Calls
  PROVE  Healthy(worker, inbox)'
<1>1. CASE Open
  BY <1>1, OpenHealthy
<1>2. CASE \E mode \in CloseMode : Close(mode)
  BY <1>2, CloseHealthy
<1>3. CASE \E o \in Owners, mode \in HandoffMode : AcquireOwnership(o, mode)
  BY <1>3, TransitionHealthy DEF AcquireOwnership, ControlKind
<1>4. CASE \E o \in Owners, mode \in HandoffMode : ReleaseOwnership(o, mode)
  BY <1>4, TransitionHealthy DEF ReleaseOwnership, ControlKind
<1>5. CASE Submit
  BY <1>5, SubmitHealthy
<1>6. CASE \E id \in Ids : CancelRequest(id)
  <2>1. PICK id \in Ids : CancelRequest(id)
    BY <1>6
  <2> DEFINE c == [kind |-> "cancel", id |-> id]
  <2>2. c \in Command /\ ~Orders(c) /\ ~Enqueues(c)
    BY DEF Command, Orders, Enqueues
  <2>3. worker' = worker /\ inbox' = Append(inbox, c)
    BY <2>1 DEF CancelRequest, Post
  <2> HIDE DEF c
  <2>4. Healthy(worker', inbox')
    BY <2>2, <2>3, AppendHealthy, CInvTypes
  <2>5. /\ connection' = connection /\ owner' = owner /\ inTransition' = inTransition
        /\ pendingKind' = pendingKind /\ accepting' = accepting /\ requests' = requests
        /\ ops' = ops
    BY <2>1 DEF CancelRequest
  <2> QED
    BY <2>4, <2>5, FacadeKeeps DEF NoneOpen
<1>7. CASE Destroy
  <2> DEFINE c == [kind |-> "shutdown"]
  <2>2. c \in Command /\ ~Orders(c) /\ ~Enqueues(c)
    BY DEF Command, Orders, Enqueues
  <2>3. worker' = worker /\ inbox' = Append(inbox, c)
    BY <1>7 DEF Destroy, Post
  <2> HIDE DEF c
  <2>4. Healthy(worker', inbox')
    BY <2>2, <2>3, AppendHealthy, CInvTypes
  <2>5. /\ connection' = connection /\ owner' = owner /\ inTransition' = inTransition
        /\ pendingKind' = pendingKind /\ ~accepting' /\ requests' = requests
        /\ ops' = ops
    BY <1>7 DEF Destroy
  <2> QED
    BY <2>4, <2>5, FacadeKeeps DEF NoneOpen
<1> QED
  BY <1>1, <1>2, <1>3, <1>4, <1>5, <1>6, <1>7 DEF Calls

\* A slot that takes no end of a transition.
LEMMA HealthyShift ==
  ASSUME CInv, Healthy(worker, inbox), NEW kind, Take(kind), ~IsFinal(worker.outbox[1])
  PROVE  Healthy(worker', inbox)
<1> DEFINE A == worker.outbox
           B == worker'.outbox
           v == worker'
<1>1. /\ \A i \in DOMAIN B : i \in Nat /\ i >= 1 /\ i + 1 \in DOMAIN A /\ B[i] = A[i + 1]
      /\ \A i \in DOMAIN A : i = 1 \/ (i > 1 /\ i - 1 \in DOMAIN B /\ B[i - 1] = A[i])
      /\ \A i \in DOMAIN A : i \in Nat /\ i >= 1
  BY TakeHead
<1>2. /\ v.state = worker.state /\ v.port = worker.port /\ v.owner = worker.owner
      /\ v.queue = worker.queue /\ v.active = worker.active /\ v.trans = worker.trans
      /\ v.closing = worker.closing
  BY TakeStays
<1>3. /\ NoFinals(A) => NoFinals(B)
      /\ NoClosings(A) => NoClosings(B)
  BY <1>1 DEF NoFinals, NoClosings
<1> HIDE DEF A, B, v
<1>4. /\ Owned(worker) <=> Owned(v)
      /\ Free(worker) <=> Free(v)
      /\ Linked(worker) <=> Linked(v)
      /\ Idle(worker) <=> Idle(v)
      /\ EnqueuesOwned(worker, inbox) <=> EnqueuesOwned(v, inbox)
      /\ \A c : Fits(c, worker) <=> Fits(c, v)
  BY <1>2 DEF Owned, Free, Linked, Idle, EnqueuesOwned, Fits
<1>5. Resting(worker, inbox) => Resting(v, inbox)
  BY <1>2, <1>3, <1>4 DEF Resting, A, B, v
<1>6. Sent(worker, inbox) => Sent(v, inbox)
  BY <1>2, <1>3, <1>4 DEF Sent, A, B, v
<1>7. Working(worker, inbox) => Working(v, inbox)
  BY <1>2, <1>3, <1>4 DEF Working, A, B, v
<1>8. ASSUME Heard(worker, inbox)
      PROVE  Heard(v, inbox)
  <2>1. PICK f \in DOMAIN A :
          /\ \A i \in DOMAIN A : IsFinal(A[i]) <=> i = f
          /\ Agrees(worker, A[f], f)
    BY <1>8 DEF Heard, A
  <2>2. f # 1
    BY <2>1 DEF A
  <2>3. f - 1 \in DOMAIN B /\ B[f - 1] = A[f] /\ f \in Nat
    BY <1>1, <2>2
  <2>4. ASSUME NEW i \in DOMAIN B
        PROVE  /\ IsFinal(B[i]) <=> i = f - 1
               /\ i > f - 1 => i + 1 > f
               /\ i + 1 \in DOMAIN A /\ B[i] = A[i + 1]
    <3>1. i \in Nat /\ i + 1 \in DOMAIN A /\ B[i] = A[i + 1]
      BY <1>1
    <3>2. IsFinal(B[i]) <=> i + 1 = f
      BY <2>1, <3>1
    <3> QED
      BY <2>3, <3>1, <3>2
  <2>5. LastResult(A, f) => LastResult(B, f - 1)
    BY <2>4 DEF LastResult
  <2>6. (\A i \in DOMAIN A : i > f => ~IsClosing(A[i])) =>
          \A i \in DOMAIN B : i > f - 1 => ~IsClosing(B[i])
    BY <2>4
  <2>7. Agrees(v, B[f - 1], f - 1)
    BY <1>2, <1>3, <1>4, <2>1, <2>3, <2>5, <2>6 DEF Agrees, A, B, v
  <2> QED
    BY <1>4, <1>8, <2>3, <2>4, <2>7 DEF Heard, A, B, v
<1> QED
  BY <1>4, <1>5, <1>6, <1>7, <1>8 DEF Healthy, v

\* A slot that takes the end of a transition.
LEMMA FinalTaken ==
  ASSUME CInv, Balanced(worker, inbox), Healthy(worker, inbox), NEW kind, Take(kind),
         IsFinal(worker.outbox[1])
  PROVE  /\ Owned(worker)' /\ NoOrders(inbox)' /\ NoEnqueues(inbox)' /\ Free(worker)'
         /\ NoFinals(worker.outbox)' /\ NoClosings(worker.outbox)'
         /\ Agrees(worker, worker.outbox[1], 1)
         /\ Idle(worker) /\ LastResult(worker.outbox, 1) => NoneOpen
<1> DEFINE A == worker.outbox
           B == worker'.outbox
<1>1. /\ \A i \in DOMAIN B : i \in Nat /\ i >= 1 /\ i + 1 \in DOMAIN A /\ B[i] = A[i + 1]
      /\ 1 \in DOMAIN A
      /\ \A i \in DOMAIN A : i \in Nat /\ i >= 1
  BY TakeHead
<1>2. inbox' = inbox
  BY DEF Take
<1>3. Heard(worker, inbox) /\ Owned(worker)
  BY <1>1 DEF Healthy, Resting, Sent, Working, NoFinals
<1>4. PICK f \in DOMAIN A :
        /\ \A i \in DOMAIN A : IsFinal(A[i]) <=> i = f
        /\ Agrees(worker, A[f], f)
  BY <1>3 DEF Heard
<1>5. f = 1
  BY <1>1, <1>4
<1>6. NoOrders(inbox) /\ NoEnqueues(inbox) /\ Free(worker)
  BY <1>3 DEF Heard
<1>7. \A i \in DOMAIN B : ~IsFinal(B[i])
  <2>1. \A i \in DOMAIN B : i + 1 # 1
    BY <1>1
  <2> QED
    BY <1>1, <1>4, <1>5, <2>1
<1>8. \A i \in DOMAIN B : ~IsClosing(B[i])
  <2>1. \A i \in DOMAIN B : i + 1 > 1
    BY <1>1
  <2>2. NoClosings(A) \/ \A i \in DOMAIN A : i > 1 => ~IsClosing(A[i])
    BY <1>4, <1>5 DEF Agrees
  <2> QED
    BY <1>1, <2>1, <2>2 DEF NoClosings
<1>9. (NoOrders(inbox) /\ NoEnqueues(inbox))'
  BY <1>2, <1>6 DEF NoOrders, NoEnqueues
<1>10. (Free(worker) /\ Owned(worker))'
  BY <1>3, <1>6, TakeStays DEF Free, Owned
<1>11. ASSUME Idle(worker), LastResult(A, 1)
       PROVE  NoneOpen
  <2>1. Posted(inbox) = {}
    BY <1>6 DEF Posted, NoEnqueues
  <2>2. Pending(worker) = {}
    BY <1>11, WorkerIds, CInvTypes
  <2>3. \A i \in DOMAIN A : ~IsResult(A[i])
    <3>1. ~IsResult(A[1])
      BY DEF IsFinal, IsResult
    <3>2. \A i \in DOMAIN A : i = 1 \/ i > 1
      BY <1>1
    <3> QED
      BY <1>11, <3>1, <3>2 DEF LastResult
  <2>4. Held(worker) = {}
    BY <2>2, <2>3 DEF Held, Reported
  <2> QED
    BY <2>1, <2>4 DEF Balanced, NoneOpen
<1>12. (NoFinals(worker.outbox) /\ NoClosings(worker.outbox))'
  BY <1>7, <1>8 DEF NoFinals, NoClosings
<1>13. Agrees(worker, worker.outbox[1], 1)
  BY <1>4, <1>5
<1> QED
  BY <1>9, <1>10, <1>11, <1>12, <1>13

LEMMA AnsweredKinds ==
  ASSUME CInv, NEW op, NEW kind
  PROVE  \A o : Answered(op, kind)[o].kind = ops[o].kind
<1>1. ops \in [OpIds -> Operation]
  BY DEF CInv, IInv, TypeOK
<1> QED
  BY <1>1 DEF Answered, Operation

LEMMA StateChangedHealthy ==
  ASSUME CInv, Balanced(worker, inbox), Adjacent(worker), Healthy(worker, inbox),
         OnWorkerConnectionStateChanged
  PROVE  Healthy(worker, inbox)'
<1> DEFINE s == worker.outbox[1]
<1>1. /\ Take("connection") /\ s = Head(worker.outbox) /\ s.kind = "connection"
      /\ 1 \in DOMAIN worker.outbox
  BY TakeHead DEF OnWorkerConnectionStateChanged
<1>2. /\ connection' = s.state /\ requests' = requests /\ ops' = ops /\ inbox' = inbox
      /\ s.state \notin {"Faulted", "Disconnected"} =>
           owner' = owner /\ inTransition' = inTransition /\ pendingKind' = pendingKind
      /\ ~inTransition => ~inTransition'
  BY <1>1, CInvTypes DEF OnWorkerConnectionStateChanged, Take, CInv, IInv, TypeOK
<1>3. CASE IsFinal(s)
  <2>1. /\ Owned(worker)' /\ NoOrders(inbox)' /\ NoEnqueues(inbox)' /\ Free(worker)'
        /\ NoFinals(worker.outbox)' /\ NoClosings(worker.outbox)'
        /\ Agrees(worker, s, 1)
        /\ Idle(worker) /\ LastResult(worker.outbox, 1) => NoneOpen
    BY <1>1, <1>3, FinalTaken
  <2>2. worker'.state = worker.state /\ worker'.port = worker.port
        /\ worker'.owner = worker.owner
    BY <1>1, TakeStays
  <2>3. NoneOpen => NoneOpen'
    BY <1>2 DEF NoneOpen
  <2>4. EnqueuesOwned(worker, inbox)'
    BY <2>1 DEF NoEnqueues, EnqueuesOwned
  <2>5. ~inTransition /\ s.state = worker.state
    BY <1>1, <2>1 DEF Agrees, IsDown, IsGrant
  <2>6. CASE connection = "Opening"
    <3>1. /\ owner = NoOwner /\ NoneOpen /\ IsUp(s)
          /\ worker.state = "Connected" => worker.owner = NoOwner
      BY <2>1, <2>6 DEF Agrees
    <3>2. s.state # "Opening" /\ s.state \in ConnectionState
      <4>1. s.state # "Opening"
        BY <1>1 DEF Adjacent, IsTurn
      <4>2. worker.state \in ConnectionState
        BY CInvTypes DEF Worker
      <4> QED
        BY <2>5, <4>1, <4>2
    <3>3. s.state \in {"Connected", "Faulted"}
      BY <3>1, <3>2 DEF IsUp, ConnectionState
    <3>4. s.state = "Connected" => Linked(worker)'
      BY <1>2, <2>2, <2>3, <2>5, <3>1 DEF Linked
    <3>5. Resting(worker, inbox)'
      BY <1>2, <2>1, <2>2, <2>4, <2>5, <3>3, <3>4 DEF Resting
    <3> QED
      BY <2>1, <3>5 DEF Healthy
  <2>7. CASE connection # "Opening"
    <3>1. /\ Idle(worker) /\ LastResult(worker.outbox, 1) /\ IsDown(s)
          /\ worker.state = "Disconnected" /\ ~worker.port
      BY <1>1, <2>1, <2>7 DEF Agrees, IsGrant
    <3>2. Resting(worker, inbox)'
      BY <1>2, <2>1, <2>2, <2>3, <2>5, <3>1 DEF Resting
    <3> QED
      BY <2>1, <3>2 DEF Healthy
  <2> QED
    BY <2>6, <2>7
<1>4. CASE ~IsFinal(s)
  <2>1. s.state = "Closing" /\ IsClosing(s)
    BY <1>1, <1>4 DEF IsFinal, IsClosing
  <2>2. connection = "Closing"
    <3>1. ~NoClosings(worker.outbox)
      BY <1>1, <2>1 DEF NoClosings
    <3> QED
      BY <3>1 DEF Healthy, Resting, Sent, Working, Heard, Agrees
  <2>3. Healthy(worker', inbox')
    BY <1>1, <1>2, <1>4, HealthyShift
  <2>4. accepting' => accepting
    BY <1>1, <2>1 DEF OnWorkerConnectionStateChanged
  <2> HIDE DEF s
  <2>5. connection' = connection /\ owner' = owner /\ inTransition' = inTransition
        /\ pendingKind' = pendingKind
    BY <1>2, <2>1, <2>2
  <2> QED
    BY <1>2, <2>3, <2>4, <2>5, FacadeKeeps DEF NoneOpen
<1> QED
  BY <1>3, <1>4

LEMMA ControlCompletedHealthy ==
  ASSUME CInv, Adjacent(worker), Healthy(worker, inbox), OnWorkerControlCompleted
  PROVE  Healthy(worker, inbox)'
<1> DEFINE s == worker.outbox[1]
           closed == s.control = "Close" /\ s.ok
<1>1. /\ Take("control") /\ s = Head(worker.outbox) /\ s.kind = "control"
      /\ 1 \in DOMAIN worker.outbox
  BY TakeHead DEF OnWorkerControlCompleted
<1>2. /\ connection' = connection /\ requests' = requests /\ inbox' = inbox
      /\ accepting' = (accepting /\ ~s.ok)
      /\ owner' = (IF closed THEN NoOwner ELSE owner)
      /\ inTransition' = (inTransition /\ ~closed)
      /\ pendingKind' = (IF closed THEN "None" ELSE pendingKind)
      /\ ops' = Answered(s.op, s.control)
  BY <1>1 DEF OnWorkerControlCompleted, Take
<1>3. Healthy(worker', inbox')
  BY <1>1, <1>2, HealthyShift DEF IsFinal
<1>4. \A op : ops'[op].kind = ops[op].kind
  BY <1>2, AnsweredKinds
<1>5. CASE ~closed
  <2> HIDE DEF s
  <2>1. (inTransition' <=> inTransition) /\ inTransition \in BOOLEAN
    BY <1>2, <1>5 DEF CInv, IInv, TypeOK
  <2>2. inTransition' = inTransition
    BY <1>2, <1>5, <2>1
  <2>3. (accepting' => accepting) /\ owner' = owner /\ pendingKind' = pendingKind
    BY <1>2, <1>5
  <2> QED
    BY <1>2, <1>3, <1>4, <2>2, <2>3, FacadeKeeps DEF NoneOpen
<1>6. CASE closed
  <2>1. connection \in {"Disconnected", "Opening"}
    <3>1. connection \in Since(About(s))
      BY <1>1 DEF Adjacent
    <3> QED
      BY <1>6, <3>1 DEF Since, About
  <2> HIDE DEF s
  <2>2. owner' = NoOwner /\ ~inTransition'
    BY <1>2, <1>6
  <2>3. /\ Owned(worker') <=> Owned(worker)'
        /\ NoOrders(inbox') <=> NoOrders(inbox)'
        /\ NoEnqueues(inbox') <=> NoEnqueues(inbox)'
        /\ NoFinals(worker'.outbox) <=> NoFinals(worker.outbox)'
        /\ NoClosings(worker'.outbox) <=> NoClosings(worker.outbox)'
        /\ Free(worker') <=> Free(worker)'
        /\ NoneOpen <=> NoneOpen'
    BY <1>2 DEF Owned, NoOrders, NoEnqueues, NoFinals, NoClosings, Free, NoneOpen
  <2>4. Resting(worker', inbox') => Resting(worker, inbox)'
    BY <1>2, <2>1, <2>2, <2>3 DEF Resting
  <2>5. \A m : Fits(inbox'[m], worker') => Fits(inbox[m], worker)'
    BY <1>2, <2>1, <2>2, <2>3 DEF Fits
  <2>6. Sent(worker', inbox') => Sent(worker, inbox)'
    <3> SUFFICES ASSUME Sent(worker', inbox')
                 PROVE  Sent(worker, inbox)'
      OBVIOUS
    <3>1. PICK m \in DOMAIN inbox' :
            /\ \A i \in DOMAIN inbox' :
                 (Orders(inbox'[i]) <=> i = m) /\ (Enqueues(inbox'[i]) => i < m)
            /\ Fits(inbox'[m], worker')
      BY DEF Sent
    <3>2. worker'.state # "Connected"
      BY <2>1, <3>1 DEF Fits
    <3> QED
      BY <2>3, <2>5, <3>1, <3>2 DEF Sent
  <2>7. ~Working(worker', inbox')
    BY <2>1 DEF Working
  <2>8. \A f : Agrees(worker', worker'.outbox[f], f) => Agrees(worker, worker.outbox[f], f)'
    BY <1>2, <2>1, <2>2, <2>3 DEF Agrees
  <2>9. Heard(worker', inbox') => Heard(worker, inbox)'
    BY <2>3, <2>8 DEF Heard
  <2> QED
    BY <1>3, <2>3, <2>4, <2>6, <2>7, <2>9 DEF Healthy
<1> QED
  BY <1>5, <1>6

LEMMA OwnershipChangedHealthy ==
  ASSUME CInv, Balanced(worker, inbox), Healthy(worker, inbox), OnWorkerOwnershipChanged
  PROVE  Healthy(worker, inbox)'
<1> DEFINE s == worker.outbox[1]
<1>1. /\ Take("ownership") /\ s = Head(worker.outbox) /\ s.kind = "ownership"
  BY TakeHead DEF OnWorkerOwnershipChanged
<1>2. /\ connection' = connection /\ requests' = requests /\ ~inTransition'
      /\ owner' = IF s.ok THEN s.owner ELSE owner
  BY <1>1 DEF OnWorkerOwnershipChanged
<1>3. /\ Owned(worker)' /\ NoOrders(inbox)' /\ NoEnqueues(inbox)' /\ Free(worker)'
      /\ NoFinals(worker.outbox)' /\ NoClosings(worker.outbox)'
      /\ Agrees(worker, s, 1)
      /\ Idle(worker) /\ LastResult(worker.outbox, 1) => NoneOpen
  BY <1>1, FinalTaken DEF IsFinal
<1>4. /\ connection = "Connected" /\ worker.state = "Connected" /\ IsGrant(s)
      /\ s.owner = worker.owner /\ (owner = NoOwner => NoneOpen)
      /\ s.owner = owner \/ NoneOpen
  BY <1>1, <1>3 DEF Agrees, IsUp, IsDown
<1>5. worker'.state = worker.state /\ worker'.owner = worker.owner
  BY <1>1, TakeStays
<1>6. owner' = worker.owner
  BY <1>2, <1>4 DEF IsGrant
<1>7. NoneOpen => NoneOpen'
  BY <1>2 DEF NoneOpen
<1> HIDE DEF s
<1>8. Linked(worker)'
  BY <1>4, <1>5, <1>6, <1>7 DEF Linked
<1>9. EnqueuesOwned(worker, inbox)'
  BY <1>3 DEF NoEnqueues, EnqueuesOwned
<1>10. Resting(worker, inbox)'
  BY <1>2, <1>3, <1>4, <1>5, <1>8, <1>9 DEF Resting
<1> QED
  BY <1>3, <1>10 DEF Healthy

LEMMA RequestsHealthy ==
  ASSUME CInv, Healthy(worker, inbox),
         OnWorkerRequestStateChanged \/ OnWorkerRequestCompleted
  PROVE  Healthy(worker, inbox)'
<1>1. PICK kind \in {"state", "completed"} : Take(kind)
  BY DEF OnWorkerRequestStateChanged, OnWorkerRequestCompleted
<1>2. worker.outbox[1].kind = kind
  BY <1>1, TakeHead
<1>3. Healthy(worker', inbox')
  BY <1>1, <1>2, HealthyShift DEF IsFinal, Take
<1>4. /\ connection' = connection /\ owner' = owner /\ inTransition' = inTransition
      /\ pendingKind' = pendingKind /\ accepting' = accepting /\ ops' = ops
  BY DEF OnWorkerRequestStateChanged, OnWorkerRequestCompleted
<1>5. requests \in [Ids -> RequestState \cup {"None"}]
  BY DEF CInv, IInv, TypeOK
<1>6. NoneOpen => NoneOpen'
  BY <1>5 DEF OnWorkerRequestStateChanged, OnWorkerRequestCompleted, NoneOpen
<1> QED
  BY <1>3, <1>4, <1>6, FacadeKeeps

HealthInv == Base /\ (faults = 0 /\ ~worker.stopped => Healthy(worker, inbox))

LEMMA HealthNext ==
  ASSUME HealthInv, [Next]_vars
  PROVE  HealthInv'
<1>1. Base' /\ CInv
  BY BaseNext DEF HealthInv, Base
<1>2. worker.stopped => worker'.stopped
  BY StoppedNext DEF HealthInv, Base
<1>3. SUFFICES ASSUME faults' = 0, ~worker'.stopped
               PROVE  Healthy(worker, inbox)'
  BY <1>1 DEF HealthInv
<1>4. CASE Calls
  <2>1. Healthy(worker, inbox)
    BY <1>2, <1>3, <1>4, CallsPost DEF HealthInv
  <2> QED
    BY <1>1, <1>4, <2>1, CallsHealthy
<1>5. CASE FacadeSlots
  <2>1. Healthy(worker, inbox) /\ Balanced(worker, inbox) /\ Adjacent(worker)
    BY <1>2, <1>3, <1>5, SlotsTake DEF HealthInv, Base
  <2> QED
    BY <1>1, <1>5, <2>1, StateChangedHealthy, ControlCompletedHealthy,
       OwnershipChangedHealthy, RequestsHealthy DEF FacadeSlots
<1>6. CASE WorkerEvents
  <2>1. Works
    BY <1>1, <1>6, WorkerEventsWork
  <2>2. faults' = faults \/ faults' = faults + 1
    BY <2>1 DEF Works
  <2>3. faults = 0
    BY <1>1, <1>3, <2>2 DEF CInv, IInv, TypeOK
  <2>4. Healthy(worker', inbox')
    BY <1>1, <1>2, <1>3, <2>1, <2>3, HealthyWorks DEF HealthInv
  <2> QED
    BY <2>1, <2>4, FacadeKeeps DEF Works, facadeVars, NoneOpen
<1>7. CASE UNCHANGED vars
  <2>1. Healthy(worker, inbox)
    BY <1>3, <1>7 DEF HealthInv, vars
  <2>2. Healthy(worker', inbox')
    BY <1>7, <2>1 DEF vars
  <2> QED
    BY <1>7, <2>2, FacadeKeeps DEF vars, facadeVars, NoneOpen
<1> QED
  BY <1>4, <1>5, <1>6, <1>7 DEF Next

LEMMA InitHealth ==
  ASSUME Init
  PROVE  HealthInv
<1>1. Base
  BY InitBase
<1>2. /\ connection = "Disconnected" /\ ~inTransition /\ inbox = <<>> /\ NoneOpen
      /\ worker.state = "Disconnected" /\ ~worker.port /\ worker.queue = <<>>
      /\ worker.active = NoRequest /\ worker.trans = NoTransition /\ worker.closing = 0
      /\ worker.outbox = <<>>
  BY DEF Init, NoneOpen
<1>3. Resting(worker, inbox)
  BY <1>2 DEF Resting, NoOrders, NoFinals, NoClosings, Free
<1>4. Owned(worker)
  BY <1>2 DEF Owned
<1> QED
  BY <1>1, <1>3, <1>4 DEF HealthInv, Healthy

\* As long as the port has not failed, the worker holds requests of the consumer to
\* which the line belongs and of no other: a handover waits for the request in
\* flight, and none is accepted for the next owner before the worker serves it.
THEOREM HealthyPortServesOwner == Spec => [](faults = 0 => InFlightBelongsToOwner)
<1>1. Init => HealthInv
  BY InitHealth
<1>2. HealthInv /\ [Next]_vars => HealthInv'
  BY HealthNext
<1>3. HealthInv => (faults = 0 => InFlightBelongsToOwner)
  BY DEF HealthInv, Base, Healthy, Owned, InFlightBelongsToOwner, Off, Idle
<1> QED
  BY <1>1, <1>2, <1>3, PTL DEF Spec

=============================================================================
