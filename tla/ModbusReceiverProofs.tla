------------------------ MODULE ModbusReceiverProofs ------------------------
(***************************************************************************)
(* Theorems about ModbusReceiver, for every value of its constants.        *)
(*                                                                         *)
(* The two callbacks and the poll are operators on the port record.  Each  *)
(* has a lemma saying that the record stays well formed and that no byte   *)
(* enters it but the one that has just arrived.  The second part is about  *)
(* time: when a message begins the port is at rest, so it is delivered.    *)
(***************************************************************************)
EXTENDS ModbusReceiver, SequenceTheorems, TLAPS

\* The bytes the interrupt holds for the main loop.
Held(p) == {p.receiver.bytes[i] : i \in DOMAIN p.receiver.bytes}
             \cup {p.chunk[i] : i \in DOMAIN p.chunk}

WellFormed(p) ==
  /\ p \in Port
  /\ Len(p.chunk) < MaxADU /\ Len(p.receiver.bytes) <= MaxADU
  /\ Ordered(p.receiver.bytes) /\ Ordered(p.chunk)
  /\ Precedes(p.receiver.bytes, p.chunk)
  /\ p.armed \/ p.rearm

\* The byte has been sent.
Sent(b) == b.msg < Len(lengths) \/ (b.msg = Len(lengths) /\ b.pos <= sent)

LineOrder ==
  /\ \A b \in Held(port) : Sent(b)
  /\ \A k \in DOMAIN delivered : \A i \in DOMAIN delivered[k] :
       /\ Sent(delivered[k][i])
       /\ \A b \in Held(port) : Before(delivered[k][i], b)
  /\ FramesInOrder

IInv == TypeOK /\ WellFormed(port) /\ ErrorsReportedOnce /\ LineOrder

-----------------------------------------------------------------------------
LEMMA EmptyReceiver ==
  /\ RtuRxInit \in Receiver
  /\ Len(RtuRxInit.bytes) = 0 /\ DOMAIN RtuRxInit.bytes = {}
<1>1. <<>> \in Seq(Byte) /\ 0 \in 0..(ClockSize - 1)
  BY ReceiverAssumption
<1> QED
  BY <1>1 DEF RtuRxInit, Receiver

\* What the receiver holds after a chunk is the start of what it held and the
\* chunk, in this order, and fits the array.
LEMMA PushBytesHolds ==
  ASSUME NEW r \in Receiver, NEW c \in Seq(Byte), NEW t \in 0..(ClockSize - 1),
         Len(r.bytes) <= MaxADU
  PROVE  LET q == PushBytes(r, c, t)
         IN /\ q \in Receiver /\ Len(q.bytes) <= MaxADU
            /\ Len(q.bytes) <= Len(r.bytes) + Len(c)
            /\ \A i \in DOMAIN q.bytes :
                 q.bytes[i] = IF i <= Len(r.bytes) THEN r.bytes[i] ELSE c[i - Len(r.bytes)]
<1> DEFINE s == r.bytes \o c
           n == Shorter(Len(r.bytes) + Len(c))
<1>1. r.bytes \in Seq(Byte) /\ r.overflow \in BOOLEAN /\ Len(r.bytes) \in Nat /\ Len(c) \in Nat
  BY DEF Receiver
<1>2. s \in Seq(Byte) /\ Len(s) = Len(r.bytes) + Len(c)
  BY <1>1
<1>3. n \in 0..Len(s) /\ n <= MaxADU
  BY <1>1, <1>2, ReceiverAssumption DEF Shorter
<1>4. SubSeq(s, 1, n) \in Seq(Byte) /\ Len(SubSeq(s, 1, n)) = n
      /\ \A i \in 1..n : SubSeq(s, 1, n)[i] = s[i]
  BY SMTT(30), <1>2, <1>3, SubSeqProperties
<1>5. \A i \in 1..Len(s) : s[i] = IF i <= Len(r.bytes) THEN r.bytes[i] ELSE c[i - Len(r.bytes)]
  BY <1>1, <1>2
<1>6. PushBytes(r, c, t).bytes = SubSeq(s, 1, n)
  BY DEF PushBytes
<1>7. PushBytes(r, c, t) \in Receiver
  BY <1>1, <1>4 DEF PushBytes, Receiver
<1> DEFINE q == PushBytes(r, c, t)
<1> HIDE DEF s, n, q
<1>8. Len(q.bytes) = n /\ DOMAIN q.bytes = 1..n /\ \A i \in 1..n : q.bytes[i] = s[i]
  BY <1>4, <1>6, LenProperties DEF q
<1>9. \A i \in DOMAIN q.bytes :
        q.bytes[i] = IF i <= Len(r.bytes) THEN r.bytes[i] ELSE c[i - Len(r.bytes)]
  <2>1. Len(s) \in Nat /\ 1..n \subseteq 1..Len(s)
    BY <1>1, <1>2, <1>3
  <2> QED
    BY <1>5, <1>8, <2>1
<1>10. q \in Receiver /\ Len(q.bytes) <= MaxADU /\ Len(q.bytes) <= Len(r.bytes) + Len(c)
  BY <1>1, <1>2, <1>3, <1>7, <1>8 DEF q
<1> QED
  BY <1>9, <1>10 DEF q

LEMMA RxEventWellFormed ==
  ASSUME NEW p, WellFormed(p) \/ (/\ p \in Port
                                  /\ Len(p.chunk) <= MaxADU /\ Len(p.receiver.bytes) <= MaxADU
                                  /\ Ordered(p.receiver.bytes) /\ Ordered(p.chunk)
                                  /\ Precedes(p.receiver.bytes, p.chunk)),
         NEW ok \in BOOLEAN, clock \in 0..(ClockSize - 1)
  PROVE  LET q == RxEventCallback(p, ok)
         IN WellFormed(q) /\ Held(q) \subseteq Held(p) /\ q.pending = p.pending
<1> DEFINE q == RxEventCallback(p, ok)
           r == p.receiver
           c == p.chunk
<1>1. /\ p \in Port /\ r \in Receiver /\ c \in Seq(Byte) /\ r.bytes \in Seq(Byte)
      /\ Len(r.bytes) <= MaxADU
      /\ Ordered(r.bytes) /\ Ordered(c) /\ Precedes(r.bytes, c)
  BY DEF WellFormed, Port, Receiver
<1>2. /\ q.receiver = PushBytes(r, c, clock) /\ q.chunk = <<>>
      /\ q.armed = ok /\ q.rearm = (p.rearm \/ ~ok) /\ q.pending = p.pending
  BY <1>1 DEF RxEventCallback, Port
<1>3. /\ q.receiver \in Receiver /\ q.receiver.bytes \in Seq(Byte)
      /\ Len(q.receiver.bytes) <= MaxADU
      /\ Len(q.receiver.bytes) <= Len(r.bytes) + Len(c)
      /\ \A i \in DOMAIN q.receiver.bytes :
           q.receiver.bytes[i] = IF i <= Len(r.bytes) THEN r.bytes[i] ELSE c[i - Len(r.bytes)]
  <2> HIDE DEF q, r, c
  <2> DEFINE u == PushBytes(r, c, clock)
  <2>1. /\ u \in Receiver /\ Len(u.bytes) <= MaxADU
        /\ Len(u.bytes) <= Len(r.bytes) + Len(c)
        /\ \A i \in DOMAIN u.bytes :
             u.bytes[i] = IF i <= Len(r.bytes) THEN r.bytes[i] ELSE c[i - Len(r.bytes)]
    BY <1>1, PushBytesHolds
  <2>2. q.receiver = u
    BY <1>2
  <2> HIDE DEF u
  <2> QED
    BY <2>1, <2>2 DEF Receiver
<1>4. q \in Port
  <2>1. <<>> \in Seq(Byte)
    OBVIOUS
  <2> QED
    BY <1>1, <1>2, <1>3, <2>1 DEF RxEventCallback, Port
<1> HIDE DEF q, r, c
<1>5. \A i \in DOMAIN q.receiver.bytes :
        \/ i \in DOMAIN r.bytes /\ q.receiver.bytes[i] = r.bytes[i]
        \/ /\ i - Len(r.bytes) \in DOMAIN c /\ i > Len(r.bytes)
           /\ q.receiver.bytes[i] = c[i - Len(r.bytes)]
  BY <1>1, <1>3
<1>6. Ordered(q.receiver.bytes)
  <2> SUFFICES ASSUME NEW i \in DOMAIN q.receiver.bytes, NEW j \in DOMAIN q.receiver.bytes, i < j
               PROVE  Before(q.receiver.bytes[i], q.receiver.bytes[j])
    BY DEF Ordered
  <2>1. i \in Nat /\ j \in Nat /\ Len(r.bytes) \in Nat
    BY <1>1, <1>3
  <2>2. CASE j \in DOMAIN r.bytes /\ q.receiver.bytes[j] = r.bytes[j]
    BY <1>1, <1>5, <2>1, <2>2 DEF Ordered
  <2>3. CASE /\ j - Len(r.bytes) \in DOMAIN c /\ j > Len(r.bytes)
             /\ q.receiver.bytes[j] = c[j - Len(r.bytes)]
    <3>1. CASE i \in DOMAIN r.bytes /\ q.receiver.bytes[i] = r.bytes[i]
      BY <1>1, <2>3, <3>1 DEF Precedes
    <3>2. CASE /\ i - Len(r.bytes) \in DOMAIN c /\ i > Len(r.bytes)
               /\ q.receiver.bytes[i] = c[i - Len(r.bytes)]
      <4>1. i - Len(r.bytes) < j - Len(r.bytes)
        BY <2>1
      <4> QED
        BY <1>1, <2>3, <3>2, <4>1 DEF Ordered
    <3> QED
      BY <1>5, <3>1, <3>2
  <2> QED
    BY <1>5, <2>2, <2>3
<1>7. Ordered(q.chunk) /\ Precedes(q.receiver.bytes, q.chunk) /\ Len(q.chunk) < MaxADU
  BY <1>2, ReceiverAssumption DEF Ordered, Precedes
<1>8. Held(q) \subseteq Held(p)
  <2>1. DOMAIN q.chunk = {}
    BY <1>2
  <2> QED
    BY <1>5, <2>1 DEF Held, r, c
<1>9. q.armed \/ q.rearm
  BY <1>1, <1>2 DEF Port
<1> QED
  BY <1>2, <1>3, <1>4, <1>6, <1>7, <1>8, <1>9 DEF WellFormed, q

\* The discarded receiver and the counted error.
LEMMA ErrorWellFormed ==
  ASSUME NEW p, p \in Port, Len(p.chunk) < MaxADU, Ordered(p.chunk),
         p.pending < MaxErrorCount
  PROVE  LET q == ErrorCallback(p)
         IN WellFormed(q) /\ Held(q) \subseteq Held(p) /\ q.pending = p.pending + 1
<1> DEFINE q == ErrorCallback(p)
<1>1. /\ q.receiver = RtuRxInit /\ q.chunk = p.chunk
      /\ q.rearm = TRUE /\ q.pending = p.pending + 1
  BY DEF ErrorCallback, Port
<1>2. q \in Port
  <2>1. p.pending + 1 \in 0..MaxErrorCount
    BY ReceiverAssumption DEF Port
  <2> QED
    BY <1>1, <2>1, EmptyReceiver DEF ErrorCallback, Port
<1>3. Len(q.receiver.bytes) <= MaxADU /\ DOMAIN q.receiver.bytes = {}
  BY <1>1, EmptyReceiver, ReceiverAssumption
<1> HIDE DEF q
<1>4. Ordered(q.receiver.bytes) /\ Precedes(q.receiver.bytes, q.chunk)
  BY <1>3 DEF Ordered, Precedes
<1>5. Held(q) \subseteq Held(p)
  BY <1>1, <1>3 DEF Held
<1> QED
  BY <1>1, <1>2, <1>3, <1>4, <1>5 DEF WellFormed, q

\* A byte later than all the port holds.
LEMMA StoreByteWellFormed ==
  ASSUME NEW p, WellFormed(p), NEW b \in Byte, \A x \in Held(p) : Before(x, b),
         NEW ok \in BOOLEAN, clock \in 0..(ClockSize - 1)
  PROVE  LET q == StoreByte(p, b, ok)
         IN /\ WellFormed(q) /\ Held(q) \subseteq Held(p) \cup {b}
            /\ q.pending = p.pending
<1> DEFINE g == [p EXCEPT !.chunk = Append(@, b)]
<1>1. /\ p \in Port /\ p.chunk \in Seq(Byte) /\ p.receiver \in Receiver
      /\ p.receiver.bytes \in Seq(Byte)
      /\ Len(p.chunk) < MaxADU /\ Len(p.receiver.bytes) <= MaxADU
      /\ Ordered(p.receiver.bytes) /\ Ordered(p.chunk)
      /\ Precedes(p.receiver.bytes, p.chunk)
  BY DEF WellFormed, Port, Receiver
<1>2. /\ g.chunk = Append(p.chunk, b) /\ g.receiver = p.receiver
      /\ g.pending = p.pending /\ g.armed = p.armed /\ g.rearm = p.rearm
  BY <1>1 DEF Port
<1>3. /\ g.chunk \in Seq(Byte) /\ Len(g.chunk) = Len(p.chunk) + 1
      /\ \A i \in DOMAIN g.chunk : IF i <= Len(p.chunk)
                                     THEN i \in DOMAIN p.chunk /\ g.chunk[i] = p.chunk[i]
                                     ELSE g.chunk[i] = b
  <2>1. p.chunk \in Seq(Byte)
    BY <1>1
  <2>2. Append(p.chunk, b) \in Seq(Byte) /\ Len(Append(p.chunk, b)) = Len(p.chunk) + 1
        /\ \A i \in 1..Len(p.chunk) : Append(p.chunk, b)[i] = p.chunk[i]
        /\ Append(p.chunk, b)[Len(p.chunk) + 1] = b
    BY <2>1, AppendProperties
  <2> QED
    BY <1>2, <2>1, <2>2
<1>4. g \in Port
  BY <1>1, <1>3, <1>2 DEF Port
<1> HIDE DEF g
<1>5. \A i \in DOMAIN p.chunk : Before(p.chunk[i], b)
  BY DEF Held
<1>6. \A i \in DOMAIN p.receiver.bytes : Before(p.receiver.bytes[i], b)
  BY DEF Held
<1>7. Ordered(g.chunk)
  <2> SUFFICES ASSUME NEW i \in DOMAIN g.chunk, NEW j \in DOMAIN g.chunk, i < j
               PROVE  Before(g.chunk[i], g.chunk[j])
    BY DEF Ordered
  <2>1. i \in Nat /\ j \in Nat /\ j <= Len(p.chunk) + 1 /\ Len(p.chunk) \in Nat
    BY SMTT(30), <1>1, <1>3
  <2>2. i <= Len(p.chunk) /\ i \in DOMAIN p.chunk /\ g.chunk[i] = p.chunk[i]
    BY <1>3, <2>1
  <2>3. CASE j <= Len(p.chunk)
    BY <1>1, <1>3, <2>2, <2>3 DEF Ordered
  <2>4. CASE ~(j <= Len(p.chunk))
    BY <1>3, <1>5, <2>2, <2>4
  <2> QED
    BY <2>3, <2>4
<1>8. Precedes(g.receiver.bytes, g.chunk)
  BY <1>1, <1>2, <1>3, <1>6 DEF Precedes
<1>9. Held(g) \subseteq Held(p) \cup {b}
  BY <1>2, <1>3 DEF Held
<1>10. CASE FillsChunk(p)
  <2>1. StoreByte(p, b, ok) = RxEventCallback(g, ok)
    BY <1>10 DEF StoreByte, g
  <2>2. Len(g.chunk) <= MaxADU /\ Len(g.receiver.bytes) <= MaxADU /\ Ordered(g.receiver.bytes)
    BY <1>1, <1>2, <1>3, <1>10 DEF FillsChunk
  <2>3. LET q == RxEventCallback(g, ok)
        IN WellFormed(q) /\ Held(q) \subseteq Held(g) /\ q.pending = g.pending
    BY <1>4, <1>7, <1>8, <2>2, RxEventWellFormed
  <2> QED
    BY <1>2, <1>9, <2>1, <2>3
<1>11. CASE ~FillsChunk(p)
  <2>1. StoreByte(p, b, ok) = g
    BY <1>11 DEF StoreByte, g
  <2>2. Len(g.chunk) < MaxADU
    BY <1>1, <1>3, <1>11, ReceiverAssumption DEF FillsChunk
  <2>3. WellFormed(g)
    BY <1>1, <1>2, <1>4, <1>7, <1>8, <2>2 DEF WellFormed
  <2> QED
    BY <1>2, <1>9, <2>1, <2>3
<1> QED
  BY <1>10, <1>11

LEMMA ReceiveByteWellFormed ==
  ASSUME NEW p, WellFormed(p), NEW b \in Byte, \A x \in Held(p) : Before(x, b),
         NEW ok \in BOOLEAN, clock \in 0..(ClockSize - 1),
         NEW fault \in {"none", "line", "overrun"},
         fault # "none" => p.pending < MaxErrorCount
  PROVE  LET q == ReceiveByte(p, b, fault, ok)
         IN /\ WellFormed(q) /\ Held(q) \subseteq Held(p) \cup {b}
            /\ q.pending = IF fault = "none" THEN p.pending ELSE p.pending + 1
<1> DEFINE g == StoreByte(p, b, ok)
           h == [g EXCEPT !.armed = FALSE, !.chunk = <<>>]
<1>1. WellFormed(g) /\ Held(g) \subseteq Held(p) \cup {b} /\ g.pending = p.pending
  BY StoreByteWellFormed
<1>2. g \in Port /\ Len(g.chunk) < MaxADU /\ Ordered(g.chunk)
  BY <1>1 DEF WellFormed
<1> HIDE DEF g
<1>3. CASE fault = "none"
  <2>1. ReceiveByte(p, b, fault, ok) = g
    BY <1>3 DEF ReceiveByte, g
  <2> QED
    BY <1>1, <1>3, <2>1
<1>4. CASE fault = "line" \/ (fault = "overrun" /\ g.chunk = <<>>)
  <2>1. ReceiveByte(p, b, fault, ok) = ErrorCallback(g)
    BY <1>4 DEF ReceiveByte, g
  <2>2. LET q == ErrorCallback(g)
        IN WellFormed(q) /\ Held(q) \subseteq Held(g) /\ q.pending = g.pending + 1
    BY <1>1, <1>2, <1>4, ErrorWellFormed
  <2> QED
    BY <1>1, <1>4, <2>1, <2>2
<1>5. CASE fault = "overrun" /\ g.chunk # <<>>
  <2>1. ReceiveByte(p, b, fault, ok) = ErrorCallback(h)
    BY <1>5 DEF ReceiveByte, g, h
  <2>2. /\ h \in Port /\ h.chunk = <<>> /\ h.pending = g.pending
        /\ h.receiver = g.receiver
    <3>1. <<>> \in Seq(Byte)
      OBVIOUS
    <3> QED
      BY <1>2, <3>1 DEF Port, h
  <2>3. Len(h.chunk) < MaxADU /\ Ordered(h.chunk)
    BY <2>2, ReceiverAssumption DEF Ordered
  <2>4. Held(h) \subseteq Held(g)
    <3>1. DOMAIN h.chunk = {}
      BY <2>2
    <3> QED
      BY <2>2, <3>1 DEF Held
  <2> HIDE DEF h
  <2>5. LET q == ErrorCallback(h)
        IN WellFormed(q) /\ Held(q) \subseteq Held(h) /\ q.pending = h.pending + 1
    BY <1>1, <1>5, <2>2, <2>3, ErrorWellFormed
  <2> QED
    BY <1>1, <1>5, <2>1, <2>2, <2>4, <2>5
<1> QED
  BY <1>3, <1>4, <1>5

LEMMA RearmWellFormed ==
  ASSUME NEW p, WellFormed(p), NEW ok \in BOOLEAN
  PROVE  LET q == Rearm(p, ok)
         IN /\ WellFormed(q) /\ Held(q) \subseteq Held(p)
            /\ q.pending = p.pending /\ q.receiver = p.receiver
<1> DEFINE q == [p EXCEPT !.armed = ok, !.chunk = <<>>, !.rearm = ~ok]
<1>1. p \in Port /\ Len(p.receiver.bytes) <= MaxADU /\ Ordered(p.receiver.bytes)
  BY DEF WellFormed
<1>2. /\ q \in Port /\ q.chunk = <<>> /\ q.pending = p.pending
      /\ q.receiver = p.receiver /\ q.armed = ok /\ q.rearm = ~ok
  <2>1. <<>> \in Seq(Byte)
    OBVIOUS
  <2> QED
    BY <1>1, <2>1 DEF Port
<1> HIDE DEF q
<1>3. DOMAIN q.chunk = {} /\ Len(q.chunk) < MaxADU
  BY <1>2, ReceiverAssumption
<1>4. WellFormed(q)
  BY <1>1, <1>2, <1>3 DEF WellFormed, Ordered, Precedes
<1>5. Held(q) \subseteq Held(p)
  BY <1>2, <1>3 DEF Held
<1> QED
  BY <1>2, <1>4, <1>5 DEF Rearm, q

-----------------------------------------------------------------------------
LEMMA ArmFailuresCounted ==
  ASSUME TypeOK, NEW tried \in BOOLEAN, NEW ok \in ArmOutcomes, CountArm(tried, ok)
  PROVE  ok \in BOOLEAN /\ armFailures' \in 0..MaxArmFailures
<1>1. ok \in BOOLEAN
  BY DEF ArmOutcomes
<1>2. armFailures \in 0..MaxArmFailures
  BY DEF TypeOK
<1>3. CASE tried /\ ok = FALSE
  <2>1. armFailures < MaxArmFailures
    BY <1>3 DEF ArmOutcomes
  <2>2. armFailures' = armFailures + 1
    BY <1>3 DEF CountArm
  <2> QED
    BY <1>1, <1>2, <2>1, <2>2, ReceiverAssumption
<1>4. CASE ~tried \/ ok = TRUE
  <2>1. armFailures' = armFailures
    BY <1>4 DEF CountArm
  <2> QED
    BY <1>1, <1>2, <2>1
<1> QED
  BY <1>1, <1>3, <1>4

\* The order of the bytes survives what takes no new byte in and delivers none.
LEMMA OrderKept ==
  ASSUME LineOrder, Held(port)' \subseteq Held(port), UNCHANGED <<lengths, sent, delivered>>
  PROVE  LineOrder'
<1>1. \A b : Sent(b)' = Sent(b)
  BY DEF Sent
<1> QED
  BY <1>1 DEF LineOrder, FramesInOrder, Ordered, Precedes, Before

LEMMA Initially == Init => IInv
<1> SUFFICES ASSUME Init PROVE IInv
  OBVIOUS
<1>1. /\ <<>> \in Seq(Byte) /\ <<>> \in Seq(Nat \ {0}) /\ <<>> \in Seq(Seq(Byte))
      /\ 0 \in 0..(ClockSize - 1)
  BY ReceiverAssumption
<1>2. port \in Port /\ port.chunk = <<>> /\ port.receiver = RtuRxInit
      /\ port.pending = 0 /\ port.armed = TRUE
  BY <1>1, EmptyReceiver, ReceiverAssumption DEF Init, Port
<1>3. DOMAIN port.chunk = {} /\ Len(port.chunk) < MaxADU
      /\ DOMAIN port.receiver.bytes = {} /\ Len(port.receiver.bytes) <= MaxADU
  BY <1>2, EmptyReceiver, ReceiverAssumption
<1>4. TypeOK
  BY <1>1, <1>2, <1>3, ReceiverAssumption DEF Init, TypeOK
<1>5. WellFormed(port)
  BY <1>2, <1>3 DEF WellFormed, Ordered, Precedes
<1>6. LineOrder
  <2>1. DOMAIN delivered = {}
    BY DEF Init
  <2> QED
    BY <1>3, <2>1 DEF LineOrder, Held, FramesInOrder
<1>7. ErrorsReportedOnce
  BY <1>2 DEF Init, ErrorsReportedOnce
<1> QED
  BY <1>4, <1>5, <1>6, <1>7 DEF IInv

\* A byte that comes after all that were sent before it.
LEMMA ByteArrivesKeeps ==
  ASSUME IInv, NEW m \in Nat, NEW n \in Nat, ByteArrives(m, n),
         lengths' \in Seq(Nat \ {0}), m = Len(lengths'),
         \A x \in Byte : Sent(x) => (x.msg < m \/ (x.msg = m /\ x.pos < n))
  PROVE  IInv'
<1>1. /\ TypeOK /\ WellFormed(port) /\ ErrorsReportedOnce /\ LineOrder
  BY DEF IInv
<1>2. /\ silence' = 0 /\ sent' = n
      /\ UNCHANGED <<clock, step, nowMs, lag, reported, delivered>>
  BY DEF ByteArrives, loopVars
<1>3. PICK b \in Byte : b = [msg |-> m, pos |-> n, errs |-> errors]
  <2>1. errors \in Nat
    BY <1>1, ReceiverAssumption DEF TypeOK
  <2>2. [msg |-> m, pos |-> n, errs |-> errors] \in Byte
    BY <2>1 DEF Byte
  <2> QED
    BY <2>2
<1>4. Held(port) \subseteq Byte /\ \A k \in DOMAIN delivered : \A i \in DOMAIN delivered[k] :
                                    delivered[k][i] \in Byte
  <2>1. /\ port.chunk \in Seq(Byte) /\ port.receiver.bytes \in Seq(Byte)
        /\ delivered \in Seq(Seq(Byte))
    BY <1>1 DEF TypeOK, Port, Receiver
  <2>2. \A k \in DOMAIN delivered : delivered[k] \in Seq(Byte)
    BY <2>1
  <2> QED
    BY <2>1, <2>2 DEF Held
<1>5. \A x \in Byte : Sent(x) => Before(x, b) /\ Sent(x)'
  <2>1. sent' = n /\ b.msg = m /\ b.pos = n
    BY <1>2, <1>3
  <2> QED
    BY <2>1 DEF Sent, Before, Byte
<1>6. Sent(b)'
  BY <1>2, <1>3 DEF Sent
<1>7. \A x \in Held(port) : Before(x, b)
  BY <1>1, <1>4, <1>5 DEF LineOrder
<1>8. /\ WellFormed(port') /\ Held(port') \subseteq Held(port) \cup {b}
      /\ errors' \in 0..MaxErrors /\ armFailures' \in 0..MaxArmFailures /\ hit' \subseteq Nat
      /\ reported + port'.pending = errors'
  <2>1. CASE ~port.armed
    <3>1. UNCHANGED <<port, errors, armFailures, hit>>
      BY <2>1 DEF ByteArrives
    <3> QED
      BY <1>1, <3>1 DEF TypeOK, ErrorsReportedOnce
  <2>2. CASE port.armed
    <3>1. PICK fault \in {"none"} \cup (IF errors < MaxErrors THEN {"line", "overrun"} ELSE {}),
               ok \in ArmOutcomes :
            /\ port' = ReceiveByte(port, b, fault, ok)
            /\ CountArm(FillsChunk(port), ok)
            /\ errors' = IF fault = "none" THEN errors ELSE errors + 1
            /\ hit' = IF fault = "none" THEN hit ELSE hit \cup {m}
      BY <1>3, <2>2 DEF ByteArrives
    <3>2. ok \in BOOLEAN /\ armFailures' \in 0..MaxArmFailures
      <4>1. FillsChunk(port) \in BOOLEAN
        BY DEF FillsChunk
      <4> QED
        BY <1>1, <3>1, <4>1, ArmFailuresCounted
    <3>3. fault \in {"none", "line", "overrun"} /\ (fault # "none" => errors < MaxErrors)
      BY <3>1
    <3>4. port.pending \in Nat /\ reported \in Nat /\ errors \in 0..MaxErrors
          /\ reported + port.pending = errors
      BY <1>1, ReceiverAssumption DEF TypeOK, Port, ErrorsReportedOnce
    <3>5. fault # "none" => port.pending < MaxErrorCount
      BY <3>3, <3>4, ReceiverAssumption
    <3>6. clock \in 0..(ClockSize - 1)
      BY <1>1 DEF TypeOK
    <3>7. /\ WellFormed(port') /\ Held(port') \subseteq Held(port) \cup {b}
          /\ port'.pending = IF fault = "none" THEN port.pending ELSE port.pending + 1
      BY <1>1, <1>3, <1>7, <3>1, <3>2, <3>3, <3>5, <3>6, ReceiveByteWellFormed
    <3>8. errors' \in 0..MaxErrors /\ reported + port'.pending = errors'
      BY <3>1, <3>3, <3>4, <3>7, ReceiverAssumption
    <3>9. hit' \subseteq Nat
      BY <1>1, <3>1 DEF TypeOK
    <3> QED
      BY <3>2, <3>7, <3>8, <3>9
  <2> QED
    BY <2>1, <2>2
<1>9. TypeOK'
  BY <1>1, <1>2, <1>8, ReceiverAssumption DEF TypeOK, WellFormed
<1>10. LineOrder'
  <2>1. \A x \in Held(port') : Sent(x)'
    BY <1>1, <1>4, <1>5, <1>6, <1>8 DEF LineOrder
  <2>2. ASSUME NEW k \in DOMAIN delivered, NEW i \in DOMAIN delivered[k], NEW y,
               y = delivered[k][i]
        PROVE  Sent(y)' /\ \A x \in Held(port') : Before(y, x)
    <3>1. y \in Byte /\ Sent(y) /\ \A x \in Held(port) : Before(y, x)
      BY <1>1, <1>4, <2>2 DEF LineOrder
    <3> QED
      BY <1>5, <1>8, <3>1
  <2>3. FramesInOrder'
    BY <1>1, <1>2 DEF LineOrder, FramesInOrder, Ordered, Precedes, Before
  <2>4. \A k \in DOMAIN delivered' : \A i \in DOMAIN delivered'[k] :
          \A y : y = delivered'[k][i] => Sent(y)' /\ \A x \in Held(port') : Before(y, x)
    BY <1>2, <2>2
  <2>5. Held(port)' = Held(port')
    BY DEF Held
  <2> QED
    BY <2>1, <2>3, <2>4, <2>5 DEF LineOrder, Sent, Before
<1> QED
  BY <1>2, <1>8, <1>9, <1>10 DEF IInv, ErrorsReportedOnce, WellFormed

LEMMA MessageBeginsKeeps == ASSUME IInv, MessageBegins PROVE IInv'
<1>1. PICK n \in MessageLengths : lengths' = Append(lengths, n)
  BY DEF MessageBegins
<1>2. lengths \in Seq(Nat \ {0}) /\ sent \in Nat
  BY DEF IInv, TypeOK
<1>3. n \in Nat \ {0}
  BY ReceiverAssumption
<1>4. lengths' \in Seq(Nat \ {0}) /\ Len(lengths') = Len(lengths) + 1 /\ Len(lengths) \in Nat
  BY <1>1, <1>2, <1>3
<1>5. \A x \in Byte : Sent(x) => x.msg < Len(lengths) + 1
  BY <1>4 DEF Sent, Byte
<1>6. ByteArrives(Len(lengths) + 1, 1)
  BY DEF MessageBegins
<1> QED
  BY <1>4, <1>5, <1>6, ByteArrivesKeeps

LEMMA MessageContinuesKeeps == ASSUME IInv, MessageContinues PROVE IInv'
<1>1. lengths \in Seq(Nat \ {0}) /\ sent \in Nat
  BY DEF IInv, TypeOK
<1>2. lengths' \in Seq(Nat \ {0}) /\ Len(lengths') = Len(lengths) /\ Len(lengths) \in Nat
  BY <1>1 DEF MessageContinues
<1>3. \A x \in Byte : Sent(x) => x.msg < Len(lengths) \/ (x.msg = Len(lengths) /\ x.pos < sent + 1)
  BY <1>1, <1>2 DEF Sent, Byte
<1>4. ByteArrives(Len(lengths), sent + 1)
  BY DEF MessageContinues
<1> QED
  BY <1>1, <1>2, <1>3, <1>4, ByteArrivesKeeps

LEMMA IdleInterruptKeeps == ASSUME IInv, IdleInterrupt PROVE IInv'
<1>1. PICK ok \in ArmOutcomes : port' = RxEventCallback(port, ok) /\ CountArm(TRUE, ok)
  BY DEF IdleInterrupt
<1>2. UNCHANGED <<clock, silence, lengths, sent, hit, errors, step, nowMs, lag, reported, delivered>>
  BY DEF IdleInterrupt, lineVars, loopVars
<1>3. TypeOK /\ WellFormed(port) /\ ErrorsReportedOnce /\ LineOrder
  BY DEF IInv
<1>4. ok \in BOOLEAN /\ armFailures' \in 0..MaxArmFailures
  BY <1>1, <1>3, ArmFailuresCounted
<1>5. clock \in 0..(ClockSize - 1)
  BY <1>3 DEF TypeOK
<1>6. WellFormed(port') /\ Held(port') \subseteq Held(port) /\ port'.pending = port.pending
  BY <1>1, <1>3, <1>4, <1>5, RxEventWellFormed
<1>7. TypeOK'
  BY <1>2, <1>3, <1>4, <1>6 DEF TypeOK, WellFormed
<1>8. LineOrder'
  BY <1>2, <1>3, <1>6, OrderKept DEF Held
<1> QED
  BY <1>2, <1>3, <1>6, <1>7, <1>8 DEF IInv, ErrorsReportedOnce, WellFormed

LEMMA TickKeeps == ASSUME IInv, Tick PROVE IInv'
<1>1. /\ UNCHANGED <<lengths, sent, hit, errors, armFailures, port, step, nowMs,
                     reported, delivered>>
      /\ lag < MaxLag /\ lag' = lag + 1
      /\ clock' = (clock + 1) % ClockSize
      /\ silence' = IF silence < MasterGap THEN silence + 1 ELSE silence
  BY DEF Tick
<1>2. TypeOK /\ WellFormed(port) /\ ErrorsReportedOnce /\ LineOrder
  BY DEF IInv
<1>3. /\ clock \in 0..(ClockSize - 1) /\ silence \in 0..MasterGap /\ lag \in 0..MaxLag
  BY <1>2 DEF TypeOK
<1>4. clock' \in 0..(ClockSize - 1)
  BY <1>1, <1>3, ReceiverAssumption
<1>5. silence' \in 0..MasterGap /\ lag' \in 0..MaxLag
  BY <1>1, <1>3, ReceiverAssumption
<1>6. TypeOK'
  BY <1>1, <1>2, <1>4, <1>5 DEF TypeOK
<1>7. LineOrder'
  BY <1>1, <1>2, OrderKept DEF Held
<1> QED
  BY <1>1, <1>2, <1>6, <1>7 DEF IInv, ErrorsReportedOnce, WellFormed

LEMMA ReadClockKeeps == ASSUME IInv, ReadClock PROVE IInv'
<1>1. /\ UNCHANGED <<clock, silence, lengths, sent, hit, errors, armFailures, port, lag,
                     reported, delivered>>
      /\ step' = "poll" /\ nowMs' = clock
  BY DEF ReadClock, lineVars
<1>2. TypeOK /\ WellFormed(port) /\ ErrorsReportedOnce /\ LineOrder
  BY DEF IInv
<1>3. TypeOK'
  BY <1>1, <1>2 DEF TypeOK
<1>4. LineOrder'
  BY <1>1, <1>2, OrderKept DEF Held
<1> QED
  BY <1>1, <1>2, <1>3, <1>4 DEF IInv, ErrorsReportedOnce, WellFormed

\* A delivered frame leaves the receiver, and is later than all before it.
LEMMA PollKeeps == ASSUME IInv, Poll PROVE IInv'
<1>1. PICK ok \in ArmOutcomes :
        LET p == Rearm(port, ok)
            ended == p.pending = 0 /\ FrameEnded(p.receiver, nowMs)
        IN /\ CountArm(port.rearm, ok)
           /\ port' = [p EXCEPT !.pending = 0,
                                !.receiver = IF ended THEN RtuRxInit ELSE @]
           /\ reported' = reported + p.pending
           /\ delivered' = IF ended /\ ~p.receiver.overflow
                             THEN Append(delivered, p.receiver.bytes) ELSE delivered
  BY DEF Poll
<1>2. /\ UNCHANGED <<clock, silence, lengths, sent, hit, errors>>
      /\ step' = "clock" /\ nowMs' = 0 /\ lag' = 0
  BY DEF Poll, lineVars
<1>3. TypeOK /\ WellFormed(port) /\ ErrorsReportedOnce /\ LineOrder
  BY DEF IInv
<1>4. ok \in BOOLEAN /\ armFailures' \in 0..MaxArmFailures
  <2>1. port.rearm \in BOOLEAN
    BY <1>3 DEF TypeOK, Port
  <2> QED
    BY <1>1, <1>3, <2>1, ArmFailuresCounted
<1> DEFINE p == Rearm(port, ok)
           ended == p.pending = 0 /\ FrameEnded(p.receiver, nowMs)
<1>5. WellFormed(p) /\ Held(p) \subseteq Held(port) /\ p.pending = port.pending
  BY <1>3, <1>4, RearmWellFormed
<1>6. /\ port' = [p EXCEPT !.pending = 0, !.receiver = IF ended THEN RtuRxInit ELSE @]
      /\ reported' = reported + p.pending
      /\ delivered' = IF ended /\ ~p.receiver.overflow
                        THEN Append(delivered, p.receiver.bytes) ELSE delivered
  BY <1>1
<1> HIDE DEF p, ended
<1>7. /\ port' \in Port /\ port'.chunk = p.chunk /\ port'.pending = 0
      /\ port'.armed = p.armed /\ port'.rearm = p.rearm
      /\ port'.receiver = IF ended THEN RtuRxInit ELSE p.receiver
  <2>1. p \in Port /\ 0 \in 0..MaxErrorCount
    BY <1>5, ReceiverAssumption DEF WellFormed
  <2> QED
    BY <1>6, <2>1, EmptyReceiver DEF Port
<1>8. WellFormed(port') /\ Held(port') \subseteq Held(p)
  <2>1. CASE ended
    <3>1. port'.receiver = RtuRxInit /\ DOMAIN port'.receiver.bytes = {}
          /\ Len(port'.receiver.bytes) <= MaxADU
      BY <1>7, <2>1, EmptyReceiver, ReceiverAssumption
    <3> QED
      BY <1>5, <1>7, <3>1 DEF WellFormed, Held, Ordered, Precedes
  <2>2. CASE ~ended
    BY <1>5, <1>7, <2>2 DEF WellFormed, Held
  <2> QED
    BY <2>1, <2>2
<1>9. reported \in Nat /\ p.pending \in Nat /\ reported + p.pending = errors
  BY <1>3, <1>5, ReceiverAssumption DEF TypeOK, Port, ErrorsReportedOnce
<1>10. reported' \in Nat /\ reported' + port'.pending = errors'
  BY <1>2, <1>6, <1>7, <1>9
<1>11. CASE ~(ended /\ ~p.receiver.overflow)
  <2>1. UNCHANGED <<lengths, sent, delivered>>
    BY <1>2, <1>6, <1>11
  <2>2. LineOrder'
    <3>1. Held(port)' \subseteq Held(port)
      BY <1>5, <1>8 DEF Held
    <3> QED
      BY <1>3, <2>1, <3>1, OrderKept
  <2>3. TypeOK'
    BY <1>2, <1>3, <1>4, <1>8, <1>10, <2>1, ReceiverAssumption DEF TypeOK, WellFormed
  <2> QED
    BY <1>8, <1>10, <2>2, <2>3 DEF IInv, ErrorsReportedOnce, WellFormed
<1>12. CASE ended /\ ~p.receiver.overflow
  <2> DEFINE f == p.receiver.bytes
             n == Len(delivered)
  <2>1. /\ f \in Seq(Byte) /\ Ordered(f) /\ Precedes(f, p.chunk)
        /\ delivered \in Seq(Seq(Byte))
    BY <1>3, <1>5 DEF WellFormed, Port, Receiver, TypeOK
  <2>2. delivered' = Append(delivered, f)
    BY <1>6, <1>12
  <2>3. /\ delivered' \in Seq(Seq(Byte)) /\ Len(delivered') = n + 1 /\ n \in Nat
        /\ \A k \in DOMAIN delivered : k \in 1..n /\ delivered'[k] = delivered[k]
        /\ delivered'[n + 1] = f
        /\ \A k \in DOMAIN delivered' : k \in DOMAIN delivered \/ k = n + 1
    BY <2>1, <2>2
  <2>4. \A i \in DOMAIN f : f[i] \in Held(p)
    BY DEF Held
  <2> HIDE DEF f, n
  <2>5. \A b \in Held(port') : \E i \in DOMAIN p.chunk : b = p.chunk[i]
    <3>1. DOMAIN port'.receiver.bytes = {} /\ port'.chunk = p.chunk
      BY <1>7, <1>12, EmptyReceiver
    <3> QED
      BY <3>1 DEF Held
  <2>6. \A i \in DOMAIN f : \A b \in Held(port') : Before(f[i], b)
    BY <2>1, <2>5 DEF Precedes
  <2>7. \A k \in DOMAIN delivered : \A i \in DOMAIN delivered[k] :
          /\ Sent(delivered[k][i])
          /\ \A b \in Held(port) : Before(delivered[k][i], b)
    BY <1>3 DEF LineOrder
  <2>8. \A k \in DOMAIN delivered' : \A i \in DOMAIN delivered'[k] :
          /\ Sent(delivered'[k][i])
          /\ \A b \in Held(port') : Before(delivered'[k][i], b)
    <3> TAKE k \in DOMAIN delivered'
    <3> TAKE i \in DOMAIN delivered'[k]
    <3>1. CASE k \in DOMAIN delivered
      BY <1>5, <1>8, <2>3, <2>7, <3>1
    <3>2. CASE k = n + 1
      <4>1. Sent(f[i]) /\ i \in DOMAIN f
        BY <1>3, <1>5, <2>3, <2>4, <3>2 DEF LineOrder
      <4> QED
        BY <2>3, <2>6, <3>2, <4>1
    <3> QED
      BY <2>3, <3>1, <3>2
  <2>9. FramesInOrder'
    <3>1. \A k \in DOMAIN delivered' : Ordered(delivered'[k])
      BY <1>3, <2>1, <2>3 DEF LineOrder, FramesInOrder
    <3>2. ASSUME NEW k \in DOMAIN delivered', NEW l \in DOMAIN delivered', k < l
          PROVE  Precedes(delivered'[k], delivered'[l])
      <4>1. k \in DOMAIN delivered /\ delivered'[k] = delivered[k]
        BY <2>3, <3>2
      <4>2. CASE l \in DOMAIN delivered
        BY <1>3, <2>3, <3>2, <4>1, <4>2 DEF LineOrder, FramesInOrder
      <4>3. CASE l = n + 1
        BY <1>5, <2>3, <2>4, <2>7, <4>1, <4>3 DEF Precedes
      <4> QED
        BY <2>3, <4>2, <4>3
    <3> QED
      BY <3>1, <3>2 DEF FramesInOrder, Ordered, Precedes, Before
  <2>10. LineOrder'
    <3>1. \A b \in Held(port') : Sent(b)
      BY <1>3, <1>5, <1>8 DEF LineOrder
    <3>2. Held(port)' = Held(port')
      BY DEF Held
    <3>3. \A b : Sent(b) <=> (b.msg < Len(lengths') \/ (b.msg = Len(lengths') /\ b.pos <= sent'))
      BY <1>2 DEF Sent
    <3> QED
      BY <2>8, <2>9, <3>1, <3>2, <3>3 DEF LineOrder, Sent, Before
  <2>11. TypeOK'
    <3>1. nowMs' \in 0..(ClockSize - 1) /\ lag' \in 0..MaxLag /\ step' \in {"clock", "poll"}
      BY <1>2, ReceiverAssumption
    <3>2. /\ clock' \in 0..(ClockSize - 1) /\ silence' \in 0..MasterGap
          /\ lengths' \in Seq(Nat \ {0}) /\ sent' \in Nat /\ hit' \subseteq Nat
          /\ errors' \in 0..MaxErrors
      BY <1>2, <1>3 DEF TypeOK
    <3>3. delivered' \in Seq(Seq(Byte)) /\ reported' \in Nat
      BY <1>10, <2>3
    <3>4. port' \in Port /\ Len(port'.chunk) < MaxADU /\ Len(port'.receiver.bytes) <= MaxADU
      BY <1>8 DEF WellFormed
    <3> QED
      BY <1>4, <3>1, <3>2, <3>3, <3>4 DEF TypeOK
  <2> QED
    BY <1>8, <1>10, <2>10, <2>11 DEF IInv, ErrorsReportedOnce, WellFormed
<1> QED
  BY <1>11, <1>12

LEMMA StutterKeeps == ASSUME IInv, UNCHANGED vars PROVE IInv'
<1>1. UNCHANGED <<clock, silence, lengths, sent, hit, errors, armFailures, port, step, nowMs,
                  lag, reported, delivered>>
  BY DEF vars, lineVars, loopVars
<1>2. TypeOK /\ WellFormed(port) /\ ErrorsReportedOnce /\ LineOrder
  BY DEF IInv
<1>3. TypeOK' /\ WellFormed(port)' /\ ErrorsReportedOnce'
  BY <1>1, <1>2 DEF TypeOK, WellFormed, ErrorsReportedOnce
<1>4. LineOrder'
  BY <1>1, <1>2, OrderKept DEF Held
<1> QED
  BY <1>3, <1>4 DEF IInv

-----------------------------------------------------------------------------
\* The invariant of receiver, interrupt and main loop.
THEOREM ReceiverInvariance == Spec => []IInv
<1>1. Init => IInv
  BY Initially
<1>2. IInv /\ [Next]_vars => IInv'
  <2> SUFFICES ASSUME IInv, [Next]_vars PROVE IInv'
    OBVIOUS
  <2>1. CASE MessageBegins
    BY <2>1, MessageBeginsKeeps
  <2>2. CASE MessageContinues
    BY <2>2, MessageContinuesKeeps
  <2>3. CASE IdleInterrupt
    BY <2>3, IdleInterruptKeeps
  <2>4. CASE Tick
    BY <2>4, TickKeeps
  <2>5. CASE ReadClock
    BY <2>5, ReadClockKeeps
  <2>6. CASE Poll
    BY <2>6, PollKeeps
  <2>7. CASE UNCHANGED vars
    BY <2>7, StutterKeeps
  <2> QED
    BY <2>1, <2>2, <2>3, <2>4, <2>5, <2>6, <2>7 DEF Next, MainLoop
<1> QED
  BY <1>1, <1>2, PTL DEF Spec

\* Types, and no write beyond the two 256-byte arrays.
THEOREM ReceiverTypes == Spec => []TypeOK
<1>1. IInv => TypeOK
  BY DEF IInv
<1> QED
  BY <1>1, ReceiverInvariance, PTL

\* The port is armed, or the next poll will arm it.
THEOREM ReceiverNeverDeaf == Spec => []NeverDeaf
<1>1. IInv => NeverDeaf
  BY DEF IInv, WellFormed, NeverDeaf
<1> QED
  BY <1>1, ReceiverInvariance, PTL

\* Every error callback reaches the device model exactly once.
THEOREM ReceiverReportsErrors == Spec => []ErrorsReportedOnce
<1>1. IInv => ErrorsReportedOnce
  BY DEF IInv
<1> QED
  BY <1>1, ReceiverInvariance, PTL

\* No byte is delivered twice or out of order.
THEOREM ReceiverKeepsOrder == Spec => []FramesInOrder
<1>1. IInv => FramesInOrder
  BY DEF IInv, LineOrder
<1> QED
  BY <1>1, ReceiverInvariance, PTL
-----------------------------------------------------------------------------
(***************************************************************************)
(* Delivery.  When the master leaves time enough for the frame gap, two    *)
(* turns of the main loop and the failed attempts to start a reception,    *)
(* the port is at rest when a message begins.  Every age below stays under *)
(* the size of the clock, so that no difference of times is ambiguous.     *)
(***************************************************************************)
Timely ==
  /\ Segmented = FALSE
  /\ FrameGap > 0
  /\ MasterGap > FrameGap + MaxLag + MaxLag
  /\ MasterGap > MaxLag + MaxLag * MaxArmFailures + 1
  /\ ClockSize > FrameGap + MaxLag + MaxLag

Age(t) == (clock - t) % ClockSize

\* What the port p holds is settled in time: l ticks after the last poll, s ticks
\* after the last byte, k attempts to start a reception having failed.
Settles(p, s, l, k) ==
  /\ p.chunk # <<>> => p.armed /\ s <= 1
  /\ p.rearm => s <= l + 1 + MaxLag * k
  /\ p.receiver.receiving =>
       /\ Age(p.receiver.lastByte) < FrameGap + MaxLag + l
       /\ s <= Age(p.receiver.lastByte) + 1
       /\ p.pending # 0 => Age(p.receiver.lastByte) <= l
  /\ ~p.receiver.receiving => p.receiver.bytes = <<>> /\ ~p.receiver.overflow

Prompt ==
  /\ Settles(port, silence, lag, armFailures)
  /\ step = "poll" => Age(nowMs) <= lag
  /\ lengths # <<>> => sent \in 1..lengths[Len(lengths)]
  /\ InMessage => silence <= 1

\* The first n bytes of message m.
BytesOf(f, m, n) == Len(f) = n /\ \A i \in DOMAIN f : f[i].msg = m /\ f[i].pos = i

Collecting(p, m, n) ==
  p.armed /\ ~p.rearm /\ ~p.receiver.receiving /\ BytesOf(p.chunk, m, n)

HandedOver(p, m, n) ==
  /\ p.chunk = <<>> /\ p.receiver.receiving /\ ~p.receiver.overflow
  /\ BytesOf(p.receiver.bytes, m, n)

Delivered(m) == \E k \in DOMAIN delivered : Whole(m, delivered[k])
Due(m) == m \notin hit /\ lengths[m] <= MaxADU

UnderWay ==
  \A m \in DOMAIN lengths : Due(m) =>
    \/ Delivered(m)
    \/ m = Len(lengths) /\ \/ Collecting(port, m, sent)
                           \/ sent = lengths[m] /\ HandedOver(port, m, sent)

Delivery == IInv /\ Prompt /\ UnderWay

-----------------------------------------------------------------------------
\* A quotient and a remainder in range are the quotient and the remainder.
LEMMA Remainder ==
  ASSUME NEW K \in Nat \ {0}, NEW q \in Int, NEW r \in 0..K - 1
  PROVE  (K * q + r) % K = r
<1> DEFINE a == K * q + r
           p == a \div K
           s == a % K
<1>1. a \in Int
  BY Z3
<1>2. p \in Int /\ s \in 0..K - 1 /\ a = K * p + s
  BY <1>1, Z3
<1>3. K * (q - p) = s - r
  BY <1>2, Z3
<1>4. q - p < 1
  BY <1>2, <1>3, Z3
<1>5. q - p > -1
  BY <1>2, <1>3, Z3
<1>6. q = p
  BY <1>2, <1>4, <1>5
<1> HIDE DEF a, p, s
<1>7. s = r
  BY <1>2, <1>3, <1>6, Z3
<1> QED
  BY <1>7 DEF s, a

\* The difference of two times.
LEMMA Difference ==
  ASSUME NEW x \in 0..(ClockSize - 1), NEW t \in 0..(ClockSize - 1)
  PROVE  (x - t) % ClockSize = IF t <= x THEN x - t ELSE x - t + ClockSize
<1>1. ClockSize \in Nat \ {0}
  BY ReceiverAssumption
<1>2. CASE t <= x
  <2>1. x - t \in 0..ClockSize - 1
    BY <1>1, <1>2
  <2>2. (ClockSize * 0 + (x - t)) % ClockSize = x - t
    BY <1>1, <2>1, Remainder
  <2>3. ClockSize * 0 + (x - t) = x - t
    BY <1>1, <2>1, Z3
  <2> QED
    BY <1>2, <2>2, <2>3
<1>3. CASE ~(t <= x)
  <2> DEFINE r == x - t + ClockSize
  <2>1. r \in 0..ClockSize - 1
    BY <1>1, <1>3
  <2>2. (ClockSize * (-1) + r) % ClockSize = r
    BY <1>1, <2>1, Remainder
  <2>3. ClockSize * (-1) + r = x - t
    BY <1>1, <2>1, Z3
  <2> QED
    BY <1>3, <2>2, <2>3
<1> QED
  BY <1>2, <1>3

\* A tick makes everything older by one.
LEMMA TickAges ==
  ASSUME clock \in 0..(ClockSize - 1), clock' = (clock + 1) % ClockSize,
         NEW t \in 0..(ClockSize - 1), Age(t) + 1 < ClockSize
  PROVE  Age(t)' = Age(t) + 1
<1>1. ClockSize \in Nat \ {0}
  BY ReceiverAssumption
<1>2. clock' = IF clock + 1 = ClockSize THEN 0 ELSE clock + 1
  <2>1. CASE clock + 1 = ClockSize
    <3>1. (ClockSize * 1 + 0) % ClockSize = 0
      BY <1>1, Remainder
    <3>2. ClockSize * 1 + 0 = ClockSize
      BY <1>1, Z3
    <3> QED
      BY <2>1, <3>1, <3>2
  <2>2. CASE clock + 1 # ClockSize
    <3>1. clock + 1 \in 0..ClockSize - 1
      BY <1>1, <2>2
    <3>2. (ClockSize * 0 + (clock + 1)) % ClockSize = clock + 1
      BY <1>1, <3>1, Remainder
    <3>3. ClockSize * 0 + (clock + 1) = clock + 1
      BY <1>1, <3>1, Z3
    <3> QED
      BY <2>2, <3>2, <3>3
  <2> QED
    BY <2>1, <2>2
<1>3. clock' \in 0..(ClockSize - 1)
  BY <1>1, <1>2
<1>4. Age(t) = IF t <= clock THEN clock - t ELSE clock - t + ClockSize
  BY Difference DEF Age
<1>5. (clock' - t) % ClockSize = IF t <= clock' THEN clock' - t ELSE clock' - t + ClockSize
  BY <1>3, Difference
<1> DEFINE a == Age(t)
           d == (clock' - t) % ClockSize
<1>6. a + 1 < ClockSize
  OBVIOUS
<1>7. Age(t)' = d
  BY DEF Age
<1> HIDE DEF a, d
<1>8. d = a + 1
  BY <1>1, <1>2, <1>4, <1>5, <1>6 DEF a, d
<1> QED
  BY <1>7, <1>8 DEF a

\* An age is a number below the size of the clock, and that of now is 0.
LEMMA AgeRange ==
  ASSUME clock \in 0..(ClockSize - 1), NEW t \in 0..(ClockSize - 1)
  PROVE  Age(t) \in 0..(ClockSize - 1) /\ Age(clock) = 0
<1>1. ClockSize \in Nat \ {0}
  BY ReceiverAssumption
<1>2. Age(t) = IF t <= clock THEN clock - t ELSE clock - t + ClockSize
  BY Difference DEF Age
<1>3. Age(clock) = clock - clock
  BY Difference DEF Age
<1> QED
  BY <1>1, <1>2, <1>3

\* The receiver as the poll sees it, with the time n read earlier: a frame that has
\* not ended is no older than the frame gap, or younger than the time read.
LEMMA NotEnded ==
  ASSUME clock \in 0..(ClockSize - 1), NEW n \in 0..(ClockSize - 1),
         NEW r \in Receiver, r.receiving, ~FrameEnded(r, n)
  PROVE  Age(r.lastByte) < FrameGap + Age(n) \/ Age(r.lastByte) < Age(n)
<1> DEFINE t == r.lastByte
<1>1. ClockSize \in Nat \ {0} /\ FrameGap \in Nat /\ t \in 0..(ClockSize - 1)
  BY ReceiverAssumption DEF Receiver
<1>2. (n - t) % ClockSize < FrameGap
  <2>1. (n - t) % ClockSize = IF t <= n THEN n - t ELSE n - t + ClockSize
    BY <1>1, Difference
  <2>2. ~((n - r.lastByte) % ClockSize >= FrameGap)
    BY DEF FrameEnded
  <2> HIDE DEF t
  <2>3. (n - t) % ClockSize \in Int
    BY <1>1, <2>1
  <2> QED
    BY <1>1, <2>2, <2>3 DEF t
<1> HIDE DEF t
<1>3. (n - t) % ClockSize = IF t <= n THEN n - t ELSE n - t + ClockSize
  BY <1>1, Difference
<1>4. Age(t) = IF t <= clock THEN clock - t ELSE clock - t + ClockSize
  BY <1>1, Difference DEF Age
<1>5. Age(n) = IF n <= clock THEN clock - n ELSE clock - n + ClockSize
  BY Difference DEF Age
<1>6. Age(t) < FrameGap + Age(n) \/ Age(t) < Age(n)
  BY <1>1, <1>2, <1>3, <1>4, <1>5
<1> QED
  BY <1>6 DEF t

-----------------------------------------------------------------------------
LEMMA Counted == ASSUME NEW k \in Nat PROVE MaxLag * k \in Nat
<1>1. MaxLag \in Nat
  BY ReceiverAssumption
<1> QED
  BY <1>1, Z3

LEMMA ShorterFits == ASSUME NEW a \in Nat PROVE Shorter(a) \in 0..a
<1>1. MaxADU \in Nat
  BY ReceiverAssumption
<1> QED
  BY <1>1 DEF Shorter

\* The chunk handed over is as young as it can be.
LEMMA RxEventSettles ==
  ASSUME Timely, NEW p \in Port, NEW ok \in BOOLEAN, clock \in 0..(ClockSize - 1),
         NEW s \in 0..1, NEW l \in Nat, NEW k \in Nat
  PROVE  Settles(RxEventCallback(p, ok), s, l, k)
<1> DEFINE q == RxEventCallback(p, ok)
<1>1. /\ q.receiver = PushBytes(p.receiver, p.chunk, clock) /\ q.chunk = <<>>
      /\ q.rearm = (p.rearm \/ ~ok) /\ q.pending = p.pending
  BY DEF RxEventCallback, Port
<1>2. q.receiver.lastByte = clock /\ q.receiver.receiving = TRUE
  BY <1>1 DEF PushBytes
<1>3. MaxLag * k \in Nat /\ FrameGap \in Nat /\ FrameGap > 0 /\ MaxLag \in Nat
  BY Counted, ReceiverAssumption DEF Timely
<1>4. Age(clock) = 0
  BY AgeRange
<1> HIDE DEF q
<1>5. s <= l + 1 + MaxLag * k
  <2> DEFINE e == MaxLag * k
  <2>1. e \in Nat
    BY <1>3
  <2> HIDE DEF e
  <2>2. s <= l + 1 + e
    BY <2>1
  <2> QED
    BY <2>2 DEF e
<1>6. Age(q.receiver.lastByte) = 0
  BY <1>2, <1>4
<1>7. 0 < FrameGap + MaxLag + l /\ s <= 0 + 1 /\ 0 <= l
  BY <1>3
<1> QED
  BY <1>1, <1>2, <1>5, <1>6, <1>7 DEF Settles, q

\* The receiver is reset, and the poll is to start the reception anew.
LEMMA ErrorSettles ==
  ASSUME NEW p \in Port, p.chunk # <<>> => p.armed, NEW l \in Nat, NEW k \in Nat
  PROVE  Settles(ErrorCallback(p), 0, l, k)
<1> DEFINE q == ErrorCallback(p)
<1>1. q.receiver = RtuRxInit /\ q.chunk = p.chunk /\ q.armed = p.armed
  BY DEF ErrorCallback, Port
<1>2. /\ q.receiver.receiving = FALSE /\ q.receiver.overflow = FALSE
      /\ q.receiver.bytes = <<>>
  BY <1>1 DEF RtuRxInit
<1> HIDE DEF q
<1>3. 0 <= l + 1 + MaxLag * k
  <2> DEFINE e == MaxLag * k
  <2>1. e \in Nat
    BY Counted
  <2> HIDE DEF e
  <2>2. 0 <= l + 1 + e
    BY <2>1
  <2> QED
    BY <2>2 DEF e
<1>4. Settles(q, 0, l, k)
  BY <1>1, <1>2, <1>3 DEF Settles
<1> QED
  BY <1>4 DEF q

LEMMA StoreByteSettles ==
  ASSUME Timely, NEW p \in Port, p.armed, clock \in 0..(ClockSize - 1),
         NEW b \in Byte, NEW ok \in BOOLEAN,
         NEW s \in Nat, NEW l \in Nat, NEW k \in Nat, Settles(p, s, l, k)
  PROVE  LET q == StoreByte(p, b, ok)
         IN Settles(q, 0, l, k) /\ q \in Port /\ (q.chunk # <<>> => q.armed)
<1> DEFINE g == [p EXCEPT !.chunk = Append(@, b)]
<1>1. /\ g \in Port /\ g.receiver = p.receiver /\ g.armed = p.armed
      /\ g.rearm = p.rearm /\ g.pending = p.pending
  <2>1. p.chunk \in Seq(Byte)
    BY DEF Port
  <2>2. Append(p.chunk, b) \in Seq(Byte)
    BY <2>1
  <2> QED
    BY <2>2 DEF Port
<1> HIDE DEF g
<1>2. 0 <= l + 1 + MaxLag * k
  <2> DEFINE e == MaxLag * k
  <2>1. e \in Nat
    BY Counted
  <2> HIDE DEF e
  <2>2. 0 <= l + 1 + e
    BY <2>1
  <2> QED
    BY <2>2 DEF e
<1>3. CASE FillsChunk(p)
  <2>1. StoreByte(p, b, ok) = RxEventCallback(g, ok)
    BY <1>3 DEF StoreByte, g
  <2>2. Settles(RxEventCallback(g, ok), 0, l, k)
    BY <1>1, RxEventSettles
  <2>3. RxEventCallback(g, ok).chunk = <<>>
    BY <1>1 DEF RxEventCallback, Port
  <2>4. RxEventCallback(g, ok) \in Port
    <3>1. PushBytes(g.receiver, g.chunk, clock) \in Receiver
      <4>1. /\ g.receiver.bytes \in Seq(Byte) /\ g.receiver.overflow \in BOOLEAN
            /\ g.chunk \in Seq(Byte)
        BY <1>1 DEF Port, Receiver
      <4> DEFINE t == g.receiver.bytes \o g.chunk
                 j == Len(g.receiver.bytes) + Len(g.chunk)
                 n == Shorter(j)
      <4>2. t \in Seq(Byte) /\ Len(t) = j /\ j \in Nat
        <5> DEFINE u == g.receiver.bytes
                   c == g.chunk
        <5>1. u \in Seq(Byte) /\ c \in Seq(Byte)
          BY <4>1
        <5> HIDE DEF u, c
        <5>2. u \o c \in Seq(Byte) /\ Len(u \o c) = Len(u) + Len(c) /\ Len(u) + Len(c) \in Nat
          BY <5>1
        <5> QED
          BY <5>2 DEF u, c
      <4> HIDE DEF t, j
      <4>3. n \in 0..j
        BY <4>2, ShorterFits
      <4> HIDE DEF n
      <4>4. SubSeq(t, 1, n) \in Seq(Byte)
        BY <4>2, <4>3, SubSeqProperties
      <4>5. PushBytes(g.receiver, g.chunk, clock).bytes = SubSeq(t, 1, n)
        BY DEF PushBytes, t, n, j
      <4> QED
        BY <4>1, <4>4, <4>5 DEF PushBytes, Receiver
    <3>2. <<>> \in Seq(Byte)
      OBVIOUS
    <3> QED
      BY <1>1, <3>1, <3>2 DEF RxEventCallback, Port
  <2> QED
    BY <2>1, <2>2, <2>3, <2>4
<1>4. CASE ~FillsChunk(p)
  <2>1. StoreByte(p, b, ok) = g
    BY <1>4 DEF StoreByte, g
  <2>2. p.receiver.receiving => Age(p.receiver.lastByte) \in 0..(ClockSize - 1)
    <3>1. p.receiver.lastByte \in 0..(ClockSize - 1)
      BY DEF Port, Receiver
    <3> QED
      BY <3>1, AgeRange
  <2>3. p.receiver.receiving => 0 <= Age(p.receiver.lastByte) + 1
    BY <2>2, ReceiverAssumption
  <2>4. Settles(g, 0, l, k)
    BY <1>1, <1>2, <2>3 DEF Settles
  <2> QED
    BY <1>1, <2>1, <2>4
<1> QED
  BY <1>3, <1>4

LEMMA ReceiveByteSettles ==
  ASSUME Timely, NEW p \in Port, p.armed, clock \in 0..(ClockSize - 1),
         NEW b \in Byte, NEW ok \in BOOLEAN, NEW fault \in {"none", "line", "overrun"},
         NEW s \in Nat, NEW l \in Nat, NEW k \in Nat, Settles(p, s, l, k)
  PROVE  Settles(ReceiveByte(p, b, fault, ok), 0, l, k)
<1> DEFINE g == StoreByte(p, b, ok)
           h == [g EXCEPT !.armed = FALSE, !.chunk = <<>>]
<1>1. Settles(g, 0, l, k) /\ g \in Port /\ (g.chunk # <<>> => g.armed)
  BY StoreByteSettles
<1> HIDE DEF g
<1>2. CASE fault = "none"
  BY <1>1, <1>2 DEF ReceiveByte, g
<1>3. CASE fault = "line" \/ (fault = "overrun" /\ g.chunk = <<>>)
  <2>1. ReceiveByte(p, b, fault, ok) = ErrorCallback(g)
    BY <1>3 DEF ReceiveByte, g
  <2> QED
    BY <1>1, <2>1, ErrorSettles
<1>4. CASE fault = "overrun" /\ g.chunk # <<>>
  <2>1. ReceiveByte(p, b, fault, ok) = ErrorCallback(h)
    BY <1>4 DEF ReceiveByte, g, h
  <2>2. h \in Port /\ h.chunk = <<>>
    <3>1. <<>> \in Seq(Byte)
      OBVIOUS
    <3> QED
      BY <1>1, <3>1 DEF Port, h
  <2> HIDE DEF h
  <2> QED
    BY <2>1, <2>2, ErrorSettles
<1> QED
  BY <1>2, <1>3, <1>4

\* The whole message is handed over at once, to an empty receiver.
LEMMA HandsOver ==
  ASSUME NEW p \in Port, NEW m, NEW n \in Nat, Collecting(p, m, n), n <= MaxADU,
         p.receiver.bytes = <<>>, ~p.receiver.overflow, NEW ok \in BOOLEAN
  PROVE  HandedOver(RxEventCallback(p, ok), m, n)
<1> DEFINE q == RxEventCallback(p, ok)
           c == p.chunk
           r == p.receiver
<1>1. /\ q.receiver = PushBytes(r, c, clock) /\ q.chunk = <<>>
  BY DEF RxEventCallback, Port
<1>2. c \in Seq(Byte) /\ Len(c) = n /\ BytesOf(c, m, n)
  BY DEF Port, Collecting, BytesOf
<1>3. r.bytes = <<>> /\ r.overflow = FALSE
  BY DEF Port, Receiver
<1> HIDE DEF q, c, r
<1>4. Shorter(n) = n
  BY ReceiverAssumption DEF Shorter
<1>5. SubSeq(c, 1, n) = c
  BY <1>2
<1>6. <<>> \o c = c /\ Len(<<>>) = 0 /\ 0 + n = n
  BY <1>2
<1>7. PushBytes(r, c, clock).bytes = c
  BY <1>2, <1>3, <1>4, <1>5, <1>6 DEF PushBytes
<1>8. PushBytes(r, c, clock).receiving = TRUE
  BY DEF PushBytes
<1>9. ~PushBytes(r, c, clock).overflow
  <2>1. ~(n > MaxADU)
    BY ReceiverAssumption
  <2>2. PushBytes(r, c, clock).overflow = (r.overflow \/ Len(r.bytes) + Len(c) > MaxADU)
    BY DEF PushBytes
  <2> QED
    BY <1>2, <1>3, <1>6, <2>1, <2>2
<1>10. HandedOver(q, m, n)
  BY <1>1, <1>2, <1>7, <1>8, <1>9 DEF HandedOver
<1> QED
  BY <1>10 DEF q

\* One byte more of the message.
LEMMA CollectsByte ==
  ASSUME NEW p \in Port, Len(p.chunk) < MaxADU,
         NEW m, NEW n \in Nat, Collecting(p, m, n),
         p.receiver.bytes = <<>>, ~p.receiver.overflow,
         NEW b \in Byte, b.msg = m, b.pos = n + 1, NEW ok \in BOOLEAN
  PROVE  LET q == StoreByte(p, b, ok)
         IN Collecting(q, m, n + 1) \/ (n + 1 = MaxADU /\ HandedOver(q, m, n + 1))
<1> DEFINE g == [p EXCEPT !.chunk = Append(@, b)]
<1>1. p.chunk \in Seq(Byte) /\ BytesOf(p.chunk, m, n) /\ Len(p.chunk) = n
  BY DEF Port, Collecting, BytesOf
<1>2. /\ g.chunk = Append(p.chunk, b) /\ g.receiver = p.receiver
      /\ g.armed = p.armed /\ g.rearm = p.rearm
  BY DEF Port
<1>3. g \in Port
  <2>1. Append(p.chunk, b) \in Seq(Byte)
    BY <1>1
  <2> QED
    BY <2>1 DEF Port
<1>4. BytesOf(Append(p.chunk, b), m, n + 1)
  <2> DEFINE c == p.chunk
             d == Append(c, b)
  <2>1. c \in Seq(Byte) /\ Len(c) = n /\ \A i \in 1..n : c[i].msg = m /\ c[i].pos = i
    BY <1>1 DEF BytesOf
  <2> HIDE DEF c
  <2>2. Len(d) = n + 1 /\ DOMAIN d = 1..(n + 1) /\ d[n + 1] = b /\ \A i \in 1..n : d[i] = c[i]
    BY <2>1, AppendProperties
  <2> HIDE DEF d
  <2>3. \A i \in 1..(n + 1) : d[i].msg = m /\ d[i].pos = i
    <3> TAKE i \in 1..(n + 1)
    <3>1. CASE i = n + 1
      BY <2>2, <3>1
    <3>2. CASE i # n + 1
      <4>1. i \in 1..n
        BY <3>2
      <4> QED
        BY <2>1, <2>2, <4>1
    <3> QED
      BY <3>1, <3>2
  <2>4. BytesOf(d, m, n + 1)
    BY <2>2, <2>3 DEF BytesOf
  <2> QED
    BY <2>4 DEF d, c
<1> HIDE DEF g
<1>5. Collecting(g, m, n + 1)
  BY <1>2, <1>4 DEF Collecting
<1>6. CASE FillsChunk(p)
  <2>1. StoreByte(p, b, ok) = RxEventCallback(g, ok)
    BY <1>6 DEF StoreByte, g
  <2>2. n + 1 = MaxADU
    BY <1>1, <1>6 DEF FillsChunk
  <2>3. HandedOver(RxEventCallback(g, ok), m, n + 1)
    BY <1>2, <1>3, <1>5, <2>2, HandsOver
  <2> QED
    BY <2>1, <2>2, <2>3
<1>7. CASE ~FillsChunk(p)
  <2>1. StoreByte(p, b, ok) = g
    BY <1>7 DEF StoreByte, g
  <2> QED
    BY <1>5, <2>1
<1> QED
  BY <1>6, <1>7

-----------------------------------------------------------------------------
LEMMA MoreFailures ==
  ASSUME NEW a \in Nat, NEW b \in Nat, a <= b
  PROVE  /\ MaxLag * a \in Nat /\ MaxLag * b \in Nat /\ MaxLag * a <= MaxLag * b
         /\ MaxLag * (a + 1) = MaxLag * a + MaxLag
<1>1. MaxLag \in Nat
  BY ReceiverAssumption
<1>2. MaxLag * (b - a) \in Nat
  BY <1>1, Z3
<1>3. MaxLag * b = MaxLag * a + MaxLag * (b - a)
  BY <1>1, Z3
<1>4. MaxLag * (a + 1) = MaxLag * a + MaxLag
  BY <1>1, Z3
<1>5. MaxLag * a \in Nat /\ MaxLag * b \in Nat
  BY Counted
<1> DEFINE x == MaxLag * a
           y == MaxLag * b
           d == MaxLag * (b - a)
<1> HIDE DEF x, y, d
<1>6. x \in Nat /\ y \in Nat /\ d \in Nat /\ y = x + d
  BY <1>2, <1>3, <1>5 DEF x, y, d
<1>7. x <= y
  BY <1>6
<1> QED
  BY <1>4, <1>5, <1>7 DEF x, y

\* The types the arguments below need.
LEMMA Typed ==
  ASSUME IInv
  PROVE  /\ clock \in 0..(ClockSize - 1) /\ silence \in Nat /\ silence <= MasterGap
         /\ lengths \in Seq(Nat \ {0}) /\ sent \in Nat
         /\ armFailures \in Nat /\ armFailures <= MaxArmFailures
         /\ lag \in Nat /\ lag <= MaxLag
         /\ nowMs \in 0..(ClockSize - 1) /\ delivered \in Seq(Seq(Byte))
         /\ port \in Port /\ port.receiver \in Receiver /\ port.chunk \in Seq(Byte)
         /\ port.armed \in BOOLEAN /\ port.rearm \in BOOLEAN
         /\ port.receiver.receiving \in BOOLEAN /\ port.receiver.overflow \in BOOLEAN
         /\ port.receiver.lastByte \in 0..(ClockSize - 1)
         /\ Len(port.chunk) < MaxADU /\ (port.armed \/ port.rearm)
<1>1. TypeOK /\ WellFormed(port)
  BY DEF IInv
<1>2. port \in Port
  BY <1>1 DEF TypeOK
<1> QED
  BY <1>1, <1>2, ReceiverAssumption DEF TypeOK, WellFormed, Port, Receiver

\* After the master's pause nothing is left of what was sent before.
LEMMA AtRest ==
  ASSUME Timely, Delivery, silence = MasterGap
  PROVE  /\ port.armed /\ ~port.rearm /\ port.chunk = <<>>
         /\ ~port.receiver.receiving /\ port.receiver.bytes = <<>> /\ ~port.receiver.overflow
         /\ ~InMessage
         /\ \A m \in DOMAIN lengths : Due(m) => Delivered(m)
<1>1. IInv /\ Prompt /\ UnderWay /\ Settles(port, silence, lag, armFailures)
  BY DEF Delivery, Prompt
<1>2. /\ FrameGap \in Nat /\ MaxLag \in Nat /\ MasterGap \in Nat /\ MaxArmFailures \in Nat
      /\ FrameGap > 0 /\ MasterGap > FrameGap + MaxLag + MaxLag
      /\ MasterGap > MaxLag + MaxLag * MaxArmFailures + 1
  BY ReceiverAssumption DEF Timely
<1>3. silence > 1
  BY <1>2
<1>4. port.chunk = <<>>
  BY <1>1, <1>3, Typed DEF Settles
<1>5. ~InMessage
  BY <1>1, <1>3, Typed DEF Prompt
<1>6. ~port.rearm
  <2> SUFFICES ASSUME port.rearm PROVE FALSE
    OBVIOUS
  <2> DEFINE x == MaxLag * armFailures
             y == MaxLag * MaxArmFailures
  <2>1. silence <= lag + 1 + x
    BY <1>1 DEF Settles
  <2>2. armFailures \in Nat /\ armFailures <= MaxArmFailures /\ lag \in Nat /\ lag <= MaxLag
    BY <1>1, Typed
  <2>3. x \in Nat /\ y \in Nat /\ x <= y
    BY <1>2, <2>2, MoreFailures
  <2>4. MasterGap > MaxLag + y + 1
    BY <1>2
  <2> HIDE DEF x, y
  <2> QED
    BY <1>2, <2>1, <2>2, <2>3, <2>4
<1>7. ~port.receiver.receiving
  <2> SUFFICES ASSUME port.receiver.receiving PROVE FALSE
    OBVIOUS
  <2> DEFINE a == Age(port.receiver.lastByte)
  <2>1. a < FrameGap + MaxLag + lag /\ silence <= a + 1
    BY <1>1 DEF Settles
  <2>2. a \in 0..(ClockSize - 1) /\ lag \in Nat /\ lag <= MaxLag
    BY <1>1, Typed, AgeRange
  <2> HIDE DEF a
  <2>3. a \in Int
    BY <2>2
  <2> QED
    BY <1>2, <2>1, <2>2, <2>3
<1>8. port.armed
  BY <1>1, <1>6, Typed
<1>9. port.receiver.bytes = <<>> /\ ~port.receiver.overflow
  BY <1>1, <1>7 DEF Settles
<1>10. \A m \in DOMAIN lengths : Due(m) => Delivered(m)
  <2> SUFFICES ASSUME NEW m \in DOMAIN lengths, Due(m), ~Delivered(m) PROVE FALSE
    OBVIOUS
  <2>1. m = Len(lengths) /\ (Collecting(port, m, sent) \/ HandedOver(port, m, sent))
    BY <1>1 DEF UnderWay
  <2>2. sent >= 1
    <3>1. lengths # <<>>
      BY <1>1, Typed
    <3> QED
      BY <1>1, <3>1, Typed DEF Prompt
  <2>3. ~Collecting(port, m, sent)
    <3>1. Len(port.chunk) = 0
      BY <1>4
    <3> QED
      BY <1>1, <2>2, <3>1, Typed DEF Collecting, BytesOf
  <2> QED
    BY <1>7, <2>1, <2>3 DEF HandedOver
<1> QED
  BY <1>4, <1>5, <1>6, <1>7, <1>8, <1>9, <1>10

\* A byte leaves the port settled, whatever comes of it.
LEMMA ByteSettles ==
  ASSUME Timely, IInv, Settles(port, silence, lag, armFailures),
         NEW m \in Nat, NEW n \in Nat, ByteArrives(m, n), armFailures' \in Nat
  PROVE  Settles(port, silence, lag, armFailures)'
<1>1. silence' = 0 /\ clock' = clock /\ lag' = lag
  BY DEF ByteArrives, loopVars
<1>2. Settles(port', 0, lag, armFailures')
  <2>1. CASE ~port.armed
    <3>1. port' = port /\ armFailures' = armFailures
      BY <2>1 DEF ByteArrives
    <3>2. port.chunk = <<>>
      BY <2>1 DEF Settles
    <3>3. port.receiver.receiving => 0 <= Age(port.receiver.lastByte) + 1
      <4> DEFINE a == Age(port.receiver.lastByte)
      <4>1. a \in 0..(ClockSize - 1)
        BY Typed, AgeRange
      <4> HIDE DEF a
      <4>2. 0 <= a + 1
        BY <4>1, ReceiverAssumption
      <4> QED
        BY <4>2 DEF a
    <3>4. 0 <= lag + 1 + MaxLag * armFailures
      <4> DEFINE e == MaxLag * armFailures
      <4>1. e \in Nat /\ lag \in Nat
        BY Counted, Typed
      <4> HIDE DEF e
      <4>2. 0 <= lag + 1 + e
        BY <4>1
      <4> QED
        BY <4>2 DEF e
    <3> QED
      BY <3>1, <3>2, <3>3, <3>4 DEF Settles
  <2>2. CASE port.armed
    <3> DEFINE b == [msg |-> m, pos |-> n, errs |-> errors]
    <3>1. PICK fault \in {"none"} \cup (IF errors < MaxErrors THEN {"line", "overrun"} ELSE {}),
               ok \in ArmOutcomes : port' = ReceiveByte(port, b, fault, ok)
      BY <2>2 DEF ByteArrives
    <3>2. fault \in {"none", "line", "overrun"} /\ ok \in BOOLEAN /\ b \in Byte
      <4>1. errors \in Nat
        BY ReceiverAssumption DEF IInv, TypeOK
      <4> QED
        BY <3>1, <4>1 DEF ArmOutcomes, Byte
    <3> HIDE DEF b
    <3>3. Settles(port', 0, lag, armFailures)
      BY <2>2, <3>1, <3>2, Typed, ReceiveByteSettles
    <3>4. 0 <= lag + 1 + MaxLag * armFailures'
      <4> DEFINE e == MaxLag * armFailures'
      <4>1. e \in Nat /\ lag \in Nat
        BY Counted, Typed
      <4> HIDE DEF e
      <4>2. 0 <= lag + 1 + e
        BY <4>1
      <4> QED
        BY <4>2 DEF e
    <3> QED
      BY <3>3, <3>4 DEF Settles
  <2> QED
    BY <2>1, <2>2
<1> QED
  BY <1>1, <1>2 DEF Settles, Age

\* A byte that is not hit joins those of its message.
LEMMA ByteCollected ==
  ASSUME IInv, NEW m \in Nat, NEW n \in Nat, ByteArrives(m, n + 1), m \notin hit',
         Collecting(port, m, n), port.receiver.bytes = <<>>, ~port.receiver.overflow
  PROVE  Collecting(port', m, n + 1) \/ (n + 1 = MaxADU /\ HandedOver(port', m, n + 1))
<1> DEFINE b == [msg |-> m, pos |-> n + 1, errs |-> errors]
<1>1. port.armed
  BY DEF Collecting
<1>2. PICK fault \in {"none"} \cup (IF errors < MaxErrors THEN {"line", "overrun"} ELSE {}),
           ok \in ArmOutcomes :
        /\ port' = ReceiveByte(port, b, fault, ok)
        /\ hit' = IF fault = "none" THEN hit ELSE hit \cup {m}
  BY <1>1 DEF ByteArrives
<1>3. fault = "none" /\ ok \in BOOLEAN
  BY <1>2 DEF ArmOutcomes
<1>4. b \in Byte /\ b.msg = m /\ b.pos = n + 1
  <2>1. errors \in Nat
    BY ReceiverAssumption DEF IInv, TypeOK
  <2> QED
    BY <2>1 DEF Byte
<1> HIDE DEF b
<1>5. port' = StoreByte(port, b, ok)
  BY <1>2, <1>3 DEF ReceiveByte
<1>6. port \in Port /\ Len(port.chunk) < MaxADU
  BY Typed
<1>7. LET q == StoreByte(port, b, ok)
      IN Collecting(q, m, n + 1) \/ (n + 1 = MaxADU /\ HandedOver(q, m, n + 1))
  BY <1>3, <1>4, <1>6, CollectsByte
<1> QED
  BY <1>5, <1>7

-----------------------------------------------------------------------------
\* The clock stands still and the main loop reads nothing.
LEMMA ClockReadStill ==
  ASSUME Prompt, UNCHANGED <<clock, step, nowMs, lag>>
  PROVE  (step = "poll" => Age(nowMs) <= lag)'
BY DEF Prompt, Age

\* Nothing of the message changes.
LEMMA UnderWayKept ==
  ASSUME UnderWay, UNCHANGED <<lengths, sent, hit, port, delivered>>
  PROVE  UnderWay'
<1>1. \A m : (Due(m)' <=> Due(m)) /\ (Delivered(m)' <=> Delivered(m))
  BY DEF Due, Delivered, Whole
<1>2. \A m : /\ Collecting(port, m, sent)' <=> Collecting(port, m, sent)
             /\ HandedOver(port, m, sent)' <=> HandedOver(port, m, sent)
  BY DEF Collecting, HandedOver, BytesOf
<1> QED
  BY <1>1, <1>2 DEF UnderWay

LEMMA MessageBeginsDelivers == ASSUME Timely, Delivery, MessageBegins, IInv' PROVE Delivery'
<1>1. IInv /\ Prompt /\ UnderWay /\ silence = MasterGap
  BY DEF Delivery, MessageBegins
<1>2. PICK n \in MessageLengths : lengths' = Append(lengths, n)
  BY DEF MessageBegins
<1>0. Len(lengths) \in Nat
  BY <1>1, Typed
<1> PICK m \in Nat : m = Len(lengths) + 1
  BY <1>0
<1>3. /\ n \in Nat /\ n >= 1 /\ lengths \in Seq(Nat \ {0}) /\ m \in Nat
      /\ Len(lengths') = m /\ DOMAIN lengths' = 1..m /\ lengths'[m] = n
      /\ \A i \in DOMAIN lengths : i \in 1..m - 1 /\ lengths'[i] = lengths[i]
      /\ \A i \in 1..m : i = m \/ i \in DOMAIN lengths
  <2>1. lengths \in Seq(Nat \ {0}) /\ n \in Nat \ {0}
    BY <1>1, Typed, ReceiverAssumption
  <2> QED
    BY <1>2, <2>1
<1>4. ByteArrives(m, 1)
  BY DEF MessageBegins
<1>5. /\ silence' = 0 /\ sent' = 1
      /\ UNCHANGED <<clock, step, nowMs, lag, delivered>>
  BY <1>4 DEF ByteArrives, loopVars
<1>6. /\ port.armed /\ ~port.rearm /\ port.chunk = <<>>
      /\ ~port.receiver.receiving /\ port.receiver.bytes = <<>> /\ ~port.receiver.overflow
      /\ \A i \in DOMAIN lengths : Due(i) => Delivered(i)
  BY <1>1, AtRest DEF Delivery
<1>7. Settles(port, silence, lag, armFailures)'
  <2>1. armFailures' \in Nat
    BY Typed DEF IInv, TypeOK
  <2> QED
    BY <1>1, <1>3, <1>4, <2>1, ByteSettles DEF Prompt
<1>8. Prompt'
  <2>1. (step = "poll" => Age(nowMs) <= lag)'
    BY <1>1, <1>5, ClockReadStill
  <2>2. sent' \in 1..lengths'[Len(lengths')]
    BY <1>3, <1>5
  <2>3. silence' <= 1
    BY <1>5
  <2> QED
    BY <1>7, <2>1, <2>2, <2>3 DEF Prompt
<1>9. \A i \in DOMAIN lengths : Due(i)' /\ Delivered(i) => Delivered(i)'
  BY ZenonT(60), <1>3, <1>5 DEF Delivered, Whole
<1>10. hit \subseteq hit'
  BY <1>4 DEF ByteArrives
<1>11. ASSUME Due(m)'
       PROVE  Collecting(port', m, 1) \/ (lengths'[m] = 1 /\ HandedOver(port', m, 1))
  <2>1. m \notin hit' /\ n <= MaxADU
    BY <1>3, <1>11 DEF Due
  <2>2. Collecting(port, m, 0)
    <3>1. BytesOf(<<>>, m, 0)
      BY DEF BytesOf
    <3> QED
      BY <1>6, <3>1 DEF Collecting
  <2>3. ByteArrives(m, 0 + 1)
    BY <1>4
  <2>4. Collecting(port', m, 0 + 1) \/ (0 + 1 = MaxADU /\ HandedOver(port', m, 0 + 1))
    BY <1>1, <1>3, <1>6, <2>1, <2>2, <2>3, ByteCollected
  <2> QED
    BY <1>3, <2>1, <2>4
<1>12. UnderWay'
  <2>1. ASSUME NEW i \in 1..m, Due(i)'
        PROVE  \/ Delivered(i)'
               \/ i = m /\ (Collecting(port', i, sent')
                              \/ (sent' = lengths'[i] /\ HandedOver(port', i, sent')))
    <3>1. CASE i = m
      BY <1>5, <1>11, <2>1, <3>1
    <3>2. CASE i \in DOMAIN lengths
      <4>1. Due(i)
        BY <1>3, <1>10, <2>1, <3>2 DEF Due
      <4> QED
        BY <1>6, <1>9, <2>1, <3>2, <4>1
    <3> QED
      BY <1>3, <3>1, <3>2
  <2> QED
    BY <1>3, <2>1 DEF UnderWay, Collecting, HandedOver, BytesOf
<1> QED
  BY <1>8, <1>12 DEF Delivery

LEMMA MessageContinuesDelivers ==
  ASSUME Timely, Delivery, MessageContinues, IInv'
  PROVE  Delivery'
<1>1. IInv /\ Prompt /\ UnderWay /\ InMessage
  BY DEF Delivery, MessageContinues
<1> DEFINE m == Len(lengths)
<1>2. /\ lengths \in Seq(Nat \ {0}) /\ m \in Nat /\ m \in DOMAIN lengths /\ sent \in Nat
      /\ lengths[m] \in Nat /\ sent < lengths[m] /\ sent >= 1 /\ DOMAIN lengths = 1..m
  <2>1. lengths \in Seq(Nat \ {0}) /\ lengths # <<>> /\ sent \in Nat
    BY <1>1, Typed DEF InMessage
  <2>2. sent \in 1..lengths[Len(lengths)] /\ sent < lengths[Len(lengths)]
    BY <1>1, <2>1 DEF Prompt, InMessage
  <2> QED
    BY <2>1, <2>2
<1>3. ByteArrives(m, sent + 1) /\ lengths' = lengths
  BY DEF MessageContinues
<1>4. /\ silence' = 0 /\ sent' = sent + 1
      /\ UNCHANGED <<clock, step, nowMs, lag, delivered>>
  BY <1>3 DEF ByteArrives, loopVars
<1> HIDE DEF m
<1>5. Settles(port, silence, lag, armFailures)'
  <2>1. armFailures' \in Nat
    BY Typed DEF IInv, TypeOK
  <2> QED
    BY <1>1, <1>2, <1>3, <2>1, ByteSettles DEF Prompt
<1>6. Prompt'
  <2>1. (step = "poll" => Age(nowMs) <= lag)'
    BY <1>1, <1>4, ClockReadStill
  <2>2. sent' \in 1..lengths'[Len(lengths')]
    BY <1>2, <1>3, <1>4 DEF m
  <2>3. silence' <= 1
    BY <1>4
  <2> QED
    BY <1>5, <2>1, <2>2, <2>3 DEF Prompt
<1>7. hit \subseteq hit'
  BY <1>3 DEF ByteArrives
<1>8. ASSUME NEW i \in DOMAIN lengths, Due(i)'
      PROVE  \/ Delivered(i)'
             \/ i = m /\ (Collecting(port', i, sent')
                            \/ (sent' = lengths[i] /\ HandedOver(port', i, sent')))
  <2>1. Due(i) /\ i \notin hit' /\ lengths[i] <= MaxADU
    BY <1>3, <1>7, <1>8 DEF Due
  <2>2. CASE Delivered(i)
    BY <1>3, <1>4, <2>2 DEF Delivered, Whole
  <2>3. CASE ~Delivered(i)
    <3>1. i = m /\ Collecting(port, m, sent)
      BY <1>1, <1>2, <2>1, <2>3 DEF UnderWay, m
    <3>2. port.receiver.bytes = <<>> /\ ~port.receiver.overflow
      BY <1>1, <3>1 DEF Collecting, Prompt, Settles
    <3>3. Collecting(port', m, sent + 1)
            \/ (sent + 1 = MaxADU /\ HandedOver(port', m, sent + 1))
      BY <1>1, <1>2, <1>3, <2>1, <3>1, <3>2, ByteCollected
    <3>4. sent + 1 = MaxADU => sent + 1 = lengths[m]
      BY <1>2, <2>1, <3>1
    <3> QED
      BY <1>4, <3>1, <3>3, <3>4
  <2> QED
    BY <2>2, <2>3
<1>9. UnderWay'
  BY <1>3, <1>8 DEF UnderWay, Collecting, HandedOver, BytesOf, m
<1> QED
  BY <1>6, <1>9 DEF Delivery

LEMMA IdleInterruptDelivers == ASSUME Timely, Delivery, IdleInterrupt, IInv' PROVE Delivery'
<1>1. IInv /\ Prompt /\ UnderWay /\ ~InMessage /\ port.chunk # <<>>
  BY DEF Delivery, IdleInterrupt, Timely
<1>2. PICK ok \in ArmOutcomes : port' = RxEventCallback(port, ok)
  BY DEF IdleInterrupt
<1>3. UNCHANGED <<clock, silence, lengths, sent, hit, step, nowMs, lag, delivered>>
  BY DEF IdleInterrupt, lineVars, loopVars
<1>4. ok \in BOOLEAN
  BY <1>2 DEF ArmOutcomes
<1>5. Settles(port, silence, lag, armFailures)'
  <2>1. silence \in 0..1
    BY <1>1, Typed DEF Prompt, Settles
  <2>2. armFailures' \in Nat
    BY Typed DEF IInv, TypeOK
  <2>3. Settles(port', silence, lag, armFailures')
    BY <1>1, <1>2, <1>4, <2>1, <2>2, Typed, RxEventSettles
  <2> QED
    BY <1>3, <2>3 DEF Settles, Age
<1>6. Prompt'
  <2>1. (step = "poll" => Age(nowMs) <= lag)'
    BY <1>1, <1>3, ClockReadStill
  <2> QED
    BY <1>1, <1>3, <1>5, <2>1 DEF Prompt, InMessage
<1>7. ASSUME NEW i \in DOMAIN lengths, Due(i)
      PROVE  \/ Delivered(i)
             \/ i = Len(lengths) /\ sent = lengths[i] /\ HandedOver(port', i, sent)
  <2>1. CASE Delivered(i)
    BY <2>1
  <2>2. CASE ~Delivered(i)
    <3>1. i = Len(lengths) /\ Collecting(port, i, sent)
      BY <1>1, <1>7, <2>2 DEF UnderWay, HandedOver
    <3>2. sent = lengths[i]
      <4>1. lengths \in Seq(Nat \ {0}) /\ lengths # <<>> /\ sent \in Nat
        BY <1>1, Typed
      <4>2. sent \in 1..lengths[Len(lengths)] /\ ~(sent < lengths[Len(lengths)])
        BY <1>1, <4>1 DEF Prompt, InMessage
      <4> QED
        BY <3>1, <4>1, <4>2
    <3>3. port.receiver.bytes = <<>> /\ ~port.receiver.overflow
      BY <1>1, <3>1 DEF Collecting, Prompt, Settles
    <3>4. sent <= MaxADU /\ sent \in Nat /\ port \in Port
      BY <1>1, <1>7, <3>2, Typed DEF Due
    <3> QED
      BY <1>2, <1>4, <3>1, <3>2, <3>3, <3>4, HandsOver
  <2> QED
    BY <2>1, <2>2
<1>8. UnderWay'
  BY <1>3, <1>7 DEF UnderWay, HandedOver, BytesOf, Due, Delivered, Whole
<1> QED
  BY <1>6, <1>8 DEF Delivery

LEMMA TickDelivers == ASSUME Timely, Delivery, Tick, IInv' PROVE Delivery'
<1>1. IInv /\ Prompt /\ UnderWay /\ Settles(port, silence, lag, armFailures)
  BY DEF Delivery, Prompt
<1>2. /\ UNCHANGED <<lengths, sent, hit, armFailures, port, step, nowMs, delivered>>
      /\ lag < MaxLag /\ lag' = lag + 1
      /\ silence = 0 \/ ~(InMessage \/ (port.armed /\ port.chunk # <<>>))
      /\ clock' = (clock + 1) % ClockSize
      /\ silence' = IF silence < MasterGap THEN silence + 1 ELSE silence
  BY DEF Tick
<1>3. /\ FrameGap \in Nat /\ MaxLag \in Nat /\ MasterGap \in Nat /\ ClockSize \in Nat \ {0}
      /\ ClockSize > FrameGap + MaxLag + MaxLag
  BY ReceiverAssumption DEF Timely
<1>4. silence \in Nat /\ silence' \in Nat /\ silence' <= silence + 1 /\ lag \in Nat
      /\ (silence = 0 => silence' <= 1)
  <2>1. silence \in Nat /\ lag \in Nat
    BY <1>1, Typed
  <2> QED
    BY <1>2, <1>3, <2>1
<1>5. port'.chunk # <<>> => port'.armed /\ silence' <= 1
  BY <1>1, <1>2, <1>4 DEF Settles
<1>6. port'.rearm => silence' <= lag' + 1 + MaxLag * armFailures'
  <2> DEFINE e == MaxLag * armFailures
  <2>1. e \in Nat
    BY <1>1, Counted, Typed
  <2>2. port.rearm => silence <= lag + 1 + e
    BY <1>1 DEF Settles
  <2> HIDE DEF e
  <2>3. port.rearm => silence' <= lag' + 1 + e
    BY <1>2, <1>4, <2>1, <2>2
  <2> QED
    BY <1>2, <2>3 DEF e
<1>7. port.receiver.receiving =>
        /\ Age(port.receiver.lastByte)' < FrameGap + MaxLag + lag'
        /\ silence' <= Age(port.receiver.lastByte)' + 1
        /\ port.pending # 0 => Age(port.receiver.lastByte)' <= lag'
  <2> SUFFICES ASSUME port.receiver.receiving
               PROVE  /\ Age(port.receiver.lastByte)' < FrameGap + MaxLag + lag'
                      /\ silence' <= Age(port.receiver.lastByte)' + 1
                      /\ port.pending # 0 => Age(port.receiver.lastByte)' <= lag'
    OBVIOUS
  <2> DEFINE t == port.receiver.lastByte
             a == Age(t)
             b == Age(t)'
  <2>1. /\ a < FrameGap + MaxLag + lag /\ silence <= a + 1
        /\ port.pending # 0 => a <= lag
    BY <1>1 DEF Settles
  <2>2. clock \in 0..(ClockSize - 1) /\ t \in 0..(ClockSize - 1) /\ a \in 0..(ClockSize - 1)
    BY <1>1, Typed, AgeRange
  <2>3. b = (clock' - t) % ClockSize
    BY <1>2 DEF Age
  <2>4. a + 1 < ClockSize
    <3> HIDE DEF a
    <3> QED
      BY <1>2, <1>3, <1>4, <2>1, <2>2
  <2>5. (clock' - t) % ClockSize = a + 1
    <3> DEFINE n == (clock' - t) % ClockSize
    <3> SUFFICES n = a + 1
      OBVIOUS
    <3>1. \A u \in 0..(ClockSize - 1) : Age(u) + 1 < ClockSize => Age(u)' = Age(u) + 1
      BY <1>2, <2>2, TickAges
    <3>2. \A u \in 0..(ClockSize - 1) :
            Age(u) + 1 < ClockSize => (clock' - u) % ClockSize = Age(u) + 1
      BY <3>1 DEF Age
    <3> HIDE DEF t
    <3> QED
      BY <2>2, <2>4, <3>2
  <2> HIDE DEF a, b
  <2>6. b = a + 1
    BY <2>3, <2>5
  <2>7. b < FrameGap + MaxLag + lag' /\ silence' <= b + 1 /\ (port.pending # 0 => b <= lag')
    BY <1>2, <1>3, <1>4, <2>1, <2>2, <2>6
  <2> QED
    BY <2>7 DEF b, t
<1>8. Settles(port, silence, lag, armFailures)'
  BY <1>1, <1>2, <1>5, <1>6, <1>7 DEF Settles
<1>9. (step = "poll" => Age(nowMs) <= lag)'
  <2> DEFINE a == Age(nowMs)
  <2>1. step = "poll" => a <= lag
    BY <1>1 DEF Prompt
  <2>2. clock \in 0..(ClockSize - 1) /\ nowMs \in 0..(ClockSize - 1) /\ a \in 0..(ClockSize - 1)
    BY <1>1, Typed, AgeRange
  <2>3. \A u \in 0..(ClockSize - 1) :
          Age(u) + 1 < ClockSize => (clock' - u) % ClockSize = Age(u) + 1
    <3>1. \A u \in 0..(ClockSize - 1) : Age(u) + 1 < ClockSize => Age(u)' = Age(u) + 1
      BY <1>2, <2>2, TickAges
    <3> QED
      BY <3>1 DEF Age
  <2>4. step = "poll" => a + 1 < ClockSize /\ a + 1 <= lag + 1
    <3> HIDE DEF a
    <3> QED
      BY <1>2, <1>3, <1>4, <2>1, <2>2
  <2>5. step = "poll" => (clock' - nowMs) % ClockSize <= lag + 1
    BY <2>2, <2>3, <2>4
  <2>6. Age(nowMs)' = (clock' - nowMs) % ClockSize
    BY <1>2 DEF Age
  <2> QED
    BY <1>2, <2>5, <2>6
<1>10. (lengths # <<>> => sent \in 1..lengths[Len(lengths)])'
  BY <1>1, <1>2 DEF Prompt
<1>11. (InMessage => silence <= 1)'
  BY <1>2, <1>4 DEF InMessage
<1>12. Prompt'
  BY <1>8, <1>9, <1>10, <1>11 DEF Prompt
<1>13. UnderWay'
  BY <1>1, <1>2, UnderWayKept
<1> QED
  BY <1>12, <1>13 DEF Delivery

LEMMA ReadClockDelivers == ASSUME Timely, Delivery, ReadClock, IInv' PROVE Delivery'
<1>1. IInv /\ Prompt /\ UnderWay
  BY DEF Delivery
<1>2. /\ UNCHANGED <<clock, silence, lengths, sent, hit, armFailures, port, lag, delivered>>
      /\ nowMs' = clock
  BY DEF ReadClock, lineVars
<1>3. (step = "poll" => Age(nowMs) <= lag)'
  <2>1. Age(clock) = 0 /\ lag \in Nat
    BY <1>1, Typed, AgeRange
  <2>2. Age(nowMs)' = Age(clock)
    BY <1>2 DEF Age
  <2>3. 0 <= lag'
    BY <1>2, <2>1
  <2> QED
    BY <2>1, <2>2, <2>3
<1>4. Settles(port, silence, lag, armFailures)'
  BY <1>1, <1>2 DEF Prompt, Settles, Age
<1>5. Prompt'
  BY <1>1, <1>2, <1>3, <1>4 DEF Prompt, InMessage
<1>6. UnderWay'
  BY <1>1, <1>2, UnderWayKept
<1> QED
  BY <1>5, <1>6 DEF Delivery

\* A poll that hands a frame over, or leaves it because an error came first or
\* because it has not ended.
LEMMA PollDelivers == ASSUME Timely, Delivery, Poll, IInv' PROVE Delivery'
<1>1. IInv /\ Prompt /\ UnderWay /\ Settles(port, silence, lag, armFailures) /\ step = "poll"
  BY DEF Delivery, Prompt, Poll
<1>2. PICK ok \in ArmOutcomes :
        LET p == Rearm(port, ok)
            ended == p.pending = 0 /\ FrameEnded(p.receiver, nowMs)
        IN /\ CountArm(port.rearm, ok)
           /\ port' = [p EXCEPT !.pending = 0,
                                !.receiver = IF ended THEN RtuRxInit ELSE @]
           /\ delivered' = IF ended /\ ~p.receiver.overflow
                             THEN Append(delivered, p.receiver.bytes) ELSE delivered
  BY DEF Poll
<1>3. /\ UNCHANGED <<clock, silence, lengths, sent, hit>>
      /\ step' = "clock" /\ lag' = 0
  BY DEF Poll, lineVars
<1> DEFINE p == Rearm(port, ok)
           r == port.receiver
           ended == port.pending = 0 /\ FrameEnded(r, nowMs)
<1>4. ok \in BOOLEAN
  BY <1>2 DEF ArmOutcomes
<1>5. /\ p \in Port /\ p.receiver = r /\ p.pending = port.pending
      /\ p.chunk = IF port.rearm THEN <<>> ELSE port.chunk
      /\ p.armed = IF port.rearm THEN ok ELSE port.armed
      /\ p.rearm = IF port.rearm THEN ~ok ELSE FALSE
  <2>1. port \in Port /\ port.rearm \in BOOLEAN
    BY <1>1, Typed
  <2>2. CASE port.rearm
    <3>1. <<>> \in Seq(Byte)
      OBVIOUS
    <3> QED
      BY <1>4, <2>1, <2>2, <3>1 DEF Rearm, Port
  <2>3. CASE ~port.rearm
    BY <2>1, <2>3 DEF Rearm
  <2> QED
    BY <2>2, <2>3
<1>6. CountArm(port.rearm, ok)
  BY <1>2
<1>7. /\ port' = [p EXCEPT !.pending = 0, !.receiver = IF ended THEN RtuRxInit ELSE @]
      /\ delivered' = IF ended /\ ~r.overflow
                        THEN Append(delivered, r.bytes) ELSE delivered
  BY <1>2, <1>5
<1> HIDE DEF p
<1>8. /\ port'.chunk = p.chunk /\ port'.armed = p.armed /\ port'.rearm = p.rearm
      /\ port'.pending = 0 /\ port'.receiver = IF ended THEN RtuRxInit ELSE r
  <2> HIDE DEF ended
  <2> QED
    BY <1>5, <1>7 DEF Port
<1>9. /\ r \in Receiver /\ r.receiving \in BOOLEAN /\ r.overflow \in BOOLEAN
      /\ r.bytes \in Seq(Byte) /\ r.lastByte \in 0..(ClockSize - 1)
  BY <1>1, Typed DEF Receiver
<1>10. ended => r.receiving
  BY DEF FrameEnded
<1> HIDE DEF r, ended
<1>11. /\ FrameGap \in Nat /\ FrameGap > 0 /\ MaxLag \in Nat
       /\ lag \in Nat /\ lag <= MaxLag /\ silence \in Nat /\ armFailures \in Nat
  BY <1>1, Typed, ReceiverAssumption DEF Timely
<1>12. port'.chunk # <<>> => port'.armed /\ silence' <= 1
  BY <1>1, <1>3, <1>5, <1>8 DEF Settles
<1>13. port'.rearm => silence' <= lag' + 1 + MaxLag * armFailures'
  <2> SUFFICES ASSUME port'.rearm PROVE silence' <= lag' + 1 + MaxLag * armFailures'
    OBVIOUS
  <2>1. port.rearm /\ ok = FALSE
    BY <1>4, <1>5, <1>8
  <2>2. armFailures' = armFailures + 1
    BY <1>6, <2>1 DEF CountArm
  <2> DEFINE x == MaxLag * armFailures
             y == MaxLag * (armFailures + 1)
  <2>3. silence <= lag + 1 + x
    BY <1>1, <2>1 DEF Settles
  <2>4. x \in Nat /\ y = x + MaxLag
    BY <1>11, MoreFailures
  <2> HIDE DEF x, y
  <2>5. silence <= 0 + 1 + y
    BY <1>11, <2>3, <2>4
  <2> QED
    BY <1>3, <2>2, <2>5 DEF y
<1>14. ASSUME port'.receiver.receiving
       PROVE  /\ r.receiving /\ port'.receiver = r
              /\ Age(r.lastByte) < FrameGap + MaxLag + 0
              /\ silence <= Age(r.lastByte) + 1
  <2>1. ~ended /\ port'.receiver = r /\ r.receiving
    <3>1. RtuRxInit.receiving = FALSE
      BY DEF RtuRxInit
    <3> QED
      BY <1>8, <1>14, <3>1
  <2> DEFINE a == Age(r.lastByte)
             d == Age(nowMs)
  <2>2. silence <= a + 1 /\ (port.pending # 0 => a <= lag)
    BY <1>1, <2>1 DEF Settles, r
  <2>3. d <= lag
    BY <1>1 DEF Prompt
  <2>4. a \in 0..(ClockSize - 1) /\ d \in 0..(ClockSize - 1)
    BY <1>1, <1>9, Typed, AgeRange
  <2>5. port.pending = 0 => a < FrameGap + d \/ a < d
    <3> SUFFICES ASSUME port.pending = 0 PROVE a < FrameGap + d \/ a < d
      OBVIOUS
    <3>1. ~FrameEnded(r, nowMs)
      BY <2>1 DEF ended
    <3>2. clock \in 0..(ClockSize - 1) /\ nowMs \in 0..(ClockSize - 1)
      BY <1>1, Typed
    <3> QED
      BY <1>9, <2>1, <3>1, <3>2, NotEnded
  <2> HIDE DEF a, d
  <2>6. a < FrameGap + MaxLag + 0
    BY <1>11, <2>2, <2>3, <2>4, <2>5
  <2> QED
    BY <2>1, <2>2, <2>6 DEF a
<1>15. ~port'.receiver.receiving => port'.receiver.bytes = <<>> /\ ~port'.receiver.overflow
  <2>1. CASE ended
    BY <1>8, <2>1 DEF RtuRxInit
  <2>2. CASE ~ended
    BY <1>1, <1>8, <2>2 DEF Settles, r
  <2> QED
    BY <2>1, <2>2
<1>16. Settles(port, silence, lag, armFailures)'
  <2>1. port'.receiver.receiving =>
          /\ Age(port.receiver.lastByte)' < FrameGap + MaxLag + lag'
          /\ silence' <= Age(port.receiver.lastByte)' + 1
    BY <1>3, <1>14 DEF Age
  <2> QED
    BY <1>8, <1>12, <1>13, <1>15, <2>1 DEF Settles
<1>17. Prompt'
  BY <1>1, <1>3, <1>16 DEF Prompt, InMessage
<1>18. /\ \A k \in DOMAIN delivered : k \in DOMAIN delivered' /\ delivered'[k] = delivered[k]
       /\ ended /\ ~r.overflow => \E k \in DOMAIN delivered' : delivered'[k] = r.bytes
  <2>1. delivered \in Seq(Seq(Byte))
    BY <1>1, Typed
  <2>2. CASE ended /\ ~r.overflow
    <3>1. delivered' = Append(delivered, r.bytes)
      BY <1>7, <2>2
    <3>2. /\ Len(delivered) \in Nat /\ DOMAIN delivered = 1..Len(delivered)
          /\ DOMAIN delivered' = 1..(Len(delivered) + 1)
          /\ \A k \in 1..Len(delivered) : delivered'[k] = delivered[k]
          /\ delivered'[Len(delivered) + 1] = r.bytes
      BY <1>9, <2>1, <3>1
    <3> QED
      BY <3>2
  <2>3. CASE ~(ended /\ ~r.overflow)
    BY <1>7, <2>3
  <2> QED
    BY <2>2, <2>3
<1>19. ASSUME NEW i \in DOMAIN lengths, Due(i)
       PROVE  \/ \E k \in DOMAIN delivered' : Whole(i, delivered'[k])
              \/ i = Len(lengths) /\ \/ Collecting(port', i, sent)
                                     \/ sent = lengths[i] /\ HandedOver(port', i, sent)
  <2>1. CASE Delivered(i)
    BY <1>18, <2>1 DEF Delivered
  <2>2. CASE i = Len(lengths) /\ Collecting(port, i, sent)
    <3>1. ~port.rearm /\ ~r.receiving /\ port.armed /\ BytesOf(port.chunk, i, sent)
      BY <2>2 DEF Collecting, r
    <3>2. ~ended
      BY <1>10, <3>1
    <3>3. /\ port'.chunk = port.chunk /\ port'.armed /\ ~port'.rearm
          /\ port'.receiver = r
      BY <1>5, <1>8, <3>1, <3>2
    <3> QED
      BY <2>2, <3>1, <3>3 DEF Collecting
  <2>3. CASE i = Len(lengths) /\ sent = lengths[i] /\ HandedOver(port, i, sent)
    <3>1. port.chunk = <<>> /\ r.receiving /\ ~r.overflow /\ BytesOf(r.bytes, i, sent)
      BY <2>3 DEF HandedOver, r
    <3>2. CASE ended
      <4>1. Whole(i, r.bytes)
        BY <2>3, <3>1 DEF BytesOf, Whole
      <4> QED
        BY <1>18, <3>1, <3>2, <4>1
    <3>3. CASE ~ended
      <4>1. port'.chunk = <<>> /\ port'.receiver = r
        BY <1>5, <1>8, <3>1, <3>3
      <4> QED
        BY <2>3, <3>1, <4>1 DEF HandedOver
    <3> QED
      BY <3>2, <3>3
  <2> QED
    BY <1>1, <1>19, <2>1, <2>2, <2>3 DEF UnderWay
<1>20. UnderWay'
  BY <1>3, <1>19 DEF UnderWay, Collecting, HandedOver, BytesOf, Due, Delivered, Whole
<1> QED
  BY <1>17, <1>20 DEF Delivery

LEMMA StutterDelivers == ASSUME Delivery, UNCHANGED vars, IInv' PROVE Delivery'
<1>1. UNCHANGED <<clock, silence, lengths, sent, hit, armFailures, port, step, nowMs, lag,
                  delivered>>
  BY DEF vars, lineVars, loopVars
<1>2. Prompt /\ UnderWay
  BY DEF Delivery
<1>3. Settles(port, silence, lag, armFailures)'
  BY <1>1, <1>2 DEF Prompt, Settles, Age
<1>4. (step = "poll" => Age(nowMs) <= lag)'
  BY <1>1, <1>2, ClockReadStill
<1>5. Prompt'
  BY <1>1, <1>2, <1>3, <1>4 DEF Prompt, InMessage
<1>6. UnderWay'
  BY <1>1, <1>2, UnderWayKept
<1> QED
  BY <1>5, <1>6 DEF Delivery

\* A message that is sent without a pause, is not hit itself and fits the array is
\* delivered whole, whatever came before it, if the bounds of time allow it.
THEOREM ReceiverDelivers == ASSUME Timely PROVE Spec => []CleanMessagesArrive
<1>1. Init => Delivery
  <2> SUFFICES ASSUME Init PROVE Delivery
    OBVIOUS
  <2>1. IInv
    BY Initially
  <2>2. /\ port.chunk = <<>> /\ port.rearm = FALSE
        /\ port.receiver.receiving = FALSE /\ port.receiver.bytes = <<>>
        /\ port.receiver.overflow = FALSE /\ lengths = <<>> /\ step = "clock"
    BY DEF Init, RtuRxInit
  <2>3. Prompt
    BY <2>2 DEF Prompt, Settles, InMessage
  <2>4. UnderWay
    BY <2>2 DEF UnderWay
  <2> QED
    BY <2>1, <2>3, <2>4 DEF Delivery
<1>2. Delivery /\ [Next]_vars => Delivery'
  <2> SUFFICES ASSUME Delivery, [Next]_vars PROVE Delivery'
    OBVIOUS
  <2>1. IInv
    BY DEF Delivery
  <2>2. CASE MessageBegins
    BY <2>1, <2>2, MessageBeginsKeeps, MessageBeginsDelivers
  <2>3. CASE MessageContinues
    BY <2>1, <2>3, MessageContinuesKeeps, MessageContinuesDelivers
  <2>4. CASE IdleInterrupt
    BY <2>1, <2>4, IdleInterruptKeeps, IdleInterruptDelivers
  <2>5. CASE Tick
    BY <2>1, <2>5, TickKeeps, TickDelivers
  <2>6. CASE ReadClock
    BY <2>1, <2>6, ReadClockKeeps, ReadClockDelivers
  <2>7. CASE Poll
    BY <2>1, <2>7, PollKeeps, PollDelivers
  <2>8. CASE UNCHANGED vars
    BY <2>1, <2>8, StutterKeeps, StutterDelivers
  <2> QED
    BY <2>2, <2>3, <2>4, <2>5, <2>6, <2>7, <2>8 DEF Next, MainLoop
<1>3. Delivery => CleanMessagesArrive
  <2> SUFFICES ASSUME Delivery, silence = MasterGap,
                      NEW m \in DOMAIN lengths, m \notin hit, lengths[m] <= MaxADU
               PROVE  \E k \in DOMAIN delivered : Whole(m, delivered[k])
    BY DEF CleanMessagesArrive
  <2>1. Delivered(m)
    BY AtRest DEF Due
  <2> QED
    BY <2>1 DEF Delivered
<1> QED
  BY <1>1, <1>2, <1>3, PTL DEF Spec
=============================================================================
