--------------------------- MODULE ModbusReceiver ---------------------------
(***************************************************************************)
(* How the firmware receives Modbus requests: the USART interrupt (HAL     *)
(* receive-to-idle and the two callbacks of platform_stm32.c) against the  *)
(* main loop (app_service, stm32_modbus_poll), with the RTU receiver they  *)
(* share (modbus_rtu_rx.c).                                                *)
(*                                                                         *)
(* The interrupt is one atomic step; the poll is one too, because it runs  *)
(* with the USART interrupt disabled.  Between them the main loop reads    *)
(* the clock, and that read is a step of its own.                          *)
(***************************************************************************)
EXTENDS Integers, Sequences

CONSTANTS
  MaxADU,          \* MODBUS_RTU_MAX_ADU, 256 in the code
  FrameGap,        \* MODBUS_RTU_FRAME_GAP_MS, 3 in the code
  ClockSize,       \* size of the millisecond counter, 2^32 in the code
  MaxErrorCount,   \* UINT16_MAX
  MessageLengths,  \* the lengths of the messages the master may send
  Segmented,       \* a message may pause for more than a character
  MasterGap,       \* ticks of silence between two messages
  MaxLag,          \* bound: ticks from one poll to the next
  MaxMessages, MaxErrors, MaxArmFailures    \* bounds

ASSUME ReceiverAssumption ==
  /\ MaxADU \in Nat \ {0} /\ FrameGap \in Nat /\ ClockSize \in Nat \ {0}
  /\ MessageLengths \subseteq Nat \ {0}
  /\ Segmented \in BOOLEAN
  /\ MasterGap \in Nat /\ MaxLag \in Nat
  /\ MaxMessages \in Nat /\ MaxErrors \in Nat /\ MaxArmFailures \in Nat
  /\ MaxErrorCount \in Nat /\ MaxErrors <= MaxErrorCount

VARIABLES
  clock,        \* HAL_GetTick()
  silence,      \* ticks since the last byte, counted up to MasterGap
  lengths,      \* the lengths of the messages begun so far
  sent,         \* bytes of the last of them already sent
  hit,          \* messages with a byte received in error
  errors,       \* error callbacks so far
  armFailures,  \* failed attempts to start a reception so far
  port,         \* the interrupt's state, see Port
  step, nowMs,  \* main loop: where app_service() is, and its local now_ms
  lag,          \* ticks since the last poll
  reported,     \* UART errors handed to device_model_add_communication_errors
  delivered     \* the frames handed to modbus_slave_process_adu

lineVars == <<clock, silence, lengths, sent, hit>>
loopVars == <<step, nowMs, lag, reported, delivered>>
vars == <<lineVars, errors, armFailures, port, loopVars>>

\* A byte is known by its message, its place in it, and the number of error
\* callbacks that had run when it arrived.
Byte == [msg : Nat, pos : Nat, errs : Nat]

Receiver == [bytes : Seq(Byte), lastByte : 0..(ClockSize - 1),
             receiving : BOOLEAN, overflow : BOOLEAN]

\* Stm32ModbusState and the part of the UART handle it depends on: armed is
\* RxState = BUSY_RX, chunk the bytes the HAL has put into rx_chunk.
Port == [armed : BOOLEAN, chunk : Seq(Byte), receiver : Receiver,
         pending : 0..MaxErrorCount, rearm : BOOLEAN]

RtuRxInit == [bytes |-> <<>>, lastByte |-> 0, receiving |-> FALSE, overflow |-> FALSE]

\* Types, and the sizes of the two arrays.
TypeOK ==
  /\ clock \in 0..(ClockSize - 1) /\ silence \in 0..MasterGap
  /\ lengths \in Seq(Nat \ {0}) /\ sent \in Nat /\ hit \subseteq Nat
  /\ errors \in 0..MaxErrors /\ armFailures \in 0..MaxArmFailures
  /\ port \in Port
  /\ Len(port.chunk) < MaxADU /\ Len(port.receiver.bytes) <= MaxADU
  /\ step \in {"clock", "poll"} /\ nowMs \in 0..(ClockSize - 1) /\ lag \in 0..MaxLag
  /\ reported \in Nat
  /\ delivered \in Seq(Seq(Byte))

\* The state after stm32_modbus_start(); the clock may show anything.
Init ==
  /\ clock \in 0..(ClockSize - 1) /\ silence = MasterGap
  /\ lengths = <<>> /\ sent = 0 /\ hit = {} /\ errors = 0 /\ armFailures = 0
  /\ port = [armed |-> TRUE, chunk |-> <<>>, receiver |-> RtuRxInit,
             pending |-> 0, rearm |-> FALSE]
  /\ step = "clock" /\ nowMs = 0 /\ lag = 0 /\ reported = 0 /\ delivered = <<>>

-----------------------------------------------------------------------------
(***************************************************************************)
(* The RTU receiver.                                                       *)
(***************************************************************************)
\* Mutant of Shorter: one byte too many.
ShorterOffByOne(n) == IF n <= MaxADU THEN n ELSE MaxADU + 1

Shorter(n) == IF n < MaxADU THEN n ELSE MaxADU

\* modbus_rtu_rx_push_byte() for every byte of the chunk c, all at time t.
PushBytes(r, c, t) ==
  [bytes     |-> SubSeq(r.bytes \o c, 1, Shorter(Len(r.bytes) + Len(c))),
   lastByte  |-> t,
   receiving |-> TRUE,
   overflow  |-> r.overflow \/ Len(r.bytes) + Len(c) > MaxADU]

\* Mutant of FrameEnded: the difference is signed and fails when the clock wraps.
FrameEndedSigned(r, t) == r.receiving /\ t - r.lastByte >= FrameGap

\* modbus_rtu_rx_poll() finds the frame ended: an unsigned difference.
FrameEnded(r, t) == r.receiving /\ (t - r.lastByte) % ClockSize >= FrameGap

-----------------------------------------------------------------------------
(***************************************************************************)
(* The interrupt.                                                          *)
(***************************************************************************)
ArmOutcomes == IF armFailures < MaxArmFailures THEN BOOLEAN ELSE {TRUE}

CountArm(tried, ok) ==
  armFailures' = IF tried /\ ~ok THEN armFailures + 1 ELSE armFailures

\* Mutant of RxEventCallback: a failed re-arm is not noted.
RxEventForgetsRearm(p, ok) ==
  [p EXCEPT !.receiver = PushBytes(@, p.chunk, clock), !.chunk = <<>>, !.armed = ok]

\* HAL_UARTEx_RxEventCallback: the chunk goes to the receiver.
RxEventCallback(p, ok) ==
  [p EXCEPT !.receiver = PushBytes(@, p.chunk, clock), !.chunk = <<>>,
            !.armed = ok, !.rearm = @ \/ ~ok]

\* HAL_UART_ErrorCallback.
ErrorCallback(p) ==
  [p EXCEPT !.pending = IF @ < MaxErrorCount THEN @ + 1 ELSE @,
            !.receiver = RtuRxInit, !.rearm = TRUE]

FillsChunk(p) == Len(p.chunk) + 1 = MaxADU

\* UART_Receive_IT: the chunk grows, and is handed over when it is full.
StoreByte(p, b, ok) ==
  LET q == [p EXCEPT !.chunk = Append(@, b)]
  IN IF FillsChunk(p) THEN RxEventCallback(q, ok) ELSE q

\* HAL_UART_IRQHandler for a byte: an overrun also ends the reception, unless
\* a full chunk has just started a new one.
ReceiveByte(p, b, fault, ok) ==
  LET q == StoreByte(p, b, ok)
  IN CASE fault = "none"    -> q
       [] fault = "line"    -> ErrorCallback(q)
       [] fault = "overrun" -> ErrorCallback(IF q.chunk = <<>> THEN q
                                ELSE [q EXCEPT !.armed = FALSE, !.chunk = <<>>])

\* The master sends byte number n of message m.  What arrives while no
\* reception is armed is lost: arming reads the data register empty.
ByteArrives(m, n) ==
  /\ silence' = 0 /\ sent' = n
  /\ IF port.armed
       THEN \E fault \in {"none"} \cup (IF errors < MaxErrors THEN {"line", "overrun"} ELSE {}),
               ok \in ArmOutcomes :
              /\ port' = ReceiveByte(port, [msg |-> m, pos |-> n, errs |-> errors], fault, ok)
              /\ CountArm(FillsChunk(port), ok)
              /\ errors' = IF fault = "none" THEN errors ELSE errors + 1
              /\ hit' = IF fault = "none" THEN hit ELSE hit \cup {m}
       ELSE UNCHANGED <<port, errors, armFailures, hit>>
  /\ UNCHANGED <<clock, loopVars>>

MessageBegins ==
  /\ silence = MasterGap /\ Len(lengths) < MaxMessages
  /\ \E n \in MessageLengths : lengths' = Append(lengths, n)
  /\ ByteArrives(Len(lengths) + 1, 1)

InMessage == lengths # <<>> /\ sent < lengths[Len(lengths)]

MessageContinues ==
  /\ InMessage
  /\ UNCHANGED lengths
  /\ ByteArrives(Len(lengths), sent + 1)

\* The line has been idle for a character.
IdleInterrupt ==
  /\ port.armed /\ port.chunk # <<>>
  /\ Segmented \/ ~InMessage
  /\ \E ok \in ArmOutcomes :
       /\ port' = RxEventCallback(port, ok)
       /\ CountArm(TRUE, ok)
  /\ UNCHANGED <<lineVars, errors, loopVars>>

\* A millisecond passes.  A pause within a message is shorter than one, an idle
\* line is noticed within one, and the main loop comes round in MaxLag of them.
Tick ==
  /\ lag < MaxLag
  /\ silence = 0 \/ ~(InMessage \/ (port.armed /\ port.chunk # <<>>))
  /\ clock' = (clock + 1) % ClockSize
  /\ silence' = IF silence < MasterGap THEN silence + 1 ELSE silence
  /\ lag' = lag + 1
  /\ UNCHANGED <<lengths, sent, hit, errors, armFailures, port, step, nowMs,
                 reported, delivered>>

-----------------------------------------------------------------------------
(***************************************************************************)
(* The main loop.                                                          *)
(***************************************************************************)
ReadClock ==
  /\ step = "clock" /\ step' = "poll"
  /\ nowMs' = clock
  /\ UNCHANGED <<lineVars, errors, armFailures, port, lag, reported, delivered>>

\* Mutant of Rearm: the attempt counts as done whatever came of it.
RearmOnce(p, ok) ==
  IF p.rearm THEN [p EXCEPT !.armed = ok, !.chunk = <<>>, !.rearm = FALSE] ELSE p

\* A reception that may still run is aborted and started anew.
Rearm(p, ok) ==
  IF p.rearm THEN [p EXCEPT !.armed = ok, !.chunk = <<>>, !.rearm = ~ok] ELSE p

\* Mutant of Poll: errors are forgotten when the reception is started anew.
PollForgetsErrors ==
  /\ step = "poll" /\ step' = "clock" /\ nowMs' = 0 /\ lag' = 0
  /\ \E ok \in ArmOutcomes :
       /\ port' = [Rearm(port, ok) EXCEPT !.pending = 0]
       /\ CountArm(port.rearm, ok)
  /\ UNCHANGED <<lineVars, errors, reported, delivered>>

\* Mutant of Poll: the receiver keeps the frame it has delivered.
PollKeepsFrame ==
  /\ step = "poll" /\ step' = "clock" /\ nowMs' = 0 /\ lag' = 0
  /\ delivered' = IF FrameEnded(port.receiver, nowMs)
                    THEN Append(delivered, port.receiver.bytes) ELSE delivered
  /\ UNCHANGED <<lineVars, errors, armFailures, port, reported>>

\* stm32_modbus_poll, and what service_modbus() makes of its event.
Poll ==
  /\ step = "poll" /\ step' = "clock" /\ nowMs' = 0 /\ lag' = 0
  /\ \E ok \in ArmOutcomes :
       LET p == Rearm(port, ok)
           ended == p.pending = 0 /\ FrameEnded(p.receiver, nowMs)
       IN /\ CountArm(port.rearm, ok)
          /\ port' = [p EXCEPT !.pending = 0,
                               !.receiver = IF ended THEN RtuRxInit ELSE @]
          /\ reported' = reported + p.pending
          /\ delivered' = IF ended /\ ~p.receiver.overflow
                            THEN Append(delivered, p.receiver.bytes) ELSE delivered
  /\ UNCHANGED <<lineVars, errors>>

MainLoop == ReadClock \/ Poll
Next == MessageBegins \/ MessageContinues \/ IdleInterrupt \/ Tick \/ MainLoop

Spec == Init /\ [][Next]_vars
FairSpec == Spec /\ WF_vars(MainLoop)

-----------------------------------------------------------------------------
(***************************************************************************)
(* Properties.                                                             *)
(***************************************************************************)
Before(a, b) == a.msg < b.msg \/ (a.msg = b.msg /\ a.pos < b.pos)
Ordered(s) == \A i, j \in DOMAIN s : i < j => Before(s[i], s[j])
Precedes(s, t) == \A i \in DOMAIN s, j \in DOMAIN t : Before(s[i], t[j])

\* No byte is delivered twice or out of order, across frames, interrupts that
\* split a frame, errors and re-armed receptions (buffer hand-over in the poll).
FramesInOrder ==
  /\ \A k \in DOMAIN delivered : Ordered(delivered[k])
  /\ \A k, n \in DOMAIN delivered : k < n => Precedes(delivered[k], delivered[n])

\* A port that receives nothing is one the next poll will arm: no order of
\* callbacks and polls leaves it deaf.
NeverDeaf == port.armed \/ port.rearm

\* Every error callback is reported to the device model exactly once, of no more
\* than MaxErrorCount errors (beyond it the code's counter stays where it is).
ErrorsReportedOnce == reported + port.pending = errors

Whole(m, f) ==
  /\ Len(f) = lengths[m]
  /\ \A i \in DOMAIN f : f[i].msg = m /\ f[i].pos = i

\* After errors, overflows and failed re-arming, a message that keeps the frame
\* boundary and is not hit itself is delivered whole.
CleanMessagesArrive ==
  silence = MasterGap =>
    \A m \in DOMAIN lengths :
      m \notin hit /\ lengths[m] <= MaxADU =>
        \E k \in DOMAIN delivered : Whole(m, delivered[k])

\* An error voids the candidate frame: bytes from before and after it are not
\* joined to one.
ErrorVoidsFrame ==
  \A k \in DOMAIN delivered :
    \A i, j \in DOMAIN delivered[k] : delivered[k][i].errs = delivered[k][j].errs

\* A frame is handed over only after FrameGap ticks without a byte.
FrameAfterSilence == [][delivered' # delivered => silence >= FrameGap]_vars

\* A reception that has ended is started again.
ReceptionResumes == ~port.armed ~> port.armed
=============================================================================
