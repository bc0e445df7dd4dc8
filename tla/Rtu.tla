-------------------------------- MODULE Rtu --------------------------------
(***************************************************************************)
(* One Modbus RTU exchange after another, byte by byte: the codec of the   *)
(* host (RtuCodec.cpp, RegisterCodec.cpp) and the way the worker feeds it, *)
(* a line that may damage a frame, and the slave of the firmware with its  *)
(* register map (modbus_slave.c, register_map.c) on the device model.      *)
(*                                                                         *)
(* An exchange is over before the next one begins: answers that outlive    *)
(* their request are the matter of SerialModbusClient, the framing of what *)
(* the device receives that of ModbusReceiver.                             *)
(***************************************************************************)
EXTENDS DeviceModel, Sequences, Bitwise

CONSTANTS
  Reads,       \* <<start, count>> of the reads the host may ask for
  Writes,      \* <<address, value>> of the writes, the value as the host means it
  Samples,     \* <<channel, temperature>> the sensors may publish
  Uptimes,     \* values the uptime may reach, in seconds
  Version,     \* <<major, minor>> of the firmware
  Masks, Noise \* bits of a byte that may flip, bytes that may come from nowhere

ServerAddress == 1       \* config.serverAddress and MODBUS_SLAVE_ID
ReadFunction == 3        \* readHoldingRegistersFunction
WriteFunction == 6       \* writeSingleRegisterFunction
ExceptionBit == 128
FirstThreshold == 9      \* REGISTER_THRESHOLD_A

VARIABLES
  device,    \* the model of the device
  uptime,    \* its uptime_seconds
  request,   \* active_->descriptor: [function, address, value]
  toDevice,  \* frames on their way to the device
  toHost,    \* bytes on their way to the host
  heard,     \* active_->evidence.rxAdu
  verdict,   \* what the request has come to
  damaged,   \* history: the line has damaged this exchange
  before,    \* history: the thresholds when the request was sent
  possible   \* history: what the block the request reads has shown since then

vars == <<device, uptime, request, toDevice, toHost, heard, verdict, damaged, before, possible>>

Word(n) == n % 65536
Signed(word) == IF word <= 32767 THEN word ELSE word - 65536
Bytes(word) == <<word \div 256, word % 256>>
BigEndian(bytes, i) == 256 * bytes[i] + bytes[i + 1]
BitsOf(word) == {b \in 0..15 : (word \div 2^b) % 2 = 1}
WordOf(bits) == LET sum[b \in 0..16] == IF b = 16 THEN 0
                                        ELSE sum[b + 1] + (IF b \in bits THEN 2^b ELSE 0)
                IN sum[0]

\* The loop of modbusCrc16 over the bits of one byte, for every byte.
CrcTable ==
  LET shifted(crc) == IF crc % 2 = 1 THEN (crc \div 2) ^^ 40961 ELSE crc \div 2
      eight(crc) == LET four(c) == shifted(shifted(shifted(shifted(c)))) IN four(four(crc))
  IN [low \in 0..255 |-> eight(low)]

Crc(bytes) ==
  LET crc[n \in 0..Len(bytes)] ==
        IF n = 0 THEN 65535
        ELSE LET last == crc[n - 1]
             IN (last \div 256) ^^ CrcTable[(last % 256) ^^ bytes[n]]
  IN crc[Len(bytes)]

AppendCrc(bytes) == LET crc == Crc(bytes) IN bytes \o <<crc % 256, crc \div 256>>

\* Mutant of HasValidCrc: there is room for one.
HasRoomForCrc(frame) == Len(frame) >= 4

HasValidCrc(frame) ==
  LET n == Len(frame)
  IN frame[n - 1] + 256 * frame[n] = Crc(SubSeq(frame, 1, n - 2))

-----------------------------------------------------------------------------
(***************************************************************************)
(* The register map of the device.                                         *)
(***************************************************************************)
Readable == 0..4 \cup 9..12 \cup 19..20 \cup 29..31 \cup 39..40

FaultBits(m) == {0, 5} \cup {c + 1 : c \in m.fault} \cup (IF m.lightFault THEN {4} ELSE {})

\* make_snapshot and snapshot_value.
Register(m, seconds, address) ==
  CASE address \in 0..3 -> Word(m.temperature[address].value)
    [] address = 4 -> m.light
    [] address \in 9..12 -> Word(m.threshold[address - FirstThreshold])
    [] address = 19 -> WordOf(m.alarm)
    [] address = 20 -> WordOf(FaultBits(m))
    [] address = 29 -> m.errors
    [] address = 30 -> seconds % 65536
    [] address = 31 -> seconds \div 65536
    [] OTHER -> Version[address - 38]

\* register_map_write_single: the new model, or an exception.
WriteSingle(m, address, word) ==
  IF address - FirstThreshold \notin Channels THEN [model |-> m, exception |-> 2]
  ELSE IF Signed(word) \notin Temperatures THEN [model |-> m, exception |-> 3]
  ELSE [model |-> SetThreshold(m, address - FirstThreshold, Signed(word)), exception |-> 0]

Silent(m) == [model |-> m, answer |-> <<>>]
Answers(m, bytes) == [model |-> m, answer |-> AppendCrc(bytes)]
Refuses(m, function, code) ==
  Answers(m, <<ServerAddress, (function % ExceptionBit) + ExceptionBit, code>>)

\* process_read.
ProcessRead(m, seconds, address, quantity) ==
  LET words == [i \in 1..quantity |-> Register(m, seconds, address + i - 1)]
      data == [i \in 1..2 * quantity |-> Bytes(words[(i + 1) \div 2])[IF i % 2 = 1 THEN 1 ELSE 2]]
  IN IF quantity \notin 1..125 THEN Refuses(m, ReadFunction, 3)
     ELSE IF ~(address..address + quantity - 1 \subseteq Readable) THEN Refuses(m, ReadFunction, 2)
     ELSE Answers(m, <<ServerAddress, ReadFunction, 2 * quantity>> \o data)

ProcessWrite(m, frame) ==
  LET written == WriteSingle(m, BigEndian(frame, 3), BigEndian(frame, 5))
  IN IF written.exception # 0 THEN Refuses(m, WriteFunction, written.exception)
     ELSE Answers(written.model, SubSeq(frame, 1, 6))

\* modbus_slave_process_adu, and the count service_modbus keeps of its errors.
ProcessAdu(m, seconds, frame) ==
  LET n == Len(frame)
      error == Silent(AddCommunicationErrors(m, 1))
      function == frame[2]
  IN IF frame[1] # ServerAddress THEN Silent(m)
     ELSE IF n < 4 \/ ~HasValidCrc(frame) THEN error
     ELSE IF function \notin {ReadFunction, WriteFunction} THEN Refuses(m, function, 1)
     ELSE IF n < 8 THEN error
     ELSE IF n > 8 THEN Refuses(m, function, 3)
     ELSE IF function = ReadFunction
       THEN ProcessRead(m, seconds, BigEndian(frame, 3), BigEndian(frame, 5))
     ELSE ProcessWrite(m, frame)

-----------------------------------------------------------------------------
(***************************************************************************)
(* The codec of the host.                                                  *)
(***************************************************************************)
NoVerdict == [status |-> "None", shown |-> {}]
Failed == [status |-> "Failed", shown |-> {}]
Refused == [status |-> "Exception", shown |-> {}]
Succeeded(shown) == [status |-> "Success", shown |-> shown]

EncodeRequest(r) ==
  AppendCrc(<<ServerAddress, r.function>> \o Bytes(r.address) \o Bytes(Word(r.value)))

\* Mutant of JoinedUptime: the high word is taken for the low one.
HighWordFirst(low, high) == 65536 * low + high

JoinedUptime(low, high) == low + 65536 * high

\* The decoders of RegisterCodec.cpp, for the five blocks; {} stands for CodecError.
DecodeBlock(start, words) ==
  CASE start = 0 ->
         IF {Signed(words[i]) : i \in 1..4} \subseteq Temperatures /\ words[5] <= MaxLight
           THEN {[i \in 1..5 |-> IF i = 5 THEN words[i] ELSE Signed(words[i])]} ELSE {}
    [] start = 9 ->
         IF {Signed(words[i]) : i \in 1..4} \subseteq Temperatures
           THEN {[i \in 1..4 |-> Signed(words[i])]} ELSE {}
    [] start = 19 -> {<<BitsOf(words[1]), BitsOf(words[2])>>}
    [] start = 29 -> {<<words[1], JoinedUptime(words[2], words[3])>>}
    [] start = 39 -> {words}

\* The length an answer must have, once its function is known: expectedLength.
AnswerLength(r, bytes) ==
  CASE bytes[2] = r.function + ExceptionBit -> 5
    [] bytes[2] = ReadFunction -> IF Len(bytes) < 3 THEN 5 ELSE 5 + bytes[3]
    [] bytes[2] = WriteFunction -> 8
    [] OTHER -> Len(bytes)

KnownFunction(r, bytes) ==
  bytes[2] \in {r.function + ExceptionBit, ReadFunction, WriteFunction}

\* What a frame with the right length and a valid CRC says.
DecodeFrame(r, bytes) ==
  LET words == [i \in 1..r.value |-> BigEndian(bytes, 2 + 2 * i)]
  IN IF bytes[1] # ServerAddress THEN Failed
     ELSE IF bytes[2] = r.function + ExceptionBit THEN Refused
     ELSE IF bytes[2] # r.function THEN Failed
     ELSE IF r.function = ReadFunction
       THEN IF bytes[3] # 2 * r.value THEN Failed ELSE Succeeded(DecodeBlock(r.address, words))
     ELSE IF SubSeq(bytes, 3, 6) = Bytes(r.address) \o Bytes(Word(r.value))
       THEN Succeeded({}) ELSE Failed

\* Mutant of EvaluateCandidate: a silence condemns what has come so far.
SilenceEndsAnswer(r, bytes, complete) ==
  IF Len(bytes) < 2 \/ (~complete /\ ~KnownFunction(r, bytes)) THEN NoVerdict
  ELSE IF Len(bytes) < AnswerLength(r, bytes)
    THEN IF complete THEN Failed ELSE NoVerdict
  ELSE IF Len(bytes) > AnswerLength(r, bytes) THEN Failed
  ELSE IF Len(bytes) < 4 THEN NoVerdict
  ELSE IF HasValidCrc(bytes) THEN DecodeFrame(r, bytes) ELSE Failed

\* decodeResponseAdu as evaluateCandidate uses it: an answer that is too short is
\* never condemned, not even by a silence.
EvaluateCandidate(r, bytes, complete) ==
  IF Len(bytes) < 2 \/ (~complete /\ ~KnownFunction(r, bytes)) THEN NoVerdict
  ELSE IF Len(bytes) < AnswerLength(r, bytes) THEN NoVerdict
  ELSE IF Len(bytes) > AnswerLength(r, bytes) THEN Failed
  ELSE IF Len(bytes) < 4 THEN NoVerdict
  ELSE IF HasValidCrc(bytes) THEN DecodeFrame(r, bytes) ELSE Failed

-----------------------------------------------------------------------------
\* What the device shows in a block, in the terms of its own model.
Shown(r, m, seconds) ==
  IF r.function = WriteFunction THEN {}
  ELSE CASE r.address = 0 -> {[i \in 1..5 |-> IF i = 5 THEN m.light ELSE m.temperature[i - 1].value]}
         [] r.address = 9 -> {[i \in 1..4 |-> m.threshold[i - 1]]}
         [] r.address = 19 -> {<<m.alarm, FaultBits(m)>>}
         [] r.address = 29 -> {<<m.errors, seconds>>}
         [] r.address = 39 -> {Version}
         [] OTHER -> {}

\* The device changes: what it showed meanwhile may be what the answer brings.
DeviceBecomes(m, seconds) ==
  /\ device' = m /\ uptime' = seconds
  /\ possible' = IF verdict = NoVerdict THEN possible \cup Shown(request, m, seconds) ELSE possible

Requests ==
  {[function |-> ReadFunction, address |-> r[1], value |-> r[2]] : r \in Reads}
    \cup {[function |-> WriteFunction, address |-> w[1], value |-> w[2]] : w \in Writes}

\* No request is under way, and none has been answered.
Init ==
  /\ device = ModelInit /\ uptime = 0
  /\ request \in Requests /\ verdict = Failed
  /\ toDevice = <<>> /\ toHost = <<>> /\ heard = <<>>
  /\ damaged = TRUE /\ before = ModelInit.threshold /\ possible = {}

\* startNext, when the line is silent.
StartNext(r) ==
  /\ verdict # NoVerdict /\ toDevice = <<>> /\ toHost = <<>>
  /\ request' = r /\ toDevice' = <<EncodeRequest(r)>> /\ heard' = <<>> /\ verdict' = NoVerdict
  /\ damaged' = FALSE /\ before' = device.threshold /\ possible' = Shown(r, device, uptime)
  /\ UNCHANGED <<device, uptime, toHost>>

Serve ==
  LET outcome == ProcessAdu(device, uptime, Head(toDevice))
  IN /\ toDevice # <<>>
     /\ toDevice' = Tail(toDevice) /\ toHost' = toHost \o outcome.answer
     /\ DeviceBecomes(outcome.model, uptime)
     /\ UNCHANGED <<request, heard, verdict, damaged, before>>

\* onReadyRead: some of the bytes.  Without a request they are dropped.
ReadyRead(n) ==
  /\ n \in 1..Len(toHost)
  /\ toHost' = SubSeq(toHost, n + 1, Len(toHost))
  /\ IF verdict # NoVerdict THEN UNCHANGED <<heard, verdict>>
     ELSE /\ heard' = heard \o SubSeq(toHost, 1, n)
          /\ verdict' = EvaluateCandidate(request, heard', FALSE)
  /\ UNCHANGED <<device, uptime, request, toDevice, damaged, before, possible>>

\* onSilenceElapsed: the line paused, within an answer or after it.
SilenceElapsed ==
  /\ verdict = NoVerdict /\ heard # <<>>
  /\ verdict' = EvaluateCandidate(request, heard, TRUE)
  /\ UNCHANGED <<device, uptime, request, toDevice, toHost, heard, damaged, before, possible>>

\* The timeout of a request is longer than an exchange takes.
ResponseTimeout ==
  /\ verdict = NoVerdict /\ toDevice = <<>> /\ toHost = <<>>
  /\ verdict' = Failed
  /\ UNCHANGED <<device, uptime, request, toDevice, toHost, heard, damaged, before, possible>>

Sample ==
  /\ \E s \in Samples : DeviceBecomes(PublishTemperature(device, s[1], s[2]), uptime)
  /\ UNCHANGED <<request, toDevice, toHost, heard, verdict, damaged, before>>

Tick ==
  /\ \E seconds \in Uptimes : seconds > uptime /\ DeviceBecomes(device, seconds)
  /\ UNCHANGED <<request, toDevice, toHost, heard, verdict, damaged, before>>

-----------------------------------------------------------------------------
(***************************************************************************)
(* The line damages an exchange at most once: bits of a byte are flipped,  *)
(* a byte is lost, or one comes from nowhere at either end.                *)
(***************************************************************************)
Without(frame, i) == SubSeq(frame, 1, i - 1) \o SubSeq(frame, i + 1, Len(frame))

DamagedForms(frame) ==
  {[frame EXCEPT ![i] = @ ^^ mask] : i \in 1..Len(frame), mask \in Masks}
    \cup {Without(frame, i) : i \in 1..Len(frame)}
    \cup {<<b>> \o frame : b \in Noise} \cup {Append(frame, b) : b \in Noise}

Untouched == ~damaged /\ damaged' = TRUE
                /\ UNCHANGED <<device, uptime, request, heard, verdict, before, possible>>

DamageRequest ==
  /\ Untouched /\ toDevice # <<>>
  /\ \E frame \in DamagedForms(Head(toDevice)) : toDevice' = <<frame>>
  /\ UNCHANGED toHost

\* A pause in the middle makes two frames of it.
SplitRequest ==
  /\ Untouched /\ toDevice # <<>>
  /\ LET frame == Head(toDevice)
     IN \E i \in 1..Len(frame) - 1 :
          toDevice' = <<SubSeq(frame, 1, i), SubSeq(frame, i + 1, Len(frame))>>
  /\ UNCHANGED toHost

DamageAnswer ==
  /\ Untouched /\ toHost # <<>> /\ heard = <<>>
  /\ toHost' \in DamagedForms(toHost)
  /\ UNCHANGED toDevice

\* Nothing of what is under way arrives, or no more of it.
LoseFrame ==
  /\ Untouched /\ (toDevice # <<>> \/ toHost # <<>>)
  /\ toDevice' = <<>> /\ toHost' = <<>>

Next ==
  \/ \E r \in Requests : StartNext(r)
  \/ Serve \/ \E n \in 1..Len(toHost) : ReadyRead(n)
  \/ SilenceElapsed \/ ResponseTimeout \/ Sample \/ Tick
  \/ DamageRequest \/ SplitRequest \/ DamageAnswer \/ LoseFrame

Spec == Init /\ [][Next]_vars

-----------------------------------------------------------------------------
\* What the register table allows: the reference for the code of both sides.
Legal(r) ==
  IF r.function = WriteFunction
    THEN r.address - FirstThreshold \in Channels /\ r.value \in Temperatures
  ELSE r.address..r.address + r.value - 1 \subseteq Readable

\* What the host is told is true, however the line damaged the frames.  What it reads
\* is what the device showed at one moment since the request was sent, every register
\* of it, signs and halves included; a value it wrote is the threshold of the device;
\* and an exception means that the request was illegal and has changed nothing.
AnswerIsTrue ==
  /\ verdict.status = "Success" =>
       IF request.function = ReadFunction
         THEN verdict.shown # {} /\ verdict.shown \subseteq possible
         ELSE device.threshold[request.address - FirstThreshold] = request.value
  /\ verdict.status = "Exception" => ~Legal(request) /\ device.threshold = before

\* An exchange the line leaves alone, whatever its pauses, ends in the answer the
\* request deserves, never in a timeout or an error of the codec.
IntactExchangeIsAnswered ==
  verdict # NoVerdict /\ ~damaged =>
    verdict.status = IF Legal(request) THEN "Success" ELSE "Exception"

\* A threshold changes only to what a legal write under way asks of it.
OnlyAskedWritesApply ==
  [][device'.threshold # device.threshold =>
       /\ request.function = WriteFunction /\ Legal(request) /\ verdict = NoVerdict
       /\ device'.threshold =
            [device.threshold EXCEPT ![request.address - FirstThreshold] = request.value]]_vars
=============================================================================
