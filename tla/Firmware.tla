------------------------------ MODULE Firmware ------------------------------
(***************************************************************************)
(* The firmware's main loop: app_service() reads the clock once, counts    *)
(* the uptime, serves the Modbus port and then, with the same reading, one *)
(* step of every temperature channel and of the light sensor               *)
(* (acquisition.c).  A call to a sensor or to the port may take its time:  *)
(* the clock goes on between the steps of one pass, and it wraps.          *)
(*                                                                         *)
(* The channels and the light sensor have contexts and fields of the model *)
(* of their own, and share nothing but the time of the pass.  A behaviour  *)
(* follows one of them; the others only take their time.                   *)
(***************************************************************************)
EXTENDS DeviceModel

CONSTANTS
  Modulus,            \* 2^32, the clock's
  MaxLag,             \* the longest pass of the main loop
  SampleInterval,     \* DHTC12_SAMPLE_INTERVAL_MS and ADC_BATCH_INTERVAL_MS
  FirstOffset,        \* DHT_FIRST_OFFSETS_MS, and ADC_FIRST_BATCH_OFFSET_MS last
  ReadyPoll,          \* DHTC12_READY_POLL_MS
  ConversionTimeout,  \* DHTC12_CONVERSION_TIMEOUT_MS
  BatchSamples,       \* ADC_BATCH_SAMPLE_COUNT
  MaxRaw,             \* ADC_MAX_RAW
  Second,             \* 1000 ms
  UptimeModulus,      \* 2^32, of uptime_seconds
  SampleTemperatures, Thresholds, Raws  \* bounds: the data sensors and master send

ASSUME FirmwareAssumption ==
  /\ {MaxLag, SampleInterval, ReadyPoll, ConversionTimeout, BatchSamples, MaxRaw,
      Second, UptimeModulus} \subseteq Nat \ {0}
  /\ FirstOffset \in [Channels -> 0..SampleInterval]
  /\ Modulus \in Nat
  /\ 2 * (SampleInterval + ConversionTimeout + ReadyPoll + 3 * MaxLag) < Modulus
  /\ 2 * (SampleInterval + (2 * BatchSamples + 2) * MaxLag) < Modulus
  /\ ReadyPoll <= SampleInterval
  /\ SampleTemperatures \cup Thresholds \subseteq Temperatures /\ Raws \subseteq 0..MaxRaw

VARIABLES
  clock,    \* HAL_GetTick()
  now,      \* now_ms, read at the start of the pass
  stage,    \* what the pass does next: 0 Modbus, c + 1 channel c, then the light
  uptime,   \* last_uptime_tick_ms is now; uptime_remainder_ms and uptime_seconds
  model,    \* g_app.model
  watched,  \* the channel followed; the ambient's number stands for the light
  dht,      \* AcquisitionContext.dht
  adc,      \* AcquisitionContext.adc
  seen      \* history: see Seen

vars == <<clock, now, stage, uptime, model, watched, dht, adc, seen>>

Time == 0..Modulus - 1
Light == RealCount + 1

Uptime == [remainder : 0..Second - 1, seconds : 0..UptimeModulus - 1]
DhtState == {"InitRecover", "InitReset", "Idle", "WaitReady"}
Dht == [state : DhtState, nextTrigger : Time, triggeredAt : Time, nextRead : Time]
Adc == [state : {"Idle", "StartSample", "WaitSample"}, nextBatch : Time,
        sum : 0..BatchSamples * MaxRaw, count : 0..BatchSamples - 1]

\* The longest a channel may be left without a result.  A temperature: the wait for
\* the next measurement, the conversion and a last poll.  The light: the wait, and
\* two passes for each sample.  Each is seen by the first pass after it is due.
Patience(c) ==
  IF c = Ambient THEN SampleInterval + (2 * BatchSamples + 2) * MaxLag - 1
  ELSE SampleInterval + ConversionTimeout + ReadyPoll + 3 * (MaxLag - 1)

\* What an observer with a watch of its own knows.
Seen == [
  age     : [Channels -> Nat],                  \* since the last result of the channel,
                                                \* the light's in place of the ambient's
  command : [Real -> 0..SampleInterval],        \* since the last command to the sensor
  failed  : [Real -> 0..FailureLimit],          \* results in a row that were failures
  elapsed : 0..Second * UptimeModulus - 1]      \* since the start

-----------------------------------------------------------------------------
\* Mutant of TimeReached: without the sign the comparison fails at the wrap.
TimeReachedUnsigned(deadline) == now >= deadline

\* time_reached: the sign of the difference, as a 32-bit integer.
TimeReached(deadline) == (now - deadline) % Modulus < Modulus \div 2

After(interval) == (now + interval) % Modulus
Since(t) == (now - t) % Modulus

\* A result of channel c goes to the observer.
Failed(c, crcFailure) ==
  /\ model' = FailTemperature(model, c, crcFailure)
  /\ seen' = [seen EXCEPT !.age[c] = 0, !.failed[c] = IF @ < FailureLimit THEN @ + 1 ELSE @]

Command(c) == seen' = [seen EXCEPT !.command[c] = 0]
Quiet == UNCHANGED <<model, seen>>

\* fail_dht_initialization.
InitializationFails(c) ==
  /\ dht' = [dht EXCEPT ![c].state = "InitRecover", ![c].nextTrigger = After(SampleInterval)]
  /\ Failed(c, FALSE)

-----------------------------------------------------------------------------
(***************************************************************************)
(* service_dht_channel, by the state of the channel.                       *)
(***************************************************************************)
Recover(c) ==
  /\ dht[c].state = "InitRecover"
  /\ \/ InitializationFails(c)
     \/ /\ dht' = [dht EXCEPT ![c].state = "InitReset", ![c].nextTrigger = now]
        /\ Quiet

Reset(c) ==
  /\ dht[c].state = "InitReset"
  /\ \/ InitializationFails(c)
     \/ /\ dht' = [dht EXCEPT ![c].state = "Idle", ![c].nextTrigger = After(SampleInterval)]
        /\ seen' = [seen EXCEPT !.command[c] = 0, !.age[c] = 0]
        /\ UNCHANGED model

\* Mutant of Trigger: the interval runs from the planned time.
TriggerFromPlan(c) ==
  LET plan == (dht[c].nextTrigger + SampleInterval) % Modulus
  IN /\ dht[c].state = "Idle"
     /\ \/ /\ dht' = [dht EXCEPT ![c].state = "InitRecover", ![c].nextTrigger = plan]
           /\ Failed(c, FALSE)
        \/ /\ dht' = [dht EXCEPT ![c] = [state |-> "WaitReady", nextTrigger |-> plan,
                                         triggeredAt |-> now, nextRead |-> After(ReadyPoll)]]
           /\ Command(c)
           /\ UNCHANGED model

Trigger(c) ==
  /\ dht[c].state = "Idle"
  /\ \/ /\ dht' = [dht EXCEPT ![c].state = "InitRecover", ![c].nextTrigger = After(SampleInterval)]
        /\ Failed(c, FALSE)
     \/ /\ dht' = [dht EXCEPT ![c] = [state |-> "WaitReady", nextTrigger |-> After(SampleInterval),
                                      triggeredAt |-> now, nextRead |-> After(ReadyPoll)]]
        /\ Command(c)
        /\ UNCHANGED model

\* dht_read and what is made of the frame: not ready yet, a bus error, a frame that
\* is short, damaged, out of range or not confirmed, or a temperature.
Read(c) ==
  /\ dht[c].state = "WaitReady"
  /\ \/ /\ Since(dht[c].triggeredAt) < ConversionTimeout
        /\ dht' = [dht EXCEPT ![c].nextRead = After(ReadyPoll)]
        /\ Quiet
     \/ /\ dht' = [dht EXCEPT ![c].state = "InitRecover"]
        /\ Failed(c, FALSE)
     \/ /\ dht' = [dht EXCEPT ![c].state = "Idle"]
        /\ \/ \E crcFailure \in BOOLEAN : Failed(c, crcFailure)
           \/ \E v \in SampleTemperatures :
                /\ model' = PublishTemperature(model, c, v)
                /\ seen' = [seen EXCEPT !.age[c] = 0, !.failed[c] = 0]

Due(c) == TimeReached(IF dht[c].state = "WaitReady" THEN dht[c].nextRead ELSE dht[c].nextTrigger)

ServiceChannel(c) ==
  /\ stage = c + 1 /\ stage' = stage + 1
  /\ IF c = watched /\ Due(c)
       THEN Recover(c) \/ Reset(c) \/ Trigger(c) \/ Read(c)
       ELSE UNCHANGED dht /\ Quiet
  /\ UNCHANGED <<clock, now, uptime, watched, adc>>

-----------------------------------------------------------------------------
(***************************************************************************)
(* service_adc.                                                            *)
(***************************************************************************)
LightResult == seen' = [seen EXCEPT !.age[Ambient] = 0]

FailAdcBatch ==
  /\ adc' = [state |-> "Idle", nextBatch |-> After(SampleInterval), sum |-> 0, count |-> 0]
  /\ model' = FailLight(model) /\ LightResult

BeginBatch ==
  /\ adc.state = "Idle"
  /\ adc' = [state |-> "StartSample", nextBatch |-> After(SampleInterval), sum |-> 0, count |-> 0]
  /\ Quiet

StartSample ==
  /\ adc.state = "StartSample"
  /\ FailAdcBatch \/ (adc' = [adc EXCEPT !.state = "WaitSample"] /\ Quiet)

\* The average is rounded to the nearest, and the millivolts are cut.
Millivolts(sum) ==
  (((sum + BatchSamples \div 2) \div BatchSamples) * MaxLight) \div MaxRaw

TakeSample ==
  /\ adc.state = "WaitSample"
  /\ \/ FailAdcBatch
     \/ \E raw \in Raws :
          IF adc.count + 1 < BatchSamples
            THEN /\ adc' = [adc EXCEPT !.state = "StartSample", !.sum = @ + raw, !.count = @ + 1]
                 /\ Quiet
            ELSE /\ adc' = [adc EXCEPT !.state = "Idle", !.sum = 0, !.count = 0]
                 /\ model' = PublishLight(model, Millivolts(adc.sum + raw))
                 /\ LightResult

ServiceAdc ==
  /\ stage = Light /\ stage' = 0
  /\ IF watched = Ambient /\ (adc.state = "Idle" => TimeReached(adc.nextBatch))
       THEN BeginBatch \/ StartSample \/ TakeSample
       ELSE UNCHANGED adc /\ Quiet
  /\ UNCHANGED <<clock, now, uptime, watched, dht>>

-----------------------------------------------------------------------------
(***************************************************************************)
(* app_service, and the clock.                                             *)
(***************************************************************************)
\* Mutant of UpdateUptime: the rest of a second is lost.
UptimeInWholeSeconds(delta) ==
  [remainder |-> 0, seconds |-> (uptime.seconds + delta \div Second) % UptimeModulus]

UpdateUptime(delta) ==
  LET remainder == (delta % Second) + uptime.remainder
  IN [remainder |-> remainder % Second,
      seconds   |-> (uptime.seconds + delta \div Second + remainder \div Second) % UptimeModulus]

\* service_modbus, as the model sees it: nothing or a read, a threshold written, or
\* communication errors (one, or as many as the UART has counted).
Served ==
  {model} \cup {SetThreshold(model, watched, t) : t \in Thresholds}
          \cup {AddCommunicationErrors(model, n) : n \in 1..2}

StartPass ==
  /\ stage = 0 /\ stage' = 1
  /\ now' = clock
  /\ uptime' = UpdateUptime((clock - now) % Modulus)
  /\ model' \in Served
  /\ UNCHANGED <<clock, watched, dht, adc, seen>>

\* SysTick.  No pass takes longer than MaxLag.
Tick ==
  /\ (clock - now) % Modulus < MaxLag
  /\ clock' = (clock + 1) % Modulus
  /\ seen' = [seen EXCEPT
       !.age[watched] = IF @ <= Patience(watched) THEN @ + 1 ELSE @,
       !.command = [c \in Real |-> IF c = watched /\ @[c] < SampleInterval THEN @[c] + 1 ELSE @[c]],
       !.elapsed = (@ + 1) % (Second * UptimeModulus)]
  /\ UNCHANGED <<now, stage, uptime, model, watched, dht, adc>>

\* app_init and acquisition_init, after a start of the processor.
Init ==
  /\ clock = 0 /\ now = 0 /\ stage = 0 /\ watched \in Channels
  /\ uptime = [remainder |-> 0, seconds |-> 0]
  /\ model = ModelInit
  /\ dht = [c \in Real |-> [state |-> "InitRecover", nextTrigger |-> After(FirstOffset[c]),
                            triggeredAt |-> 0, nextRead |-> 0]]
  /\ adc = [state |-> "Idle", nextBatch |-> After(FirstOffset[Ambient]), sum |-> 0, count |-> 0]
  /\ seen = [age |-> [c \in Channels |-> 0], command |-> [c \in Real |-> 0],
             failed |-> [c \in Real |-> 0], elapsed |-> 0]

Next == Tick \/ StartPass \/ (\E c \in Real : ServiceChannel(c)) \/ ServiceAdc

Spec == Init /\ [][Next]_vars

-----------------------------------------------------------------------------
\* Clock, model and sensor contexts keep their types; the sum of the batch fits.
TypeOK ==
  /\ clock \in Time /\ now \in Time /\ stage \in 0..Light /\ watched \in Channels
  /\ uptime \in Uptime /\ model \in Model /\ seen \in Seen
  /\ dht \in [Real -> Dht] /\ adc \in Adc

\* A valid temperature and its alarm agree, hysteresis included, whatever thresholds
\* the master writes between two samples.
AlarmAgreesWithModel ==
  \A c \in Channels : model.temperature[c].valid =>
    /\ model.temperature[c].value >= model.threshold[c] => c \in model.alarm
    /\ model.temperature[c].value <= model.threshold[c] - Hysteresis => c \notin model.alarm

\* An alarm comes and goes on a valid value only: a failed sensor keeps its alarm,
\* even over a change of its threshold.
AlarmNeedsEvidence ==
  [][\A c \in Channels : (c \in model'.alarm) # (c \in model.alarm) =>
       LET t == model'.temperature[c]
       IN /\ t.valid
          /\ IF c \in model'.alarm THEN t.value >= model'.threshold[c]
             ELSE t.value <= model'.threshold[c] - Hysteresis]_vars

\* A sensor is reported faulty exactly after FailureLimit failed results in a row,
\* of whatever kinds, and valid exactly when the last result was a value.
FaultAfterFailuresInARow ==
  \A c \in Real :
    /\ c \in model.fault <=> seen.failed[c] = FailureLimit
    /\ model.temperature[c].valid => seen.failed[c] = 0

\* No channel is ever forgotten: whatever fails, and across the wrap of the clock, a
\* result follows the one before it within a bounded time.
ResultsInTime == \A c \in Channels : seen.age[c] <= Patience(c)

\* The sensor gets its times: a sampling interval of rest between the commands and
\* the ready time before the first read, less what a pass may lag behind the clock.
SensorGetsItsTimes ==
  [][\A c \in Real : dht'[c] # dht[c] =>
       /\ dht[c].state = "Idle" => seen.command[c] >= SampleInterval - MaxLag
       /\ dht[c].state = "WaitReady" => seen.command[c] >= ReadyPoll - MaxLag]_vars

\* Uptime neither loses nor gains a millisecond, however the passes cut the time.
UptimeExact ==
  (uptime.seconds * Second + uptime.remainder + ((clock - now) % Modulus))
    % (Second * UptimeModulus) = seen.elapsed

\* The samples summed are those counted, none left from a batch that failed.
BatchCountsItsSamples ==
  /\ adc.sum <= adc.count * MaxRaw
  /\ adc.state = "Idle" => adc.count = 0
=============================================================================
