----------------------------- MODULE DeviceModel -----------------------------
(***************************************************************************)
(* The firmware's device model (device_model.c, alarm.c): the last values  *)
(* of the sensors, their alarms and faults, and the counters the registers *)
(* show.  Every function of the C module is an operator from a model to a  *)
(* model; the main loop, which is their only caller, is module Firmware.   *)
(***************************************************************************)
EXTENDS Integers

CONSTANTS
  RealCount,         \* DHTC12_REAL_CHANNEL_COUNT
  TempMin, TempMax,  \* TEMPERATURE_MIN_DECI_C, TEMPERATURE_MAX_DECI_C
  Hysteresis,        \* ALARM_HYSTERESIS_DECI_C
  FailureLimit,      \* FAILURE_LIMIT
  InitialThreshold,  \* the thresholds device_model_init sets, by channel
  AmbientValue,      \* the simulated ambient temperature
  MaxLight,          \* LIGHT_MAX_MV
  MaxErrors          \* UINT16_MAX

Real == 0..RealCount - 1     \* TEMP_CHANNEL_A, _B, _C
Ambient == RealCount         \* TEMP_CHANNEL_AMBIENT
Channels == 0..RealCount
Temperatures == TempMin..TempMax

ASSUME DeviceModelAssumption ==
  /\ RealCount \in Nat \ {0}
  /\ TempMin \in Int /\ TempMax \in Int /\ TempMin <= TempMax
  /\ Hysteresis \in Nat \ {0} /\ FailureLimit \in Nat \ {0}
  /\ InitialThreshold \in [Channels -> Temperatures]
  /\ AmbientValue \in Temperatures
  /\ MaxLight \in Nat /\ MaxErrors \in Nat

\* TemperatureState, without the time and the name of the last error.
Temperature == [
  value   : Temperatures \cup {0},
  valid   : BOOLEAN,
  crc     : 0..FailureLimit,    \* consecutive_crc_failures
  invalid : 0..FailureLimit]    \* consecutive_invalid_cycles

\* alarm_bits and status_bits are the sets of the channels whose bit is set.
Model == [
  temperature : [Channels -> Temperature],
  threshold   : [Channels -> Temperatures],
  alarm       : SUBSET Channels,
  fault       : SUBSET Real,
  light       : 0..MaxLight,
  lightValid  : BOOLEAN,
  lightFault  : BOOLEAN,
  errors      : 0..MaxErrors]   \* communication_error_count

-----------------------------------------------------------------------------
IncrementSaturated(n) == IF n < FailureLimit THEN n + 1 ELSE FailureLimit

AlarmUpdate(current, temperature, threshold) ==
  IF current THEN temperature > threshold - Hysteresis ELSE temperature >= threshold

\* Mutant of UpdateAlarm: a channel without a valid value loses its alarm.
UpdateAnyAlarm(m, c) ==
  LET t == m.temperature[c]
  IN [m EXCEPT !.alarm =
        IF t.valid /\ AlarmUpdate(c \in @, t.value, m.threshold[c]) THEN @ \cup {c}
        ELSE @ \ {c}]

UpdateAlarm(m, c) ==
  LET t == m.temperature[c]
  IN IF ~t.valid THEN m
     ELSE [m EXCEPT !.alarm =
             IF AlarmUpdate(c \in @, t.value, m.threshold[c]) THEN @ \cup {c} ELSE @ \ {c}]

ModelInit ==
  UpdateAlarm(
    [temperature |-> [c \in Channels |->
       [value |-> IF c = Ambient THEN AmbientValue ELSE 0, valid |-> c = Ambient,
        crc |-> 0, invalid |-> 0]],
     threshold |-> InitialThreshold, alarm |-> {}, fault |-> {},
     light |-> 0, lightValid |-> FALSE, lightFault |-> FALSE, errors |-> 0],
    Ambient)

\* device_model_set_threshold, with a threshold in range.
SetThreshold(m, c, t) == UpdateAlarm([m EXCEPT !.threshold[c] = t], c)

PublishTemperature(m, c, v) ==
  UpdateAlarm([m EXCEPT !.temperature[c] = [value |-> v, valid |-> TRUE, crc |-> 0, invalid |-> 0],
                        !.fault = @ \ {c}], c)

\* Mutant of FailTemperature: a failure of another kind leaves the CRC count.
FailKeepsCrcCount(m, c, crcFailure) ==
  LET t == m.temperature[c]
      crc == IF crcFailure THEN IncrementSaturated(t.crc) ELSE t.crc
      invalid == IF crcFailure THEN t.invalid ELSE IncrementSaturated(t.invalid)
  IN [m EXCEPT
        !.temperature[c] = [value |-> t.value, valid |-> FALSE, crc |-> crc, invalid |-> invalid],
        !.fault = IF invalid >= FailureLimit \/ crc >= FailureLimit THEN @ \cup {c} ELSE @]

\* device_model_fail_temperature: the value is kept and shown as invalid.
FailTemperature(m, c, crcFailure) ==
  LET t == m.temperature[c]
      crc == IF crcFailure THEN IncrementSaturated(t.crc) ELSE 0
      invalid == IncrementSaturated(t.invalid)
  IN [m EXCEPT
        !.temperature[c] = [value |-> t.value, valid |-> FALSE, crc |-> crc, invalid |-> invalid],
        !.fault = IF invalid >= FailureLimit \/ crc >= FailureLimit THEN @ \cup {c} ELSE @]

PublishLight(m, v) == [m EXCEPT !.light = v, !.lightValid = TRUE, !.lightFault = FALSE]
FailLight(m) == [m EXCEPT !.lightValid = FALSE, !.lightFault = TRUE]

AddCommunicationErrors(m, n) ==
  [m EXCEPT !.errors = IF @ + n > MaxErrors THEN MaxErrors ELSE @ + n]
=============================================================================
