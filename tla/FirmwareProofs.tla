--------------------------- MODULE FirmwareProofs ---------------------------
(***************************************************************************)
(* What Firmware keeps for every number of sensors, every interval, clock  *)
(* size and data: types, fault bits, alarms, uptime, and the times.        *)
(***************************************************************************)
EXTENDS Firmware, TLAPS

(***************************************************************************)
(* Division and remainder by a positive number.                            *)
(***************************************************************************)
LEMMA DivMod ==
  ASSUME NEW a \in Int, NEW K \in Nat \ {0}
  PROVE  a % K \in 0..K - 1 /\ a \div K \in Int /\ a = K * (a \div K) + (a % K)
BY Z3

\* A quotient and a remainder in range are the quotient and the remainder.
LEMMA ModUnique ==
  ASSUME NEW K \in Nat \ {0}, NEW q \in Int, NEW r \in 0..K - 1
  PROVE  (K * q + r) % K = r
<1> DEFINE a == K * q + r
           p == a \div K
           s == a % K
<1>1. a \in Int
  BY Z3
<1>2. p \in Int /\ s \in 0..K - 1 /\ a = K * p + s
  BY <1>1, DivMod
<1>3. K * (q - p) = s - r
  BY <1>2, Z3
<1>4. q - p < 1
  BY <1>2, <1>3, Z3
<1>5. q - p > -1
  BY <1>2, <1>3, Z3
<1>6. QED
  BY <1>2, <1>4, <1>5, Z3

\* Whole multiples of the divisor leave no trace in the remainder.
LEMMA ModPlus ==
  ASSUME NEW K \in Nat \ {0}, NEW q \in Int, NEW a \in Int
  PROVE  (a + K * q) % K = a % K
<1> DEFINE d == a \div K
           r == a % K
<1>1. d \in Int /\ r \in 0..K - 1 /\ a = K * d + r
  BY DivMod
<1> HIDE DEF d, r
<1>2. a + K * q = K * (d + q) + r
  BY <1>1, Z3
<1>3. d + q \in Int
  BY <1>1
<1>4. (K * (d + q) + r) % K = r
  BY <1>1, <1>3, ModUnique
<1>5. QED
  BY <1>2, <1>4 DEF r

\* A step of one, in a remainder.
LEMMA ModStep ==
  ASSUME NEW K \in Nat \ {0}, NEW a \in Int
  PROVE  (a + 1) % K = ((a % K) + 1) % K
<1> DEFINE d == a \div K
           r == a % K
<1>1. d \in Int /\ r \in 0..K - 1 /\ a = K * d + r
  BY DivMod
<1> HIDE DEF d, r
<1>2. a + 1 = (r + 1) + K * d
  BY <1>1, Z3
<1>3. r + 1 \in Int
  BY <1>1
<1>4. ((r + 1) + K * d) % K = (r + 1) % K
  BY <1>1, <1>3, ModPlus
<1>5. QED
  BY <1>2, <1>4 DEF r

\* What is below the divisor is its own remainder.
LEMMA ModSmall ==
  ASSUME NEW K \in Nat \ {0}, NEW r \in 0..K - 1
  PROVE  r % K = r
<1>1. (K * 0 + r) % K = r
  BY ModUnique
<1>2. K * 0 + r = r
  BY Z3
<1>3. QED
  BY <1>1, <1>2

\* A quotient is bounded as the dividend is.
LEMMA DivBound ==
  ASSUME NEW K \in Nat \ {0}, NEW a \in Nat, NEW n \in Nat, a < K * (n + 1)
  PROVE  a \div K \in 0..n
<1> DEFINE d == a \div K
           r == a % K
<1>1. d \in Int /\ r \in 0..K - 1 /\ a = K * d + r
  BY DivMod
<1> HIDE DEF d, r
<1>2. d >= 0
  BY <1>1, Z3
<1>3. d < n + 1
  BY <1>1, Z3
<1>4. QED
  BY <1>1, <1>2, <1>3 DEF d

-----------------------------------------------------------------------------
(***************************************************************************)
(* The device model.                                                       *)
(***************************************************************************)
Agrees(m, c) ==
  m.temperature[c].valid =>
    /\ m.temperature[c].value >= m.threshold[c] => c \in m.alarm
    /\ m.temperature[c].value <= m.threshold[c] - Hysteresis => c \notin m.alarm

Evident(m, n, c) ==
  (c \in n.alarm) # (c \in m.alarm) =>
     LET t == n.temperature[c]
     IN /\ t.valid
        /\ IF c \in n.alarm THEN t.value >= n.threshold[c]
           ELSE t.value <= n.threshold[c] - Hysteresis

\* From m to n no alarm loses touch with its temperature.
Follows(m, n) ==
  /\ n \in Model
  /\ (\A c \in Channels : Agrees(m, c)) => \A c \in Channels : Agrees(n, c)
  /\ \A c \in Channels : Evident(m, n, c)

\* update_alarm touches one bit, and that one agrees afterwards.
LEMMA UpdateAlarmEffect ==
  ASSUME NEW m \in Model, NEW c \in Channels
  PROVE  LET n == UpdateAlarm(m, c)
         IN /\ n \in Model
            /\ n = [m EXCEPT !.alarm = n.alarm]
            /\ \A d \in Channels \ {c} : d \in n.alarm <=> d \in m.alarm
            /\ Agrees(n, c) /\ Evident(m, n, c)
<1> DEFINE t == m.temperature[c]
           n == UpdateAlarm(m, c)
<1> USE DeviceModelAssumption
<1>1. t \in Temperature /\ m.threshold[c] \in Int /\ t.value \in Int /\ m.alarm \subseteq Channels
  BY DEF Model, Temperature, Temperatures
<1>2. CASE ~t.valid
  BY <1>1, <1>2 DEF UpdateAlarm, Agrees, Evident, Model
<1>3. CASE t.valid
  <2> DEFINE up == AlarmUpdate(c \in m.alarm, t.value, m.threshold[c])
             alarm == IF up THEN m.alarm \cup {c} ELSE m.alarm \ {c}
  <2>1. n = [m EXCEPT !.alarm = alarm]
    BY <1>3 DEF UpdateAlarm
  <2>2. alarm \in SUBSET Channels
    BY <1>1
  <2>3. c \in alarm <=> up
    OBVIOUS
  <2>4. up <=> IF c \in m.alarm THEN t.value > m.threshold[c] - Hysteresis
                ELSE t.value >= m.threshold[c]
    BY DEF AlarmUpdate
  <2>5. \A d \in Channels \ {c} : d \in alarm <=> d \in m.alarm
    OBVIOUS
  <2> HIDE DEF up, alarm
  <2>6. n \in Model /\ n.alarm = alarm /\ n.temperature = m.temperature /\ n.threshold = m.threshold
    BY <2>1, <2>2 DEF Model
  <2>7. Agrees(n, c)
    BY <1>1, <2>3, <2>4, <2>6 DEF Agrees
  <2>8. Evident(m, n, c)
    BY <1>1, <1>3, <2>3, <2>4, <2>6 DEF Evident
  <2>9. QED
    BY <2>1, <2>5, <2>6, <2>7, <2>8
<1>4. QED
  BY <1>2, <1>3

\* So does a function that changes nothing else an alarm depends on first.
LEMMA UpdateAlarmFollows ==
  ASSUME NEW m \in Model, NEW l \in Model, NEW c \in Channels, l.alarm = m.alarm,
         \A d \in Channels \ {c} : /\ l.temperature[d] = m.temperature[d]
                                   /\ l.threshold[d] = m.threshold[d]
  PROVE  Follows(m, UpdateAlarm(l, c))
<1> DEFINE n == UpdateAlarm(l, c)
<1>1. /\ n \in Model
      /\ n = [l EXCEPT !.alarm = n.alarm]
      /\ \A d \in Channels \ {c} : d \in n.alarm <=> d \in l.alarm
      /\ Agrees(n, c) /\ Evident(l, n, c)
  BY UpdateAlarmEffect
<1> HIDE DEF n
<1>2. n.temperature = l.temperature /\ n.threshold = l.threshold
  BY <1>1 DEF Model
<1>3. ASSUME NEW d \in Channels \ {c}
      PROVE  (Agrees(m, d) => Agrees(n, d)) /\ Evident(m, n, d)
  BY <1>1, <1>2, <1>3 DEF Agrees, Evident
<1>4. Evident(m, n, c)
  BY <1>1 DEF Evident
<1>5. QED
  BY <1>1, <1>3, <1>4 DEF Follows, n

\* device_model_set_threshold moves the threshold and then the alarm, and nothing else.
LEMMA SetThresholdFollows ==
  ASSUME NEW m \in Model, NEW c \in Channels, NEW t \in Temperatures
  PROVE  LET n == SetThreshold(m, c, t)
         IN Follows(m, n) /\ n.temperature = m.temperature /\ n.fault = m.fault
<1> DEFINE l == [m EXCEPT !.threshold[c] = t]
           n == UpdateAlarm(l, c)
<1>1. /\ l \in Model /\ l.alarm = m.alarm /\ l.temperature = m.temperature /\ l.fault = m.fault
      /\ \A d \in Channels \ {c} : l.threshold[d] = m.threshold[d]
  BY DEF Model
<1> HIDE DEF l
<1>2. Follows(m, n)
  BY <1>1, UpdateAlarmFollows
<1>3. n = [l EXCEPT !.alarm = n.alarm]
  BY <1>1, UpdateAlarmEffect
<1>4. n.temperature = l.temperature /\ n.fault = l.fault
  BY <1>1, <1>3 DEF Model
<1>5. QED
  BY <1>1, <1>2, <1>4 DEF SetThreshold, l

\* device_model_publish_temperature clears the counters and the fault bit.
LEMMA PublishTemperatureFollows ==
  ASSUME NEW m \in Model, NEW c \in Real, NEW v \in Temperatures
  PROVE  LET n == PublishTemperature(m, c, v)
         IN /\ Follows(m, n)
            /\ n.temperature = [m.temperature EXCEPT ![c] =
                 [value |-> v, valid |-> TRUE, crc |-> 0, invalid |-> 0]]
            /\ n.fault = m.fault \ {c}
<1> DEFINE t == [value |-> v, valid |-> TRUE, crc |-> 0, invalid |-> 0]
           l == [m EXCEPT !.temperature[c] = t, !.fault = @ \ {c}]
           n == UpdateAlarm(l, c)
<1> USE DeviceModelAssumption
<1>1. c \in Channels
  BY DEF Real, Channels
<1>2. t \in Temperature
  BY DEF Temperature
<1> HIDE DEF t
<1>3. /\ l \in Model /\ l.alarm = m.alarm /\ l.threshold = m.threshold
      /\ l.temperature = [m.temperature EXCEPT ![c] = t] /\ l.fault = m.fault \ {c}
  BY <1>1, <1>2 DEF Model
<1> HIDE DEF l
<1>4. \A d \in Channels \ {c} : l.temperature[d] = m.temperature[d]
  BY <1>1, <1>3 DEF Model
<1>5. Follows(m, n)
  BY <1>1, <1>3, <1>4, UpdateAlarmFollows
<1>6. n = [l EXCEPT !.alarm = n.alarm]
  BY <1>1, <1>3, UpdateAlarmEffect
<1>7. n.temperature = l.temperature /\ n.fault = l.fault
  BY <1>3, <1>6 DEF Model
<1>8. QED
  BY <1>3, <1>5, <1>7 DEF PublishTemperature, l, t

\* device_model_fail_temperature counts the failure and keeps the value and the alarm.
LEMMA FailTemperatureFollows ==
  ASSUME NEW m \in Model, NEW c \in Real, NEW b \in BOOLEAN
  PROVE  LET n == FailTemperature(m, c, b)
             t == m.temperature[c]
             invalid == IncrementSaturated(t.invalid)
         IN \E crc \in {0, IncrementSaturated(t.crc)} :
              /\ Follows(m, n)
              /\ n.temperature = [m.temperature EXCEPT ![c] =
                   [value |-> t.value, valid |-> FALSE, crc |-> crc, invalid |-> invalid]]
              /\ n.fault = IF invalid >= FailureLimit \/ crc >= FailureLimit
                             THEN m.fault \cup {c} ELSE m.fault
<1> DEFINE t == m.temperature[c]
           invalid == IncrementSaturated(t.invalid)
           crc == IF b THEN IncrementSaturated(t.crc) ELSE 0
           s == [value |-> t.value, valid |-> FALSE, crc |-> crc, invalid |-> invalid]
           f == IF invalid >= FailureLimit \/ crc >= FailureLimit THEN m.fault \cup {c} ELSE m.fault
           n == [m EXCEPT !.temperature[c] = s, !.fault = f]
<1> USE DeviceModelAssumption
<1>1. c \in Channels
  BY DEF Real, Channels
<1>2. t \in Temperature
  BY <1>1 DEF Model
<1>3. invalid \in 0..FailureLimit /\ crc \in 0..FailureLimit
  BY <1>2 DEF IncrementSaturated, Temperature
<1>4. s \in Temperature
  BY <1>2, <1>3 DEF Temperature
<1>5. f \in SUBSET Real
  BY DEF Model
<1>6. n = FailTemperature(m, c, b)
  BY DEF FailTemperature
<1>7. crc \in {0, IncrementSaturated(t.crc)}
  OBVIOUS
<1> HIDE DEF s, f
<1>8. /\ n \in Model /\ n.alarm = m.alarm /\ n.threshold = m.threshold
      /\ n.temperature = [m.temperature EXCEPT ![c] = s] /\ n.fault = f
  BY <1>1, <1>4, <1>5 DEF Model
<1> HIDE DEF n
<1>9. ~n.temperature[c].valid
  BY <1>1, <1>8 DEF Model, s
<1>10. \A d \in Channels \ {c} : n.temperature[d] = m.temperature[d]
  BY <1>1, <1>8 DEF Model
<1>11. Follows(m, n)
  BY <1>8, <1>9, <1>10 DEF Follows, Agrees, Evident
<1> HIDE DEF crc
<1>12. QED
  BY <1>7, <1>6, <1>8, <1>11 DEF s, f

\* Light and counters are beside temperatures, thresholds, alarms and faults.
Besides(m, n) ==
  /\ n \in Model
  /\ n.temperature = m.temperature /\ n.threshold = m.threshold
  /\ n.alarm = m.alarm /\ n.fault = m.fault

\* What is beside them leaves the alarms as they are.
LEMMA BesidesFollows ==
  ASSUME NEW m \in Model, NEW n, Besides(m, n)
  PROVE  Follows(m, n)
BY DEF Besides, Follows, Agrees, Evident

\* device_model_publish_light and device_model_fail_light.
LEMMA LightIsBeside ==
  ASSUME NEW m \in Model, NEW v \in 0..MaxLight
  PROVE  Besides(m, PublishLight(m, v)) /\ Besides(m, FailLight(m))
BY DEF Besides, PublishLight, FailLight, Model

\* device_model_add_communication_errors.
LEMMA ErrorsAreBeside ==
  ASSUME NEW m \in Model, NEW n \in Nat
  PROVE  Besides(m, AddCommunicationErrors(m, n))
<1> USE DeviceModelAssumption
<1> DEFINE e == IF m.errors + n > MaxErrors THEN MaxErrors ELSE m.errors + n
<1>1. e \in 0..MaxErrors
  BY DEF Model
<1>2. AddCommunicationErrors(m, n) = [m EXCEPT !.errors = e]
  BY DEF AddCommunicationErrors
<1> HIDE DEF e
<1>3. QED
  BY <1>1, <1>2 DEF Besides, Model

-----------------------------------------------------------------------------
(***************************************************************************)
(* The inductive invariant.                                                *)
(***************************************************************************)
\* The counters of a sensor are those of the observer.
Counted(m, s) ==
  \A c \in Real :
    LET t == m.temperature[c]
    IN /\ t.invalid = s.failed[c] /\ t.crc <= t.invalid
       /\ c \in m.fault <=> t.invalid = FailureLimit
       /\ t.valid => t.invalid = 0

IInv ==
  /\ TypeOK
  /\ Counted(model, seen)
  /\ AlarmAgreesWithModel
  /\ BatchCountsItsSamples
  /\ UptimeExact

\* What a step of a sensor may do to the model and to what the observer knows.
Reported ==
  /\ Follows(model, model')
  /\ seen' \in Seen /\ seen'.elapsed = seen.elapsed
  /\ Counted(model', seen')

\* What the assumptions say of the constants, in the form the proofs need.
LEMMA ConstantTypes ==
  /\ Modulus \in Nat \ {0} /\ MaxLag \in Nat \ {0} /\ MaxLag < Modulus
  /\ Second \in Nat \ {0} /\ UptimeModulus \in Nat \ {0}
  /\ Second * UptimeModulus \in Nat \ {0}
  /\ SampleInterval \in Nat \ {0} /\ ReadyPoll \in Nat \ {0}
  /\ BatchSamples \in Nat \ {0} /\ MaxRaw \in Nat \ {0}
  /\ FailureLimit \in Nat \ {0} /\ RealCount \in Nat \ {0} /\ MaxLight \in Nat
  /\ Real \subseteq Channels /\ Ambient \in Channels /\ Ambient \notin Real
<1> USE FirmwareAssumption, DeviceModelAssumption
<1>1. /\ MaxLag \in Nat \ {0} /\ SampleInterval \in Nat \ {0} /\ ReadyPoll \in Nat \ {0}
      /\ ConversionTimeout \in Nat \ {0}
      /\ BatchSamples \in Nat \ {0} /\ MaxRaw \in Nat \ {0}
      /\ Second \in Nat \ {0} /\ UptimeModulus \in Nat \ {0}
  OBVIOUS
<1>2. Modulus \in Nat \ {0} /\ MaxLag < Modulus
  BY <1>1
<1>3. \A a, b \in Nat \ {0} : a * b \in Nat \ {0}
  BY Z3
<1>4. Second * UptimeModulus \in Nat \ {0}
  BY <1>1, <1>3
<1>5. Real \subseteq Channels /\ Ambient \in Channels /\ Ambient \notin Real
  BY DEF Real, Channels, Ambient
<1>6. QED
  BY <1>1, <1>2, <1>4, <1>5

\* A deadline is a time of the clock.
LEMMA AfterTypes ==
  ASSUME now \in Time, NEW i \in Nat
  PROVE  After(i) \in Time
<1>1. now + i \in Int
  BY ConstantTypes DEF Time
<1>2. QED
  BY <1>1, ConstantTypes, DivMod DEF After, Time

\* A step that leaves the model alone leaves its alarms alone.
LEMMA ModelStays ==
  ASSUME NEW m \in Model
  PROVE  Follows(m, m)
BY DEF Follows, Evident

\* The alarms agree after a step that follows, when they did before.
LEMMA FollowsKeepsAlarms ==
  ASSUME AlarmAgreesWithModel, Follows(model, model')
  PROVE  AlarmAgreesWithModel'
BY DEF AlarmAgreesWithModel, Follows, Agrees

\* A failed result: the model's counters and the observer's go on together.
LEMMA FailedReports ==
  ASSUME TypeOK, Counted(model, seen), NEW c \in Real, NEW b \in BOOLEAN, Failed(c, b)
  PROVE  Reported
<1> DEFINE t == model.temperature[c]
           invalid == IncrementSaturated(t.invalid)
           failed == IF seen.failed[c] < FailureLimit THEN seen.failed[c] + 1 ELSE seen.failed[c]
<1>1. PICK crc \in {0, IncrementSaturated(t.crc)} :
        /\ Follows(model, model')
        /\ model'.temperature = [model.temperature EXCEPT ![c] =
             [value |-> t.value, valid |-> FALSE, crc |-> crc, invalid |-> invalid]]
        /\ model'.fault = IF invalid >= FailureLimit \/ crc >= FailureLimit
                            THEN model.fault \cup {c} ELSE model.fault
  <2>1. model \in Model /\ model' = FailTemperature(model, c, b)
    BY DEF Failed, TypeOK
  <2>2. QED
    BY <2>1, FailTemperatureFollows
<1>2. seen' = [seen EXCEPT !.age[c] = 0, !.failed[c] = failed]
  BY DEF Failed
<1>3. t.invalid \in 0..FailureLimit /\ t.crc \in 0..FailureLimit /\ c \in Channels
  BY ConstantTypes DEF TypeOK, Model, Temperature
<1>4. t.invalid = seen.failed[c] /\ t.crc <= t.invalid
  BY DEF Counted
<1>5. c \in model.fault => t.invalid = FailureLimit
  BY DEF Counted
<1>6. invalid = failed /\ invalid \in 0..FailureLimit /\ crc <= invalid /\ invalid > 0
  BY <1>1, <1>3, <1>4, ConstantTypes DEF IncrementSaturated
<1>7. crc \in 0..FailureLimit
  BY <1>1, <1>3, ConstantTypes DEF IncrementSaturated
<1>8. t.invalid = FailureLimit => invalid = FailureLimit
  BY ConstantTypes DEF IncrementSaturated
<1> HIDE DEF invalid, failed
<1>9. seen' \in Seen /\ seen'.elapsed = seen.elapsed /\ seen'.failed = [seen.failed EXCEPT ![c] = failed]
  BY <1>2, <1>6 DEF TypeOK, Seen
<1>10. c \in model'.fault <=> invalid = FailureLimit
  BY <1>1, <1>5, <1>6, <1>7, <1>8, ConstantTypes
<1>11. \A d \in Real \ {c} :
         /\ model'.temperature[d] = model.temperature[d]
         /\ d \in model'.fault <=> d \in model.fault
         /\ seen'.failed[d] = seen.failed[d]
  BY <1>1, <1>9, ConstantTypes DEF TypeOK, Model, Seen
<1>12. model'.temperature[c] = [value |-> t.value, valid |-> FALSE, crc |-> crc, invalid |-> invalid]
  BY <1>1, <1>3 DEF TypeOK, Model
<1>13. seen'.failed[c] = failed
  BY <1>9 DEF TypeOK, Seen
<1>14. Counted(model', seen')
  <2> SUFFICES ASSUME NEW d \in Real
               PROVE  LET u == model'.temperature[d]
                      IN /\ u.invalid = seen'.failed[d] /\ u.crc <= u.invalid
                         /\ d \in model'.fault <=> u.invalid = FailureLimit
                         /\ u.valid => u.invalid = 0
    BY DEF Counted
  <2>1. CASE d = c
    BY <2>1, <1>6, <1>10, <1>12, <1>13
  <2>2. CASE d # c
    BY <2>2, <1>11 DEF Counted
  <2>3. QED
    BY <2>1, <2>2
<1>15. QED
  BY <1>1, <1>9, <1>14 DEF Reported

\* A value: they start again together.
LEMMA PublishedReports ==
  ASSUME TypeOK, Counted(model, seen), NEW c \in Real, NEW v \in Temperatures,
         model' = PublishTemperature(model, c, v),
         seen' = [seen EXCEPT !.age[c] = 0, !.failed[c] = 0]
  PROVE  Reported
<1>1. /\ Follows(model, model')
      /\ model'.temperature = [model.temperature EXCEPT ![c] =
           [value |-> v, valid |-> TRUE, crc |-> 0, invalid |-> 0]]
      /\ model'.fault = model.fault \ {c}
  BY PublishTemperatureFollows DEF TypeOK
<1>2. seen' \in Seen /\ seen'.elapsed = seen.elapsed /\ seen'.failed = [seen.failed EXCEPT ![c] = 0]
  <2>1. [seen.age EXCEPT ![c] = 0] \in [Channels -> Nat]
    BY DEF TypeOK, Seen
  <2>2. [seen.failed EXCEPT ![c] = 0] \in [Real -> 0..FailureLimit]
    BY ConstantTypes DEF TypeOK, Seen
  <2>3. QED
    BY <2>1, <2>2 DEF TypeOK, Seen
<1>3. \A d \in Real \ {c} :
        /\ model'.temperature[d] = model.temperature[d]
        /\ d \in model'.fault <=> d \in model.fault
        /\ seen'.failed[d] = seen.failed[d]
  BY <1>1, <1>2, ConstantTypes DEF TypeOK, Model, Seen
<1>4. model'.temperature[c] = [value |-> v, valid |-> TRUE, crc |-> 0, invalid |-> 0]
  BY <1>1, ConstantTypes DEF TypeOK, Model
<1>5. seen'.failed[c] = 0 /\ c \notin model'.fault
  BY <1>1, <1>2 DEF TypeOK, Seen
<1>6. Counted(model', seen')
  BY <1>3, <1>4, <1>5, ConstantTypes DEF Counted
<1>7. QED
  BY <1>1, <1>2, <1>6 DEF Reported

\* A step that leaves the sensors' part of the model and the failures alone.
LEMMA OtherwiseReports ==
  ASSUME TypeOK, Counted(model, seen), Follows(model, model'),
         model'.temperature = model.temperature, model'.fault = model.fault,
         seen' \in Seen, seen'.elapsed = seen.elapsed, seen'.failed = seen.failed
  PROVE  Reported
BY DEF Reported, Counted

\* A step that reports nothing.
LEMMA QuietReports ==
  ASSUME TypeOK, Counted(model, seen), Quiet
  PROVE  Reported
BY ModelStays, OtherwiseReports DEF Quiet, TypeOK

\* A command to the sensor, which is no result.
LEMMA CommandReports ==
  ASSUME TypeOK, Counted(model, seen), NEW c \in Real, Command(c), UNCHANGED model
  PROVE  Reported
<1>1. /\ seen' \in Seen /\ seen'.elapsed = seen.elapsed /\ seen'.failed = seen.failed
  BY ConstantTypes DEF Command, TypeOK, Seen
<1>2. QED
  BY <1>1, ModelStays, OtherwiseReports DEF TypeOK

-----------------------------------------------------------------------------
(***************************************************************************)
(* The steps.                                                              *)
(***************************************************************************)
\* service_dht_channel, in any state of its channel.
LEMMA ChannelSteps ==
  ASSUME IInv, NEW c \in Real, Recover(c) \/ Reset(c) \/ Trigger(c) \/ Read(c)
  PROVE  dht' \in [Real -> Dht] /\ Reported
<1>1. TypeOK /\ Counted(model, seen)
  BY DEF IInv
<1>2. dht \in [Real -> Dht] /\ now \in Time /\ dht[c] \in Dht
  BY <1>1 DEF TypeOK
<1>3. After(SampleInterval) \in Time /\ After(ReadyPoll) \in Time
  BY <1>2, AfterTypes, ConstantTypes
<1>4. CASE Recover(c)
  <2>1. CASE InitializationFails(c)
    BY <2>1, <1>1, <1>2, <1>3, FailedReports DEF InitializationFails, Dht, DhtState
  <2>2. CASE dht' = [dht EXCEPT ![c].state = "InitReset", ![c].nextTrigger = now] /\ Quiet
    BY <2>2, <1>1, <1>2, QuietReports DEF Dht, DhtState
  <2>3. QED
    BY <1>4, <2>1, <2>2 DEF Recover
<1>5. CASE Reset(c)
  <2>1. CASE InitializationFails(c)
    BY <2>1, <1>1, <1>2, <1>3, FailedReports DEF InitializationFails, Dht, DhtState
  <2>2. CASE /\ dht' = [dht EXCEPT ![c].state = "Idle", ![c].nextTrigger = After(SampleInterval)]
             /\ seen' = [seen EXCEPT !.command[c] = 0, !.age[c] = 0]
             /\ UNCHANGED model
    <3>1. dht' \in [Real -> Dht]
      BY <2>2, <1>2, <1>3 DEF Dht, DhtState
    <3>2. seen' \in Seen /\ seen'.elapsed = seen.elapsed /\ seen'.failed = seen.failed
      <4>1. [seen.age EXCEPT ![c] = 0] \in [Channels -> Nat]
        BY <1>1 DEF TypeOK, Seen
      <4>2. [seen.command EXCEPT ![c] = 0] \in [Real -> 0..SampleInterval]
        BY <1>1, ConstantTypes DEF TypeOK, Seen
      <4>3. QED
        BY <2>2, <1>1, <4>1, <4>2 DEF TypeOK, Seen
    <3>3. QED
      BY <2>2, <3>1, <3>2, <1>1, ModelStays, OtherwiseReports DEF TypeOK
  <2>3. QED
    BY <1>5, <2>1, <2>2 DEF Reset
<1>6. CASE Trigger(c)
  <2>1. CASE /\ dht' = [dht EXCEPT ![c].state = "InitRecover",
                                   ![c].nextTrigger = After(SampleInterval)]
             /\ Failed(c, FALSE)
    BY <2>1, <1>1, <1>2, <1>3, FailedReports DEF Dht, DhtState
  <2>2. CASE /\ dht' = [dht EXCEPT ![c] = [state |-> "WaitReady",
                                           nextTrigger |-> After(SampleInterval),
                                           triggeredAt |-> now, nextRead |-> After(ReadyPoll)]]
             /\ Command(c)
             /\ UNCHANGED model
    BY <2>2, <1>1, <1>2, <1>3, CommandReports DEF Dht, DhtState
  <2>3. QED
    BY <1>6, <2>1, <2>2 DEF Trigger
<1>7. CASE Read(c)
  <2>1. CASE dht' = [dht EXCEPT ![c].nextRead = After(ReadyPoll)] /\ Quiet
    BY <2>1, <1>1, <1>2, <1>3, QuietReports DEF Dht, DhtState
  <2>2. CASE dht' = [dht EXCEPT ![c].state = "InitRecover"] /\ Failed(c, FALSE)
    BY <2>2, <1>1, <1>2, FailedReports DEF Dht, DhtState
  <2>3. CASE /\ dht' = [dht EXCEPT ![c].state = "Idle"]
             /\ \E crcFailure \in BOOLEAN : Failed(c, crcFailure)
    BY <2>3, <1>1, <1>2, FailedReports DEF Dht, DhtState
  <2>4. CASE /\ dht' = [dht EXCEPT ![c].state = "Idle"]
             /\ \E v \in SampleTemperatures :
                  /\ model' = PublishTemperature(model, c, v)
                  /\ seen' = [seen EXCEPT !.age[c] = 0, !.failed[c] = 0]
    <3>1. dht' \in [Real -> Dht]
      BY <2>4, <1>2 DEF Dht, DhtState
    <3>2. PICK v \in SampleTemperatures :
            /\ model' = PublishTemperature(model, c, v)
            /\ seen' = [seen EXCEPT !.age[c] = 0, !.failed[c] = 0]
      BY <2>4
    <3>3. v \in Temperatures
      BY <3>2, FirmwareAssumption
    <3>4. QED
      BY <3>1, <3>2, <3>3, <1>1, PublishedReports
  <2>5. QED
    BY <1>7, <2>1, <2>2, <2>3, <2>4 DEF Read
<1>8. QED
  BY <1>4, <1>5, <1>6, <1>7

\* A service of a channel, due or not, keeps the invariant.
LEMMA ChannelKeeps ==
  ASSUME IInv, NEW c \in Real, ServiceChannel(c)
  PROVE  IInv' /\ Follows(model, model')
<1>1. TypeOK /\ Counted(model, seen)
  BY DEF IInv
<1>2. UNCHANGED <<clock, now, uptime, watched, adc>> /\ stage' \in 0..Light
  BY <1>1, ConstantTypes DEF ServiceChannel, TypeOK, Light, Real
<1>3. dht' \in [Real -> Dht] /\ Reported
  <2>1. CASE c = watched /\ Due(c)
    BY <2>1, ChannelSteps DEF ServiceChannel
  <2>2. CASE ~(c = watched /\ Due(c))
    BY <2>2, <1>1, QuietReports DEF ServiceChannel, TypeOK
  <2>3. QED
    BY <2>1, <2>2
<1>4. TypeOK'
  BY <1>1, <1>2, <1>3 DEF TypeOK, Reported, Follows
<1>5. AlarmAgreesWithModel'
  BY <1>3, FollowsKeepsAlarms DEF IInv, Reported
<1>6. BatchCountsItsSamples' /\ UptimeExact'
  BY <1>2, <1>3 DEF IInv, Reported, BatchCountsItsSamples, UptimeExact
<1>7. QED
  BY <1>3, <1>4, <1>5, <1>6 DEF IInv, Reported

\* The average of a batch is a reading of the converter, and its voltage in range.
LEMMA MillivoltsInRange ==
  ASSUME NEW sum \in 0..BatchSamples * MaxRaw
  PROVE  Millivolts(sum) \in 0..MaxLight
<1> USE ConstantTypes
<1> DEFINE h == BatchSamples \div 2
           average == (sum + h) \div BatchSamples
<1>1. h \in Nat /\ h < BatchSamples
  BY Z3
<1> HIDE DEF h
<1>2. sum \in Nat /\ sum <= BatchSamples * MaxRaw
  BY Z3
<1>3. sum + h \in Nat /\ sum + h < BatchSamples * (MaxRaw + 1)
  BY <1>1, <1>2, Z3
<1>4. average \in 0..MaxRaw
  BY <1>3, DivBound
<1> HIDE DEF average
<1>5. average * MaxLight \in Nat /\ average * MaxLight < MaxRaw * (MaxLight + 1)
  BY <1>4, Z3
<1>6. (average * MaxLight) \div MaxRaw \in 0..MaxLight
  BY <1>5, DivBound
<1>7. QED
  BY <1>6 DEF Millivolts, average, h

\* service_adc: a batch never sums more than it counts.
LEMMA AdcSteps ==
  ASSUME IInv, BeginBatch \/ StartSample \/ TakeSample
  PROVE  adc' \in Adc /\ Reported /\ BatchCountsItsSamples'
<1> USE ConstantTypes
<1>1. /\ TypeOK /\ Counted(model, seen) /\ adc \in Adc /\ now \in Time
      /\ adc.sum \in Nat /\ adc.count \in 0..BatchSamples - 1
      /\ adc.sum <= adc.count * MaxRaw /\ model \in Model
  BY Z3 DEF IInv, TypeOK, BatchCountsItsSamples, Adc
<1>2. After(SampleInterval) \in Time
  BY <1>1, AfterTypes
<1>3. 0 \in 0..BatchSamples * MaxRaw /\ 0 \in 0..BatchSamples - 1 /\ 0 * MaxRaw = 0
  BY Z3
<1>4. ASSUME LightResult
      PROVE  seen' \in Seen /\ seen'.elapsed = seen.elapsed /\ seen'.failed = seen.failed
  BY <1>4, <1>1 DEF LightResult, TypeOK, Seen
<1>5. CASE FailAdcBatch
  <2>1. adc' \in Adc /\ BatchCountsItsSamples'
    BY <1>2, <1>3, <1>5 DEF FailAdcBatch, Adc, BatchCountsItsSamples
  <2>2. Besides(model, model')
    BY <1>1, <1>5, LightIsBeside DEF FailAdcBatch
  <2>3. Follows(model, model')
    BY <1>1, <2>2, BesidesFollows
  <2>4. QED
    BY <1>1, <1>4, <1>5, <2>1, <2>2, <2>3, OtherwiseReports DEF FailAdcBatch, Besides
<1>6. CASE BeginBatch
  <2>1. adc' \in Adc /\ BatchCountsItsSamples'
    BY <1>2, <1>3, <1>6 DEF BeginBatch, Adc, BatchCountsItsSamples
  <2>2. QED
    BY <1>1, <1>6, <2>1, QuietReports DEF BeginBatch
<1>7. CASE StartSample
  <2>1. CASE adc' = [adc EXCEPT !.state = "WaitSample"] /\ Quiet
    BY <1>1, <2>1, QuietReports DEF Adc, BatchCountsItsSamples
  <2>2. QED
    BY <1>5, <1>7, <2>1 DEF StartSample
<1>8. CASE TakeSample
  <2>1. ASSUME NEW raw \in Raws
        PROVE  /\ adc.sum + raw \in 0..BatchSamples * MaxRaw
               /\ adc.sum + raw <= (adc.count + 1) * MaxRaw
    <3>1. raw \in 0..MaxRaw
      BY <2>1, FirmwareAssumption
    <3>2. adc.sum + raw <= (adc.count + 1) * MaxRaw
      BY <1>1, <3>1, Z3
    <3>3. (adc.count + 1) * MaxRaw <= BatchSamples * MaxRaw
      BY <1>1, Z3
    <3>4. QED
      BY <1>1, <3>1, <3>2, <3>3, Z3
  <2>2. ASSUME NEW raw \in Raws, adc.count + 1 < BatchSamples, Quiet,
               adc' = [adc EXCEPT !.state = "StartSample", !.sum = @ + raw, !.count = @ + 1]
        PROVE  adc' \in Adc /\ Reported /\ BatchCountsItsSamples'
    <3>1. adc.count + 1 \in 0..BatchSamples - 1
      BY <1>1, <2>2
    <3>2. adc' \in Adc /\ adc'.sum = adc.sum + raw /\ adc'.count = adc.count + 1
          /\ adc'.state = "StartSample"
      BY <1>1, <2>1, <2>2, <3>1 DEF Adc
    <3>3. QED
      BY <1>1, <2>1, <2>2, <3>2, QuietReports DEF BatchCountsItsSamples
  <2>3. ASSUME NEW raw \in Raws, LightResult,
               adc' = [adc EXCEPT !.state = "Idle", !.sum = 0, !.count = 0],
               model' = PublishLight(model, Millivolts(adc.sum + raw))
        PROVE  adc' \in Adc /\ Reported /\ BatchCountsItsSamples'
    <3>1. adc' \in Adc /\ adc'.sum = 0 /\ adc'.count = 0
      BY <1>1, <1>3, <2>3 DEF Adc
    <3>2. Millivolts(adc.sum + raw) \in 0..MaxLight
      BY <2>1, <2>3, MillivoltsInRange
    <3>3. Besides(model, model')
      BY <1>1, <2>3, <3>2, LightIsBeside
    <3>4. Follows(model, model')
      BY <1>1, <3>3, BesidesFollows
    <3>5. BatchCountsItsSamples'
      BY <1>3, <3>1 DEF BatchCountsItsSamples
    <3>6. QED
      BY <1>1, <1>4, <2>3, <3>1, <3>3, <3>4, <3>5, OtherwiseReports DEF Besides
  <2>4. QED
    BY <1>5, <1>8, <2>2, <2>3 DEF TakeSample
<1>9. QED
  BY <1>6, <1>7, <1>8

\* A service of the light sensor keeps the invariant.
LEMMA AdcKeeps ==
  ASSUME IInv, ServiceAdc
  PROVE  IInv' /\ Follows(model, model')
<1>1. TypeOK /\ Counted(model, seen) /\ BatchCountsItsSamples
  BY DEF IInv
<1>2. UNCHANGED <<clock, now, uptime, watched, dht>> /\ stage' \in 0..Light
  BY ConstantTypes DEF ServiceAdc, Light
<1>3. adc' \in Adc /\ Reported /\ BatchCountsItsSamples'
  <2>1. CASE UNCHANGED adc /\ Quiet
    BY <2>1, <1>1, QuietReports DEF TypeOK, BatchCountsItsSamples
  <2>2. QED
    BY <2>1, AdcSteps DEF ServiceAdc
<1>4. TypeOK'
  BY <1>1, <1>2, <1>3 DEF TypeOK, Reported, Follows
<1>5. AlarmAgreesWithModel'
  BY <1>3, FollowsKeepsAlarms DEF IInv, Reported
<1>6. UptimeExact'
  BY <1>2, <1>3 DEF IInv, Reported, UptimeExact
<1>7. QED
  BY <1>3, <1>4, <1>5, <1>6 DEF IInv, Reported

\* update_uptime: seconds and remainder hold the time of the passes before and of this.
LEMMA UptimeAddsUp ==
  ASSUME uptime \in Uptime, NEW delta \in Nat
  PROVE  LET u == UpdateUptime(delta)
         IN /\ u \in Uptime
            /\ (u.seconds * Second + u.remainder) % (Second * UptimeModulus)
                 = (uptime.seconds * Second + uptime.remainder + delta) % (Second * UptimeModulus)
<1> USE ConstantTypes
<1> DEFINE s == uptime.seconds
           r == uptime.remainder
           d == delta \div Second
           e == delta % Second
           p == (e + r) \div Second
           q == (e + r) % Second
           total == s + d + p
           k == total \div UptimeModulus
           n == total % UptimeModulus
           K == Second * UptimeModulus
<1>1. s \in Nat /\ r \in 0..Second - 1
  BY DEF Uptime
<1> HIDE DEF s, r
<1>2. d \in Int /\ e \in 0..Second - 1 /\ delta = Second * d + e
  BY DivMod
<1> HIDE DEF d, e
<1>3. e + r \in Int
  BY <1>1, <1>2
<1>4. p \in Int /\ q \in 0..Second - 1 /\ e + r = Second * p + q
  BY <1>3, DivMod
<1> HIDE DEF p, q
<1>5. total \in Int
  BY <1>1, <1>2, <1>4
<1>6. k \in Int /\ n \in 0..UptimeModulus - 1 /\ total = UptimeModulus * k + n
  BY <1>5, DivMod
<1>7. UpdateUptime(delta) = [remainder |-> q, seconds |-> n]
  BY DEF UpdateUptime, q, n, p, d, e, s, r
<1>8. UpdateUptime(delta) \in Uptime
  BY <1>4, <1>6, <1>7 DEF Uptime
<1> HIDE DEF k, n
<1>9. s * Second + r + delta = total * Second + q
  BY <1>1, <1>2, <1>4, Z3
<1>10. total * Second = n * Second + K * k
  BY <1>6, Z3
<1>11. s * Second + r + delta = (n * Second + q) + K * k
  BY <1>1, <1>2, <1>4, <1>6, <1>9, <1>10, Z3
<1>12. n * Second + q \in Int
  BY <1>4, <1>6
<1>13. ((n * Second + q) + K * k) % K = (n * Second + q) % K
  BY <1>6, <1>12, ModPlus
<1>14. (s * Second + r + delta) % K = (n * Second + q) % K
  BY <1>11, <1>13
<1>15. QED
  BY <1>7, <1>8, <1>14 DEF s, r

\* The start of a pass: the time of the pass before goes into the uptime.
LEMMA PassKeeps ==
  ASSUME IInv, StartPass
  PROVE  IInv' /\ Follows(model, model')
<1> USE ConstantTypes
<1>1. TypeOK /\ Counted(model, seen) /\ model \in Model /\ watched \in Channels
      /\ clock \in Time /\ now \in Time /\ uptime \in Uptime
  BY DEF IInv, TypeOK
<1>2. UNCHANGED <<clock, watched, dht, adc, seen>> /\ stage' \in 0..Light /\ now' = clock
  BY DEF StartPass, Light
<1>3. Follows(model, model') /\ model'.temperature = model.temperature /\ model'.fault = model.fault
  <2>1. CASE model' = model
    BY <1>1, <2>1, ModelStays
  <2>2. CASE \E t \in Thresholds : model' = SetThreshold(model, watched, t)
    BY <1>1, <2>2, SetThresholdFollows, FirmwareAssumption
  <2>3. CASE \E n \in 1..2 : model' = AddCommunicationErrors(model, n)
    <3>1. Besides(model, model')
      BY <1>1, <2>3, ErrorsAreBeside
    <3>2. QED
      BY <1>1, <3>1, BesidesFollows DEF Besides
  <2>4. QED
    BY <2>1, <2>2, <2>3 DEF StartPass, Served
<1>4. Counted(model', seen')
  BY <1>1, <1>2, <1>3 DEF Counted
<1> DEFINE delta == (clock - now) % Modulus
<1>5. clock - now \in Int /\ clock - clock = 0
  BY <1>1 DEF Time
<1>6. delta \in Nat
  BY <1>5, DivMod
<1>7. uptime' = UpdateUptime(delta)
  BY DEF StartPass
<1> HIDE DEF delta
<1>8. /\ uptime' \in Uptime
      /\ (uptime'.seconds * Second + uptime'.remainder) % (Second * UptimeModulus)
           = (uptime.seconds * Second + uptime.remainder + delta) % (Second * UptimeModulus)
  BY <1>1, <1>6, <1>7, UptimeAddsUp
<1>9. (clock' - now') % Modulus = 0
  BY <1>2, <1>5, ModSmall
<1>10. uptime'.seconds * Second + uptime'.remainder + 0 = uptime'.seconds * Second + uptime'.remainder
  BY <1>8 DEF Uptime
<1>11. UptimeExact'
  BY <1>2, <1>8, <1>9, <1>10 DEF IInv, UptimeExact, delta
<1>12. TypeOK'
  BY <1>1, <1>2, <1>3, <1>8 DEF TypeOK, Follows
<1>13. AlarmAgreesWithModel' /\ BatchCountsItsSamples'
  BY <1>2, <1>3, FollowsKeepsAlarms DEF IInv, BatchCountsItsSamples
<1>14. QED
  BY <1>3, <1>4, <1>11, <1>12, <1>13 DEF IInv

\* A tick adds one to what the clock is ahead of the pass, across the wrap too.
LEMMA LagGrows ==
  ASSUME TypeOK, Tick
  PROVE  /\ (clock' - now') % Modulus = ((clock - now) % Modulus) + 1
         /\ (clock - now) % Modulus \in 0..MaxLag - 1
<1> USE ConstantTypes
<1> DEFINE lag == (clock - now) % Modulus
           x == clock - now + 1
<1>1. clock \in Int /\ now \in Int /\ now' = now /\ clock + 1 \in Int /\ clock - now \in Int
      /\ clock' = (clock + 1) % Modulus
  BY DEF TypeOK, Time, Tick
<1>2. lag \in 0..MaxLag - 1 /\ lag + 1 \in 0..Modulus - 1
  <2>1. lag \in 0..Modulus - 1 /\ lag < MaxLag
    BY <1>1, DivMod DEF Tick
  <2>2. QED
    BY <2>1
<1>3. x % Modulus = (lag + 1) % Modulus
  BY <1>1, ModStep
<1>4. (lag + 1) % Modulus = lag + 1
  BY <1>2, ModSmall
<1>5. PICK j \in Int : clock' = clock + 1 + Modulus * j
  <2> DEFINE d == (clock + 1) \div Modulus
  <2>1. d \in Int /\ clock + 1 = Modulus * d + clock' /\ clock' \in Int
    BY <1>1, DivMod
  <2>2. clock' = clock + 1 + Modulus * (-d) /\ -d \in Int
    BY <1>1, <2>1, Z3
  <2>3. QED
    BY <2>2
<1>6. clock' - now' = x + Modulus * j
  <2>1. Modulus * j \in Int
    BY <1>5
  <2>2. QED
    BY <1>1, <1>5, <2>1
<1>7. x \in Int
  BY <1>1
<1> HIDE DEF x, lag
<1>8. (x + Modulus * j) % Modulus = x % Modulus
  BY <1>5, <1>7, ModPlus
<1>9. QED
  BY <1>2, <1>3, <1>4, <1>6, <1>8 DEF lag

\* The clock goes on, and the uptime still to be counted with it.
LEMMA TickKeeps ==
  ASSUME IInv, Tick
  PROVE  IInv' /\ Follows(model, model')
<1> USE ConstantTypes
<1>1. TypeOK /\ Counted(model, seen) /\ seen \in Seen /\ watched \in Channels
      /\ clock \in Time /\ now \in Time /\ uptime \in Uptime /\ model \in Model
  BY DEF IInv, TypeOK
<1>2. UNCHANGED <<now, stage, uptime, model, watched, dht, adc>>
  BY DEF Tick
<1> DEFINE lag == (clock - now) % Modulus
           K == Second * UptimeModulus
           sum == uptime.seconds * Second + uptime.remainder + lag
<1>3. clock + 1 \in Int
  BY <1>1 DEF Time
<1>4. clock' \in Time
  BY <1>3, DivMod DEF Tick, Time
<1>5. (clock' - now') % Modulus = lag + 1 /\ lag \in Nat
  BY <1>1, LagGrows
<1> HIDE DEF lag
<1>6. seen'.elapsed = (seen.elapsed + 1) % K /\ seen'.failed = seen.failed
  BY <1>1 DEF Tick, Seen
<1>7. sum \in Int /\ uptime.seconds * Second + uptime.remainder + (lag + 1) = sum + 1
  BY <1>1, <1>5 DEF Uptime
<1>8. seen.elapsed = sum % K
  BY DEF IInv, UptimeExact, lag
<1>9. (sum + 1) % K = seen'.elapsed
  BY <1>6, <1>7, <1>8, ModStep
<1>10. UptimeExact'
  BY <1>2, <1>5, <1>7, <1>9 DEF UptimeExact
<1>11. seen' \in Seen
  <2> DEFINE age == IF seen.age[watched] <= Patience(watched) THEN seen.age[watched] + 1
                    ELSE seen.age[watched]
             command == [c \in Real |-> IF c = watched /\ seen.command[c] < SampleInterval
                                        THEN seen.command[c] + 1 ELSE seen.command[c]]
             elapsed == (seen.elapsed + 1) % K
  <2>1. seen' = [seen EXCEPT !.age[watched] = age, !.command = command, !.elapsed = elapsed]
    BY DEF Tick
  <2>2. age \in Nat
    BY <1>1 DEF Seen
  <2>3. command \in [Real -> 0..SampleInterval]
    BY <1>1 DEF Seen
  <2>4. seen.elapsed + 1 \in Int
    BY <1>1 DEF Seen
  <2>5. elapsed \in 0..K - 1
    BY <2>4, DivMod
  <2> HIDE DEF age, command, elapsed
  <2>6. QED
    BY <1>1, <2>1, <2>2, <2>3, <2>5 DEF Seen
<1>12. TypeOK'
  BY <1>1, <1>2, <1>4, <1>11 DEF TypeOK
<1>13. Counted(model', seen') /\ AlarmAgreesWithModel' /\ BatchCountsItsSamples'
  BY <1>1, <1>2, <1>6 DEF IInv, Counted, AlarmAgreesWithModel, BatchCountsItsSamples
<1>14. QED
  BY <1>1, <1>2, <1>10, <1>12, <1>13, ModelStays DEF IInv

\* app_init establishes the invariant.
LEMMA InitHolds ==
  ASSUME Init
  PROVE  IInv
<1> USE ConstantTypes, DeviceModelAssumption, FirmwareAssumption
<1> DEFINE l == [temperature |-> [c \in Channels |->
                   [value |-> IF c = Ambient THEN AmbientValue ELSE 0, valid |-> c = Ambient,
                    crc |-> 0, invalid |-> 0]],
                 threshold |-> InitialThreshold, alarm |-> {}, fault |-> {},
                 light |-> 0, lightValid |-> FALSE, lightFault |-> FALSE, errors |-> 0]
           n == UpdateAlarm(l, Ambient)
<1>1. l \in Model
  BY DEF Model, Temperature
<1>2. \A c \in Real : l.temperature[c] = [value |-> 0, valid |-> FALSE, crc |-> 0, invalid |-> 0]
  OBVIOUS
<1>3. \A c \in Channels \ {Ambient} : ~l.temperature[c].valid
  OBVIOUS
<1>4. l.fault = {}
  OBVIOUS
<1>5. model = n
  BY DEF Init, ModelInit
<1> HIDE DEF l
<1>6. /\ n \in Model /\ Agrees(n, Ambient)
      /\ n = [l EXCEPT !.alarm = n.alarm]
  BY <1>1, UpdateAlarmEffect
<1> HIDE DEF n
<1>7. n.temperature = l.temperature /\ n.threshold = l.threshold /\ n.fault = {}
  BY <1>1, <1>4, <1>6 DEF Model
<1>8. AlarmAgreesWithModel
  BY <1>3, <1>5, <1>6, <1>7 DEF AlarmAgreesWithModel, Agrees
<1>9. seen = [age |-> [c \in Channels |-> 0], command |-> [c \in Real |-> 0],
              failed |-> [c \in Real |-> 0], elapsed |-> 0]
  BY DEF Init
<1>10. Counted(model, seen)
  BY <1>2, <1>5, <1>7, <1>9 DEF Counted
<1>11. seen \in Seen
  BY <1>9 DEF Seen
<1>12. clock = 0 /\ now = 0 /\ 0 \in Time
  BY DEF Init, Time
<1>13. dht \in [Real -> Dht]
  <2>1. \A c \in Real : After(FirstOffset[c]) \in Time
    BY <1>12, AfterTypes
  <2>2. QED
    BY <1>12, <2>1 DEF Init, Dht, DhtState
<1>14. adc \in Adc /\ BatchCountsItsSamples
  <2>1. After(FirstOffset[Ambient]) \in Time
    BY <1>12, AfterTypes
  <2>2. 0 \in 0..BatchSamples * MaxRaw /\ 0 \in 0..BatchSamples - 1 /\ 0 * MaxRaw = 0
    BY Z3
  <2>3. adc = [state |-> "Idle", nextBatch |-> After(FirstOffset[Ambient]), sum |-> 0, count |-> 0]
    BY DEF Init
  <2>4. QED
    BY <2>1, <2>2, <2>3 DEF Adc, BatchCountsItsSamples
<1>15. uptime = [remainder |-> 0, seconds |-> 0] /\ uptime \in Uptime
  BY DEF Init, Uptime
<1>16. UptimeExact
  <2>1. clock - now = 0 /\ 0 \in 0..Modulus - 1
    BY <1>12
  <2>2. (clock - now) % Modulus = 0
    BY <2>1, ModSmall
  <2>3. 0 \in 0..(Second * UptimeModulus) - 1
    BY ConstantTypes
  <2>4. 0 % (Second * UptimeModulus) = 0
    BY <2>3, ModSmall
  <2>5. uptime.seconds * Second + uptime.remainder + 0 = 0
    BY <1>15
  <2>6. QED
    BY <1>9, <2>2, <2>4, <2>5 DEF UptimeExact
<1>17. TypeOK
  BY <1>5, <1>6, <1>11, <1>12, <1>13, <1>14, <1>15 DEF TypeOK, Init, Light
<1>18. QED
  BY <1>8, <1>10, <1>14, <1>16, <1>17 DEF IInv

\* Every step keeps it.
LEMMA NextKeeps ==
  ASSUME IInv, [Next]_vars
  PROVE  IInv' /\ Follows(model, model')
<1>1. CASE Tick
  BY <1>1, TickKeeps
<1>2. CASE StartPass
  BY <1>2, PassKeeps
<1>3. CASE \E c \in Real : ServiceChannel(c)
  BY <1>3, ChannelKeeps
<1>4. CASE ServiceAdc
  BY <1>4, AdcKeeps
<1>5. CASE UNCHANGED vars
  <2>1. IInv'
    BY <1>5 DEF IInv, TypeOK, Counted, AlarmAgreesWithModel, BatchCountsItsSamples,
                UptimeExact, vars
  <2>2. Follows(model, model')
    BY <1>5, ModelStays DEF IInv, TypeOK, vars
  <2>3. QED
    BY <2>1, <2>2
<1>6. QED
  BY <1>1, <1>2, <1>3, <1>4, <1>5 DEF Next

-----------------------------------------------------------------------------
(***************************************************************************)
(* The theorems.                                                           *)
(***************************************************************************)
\* The invariant holds from the start of the processor on.
THEOREM FirmwareInvariance == Spec => []IInv
<1>1. Init => IInv
  BY InitHolds
<1>2. IInv /\ [Next]_vars => IInv'
  BY NextKeeps
<1>3. QED
  BY <1>1, <1>2, PTL DEF Spec

\* Every context, counter and sum of the firmware stays in range.
THEOREM FirmwareTypes == Spec => []TypeOK
<1>1. IInv => TypeOK
  BY DEF IInv
<1>2. QED
  BY <1>1, FirmwareInvariance, PTL

\* A fault bit is set after FailureLimit failures in a row and no others: the two
\* saturating counters of device_model_fail_temperature agree with the plain count.
THEOREM FirmwareFaults == Spec => []FaultAfterFailuresInARow
<1>1. IInv => FaultAfterFailuresInARow
  BY DEF IInv, Counted, FaultAfterFailuresInARow
<1>2. QED
  BY <1>1, FirmwareInvariance, PTL

\* A valid temperature and its alarm bit agree, whatever is written in between.
THEOREM FirmwareAlarmsAgree == Spec => []AlarmAgreesWithModel
<1>1. IInv => AlarmAgreesWithModel
  BY DEF IInv
<1>2. QED
  BY <1>1, FirmwareInvariance, PTL

\* update_uptime loses and gains no millisecond, across every wrap of the clock.
THEOREM FirmwareUptime == Spec => []UptimeExact
<1>1. IInv => UptimeExact
  BY DEF IInv
<1>2. QED
  BY <1>1, FirmwareInvariance, PTL

\* No step changes an alarm bit without a valid temperature that asks for it.
THEOREM FirmwareAlarms == Spec => AlarmNeedsEvidence
<1> DEFINE A == \A c \in Channels : (c \in model'.alarm) # (c \in model.alarm) =>
                  LET t == model'.temperature[c]
                  IN /\ t.valid
                     /\ IF c \in model'.alarm THEN t.value >= model'.threshold[c]
                        ELSE t.value <= model'.threshold[c] - Hysteresis
<1>1. IInv /\ [Next]_vars => A
  BY NextKeeps DEF Follows, Evident
<1>2. IInv /\ [Next]_vars => [A]_vars
  BY <1>1
<1>3. QED
  BY <1>2, FirmwareInvariance, PTL DEF Spec, AlarmNeedsEvidence

-----------------------------------------------------------------------------
(***************************************************************************)
(* Time, for every number of sensors, every interval, length of a pass and *)
(* clock: a channel always gets its result in time, and a sensor its rest. *)
(* The firmware compares deadlines by the sign of a 32-bit difference; the *)
(* argument is that no deadline in use is ever half the clock's range      *)
(* away, so that the sign is right and time may be taken as if the clock   *)
(* never wrapped.                                                          *)
(***************************************************************************)
Half == Modulus \div 2

\* How far deadline d is ahead of time n, negative when it is past.
Ahead(n, d) ==
  LET x == (d - n) % Modulus
  IN IF x < Half THEN x ELSE x - Modulus

Near == -(Half - 1)..Half - 1

\* The intervals in use, with the longest delays, are below half the clock's range.
LEMMA Bounds ==
  /\ Half \in Nat /\ 2 * Half <= Modulus /\ Modulus <= 2 * Half + 1
  /\ ConversionTimeout \in Nat \ {0}
  /\ SampleInterval + ConversionTimeout + ReadyPoll + 3 * MaxLag <= Half
  /\ SampleInterval + (2 * BatchSamples + 2) * MaxLag <= Half
  /\ ReadyPoll <= SampleInterval
<1> USE FirmwareAssumption
<1> DEFINE a == SampleInterval + ConversionTimeout + ReadyPoll + 3 * MaxLag
           b == SampleInterval + (2 * BatchSamples + 2) * MaxLag
<1>1. ConversionTimeout \in Nat \ {0} /\ ReadyPoll <= SampleInterval
  OBVIOUS
<1>2. Half \in Nat /\ 2 * Half <= Modulus /\ Modulus <= 2 * Half + 1
  BY ConstantTypes, Z3 DEF Half
<1>3. a \in Int /\ 2 * a < Modulus
  BY <1>1, ConstantTypes
<1>4. b \in Int /\ 2 * b < Modulus
  <2>1. (2 * BatchSamples + 2) * MaxLag \in Int
    BY ConstantTypes, Z3
  <2>2. QED
    BY <2>1, ConstantTypes
<1> HIDE DEF a, b
<1>5. a <= Half /\ b <= Half
  BY <1>2, <1>3, <1>4, ConstantTypes
<1>6. QED
  BY <1>1, <1>2, <1>5 DEF a, b

-----------------------------------------------------------------------------
(***************************************************************************)
(* The clock.                                                              *)
(***************************************************************************)
\* A turn of the clock does not show.
LEMMA ModTurn ==
  ASSUME NEW K \in Nat \ {0}, NEW a \in Int
  PROVE  (a + K) % K = a % K
<1> DEFINE d == a \div K
           r == a % K
<1>1. d \in Int /\ r \in 0..K - 1 /\ a = K * d + r
  BY DivMod
<1> HIDE DEF d, r
<1>2. a + K = K * (d + 1) + r /\ d + 1 \in Int
  BY <1>1, Z3
<1>3. (K * (d + 1) + r) % K = r
  BY <1>1, <1>2, ModUnique
<1>4. QED
  BY <1>2, <1>3 DEF r

\* Up to whole turns of the clock, the difference is the distance.
LEMMA AheadSplits ==
  ASSUME NEW n \in Time, NEW d \in Time
  PROVE  Ahead(n, d) \in Int /\ \E k \in Int : d - n = Ahead(n, d) + Modulus * k
<1> DEFINE q == (d - n) \div Modulus
           x == (d - n) % Modulus
<1>1. d - n \in Int /\ Modulus \in Nat \ {0}
  BY ConstantTypes DEF Time
<1>2. q \in Int /\ x \in 0..Modulus - 1 /\ d - n = Modulus * q + x
  BY <1>1, DivMod
<1> HIDE DEF q, x
<1>3. CASE x < Half
  <2>1. Ahead(n, d) = x
    BY <1>3 DEF Ahead, x
  <2>2. d - n = x + Modulus * q
    BY <1>1, <1>2, Z3
  <2>3. QED
    BY <2>1, <2>2, <1>2
<1>4. CASE ~(x < Half)
  <2>1. Ahead(n, d) = x - Modulus
    BY <1>4 DEF Ahead, x
  <2>2. d - n = (x - Modulus) + Modulus * (q + 1)
    BY <1>1, <1>2, Z3
  <2>3. q + 1 \in Int /\ x - Modulus \in Int
    BY <1>1, <1>2
  <2>4. QED
    BY <2>1, <2>2, <2>3
<1>5. QED
  BY <1>3, <1>4

\* And the distance is the only one that is near.
LEMMA AheadIs ==
  ASSUME NEW n \in Time, NEW d \in Time, NEW r \in Near, NEW k \in Int,
         d - n = r + Modulus * k
  PROVE  Ahead(n, d) = r
<1> DEFINE x == (d - n) % Modulus
<1> USE Bounds, ConstantTypes
<1>1. r \in Int /\ -Half < r /\ r < Half
  BY DEF Near
<1>2. x = r % Modulus
  <2>1. (r + Modulus * k) % Modulus = r % Modulus
    BY <1>1, ModPlus
  <2>2. QED
    BY <2>1
<1>3. CASE r >= 0
  <2>1. r \in 0..Modulus - 1
    BY <1>1, <1>3
  <2>2. x = r
    BY <1>2, <2>1, ModSmall
  <2> HIDE DEF x
  <2>3. x < Half
    BY <1>1, <2>2
  <2>4. QED
    BY <2>2, <2>3 DEF Ahead, x
<1>4. CASE r < 0
  <2>1. r + Modulus \in 0..Modulus - 1 /\ r + Modulus >= Half
    BY <1>1, <1>4
  <2>2. (r + Modulus) % Modulus = r % Modulus
    BY <1>1, ModTurn
  <2>3. (r + Modulus) % Modulus = r + Modulus
    BY <2>1, ModSmall
  <2>4. x = r + Modulus
    BY <1>2, <2>2, <2>3
  <2> HIDE DEF x
  <2>5. ~(x < Half) /\ x - Modulus = r
    BY <1>1, <2>1, <2>4
  <2>6. QED
    BY <2>5 DEF Ahead, x
<1>5. QED
  BY <1>1, <1>3, <1>4

\* A deadline set is as far ahead as it is set.
LEMMA AheadAfter ==
  ASSUME now \in Time, NEW i \in 0..Half - 1
  PROVE  Ahead(now, After(i)) = i
<1> DEFINE q == (now + i) \div Modulus
<1>1. now + i \in Int /\ After(i) \in Time /\ i \in Near
  BY Bounds, AfterTypes DEF Time, Near
<1>2. q \in Int /\ now + i = Modulus * q + After(i)
  BY <1>1, ConstantTypes, DivMod DEF After
<1> HIDE DEF q
<1>3. After(i) - now = i + Modulus * (-q) /\ -q \in Int
  BY <1>1, <1>2, ConstantTypes, Z3 DEF Time
<1>4. QED
  BY <1>1, <1>3, AheadIs

\* The time itself is no distance ahead.
LEMMA AheadNow ==
  ASSUME now \in Time
  PROVE  Ahead(now, now) = 0
<1>1. now - now = 0 + Modulus * 0 /\ 0 \in Near
  BY Bounds, ConstantTypes DEF Time, Near
<1>2. QED
  BY <1>1, AheadIs

\* As time goes on a deadline comes nearer by as much.
LEMMA AheadPasses ==
  ASSUME NEW n \in Time, NEW m \in Time, NEW d \in Time,
         Ahead(n, d) - ((m - n) % Modulus) \in Near
  PROVE  Ahead(m, d) = Ahead(n, d) - ((m - n) % Modulus)
<1> DEFINE g == (m - n) % Modulus
           q == (m - n) \div Modulus
           r == Ahead(n, d)
<1>1. PICK k \in Int : d - n = r + Modulus * k
  BY AheadSplits
<1>2. r \in Int
  BY AheadSplits
<1>3. m - n \in Int /\ m \in Int /\ n \in Int /\ d \in Int /\ Modulus \in Nat \ {0}
  BY ConstantTypes DEF Time
<1>4. g \in Int /\ q \in Int /\ m - n = Modulus * q + g
  BY <1>3, DivMod
<1> HIDE DEF g, q, r
<1>5. d - m = (r - g) + Modulus * (k - q) /\ k - q \in Int
  BY <1>1, <1>2, <1>3, <1>4, Z3
<1>6. r - g \in Near
  BY DEF r, g
<1>7. Ahead(m, d) = r - g
  BY <1>5, <1>6, AheadIs
<1>8. QED
  BY <1>7 DEF r, g

\* time_reached tells a deadline that is past from one that is to come.
LEMMA ReachedIsPast ==
  ASSUME now \in Time, NEW d \in Time, Ahead(now, d) \in Near
  PROVE  TimeReached(d) <=> Ahead(now, d) <= 0
<1> DEFINE r == Ahead(now, d)
           x == (now - d) % Modulus
<1> USE Bounds, ConstantTypes
<1>1. PICK k \in Int : d - now = r + Modulus * k
  BY AheadSplits
<1>2. r \in Int /\ -Half < r /\ r < Half
  BY DEF Near
<1> HIDE DEF r
<1>3. now - d = (-r) + Modulus * (-k) /\ -k \in Int /\ -r \in Int
  BY <1>1, <1>2, Z3 DEF Time
<1>4. ((-r) + Modulus * (-k)) % Modulus = (-r) % Modulus
  BY <1>3, ModPlus
<1>5. x = (-r) % Modulus
  BY <1>3, <1>4
<1>6. CASE r <= 0
  <2>1. -r \in 0..Modulus - 1 /\ -r < Half
    BY <1>2, <1>6
  <2>2. (-r) % Modulus = -r
    BY <2>1, ModSmall
  <2>3. QED
    BY <1>5, <1>6, <2>1, <2>2 DEF TimeReached, Half, r
<1>7. CASE r > 0
  <2>1. (-r) + Modulus \in 0..Modulus - 1 /\ ~((-r) + Modulus < Half)
    BY <1>2, <1>7
  <2>2. ((-r) + Modulus) % Modulus = (-r) % Modulus
    BY <1>3, ModTurn
  <2>3. ((-r) + Modulus) % Modulus = (-r) + Modulus
    BY <2>1, ModSmall
  <2>4. x = (-r) + Modulus
    BY <1>5, <2>2, <2>3
  <2>5. ~TimeReached(d)
    BY <2>1, <2>4 DEF TimeReached, Half
  <2>6. ~(r <= 0)
    BY <1>2, <1>7, Z3
  <2>7. QED
    BY <2>5, <2>6 DEF r
<1>8. QED
  BY <1>2, <1>6, <1>7

\* And the time since is the distance of the past.
LEMMA SinceIsPast ==
  ASSUME now \in Time, NEW t \in Time, Ahead(now, t) \in Near, Ahead(now, t) <= 0
  PROVE  Since(t) = -Ahead(now, t)
<1> DEFINE r == Ahead(now, t)
<1> USE Bounds, ConstantTypes
<1>1. PICK k \in Int : t - now = r + Modulus * k
  BY AheadSplits
<1>2. r \in Int /\ -Half < r /\ r <= 0
  BY DEF Near
<1> HIDE DEF r
<1>3. now - t = (-r) + Modulus * (-k) /\ -k \in Int /\ -r \in Int
  BY <1>1, <1>2, Z3 DEF Time
<1>4. ((-r) + Modulus * (-k)) % Modulus = (-r) % Modulus
  BY <1>3, ModPlus
<1>5. -r \in 0..Modulus - 1
  BY <1>2
<1>6. (-r) % Modulus = -r
  BY <1>5, ModSmall
<1>7. QED
  BY <1>3, <1>4, <1>6 DEF Since, r

-----------------------------------------------------------------------------
(***************************************************************************)
(* The inductive invariant.                                                *)
(***************************************************************************)
\* By how much the clock is ahead of the time of the pass.
Lag == (clock - now) % Modulus

\* Whether this pass has yet to come to channel c, and by how much c may be late then.
Unserved(c) == stage \in 1..c + 1
Late(c) == IF Unserved(c) THEN MaxLag ELSE 0

\* A channel waits for its trigger, which is r ahead or overdue: either the last result
\* is no older than the wait, or the trigger was already due when it came.
Waits(r, age, late, lag, overdue) ==
  /\ r \in -(overdue + late)..SampleInterval
  /\ \/ r >= 1 - late /\ age + r <= SampleInterval + lag
     \/ r <= 0 /\ age <= lag + late

\* The sensor has had all of the interval, or will have had it in r but for a pass.
Rested(r, command, lag, interval) ==
  \/ command = SampleInterval
  \/ command + r >= interval - MaxLag + lag

\* A sensor in the given state, with its trigger r ahead, its next read q ahead and its
\* last command e past.
SensorIn(state, r, q, e, age, command, late, lag) ==
  /\ state \in {"Idle", "InitRecover"} =>
       Waits(r, age, late, lag, ConversionTimeout + ReadyPoll + MaxLag)
  /\ state = "InitReset" =>
       r \in -late..0 /\ age + r <= SampleInterval + MaxLag - 1 + lag
  /\ state = "WaitReady" =>
       /\ e >= 0 /\ q \in 1 - late..ReadyPoll /\ e + q <= ConversionTimeout - 1 + ReadyPoll
       /\ r = SampleInterval - e
       /\ age <= SampleInterval + MaxLag - 1 + lag + e
       /\ Rested(q, command, lag, ReadyPoll)
  /\ state \in {"Idle", "WaitReady"} => Rested(r, command, lag, SampleInterval)

SensorTimely(c) ==
  SensorIn(dht[c].state, Ahead(now, dht[c].nextTrigger), Ahead(now, dht[c].nextRead),
           -Ahead(now, dht[c].triggeredAt), seen.age[c], seen.command[c], Late(c), Lag)

\* The passes a batch has had: two for each sample, and the one that will serve it.
Passes(state, count, late) ==
  2 * count + (IF state = "WaitSample" THEN 1 ELSE 0) + (IF late = 0 THEN 0 ELSE 1)

LightIn(state, t, count, age, late, lag) ==
  /\ state = "Idle" => count = 0 /\ Waits(t, age, late, lag, 2 * BatchSamples * MaxLag)
  /\ state # "Idle" =>
       /\ t \in SampleInterval - Passes(state, count, late) * MaxLag..SampleInterval
       /\ age <= SampleInterval + MaxLag - 1 + lag + Passes(state, count, late) * MaxLag

LightTimely ==
  LightIn(adc.state, Ahead(now, adc.nextBatch), adc.count, seen.age[Ambient], Late(Ambient), Lag)

Timely ==
  /\ Lag <= MaxLag
  /\ \A c \in Channels : c # watched => seen.age[c] = 0
  /\ \A c \in Real : c = watched => SensorTimely(c)
  /\ watched = Ambient => LightTimely

-----------------------------------------------------------------------------
(***************************************************************************)
(* What the bounds give, and how they move with time.                      *)
(***************************************************************************)
\* A sensor's deadlines are near now, and still near after the longest pass.
LEMMA SensorIsNear ==
  ASSUME NEW state \in DhtState, NEW r \in Int, NEW q \in Int, NEW e \in Int, NEW age \in Nat,
         NEW command \in 0..SampleInterval, NEW late \in {0, MaxLag}, NEW lag \in 0..MaxLag,
         SensorIn(state, r, q, e, age, command, late, lag)
  PROVE  /\ r \in Near /\ (late = 0 => r - lag \in Near)
         /\ state = "WaitReady" =>
              /\ q \in Near /\ -e \in Near
              /\ late = 0 => q - lag \in Near /\ -e - lag \in Near
BY Bounds, ConstantTypes DEF SensorIn, Waits, Near, DhtState

\* The bounds of a sensor give its patience.
LEMMA SensorIsPatient ==
  ASSUME NEW state \in DhtState, NEW r \in Int, NEW q \in Int, NEW e \in Int, NEW age \in Nat,
         NEW command \in 0..SampleInterval, NEW late \in {0, MaxLag}, NEW lag \in 0..MaxLag,
         SensorIn(state, r, q, e, age, command, late, lag)
  PROVE  age <= SampleInterval + ConversionTimeout + ReadyPoll + 3 * (MaxLag - 1)
BY Bounds, ConstantTypes DEF SensorIn, Waits, DhtState

\* A new pass takes the lag into its time.
LEMMA SensorPasses ==
  ASSUME NEW state \in DhtState, NEW r \in Int, NEW q \in Int, NEW e \in Int, NEW age \in Nat,
         NEW command \in 0..SampleInterval, NEW lag \in 0..MaxLag,
         SensorIn(state, r, q, e, age, command, 0, lag), NEW p \in Int, NEW f \in Int,
         state = "WaitReady" => p = q - lag /\ f = e + lag
  PROVE  SensorIn(state, r - lag, p, f, age, command, MaxLag, 0)
<1> USE ConstantTypes
<1>1. CASE state \in {"Idle", "InitRecover"}
  <2>1. Waits(r, age, 0, lag, ConversionTimeout + ReadyPoll + MaxLag)
    BY <1>1 DEF SensorIn
  <2>2. Waits(r - lag, age, MaxLag, 0, ConversionTimeout + ReadyPoll + MaxLag)
    BY <2>1, Bounds DEF Waits
  <2>3. Rested(r, command, lag, SampleInterval) => Rested(r - lag, command, 0, SampleInterval)
    BY DEF Rested
  <2>4. QED
    BY <1>1, <2>2, <2>3 DEF SensorIn
<1>2. CASE state = "InitReset"
  BY <1>2 DEF SensorIn
<1>3. CASE state = "WaitReady"
  BY <1>3 DEF SensorIn, Rested
<1>4. QED
  BY <1>1, <1>2, <1>3 DEF DhtState

AdcState == {"Idle", "StartSample", "WaitSample"}

\* A batch takes at most two passes for each sample, and a new pass is one more.
LEMMA PassesBound ==
  ASSUME NEW state \in AdcState, NEW count \in 0..BatchSamples - 1, NEW late \in {0, MaxLag}
  PROVE  LET p == Passes(state, count, late) * MaxLag
         IN /\ p \in Nat /\ p <= 2 * BatchSamples * MaxLag
            /\ late = 0 => /\ p <= 2 * BatchSamples * MaxLag - MaxLag
                           /\ Passes(state, count, MaxLag) * MaxLag = p + MaxLag
<1> USE ConstantTypes
<1> DEFINE n == Passes(state, count, late)
           m == Passes(state, count, MaxLag)
<1>1. n \in 0..2 * BatchSamples /\ (late = 0 => n <= 2 * BatchSamples - 1 /\ m = n + 1)
  BY DEF Passes
<1> HIDE DEF n, m
<1>2. n * MaxLag \in Nat /\ n * MaxLag <= 2 * BatchSamples * MaxLag
  BY <1>1, Z3
<1>3. ASSUME late = 0
      PROVE  n * MaxLag <= 2 * BatchSamples * MaxLag - MaxLag /\ m * MaxLag = n * MaxLag + MaxLag
  BY <1>1, <1>3, Z3
<1>4. QED
  BY <1>2, <1>3 DEF n, m

\* The light sensor's deadline is near, its batch ends in time, and time goes on.
LEMMA LightIsNear ==
  ASSUME NEW state \in AdcState, NEW t \in Int, NEW count \in 0..BatchSamples - 1, NEW age \in Nat,
         NEW late \in {0, MaxLag}, NEW lag \in 0..MaxLag, LightIn(state, t, count, age, late, lag)
  PROVE  /\ t \in Near /\ (late = 0 => t - lag \in Near)
         /\ age <= SampleInterval + (2 * BatchSamples + 2) * MaxLag - 1
         /\ LightIn(state, t, count, age + 1, late, lag + 1)
         /\ late = 0 => LightIn(state, t - lag, count, age, MaxLag, 0)
<1> USE ConstantTypes
<1> DEFINE p == Passes(state, count, late) * MaxLag
           q == Passes(state, count, MaxLag) * MaxLag
           b == 2 * BatchSamples * MaxLag
<1>1. p \in Nat /\ p <= b /\ (late = 0 => p <= b - MaxLag /\ q = p + MaxLag)
  BY PassesBound
<1>2. b \in Nat /\ (2 * BatchSamples + 2) * MaxLag = b + 2 * MaxLag
  BY Z3
<1>3. SampleInterval + b + 2 * MaxLag <= Half
  BY <1>2, Bounds
<1>4. /\ state = "Idle" => count = 0 /\ Waits(t, age, late, lag, b)
      /\ state # "Idle" =>
           /\ t \in SampleInterval - p..SampleInterval
           /\ age <= SampleInterval + MaxLag - 1 + lag + p
  BY DEF LightIn
<1> HIDE DEF p, q, b
<1>5. t \in Near /\ (late = 0 => t - lag \in Near)
  BY <1>1, <1>2, <1>3, <1>4, Bounds DEF Waits, Near
<1>6. age <= SampleInterval + b + 2 * MaxLag - 1
  BY <1>1, <1>2, <1>4 DEF Waits
<1>7. LightIn(state, t, count, age + 1, late, lag + 1)
  <2>1. Waits(t, age, late, lag, b) => Waits(t, age + 1, late, lag + 1, b)
    BY <1>2 DEF Waits
  <2>2. state # "Idle" => age + 1 <= SampleInterval + MaxLag - 1 + (lag + 1) + p
    BY <1>1, <1>4
  <2>3. QED
    BY <1>4, <2>1, <2>2 DEF LightIn, p, b
<1>8. ASSUME late = 0
      PROVE  LightIn(state, t - lag, count, age, MaxLag, 0)
  <2>1. Waits(t, age, 0, lag, b) => Waits(t - lag, age, MaxLag, 0, b)
    BY <1>2 DEF Waits
  <2>2. state # "Idle" =>
          /\ t - lag \in SampleInterval - q..SampleInterval
          /\ age <= SampleInterval + MaxLag - 1 + 0 + q
    BY <1>1, <1>4, <1>8
  <2>3. QED
    BY <1>4, <1>8, <2>1, <2>2 DEF LightIn, q, b
<1>9. QED
  BY <1>2, <1>5, <1>6, <1>7, <1>8

-----------------------------------------------------------------------------
(***************************************************************************)
(* The state, and its steps.                                               *)
(***************************************************************************)
\* What the state of a sensor is made of.
LEMMA SensorTypes ==
  ASSUME TypeOK, Lag <= MaxLag, NEW c \in Real
  PROVE  /\ dht[c] \in Dht /\ dht[c].state \in DhtState
         /\ Ahead(now, dht[c].nextTrigger) \in Int /\ Ahead(now, dht[c].nextRead) \in Int
         /\ -Ahead(now, dht[c].triggeredAt) \in Int
         /\ seen.age[c] \in Nat /\ seen.command[c] \in 0..SampleInterval
         /\ Late(c) \in {0, MaxLag} /\ Lag \in 0..MaxLag
<1>1. /\ dht[c] \in Dht /\ now \in Time /\ seen \in Seen /\ clock - now \in Int
      /\ c \in Channels
  BY ConstantTypes DEF TypeOK, Time
<1>2. /\ dht[c].state \in DhtState /\ dht[c].nextTrigger \in Time
      /\ dht[c].nextRead \in Time /\ dht[c].triggeredAt \in Time
  BY <1>1 DEF Dht
<1>3. /\ Ahead(now, dht[c].nextTrigger) \in Int /\ Ahead(now, dht[c].nextRead) \in Int
      /\ Ahead(now, dht[c].triggeredAt) \in Int
  BY <1>1, <1>2, AheadSplits
<1>4. Lag \in 0..Modulus - 1
  BY <1>1, ConstantTypes, DivMod DEF Lag
<1>5. Lag \in 0..MaxLag
  BY <1>4, ConstantTypes
<1>6. seen.age[c] \in Nat /\ seen.command[c] \in 0..SampleInterval
  BY <1>1 DEF Seen
<1>7. QED
  BY <1>1, <1>2, <1>3, <1>5, <1>6 DEF Late

\* The same of the light sensor.
LEMMA LightTypes ==
  ASSUME TypeOK, Lag <= MaxLag
  PROVE  /\ adc.state \in AdcState /\ adc.count \in 0..BatchSamples - 1
         /\ adc.nextBatch \in Time /\ Ahead(now, adc.nextBatch) \in Int
         /\ seen.age[Ambient] \in Nat /\ Late(Ambient) \in {0, MaxLag} /\ Lag \in 0..MaxLag
<1>1. adc \in Adc /\ now \in Time /\ seen \in Seen /\ clock - now \in Int
  BY ConstantTypes DEF TypeOK, Time
<1>2. adc.state \in AdcState /\ adc.count \in 0..BatchSamples - 1 /\ adc.nextBatch \in Time
  BY <1>1 DEF Adc, AdcState
<1>3. Ahead(now, adc.nextBatch) \in Int
  BY <1>1, <1>2, AheadSplits
<1>4. Lag \in 0..Modulus - 1
  BY <1>1, ConstantTypes, DivMod DEF Lag
<1>5. Lag \in 0..MaxLag
  BY <1>4, ConstantTypes
<1>6. seen.age[Ambient] \in Nat
  BY <1>1, ConstantTypes DEF Seen
<1>7. QED
  BY <1>2, <1>3, <1>5, <1>6 DEF Late

\* The times of the followed channel bound the age of its result.
LEMMA InTime ==
  ASSUME TypeOK, Timely
  PROVE  ResultsInTime
<1> USE ConstantTypes
<1> SUFFICES ASSUME NEW c \in Channels
             PROVE  seen.age[c] <= Patience(c)
  BY DEF ResultsInTime
<1>1. Lag <= MaxLag /\ ConversionTimeout \in Nat \ {0}
  BY Bounds DEF Timely
<1>2. Patience(c) >= 0
  <2>1. (2 * BatchSamples + 2) * MaxLag \in Nat
    BY Z3
  <2>2. QED
    BY <1>1, <2>1 DEF Patience
<1>3. CASE c # watched
  BY <1>2, <1>3 DEF Timely
<1>4. CASE c = watched /\ c \in Real
  <2>1. SensorTimely(c)
    BY <1>4 DEF Timely
  <2> DEFINE r == Ahead(now, dht[c].nextTrigger)
             q == Ahead(now, dht[c].nextRead)
             e == -Ahead(now, dht[c].triggeredAt)
  <2>2. r \in Int /\ q \in Int /\ e \in Int /\ dht[c].state \in DhtState
    BY <1>1, <1>4, SensorTypes
  <2>3. /\ seen.age[c] \in Nat /\ seen.command[c] \in 0..SampleInterval
        /\ Late(c) \in {0, MaxLag} /\ Lag \in 0..MaxLag
    BY <1>1, <1>4, SensorTypes
  <2>4. SensorIn(dht[c].state, r, q, e, seen.age[c], seen.command[c], Late(c), Lag)
    BY <2>1 DEF SensorTimely
  <2> HIDE DEF r, q, e
  <2>5. seen.age[c] <= SampleInterval + ConversionTimeout + ReadyPoll + 3 * (MaxLag - 1)
    BY ZenonT(60), <2>2, <2>3, <2>4, SensorIsPatient
  <2>6. QED
    BY <1>4, <2>5 DEF Patience
<1>5. CASE c = watched /\ c = Ambient
  <2>1. LightTimely
    BY <1>5 DEF Timely
  <2>2. seen.age[Ambient] <= SampleInterval + (2 * BatchSamples + 2) * MaxLag - 1
    BY <1>1, <2>1, LightTypes, LightIsNear DEF LightTimely
  <2>3. QED
    BY <1>5, <2>2 DEF Patience
<1>6. c \in Real \/ c = Ambient
  BY DEF Real, Channels, Ambient
<1>7. QED
  BY <1>3, <1>4, <1>5, <1>6

\* A tick makes everything older, and the lag longer.
LEMMA TickTimely ==
  ASSUME TypeOK, Timely, Tick
  PROVE  Timely'
<1> USE ConstantTypes
<1>1. Lag' = Lag + 1 /\ Lag \in 0..MaxLag - 1 /\ Lag <= MaxLag
  BY LagGrows DEF Lag
<1>2. UNCHANGED <<now, stage, watched, dht, adc>> /\ watched \in Channels /\ seen \in Seen
  BY DEF Tick, TypeOK
<1>3. seen.age[watched] <= Patience(watched)
  BY <1>2, InTime DEF ResultsInTime
<1>4. \A c \in Channels : seen'.age[c] = IF c = watched THEN seen.age[c] + 1 ELSE seen.age[c]
  BY <1>2, <1>3 DEF Tick, Seen
<1>5. \A c \in Real : c = watched =>
        seen'.command[c] = IF seen.command[c] < SampleInterval THEN seen.command[c] + 1
                           ELSE seen.command[c]
  BY <1>2 DEF Tick, Seen
<1>6. \A c \in Channels : Late(c)' = Late(c)
  BY <1>2 DEF Late, Unserved
<1>7. ASSUME NEW c \in Real, c = watched
      PROVE  SensorTimely(c)'
  <2>1. SensorTimely(c)
    BY <1>7 DEF Timely
  <2> DEFINE r == Ahead(now, dht[c].nextTrigger)
             q == Ahead(now, dht[c].nextRead)
             e == -Ahead(now, dht[c].triggeredAt)
  <2>2. r \in Int /\ q \in Int /\ e \in Int /\ dht[c].state \in DhtState
    BY <1>1, <1>7, SensorTypes
  <2>3. /\ seen.age[c] \in Nat /\ seen.command[c] \in 0..SampleInterval
        /\ Late(c) \in {0, MaxLag} /\ Lag \in 0..MaxLag
    BY <1>1, <1>7, SensorTypes
  <2>4. SensorIn(dht[c].state, r, q, e, seen.age[c], seen.command[c], Late(c), Lag)
    BY <2>1 DEF SensorTimely
  <2>5. c \in Channels /\ seen'.age[c] = seen.age[c] + 1 /\ seen'.age[c] \in Nat
    BY <1>4, <1>7, <2>3
  <2>6. /\ seen'.command[c] \in 0..SampleInterval
        /\ \/ seen'.command[c] = seen.command[c] + 1
           \/ seen.command[c] = SampleInterval /\ seen'.command[c] = seen.command[c]
    BY <1>5, <1>7, <2>3
  <2>7. Lag' \in Nat
    BY <1>1
  <2> HIDE DEF r, q, e
  <2>8. SensorIn(dht[c].state, r, q, e, seen'.age[c], seen'.command[c], Late(c), Lag')
    BY <1>1, <2>2, <2>3, <2>4, <2>5, <2>6, <2>7 DEF SensorIn, Waits, Rested, DhtState
  <2>9. QED
    BY <1>2, <1>6, <2>5, <2>8 DEF SensorTimely, r, q, e
<1>8. ASSUME watched = Ambient
      PROVE  LightTimely'
  <2>1. LightTimely
    BY <1>8 DEF Timely
  <2>2. LightIn(adc.state, Ahead(now, adc.nextBatch), adc.count, seen.age[Ambient] + 1,
                Late(Ambient), Lag + 1)
    BY <1>1, <2>1, LightTypes, LightIsNear DEF LightTimely
  <2>3. QED
    BY <1>1, <1>2, <1>4, <1>6, <1>8, <2>2 DEF LightTimely
<1>9. QED
  BY <1>1, <1>2, <1>4, <1>7, <1>8 DEF Timely

\* A new pass takes the lag into its time and has every channel still to serve.
LEMMA PassTimely ==
  ASSUME TypeOK, Timely, StartPass
  PROVE  Timely'
<1> USE ConstantTypes
<1>1. /\ UNCHANGED <<clock, watched, dht, adc, seen>> /\ now' = clock /\ stage = 0 /\ stage' = 1
      /\ now \in Time /\ clock \in Time /\ Lag <= MaxLag
  BY DEF StartPass, TypeOK, Timely
<1>2. Lag' = 0
  <2>1. clock - clock = 0 /\ 0 \in 0..Modulus - 1
    BY <1>1 DEF Time
  <2>2. QED
    BY <1>1, <2>1, ModSmall DEF Lag
<1>3. \A c \in Channels : Late(c) = 0 /\ Late(c)' = MaxLag
  BY <1>1 DEF Late, Unserved, Channels
<1>4. ASSUME NEW d \in Time, Ahead(now, d) - Lag \in Near
      PROVE  Ahead(clock, d) = Ahead(now, d) - Lag
  BY <1>1, <1>4, AheadPasses DEF Lag
<1>5. ASSUME NEW c \in Real, c = watched
      PROVE  SensorTimely(c)'
  <2>1. SensorTimely(c) /\ c \in Channels
    BY <1>5 DEF Timely
  <2> DEFINE r == Ahead(now, dht[c].nextTrigger)
             q == Ahead(now, dht[c].nextRead)
             e == -Ahead(now, dht[c].triggeredAt)
             p == Ahead(clock, dht[c].nextRead)
             f == -Ahead(clock, dht[c].triggeredAt)
  <2>2. r \in Int /\ q \in Int /\ e \in Int /\ dht[c].state \in DhtState
    BY <1>1, SensorTypes
  <2>3. /\ seen.age[c] \in Nat /\ seen.command[c] \in 0..SampleInterval
        /\ Late(c) = 0 /\ 0 \in {0, MaxLag} /\ Lag \in 0..MaxLag
    BY <1>1, <1>3, <2>1, SensorTypes
  <2>4. SensorIn(dht[c].state, r, q, e, seen.age[c], seen.command[c], 0, Lag)
    BY <2>1, <2>3 DEF SensorTimely
  <2>5. /\ dht[c].nextTrigger \in Time /\ dht[c].nextRead \in Time /\ dht[c].triggeredAt \in Time
    BY DEF TypeOK, Dht
  <2> HIDE DEF r, q, e, p, f
  <2>6. /\ r - Lag \in Near
        /\ dht[c].state = "WaitReady" => q - Lag \in Near /\ -e - Lag \in Near
    BY <2>2, <2>3, <2>4, SensorIsNear
  <2>7. Ahead(clock, dht[c].nextTrigger) = r - Lag
    BY <1>4, <2>5, <2>6 DEF r
  <2>8. p \in Int /\ f \in Int
    BY <1>1, <2>5, AheadSplits DEF p, f
  <2>9. dht[c].state = "WaitReady" => p = q - Lag /\ f = e + Lag
    <3>1. CASE dht[c].state = "WaitReady"
      <4>1. p = q - Lag
        BY <1>4, <2>5, <2>6, <3>1 DEF p, q
      <4>2. Ahead(now, dht[c].triggeredAt) = -e /\ Ahead(clock, dht[c].triggeredAt) = -f
        <5>1. Ahead(now, dht[c].triggeredAt) \in Int /\ Ahead(clock, dht[c].triggeredAt) \in Int
          BY <1>1, <2>5, AheadSplits
        <5>2. QED
          BY <5>1 DEF e, f
      <4>3. -f = -e - Lag
        BY <1>4, <2>5, <2>6, <3>1, <4>2
      <4>4. f = e + Lag
        BY <2>2, <2>3, <2>8, <4>3
      <4>5. QED
        BY <4>1, <4>4
    <3>2. QED
      BY <3>1
  <2>10. SensorIn(dht[c].state, r - Lag, p, f, seen.age[c], seen.command[c], MaxLag, 0)
    BY <2>2, <2>3, <2>4, <2>8, <2>9, SensorPasses
  <2>11. QED
    BY <1>1, <1>2, <1>3, <2>1, <2>7, <2>10 DEF SensorTimely, p, f
<1>6. ASSUME watched = Ambient
      PROVE  LightTimely'
  <2>1. LightTimely /\ Late(Ambient) = 0 /\ Late(Ambient)' = MaxLag
    BY <1>3, <1>6 DEF Timely
  <2> DEFINE t == Ahead(now, adc.nextBatch)
  <2>2. /\ t - Lag \in Near
        /\ LightIn(adc.state, t - Lag, adc.count, seen.age[Ambient], MaxLag, 0)
    BY <1>1, <2>1, LightTypes, LightIsNear DEF LightTimely
  <2>3. adc.nextBatch \in Time
    BY <1>1, LightTypes
  <2> HIDE DEF t
  <2>4. Ahead(clock, adc.nextBatch) = t - Lag
    BY <1>4, <2>2, <2>3 DEF t
  <2>5. QED
    BY <1>1, <1>2, <2>1, <2>2, <2>4 DEF LightTimely
<1>7. QED
  BY <1>1, <1>2, <1>5, <1>6 DEF Timely

\* What a step tells the observer of a channel that failed.
LEMMA FailedIsHeard ==
  ASSUME TypeOK, NEW c \in Real, NEW b \in BOOLEAN, Failed(c, b)
  PROVE  /\ seen'.age[c] = 0 /\ seen'.command = seen.command
         /\ \A d \in Channels : d # c => seen'.age[d] = seen.age[d]
BY ConstantTypes DEF Failed, TypeOK, Seen

\* service_dht_channel: whatever comes of it, the channel is as punctual as before.
LEMMA SensorServed ==
  ASSUME TypeOK, NEW c \in Real, SensorTimely(c), Lag <= MaxLag, Late(c) = MaxLag, Late(c)' = 0,
         UNCHANGED <<clock, now>>, Due(c), Recover(c) \/ Reset(c) \/ Trigger(c) \/ Read(c)
  PROVE  SensorTimely(c)' /\ \A d \in Channels : d # c => seen'.age[d] = seen.age[d]
<1> USE ConstantTypes
<1> DEFINE r == Ahead(now, dht[c].nextTrigger)
           q == Ahead(now, dht[c].nextRead)
           e == -Ahead(now, dht[c].triggeredAt)
           state == dht[c].state
           lag == Lag
           age == seen.age[c]
           command == seen.command[c]
<1>1. r \in Int /\ q \in Int /\ e \in Int /\ state \in DhtState
  BY SensorTypes
<1>2. /\ age \in Nat /\ command \in 0..SampleInterval
      /\ MaxLag \in {0, MaxLag} /\ lag \in 0..MaxLag
  BY SensorTypes
<1>3. SensorIn(state, r, q, e, age, command, MaxLag, lag)
  BY DEF SensorTimely
<1>4. /\ now \in Time /\ now' = now /\ dht \in [Real -> Dht] /\ c \in Channels /\ seen \in Seen
      /\ dht[c].nextTrigger \in Time /\ dht[c].nextRead \in Time /\ dht[c].triggeredAt \in Time
  BY DEF TypeOK, Dht
<1>5. Lag' = lag
  BY DEF Lag
<1>6. Ahead(now, After(SampleInterval)) = SampleInterval /\ Ahead(now, After(ReadyPoll)) = ReadyPoll
      /\ Ahead(now, now) = 0
  BY <1>4, Bounds, AheadAfter, AheadNow
<1>7. -e = Ahead(now, dht[c].triggeredAt)
  <2>1. Ahead(now, dht[c].triggeredAt) \in Int
    BY <1>4, AheadSplits
  <2>2. QED
    BY <2>1
<1> HIDE DEF r, q, e, state, lag, age, command
<1>8. r \in Near /\ (state = "WaitReady" => q \in Near /\ -e \in Near)
  BY <1>1, <1>2, <1>3, SensorIsNear
<1>9. IF state = "WaitReady" THEN q <= 0 ELSE r <= 0
  <2>1. CASE state = "WaitReady"
    BY <1>4, <1>8, <2>1, ReachedIsPast DEF Due, state, q
  <2>2. CASE state # "WaitReady"
    BY <1>4, <1>8, <2>2, ReachedIsPast DEF Due, state, r
  <2>3. QED
    BY <2>1, <2>2
\* The initialization failed, or the trigger: the next try is an interval away.
<1>10. ASSUME dht' = [dht EXCEPT ![c].state = "InitRecover", ![c].nextTrigger = After(SampleInterval)],
              seen'.age[c] = 0
       PROVE  SensorTimely(c)'
  <2>1. dht'[c].state = "InitRecover" /\ dht'[c].nextTrigger = After(SampleInterval)
    BY <1>4, <1>10 DEF Dht
  <2>2. \A p, f, k : SensorIn("InitRecover", SampleInterval, p, f, 0, k, 0, lag)
    BY <1>2, Bounds DEF SensorIn, Waits
  <2>3. QED
    BY <1>4, <1>5, <1>6, <1>10, <2>1, <2>2 DEF SensorTimely
<1>11. ASSUME NEW b \in BOOLEAN, Failed(c, b)
       PROVE  seen'.age[c] = 0 /\ seen'.command[c] = command
  BY <1>11, FailedIsHeard DEF command
<1>12. CASE Recover(c)
  <2>1. CASE InitializationFails(c)
    BY <1>10, <2>1, FailedIsHeard DEF InitializationFails
  <2>2. CASE dht' = [dht EXCEPT ![c].state = "InitReset", ![c].nextTrigger = now] /\ Quiet
    <3>1. /\ dht'[c].state = "InitReset" /\ dht'[c].nextTrigger = now
          /\ seen'.age[c] = age /\ seen'.command[c] = command
      BY <1>4, <2>2 DEF Dht, Quiet, age, command
    <3>2. state = "InitRecover"
      BY <1>12 DEF Recover, state
    <3>3. \A p, f, k : SensorIn("InitReset", 0, p, f, age, k, 0, lag)
      BY <1>1, <1>2, <1>3, <1>9, <3>2 DEF SensorIn, Waits
    <3>4. SensorTimely(c)'
      BY <1>4, <1>5, <1>6, <3>1, <3>3 DEF SensorTimely
    <3>5. QED
      BY <2>2, <3>4 DEF Quiet
  <2>3. QED
    BY <1>12, <2>1, <2>2 DEF Recover
<1>13. CASE Reset(c)
  <2>1. CASE InitializationFails(c)
    BY <1>10, <2>1, FailedIsHeard DEF InitializationFails
  <2>2. CASE /\ dht' = [dht EXCEPT ![c].state = "Idle", ![c].nextTrigger = After(SampleInterval)]
             /\ seen' = [seen EXCEPT !.command[c] = 0, !.age[c] = 0]
    <3>1. /\ dht'[c].state = "Idle" /\ dht'[c].nextTrigger = After(SampleInterval)
          /\ seen'.age[c] = 0 /\ seen'.command[c] = 0
          /\ \A d \in Channels : d # c => seen'.age[d] = seen.age[d]
      BY <1>4, <2>2 DEF Dht, Seen
    <3>2. \A p, f : SensorIn("Idle", SampleInterval, p, f, 0, 0, 0, lag)
      BY <1>2, Bounds DEF SensorIn, Waits, Rested
    <3>3. QED
      BY <1>4, <1>5, <1>6, <3>1, <3>2 DEF SensorTimely
  <2>3. QED
    BY <1>13, <2>1, <2>2 DEF Reset
<1>14. CASE Trigger(c)
  <2>1. CASE /\ dht' = [dht EXCEPT ![c].state = "InitRecover",
                                   ![c].nextTrigger = After(SampleInterval)]
             /\ Failed(c, FALSE)
    BY <1>10, <2>1, FailedIsHeard
  <2>2. CASE /\ dht' = [dht EXCEPT ![c] = [state |-> "WaitReady",
                                           nextTrigger |-> After(SampleInterval),
                                           triggeredAt |-> now, nextRead |-> After(ReadyPoll)]]
             /\ Command(c)
    <3>1. /\ dht'[c].state = "WaitReady" /\ dht'[c].nextTrigger = After(SampleInterval)
          /\ dht'[c].triggeredAt = now /\ dht'[c].nextRead = After(ReadyPoll)
          /\ seen'.age[c] = age /\ seen'.command[c] = 0 /\ seen'.age = seen.age
      BY <1>4, <2>2 DEF Dht, Command, Seen, age
    <3>2. state = "Idle"
      BY <1>14 DEF Trigger, state
    <3>3. SensorIn("WaitReady", SampleInterval, ReadyPoll, 0, age, 0, 0, lag)
      BY <1>1, <1>2, <1>3, <1>9, <3>2, Bounds DEF SensorIn, Waits, Rested
    <3>4. -Ahead(now, now) = 0
      <4> DEFINE z == Ahead(now, now)
                 f == -z
      <4>1. z \in Int /\ z <= 0 /\ z >= 0
        BY <1>6
      <4> HIDE DEF z
      <4>2. f \in Int /\ f <= 0 /\ f >= 0
        BY <4>1
      <4> HIDE DEF f
      <4>3. f = 0
        BY <4>2
      <4>4. QED
        BY <4>3 DEF f, z
    <3>5. QED
      BY <1>4, <1>5, <1>6, <3>1, <3>3, <3>4 DEF SensorTimely
  <2>3. QED
    BY <1>14, <2>1, <2>2 DEF Trigger
<1>15. CASE Read(c)
  <2>1. state = "WaitReady"
    BY <1>15 DEF Read, state
  <2>2. /\ e >= 0 /\ q <= 0 /\ 1 - MaxLag <= q /\ e + q <= ConversionTimeout - 1 + ReadyPoll
        /\ r = SampleInterval - e
        /\ age <= SampleInterval + MaxLag - 1 + lag + e
        /\ Rested(q, command, lag, ReadyPoll) /\ Rested(r, command, lag, SampleInterval)
    BY <1>1, <1>3, <1>9, <2>1 DEF SensorIn
  \* The last result is new, and the trigger stays where the command put it.
  <2>3. ASSUME NEW s \in {"Idle", "InitRecover"}, dht' = [dht EXCEPT ![c].state = s],
               seen'.age[c] = 0, seen'.command[c] = command
        PROVE  SensorTimely(c)'
    <3>1. dht'[c].state = s /\ dht'[c].nextTrigger = dht[c].nextTrigger
      BY <1>4, <2>3 DEF Dht
    <3>2. Waits(r, 0, 0, lag, ConversionTimeout + ReadyPoll + MaxLag)
      BY <1>1, <1>2, <2>2, Bounds DEF Waits
    <3>3. \A p, f : SensorIn(s, r, p, f, 0, command, 0, lag)
      BY <2>2, <2>3, <3>2 DEF SensorIn
    <3>4. QED
      BY <1>4, <1>5, <2>3, <3>1, <3>3 DEF SensorTimely, r
  <2>4. CASE /\ Since(dht[c].triggeredAt) < ConversionTimeout
             /\ dht' = [dht EXCEPT ![c].nextRead = After(ReadyPoll)] /\ Quiet
    <3>1. /\ dht'[c].state = "WaitReady" /\ dht'[c].nextTrigger = dht[c].nextTrigger
          /\ dht'[c].triggeredAt = dht[c].triggeredAt /\ dht'[c].nextRead = After(ReadyPoll)
          /\ seen'.age[c] = age /\ seen'.command[c] = command /\ seen' = seen
      BY <1>4, <2>1, <2>4 DEF Dht, Quiet, state, age, command
    <3>2. e < ConversionTimeout
      <4>1. -e <= 0 /\ -(-e) = e
        BY <1>1, <2>2
      <4>2. Since(dht[c].triggeredAt) = -Ahead(now, dht[c].triggeredAt)
        BY <1>4, <1>7, <1>8, <2>1, <4>1, SinceIsPast
      <4>3. QED
        BY <2>4, <4>2 DEF e
    <3>3. SensorIn("WaitReady", r, ReadyPoll, e, age, command, 0, lag)
      BY <1>1, <1>2, <2>2, <3>2, Bounds DEF SensorIn, Rested
    <3>4. QED
      BY <1>4, <1>5, <1>6, <3>1, <3>3 DEF SensorTimely, r, e
  <2>5. CASE dht' = [dht EXCEPT ![c].state = "InitRecover"] /\ Failed(c, FALSE)
    BY <1>11, <2>3, <2>5, FailedIsHeard
  <2>6. CASE /\ dht' = [dht EXCEPT ![c].state = "Idle"]
             /\ \E crcFailure \in BOOLEAN : Failed(c, crcFailure)
    BY <1>11, <2>3, <2>6, FailedIsHeard
  <2>7. CASE /\ dht' = [dht EXCEPT ![c].state = "Idle"]
             /\ seen' = [seen EXCEPT !.age[c] = 0, !.failed[c] = 0]
    <3>1. /\ seen'.age[c] = 0 /\ seen'.command[c] = command
          /\ \A d \in Channels : d # c => seen'.age[d] = seen.age[d]
      BY <1>4, <2>7 DEF Seen, command
    <3>2. QED
      BY <2>3, <2>7, <3>1
  <2>8. QED
    BY <1>15, <2>4, <2>5, <2>6, <2>7 DEF Read
<1>16. QED
  BY <1>12, <1>13, <1>14, <1>15

\* A service of a temperature channel, due or not, or of another than the followed.
LEMMA ChannelTimely ==
  ASSUME TypeOK, Timely, NEW c \in Real, ServiceChannel(c)
  PROVE  Timely'
<1> USE ConstantTypes
<1>1. /\ UNCHANGED <<clock, now, watched, adc>> /\ stage = c + 1 /\ stage' = c + 2
      /\ Lag <= MaxLag /\ Lag' = Lag /\ c \in Channels
  BY DEF ServiceChannel, Timely, Lag, Real, Channels
<1>2. Late(c) = MaxLag /\ Late(c)' = 0
  BY <1>1 DEF Late, Unserved, Real
<1>3. \A d \in Channels : d # c => Late(d)' = Late(d)
  BY <1>1 DEF Late, Unserved, Channels, Real
<1>4. CASE c = watched /\ Due(c)
  <2>1. SensorTimely(c)
    BY <1>4 DEF Timely
  <2>2. SensorTimely(c)' /\ \A d \in Channels : d # c => seen'.age[d] = seen.age[d]
    BY <1>1, <1>2, <1>4, <2>1, SensorServed DEF ServiceChannel
  <2>3. watched' # Ambient
    BY <1>1, <1>4
  <2>4. QED
    BY <1>1, <1>4, <2>2, <2>3 DEF Timely
<1>5. CASE ~(c = watched /\ Due(c))
  <2>1. dht' = dht /\ seen' = seen
    BY <1>5 DEF ServiceChannel, Quiet
  <2>2. ASSUME NEW d \in Real, d = watched, d # c
        PROVE  SensorTimely(d)'
    <3>1. SensorTimely(d) /\ Late(d)' = Late(d)
      BY <1>3, <2>2 DEF Timely
    <3>2. QED
      BY <1>1, <2>1, <3>1 DEF SensorTimely
  <2>3. ASSUME c = watched
        PROVE  SensorTimely(c)'
    <3> DEFINE r == Ahead(now, dht[c].nextTrigger)
               q == Ahead(now, dht[c].nextRead)
               e == -Ahead(now, dht[c].triggeredAt)
               state == dht[c].state
               age == seen.age[c]
               command == seen.command[c]
    <3>1. r \in Int /\ q \in Int /\ e \in Int /\ state \in DhtState
      BY <1>1, SensorTypes
    <3>2. /\ age \in Nat /\ command \in 0..SampleInterval
          /\ MaxLag \in {0, MaxLag} /\ Lag \in 0..MaxLag
      BY <1>1, SensorTypes
    <3>3. SensorIn(state, r, q, e, age, command, MaxLag, Lag)
      BY <1>2, <2>3 DEF Timely, SensorTimely
    <3>4. now \in Time /\ dht[c].nextTrigger \in Time /\ dht[c].nextRead \in Time
      BY DEF TypeOK, Dht
    <3> HIDE DEF r, q, e, state, age, command
    <3>5. r \in Near /\ (state = "WaitReady" => q \in Near)
      BY <3>1, <3>2, <3>3, SensorIsNear
    <3>6. IF state = "WaitReady" THEN q > 0 ELSE r > 0
      <4>1. CASE state = "WaitReady"
        <5>1. ~(q <= 0)
          BY <1>5, <2>3, <3>4, <3>5, <4>1, ReachedIsPast DEF Due, state, q
        <5>2. QED
          BY <3>1, <4>1, <5>1
      <4>2. CASE state # "WaitReady"
        <5>1. ~(r <= 0)
          BY <1>5, <2>3, <3>4, <3>5, <4>2, ReachedIsPast DEF Due, state, r
        <5>2. QED
          BY <3>1, <4>2, <5>1
      <4>3. QED
        BY <4>1, <4>2
    <3>7. SensorIn(state, r, q, e, age, command, 0, Lag)
      BY <3>1, <3>2, <3>3, <3>6, Bounds DEF SensorIn, Waits, DhtState
    <3>8. QED
      BY <1>1, <1>2, <2>1, <3>7 DEF SensorTimely, r, q, e, state, age, command
  <2>4. LightTimely => LightTimely'
    BY <1>1, <1>3, <2>1 DEF LightTimely
  <2>5. QED
    BY <1>1, <2>1, <2>2, <2>3, <2>4 DEF Timely
<1>6. QED
  BY <1>4, <1>5

\* service_adc, likewise.
LEMMA LightServed ==
  ASSUME TypeOK, LightTimely, Lag <= MaxLag, Late(Ambient) = MaxLag, Late(Ambient)' = 0,
         UNCHANGED <<clock, now>>, adc.state = "Idle" => TimeReached(adc.nextBatch),
         BeginBatch \/ StartSample \/ TakeSample
  PROVE  LightTimely' /\ \A d \in Channels : d # Ambient => seen'.age[d] = seen.age[d]
<1> USE ConstantTypes
<1> DEFINE t == Ahead(now, adc.nextBatch)
           state == adc.state
           count == adc.count
           age == seen.age[Ambient]
           b == 2 * BatchSamples * MaxLag
           p == Passes(state, count, MaxLag) * MaxLag
<1>1. /\ state \in AdcState /\ count \in 0..BatchSamples - 1 /\ t \in Int /\ age \in Nat
      /\ MaxLag \in {0, MaxLag} /\ Lag \in 0..MaxLag
  BY LightTypes
<1>2. LightIn(state, t, count, age, MaxLag, Lag)
  BY DEF LightTimely
<1>3. /\ now \in Time /\ now' = now /\ adc \in Adc /\ adc.nextBatch \in Time /\ seen \in Seen
      /\ Lag' = Lag
  BY DEF TypeOK, Adc, Lag
<1>4. Ahead(now, After(SampleInterval)) = SampleInterval
  BY <1>3, Bounds, AheadAfter
<1>5. p \in Nat /\ p <= b /\ b \in Nat
  <2>1. b \in Nat
    BY Z3
  <2>2. QED
    BY <1>1, <2>1, PassesBound
<1>6. /\ state = "Idle" => count = 0 /\ Waits(t, age, MaxLag, Lag, b)
      /\ state # "Idle" =>
           /\ t \in SampleInterval - p..SampleInterval
           /\ age <= SampleInterval + MaxLag - 1 + Lag + p
  BY <1>2 DEF LightIn
<1> HIDE DEF t, state, count, age, b, p
<1>7. t \in Near
  BY <1>1, <1>2, LightIsNear
<1>8. state = "Idle" => t <= 0
  BY <1>3, <1>7, ReachedIsPast DEF state, t
<1>9. ASSUME LightResult
      PROVE  seen'.age[Ambient] = 0 /\ \A d \in Channels : d # Ambient => seen'.age[d] = seen.age[d]
  BY <1>3, <1>9 DEF LightResult, Seen
\* A result, and the next batch an interval away.
<1>10. CASE FailAdcBatch
  <2>1. /\ adc'.state = "Idle" /\ adc'.count = 0 /\ adc'.nextBatch = After(SampleInterval)
        /\ LightResult
    BY <1>10 DEF FailAdcBatch
  <2>2. Waits(SampleInterval, 0, 0, Lag, b)
    BY <1>1, <1>5 DEF Waits
  <2>3. LightIn("Idle", SampleInterval, 0, 0, 0, Lag)
    BY <2>2 DEF LightIn, b
  <2>4. LightTimely'
    BY <1>3, <1>4, <1>9, <2>1, <2>3 DEF LightTimely
  <2>5. QED
    BY <1>9, <2>1, <2>4
<1>11. CASE BeginBatch
  <2>1. /\ adc'.state = "StartSample" /\ adc'.count = 0 /\ adc'.nextBatch = After(SampleInterval)
        /\ seen' = seen /\ state = "Idle"
    BY <1>11 DEF BeginBatch, Quiet, state
  <2>2. age <= SampleInterval + MaxLag - 1 + Lag
    BY <1>1, <1>6, <1>8, <2>1 DEF Waits
  <2>3. Passes("StartSample", 0, 0) * MaxLag = 0
    BY DEF Passes
  <2>4. LightIn("StartSample", SampleInterval, 0, age, 0, Lag)
    BY <1>1, <2>2, <2>3 DEF LightIn
  <2>5. LightTimely'
    BY <1>3, <1>4, <2>1, <2>4 DEF LightTimely, age
  <2>6. QED
    BY <2>1, <2>5
<1>12. CASE StartSample
  <2>1. CASE adc' = [adc EXCEPT !.state = "WaitSample"] /\ Quiet
    <3>1. /\ adc'.state = "WaitSample" /\ adc'.count = count /\ adc'.nextBatch = adc.nextBatch
          /\ seen' = seen /\ state = "StartSample"
      BY <1>3, <1>12, <2>1 DEF StartSample, Quiet, state, count, Adc
    <3>2. Passes("WaitSample", count, 0) = Passes(state, count, MaxLag)
      BY <1>1, <3>1 DEF Passes
    <3>3. LightIn("WaitSample", t, count, age, 0, Lag)
      BY <1>6, <3>1, <3>2 DEF LightIn, p
    <3>4. LightTimely'
      BY <1>3, <3>1, <3>3 DEF LightTimely, age, t
    <3>5. QED
      BY <3>1, <3>4
  <2>2. QED
    BY <1>10, <1>12, <2>1 DEF StartSample
<1>13. CASE TakeSample
  <2>1. state = "WaitSample"
    BY <1>13 DEF TakeSample, state
  <2>2. ASSUME NEW raw \in Raws, Quiet, count + 1 < BatchSamples,
               adc' = [adc EXCEPT !.state = "StartSample", !.sum = @ + raw, !.count = @ + 1]
        PROVE  LightTimely' /\ seen' = seen
    <3>1. /\ adc'.state = "StartSample" /\ adc'.count = count + 1 /\ adc'.nextBatch = adc.nextBatch
          /\ seen' = seen
      BY <1>3, <2>2 DEF Quiet, count, Adc
    <3>2. Passes("StartSample", count + 1, 0) = Passes(state, count, MaxLag)
      BY <1>1, <2>1 DEF Passes
    <3>3. LightIn("StartSample", t, count + 1, age, 0, Lag)
      BY <1>6, <2>1, <3>2 DEF LightIn, p
    <3>4. QED
      BY <1>3, <3>1, <3>3 DEF LightTimely, age, t
  <2>3. ASSUME LightResult, adc' = [adc EXCEPT !.state = "Idle", !.sum = 0, !.count = 0]
        PROVE  LightTimely'
    <3>1. adc'.state = "Idle" /\ adc'.count = 0 /\ adc'.nextBatch = adc.nextBatch
      BY <1>3, <2>3 DEF Adc
    <3>2. Waits(t, 0, 0, Lag, b)
      BY <1>1, <1>5, <1>6, <2>1 DEF Waits
    <3>3. LightIn("Idle", t, 0, 0, 0, Lag)
      BY <3>2 DEF LightIn, b
    <3>4. QED
      BY <1>3, <1>9, <2>3, <3>1, <3>3 DEF LightTimely, t
  <2>4. QED
    BY <1>9, <1>10, <1>13, <2>2, <2>3 DEF TakeSample, count
<1>14. QED
  BY <1>11, <1>12, <1>13

\* A service of the light sensor, due or not, or when another channel is followed.
LEMMA AdcTimely ==
  ASSUME TypeOK, Timely, ServiceAdc
  PROVE  Timely'
<1> USE ConstantTypes
<1>1. /\ UNCHANGED <<clock, now, watched, dht>> /\ stage = RealCount + 1 /\ stage' = 0
      /\ Lag <= MaxLag /\ Lag' = Lag
  BY DEF ServiceAdc, Timely, Lag, Light
<1>2. Late(Ambient) = MaxLag /\ Late(Ambient)' = 0
  BY <1>1 DEF Late, Unserved, Ambient
<1>3. \A c \in Real : Late(c)' = Late(c)
  BY <1>1 DEF Late, Unserved, Real
<1>4. CASE watched = Ambient /\ (adc.state = "Idle" => TimeReached(adc.nextBatch))
  <2>1. LightTimely
    BY <1>4 DEF Timely
  <2>2. LightTimely' /\ \A d \in Channels : d # Ambient => seen'.age[d] = seen.age[d]
    BY <1>1, <1>2, <1>4, <2>1, LightServed DEF ServiceAdc
  <2>3. QED
    BY <1>1, <1>4, <2>2 DEF Timely
<1>5. CASE ~(watched = Ambient /\ (adc.state = "Idle" => TimeReached(adc.nextBatch)))
  <2>1. adc' = adc /\ seen' = seen
    BY <1>5 DEF ServiceAdc, Quiet
  <2>2. ASSUME NEW c \in Real, c = watched
        PROVE  SensorTimely(c)'
    <3>1. SensorTimely(c) /\ Late(c)' = Late(c)
      BY <1>3, <2>2 DEF Timely
    <3>2. QED
      BY <1>1, <2>1, <3>1 DEF SensorTimely
  <2>3. ASSUME watched = Ambient
        PROVE  LightTimely'
    <3> DEFINE t == Ahead(now, adc.nextBatch)
               age == seen.age[Ambient]
               b == 2 * BatchSamples * MaxLag
    <3>1. /\ adc.state \in AdcState /\ adc.count \in 0..BatchSamples - 1 /\ t \in Int /\ age \in Nat
          /\ MaxLag \in {0, MaxLag} /\ Lag \in 0..MaxLag
      BY <1>1, LightTypes
    <3>2. LightIn(adc.state, t, adc.count, age, MaxLag, Lag)
      BY <1>2, <2>3 DEF Timely, LightTimely
    <3>3. adc.state = "Idle" /\ ~TimeReached(adc.nextBatch) /\ now \in Time /\ adc.nextBatch \in Time
      BY <1>5, <2>3 DEF TypeOK, Adc
    <3>4. adc.count = 0 /\ Waits(t, age, MaxLag, Lag, b)
      BY <3>2, <3>3 DEF LightIn
    <3>5. b \in Nat
      BY Z3
    <3> HIDE DEF t, age, b
    <3>6. t \in Near
      BY <3>1, <3>2, LightIsNear
    <3>7. ~(t <= 0)
      BY <3>3, <3>6, ReachedIsPast DEF t
    <3>8. Waits(t, age, 0, Lag, b)
      BY <3>1, <3>4, <3>5, <3>7 DEF Waits
    <3>9. LightIn(adc.state, t, adc.count, age, 0, Lag)
      BY <3>3, <3>4, <3>8 DEF LightIn, b
    <3>10. QED
      BY <1>1, <1>2, <2>1, <3>9 DEF LightTimely, t, age
  <2>4. QED
    BY <1>1, <2>1, <2>2, <2>3 DEF Timely
<1>6. QED
  BY <1>4, <1>5

\* acquisition_init sets the first deadlines in bounds.
LEMMA InitTimely ==
  ASSUME Init
  PROVE  Timely
<1> USE ConstantTypes
<1>1. clock = 0 /\ now = 0 /\ stage = 0 /\ now \in Time
  BY DEF Init, Time
<1>2. Lag = 0
  <2>1. clock - now = 0 /\ 0 \in 0..Modulus - 1
    BY <1>1
  <2>2. QED
    BY <2>1, ModSmall DEF Lag
<1>3. \A c \in Channels : Late(c) = 0 /\ seen.age[c] = 0
  BY <1>1 DEF Late, Unserved, Channels, Init
<1>4. ASSUME NEW c \in Channels
      PROVE  FirstOffset[c] \in 0..SampleInterval /\ Ahead(now, After(FirstOffset[c])) = FirstOffset[c]
  <2>1. FirstOffset[c] \in 0..SampleInterval
    BY FirmwareAssumption
  <2>2. FirstOffset[c] \in 0..Half - 1
    BY <2>1, Bounds
  <2>3. QED
    BY <1>1, <2>1, <2>2, AheadAfter
<1>5. ASSUME NEW c \in Real
      PROVE  SensorTimely(c)
  <2>1. dht[c].state = "InitRecover" /\ dht[c].nextTrigger = After(FirstOffset[c]) /\ c \in Channels
    BY DEF Init
  <2> DEFINE r == FirstOffset[c]
  <2>2. r \in 0..SampleInterval
    BY <1>4, <2>1
  <2> HIDE DEF r
  <2>3. \A q, e, k : SensorIn("InitRecover", r, q, e, 0, k, 0, 0)
    BY <2>2, Bounds DEF SensorIn, Waits
  <2>4. Ahead(now, dht[c].nextTrigger) = r
    BY <1>4, <2>1 DEF r
  <2>5. QED
    BY <1>2, <1>3, <2>1, <2>3, <2>4 DEF SensorTimely
<1>6. LightTimely
  <2>1. adc.state = "Idle" /\ adc.count = 0 /\ adc.nextBatch = After(FirstOffset[Ambient])
    BY DEF Init
  <2> DEFINE r == FirstOffset[Ambient]
             b == 2 * BatchSamples * MaxLag
  <2>2. r \in 0..SampleInterval /\ b \in Nat
    <3>1. b \in Nat
      BY Z3
    <3>2. QED
      BY <1>4, <3>1
  <2>3. Ahead(now, adc.nextBatch) = r
    BY <1>4, <2>1 DEF r
  <2> HIDE DEF r, b
  <2>4. Waits(r, 0, 0, 0, b)
    BY <2>2 DEF Waits
  <2>5. LightIn("Idle", r, 0, 0, 0, 0)
    BY <2>4 DEF LightIn, b
  <2>6. QED
    BY <1>2, <1>3, <2>1, <2>3, <2>5 DEF LightTimely
<1>7. QED
  BY <1>2, <1>3, <1>5, <1>6 DEF Timely

\* Every step keeps the times.
LEMMA NextTimely ==
  ASSUME TypeOK, Timely, [Next]_vars
  PROVE  Timely'
<1>1. CASE Tick
  BY <1>1, TickTimely
<1>2. CASE StartPass
  BY <1>2, PassTimely
<1>3. CASE \E c \in Real : ServiceChannel(c)
  BY <1>3, ChannelTimely
<1>4. CASE ServiceAdc
  BY <1>4, AdcTimely
<1>5. CASE UNCHANGED vars
  <2>1. Lag' = Lag /\ \A c \in Channels : Late(c)' = Late(c)
    BY <1>5 DEF vars, Lag, Late, Unserved
  <2>2. \A c \in Real : SensorTimely(c) => SensorTimely(c)'
    BY <1>5, <2>1, ConstantTypes DEF vars, SensorTimely
  <2>3. LightTimely => LightTimely'
    BY <1>5, <2>1, ConstantTypes DEF vars, LightTimely
  <2>4. QED
    BY <1>5, <2>1, <2>2, <2>3 DEF vars, Timely
<1>6. QED
  BY <1>1, <1>2, <1>3, <1>4, <1>5 DEF Next

\* A sensor that is due has had its rest, but for what a pass may lag.
LEMMA StepRests ==
  ASSUME TypeOK, Timely, [Next]_vars, NEW c \in Real, dht'[c] # dht[c]
  PROVE  /\ dht[c].state = "Idle" => seen.command[c] >= SampleInterval - MaxLag
         /\ dht[c].state = "WaitReady" => seen.command[c] >= ReadyPoll - MaxLag
<1> USE ConstantTypes
<1>1. \E d \in Real : ServiceChannel(d) /\ dht' # dht
  BY DEF Next, vars, Tick, StartPass, ServiceAdc
<1>2. PICK d \in Real : ServiceChannel(d) /\ dht' # dht
  BY <1>1
<1>3. d = watched /\ Due(d) /\ (Recover(d) \/ Reset(d) \/ Trigger(d) \/ Read(d))
  BY <1>2 DEF ServiceChannel
<1>4. c = d
  BY <1>3 DEF TypeOK, Recover, Reset, Trigger, Read, InitializationFails
<1> DEFINE r == Ahead(now, dht[c].nextTrigger)
           q == Ahead(now, dht[c].nextRead)
           e == -Ahead(now, dht[c].triggeredAt)
           state == dht[c].state
           age == seen.age[c]
           command == seen.command[c]
<1>5. Lag <= MaxLag /\ SensorTimely(c)
  BY <1>3, <1>4 DEF Timely
<1>6. r \in Int /\ q \in Int /\ e \in Int /\ state \in DhtState
  BY <1>5, SensorTypes
<1>7. /\ age \in Nat /\ command \in 0..SampleInterval
      /\ Late(c) \in {0, MaxLag} /\ Lag \in 0..MaxLag
  BY <1>5, SensorTypes
<1>8. SensorIn(state, r, q, e, age, command, Late(c), Lag)
  BY <1>5 DEF SensorTimely
<1>9. now \in Time /\ dht[c].nextTrigger \in Time /\ dht[c].nextRead \in Time
  BY DEF TypeOK, Dht
<1> HIDE DEF r, q, e, state, age, command
<1>10. r \in Near /\ (state = "WaitReady" => q \in Near)
  BY SMTT(30), <1>6, <1>7, <1>8, SensorIsNear
<1>11. CASE state = "Idle"
  <2>1. r <= 0
    BY <1>3, <1>4, <1>9, <1>10, <1>11, ReachedIsPast DEF Due, state, r
  <2>2. command >= SampleInterval - MaxLag
    BY <1>6, <1>7, <1>8, <1>11, <2>1 DEF SensorIn, Rested
  <2>3. QED
    BY <1>11, <2>2 DEF state, command
<1>12. CASE state = "WaitReady"
  <2>1. q <= 0
    BY <1>3, <1>4, <1>9, <1>10, <1>12, ReachedIsPast DEF Due, state, q
  <2>2. command >= ReadyPoll - MaxLag
    BY <1>6, <1>7, <1>8, <1>12, <2>1, Bounds DEF SensorIn, Rested
  <2>3. QED
    BY <1>12, <2>2 DEF state, command
<1>13. QED
  BY <1>11, <1>12 DEF state

-----------------------------------------------------------------------------
(***************************************************************************)
(* The theorems.                                                           *)
(***************************************************************************)
\* The times of the followed channel keep their bounds, across every wrap of the clock.
THEOREM FirmwareTimeliness == Spec => []Timely
<1>1. Init => Timely
  BY InitTimely
<1>2. TypeOK /\ Timely /\ [Next]_vars => Timely'
  BY NextTimely
<1>3. QED
  BY <1>1, <1>2, FirmwareTypes, PTL DEF Spec

\* acquisition.c forgets no channel: whatever fails, a result comes within Patience.
THEOREM FirmwareResults == Spec => []ResultsInTime
<1>1. TypeOK /\ Timely => ResultsInTime
  BY InTime
<1>2. QED
  BY <1>1, FirmwareTypes, FirmwareTimeliness, PTL

\* And it gives the sensor its rest between commands and its time before the read.
THEOREM FirmwareSensorTimes == Spec => SensorGetsItsTimes
<1> DEFINE A == \A c \in Real : dht'[c] # dht[c] =>
                  /\ dht[c].state = "Idle" => seen.command[c] >= SampleInterval - MaxLag
                  /\ dht[c].state = "WaitReady" => seen.command[c] >= ReadyPoll - MaxLag
<1>1. TypeOK /\ Timely /\ [Next]_vars => A
  BY StepRests
<1>2. TypeOK /\ Timely /\ [Next]_vars => [A]_vars
  BY <1>1
<1>3. QED
  BY <1>2, FirmwareTypes, FirmwareTimeliness, PTL DEF Spec, SensorGetsItsTimes
=============================================================================
