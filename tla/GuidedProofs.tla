---------------------------- MODULE GuidedProofs ----------------------------
(***************************************************************************)
(* Proofs about Guided, whose coordinator shares the client with the       *)
(* application and the monitor: the engine's probe is the one the stage    *)
(* waits for or one that is being cancelled, and a case passes only on its *)
(* own evidence, for every number of cases, matches and faults.            *)
(*                                                                         *)
(* The other services are seen only through the calls their slots make of  *)
(* the client (Still, CallsOnce and Commands of AppMonitorProofs).         *)
(***************************************************************************)
EXTENDS Guided, AppMonitorProofs

\* What the client's calls need to know of it.
Books(c) == {"queued", "sent", "cancelling"} \subseteq DOMAIN c

SiteWorld(w) ==
  /\ Hosts(w) /\ DOMAIN w = {"client", "app", "mon", "guided"}
  /\ Books(w.client) /\ DOMAIN w.guided = DOMAIN NoGuidedRun

\* A probe of the engine is under way, and it is the coordinator's or cancelled.
Held(c, g) ==
  g.asked # 0 => g.asked \in Open(c) /\ (g.asked = g.probe \/ g.asked \in c.cancelling)

Probing(c, g) ==
  /\ Held(c, g)
  /\ g.probe # 0 =>
       g.probe = g.asked /\ g.stage \in Observations /\ g.state = "Running"

\* The evidence gathered so far: the count of an observation is the true one, and
\* what comes after the outage was reached with enough timeouts.
Earned(g) == g.outage = Matches /\ g.streak = Matches

Evidence(g) ==
  /\ g.state # "Running" => g.stage = "None"
  /\ g.awaiting => g.stage \in Prompts
  /\ g.stage \in Observations => g.matches = g.streak /\ g.matches \in 0..Matches - 1
  /\ g.stage \in {"PlugIn", "Recovery"} => g.outage = Matches
  /\ g.verdict = "Pass" /\ g.stage = "None" => Earned(g)

Sound(w) == SiteWorld(w) /\ Probing(w.client, w.guided) /\ Evidence(w.guided)

GInv == Sound(Site)

-----------------------------------------------------------------------------
(***************************************************************************)
(* The coordinator's functions.                                            *)
(***************************************************************************)
\* The coordinator's own part of the world is changed.
LEMMA GuidedWith ==
  ASSUME NEW w, SiteWorld(w), NEW g, DOMAIN g = DOMAIN NoGuidedRun,
         NEW v, v = [w EXCEPT !.guided = g]
  PROVE  SiteWorld(v) /\ v.guided = g /\ v.client = w.client
BY DEF SiteWorld, Hosts

\* A run under way, between the end of one stage and the beginning of the next.
Running(w) == SiteWorld(w) /\ Held(w.client, w.guided) /\ w.guided.state = "Running"

\* v has what w had of the run, and no probe that is not cancelled.
Hushed(v, w) ==
  /\ SiteWorld(v) /\ Held(v.client, v.guided) /\ v.guided.probe = 0
  /\ ~v.guided.awaiting
  /\ \A f \in {"state", "left", "stage", "verdict", "matches", "time", "outage", "streak"} :
       v.guided[f] = w.guided[f]

LEMMA StageInvalidated ==
  ASSUME NEW w, SiteWorld(w), Held(w.client, w.guided)
  PROVE  Hushed(InvalidateStage(w), w)
<1> DEFINE g == [[[[w.guided EXCEPT !.deadline = FALSE] EXCEPT !.task = FALSE]
                    EXCEPT !.awaiting = FALSE] EXCEPT !.probe = 0]
           s == [w EXCEPT !.guided = g]
           id == w.guided.probe
           c == [s EXCEPT !.client = CancelCall(s.client, id)]
<1>1. [CancelScheduledTask(w) EXCEPT !.guided.awaiting = FALSE, !.guided.probe = 0] = s
  BY DEF CancelScheduledTask, SiteWorld
<1>2. InvalidateStage(w) =
        IF id # 0 /\ s.guided.asked = id /\ CanCancel(s.client, id) THEN c ELSE s
  BY <1>1 DEF InvalidateStage, CancelProbe
<1>3. /\ DOMAIN g = DOMAIN NoGuidedRun /\ g.probe = 0 /\ ~g.awaiting
      /\ g.asked = w.guided.asked
      /\ \A f \in {"state", "left", "stage", "verdict", "matches", "time", "outage", "streak"} :
           g[f] = w.guided[f]
  BY DEF SiteWorld, NoGuidedRun
<1> HIDE DEF g
<1>4. SiteWorld(s) /\ s.guided = g /\ s.client = w.client
  BY <1>3, GuidedWith
<1> HIDE DEF s
<1>5. ASSUME id = 0 \/ s.guided.asked # id \/ ~CanCancel(s.client, id)
      PROVE  Held(s.client, s.guided)
  BY <1>3, <1>4, <1>5 DEF Held, CanCancel
<1>6. SiteWorld(c) /\ c.guided = g /\ c.client = CancelCall(s.client, id)
  BY <1>4 DEF SiteWorld, Hosts, Books, CancelCall
<1> HIDE DEF c
<1>7. ASSUME s.guided.asked = id
      PROVE  Held(c.client, c.guided)
  <2>1. Open(c.client) = Open(s.client) /\ id \in c.client.cancelling
    BY <1>4, <1>6 DEF CancelCall, Open, SiteWorld, Books
  <2> QED
    BY <1>3, <1>4, <1>6, <1>7, <2>1 DEF Held
<1> QED
  BY <1>2, <1>3, <1>4, <1>5, <1>6, <1>7 DEF Hushed

\* What is left of a run that has ended.
LEMMA RunEnded ==
  ASSUME NEW w, SiteWorld(w), Held(w.client, w.guided), w.guided.probe = 0,
         w.guided.verdict = "Pass" => Earned(w.guided)
  PROVE  Sound(EndGuidedRun(w))
<1> DEFINE g == [NoGuidedRun EXCEPT !.asked = w.guided.asked, !.verdict = w.guided.verdict,
                                    !.outage = w.guided.outage, !.streak = w.guided.streak]
           v == EndGuidedRun(w)
<1>1. v = [w EXCEPT !.guided = g]
  BY DEF EndGuidedRun
<1>2. /\ DOMAIN g = DOMAIN NoGuidedRun /\ g.state = "Idle" /\ g.stage = "None"
      /\ ~g.awaiting /\ g.probe = 0 /\ g.asked = w.guided.asked
      /\ g.verdict = w.guided.verdict /\ g.outage = w.guided.outage
      /\ g.streak = w.guided.streak
  BY DEF NoGuidedRun
<1> HIDE DEF g, v
<1>3. SiteWorld(v) /\ v.guided = g /\ v.client = w.client
  BY <1>1, <1>2, GuidedWith
<1>4. Probing(v.client, g)
  BY <1>2, <1>3 DEF Probing, Held
<1>5. Evidence(g)
  BY <1>2 DEF Evidence, Earned, Prompts, Observations
<1> QED
  BY <1>3, <1>4, <1>5 DEF Sound, v

\* The run gives the line back, and waits for that.
LEMMA TestingReleased ==
  ASSUME NEW w, Running(w), w.guided.stage = "None",
         w.guided.verdict = "Pass" => Earned(w.guided)
  PROVE  Sound(ReleaseTesting(w))
<1> DEFINE q == InvalidateStage(w)
           g == [q.guided EXCEPT !.state = "Releasing"]
           r == [InvalidateStage(w) EXCEPT !.guided.state = "Releasing"]
           v == StopTestingCall(r)
<1>1. ReleaseTesting(w) = IF CanStopTesting(r) THEN v ELSE EndGuidedRun(r)
  BY DEF ReleaseTesting, Running
<1>2. Hushed(q, w)
  BY StageInvalidated DEF Running
<1>3. r = [q EXCEPT !.guided = g]
  BY <1>2 DEF Hushed, SiteWorld
<1> HIDE DEF q
<1>4. /\ DOMAIN g = DOMAIN NoGuidedRun /\ g.state = "Releasing" /\ g.stage = "None"
      /\ ~g.awaiting /\ g.probe = 0 /\ g.asked = q.guided.asked
      /\ g.verdict = w.guided.verdict /\ g.outage = w.guided.outage
      /\ g.streak = w.guided.streak
  BY <1>2 DEF Hushed, SiteWorld, NoGuidedRun, Running
<1> HIDE DEF g, r, v
<1>5. SiteWorld(r) /\ r.guided = g /\ r.client = q.client
  BY <1>2, <1>3, <1>4, GuidedWith DEF Hushed
<1>6. Held(r.client, r.guided)
  BY <1>2, <1>4, <1>5 DEF Held, Hushed
<1>7. g.verdict = "Pass" => Earned(g)
  BY <1>4 DEF Earned
<1>8. Sound(EndGuidedRun(r))
  BY <1>4, <1>5, <1>6, <1>7, RunEnded
<1>9. /\ Beside(v, r)
      /\ v.client = ReleaseCall(r.client, NextOp(r.client), Testing)
  BY <1>5, AskedBeside DEF StopTestingCall, v, SiteWorld
<1>10. SiteWorld(v) /\ v.guided = g
  BY <1>5, <1>9 DEF SiteWorld, Beside, Books, ReleaseCall, MoveCall, Asking
<1>11. Open(v.client) = Open(r.client) /\ v.client.cancelling = r.client.cancelling
  BY <1>9 DEF ReleaseCall, MoveCall, Asking, Open
<1>12. Probing(v.client, g)
  BY <1>4, <1>5, <1>6, <1>11 DEF Probing, Held
<1>13. Evidence(g)
  BY <1>4, <1>7 DEF Evidence, Prompts, Observations
<1> QED
  BY <1>1, <1>8, <1>10, <1>12, <1>13 DEF Sound

\* A stage is entered with what the one before has earned.
LEMMA StageEntered ==
  ASSUME NEW w, Running(w), NEW stage \in Prompts \cup Observations,
         stage = "PlugIn" => w.guided.streak = Matches,
         stage = "Recovery" => w.guided.outage = Matches
  PROVE  LET v == EnterStage(w, stage)
         IN /\ Sound(v) /\ Running(v) /\ v.guided.probe = 0 /\ v.guided.stage = stage
            /\ v.guided.time = "ample"
<1> DEFINE q == InvalidateStage(w)
           outage == CASE stage = "PlugIn" -> w.guided.streak
                       [] stage = "Recovery" -> q.guided.outage [] OTHER -> 0
           streak == IF stage \in Observations THEN 0 ELSE q.guided.streak
           prompted == stage \in Prompts
           g == [[[[[[[q.guided EXCEPT !.stage = stage] EXCEPT !.awaiting = prompted]
                   EXCEPT !.matches = 0] EXCEPT !.deadline = TRUE] EXCEPT !.time = "ample"]
                   EXCEPT !.outage = outage] EXCEPT !.streak = streak]
           v == EnterStage(w, stage)
<1>1. Hushed(q, w)
  BY StageInvalidated DEF Running
<1>2. v = [q EXCEPT !.guided = g]
  BY ZenonT(60), <1>1 DEF EnterStage, Hushed, SiteWorld, NoGuidedRun
<1> HIDE DEF q
<1>3. prompted \in BOOLEAN
  OBVIOUS
<1> HIDE DEF prompted, outage, streak
<1>4. /\ DOMAIN g = DOMAIN NoGuidedRun /\ g.state = "Running" /\ g.stage = stage
      /\ g.awaiting = prompted /\ g.probe = 0 /\ g.asked = q.guided.asked
      /\ g.matches = 0 /\ g.time = "ample" /\ g.outage = outage /\ g.streak = streak
  BY <1>1, <1>3 DEF Hushed, SiteWorld, NoGuidedRun, Running
<1> HIDE DEF g, v
<1>5. SiteWorld(v) /\ v.guided = g /\ v.client = q.client
  BY <1>1, <1>2, <1>4, GuidedWith DEF Hushed
<1>6. Held(v.client, g)
  BY <1>1, <1>4, <1>5 DEF Held, Hushed
<1>7. Probing(v.client, g)
  BY <1>4, <1>6 DEF Probing
<1>8. stage \in Observations => g.matches = g.streak /\ g.matches \in 0..Matches - 1
  BY <1>4, GuidedAssumption DEF streak
<1>9. stage \in {"PlugIn", "Recovery"} => g.outage = Matches
  BY <1>1, <1>4 DEF outage, Hushed
<1>10. Evidence(g)
  BY <1>4, <1>8, <1>9 DEF Evidence, Prompts, Observations, prompted
<1> QED
  BY <1>4, <1>5, <1>6, <1>7, <1>10 DEF Sound, Running, v

LEMMA CaseBegun ==
  ASSUME NEW w, Running(w), w.guided.stage = "None",
         w.guided.verdict = "Pass" => Earned(w.guided)
  PROVE  Sound(NextCase(w))
<1> DEFINE g == [w.guided EXCEPT !.left = @ - 1]
           u == [w EXCEPT !.guided.left = @ - 1]
<1>1. u = [w EXCEPT !.guided = g]
  BY DEF Running, SiteWorld
<1>2. DOMAIN g = DOMAIN NoGuidedRun
  BY DEF Running, SiteWorld
<1>3. /\ g.state = w.guided.state /\ g.asked = w.guided.asked
      /\ g.probe = w.guided.probe
  OBVIOUS
<1> HIDE DEF g, u
<1>4. Running(u)
  BY <1>1, <1>2, <1>3, GuidedWith DEF Running, Held
<1>5. Sound(EnterStage(u, "Unplug"))
  BY <1>4, StageEntered DEF Prompts
<1> QED
  BY <1>5, TestingReleased DEF NextCase, u

\* The case at hand has its verdict.
LEMMA CaseFinished ==
  ASSUME NEW w, Running(w)
  PROVE  /\ Sound(FinishCase(w, FALSE))
         /\ Earned(w.guided) => Sound(FinishCase(w, TRUE))
<1> SUFFICES ASSUME NEW pass \in BOOLEAN, pass => Earned(w.guided)
             PROVE  Sound(FinishCase(w, pass))
  OBVIOUS
<1> DEFINE q == InvalidateStage(w)
           verdict == IF pass THEN "Pass" ELSE "NotPass"
           g == [[q.guided EXCEPT !.stage = "None"] EXCEPT !.verdict = verdict]
           done == [InvalidateStage(w) EXCEPT !.guided.stage = "None",
                                              !.guided.verdict = IF pass THEN "Pass"
                                                                 ELSE "NotPass"]
           over == [done EXCEPT !.guided.left = 0]
<1>1. FinishCase(w, pass) = IF pass THEN NextCase(done) ELSE ReleaseTesting(over)
  BY DEF FinishCase, Running
<1>2. Hushed(q, w)
  BY StageInvalidated DEF Running
<1>3. done = [q EXCEPT !.guided = g]
  BY <1>2 DEF Hushed, SiteWorld
<1> HIDE DEF q, done
<1>4. verdict = "Pass" => pass
  OBVIOUS
<1> HIDE DEF verdict
<1>5. /\ DOMAIN g = DOMAIN NoGuidedRun /\ g.state = "Running" /\ g.stage = "None"
      /\ g.probe = 0 /\ g.asked = q.guided.asked /\ g.verdict = verdict
      /\ g.outage = w.guided.outage /\ g.streak = w.guided.streak
  BY <1>2 DEF Hushed, SiteWorld, NoGuidedRun, Running
<1>6. g.verdict = "Pass" => Earned(g)
  BY <1>4, <1>5 DEF Earned
<1> HIDE DEF g
<1>7. SiteWorld(done) /\ done.guided = g /\ done.client = q.client
  BY <1>2, <1>3, <1>5, GuidedWith DEF Hushed
<1>8. Held(done.client, g)
  BY <1>2, <1>5, <1>7 DEF Held, Hushed
<1>9. Sound(NextCase(done))
  BY <1>5, <1>6, <1>7, <1>8, CaseBegun DEF Running
<1>10. Sound(ReleaseTesting(over))
  <2> DEFINE h == [g EXCEPT !.left = 0]
  <2>1. over = [done EXCEPT !.guided = h]
    BY <1>7 DEF SiteWorld
  <2>2. /\ DOMAIN h = DOMAIN NoGuidedRun /\ h.state = "Running" /\ h.stage = "None"
        /\ h.asked = g.asked /\ h.probe = g.probe
        /\ h.verdict = g.verdict /\ Earned(h) = Earned(g)
    BY <1>5 DEF Earned
  <2> HIDE DEF h, over
  <2>3. SiteWorld(over) /\ over.guided = h /\ over.client = done.client
    BY <1>7, <2>1, <2>2, GuidedWith
  <2>4. Running(over)
    BY <1>8, <2>2, <2>3 DEF Running, Held
  <2> QED
    BY <1>6, <2>2, <2>3, <2>4, TestingReleased
<1> QED
  BY <1>1, <1>9, <1>10

\* An observation is over: the outage leads to the next prompt, the recovery to a
\* verdict.
LEMMA ObservationFinished ==
  ASSUME NEW w, Running(w)
  PROVE  /\ Sound(FinishObservation(w, FALSE))
         /\ /\ w.guided.streak = Matches /\ w.guided.stage \in Observations
            /\ w.guided.stage = "Recovery" => w.guided.outage = Matches
            => Sound(FinishObservation(w, TRUE))
<1> DEFINE q == InvalidateStage(w)
<1>1. Hushed(q, w)
  BY StageInvalidated DEF Running
<1>2. /\ FinishObservation(w, FALSE) = FinishCase(q, FALSE)
      /\ FinishObservation(w, TRUE) =
           IF w.guided.stage = "Outage" THEN EnterStage(q, "PlugIn") ELSE FinishCase(q, TRUE)
  BY DEF FinishObservation
<1> HIDE DEF q
<1>3. Running(q) /\ q.guided.streak = w.guided.streak /\ q.guided.outage = w.guided.outage
  BY <1>1 DEF Hushed, Running
<1>4. Sound(FinishCase(q, FALSE))
  BY <1>3, CaseFinished
<1>5. ASSUME w.guided.streak = Matches, w.guided.stage \in Observations,
             w.guided.stage = "Recovery" => w.guided.outage = Matches
      PROVE  Sound(FinishObservation(w, TRUE))
  <2>1. Sound(EnterStage(q, "PlugIn"))
    BY <1>3, <1>5, StageEntered DEF Prompts
  <2>2. w.guided.stage # "Outage" => Sound(FinishCase(q, TRUE))
    BY <1>3, <1>5, CaseFinished DEF Observations, Earned
  <2> QED
    BY <1>2, <2>1, <2>2
<1> QED
  BY <1>2, <1>4, <1>5

\* A probe is submitted in an observation that has none, or the observation ends.
LEMMA ProbeSubmitted ==
  ASSUME NEW w, Sound(w), w.guided.state = "Running"
  PROVE  Sound(SubmitProbe(w))
<1> DEFINE id == NextId(w.client)
           d == SubmitCall(w.client, id)
           g == [[w.guided EXCEPT !.probe = id] EXCEPT !.asked = id]
           v == [w EXCEPT !.client = SubmitCall(w.client, id),
                          !.guided.probe = id, !.guided.asked = id]
<1>1. SubmitProbe(w) =
        IF w.guided.stage \notin Observations \/ w.guided.probe # 0 THEN w
        ELSE IF w.guided.time = "none" \/ ~CanProbe(w) THEN FinishObservation(w, FALSE)
        ELSE v
  BY DEF SubmitProbe
<1>2. Running(w)
  BY DEF Sound, Probing, Running
<1>3. v = [[w EXCEPT !.client = d] EXCEPT !.guided = g]
  BY <1>2 DEF Running, SiteWorld
<1>4. /\ DOMAIN g = DOMAIN NoGuidedRun /\ g.probe = id /\ g.asked = id
      /\ g.state = "Running" /\ g.stage = w.guided.stage
      /\ Evidence(w.guided) => Evidence(g)
  BY <1>2 DEF Running, SiteWorld, NoGuidedRun, Evidence, Earned
<1>5. id \in Open(d) /\ Books(d)
  BY <1>2 DEF SubmitCall, Open, Books, Running, SiteWorld
<1> HIDE DEF id, d, g, v
<1>6. SiteWorld(v) /\ v.client = d /\ v.guided = g
  BY <1>2, <1>3, <1>4, <1>5 DEF Running, SiteWorld, Hosts
<1>7. w.guided.stage \in Observations => Probing(v.client, g)
  BY <1>4, <1>5, <1>6 DEF Probing, Held
<1>8. w.guided.stage \in Observations => Sound(v)
  BY <1>4, <1>6, <1>7 DEF Sound
<1>9. Sound(FinishObservation(w, FALSE))
  BY <1>2, ObservationFinished
<1> QED
  BY <1>1, <1>8, <1>9

LEMMA ObservationBegun ==
  ASSUME NEW w, Running(w), NEW stage \in Observations,
         stage = "Recovery" => w.guided.outage = Matches
  PROVE  Sound(BeginObservation(w, stage))
<1>1. Sound(EnterStage(w, stage)) /\ EnterStage(w, stage).guided.state = "Running"
  BY StageEntered DEF Observations, Running
<1> QED
  BY <1>1, ProbeSubmitted DEF BeginObservation

LEMMA ProbeScheduled ==
  ASSUME NEW w, Sound(w)
  PROVE  Sound(ScheduleNextProbe(w))
<1> DEFINE g == [w.guided EXCEPT !.task = TRUE]
           v == [w EXCEPT !.guided.task = TRUE]
<1>1. v = [w EXCEPT !.guided = g]
  BY DEF Sound, SiteWorld
<1>2. /\ DOMAIN g = DOMAIN NoGuidedRun
      /\ g.probe = w.guided.probe /\ g.asked = w.guided.asked
      /\ g.state = w.guided.state /\ g.stage = w.guided.stage
      /\ Evidence(w.guided) => Evidence(g)
  BY DEF Sound, SiteWorld, NoGuidedRun, Evidence, Earned
<1> HIDE DEF g, v
<1>3. SiteWorld(v) /\ v.guided = g /\ v.client = w.client
  BY <1>1, <1>2, GuidedWith DEF Sound
<1>4. Sound(v)
  BY <1>2, <1>3 DEF Sound, Probing, Held
<1> QED
  BY <1>4 DEF ScheduleNextProbe, v

\* The stage has heard of its probe: the answers in a row are one more than it has
\* counted, or none.
Heard(w, matching) ==
  /\ Running(w) /\ w.guided.stage \in Observations /\ w.guided.probe = 0
  /\ w.guided.awaiting => w.guided.stage \in Prompts
  /\ w.guided.matches \in 0..Matches - 1
  /\ w.guided.stage = "Recovery" => w.guided.outage = Matches
  /\ w.guided.streak = IF matching THEN w.guided.matches + 1 ELSE 0

LEMMA OutcomeCounted ==
  ASSUME NEW w, NEW outcome, Heard(w, outcome \in Matching(w.guided.stage))
  PROVE  Sound(CountOutcome(w, outcome))
<1> DEFINE matching == outcome \in Matching(w.guided.stage)
           more == [w EXCEPT !.guided.matches = @ + 1]
           none == [w EXCEPT !.guided.matches = 0]
<1>1. CountOutcome(w, outcome) =
        IF matching
          THEN IF w.guided.matches + 1 >= Matches THEN FinishObservation(w, TRUE)
               ELSE ScheduleNextProbe(more)
          ELSE ScheduleNextProbe(none)
  BY DEF CountOutcome
<1>2. ASSUME NEW n \in 0..Matches - 1, n = w.guided.streak
      PROVE  Sound([w EXCEPT !.guided.matches = n])
  <2> DEFINE g == [w.guided EXCEPT !.matches = n]
             v == [w EXCEPT !.guided.matches = n]
  <2>1. SiteWorld(w) /\ w.guided.stage \notin {"None", "PlugIn"}
    BY DEF Heard, Running, Observations
  <2>2. v = [w EXCEPT !.guided = g]
    BY <2>1 DEF SiteWorld
  <2>3. /\ DOMAIN g = DOMAIN NoGuidedRun /\ g.matches = n
        /\ g.probe = w.guided.probe /\ g.asked = w.guided.asked
        /\ g.state = w.guided.state /\ g.stage = w.guided.stage
        /\ g.awaiting = w.guided.awaiting /\ g.streak = w.guided.streak
        /\ g.outage = w.guided.outage
    BY <2>1 DEF SiteWorld, NoGuidedRun
  <2> HIDE DEF g, v
  <2>4. SiteWorld(v) /\ v.guided = g /\ v.client = w.client
    BY <2>1, <2>2, <2>3, GuidedWith
  <2>5. Probing(v.client, g)
    BY <2>3, <2>4 DEF Heard, Running, Probing, Held
  <2>6. Evidence(g)
    BY <1>2, <2>1, <2>3 DEF Heard, Running, Evidence
  <2> QED
    BY <2>4, <2>5, <2>6 DEF Sound, v
<1>3. ASSUME matching, w.guided.matches + 1 >= Matches
      PROVE  Sound(FinishObservation(w, TRUE))
  <2>1. w.guided.streak = Matches
    BY <1>3, GuidedAssumption DEF Heard
  <2> QED
    BY <2>1, ObservationFinished DEF Heard
<1>4. ASSUME matching, ~(w.guided.matches + 1 >= Matches)
      PROVE  Sound(ScheduleNextProbe(more))
  <2>1. w.guided.matches + 1 \in 0..Matches - 1 /\ w.guided.matches + 1 = w.guided.streak
    BY <1>4, GuidedAssumption DEF Heard
  <2> DEFINE n == w.guided.matches + 1
  <2>2. more = [w EXCEPT !.guided.matches = n]
    OBVIOUS
  <2> HIDE DEF n, more
  <2>3. Sound([w EXCEPT !.guided.matches = n])
    BY <1>2, <2>1 DEF n
  <2> QED
    BY <2>2, <2>3, ProbeScheduled
<1>5. ASSUME ~matching
      PROVE  Sound(ScheduleNextProbe(none))
  <2>1. 0 \in 0..Matches - 1 /\ 0 = w.guided.streak
    BY <1>5, GuidedAssumption DEF Heard
  <2>2. Sound(none)
    BY <1>2, <2>1
  <2> HIDE DEF none
  <2> QED
    BY <2>2, ProbeScheduled
<1> HIDE DEF matching, more, none
<1> QED
  BY <1>1, <1>3, <1>4, <1>5

-----------------------------------------------------------------------------
(***************************************************************************)
(* The steps of the coordinator and of its probe.                          *)
(***************************************************************************)
LEMMA SiteIs ==
  ASSUME NEW v, Sound(v), SiteBecomes(v)
  PROVE  GInv'
BY DEF Sound, SiteWorld, Hosts, SiteBecomes, Become, GInv, Site

LEMMA SiteFields ==
  /\ Site.client = client /\ Site.app = app /\ Site.mon = mon /\ Site.guided = guided
BY DEF Site

LEMMA RunGuidedSuiteKeeps ==
  ASSUME GInv, RunGuidedSuite
  PROVE  GInv'
<1> DEFINE g == [NoGuidedRun EXCEPT !.state = "Running", !.left = Cases]
           w == [Site EXCEPT !.guided = g]
<1>1. SiteBecomes(NextCase(w))
  BY DEF RunGuidedSuite
<1>2. /\ DOMAIN g = DOMAIN NoGuidedRun /\ g.state = "Running" /\ g.stage = "None"
      /\ g.asked = 0 /\ g.verdict = "None"
  BY DEF NoGuidedRun
<1> HIDE DEF g
<1>3. SiteWorld(w) /\ w.guided = g
  BY <1>2, GuidedWith DEF GInv, Sound
<1> HIDE DEF w
<1>4. Sound(NextCase(w))
  BY <1>2, <1>3, CaseBegun DEF Running, Held
<1> QED
  BY <1>1, <1>4, SiteIs

\* The action consumes its token, and nothing else changes.
LEMMA ActingIs ==
  ASSUME GInv, guided.state = "Running"
  PROVE  /\ Running(Acting) /\ Acting.guided.stage = guided.stage
         /\ Acting.guided.outage = guided.outage
<1> DEFINE g == [[[guided EXCEPT !.deadline = FALSE] EXCEPT !.task = FALSE]
                   EXCEPT !.awaiting = FALSE]
<1>1. SiteWorld(Site) /\ Held(client, guided)
  BY SiteFields DEF GInv, Sound, Probing
<1>2. Acting = [Site EXCEPT !.guided = g]
  BY <1>1, SiteFields DEF Acting, CancelScheduledTask, SiteWorld
<1>3. /\ DOMAIN g = DOMAIN NoGuidedRun /\ g.state = guided.state /\ g.stage = guided.stage
      /\ g.outage = guided.outage /\ g.asked = guided.asked /\ g.probe = guided.probe
  BY <1>1, SiteFields DEF SiteWorld, NoGuidedRun
<1> HIDE DEF g
<1>4. SiteWorld(Acting) /\ Acting.guided = g /\ Acting.client = client
  BY <1>1, <1>2, <1>3, SiteFields, GuidedWith
<1> QED
  BY <1>1, <1>3, <1>4 DEF Running, Held

LEMMA ActionsKeep ==
  ASSUME GInv, Confirm \/ CancelAction \/ AbortGuided
  PROVE  GInv'
<1> DEFINE stage == IF guided.stage = "Unplug" THEN "Outage" ELSE "Recovery"
<1>1. guided.state = "Running" /\ Running(Site) /\ Evidence(guided)
  BY SiteFields DEF Confirm, CancelAction, AbortGuided, GInv, Sound, Probing, Running
<1>2. Sound(FinishCase(Acting, FALSE)) /\ Sound(FinishCase(Site, FALSE))
  BY <1>1, ActingIs, CaseFinished
<1>3. guided.awaiting => Sound(BeginObservation(Acting, stage))
  <2>1. guided.awaiting => (stage = "Recovery" => Acting.guided.outage = Matches)
    BY <1>1, ActingIs DEF Evidence, Prompts
  <2>2. stage \in Observations
    BY DEF Observations
  <2> HIDE DEF stage
  <2> QED
    BY <1>1, <2>1, <2>2, ActingIs, ObservationBegun
<1>4. \/ SiteBecomes(FinishCase(Acting, FALSE)) \/ SiteBecomes(FinishCase(Site, FALSE))
      \/ guided.awaiting /\ SiteBecomes(BeginObservation(Acting, stage))
  BY DEF Confirm, CancelAction, AbortGuided
<1> HIDE DEF stage
<1> QED
  BY <1>2, <1>3, <1>4, SiteIs

LEMMA TimePassesKeeps ==
  ASSUME GInv, TimePasses
  PROVE  GInv'
<1> DEFINE time == IF guided.time = "ample" THEN "short" ELSE "none"
           g == [guided EXCEPT !.time = time]
           v == [Site EXCEPT !.guided = g]
<1>1. guided' = g /\ UNCHANGED <<client, app, mon>>
  BY DEF TimePasses, appVars
<1>2. SiteWorld(Site) /\ Probing(client, guided) /\ Evidence(guided)
  BY SiteFields DEF GInv, Sound
<1>3. /\ DOMAIN g = DOMAIN NoGuidedRun /\ Probing(client, g) /\ Evidence(g)
  BY <1>2, SiteFields DEF SiteWorld, NoGuidedRun, Probing, Held, Evidence, Earned
<1> HIDE DEF g
<1>4. SiteWorld(v) /\ v.guided = g /\ v.client = client
  BY <1>2, <1>3, SiteFields, GuidedWith
<1>5. SiteBecomes(v)
  BY <1>1, <1>4, SiteFields DEF SiteBecomes, Become
<1> QED
  BY <1>3, <1>4, <1>5, SiteIs DEF Sound

LEMMA DeadlineExpiresKeeps ==
  ASSUME GInv, DeadlineExpires
  PROVE  GInv'
<1> DEFINE g == [guided EXCEPT !.deadline = FALSE]
           w == [Site EXCEPT !.guided.deadline = FALSE]
<1>1. SiteWorld(Site) /\ Held(client, guided)
  BY SiteFields DEF GInv, Sound, Probing
<1>2. /\ guided.state = "Running"
      /\ SiteBecomes(FinishCase(w, FALSE)) \/ SiteBecomes(FinishObservation(w, FALSE))
  BY DEF DeadlineExpires
<1>3. w = [Site EXCEPT !.guided = g]
  BY <1>1, SiteFields DEF SiteWorld
<1>4. /\ DOMAIN g = DOMAIN NoGuidedRun /\ g.state = guided.state
      /\ g.asked = guided.asked /\ g.probe = guided.probe
  BY <1>1, SiteFields DEF SiteWorld, NoGuidedRun
<1> HIDE DEF g, w
<1>5. SiteWorld(w) /\ w.guided = g /\ w.client = client
  BY <1>1, <1>3, <1>4, SiteFields, GuidedWith
<1>6. Running(w)
  BY <1>1, <1>2, <1>4, <1>5 DEF Running, Held
<1> QED
  BY <1>2, <1>6, CaseFinished, ObservationFinished, SiteIs

LEMMA NextProbeDueKeeps ==
  ASSUME GInv, NextProbeDue
  PROVE  GInv'
<1> DEFINE g == [guided EXCEPT !.task = FALSE]
           w == [Site EXCEPT !.guided.task = FALSE]
<1>1. SiteWorld(Site) /\ Probing(client, guided) /\ Evidence(guided)
  BY SiteFields DEF GInv, Sound
<1>2. guided.state = "Running" /\ SiteBecomes(SubmitProbe(w))
  BY DEF NextProbeDue
<1>3. w = [Site EXCEPT !.guided = g]
  BY <1>1, SiteFields DEF SiteWorld
<1>4. /\ DOMAIN g = DOMAIN NoGuidedRun /\ Probing(client, g) /\ Evidence(g)
      /\ g.state = "Running"
  BY <1>1, <1>2, SiteFields DEF SiteWorld, NoGuidedRun, Probing, Held, Evidence, Earned
<1> HIDE DEF g, w
<1>5. SiteWorld(w) /\ w.guided = g /\ w.client = client
  BY <1>1, <1>3, <1>4, SiteFields, GuidedWith
<1>6. Sound(w)
  BY <1>4, <1>5 DEF Sound
<1> QED
  BY <1>2, <1>4, <1>5, <1>6, ProbeSubmitted, SiteIs

LEMMA ProbeCompletesKeeps ==
  ASSUME GInv, NEW id \in Ids, NEW outcome \in ProbeOutcome, ProbeCompletes(id, outcome)
  PROVE  GInv'
<1> DEFINE current == id = guided.probe /\ guided.state = "Running"
           matching == outcome \in Matching(guided.stage)
           streak == IF ~current THEN guided.streak ELSE IF ~matching THEN 0
                     ELSE IF guided.streak < Matches THEN guided.streak + 1
                     ELSE guided.streak
           c == Completed(client, id)
           g == [[guided EXCEPT !.asked = 0] EXCEPT !.streak = streak]
           done == [Site EXCEPT
                      !.client = Completed(client, id), !.guided.asked = 0,
                      !.guided.streak = IF ~current THEN @ ELSE IF ~matching THEN 0
                                        ELSE IF @ < Matches THEN @ + 1 ELSE @]
           h == [g EXCEPT !.probe = 0]
           heard == [done EXCEPT !.guided.probe = 0]
           v == HandleProbeCompleted(done, id, outcome)
<1>1. SiteWorld(Site) /\ Probing(client, guided) /\ Evidence(guided)
  BY SiteFields DEF GInv, Sound
<1>2. id = guided.asked /\ id # 0 /\ SiteBecomes(v)
  BY AppAssumption DEF ProbeCompletes
<1>3. done = [[Site EXCEPT !.client = c] EXCEPT !.guided = g]
  BY <1>1, SiteFields DEF SiteWorld
<1>4. v = IF done.guided.state # "Running" \/ done.guided.probe # id THEN done
          ELSE IF outcome \in {"Fatal", "Cancelled"} THEN FinishObservation(heard, FALSE)
          ELSE CountOutcome(heard, outcome)
  BY DEF HandleProbeCompleted
<1>5. Books(c)
  BY <1>1, SiteFields DEF SiteWorld, Books, Completed
<1> HIDE DEF c, v, done, streak
<1>6. /\ DOMAIN g = DOMAIN NoGuidedRun /\ g.asked = 0 /\ g.streak = streak
      /\ \A f \in {"probe", "state", "stage", "matches", "outage", "awaiting", "verdict"} :
           g[f] = guided[f]
  BY <1>1, SiteFields DEF SiteWorld, NoGuidedRun
<1>7. SiteWorld(done) /\ done.guided = g /\ done.client = c
  <2> HIDE DEF g
  <2> QED
    BY <1>1, <1>3, <1>5, <1>6 DEF SiteWorld, Hosts
<1>8. CASE ~current
  <2>1. guided.probe = 0
    BY <1>1, <1>2, <1>8 DEF Probing
  <2>2. streak = guided.streak
    BY <1>8 DEF streak
  <2> HIDE DEF g
  <2>3. Probing(c, g) /\ Evidence(g)
    BY <1>1, <1>6, <2>1, <2>2 DEF Probing, Held, Evidence, Earned
  <2>4. Sound(done)
    BY <1>7, <2>3 DEF Sound
  <2>5. v = done
    BY <1>4, <1>6, <1>7, <1>8
  <2> QED
    BY <1>2, <2>4, <2>5, SiteIs
<1>9. CASE current
  <2>1. guided.stage \in Observations /\ guided.state = "Running" /\ guided.probe = id
    BY <1>1, <1>2, <1>9 DEF Probing
  <2>2. guided.matches = guided.streak /\ guided.matches \in 0..Matches - 1
    BY <1>1, <2>1 DEF Evidence
  <2>3. streak = IF matching THEN guided.matches + 1 ELSE 0
    BY <1>9, <2>2, GuidedAssumption DEF streak
  <2> HIDE DEF g
  <2>4. heard = [done EXCEPT !.guided = h]
    BY <1>7 DEF SiteWorld
  <2>5. /\ DOMAIN h = DOMAIN NoGuidedRun /\ h.probe = 0 /\ h.asked = 0 /\ h.streak = streak
        /\ \A f \in {"state", "stage", "matches", "outage", "awaiting", "verdict"} :
             h[f] = guided[f]
    BY <1>6 DEF NoGuidedRun
  <2> HIDE DEF h, heard
  <2>6. SiteWorld(heard) /\ heard.guided = h
    BY <1>7, <2>4, <2>5, GuidedWith
  <2>7. Running(heard)
    BY <2>1, <2>5, <2>6 DEF Running, Held
  <2>8. /\ h.stage = guided.stage /\ h.awaiting = guided.awaiting
        /\ h.matches = guided.matches /\ h.outage = guided.outage
    BY <2>5
  <2>9. Heard(heard, outcome \in Matching(heard.guided.stage))
    BY <1>1, <2>1, <2>2, <2>3, <2>5, <2>6, <2>7, <2>8 DEF Heard, Evidence
  <2>10. Sound(FinishObservation(heard, FALSE)) /\ Sound(CountOutcome(heard, outcome))
    BY <2>7, <2>9, ObservationFinished, OutcomeCounted
  <2>11. v \in {FinishObservation(heard, FALSE), CountOutcome(heard, outcome)}
    BY <1>4, <1>6, <1>7, <2>1
  <2> QED
    BY <1>2, <2>10, <2>11, SiteIs
<1> QED
  BY <1>8, <1>9

-----------------------------------------------------------------------------
(***************************************************************************)
(* The steps of the others.                                                *)
(***************************************************************************)
\* The run, and what the client knows of the engine's probe, are left alone.
KeptUp(d, c, g) ==
  /\ Books(d)
  /\ g.asked \in Open(c) => g.asked \in Open(d)
  /\ g.asked \in c.cancelling => g.asked \in d.cancelling

Kept(v, w) ==
  SiteWorld(v) /\ v.guided = w.guided /\ KeptUp(v.client, w.client, w.guided)

LEMMA KeptSound ==
  ASSUME NEW w, Sound(w), NEW v, Kept(v, w)
  PROVE  Sound(v)
BY DEF Sound, Kept, KeptUp, Probing, Held

LEMMA CallsKeep ==
  ASSUME NEW c, Books(c), NEW d, NEW g,
         \/ d = c
         \/ \E op, kind, o : d = MoveCall(c, op, kind, o)
         \/ \E op : d = CloseCall(c, op) \/ d = OpenCall(c, op)
         \/ \E id : d = SubmitCall(c, id) \/ d = CancelCall(c, id)
  PROVE  KeptUp(d, c, g)
<1>1. CASE d = c
  BY <1>1 DEF KeptUp
<1>2. CASE \E op, kind, o : d = MoveCall(c, op, kind, o)
  BY <1>2 DEF KeptUp, Books, MoveCall, Asking, Open
<1>3. CASE \E op : d = CloseCall(c, op) \/ d = OpenCall(c, op)
  BY <1>3 DEF KeptUp, Books, CloseCall, OpenCall, Asking, Open
<1>4. CASE \E id : d = SubmitCall(c, id) \/ d = CancelCall(c, id)
  BY <1>4 DEF KeptUp, Books, SubmitCall, CancelCall, Open
<1> QED
  BY <1>1, <1>2, <1>3, <1>4

LEMMA BesideKept ==
  ASSUME NEW w, SiteWorld(w), NEW v, Beside(v, w), KeptUp(v.client, w.client, w.guided)
  PROVE  Kept(v, w)
BY DEF SiteWorld, Beside, Kept, KeptUp

LEMMA StillKept ==
  ASSUME NEW w, SiteWorld(w), NEW v, Still(v, w)
  PROVE  Kept(v, w)
<1>1. KeptUp(v.client, w.client, w.guided)
  BY CallsKeep DEF Still, SiteWorld
<1> QED
  BY <1>1, BesideKept DEF Still

LEMMA AnyCallKept ==
  ASSUME NEW w, SiteWorld(w), NEW v,
         CallsOnce(v, w) \/ Closes(v, w) \/ Commands(v, w) \/ Ends(v, w)
  PROVE  Kept(v, w)
<1> DEFINE c == w.client
           d == v.client
           op == NextOp(c)
<1>1. Beside(v, w)
  BY DEF CallsOnce, Closes, Commands, Ends, Still, Releases, Submits, Revokes
<1>2. \/ d = c
      \/ \E kind, o : d = MoveCall(c, op, kind, o)
      \/ d = CloseCall(c, op) \/ d = OpenCall(c, op)
      \/ \E id : d = SubmitCall(c, id) \/ d = CancelCall(c, id)
  BY DEF CallsOnce, Closes, Commands, Ends, Still, Releases, Submits, Revokes,
         ReleaseCall, AcquireCall
<1> HIDE DEF op
<1>3. KeptUp(d, c, w.guided)
  BY <1>2, CallsKeep DEF SiteWorld
<1> QED
  BY <1>1, <1>3, BesideKept

LEMMA OthersKeepSite ==
  ASSUME GInv, NEW v, Become(v), UNCHANGED guided,
         Still(v, World) \/ Releases(v, World) \/ Submits(v, World) \/ Revokes(v, World)
           \/ Commands(v, World)
  PROVE  GInv'
<1> DEFINE u == [client |-> v.client, app |-> v.app, mon |-> v.mon, guided |-> guided]
           w == Site
<1>1. /\ u.client = v.client /\ u.app = v.app /\ u.mon = v.mon /\ u.guided = guided
      /\ DOMAIN u = DOMAIN w
  BY DEF Site
<1>2. Shows(w, World) /\ Shows(u, v)
  BY DEF Shows, World, Site
<1>3. SiteBecomes(u)
  BY <1>1 DEF SiteBecomes, Become
<1>4. /\ SiteWorld(w) /\ Hosts(w) /\ w.guided = guided
      /\ \A f \in DOMAIN w \ {"client", "app", "mon"} : u[f] = w[f]
  BY <1>1, SiteFields DEF GInv, Sound, SiteWorld
<1> HIDE DEF u, w
<1>5. Still(u, w) \/ Releases(u, w) \/ Submits(u, w) \/ Revokes(u, w) \/ Commands(u, w)
  BY <1>1, <1>2, <1>4, ShownElsewhere
<1>6. Kept(u, w)
  BY <1>4, <1>5, AnyCallKept DEF CallsOnce
<1> QED
  BY <1>3, <1>6, KeptSound, SiteIs DEF GInv, w

LEMMA SiteHosts ==
  ASSUME GInv
  PROVE  Hosts(World)
BY SiteFields DEF GInv, Sound, SiteWorld, Hosts, World

LEMMA SiteCommandKeeps ==
  ASSUME GInv, SiteCommand
  PROVE  GInv'
<1>1. UserCommand /\ UNCHANGED guided
  BY DEF SiteCommand, UserCommand
<1>2. PICK v : Become(v) /\ UserCalls(v, World)
  BY <1>1, SiteHosts, UserCommandCalls
<1> QED
  BY <1>1, <1>2, OthersKeepSite DEF UserCalls

LEMMA SiteMonitorTaskKeeps ==
  ASSUME GInv, MonitorTask, UNCHANGED guided
  PROVE  GInv'
<1>1. Become(BeginBatch(World))
  BY DEF MonitorTask
<1>2. Still(BeginBatch(World), World) \/ Submits(BeginBatch(World), World)
  BY SiteHosts, BeginBatchCalls
<1> QED
  BY <1>1, <1>2, OthersKeepSite

\* The client tells of something, and the slots of the application and the monitor run.
LEMMA SignalKept ==
  ASSUME GInv, NEW d, KeptUp(d, client, guided)
  PROVE  LET w == [Site EXCEPT !.client = d]
         IN Sound(w) /\ SiteWorld(w) /\ Hosts(w)
<1> DEFINE w == [Site EXCEPT !.client = d]
<1>1. SiteWorld(Site) /\ Books(d)
  BY DEF GInv, Sound, KeptUp
<1>2. SiteWorld(w) /\ w.guided = guided /\ w.client = d
  BY <1>1, SiteFields DEF SiteWorld, Hosts
<1> HIDE DEF w
<1>3. Kept(w, Site)
  BY <1>2, SiteFields DEF Kept
<1>4. Sound(w) /\ SiteWorld(w) /\ Hosts(w)
  BY <1>2, <1>3, KeptSound DEF GInv, SiteWorld
<1> QED
  BY <1>4 DEF w

LEMMA CommandEndSound ==
  ASSUME NEW before, NEW w, Sound(w)
  PROVE  Sound(GuidedCommandCompleted(before, w))
<1>1. ASSUME w.guided.state = "Releasing"
      PROVE  Sound(EndGuidedRun(w))
  <2>1. /\ SiteWorld(w) /\ Held(w.client, w.guided)
        /\ w.guided.verdict = "Pass" => Earned(w.guided)
    BY <1>1 DEF Sound, Probing, Evidence
  <2>2. w.guided.probe = 0
    BY <1>1 DEF Sound, Probing
  <2> QED
    BY <2>1, <2>2, RunEnded
<1> QED
  BY <1>1 DEF GuidedCommandCompleted

LEMMA SignalsKeep ==
  ASSUME NEW c, Books(c), NEW g, NEW s, NEW op, NEW ok, NEW id
  PROVE  /\ KeptUp(Turned(c, s), c, g)
         /\ KeptUp(ControlAnswered(c, op, ok), c, g)
         /\ KeptUp(TransitionAnswered(c, op, ok), c, g)
         /\ KeptUp(Started(c, id), c, g)
         /\ id # g.asked => KeptUp(Completed(c, id), c, g)
<1>1. KeptUp(Turned(c, s), c, g)
  BY DEF KeptUp, Books, Turned, Open
<1>2. KeptUp(ControlAnswered(c, op, ok), c, g) /\ KeptUp(TransitionAnswered(c, op, ok), c, g)
  BY DEF KeptUp, Books, ControlAnswered, TransitionAnswered, Answered, Open
<1>3. KeptUp(Started(c, id), c, g) /\ (id # g.asked => KeptUp(Completed(c, id), c, g))
  BY DEF KeptUp, Books, Started, Completed, Open
<1> QED
  BY <1>1, <1>2, <1>3

LEMMA SiteTurnKeeps ==
  ASSUME GInv, NEW s, SiteTurn(s)
  PROVE  GInv'
<1> DEFINE w == [Site EXCEPT !.client = Turned(client, s)]
           v == HandleConnectionStateChanged(w, s)
<1>1. SiteBecomes(w) \/ SiteBecomes(GuidedCommandCompleted(Site, v))
  BY DEF SiteTurn
<1>2. Books(client)
  BY SiteFields DEF GInv, Sound, SiteWorld
<1>3. Sound(w) /\ SiteWorld(w) /\ Hosts(w)
  BY <1>2, SignalsKeep, SignalKept
<1> HIDE DEF w
<1>4. Sound(v)
  BY <1>3, TurnStill, StillKept, KeptSound
<1> HIDE DEF v
<1> QED
  BY <1>1, <1>3, <1>4, CommandEndSound, SiteIs

LEMMA SiteAnswerKeeps ==
  ASSUME GInv, NEW op, SiteAnswer(op)
  PROVE  GInv'
<1>1. ASSUME NEW d, KeptUp(d, client, guided), NEW ok
      PROVE  Sound(GuidedCommandCompleted(Site,
               HandleControlCompleted([Site EXCEPT !.client = d], op, ok)))
  <2> DEFINE w == [Site EXCEPT !.client = d]
             v == HandleControlCompleted(w, op, ok)
  <2>1. Sound(w) /\ SiteWorld(w) /\ Hosts(w)
    BY <1>1, SignalKept
  <2> HIDE DEF w
  <2>2. v = w \/ Ends(v, w) \/ Releases(v, w) \/ Closes(v, w)
    BY <2>1, ControlCalls
  <2> HIDE DEF v
  <2>3. Sound(v)
    BY <2>1, <2>2, AnyCallKept, KeptSound DEF CallsOnce
  <2> QED
    BY <2>3, CommandEndSound DEF v, w
<1>2. Books(client)
  BY SiteFields DEF GInv, Sound, SiteWorld
<1>3. PICK ok \in BOOLEAN :
        \/ SiteBecomes(GuidedCommandCompleted(Site, HandleControlCompleted(
             [Site EXCEPT !.client = ControlAnswered(client, op, ok)], op, ok)))
        \/ SiteBecomes(GuidedCommandCompleted(Site, HandleControlCompleted(
             [Site EXCEPT !.client = TransitionAnswered(client, op, ok)], op, ok)))
  BY DEF SiteAnswer
<1> DEFINE a == ControlAnswered(client, op, ok)
           b == TransitionAnswered(client, op, ok)
<1>4. KeptUp(a, client, guided) /\ KeptUp(b, client, guided)
  BY <1>2, SignalsKeep
<1>5. \E d \in {a, b} : SiteBecomes(GuidedCommandCompleted(Site, HandleControlCompleted(
                          [Site EXCEPT !.client = d], op, ok)))
  BY <1>3
<1> HIDE DEF a, b
<1> QED
  BY <1>1, <1>4, <1>5, SiteIs

LEMMA BlockCompletesKeeps ==
  ASSUME GInv, NEW id, BlockCompletes(id)
  PROVE  GInv'
<1>1. PICK reading \in BOOLEAN, decodes \in BOOLEAN :
        SiteBecomes(GuidedCommandCompleted(Site, HandleRequestCompleted(
          [Site EXCEPT !.client = Completed(client, id)], id, reading, decodes)))
  BY DEF BlockCompletes
<1> DEFINE w == [Site EXCEPT !.client = Completed(client, id)]
           v == HandleRequestCompleted(w, id, reading, decodes)
<1>2. Books(client) /\ id # guided.asked
  BY SiteFields DEF GInv, Sound, SiteWorld, BlockCompletes
<1>3. Sound(w) /\ SiteWorld(w) /\ Hosts(w)
  BY <1>2, SignalsKeep, SignalKept
<1>4. SiteBecomes(GuidedCommandCompleted(Site, v))
  BY <1>1
<1> HIDE DEF w
<1>5. CallsOnce(v, w)
  BY <1>3, BlockCalls
<1> HIDE DEF v
<1>6. Sound(v)
  BY <1>3, <1>5, AnyCallKept, KeptSound
<1> QED
  BY <1>4, <1>6, CommandEndSound, SiteIs

LEMMA RequestStartsKeeps ==
  ASSUME GInv, NEW id, RequestStarts(id), UNCHANGED guided
  PROVE  GInv'
<1> DEFINE w == [Site EXCEPT !.client = Started(client, id)]
<1>1. Books(client)
  BY SiteFields DEF GInv, Sound, SiteWorld
<1>2. Sound(w)
  BY <1>1, SignalsKeep, SignalKept
<1>3. SiteBecomes(w)
  BY DEF RequestStarts, SiteBecomes, Become, Site
<1> HIDE DEF w
<1> QED
  BY <1>2, <1>3, SiteIs

-----------------------------------------------------------------------------
LEMMA GInvInit == GuidedInit => GInv
<1> SUFFICES ASSUME GuidedInit
             PROVE  GInv
  OBVIOUS
<1>1. SiteWorld(Site)
  BY DEF GuidedInit, AppInit, SiteWorld, Hosts, Site, Books, ClientInit, NoPending
<1>2. Probing(client, guided) /\ Evidence(guided)
  BY DEF GuidedInit, NoGuidedRun, Probing, Held, Evidence, Prompts, Observations
<1> QED
  BY <1>1, <1>2, SiteFields DEF GInv, Sound

LEMMA GInvKept == GInv /\ [GuidedNext]_guidedVars => GInv'
<1> SUFFICES ASSUME GInv, [GuidedNext]_guidedVars
             PROVE  GInv'
  OBVIOUS
<1>1. CASE SiteCommand
  BY <1>1, SiteCommandKeeps
<1>2. CASE RunGuidedSuite
  BY <1>2, RunGuidedSuiteKeeps
<1>3. CASE Confirm \/ CancelAction \/ AbortGuided
  BY <1>3, ActionsKeep
<1>4. CASE TimePasses
  BY <1>4, TimePassesKeeps
<1>5. CASE DeadlineExpires
  BY <1>5, DeadlineExpiresKeeps
<1>6. CASE NextProbeDue
  BY <1>6, NextProbeDueKeeps
<1>7. CASE MonitorTask /\ UNCHANGED guided
  BY <1>7, SiteMonitorTaskKeeps
<1>8. ASSUME NEW s \in ConnectionState, SiteTurn(s)
      PROVE  GInv'
  BY <1>8, SiteTurnKeeps
<1>9. ASSUME NEW op \in OpIds, SiteAnswer(op)
      PROVE  GInv'
  BY <1>9, SiteAnswerKeeps
<1>10. ASSUME NEW id \in Ids, RequestStarts(id) /\ UNCHANGED guided
       PROVE  GInv'
  BY <1>10, RequestStartsKeeps
<1>11. ASSUME NEW id \in Ids, NEW outcome \in ProbeOutcome, ProbeCompletes(id, outcome)
       PROVE  GInv'
  BY <1>11, ProbeCompletesKeeps
<1>12. ASSUME NEW id \in Ids, BlockCompletes(id)
       PROVE  GInv'
  BY <1>12, BlockCompletesKeeps
<1>13. CASE UNCHANGED guidedVars
  <2>1. Site' = Site
    BY <1>13 DEF guidedVars, appVars, Site
  <2> QED
    BY <2>1 DEF GInv
<1> QED
  BY <1>1, <1>2, <1>3, <1>4, <1>5, <1>6, <1>7, <1>8, <1>9, <1>10, <1>11, <1>12, <1>13
     DEF GuidedNext

\* Every reachable state satisfies the invariant: the engine's probe, the stage and the
\* evidence gathered are in step.
THEOREM GuidedInvariance == GuidedSpec => []GInv
BY GInvInit, GInvKept, PTL DEF GuidedSpec

\* A stage that is over, by a deadline, an abort or its verdict, leaves no probe of the
\* engine running: the one there is belongs to the observation at hand or is cancelled.
THEOREM GuidedProbeBelongs == GuidedSpec => []ProbeBelongsToStage
<1>1. GInv => ProbeBelongsToStage
  BY SiteFields DEF GInv, Sound, Probing, Held, ProbeBelongsToStage
<1> QED
  BY <1>1, GuidedInvariance, PTL

\* A guided case passes only after Matches timeouts in a row following the request to
\* unplug, and then Matches responses in a row following the request to plug in.
THEOREM GuidedPassIsEarned == GuidedSpec => []PassIsEarned
<1>1. GInv => PassIsEarned
  BY SiteFields DEF GInv, Sound, Evidence, Earned, PassIsEarned
<1> QED
  BY <1>1, GuidedInvariance, PTL
=============================================================================
