---------------------------- MODULE GatewayProofs ----------------------------
(***************************************************************************)
(* Theorems about the two parts of the server that steer the gateway: the  *)
(* channel watchdog, for every schedule of restarts while its ticks do not *)
(* overlap (ChannelHealth), and the configuration push, for any number of  *)
(* overlapping pushes and any retry budgets (ConfigPush).                  *)
(***************************************************************************)
EXTENDS ChannelHealth, ConfigPush, FiniteSetTheorems, TLAPS

-----------------------------------------------------------------------------
(* The channel watchdog. *)

\* No tick starts while another one awaits: each takes less than the interval,
\* which nothing in the code enforces.
OneAtATime == \A s, t \in ProbeTicks : s = t

-----------------------------------------------------------------------------
(* The invariant. *)

\* What an episode has had so far: a restart comes after the escalation and
\* leaves the next one scheduled a spacing later, and an episode that disabled
\* the account has no decision left to come.
EpisodeFits(o) ==
    /\ ~o.degraded => o = Healthy
    /\ o.degraded => o.count > 0
    /\ o.auditedFailed => o.auditedDegraded
    /\ o.done \/ o.attempts > 0 => o.auditedFailed
    /\ o.attempts = 0 => o.next = 0
    /\ o.attempts > 0 => restartEnabled /\ o.next > 0 /\ o.next = restartedAt + Spacing(o.attempts)
    /\ disables # 0 /\ o.degraded => o.auditedFailed /\ (o.done \/ ~restartEnabled)

\* Whoever awaits does so about the tracker in the map, an episode that is not
\* dealt with; past the escalation a restart is its first one or is due.
StageFits(t) ==
    LET at == probe[t].at
        o == tracker[current]
    IN /\ at \in {"idle", "probe", "turn"} => probe[t].mine = 0
       /\ at \notin {"idle", "probe", "turn"} => probe[t].mine = current /\ current # 0
       /\ at \in {"degraded", "failed", "age", "disable"} => o.degraded /\ ~o.done /\ disables = 0
       /\ at = "degraded" => o.auditedDegraded /\ ~o.auditedFailed
       /\ at \in {"failed", "age", "disable"} => o.auditedFailed
       /\ at = "failed" => o.attempts = 0
       /\ at \in {"age", "disable"} => o.attempts = 0 \/ o.count >= o.next

HealthFits ==
    /\ disables <= 1
    /\ \A g \in 1..Trackers : EpisodeFits(tracker[g]) /\ (g # current => tracker[g] = Healthy)
    /\ \A t \in ProbeTicks : StageFits(t)

-----------------------------------------------------------------------------
(* The spacing. *)

LEMMA PowerType == ASSUME NEW n \in Nat PROVE 2^n \in Nat
<1>1. IsFiniteSet(1..n) /\ Cardinality(1..n) = n
  BY FS_Interval
<1>2. IsFiniteSet(SUBSET (1..n)) /\ Cardinality(SUBSET (1..n)) = 2^n
  BY <1>1, FS_SUBSET
<1> QED BY <1>2, FS_CardinalityType

LEMMA SpacingType == ASSUME NEW n \in Nat PROVE Spacing(n) \in Nat
<1>1. 2^n \in Nat
  BY PowerType
<1>2. \A k \in Nat : TerminalAfter * k \in Nat
  BY ChannelHealthAssumption
<1>3. TerminalAfter * 2^n \in Nat
  BY <1>1, <1>2
<1> QED BY <1>3, ChannelHealthAssumption DEF Spacing

LEMMA HealthyFits == Healthy \in Tracker /\ EpisodeFits(Healthy)
  BY ChannelHealthAssumption DEF Healthy, Tracker, EpisodeFits

-----------------------------------------------------------------------------
(* The steps. *)

\* A step that gives one tracker, from then on the one in the map, a new value and
\* takes one tick somewhere else fits if both do.
LEMMA StepFits ==
  ASSUME HealthTypeOK, HealthFits, OneAtATime, NEW t \in ProbeTicks,
         NEW g \in 1..Trackers, NEW o \in Tracker,
         current' = g, current \in {0, g}, tracker' = [tracker EXCEPT ![g] = o],
         EpisodeFits(o)', StageFits(t)',
         restartEnabled' = restartEnabled, restartedAt' \in 0..MaxDegraded, disables' \in {0, 1},
         probe' \in [ProbeTicks -> [at: {"idle", "probe", "turn", "degraded", "failed", "age",
                                      "disable", "restart", "recovered"},
                                 reading: Readings, mine: 0..Trackers]]
  PROVE  HealthTypeOK' /\ HealthFits'
<1>1. HealthTypeOK'
  BY DEF HealthTypeOK
<1>2. \A h \in 1..Trackers : tracker'[h] = IF h = g THEN o ELSE Healthy
  BY DEF HealthTypeOK, HealthFits
<1>3. \A h \in 1..Trackers : EpisodeFits(tracker[h])'
  <2> TAKE h \in 1..Trackers
  <2>1. CASE h = g
    BY <1>2, <2>1 DEF EpisodeFits
  <2>2. CASE h # g
    BY <1>2, <2>2 DEF EpisodeFits, Healthy
  <2> QED BY <2>1, <2>2
<1>4. \A s \in ProbeTicks : StageFits(s)'
  BY DEF OneAtATime
<1> QED BY <1>1, <1>2, <1>3, <1>4 DEF HealthFits

\* Where Awaits and TickEnds take a tick.
LEMMA AwaitsType ==
  ASSUME HealthTypeOK, NEW t \in ProbeTicks, NEW g \in 1..Trackers,
         NEW stage \in {"degraded", "failed", "age", "disable", "restart", "recovered"},
         Awaits(t, g, stage)
  PROVE  /\ probe' \in [ProbeTicks -> [at: {"idle", "probe", "turn", "degraded", "failed", "age",
                                      "disable", "restart", "recovered"},
                                 reading: Readings, mine: 0..Trackers]]
         /\ probe'[t].at = stage /\ probe'[t].mine = g
<1>1. 0..Trackers = {0} \cup (1..Trackers)
  BY ChannelHealthAssumption
<1> QED BY <1>1 DEF HealthTypeOK, Awaits

LEMMA TickEndsType ==
  ASSUME HealthTypeOK, NEW t \in ProbeTicks, TickEnds(t)
  PROVE  /\ probe' \in [ProbeTicks -> [at: {"idle", "probe", "turn", "degraded", "failed", "age",
                                      "disable", "restart", "recovered"},
                                 reading: Readings, mine: 0..Trackers]]
         /\ probe'[t].at = "idle" /\ probe'[t].mine = 0
  BY ChannelHealthAssumption DEF HealthTypeOK, TickEnds, IdleProbe, Readings

\* A restart of an episode that is not dealt with.
LEMMA RestartFits ==
  ASSUME HealthTypeOK, HealthFits, OneAtATime, NEW t \in ProbeTicks,
         NEW g \in 1..Trackers, NEW o \in Tracker,
         current' = g, current \in {0, g}, UNCHANGED <<restartEnabled, disables>>,
         EpisodeFits(o), o.degraded, o.auditedFailed, restartEnabled, disables = 0,
         o.attempts = 0 \/ o.count >= o.next,
         Restart(t, g, o)
  PROVE  /\ HealthTypeOK' /\ HealthFits'
         /\ tracker'[g].attempts > o.attempts /\ o.attempts > 0 =>
              tracker'[g].count >= restartedAt + Spacing(o.attempts)
<1>1. CASE o.attempts < MaxRestartTries
  <2> DEFINE n == [o EXCEPT !.attempts = @ + 1, !.next = o.count + Spacing(o.attempts + 1)]
  <2>1. o.attempts \in Nat /\ o.attempts + 1 \in Nat /\ o.count \in 0..MaxDegraded /\ o.count > 0
    BY ChannelHealthAssumption DEF Tracker, EpisodeFits
  <2>2. Spacing(o.attempts + 1) \in Nat
    BY <2>1, SpacingType
  <2>3. n \in Tracker
    <3>1. o.attempts + 1 \in 0..MaxRestartTries /\ o.count + Spacing(o.attempts + 1) \in Nat
      BY <1>1, <2>1, <2>2, ChannelHealthAssumption
    <3> QED BY <3>1 DEF Tracker
  <2>4. /\ n.degraded /\ n.auditedFailed /\ n.auditedDegraded /\ n.count = o.count
        /\ n.attempts = o.attempts + 1 /\ n.next = o.count + Spacing(n.attempts)
    BY DEF Tracker, EpisodeFits
  <2>5. tracker' = [tracker EXCEPT ![g] = n] /\ restartedAt' = o.count /\ Awaits(t, g, "restart")
    <3>1. ~(o.attempts >= MaxRestartTries)
      BY <1>1, <2>1, ChannelHealthAssumption
    <3> QED BY <3>1 DEF Restart
  <2> HIDE DEF n
  <2>6. EpisodeFits(n)'
    BY <2>1, <2>2, <2>4, <2>5, ChannelHealthAssumption DEF EpisodeFits
  <2>7. StageFits(t)'
    BY <2>5, AwaitsType, ChannelHealthAssumption DEF StageFits
  <2>8. HealthTypeOK' /\ HealthFits'
    BY <2>1, <2>3, <2>5, <2>6, <2>7, AwaitsType, StepFits
  <2>9. o.attempts > 0 => tracker'[g].count >= restartedAt + Spacing(o.attempts)
    BY <2>4, <2>5 DEF EpisodeFits, HealthTypeOK
  <2> QED BY <2>8, <2>9
<1>2. CASE o.attempts >= MaxRestartTries
  <2> DEFINE n == [o EXCEPT !.done = TRUE]
  <2>3. n \in Tracker
    BY DEF Tracker
  <2>4. /\ n.degraded /\ n.auditedFailed /\ n.auditedDegraded /\ n.count = o.count
        /\ n.attempts = o.attempts /\ n.next = o.next
    BY DEF Tracker, EpisodeFits
  <2>5. tracker' = [tracker EXCEPT ![g] = n] /\ restartedAt' = restartedAt /\ TickEnds(t)
    BY <1>2, ChannelHealthAssumption DEF Restart, Tracker
  <2> HIDE DEF n
  <2>6. EpisodeFits(n)'
    BY <2>4, <2>5 DEF EpisodeFits
  <2>7. StageFits(t)'
    BY <2>5, TickEndsType DEF StageFits
  <2>8. HealthTypeOK' /\ HealthFits'
    BY <2>3, <2>5, <2>6, <2>7, TickEndsType, StepFits DEF HealthTypeOK
  <2>9. tracker'[g].attempts = o.attempts
    BY <2>4, <2>5 DEF HealthTypeOK
  <2> QED BY <2>8, <2>9, ChannelHealthAssumption DEF Tracker
<1> QED BY <1>1, <1>2 DEF Restart

\* What a restart may do to a tracker that was p before the step.
Paced(g, p) ==
    tracker'[g].attempts > p.attempts /\ p.attempts > 0 =>
        tracker'[g].count >= restartedAt + Spacing(p.attempts)

\* The handling of a conflict that is due.
LEMMA DecideFits ==
  ASSUME HealthTypeOK, HealthFits, OneAtATime, NEW t \in ProbeTicks,
         NEW g \in 1..Trackers, NEW o \in Tracker,
         current' = g, current \in {0, g}, UNCHANGED <<restartEnabled, disables>>,
         EpisodeFits(o), o.degraded, o.auditedFailed, ~o.done, disables = 0,
         o.attempts = 0 \/ o.count >= o.next,
         Decide(t, g, o)
  PROVE  HealthTypeOK' /\ HealthFits' /\ Paced(g, o)
<1>1. CASE /\ tracker' = [tracker EXCEPT ![g] = o]
           /\ TickEnds(t) /\ UNCHANGED restartedAt
  <2>1. EpisodeFits(o)' /\ StageFits(t)'
    BY <1>1, TickEndsType DEF EpisodeFits, StageFits
  <2>2. HealthTypeOK' /\ HealthFits'
    BY <1>1, <2>1, TickEndsType, StepFits DEF HealthTypeOK
  <2>3. tracker'[g] = o /\ o.attempts \in Nat
    BY <1>1, ChannelHealthAssumption DEF HealthTypeOK, Tracker
  <2> QED BY <2>2, <2>3 DEF Paced
<1>2. CASE /\ tracker' = [tracker EXCEPT ![g] = o]
           /\ Awaits(t, g, "age") /\ UNCHANGED restartedAt
  <2>1. tracker'[g] = o
    BY <1>2 DEF HealthTypeOK
  <2>2. EpisodeFits(o)' /\ StageFits(t)'
    BY <1>2, <2>1, AwaitsType, ChannelHealthAssumption DEF EpisodeFits, StageFits
  <2>3. HealthTypeOK' /\ HealthFits'
    BY <1>2, <2>2, AwaitsType, StepFits DEF HealthTypeOK
  <2> QED BY <2>1, <2>3, ChannelHealthAssumption DEF Paced, Tracker
<1>3. CASE restartEnabled /\ Restart(t, g, o)
  BY <1>3, RestartFits DEF Paced
<1> QED BY <1>1, <1>2, <1>3 DEF Decide

\* Past the audit of a degraded channel.
LEMMA EscalateFits ==
  ASSUME HealthTypeOK, HealthFits, OneAtATime, NEW t \in ProbeTicks,
         NEW g \in 1..Trackers, NEW o \in Tracker,
         current' = g, current \in {0, g}, UNCHANGED <<restartEnabled, disables>>,
         EpisodeFits(o), o.degraded, o.auditedDegraded,
         Escalate(t, g, o)
  PROVE  HealthTypeOK' /\ HealthFits' /\ Paced(g, o)
<1>0. disables \in {0, 1} /\ o.attempts \in Nat
  BY ChannelHealthAssumption DEF HealthTypeOK, HealthFits, Tracker
<1>1. CASE /\ ~o.auditedFailed
           /\ tracker' = [tracker EXCEPT ![g] = [o EXCEPT !.auditedFailed = TRUE]]
           /\ Awaits(t, g, "failed") /\ UNCHANGED restartedAt
  <2> DEFINE n == [o EXCEPT !.auditedFailed = TRUE]
  <2>1. n \in Tracker
    BY DEF Tracker
  <2>2. /\ n.degraded /\ n.auditedFailed /\ n.auditedDegraded /\ ~n.done
        /\ n.count = o.count /\ n.attempts = 0 /\ n.next = 0 /\ disables = 0 /\ o.attempts = 0
    BY <1>0, <1>1 DEF Tracker, EpisodeFits
  <2>3. tracker' = [tracker EXCEPT ![g] = n]
    BY <1>1
  <2> HIDE DEF n
  <2>4. tracker'[g] = n
    BY <2>3 DEF HealthTypeOK
  <2>5. EpisodeFits(n)' /\ StageFits(t)'
    BY <1>1, <2>2, <2>4, AwaitsType, ChannelHealthAssumption DEF EpisodeFits, StageFits
  <2>6. HealthTypeOK' /\ HealthFits'
    BY <1>0, <1>1, <2>1, <2>3, <2>5, AwaitsType, StepFits DEF HealthTypeOK
  <2> QED BY <2>2, <2>6 DEF Paced
<1>2. CASE /\ tracker' = [tracker EXCEPT ![g] = o]
           /\ TickEnds(t) /\ UNCHANGED restartedAt
  <2>1. EpisodeFits(o)' /\ StageFits(t)'
    BY <1>2, TickEndsType DEF EpisodeFits, StageFits
  <2>2. HealthTypeOK' /\ HealthFits'
    BY <1>0, <1>2, <2>1, TickEndsType, StepFits DEF HealthTypeOK
  <2>3. tracker'[g] = o
    BY <1>2 DEF HealthTypeOK
  <2> QED BY <1>0, <2>2, <2>3 DEF Paced
<1>3. CASE /\ o.auditedFailed /\ ~o.done
           /\ IF o.next # 0 THEN o.count >= o.next
              ELSE restartEnabled /\ probe[t].reading = "conflict"
           /\ Decide(t, g, o)
  <2>1. disables = 0
    BY <1>0, <1>3 DEF EpisodeFits
  <2>2. o.attempts = 0 \/ o.count >= o.next
    BY <1>0, <1>3 DEF EpisodeFits
  <2> QED BY <1>3, <2>1, <2>2, DecideFits
<1> QED BY <1>1, <1>2, <1>3 DEF Escalate


AllPaced == \A g \in 1..Trackers : Paced(g, tracker[g])

\* A step about one tracker is paced if it is about that one.
LEMMA PacedAll ==
  ASSUME HealthTypeOK, NEW g \in 1..Trackers, NEW o \in Tracker, Paced(g, o),
         o.attempts = tracker[g].attempts,
         \A h \in 1..Trackers \ {g} : tracker'[h] = tracker[h]
  PROVE  AllPaced
<1>1. \A h \in 1..Trackers : tracker[h].attempts \in Nat
  BY ChannelHealthAssumption DEF HealthTypeOK, Tracker
<1> QED BY <1>1 DEF AllPaced, Paced

\* What the handling of a conflict leaves of the other trackers.
LEMMA OthersKept ==
  ASSUME HealthTypeOK, NEW t \in ProbeTicks, NEW g \in 1..Trackers, NEW o \in Tracker,
         Escalate(t, g, o) \/ Decide(t, g, o) \/ Restart(t, g, o)
  PROVE  \A h \in 1..Trackers \ {g} : tracker'[h] = tracker[h]
  BY DEF HealthTypeOK, Escalate, Decide, Restart

\* A tick that only moves on.
LEMMA ProbeMoves ==
  ASSUME HealthTypeOK, HealthFits, OneAtATime, NEW t \in ProbeTicks, StageFits(t)',
         UNCHANGED <<restartEnabled, tracker, current, restartedAt, disables>>,
         probe' \in [ProbeTicks -> [at: {"idle", "probe", "turn", "degraded", "failed", "age",
                                      "disable", "restart", "recovered"},
                                 reading: Readings, mine: 0..Trackers]]
  PROVE  HealthTypeOK' /\ HealthFits' /\ AllPaced
<1>1. HealthTypeOK'
  BY DEF HealthTypeOK
<1>2. \A g \in 1..Trackers : EpisodeFits(tracker[g])'
  BY DEF HealthFits, EpisodeFits
<1>3. \A s \in ProbeTicks : StageFits(s)'
  BY DEF OneAtATime
<1>4. \A g \in 1..Trackers : tracker'[g] = tracker[g] /\ tracker[g].attempts \in Nat
  BY ChannelHealthAssumption DEF HealthTypeOK, Tracker
<1> QED BY <1>1, <1>2, <1>3, <1>4 DEF HealthFits, AllPaced, Paced

\* The tracker of an account whose turn it is.
LEMMA MineKnown ==
  ASSUME HealthTypeOK, HealthFits, OneAtATime, NEW t \in ProbeTicks, probe[t].at = "turn"
  PROVE  /\ Mine \in 1..Trackers /\ MyTracker = tracker[Mine] /\ current \in {0, Mine}
         /\ \A g \in 1..Trackers : Holders(g) = {}
<1>1. \A s \in ProbeTicks : probe[s].mine = 0
  BY DEF HealthFits, StageFits, OneAtATime
<1>2. \A g \in 1..Trackers : Holders(g) = {}
  BY <1>1, ChannelHealthAssumption DEF Holders
<1>3. 1 \in 1..Trackers
  <2>1. Cardinality(ProbeTicks) \in Nat /\ Cardinality(ProbeTicks) # 0
    BY ChannelHealthAssumption, FS_CardinalityType, FS_EmptySet
  <2> QED BY <2>1, ChannelHealthAssumption
<1>4. CASE current = 0
  <2>1. Mine \in 1..Trackers
    BY <1>2, <1>3, <1>4 DEF Mine
  <2> QED BY <1>2, <1>4, <2>1 DEF MyTracker, HealthFits
<1>5. CASE current # 0
  <2>1. Mine = current /\ current \in 1..Trackers
    BY <1>5, ChannelHealthAssumption DEF Mine, HealthTypeOK
  <2> QED BY <1>2, <1>5, <2>1 DEF MyTracker
<1> QED BY <1>4, <1>5

\* A degraded reading opens an episode or continues it.
LEMMA TurnDegradedFits ==
  ASSUME HealthTypeOK, HealthFits, OneAtATime, NEW t \in ProbeTicks, TurnDegraded(t)
  PROVE  HealthTypeOK' /\ HealthFits' /\ AllPaced
<1>1. /\ Mine \in 1..Trackers /\ MyTracker = tracker[Mine] /\ current \in {0, Mine}
  BY MineKnown DEF TurnDegraded
<1>2. PICK g \in 1..Trackers : g = Mine
  BY <1>1
<1>3. PICK old \in Tracker : old = tracker[g]
  BY DEF HealthTypeOK
<1>4. EpisodeFits(old)
  BY <1>3 DEF HealthFits
<1> DEFINE o == [old EXCEPT !.degraded = TRUE, !.count = IF old.degraded THEN @ + 1 ELSE 1]
<1>5. /\ o.count <= MaxDegraded /\ current' = g
      /\ IF o.auditedDegraded
         THEN Escalate(t, g, o)
         ELSE /\ tracker' = [tracker EXCEPT ![g] = [o EXCEPT !.auditedDegraded = TRUE]]
              /\ Awaits(t, g, "degraded") /\ UNCHANGED restartedAt
      /\ disables' = IF old.degraded THEN disables ELSE 0
      /\ UNCHANGED restartEnabled
  BY <1>1, <1>2, <1>3 DEF TurnDegraded
<1>6. /\ o.degraded /\ o.count > 0 /\ o.count = (IF old.degraded THEN old.count + 1 ELSE 1)
      /\ o.auditedDegraded = old.auditedDegraded /\ o.auditedFailed = old.auditedFailed
      /\ o.done = old.done /\ o.attempts = old.attempts /\ o.next = old.next
      /\ old.count \in Nat
  BY ChannelHealthAssumption DEF Tracker
<1>7. o \in Tracker
  <2>1. o.count \in 0..MaxDegraded
    BY <1>5, <1>6, ChannelHealthAssumption
  <2> QED BY <2>1 DEF Tracker
<1> HIDE DEF o
<1>8. CASE o.auditedDegraded
  <2>1. old.degraded
    <3>1. ~Healthy.auditedDegraded
      BY DEF Healthy
    <3> QED BY <1>4, <1>6, <1>8, <3>1 DEF EpisodeFits
  <2>2. EpisodeFits(o)
    BY <1>4, <1>6, <2>1 DEF EpisodeFits
  <2>3. HealthTypeOK' /\ HealthFits' /\ Paced(g, o)
    BY <1>1, <1>2, <1>5, <1>6, <1>7, <1>8, <2>1, <2>2, EscalateFits
  <2>4. \A h \in 1..Trackers \ {g} : tracker'[h] = tracker[h]
    BY <1>5, <1>7, <1>8, OthersKept
  <2> QED BY <1>3, <1>6, <1>7, <2>3, <2>4, PacedAll
<1>9. CASE ~o.auditedDegraded
  <2> DEFINE n == [o EXCEPT !.auditedDegraded = TRUE]
  <2>1. n \in Tracker
    BY <1>7 DEF Tracker
  <2>2. /\ n.degraded /\ n.count > 0 /\ n.auditedDegraded /\ ~n.auditedFailed /\ ~n.done
        /\ n.attempts = 0 /\ n.next = 0 /\ o.attempts = 0
    <3>1. ~old.auditedFailed /\ ~old.done /\ old.attempts = 0 /\ old.next = 0
      BY <1>4, <1>6, <1>9, ChannelHealthAssumption DEF EpisodeFits, Tracker
    <3> QED BY <1>6, <1>7, <3>1 DEF Tracker
  <2>3. tracker' = [tracker EXCEPT ![g] = n] /\ Awaits(t, g, "degraded") /\ UNCHANGED restartedAt
    BY <1>5, <1>9
  <2>4. disables' = 0
    BY <1>4, <1>5, <1>6, <1>9 DEF EpisodeFits
  <2> HIDE DEF n
  <2>5. tracker'[g] = n /\ \A h \in 1..Trackers \ {g} : tracker'[h] = tracker[h]
    BY <2>3 DEF HealthTypeOK
  <2>6. EpisodeFits(n)' /\ StageFits(t)'
    BY <1>5, <2>2, <2>3, <2>4, <2>5, AwaitsType, ChannelHealthAssumption DEF EpisodeFits, StageFits
  <2>7. HealthTypeOK' /\ HealthFits'
    BY <1>1, <1>2, <1>5, <2>1, <2>3, <2>4, <2>6, AwaitsType, StepFits DEF HealthTypeOK
  <2>8. Paced(g, o)
    BY <2>2 DEF Paced
  <2> QED BY <1>3, <1>6, <1>7, <2>5, <2>7, <2>8, PacedAll
<1> QED BY <1>8, <1>9

\* A tracker that starts anew is no restart.
LEMMA AnewFits ==
  ASSUME HealthTypeOK, HealthFits, OneAtATime, NEW t \in ProbeTicks, NEW g \in 1..Trackers,
         current' = g, current \in {0, g}, tracker' = [tracker EXCEPT ![g] = Healthy], TickEnds(t),
         UNCHANGED <<restartEnabled, restartedAt, disables>>
  PROVE  HealthTypeOK' /\ HealthFits' /\ AllPaced
<1>1. Healthy \in Tracker /\ EpisodeFits(Healthy)'
  BY HealthyFits DEF EpisodeFits, Healthy
<1>2. StageFits(t)'
  BY TickEndsType DEF StageFits
<1>3. disables \in {0, 1}
  BY DEF HealthTypeOK, HealthFits
<1>4. HealthTypeOK' /\ HealthFits'
  BY <1>1, <1>2, <1>3, TickEndsType, StepFits DEF HealthTypeOK
<1>5. /\ tracker'[g].attempts = 0 /\ \A h \in 1..Trackers \ {g} : tracker'[h] = tracker[h]
      /\ \A h \in 1..Trackers : tracker[h].attempts \in Nat
  BY ChannelHealthAssumption DEF HealthTypeOK, Healthy, Tracker
<1> QED BY <1>4, <1>5 DEF AllPaced, Paced

\* A healthy reading.
LEMMA TurnHealthyFits ==
  ASSUME HealthTypeOK, HealthFits, OneAtATime, NEW t \in ProbeTicks, TurnHealthy(t)
  PROVE  HealthTypeOK' /\ HealthFits' /\ AllPaced
<1>1. /\ Mine \in 1..Trackers /\ MyTracker = tracker[Mine] /\ current \in {0, Mine}
  BY MineKnown DEF TurnHealthy
<1>2. PICK g \in 1..Trackers : g = Mine
  BY <1>1
<1>3. CASE MyTracker.degraded
  <2>1. current = g /\ current # 0
    BY <1>1, <1>2, <1>3 DEF MyTracker, Healthy
  <2>2. Awaits(t, g, "recovered") /\ UNCHANGED <<restartEnabled, tracker, current, restartedAt, disables>>
    BY <1>2, <1>3, <2>1 DEF TurnHealthy
  <2>3. StageFits(t)'
    BY <2>1, <2>2, AwaitsType DEF StageFits
  <2> QED BY <2>2, <2>3, AwaitsType, ProbeMoves
<1>4. CASE ~MyTracker.degraded
  BY <1>1, <1>2, <1>4, AnewFits DEF TurnHealthy
<1> QED BY <1>3, <1>4

\* An account that is not named any more.
LEMMA TurnAbsentFits ==
  ASSUME HealthTypeOK, HealthFits, OneAtATime, NEW t \in ProbeTicks, TurnAbsent(t)
  PROVE  HealthTypeOK' /\ HealthFits' /\ AllPaced
<1>1. tracker' = [g \in 1..Trackers |-> Healthy] /\ current' = 0 /\ TickEnds(t)
      /\ UNCHANGED <<restartEnabled, restartedAt, disables>>
  BY MineKnown DEF TurnAbsent
<1>2. HealthTypeOK'
  BY <1>1, TickEndsType, HealthyFits, ChannelHealthAssumption DEF HealthTypeOK
<1>3. EpisodeFits(Healthy)'
  BY DEF EpisodeFits, Healthy
<1>4. \A g \in 1..Trackers : EpisodeFits(tracker[g])' /\ tracker'[g] = Healthy
  BY <1>1, <1>3 DEF EpisodeFits
<1>5. StageFits(t)'
  BY <1>1, TickEndsType DEF StageFits
<1>6. \A s \in ProbeTicks : StageFits(s)'
  BY <1>5 DEF OneAtATime
<1>7. \A g \in 1..Trackers : Healthy.attempts = 0 /\ tracker[g].attempts \in Nat
  BY ChannelHealthAssumption DEF HealthTypeOK, Healthy, Tracker
<1> QED BY <1>1, <1>2, <1>4, <1>6, <1>7 DEF HealthFits, AllPaced, Paced


\* maybeAutoDisable declines, before it calls or when the call fails.
LEMMA DeclinedFits ==
  ASSUME HealthTypeOK, HealthFits, OneAtATime, NEW t \in ProbeTicks,
         probe[t].at \in {"age", "disable"}, Declined(t),
         UNCHANGED <<restartEnabled, current, disables>>
  PROVE  HealthTypeOK' /\ HealthFits' /\ AllPaced
<1>1. /\ StageFits(t) /\ probe[t].mine = current /\ current \in 1..Trackers
  BY ChannelHealthAssumption DEF HealthFits, StageFits, HealthTypeOK
<1>2. PICK g \in 1..Trackers : g = current
  BY <1>1
<1>3. PICK o \in Tracker : o = tracker[g]
  BY DEF HealthTypeOK
<1>4. /\ EpisodeFits(o) /\ o.degraded /\ o.auditedFailed /\ disables = 0
      /\ o.attempts = 0 \/ o.count >= o.next
  BY <1>1, <1>2, <1>3 DEF HealthFits, StageFits
<1>5. CASE restartEnabled /\ Restart(t, g, o)
  <2>1. HealthTypeOK' /\ HealthFits' /\ Paced(g, o)
    BY <1>2, <1>4, <1>5, RestartFits DEF Paced
  <2>2. \A h \in 1..Trackers \ {g} : tracker'[h] = tracker[h]
    BY <1>5, OthersKept
  <2> QED BY <1>3, <2>1, <2>2, PacedAll
<1>6. CASE TickEnds(t) /\ UNCHANGED <<tracker, restartedAt>>
  <2>1. StageFits(t)'
    BY <1>6, TickEndsType DEF StageFits
  <2> QED BY <1>6, <2>1, TickEndsType, ProbeMoves
<1> QED BY <1>1, <1>2, <1>3, <1>5, <1>6 DEF Declined

\* The bot is disabled: nothing is left to decide in its episode.
LEMMA DisabledFits ==
  ASSUME HealthTypeOK, HealthFits, OneAtATime, NEW t \in ProbeTicks, Disabled(t)
  PROVE  HealthTypeOK' /\ HealthFits' /\ AllPaced
<1>1. /\ StageFits(t) /\ probe[t].mine = current /\ current \in 1..Trackers
  BY ChannelHealthAssumption DEF HealthFits, StageFits, HealthTypeOK, Disabled
<1>2. PICK g \in 1..Trackers : g = current
  BY <1>1
<1>3. PICK o \in Tracker : o = tracker[g]
  BY DEF HealthTypeOK
<1>4. EpisodeFits(o) /\ o.degraded /\ o.auditedFailed /\ disables = 0
  BY <1>1, <1>2, <1>3 DEF HealthFits, StageFits, Disabled
<1>5. [o EXCEPT !.done = TRUE] \in Tracker
  BY DEF Tracker
<1>6. PICK m \in Tracker : m = IF restartEnabled THEN [o EXCEPT !.done = TRUE] ELSE o
  BY <1>5
<1>7. /\ m.degraded /\ m.auditedFailed /\ m.auditedDegraded /\ m.count = o.count
      /\ m.attempts = o.attempts /\ m.next = o.next /\ (m.done \/ ~restartEnabled)
  BY <1>4, <1>6 DEF Tracker, EpisodeFits
<1>8. /\ tracker' = [tracker EXCEPT ![g] = m] /\ TickEnds(t) /\ disables' = 1
      /\ UNCHANGED <<restartEnabled, current, restartedAt>>
  <2>1. tracker' = [tracker EXCEPT ![g] = m]
    BY <1>1, <1>2, <1>3, <1>6 DEF Disabled, HealthTypeOK
  <2>2. TickEnds(t) /\ UNCHANGED <<restartEnabled, current, restartedAt>>
    BY DEF Disabled
  <2>3. disables' = 1
    BY <1>4 DEF Disabled
  <2> QED BY <2>1, <2>2, <2>3
<1>9. EpisodeFits(m)' /\ StageFits(t)'
  BY <1>4, <1>7, <1>8, TickEndsType DEF EpisodeFits, StageFits
<1>10. HealthTypeOK' /\ HealthFits'
  BY <1>2, <1>8, <1>9, TickEndsType, StepFits DEF HealthTypeOK
<1>11. /\ tracker'[g] = m /\ m.attempts = o.attempts /\ o.attempts \in Nat
       /\ \A h \in 1..Trackers \ {g} : tracker'[h] = tracker[h]
  BY <1>7, <1>8, ChannelHealthAssumption DEF HealthTypeOK, Tracker
<1>12. Paced(g, o)
  BY <1>11 DEF Paced
<1> QED BY <1>3, <1>10, <1>11, <1>12, PacedAll

\* An audit returns, or the tracker is reset after its own.
LEMMA AuditFits ==
  ASSUME HealthTypeOK, HealthFits, OneAtATime, NEW t \in ProbeTicks,
         AuditReturns(t) \/ Recovered(t)
  PROVE  HealthTypeOK' /\ HealthFits' /\ AllPaced
<1>1. /\ StageFits(t) /\ probe[t].mine = current /\ current \in 1..Trackers
  BY ChannelHealthAssumption DEF HealthFits, StageFits, HealthTypeOK, AuditReturns, Recovered
<1>2. PICK g \in 1..Trackers : g = current
  BY <1>1
<1>3. PICK o \in Tracker : o = tracker[g]
  BY DEF HealthTypeOK
<1>4. EpisodeFits(o)
  BY <1>3 DEF HealthFits
<1>5. CASE AuditReturns(t)
  <2>1. /\ o.degraded /\ ~o.done /\ disables = 0
        /\ UNCHANGED <<restartEnabled, current, disables>>
    BY <1>1, <1>2, <1>3, <1>5 DEF StageFits, AuditReturns
  <2>2. CASE probe[t].at = "degraded" /\ Escalate(t, g, o)
    <3>1. o.auditedDegraded
      BY <1>1, <1>2, <1>3, <2>2 DEF StageFits
    <3>2. HealthTypeOK' /\ HealthFits' /\ Paced(g, o)
      BY <1>2, <1>4, <2>1, <2>2, <3>1, EscalateFits
    <3> QED BY <1>3, <2>2, <3>2, OthersKept, PacedAll
  <2>3. CASE probe[t].at = "failed" /\ Decide(t, g, o)
    <3>1. o.auditedFailed /\ o.attempts = 0
      BY <1>1, <1>2, <1>3, <2>3 DEF StageFits
    <3>2. HealthTypeOK' /\ HealthFits' /\ Paced(g, o)
      BY <1>2, <1>4, <2>1, <2>3, <3>1, DecideFits
    <3> QED BY <1>3, <2>3, <3>2, OthersKept, PacedAll
  <2> QED BY <1>1, <1>2, <1>3, <1>5, <2>2, <2>3 DEF AuditReturns
<1>6. CASE Recovered(t)
  BY <1>1, <1>2, <1>6, AnewFits DEF Recovered
<1> QED BY <1>5, <1>6

\* The steps that await or are awaited.
LEMMA MovesFit ==
  ASSUME HealthTypeOK, HealthFits, OneAtATime, NEW t \in ProbeTicks,
         ProbeStarts(t) \/ ProbeAnswers(t) \/ RestartReturns(t) \/ AgeAnswers(t)
  PROVE  HealthTypeOK' /\ HealthFits' /\ AllPaced
<1>1. StageFits(t) /\ probe[t].mine \in 0..Trackers /\ 0 \in 0..Trackers
  BY ChannelHealthAssumption DEF HealthFits, HealthTypeOK
<1>2. CASE ProbeStarts(t)
  <2>1. StageFits(t)'
    BY <1>1, <1>2 DEF ProbeStarts, StageFits, HealthTypeOK
  <2> QED BY <1>2, <2>1, ProbeMoves DEF ProbeStarts, HealthTypeOK
<1>3. CASE ProbeAnswers(t)
  <2>1. StageFits(t)'
    BY <1>1, <1>3 DEF ProbeAnswers, StageFits, HealthTypeOK, IdleProbe
  <2> QED BY <1>1, <1>3, <2>1, ProbeMoves DEF ProbeAnswers, HealthTypeOK, IdleProbe, Readings
<1>4. CASE RestartReturns(t)
  <2>1. StageFits(t)'
    BY <1>4, TickEndsType DEF RestartReturns, StageFits
  <2> QED BY <1>4, <2>1, TickEndsType, ProbeMoves DEF RestartReturns
<1>5. CASE AgeAnswers(t)
  <2>1. CASE Declined(t)
    BY <1>5, <2>1, DeclinedFits DEF AgeAnswers
  <2>2. CASE probe' = [probe EXCEPT ![t].at = "disable"] /\ UNCHANGED <<tracker, restartedAt>>
    <3>1. StageFits(t)'
      BY <1>1, <1>5, <2>2 DEF AgeAnswers, StageFits, HealthTypeOK
    <3> QED BY <1>5, <2>2, <3>1, ProbeMoves DEF AgeAnswers, HealthTypeOK
  <2> QED BY <1>5, <2>1, <2>2 DEF AgeAnswers
<1> QED BY <1>2, <1>3, <1>4, <1>5

LEMMA HealthStep ==
  ASSUME HealthTypeOK, HealthFits, OneAtATime, HealthNext
  PROVE  HealthTypeOK' /\ HealthFits' /\ AllPaced
<1>1. PICK t \in ProbeTicks : ProbeStarts(t) \/ ProbeGoesOn(t)
  BY DEF HealthNext
<1>2. CASE DisableFails(t)
  BY <1>2, DeclinedFits DEF DisableFails
<1> QED BY <1>1, <1>2, MovesFit, TurnDegradedFits, TurnHealthyFits, TurnAbsentFits, AuditFits,
           DisabledFits DEF ProbeGoesOn

LEMMA HealthStart == HealthInit => HealthTypeOK /\ HealthFits
<1> SUFFICES ASSUME HealthInit PROVE HealthTypeOK /\ HealthFits
  OBVIOUS
<1>1. HealthTypeOK
  BY HealthyFits, ChannelHealthAssumption DEF HealthInit, HealthTypeOK, IdleProbe, Readings
<1>2. \A g \in 1..Trackers : EpisodeFits(tracker[g])
  BY DEF HealthInit, EpisodeFits, Healthy
<1>3. \A t \in ProbeTicks : StageFits(t)
  BY DEF HealthInit, StageFits, IdleProbe
<1> QED BY <1>1, <1>2, <1>3 DEF HealthInit, HealthFits

LEMMA HealthKept == ASSUME OneAtATime PROVE HealthSpec => [](HealthTypeOK /\ HealthFits)
<1>1. HealthTypeOK /\ HealthFits /\ UNCHANGED healthVars => HealthTypeOK' /\ HealthFits'
  BY DEF healthVars, HealthTypeOK, HealthFits, EpisodeFits, StageFits
<1>2. HealthTypeOK /\ HealthFits /\ [HealthNext]_healthVars => HealthTypeOK' /\ HealthFits'
  BY <1>1, HealthStep
<1> QED BY <1>2, HealthStart, PTL DEF HealthSpec

-----------------------------------------------------------------------------
(* The theorems. *)

\* While ticks do not overlap, an account is disabled at most once per degradation
\* episode (maybeAutoDisable), with or without the restarts, for any schedule.
THEOREM DisabledAtMostOnce ==
  ASSUME OneAtATime
  PROVE  HealthSpec => []DisabledOnce
<1>1. HealthFits => DisabledOnce
  BY DEF HealthFits, DisabledOnce
<1> QED BY <1>1, HealthKept, PTL

\* While ticks do not overlap, each restart of an episode waits out the spacing
\* after the one before it (handleConflictDecision, nextRestartAttemptCount).
THEOREM RestartsKeepPace ==
  ASSUME OneAtATime
  PROVE  HealthSpec => RestartsPaced
<1>1. HealthTypeOK /\ HealthFits /\ [HealthNext]_healthVars =>
        [\A g \in 1..Trackers :
           tracker'[g].attempts > tracker[g].attempts /\ tracker[g].attempts > 0 =>
             tracker'[g].count >= restartedAt + Spacing(tracker[g].attempts)]_healthVars
  BY HealthStep DEF AllPaced, Paced
<1> QED BY <1>1, HealthKept, PTL DEF HealthSpec, RestartsPaced

-----------------------------------------------------------------------------
(* The config push: the newest configuration wins, if no push says what an   *)
(* earlier one said.                                                         *)

\* Every push says something of its own, as long as it has something to say.
OwnContent ==
    /\ \A g \in 1..generation : push[g].content = g
    /\ \A g \in 1..Pushes : push[g].at # "none" <=> g <= generation

\* Nobody can have been told of a content that has not been pushed yet: what the
\* gateway has is no newer than the newest push, what a push bases its apply on no
\* newer than that push.
NothingAhead ==
    /\ file <= generation /\ runtime <= generation
    /\ \A g \in 1..Pushes : push[g].at = "got" => push[g].base <= generation
    /\ \A g \in 1..Pushes : push[g].at = "apply" => push[g].base <= g

\* The newest content is in the file, and to stay there until it is pushed over.
Landed == generation > 0 => file = generation

\* Whoever has reason to believe it landed is right: the gateway works with it, told
\* the newest push so, or accepted its apply, or that push is over.
BeliefsTrue ==
    /\ runtime = generation => Landed
    /\ \A g \in 1..Pushes :
         /\ g = generation
         /\ \/ push[g].at = "got" /\ push[g].config = g
            \/ push[g].at = "answered" /\ push[g].answer = "ok"
            \/ push[g].at = "settled"
         => Landed

PushInv == PushTypeOK /\ OwnContent /\ NothingAhead /\ BeliefsTrue

-----------------------------------------------------------------------------
(* Types. *)

\* A push that was never started, or is over, is one.
LEMMA NoPushType ==
  /\ NoPush \in Push
  /\ \A c \in Contents : [NoPush EXCEPT !.content = c] \in Push
  /\ \A c \in Contents, s \in {"get", "settled"} : [NoPush EXCEPT !.at = s, !.content = c] \in Push
<1>1. 0 \in Contents /\ 1 \in 1..Attempts /\ 0 \in 0..MaxStale /\ 0 \in 0..MaxRate /\ 0 \in 0..MaxDown
  BY ConfigPushAssumption DEF Contents
<1>2. "none" \in Answers
  BY DEF Answers
<1> QED BY <1>1, <1>2 DEF NoPush, Push

\* What the answer of a push does to it is a push again, asleep, on its way, or over.
LEMMA AnswerEffect ==
  ASSUME PushInv, NEW g \in 1..Pushes, Answered(g)
  PROVE  /\ generation' = generation /\ runtime' = runtime
         /\ push[g].at = "answered"
         /\ \E q \in Push :
              /\ push' = [push EXCEPT ![g] = q]
              /\ q.content = push[g].content
              /\ \/ q.at \in {"get", "sleep"} /\ file' = file
                 \/ /\ q.at = "settled" /\ file' = file
                    /\ push[g].answer = "ok" \/ g # generation
                 \/ q.at = "settled" /\ file' = push[g].content
<1>1. /\ push \in [1..Pushes -> Push] /\ push[g] \in Push /\ push[g].content \in Contents
      /\ push[g].at = "answered" /\ generation' = generation /\ runtime' = runtime
  BY DEF PushInv, PushTypeOK, Push, Answered
<1>2. Settled(g) \in Push /\ Settled(g).at = "settled" /\ Settled(g).content = push[g].content
  <2>1. Settled(g) = [NoPush EXCEPT !.at = "settled", !.content = push[g].content]
    BY DEF Settled
  <2> QED BY <1>1, <2>1, NoPushType DEF NoPush
<1>3. CASE /\ push[g].answer = "ok" \/ Superseded(g)
           /\ push' = [push EXCEPT ![g] = Settled(g)] /\ UNCHANGED file
  BY <1>1, <1>2, <1>3 DEF Superseded
<1>4. CASE FallsBack(g)
  BY <1>1, <1>2, <1>4 DEF FallsBack
<1>5. ASSUME NEW q, Retries(g, q), q \in Push, q.content = push[g].content, q.at \in {"get", "sleep"}
      PROVE  \E r \in Push :
               /\ push' = [push EXCEPT ![g] = r]
               /\ r.content = push[g].content
               /\ r.at \in {"get", "sleep"} /\ file' = file
  BY <1>5 DEF Retries
<1>6. CASE RateLimited(g)
  <2>1. CASE push[g].rate < MaxRate
    <3> DEFINE q == [Sleeps(g) EXCEPT !.rate = @ + 1]
    <3>0. push[g].rate + 1 \in 0..MaxRate
      BY <1>1, <2>1, ConfigPushAssumption DEF Push
    <3>1. q \in Push /\ q.content = push[g].content /\ q.at \in {"get", "sleep"}
      BY <1>1, <3>0 DEF Sleeps, Push, Answers
    <3>2. Retries(g, q)
      BY <1>6, <2>1 DEF RateLimited
    <3> HIDE DEF q
    <3> QED BY <1>1, <1>5, <3>1, <3>2
  <2> QED BY <1>4, <1>6, <1>1, <2>1 DEF RateLimited
<1>7. CASE StaleHash(g)
  <2> DEFINE q == [push[g] EXCEPT !.at = "get", !.answer = "none", !.stale = @ + 1]
  <2>0. push[g].stale + 1 \in 0..MaxStale
    BY <1>1, <1>7, ConfigPushAssumption DEF StaleHash, Push
  <2>1. q \in Push /\ q.content = push[g].content /\ q.at \in {"get", "sleep"}
    BY <1>1, <2>0 DEF Push, Answers
  <2>2. Retries(g, q)
    BY <1>7 DEF StaleHash
  <2> HIDE DEF q
  <2> QED BY <1>1, <1>5, <2>1, <2>2
<1>8. CASE NotConnected(g)
  <2> DEFINE q == [Sleeps(g) EXCEPT !.down = @ + 1]
  <2>0. push[g].down + 1 \in 0..MaxDown
    BY <1>1, <1>8, ConfigPushAssumption DEF NotConnected, Push
  <2>1. q \in Push /\ q.content = push[g].content /\ q.at \in {"get", "sleep"}
    BY <1>1, <2>0 DEF Sleeps, Push, Answers
  <2>2. Retries(g, q)
    BY <1>8 DEF NotConnected
  <2> HIDE DEF q
  <2> QED BY <1>1, <1>5, <2>1, <2>2
<1>9. CASE Otherwise(g)
  <2>1. CASE push[g].i < Attempts
    <3> DEFINE q == [Sleeps(g) EXCEPT !.i = @ + 1]
    <3>0. push[g].i + 1 \in 1..Attempts
      <4>1. push[g].i \in 1..Attempts
        BY <1>1 DEF Push
      <4> QED BY <2>1, <4>1, ConfigPushAssumption
    <3>1. q \in Push /\ q.content = push[g].content /\ q.at \in {"get", "sleep"}
      BY <1>1, <3>0 DEF Sleeps, Push, Answers
    <3>2. Retries(g, q)
      BY <1>9, <2>1 DEF Otherwise
    <3> HIDE DEF q
    <3> QED BY <1>1, <1>5, <3>1, <3>2
  <2> QED BY <1>4, <1>9, <1>1, <2>1 DEF Otherwise
<1> QED BY <1>3, <1>6, <1>7, <1>8, <1>9 DEF Answered

\* A step that takes one push on without touching the gateway.
LEMMA PushMoves ==
  ASSUME PushInv, NEW g \in 1..Pushes, NEW q \in Push,
         push[g].at # "none", q.at # "none",
         push' = [push EXCEPT ![g] = q], q.content = push[g].content,
         UNCHANGED <<generation, runtime, file>>,
         q.at = "got" => q.base <= generation, q.at = "apply" => q.base <= g,
         g = generation =>
            \/ q.at \in {"get", "apply", "sleep"}
            \/ q.at = "got" /\ (q.config = g => Landed)
            \/ q.at = "answered" /\ q.answer # "ok"
            \/ q.at = "settled" /\ Landed
  PROVE  PushInv'
<1>1. push \in [1..Pushes -> Push]
  BY DEF PushInv, PushTypeOK
<1>2. push' \in [1..Pushes -> Push] /\ push'[g] = q /\ \A h \in 1..Pushes \ {g} : push'[h] = push[h]
  BY <1>1
<1>3. PushTypeOK'
  BY <1>2 DEF PushInv, PushTypeOK
<1>4. OwnContent'
  <2>1. generation \in 0..Pushes
    BY DEF PushInv, PushTypeOK
  <2> QED BY <1>1, <1>2, <2>1, ConfigPushAssumption DEF PushInv, OwnContent
<1>5. NothingAhead'
  BY <1>1, <1>2 DEF PushInv, NothingAhead
<1>6. BeliefsTrue'
  BY <1>1, <1>2 DEF PushInv, BeliefsTrue, Landed
<1> QED BY <1>3, <1>4, <1>5, <1>6 DEF PushInv

-----------------------------------------------------------------------------
(* The invariant. *)

\* It holds at the start,
LEMMA PushInvInit == PushInit => PushInv
<1> SUFFICES ASSUME PushInit PROVE PushInv OBVIOUS
<1>1. PushTypeOK
  <2>1. 0 \in 0..Pushes
    BY ConfigPushAssumption
  <2>2. push \in [1..Pushes -> Push]
    BY NoPushType DEF PushInit
  <2> QED BY <2>1, <2>2 DEF PushInit, PushTypeOK, Contents
<1>2. OwnContent /\ NothingAhead /\ BeliefsTrue
  BY ConfigPushAssumption DEF PushInit, OwnContent, NothingAhead, BeliefsTrue, Landed, NoPush
<1> QED BY <1>1, <1>2 DEF PushInv

\* a new push puts everybody else behind,
LEMMA PushStartKeeps ==
  ASSUME ~Reverts, PushInv, NEW g \in 1..Pushes, PushStarts(g)
  PROVE  PushInv'
<1>1. /\ push \in [1..Pushes -> Push] /\ generation \in 0..Pushes
      /\ runtime \in 0..Pushes /\ file \in 0..Pushes
  BY DEF PushInv, PushTypeOK, Contents
<1>2. g = generation + 1 /\ generation' = g /\ runtime' = runtime
  BY DEF PushStarts
<1>3. PICK q \in Push :
        /\ push' = [push EXCEPT ![g] = q] /\ q.content = g
        /\ (q.at = "get" /\ file' = file) \/ (q.at = "settled" /\ file' = g)
  <2>1. g \in Contents /\ NewContents(g) = {g}
    BY ConfigPushAssumption DEF Contents, NewContents
  <2> DEFINE q(s) == [NoPush EXCEPT !.at = s, !.content = g]
  <2>2. \A s \in {"get", "settled"} : q(s) \in Push
    BY <2>1, NoPushType
  <2>3. \A s \in {"get", "settled"} : q(s).content = g /\ q(s).at = s
    BY DEF NoPush
  <2>4. \/ push' = [push EXCEPT ![g] = q("get")] /\ file' = file
        \/ push' = [push EXCEPT ![g] = q("settled")] /\ file' = g
    BY <2>1 DEF PushStarts
  <2> HIDE DEF q
  <2>5. q("get") \in Push /\ q("get").content = g /\ q("get").at = "get"
    BY <2>2, <2>3
  <2>6. q("settled") \in Push /\ q("settled").content = g /\ q("settled").at = "settled"
    BY <2>2, <2>3
  <2> QED BY <2>4, <2>5, <2>6
<1>5. push' \in [1..Pushes -> Push] /\ push'[g] = q /\ \A h \in 1..Pushes \ {g} : push'[h] = push[h]
  BY <1>1, <1>3
<1>6. PushTypeOK'
  BY <1>1, <1>2, <1>3, <1>5, ConfigPushAssumption DEF PushTypeOK, Contents
<1>7. OwnContent'
  <2>1. \A h \in 1..g : h \in 1..generation \/ h = g
    BY <1>1, <1>2
  <2>2. \A h \in 1..generation : h \in 1..Pushes \ {g} /\ push[h].content = h
    BY <1>1, <1>2, ConfigPushAssumption DEF PushInv, OwnContent
  <2>3. \A h \in 1..Pushes : push'[h].at # "none" => h <= g
    BY <1>1, <1>2, <1>5 DEF PushInv, OwnContent
  <2>4. g <= generation' /\ push'[g].at # "none"
    BY <1>1, <1>2, <1>3, <1>5
  <2> QED BY <1>1, <1>2, <1>3, <1>5, <2>1, <2>2, <2>3, <2>4, ConfigPushAssumption DEF PushInv, OwnContent
<1>8. NothingAhead'
  <2>1. \A h \in 1..Pushes : push[h].base \in 0..Pushes
    BY <1>1 DEF Push, Contents
  <2>2. file' <= g /\ runtime' <= g
    BY <1>1, <1>2, <1>3 DEF PushInv, NothingAhead
  <2>3. \A h \in 1..Pushes \ {g} : push'[h].at = "got" => push'[h].base <= g
    BY <1>1, <1>2, <1>5, <2>1 DEF PushInv, NothingAhead
  <2> QED BY <1>2, <1>3, <1>5, <2>2, <2>3 DEF PushInv, NothingAhead
<1>9. BeliefsTrue'
  BY <1>1, <1>2, <1>3, <1>5 DEF PushInv, NothingAhead, BeliefsTrue, Landed
<1> QED BY <1>6, <1>7, <1>8, <1>9 DEF PushInv

\* an apply is only taken from a push that knows what it replaces,
LEMMA ApplyKeeps ==
  ASSUME PushInv, NEW g \in 1..Pushes, GatewayApplies(g)
  PROVE  PushInv'
<1>1. /\ push \in [1..Pushes -> Push] /\ generation \in 0..Pushes
      /\ runtime \in 0..Pushes /\ file \in 0..Pushes
      /\ push[g] \in Push /\ push[g].at = "apply" /\ push[g].base <= g
      /\ g <= generation /\ push[g].content = g
  BY DEF PushInv, PushTypeOK, Contents, GatewayApplies, NothingAhead, OwnContent
<1>2. PICK a \in {"ok", "stale", "rate", "down", "other"} :
        /\ ComesBack(g, a) /\ generation' = generation
        /\ \/ push[g].base = file /\ runtime' = g /\ file' = g
           \/ a # "ok" /\ UNCHANGED <<runtime, file>>
  BY <1>1 DEF GatewayApplies
<1> DEFINE q == [push[g] EXCEPT !.at = "answered", !.answer = a, !.config = 0, !.base = 0]
<1>3. q \in Push /\ q.content = g /\ q.at = "answered" /\ q.answer = a
  <2>1. 0 \in Contents
    BY ConfigPushAssumption DEF Contents
  <2> QED BY <1>1, <2>1 DEF Push, Answers
<1>4. push' = [push EXCEPT ![g] = q]
  BY <1>1, <1>2 DEF ComesBack
<1> HIDE DEF q
<1>5. CASE a # "ok" /\ UNCHANGED <<runtime, file>>
  BY <1>1, <1>2, <1>3, <1>4, <1>5, PushMoves
<1>6. CASE push[g].base = file /\ runtime' = g /\ file' = g
  <2>1. push' \in [1..Pushes -> Push] /\ push'[g] = q /\ \A h \in 1..Pushes \ {g} : push'[h] = push[h]
    BY <1>1, <1>3, <1>4
  <2>2. PushTypeOK'
    BY <1>1, <1>2, <1>6, <2>1 DEF PushTypeOK, Contents
  <2>3. OwnContent'
    BY <1>1, <1>2, <1>3, <2>1, ConfigPushAssumption DEF PushInv, OwnContent
  <2>4. NothingAhead'
    BY <1>1, <1>2, <1>3, <1>6, <2>1 DEF PushInv, NothingAhead
  \* A push that lags behind cannot have based its apply on the newest content.
  <2>5. g # generation => ~Landed
    BY <1>1, <1>6 DEF Landed
  <2>6. BeliefsTrue'
    BY <1>1, <1>2, <1>3, <1>6, <2>1, <2>5 DEF PushInv, BeliefsTrue, Landed
  <2> QED BY <2>2, <2>3, <2>4, <2>6 DEF PushInv
<1> QED BY <1>2, <1>5, <1>6

\* and an answer settles a push that is not the newest, was told `ok`, or writes the file.
LEMMA AnswerKeeps ==
  ASSUME PushInv, NEW g \in 1..Pushes, Answered(g)
  PROVE  PushInv'
<1>1. /\ push \in [1..Pushes -> Push] /\ generation \in 0..Pushes
      /\ runtime \in 0..Pushes /\ file \in 0..Pushes
      /\ push[g].at = "answered" /\ g <= generation /\ push[g].content = g
      /\ generation' = generation /\ runtime' = runtime
  BY AnswerEffect DEF PushInv, PushTypeOK, Contents, OwnContent
<1>2. PICK q \in Push :
        /\ push' = [push EXCEPT ![g] = q]
        /\ q.content = push[g].content
        /\ \/ q.at \in {"get", "sleep"} /\ file' = file
           \/ /\ q.at = "settled" /\ file' = file
              /\ push[g].answer = "ok" \/ g # generation
           \/ q.at = "settled" /\ file' = push[g].content
  BY AnswerEffect
<1>3. CASE q.at \in {"get", "sleep"} /\ file' = file
  BY <1>1, <1>2, <1>3, PushMoves
<1>4. CASE q.at = "settled" /\ file' = file /\ (push[g].answer = "ok" \/ g # generation)
  <2>1. g = generation => Landed
    BY <1>1, <1>4 DEF PushInv, BeliefsTrue
  <2> QED BY <1>1, <1>2, <1>4, <2>1, PushMoves
<1>5. CASE q.at = "settled" /\ file' = push[g].content /\ g = generation
  <2>1. push' \in [1..Pushes -> Push] /\ push'[g] = q /\ \A h \in 1..Pushes \ {g} : push'[h] = push[h]
    BY <1>1, <1>2
  <2>2. PushTypeOK'
    BY <1>1, <1>5, <2>1 DEF PushTypeOK, Contents
  <2>3. OwnContent'
    BY <1>1, <1>2, <2>1 DEF PushInv, OwnContent
  <2>4. NothingAhead' /\ BeliefsTrue'
    BY <1>1, <1>5, <2>1 DEF PushInv, NothingAhead, BeliefsTrue, Landed
  <2> QED BY <2>2, <2>3, <2>4 DEF PushInv
\* The file is only written by the newest push.
<1>6. CASE q.at = "settled" /\ file' = push[g].content /\ g # generation
  <2>1. file' = file
    BY <1>6 DEF Answered, Superseded, Settled
  <2> QED BY <1>1, <1>2, <1>6, <2>1, PushMoves
<1> QED BY <1>2, <1>3, <1>4, <1>5, <1>6

\* It is kept by every step,
LEMMA PushInvNext == ASSUME ~Reverts, PushInv, [PushNext]_pushVars PROVE PushInv'
<1>1. CASE UNCHANGED pushVars
  BY <1>1 DEF pushVars, PushInv, PushTypeOK, OwnContent, NothingAhead, BeliefsTrue, Landed
<1>2. CASE FileReloads
  BY <1>2 DEF FileReloads, PushInv, PushTypeOK, OwnContent, NothingAhead, BeliefsTrue, Landed
<1>3. ASSUME NEW g \in 1..Pushes, GatewayReads(g) PROVE PushInv'
  <2>1. /\ push[g] \in Push /\ push[g].at = "get" /\ runtime \in Contents /\ file \in Contents
    BY <1>3 DEF PushInv, PushTypeOK, GatewayReads
  <2>2. CASE push' = [push EXCEPT ![g].at = "got", ![g].config = runtime, ![g].base = file]
    <3> DEFINE q == [push[g] EXCEPT !.at = "got", !.config = runtime, !.base = file]
    <3>1. q \in Push /\ q.content = push[g].content /\ q.at = "got" /\ q.config = runtime /\ q.base <= generation
      BY <2>1 DEF Push, PushInv, NothingAhead
    <3>2. push' = [push EXCEPT ![g] = q]
      BY <2>1, <2>2 DEF PushInv, PushTypeOK
    <3> HIDE DEF q
    <3>3. g = generation /\ q.config = g => Landed
      BY <3>1 DEF PushInv, BeliefsTrue
    <3> QED BY <1>3, <2>1, <3>1, <3>2, <3>3, PushMoves DEF GatewayReads
  <2>3. CASE \E a \in {"down", "other"} : ComesBack(g, a)
    <3>1. PICK a \in {"down", "other"} : ComesBack(g, a)
      BY <2>3
    <3> DEFINE q == [push[g] EXCEPT !.at = "answered", !.answer = a, !.config = 0, !.base = 0]
    <3>2. q \in Push /\ q.content = push[g].content /\ q.at = "answered" /\ q.answer = a
      <4>1. 0 \in Contents
        BY ConfigPushAssumption DEF Contents
      <4> QED BY <2>1, <4>1 DEF Push, Answers
    <3>3. push' = [push EXCEPT ![g] = q]
      BY <2>1, <3>1 DEF ComesBack, PushInv, PushTypeOK
    <3> HIDE DEF q
    <3> QED BY <1>3, <2>1, <3>2, <3>3, PushMoves DEF GatewayReads
  <2> QED BY <1>3, <2>2, <2>3 DEF GatewayReads
<1>4. ASSUME NEW g \in 1..Pushes, GetReturns(g) \/ Wakes(g) PROVE PushInv'
  <2>1. /\ push[g] \in Push /\ push[g].at \in {"got", "sleep"} /\ push[g].content = g
        /\ g <= generation /\ generation \in 0..Pushes
    BY <1>4 DEF PushInv, PushTypeOK, GetReturns, Wakes, OwnContent
  <2>2. Settled(g) \in Push /\ Settled(g).at = "settled" /\ Settled(g).content = push[g].content
    <3>1. push[g].content \in Contents /\ Settled(g) = [NoPush EXCEPT !.at = "settled", !.content = push[g].content]
      BY <2>1 DEF Settled, Push
    <3> QED BY <3>1, NoPushType DEF NoPush
  <2>3. CASE push' = [push EXCEPT ![g] = Settled(g)]
             /\ (Superseded(g) \/ (push[g].at = "got" /\ push[g].config = push[g].content))
    <3>1. g = generation => Landed
      BY <2>1, <2>3 DEF PushInv, BeliefsTrue, Superseded
    <3> QED BY <1>4, <2>1, <2>2, <2>3, <3>1, PushMoves DEF GetReturns, Wakes
  <2>4. CASE push[g].at = "got" /\ ~Superseded(g) /\ push' = [push EXCEPT ![g].at = "apply"]
    <3> DEFINE q == [push[g] EXCEPT !.at = "apply"]
    <3>1. q \in Push /\ q.content = push[g].content /\ q.at = "apply" /\ q.base = push[g].base
      BY <2>1 DEF Push
    <3>2. push' = [push EXCEPT ![g] = q]
      BY <2>4 DEF PushInv, PushTypeOK
    <3> HIDE DEF q
    <3>3. push[g].base <= g
      BY <1>4, <2>1, <2>4 DEF Superseded, PushInv, NothingAhead
    <3> QED BY <1>4, <2>1, <3>1, <3>2, <3>3, PushMoves DEF GetReturns, Wakes
  <2>5. CASE push[g].at = "sleep" /\ push' = [push EXCEPT ![g].at = "get"]
    <3> DEFINE q == [push[g] EXCEPT !.at = "get"]
    <3>1. q \in Push /\ q.content = push[g].content /\ q.at = "get"
      BY <2>1 DEF Push
    <3>2. push' = [push EXCEPT ![g] = q]
      BY <2>5 DEF PushInv, PushTypeOK
    <3> HIDE DEF q
    <3> QED BY <1>4, <2>1, <3>1, <3>2, PushMoves DEF GetReturns, Wakes
  <2>6. CASE GetReturns(g)
    <3>1. CASE Superseded(g) \/ push[g].config = push[g].content
      <4>1. push' = [push EXCEPT ![g] = Settled(g)]
        BY <2>6, <3>1 DEF GetReturns
      <4> QED BY <2>3, <2>6, <3>1, <4>1 DEF GetReturns, Superseded
    <3>2. CASE ~(Superseded(g) \/ push[g].config = push[g].content)
      BY <2>4, <2>6, <3>2 DEF GetReturns, Superseded
    <3> QED BY <3>1, <3>2
  <2>7. CASE Wakes(g)
    <3>1. CASE Superseded(g)
      <4>1. push' = [push EXCEPT ![g] = Settled(g)]
        BY <2>7, <3>1 DEF Wakes
      <4> QED BY <2>3, <3>1, <4>1 DEF Superseded
    <3>2. CASE ~Superseded(g)
      BY <2>5, <2>7, <3>2 DEF Wakes, Superseded
    <3> QED BY <3>1, <3>2
  <2> QED BY <1>4, <2>6, <2>7
<1>5. CASE \E g \in 1..Pushes : PushStarts(g) \/ GatewayApplies(g) \/ Answered(g)
  BY <1>5, PushStartKeeps, ApplyKeeps, AnswerKeeps
<1> QED BY <1>1, <1>2, <1>3, <1>4, <1>5 DEF PushNext, PushGoesOn

\* and so holds always.
LEMMA PushInvAlways == ASSUME ~Reverts PROVE PushSpec => []PushInv
<1>1. PushInit => PushInv
  BY PushInvInit
<1>2. PushInv /\ [PushNext]_pushVars => PushInv'
  BY PushInvNext
<1> QED BY <1>1, <1>2, PTL DEF PushSpec

-----------------------------------------------------------------------------
(* The results. *)

\* No pending push is none that has started and not settled.
LEMMA NonePending ==
  ASSUME Pending = 0, NEW g \in 1..Pushes
  PROVE  push[g].at \in {"none", "settled"}
<1> DEFINE P == {h \in 1..Pushes : push[h].at \notin {"none", "settled"}}
<1>1. IsFiniteSet(P)
  <2>1. IsFiniteSet(1..Pushes)
    BY ConfigPushAssumption, FS_Interval
  <2> QED BY <2>1, FS_Subset
<1>2. P = {}
  BY <1>1, FS_EmptySet DEF Pending
<1> QED BY <1>2

\* "A stale payload can never land on top of a newer one": when every push has settled
\* and the file is loaded, the gateway works with what the newest push said.
THEOREM NewestWins == ASSUME ~Reverts PROVE PushSpec => []NewestDelivered
<1>1. ASSUME PushInv PROVE NewestDelivered
  <2>1. SUFFICES ASSUME Pending = 0, runtime = file, generation > 0
                 PROVE  runtime = push[generation].content
    BY DEF NewestDelivered
  <2>2. generation \in 1..Pushes /\ push[generation].content = generation
    BY <1>1, <2>1, ConfigPushAssumption DEF PushInv, PushTypeOK, OwnContent
  <2>3. push[generation].at = "settled"
    BY <1>1, <2>1, <2>2, NonePending DEF PushInv, OwnContent
  <2> QED BY <1>1, <2>1, <2>2, <2>3 DEF PushInv, BeliefsTrue, Landed
<1>2. PushInv => NewestDelivered
  BY <1>1
<1> QED BY <1>2, PushInvAlways, PTL

=============================================================================
