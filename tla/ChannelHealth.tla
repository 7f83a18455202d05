----------------------------- MODULE ChannelHealth -----------------------------
(***************************************************************************)
(* The channel-health watchdog for one channel account: the ticks of its   *)
(* interval timer, the tracker they share and the decisions to restart or  *)
(* to auto-disable a bot whose polling conflicts with another one          *)
(* (channel-health-watchdog.ts, channel-conflict-restart.ts).              *)
(*                                                                         *)
(* Nothing keeps a tick from starting while another one awaits, so ticks   *)
(* interleave at their awaits.  A tick goes through all accounts one after *)
(* the other: it reaches this one some time after its probe was answered.  *)
(* A tracker is an object; a tick keeps the one it fetched even when it    *)
(* has been dropped from the map meanwhile.                                *)
(***************************************************************************)
EXTENDS Naturals, FiniteSets

CONSTANTS
    ProbeTicks,     \* bound: ticks the model can hold at once
    Trackers,       \* tracker objects, 1 .. Trackers; one the map and the ticks have
                    \* all let go of is used again
    TerminalAfter,  \* terminalAfterConsecutiveDegraded
    MaxSpacing,     \* MAX_RESTART_SPACING_TICKS
    DisableAfter,   \* AUTO_DISABLE_AFTER_RESTART_ATTEMPTS
    MaxRestartTries,    \* MAX_CONFLICT_RESTART_ATTEMPTS
    MaxDegraded     \* bound: degraded probes counted in an episode

ASSUME ChannelHealthAssumption ==
    /\ IsFiniteSet(ProbeTicks)
    /\ Trackers \in Nat /\ Cardinality(ProbeTicks) <= Trackers
    /\ TerminalAfter \in Nat \ {0} /\ MaxSpacing \in Nat \ {0}
    /\ DisableAfter \in Nat /\ MaxRestartTries \in Nat /\ MaxDegraded \in Nat
    /\ DisableAfter < MaxRestartTries

VARIABLES
    restartEnabled,     \* the feature flag; without it there is only the edge decision
    tracker,    \* [1 .. Trackers -> tracker objects]
    current,    \* the one in the map, 0: none
    probe,      \* [ProbeTicks -> where the tick is]
    restartedAt,    \* the tracker's count at the last restart
    disables    \* auto-disables since the episode began: none, one, more

healthVars == <<restartEnabled, tracker, current, probe, restartedAt, disables>>

Tracker == [degraded: BOOLEAN, count: 0..MaxDegraded, auditedDegraded: BOOLEAN,
            auditedFailed: BOOLEAN, attempts: 0..MaxRestartTries, next: Nat, done: BOOLEAN]

\* next = 0: no decision is scheduled.
Healthy == [degraded |-> FALSE, count |-> 0, auditedDegraded |-> FALSE,
            auditedFailed |-> FALSE, attempts |-> 0, next |-> 0, done |-> FALSE]

\* What classifyChannelStatus makes of the account.
Readings == {"healthy", "degraded", "conflict", "absent"}

HealthTypeOK ==
    /\ restartEnabled \in BOOLEAN
    /\ tracker \in [1..Trackers -> Tracker]
    /\ current \in 0..Trackers 
    /\ probe \in [ProbeTicks -> [at: {"idle", "probe", "turn", "degraded", "failed", "age",
                                      "disable", "restart", "recovered"},
                                 reading: Readings, mine: 0..Trackers]]
    /\ restartedAt \in 0..MaxDegraded /\ disables \in 0..2

IdleProbe == [at |-> "idle", reading |-> "absent", mine |-> 0]

HealthInit ==
    /\ restartEnabled \in BOOLEAN
    /\ tracker = [g \in 1..Trackers |-> Healthy]
    /\ current = 0
    /\ probe = [t \in ProbeTicks |-> IdleProbe]
    /\ restartedAt = 0 /\ disables = 0

Spacing(attempt) ==
    LET doubled == TerminalAfter * 2^attempt IN IF doubled < MaxSpacing THEN doubled ELSE MaxSpacing

\* The interval fires whether or not the last tick has ended.
ProbeStarts(t) ==
    /\ probe[t].at = "idle"
    /\ probe' = [probe EXCEPT ![t].at = "probe"]
    /\ UNCHANGED <<restartEnabled, tracker, current, restartedAt, disables>>

\* The gateway answers, or does not; then the accounts before this one have their turn.
ProbeAnswers(t) ==
    /\ probe[t].at = "probe"
    /\ \/ \E r \in Readings : probe' = [probe EXCEPT ![t].at = "turn", ![t].reading = r]
       \/ probe' = [probe EXCEPT ![t] = IdleProbe]
    /\ UNCHANGED <<restartEnabled, tracker, current, restartedAt, disables>>

-----------------------------------------------------------------------------
(* handleConflictDecision: tick t, whose tracker g now has the value o. *)

TickEnds(t) == probe' = [probe EXCEPT ![t] = IdleProbe]

Awaits(t, g, stage) == probe' = [probe EXCEPT ![t].at = stage, ![t].mine = g]

\* Mutant: the next decision is not scheduled.
RestartUnscheduled(t, g, o) ==
    \/ /\ o.attempts < MaxRestartTries
       /\ tracker' = [tracker EXCEPT ![g] = [o EXCEPT !.attempts = @ + 1]]
       /\ restartedAt' = o.count
       /\ Awaits(t, g, "restart")
    \/ /\ o.attempts >= MaxRestartTries
       /\ tracker' = [tracker EXCEPT ![g] = [o EXCEPT !.done = TRUE]]
       /\ TickEnds(t) /\ UNCHANGED restartedAt

\* One more restart, unless the episode had its share of them.
Restart(t, g, o) ==
    \/ /\ o.attempts < MaxRestartTries
       /\ tracker' = [tracker EXCEPT ![g] =
            [o EXCEPT !.attempts = @ + 1, !.next = o.count + Spacing(o.attempts + 1)]]
       /\ restartedAt' = o.count
       /\ Awaits(t, g, "restart")
    \/ /\ o.attempts >= MaxRestartTries
       /\ tracker' = [tracker EXCEPT ![g] = [o EXCEPT !.done = TRUE]]
       /\ TickEnds(t) /\ UNCHANGED restartedAt

Decide(t, g, o) ==
    \/ /\ probe[t].reading # "conflict"
       /\ tracker' = [tracker EXCEPT ![g] = o]
       /\ TickEnds(t) /\ UNCHANGED restartedAt
    \/ /\ probe[t].reading = "conflict"
       /\ \/ /\ ~restartEnabled \/ o.attempts >= DisableAfter
             /\ tracker' = [tracker EXCEPT ![g] = o]
             /\ Awaits(t, g, "age") /\ UNCHANGED restartedAt
          \/ /\ restartEnabled /\ o.attempts < DisableAfter
             /\ Restart(t, g, o)

\* Past the channel.degraded audit: the escalation, a scheduled decision that is
\* due, or a conflict that shows itself only now.
Escalate(t, g, o) ==
    \/ /\ o.count >= TerminalAfter /\ ~o.auditedFailed
       /\ tracker' = [tracker EXCEPT ![g] = [o EXCEPT !.auditedFailed = TRUE]]
       /\ Awaits(t, g, "failed") /\ UNCHANGED restartedAt
    \/ /\ o.auditedFailed
       /\ LET due == IF o.next # 0 THEN o.count >= o.next
                     ELSE restartEnabled /\ probe[t].reading = "conflict"
          IN IF ~o.done /\ due
             THEN Decide(t, g, o)
             ELSE /\ tracker' = [tracker EXCEPT ![g] = o]
                  /\ TickEnds(t) /\ UNCHANGED restartedAt
    \/ /\ o.count < TerminalAfter /\ ~o.auditedFailed
       /\ tracker' = [tracker EXCEPT ![g] = o]
       /\ TickEnds(t) /\ UNCHANGED restartedAt

-----------------------------------------------------------------------------
(* The account's turn in a tick. *)

\* The tracker in the map, or a new one.
Holders(g) == {t \in ProbeTicks : probe[t].mine = g}

Mine == IF current # 0 THEN current ELSE CHOOSE g \in 1..Trackers : Holders(g) = {}

MyTracker == IF current # 0 THEN tracker[current] ELSE Healthy

TurnDegraded(t) ==
    LET old == MyTracker
        o == [old EXCEPT !.degraded = TRUE, !.count = IF old.degraded THEN @ + 1 ELSE 1]
    IN /\ probe[t].at = "turn" /\ probe[t].reading \in {"degraded", "conflict"}
       /\ o.count <= MaxDegraded
       /\ current' = Mine
       /\ IF o.auditedDegraded
          THEN Escalate(t, Mine, o)
          ELSE /\ tracker' = [tracker EXCEPT ![Mine] = [o EXCEPT !.auditedDegraded = TRUE]]
               /\ Awaits(t, Mine, "degraded") /\ UNCHANGED restartedAt
       /\ disables' = IF old.degraded THEN disables ELSE 0
       /\ UNCHANGED restartEnabled

\* A healthy reading ends the episode, after its channel.recovered audit.
TurnHealthy(t) ==
    /\ probe[t].at = "turn" /\ probe[t].reading = "healthy"
    /\ current' = Mine
    /\ IF MyTracker.degraded
       THEN Awaits(t, Mine, "recovered") /\ UNCHANGED tracker
       ELSE TickEnds(t) /\ tracker' = [tracker EXCEPT ![Mine] = Healthy]
    /\ UNCHANGED <<restartEnabled, restartedAt, disables>>

\* An account the status does not name any more loses its tracker; an object that
\* nobody holds then is as good as new.
TurnAbsent(t) ==
    /\ probe[t].at = "turn" /\ probe[t].reading = "absent"
    /\ current' = 0
    /\ tracker' = [g \in 1..Trackers |-> IF Holders(g) = {} THEN Healthy ELSE tracker[g]]
    /\ TickEnds(t)
    /\ UNCHANGED <<restartEnabled, restartedAt, disables>>

Recovered(t) ==
    /\ probe[t].at = "recovered"
    /\ tracker' = [tracker EXCEPT ![probe[t].mine] = Healthy]
    /\ TickEnds(t)
    /\ UNCHANGED <<restartEnabled, current, restartedAt, disables>>

\* The audit has been written, or has failed and was logged: the tick goes on with
\* whatever the tracker holds now.
AuditReturns(t) ==
    LET g == probe[t].mine IN
    /\ \/ probe[t].at = "degraded" /\ Escalate(t, g, tracker[g])
       \/ probe[t].at = "failed" /\ Decide(t, g, tracker[g])
    /\ UNCHANGED <<restartEnabled, current, disables>>

\* maybeAutoDisable declines: old enough, of unknown age, or the call failed.
Declined(t) ==
    LET g == probe[t].mine IN
    \/ restartEnabled /\ Restart(t, g, tracker[g])
    \/ ~restartEnabled /\ TickEnds(t) /\ UNCHANGED <<tracker, restartedAt>>

AgeAnswers(t) ==
    /\ probe[t].at = "age"
    /\ \/ Declined(t)
       \/ /\ probe' = [probe EXCEPT ![t].at = "disable"]
          /\ UNCHANGED <<tracker, restartedAt>>
    /\ UNCHANGED <<restartEnabled, current, disables>>

\* Mutant: the episode is not marked as dealt with.
DisabledUnmarked(t) ==
    /\ probe[t].at = "disable"
    /\ disables' = IF disables < 2 THEN disables + 1 ELSE 2
    /\ TickEnds(t)
    /\ UNCHANGED <<restartEnabled, tracker, current, restartedAt>>

\* autoDisableConflictedAccount went through; only the restart mode marks the episode.
Disabled(t) ==
    /\ probe[t].at = "disable"
    /\ disables' = IF disables < 2 THEN disables + 1 ELSE 2
    /\ tracker' = IF restartEnabled THEN [tracker EXCEPT ![probe[t].mine].done = TRUE] ELSE tracker
    /\ TickEnds(t)
    /\ UNCHANGED <<restartEnabled, current, restartedAt>>

DisableFails(t) ==
    /\ probe[t].at = "disable"
    /\ Declined(t)
    /\ UNCHANGED <<restartEnabled, current, disables>>

\* channels.stop and channels.start have been asked for, whatever came of them.
RestartReturns(t) ==
    /\ probe[t].at = "restart"
    /\ TickEnds(t)
    /\ UNCHANGED <<restartEnabled, tracker, current, restartedAt, disables>>

-----------------------------------------------------------------------------
ProbeGoesOn(t) ==
    \/ ProbeAnswers(t) \/ TurnDegraded(t) \/ TurnHealthy(t) \/ TurnAbsent(t)
    \/ Recovered(t) \/ AuditReturns(t) \/ AgeAnswers(t)
    \/ Disabled(t) \/ DisableFails(t) \/ RestartReturns(t)

HealthNext == \E t \in ProbeTicks : ProbeStarts(t) \/ ProbeGoesOn(t)

HealthSpec == HealthInit /\ [][HealthNext]_healthVars

-----------------------------------------------------------------------------
(* What the watchdog promises. *)

\* "Called at the polling_failed edge and then at exponentially spaced tick offsets
\* while the conflict persists" (ChannelHealthDeps): a restart waits out the spacing
\* after the one before it in its episode.
RestartsPaced ==
    [][\A g \in 1..Trackers :
         tracker'[g].attempts > tracker[g].attempts /\ tracker[g].attempts > 0 =>
             tracker'[g].count >= restartedAt + Spacing(tracker[g].attempts)]_healthVars

\* "Called at most once per degradation episode" (ChannelHealthDeps).
DisabledOnce == disables <= 1

=============================================================================
