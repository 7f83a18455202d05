------------------------------ MODULE ChatRuns ------------------------------
(***************************************************************************)
(* The runs of one chat session: the registry of active runs, the pipe     *)
(* that copies an OpenClaw stream to the browser, the watchdog for runs    *)
(* that never start, the stop button, and the history request of a tab     *)
(* that reconnects.                                                        *)
(*                                                                         *)
(* JavaScript runs one task at a time up to its next await, so a step is   *)
(* the code between two awaits.  The watchdog and a history request hold   *)
(* on to the registry's objects across awaits, so an object is named by    *)
(* the dispatch that made it, and current is the one the map still has.    *)
(*                                                                         *)
(* The OpenClaw side is left free: any stream may be silent, be answered,  *)
(* fail, end or break at any time, whether or not it was aborted.          *)
(***************************************************************************)
EXTENDS Naturals, FiniteSets

CONSTANTS
    MaxRuns,    \* bound: messages sent; each is dispatched once and has one pipe
    Tabs,       \* browser sockets
    NoTab,
    MaxTexts,   \* bound: text chunks of one stream
    MaxEvents   \* bound: stops, reloads, departing tabs and gateway drops

ASSUME ChatAssumption ==
    /\ MaxRuns \in Nat
    /\ NoTab \notin Tabs
    /\ MaxTexts \in Nat /\ MaxEvents \in Nat

\* Runs are numbered as they are dispatched.
Runs == 1..MaxRuns
NoRun == 0

VARIABLES
    current,    \* the run the registry has for the session
    entry,      \* [Runs -> the registry object made by the dispatch]
    pipe,       \* [Runs -> where pipe() is, its local variables]
    failures,   \* runs whose durable failure row stands: what a retry is gated by
                \* and a reload shows; each run is the only one of its message
    told,       \* [Runs -> verdicts the browser got about the run]
    watch,      \* the watchdog's tick
    visit,      \* [Tabs -> the history request of the tab]
    stopped,    \* history: runs stopped before any failure of theirs was read
    crossed,    \* history: runs that overlapped another one
    events      \* stops, reloads, departures and drops so far

vars == <<current, entry, pipe, failures, told, watch, visit, stopped, crossed, events>>

\* Mutant: a pending run has no id at all.
ProvisionalNone(p) == <<NoRun, FALSE>>

\* A run is known by its dispatch-time message id until the gateway names it.
Provisional(p) == <<p, FALSE>>
Real(p) == <<p, TRUE>>

Texts == Runs \X (1..MaxTexts)

Entry == [runId: Runs \X BOOLEAN, started: BOOLEAN, abortedByUser: BOOLEAN,
          listeners: SUBSET Tabs, content: SUBSET Texts]

\* Not dispatched; waiting for a chunk; and the awaits of pipe(): the audit and
\* the row of an error chunk, the superseding of the row on `done`, the artifacts
\* poll after the stream, the row of a silent stream and the audit after it, surfaceRunFailure, the audit of the finally block; returned.
Stages == {"idle", "streaming", "auditing", "superseding", "delivering",
           "persisting", "reporting", "surfacing", "departing", "over"}

\* What the loop has seen: the acknowledgement, text, an error (a chunk or a
\* rejection), the user's abort, an entry already torn down, the lost gateway.
Seen == {"ack", "text", "failure", "userAbort", "tornDown", "disconnected"}

Pipe == [at: Stages, from: Tabs \cup {NoTab}, registered: BOOLEAN, saw: SUBSET Seen,
         emitted: SUBSET Texts, texts: 0..MaxTexts, cut: BOOLEAN]

Verdicts == {"failed", "completed", "noFirstChunk"}

TypeOK ==
    /\ current \in Runs \cup {NoRun}
    /\ entry \in [Runs -> Entry]
    /\ pipe \in [Runs -> Pipe]
    /\ failures \subseteq Runs
    /\ told \in [Runs -> SUBSET Verdicts]
    /\ watch \in [at: {"idle", "auditing", "aborting"}, run: Runs \cup {NoRun}]
    /\ visit \in [Tabs -> [at: {"none", "attached", "served"}, run: Runs \cup {NoRun},
                           heard: SUBSET Texts, partial: SUBSET Texts]]
    /\ stopped \subseteq Runs
    /\ crossed \subseteq Runs
    /\ events \in 0..MaxEvents

Pending(p, listeners) ==
    [runId |-> Provisional(p), started |-> FALSE, abortedByUser |-> FALSE,
     listeners |-> listeners, content |-> {}]

Init ==
    /\ current = NoRun
    /\ entry = [p \in Runs |-> Pending(p, {})]
    /\ pipe = [p \in Runs |-> [at |-> "idle", from |-> NoTab, registered |-> FALSE, saw |-> {},
                               emitted |-> {}, texts |-> 0, cut |-> FALSE]]
    /\ failures = {}
    /\ told = [p \in Runs |-> {}]
    /\ watch = [at |-> "idle", run |-> NoRun]
    /\ visit = [w \in Tabs |-> [at |-> "none", run |-> NoRun, heard |-> {}, partial |-> {}]]
    /\ stopped = {}
    /\ crossed = {}
    /\ events = 0

-----------------------------------------------------------------------------
(* The registry, for the session. *)

Registered == current # NoRun

\* activeRuns.get(sessionKey)?.abortedByUser
StopRequested == Registered /\ entry[current].abortedByUser

\* Who gets a broadcast of pipe p: the listeners of whatever run is registered,
\* or else the tab that sent the message.
Audience(p) ==
    IF Registered /\ entry[current].listeners # {} THEN entry[current].listeners
    ELSE {pipe[p].from}

Unfinished == {p \in Runs : pipe[p].at \notin {"idle", "over"}}

\* Mutant: the finally block knows its entry by the dispatch-time id only.
OwnedProvisionally(p) == Provisional(p)

\* The id by which the finally block of p knows its own entry.
Owned(p) == IF pipe[p].registered THEN Real(p) ELSE Provisional(p)

DeleteIfRunId(id) ==
    current' = IF Registered /\ entry[current].runId = id THEN NoRun ELSE current

\* dispatch: registerPending replaces any entry of the session.
Dispatch(p, w) ==
    /\ pipe[p].at = "idle" /\ \A q \in 1..(p - 1) : pipe[q].at # "idle"
    /\ pipe' = [pipe EXCEPT ![p].at = "streaming", ![p].from = w]
    /\ entry' = [entry EXCEPT ![p] = Pending(p, {w})]
    /\ current' = p
    /\ crossed' = crossed \cup (IF Unfinished = {} THEN {} ELSE Unfinished \cup {p})
    /\ UNCHANGED <<failures, told, watch, visit, stopped, events>>

-----------------------------------------------------------------------------
(* pipe(): the chunks. *)

Streaming(p) == pipe[p].at = "streaming"

\* markFirstChunk: the registry after the first chunk that names the run.
Reconciled(p, named) ==
    IF named /\ ~pipe[p].registered
    THEN [entry EXCEPT ![current].started = TRUE, ![current].runId = Real(p)]
    ELSE entry

\* The stream has not reported an error: only `done` follows one.
Healthy(p) == pipe[p].saw \cap {"failure", "userAbort"} = {}

\* The chunks of a rejected dispatch name no run; all others do.
Reads(p, named) ==
    /\ Streaming(p)
    /\ pipe[p].registered => named
    /\ named => pipe[p].registered \/ (Registered /\ Healthy(p))

\* The first chunk that names the run finds no entry.
ReadsTooLate(p) == Streaming(p) /\ ~pipe[p].registered /\ ~Registered /\ Healthy(p)

\* The watchdog must have torn the run down: the loop is left.
FirstChunkAfterTeardown(p) ==
    /\ ReadsTooLate(p)
    /\ pipe' = [pipe EXCEPT ![p].at = "delivering", ![p].saw = @ \cup {"tornDown"}]
    /\ UNCHANGED <<current, entry, failures, told, watch, visit, stopped, crossed, events>>

\* userMessagePersisted, the gateway's acknowledgement.
Acknowledged(p) ==
    /\ Reads(p, TRUE) /\ ~pipe[p].registered
    /\ entry' = Reconciled(p, TRUE)
    /\ pipe' = [pipe EXCEPT ![p].registered = TRUE, ![p].saw = @ \cup {"ack"}]
    /\ UNCHANGED <<current, failures, told, watch, visit, stopped, crossed, events>>

\* A text chunk: accumulated, mirrored into the registry and broadcast at once.
TextChunk(p) ==
    LET t == <<p, pipe[p].texts + 1>>
        emitted == pipe[p].emitted \cup {t}
    IN /\ Streaming(p) /\ pipe[p].registered /\ Healthy(p)
       /\ pipe[p].texts < MaxTexts
       /\ pipe' = [pipe EXCEPT ![p].emitted = emitted, ![p].texts = @ + 1,
                               ![p].saw = @ \cup {"text"}]
       /\ entry' = IF Registered THEN [entry EXCEPT ![current].content = emitted] ELSE entry
       /\ visit' = [w \in Tabs |->
                      IF w \in Audience(p) /\ visit[w].at = "attached"
                      THEN [visit[w] EXCEPT !.heard = @ \cup {t}] ELSE visit[w]]
       /\ UNCHANGED <<current, failures, told, watch, stopped, crossed, events>>

\* Mutant: an error chunk is a failure whoever caused it.
ErrorChunkBlames(p, named) ==
    /\ Reads(p, named) /\ Healthy(p)
    /\ entry' = Reconciled(p, named)
    /\ pipe' = [pipe EXCEPT ![p].registered = named,
                            ![p].at = "auditing", ![p].saw = @ \cup {"failure"}]
    /\ UNCHANGED <<current, failures, told, watch, visit, stopped, crossed, events>>

\* An error chunk, at most one per stream: the user's own stop if the registered
\* run says so, a failure to audit and persist otherwise.
ErrorChunk(p, named) ==
    /\ Reads(p, named) /\ Healthy(p)
    /\ entry' = Reconciled(p, named)
    /\ pipe' = IF StopRequested
               THEN [pipe EXCEPT ![p].registered = named, ![p].saw = @ \cup {"userAbort"}]
               ELSE [pipe EXCEPT ![p].registered = named, ![p].saw = @ \cup {"failure"},
                                 ![p].at = "auditing"]
    /\ UNCHANGED <<current, failures, told, watch, visit, stopped, crossed, events>>

\* The error is audited and persisted: error frame, liveness failed.
ErrorAudited(p) ==
    /\ pipe[p].at = "auditing"
    /\ pipe' = [pipe EXCEPT ![p].at = "streaming"]
    /\ failures' = failures \cup {p}
    /\ told' = [told EXCEPT ![p] = @ \cup {"failed"}]
    /\ UNCHANGED <<current, entry, watch, visit, stopped, crossed, events>>

\* The turn is over: a new message id, and nothing emitted for it yet.
Rotated(e, registered) ==
    IF registered /\ Registered THEN [e EXCEPT ![current].content = {}] ELSE e

\* Mutant: every done supersedes the failures, the one after an error included.
DoneChunkSupersedes(p, named) ==
    /\ Reads(p, named) /\ (~named => ~Healthy(p))
    /\ entry' = Reconciled(p, named)
    /\ pipe' = [pipe EXCEPT ![p].registered = named, ![p].at = "superseding"]
    /\ UNCHANGED <<current, failures, told, watch, visit, stopped, crossed, events>>

\* `done`: a turn that did not fail supersedes the failures first, which awaits.
DoneChunk(p, named) ==
    /\ Reads(p, named) /\ (~named => ~Healthy(p))
    /\ \/ /\ "failure" \in pipe[p].saw
          /\ entry' = Rotated(Reconciled(p, named), named)
          /\ pipe' = [pipe EXCEPT ![p].registered = named, ![p].emitted = {}]
       \/ /\ "failure" \notin pipe[p].saw
          /\ entry' = Reconciled(p, named)
          /\ pipe' = [pipe EXCEPT ![p].registered = named, ![p].at = "superseding"]
    /\ UNCHANGED <<current, failures, told, watch, visit, stopped, crossed, events>>

\* Mutant: the registry keeps the words of the turn before.
SupersededKeepsContent(p) ==
    /\ pipe[p].at = "superseding"
    /\ pipe' = [pipe EXCEPT ![p].at = "streaming", ![p].emitted = {}]
    /\ failures' = IF "ack" \in pipe[p].saw THEN failures \ {p} ELSE failures
    /\ UNCHANGED <<current, entry, told, watch, visit, stopped, crossed, events>>

\* Superseding goes by the acknowledged message id (best effort, here it works);
\* then the turn ends.
Superseded(p) ==
    /\ pipe[p].at = "superseding"
    /\ pipe' = [pipe EXCEPT ![p].at = "streaming", ![p].emitted = {}]
    /\ entry' = Rotated(entry, pipe[p].registered)
    /\ failures' = IF "ack" \in pipe[p].saw THEN failures \ {p} ELSE failures
    /\ UNCHANGED <<current, told, watch, visit, stopped, crossed, events>>

-----------------------------------------------------------------------------
(* pipe(): after the chunks. *)

\* What is worth knowing of a pipe that returned.
Returned(q) ==
    [q EXCEPT !.at = "over", !.from = NoTab, !.emitted = {}, !.texts = 0, !.cut = FALSE,
              !.saw = @ \cap {"tornDown", "disconnected"}]

\* The finally block, pipe p having become q: a finished run nobody listens to
\* is audited, which awaits, before its entry is dropped.
Finish(p, q) ==
    LET unheard == /\ q.registered /\ Registered /\ entry[current].listeners = {}
                   /\ q.saw \cap {"failure", "disconnected"} = {}
    IN \/ /\ unheard
          /\ pipe' = [pipe EXCEPT ![p] = [q EXCEPT !.at = "departing"]]
          /\ UNCHANGED current
       \/ /\ ~unheard
          /\ pipe' = [pipe EXCEPT ![p] = Returned(q)]
          /\ DeleteIfRunId(Owned(p))

Departed(p) ==
    /\ pipe[p].at = "departing"
    /\ pipe' = [pipe EXCEPT ![p] = Returned(pipe[p])]
    /\ DeleteIfRunId(Owned(p))
    /\ UNCHANGED <<entry, failures, told, watch, visit, stopped, crossed, events>>

\* The stream ends; the artifacts poll awaits the gateway.
StreamEnds(p) ==
    /\ Streaming(p)
    /\ pipe' = [pipe EXCEPT ![p].at = "delivering"]
    /\ UNCHANGED <<current, entry, failures, told, watch, visit, stopped, crossed, events>>

\* iterateUntilAborted: the disconnect signal wins over a chunk that never comes.
StreamCut(p) ==
    /\ Streaming(p) /\ pipe[p].cut
    /\ pipe' = [pipe EXCEPT ![p].at = "delivering", ![p].saw = @ \cup {"disconnected"}]
    /\ UNCHANGED <<current, entry, failures, told, watch, visit, stopped, crossed, events>>

\* The generator rejects: the user's own stop, or a failure to surface.
StreamThrows(p) ==
    /\ Streaming(p) /\ Healthy(p)
    /\ \/ /\ StopRequested
          /\ told' = [told EXCEPT ![p] = @ \cup {"completed"}]
          /\ Finish(p, pipe[p])
       \/ /\ ~StopRequested
          /\ pipe' = [pipe EXCEPT ![p].at = "surfacing", ![p].saw = @ \cup {"failure"}]
          /\ UNCHANGED <<current, told>>
    /\ UNCHANGED <<entry, failures, watch, visit, stopped, crossed, events>>

\* surfaceRunFailure: audited, persisted, error frame; no `complete`.
FailureSurfaced(p) ==
    /\ pipe[p].at = "surfacing"
    /\ failures' = failures \cup {p}
    /\ told' = [told EXCEPT ![p] = @ \cup {"failed"}]
    /\ Finish(p, pipe[p])
    /\ UNCHANGED <<entry, watch, visit, stopped, crossed, events>>

\* Nothing to report: the gateway is gone, or the watchdog reported already.
Abandoned(p) == pipe[p].saw \cap {"disconnected", "tornDown"} # {}

\* The poll is over (or failed): nothing to report, a silent stream, or a run
\* that completed unless it failed.
Delivered(p) ==
    LET silent == pipe[p].saw \cap {"text", "failure", "userAbort"} = {} /\ ~StopRequested
    IN /\ pipe[p].at = "delivering"
       /\ \/ /\ Abandoned(p)
             /\ Finish(p, pipe[p])
             /\ UNCHANGED told
          \/ /\ ~Abandoned(p) /\ silent
             /\ pipe' = [pipe EXCEPT ![p].at = "persisting"]
             /\ UNCHANGED <<current, told>>
          \/ /\ ~Abandoned(p) /\ ~silent
             /\ told' = IF "failed" \in told[p] THEN told
                        ELSE [told EXCEPT ![p] = @ \cup {"completed"}]
             /\ Finish(p, pipe[p])
       /\ UNCHANGED <<entry, failures, watch, visit, stopped, crossed, events>>

\* The silent stream is persisted and reported, then audited.
SilenceReported(p) ==
    /\ pipe[p].at = "persisting"
    /\ pipe' = [pipe EXCEPT ![p].at = "reporting"]
    /\ failures' = failures \cup {p}
    /\ told' = [told EXCEPT ![p] = @ \cup {"failed"}]
    /\ UNCHANGED <<current, entry, watch, visit, stopped, crossed, events>>

SilenceAudited(p) ==
    /\ pipe[p].at = "reporting"
    /\ Finish(p, pipe[p])
    /\ UNCHANGED <<entry, failures, told, watch, visit, stopped, crossed, events>>

Event == events < MaxEvents /\ events' = events + 1

\* OpenClaw's socket drops: every loop is told, and none has to listen before
\* its next chunk.  A message sent during the outage is one sent just before.
GatewayDrops ==
    /\ Event
    /\ pipe' = [p \in Runs |-> [pipe[p] EXCEPT !.cut = @ \/ p \in Unfinished]]
    /\ UNCHANGED <<current, entry, failures, told, watch, visit, stopped, crossed>>

-----------------------------------------------------------------------------
(* runWatchdogTick; a tick that is under way keeps the next from starting. *)

Unstarted(p) == current = p /\ ~entry[p].started

\* Some run has been pending for longer than the first-chunk timeout.
TickFinds(p) ==
    /\ watch.at = "idle"
    /\ Unstarted(p)
    /\ watch' = [at |-> "auditing", run |-> p]
    /\ UNCHANGED <<current, entry, pipe, failures, told, visit, stopped, crossed, events>>

\* Mutant: a tick whose run has started meanwhile never ends.
TickAuditedHangs ==
    /\ watch.at = "auditing"
    /\ Unstarted(watch.run)
    /\ watch' = [watch EXCEPT !.at = "aborting"]
    /\ UNCHANGED <<current, entry, pipe, failures, told, visit, stopped, crossed, events>>

\* The run may have started, or been replaced, while its audit row was written.
TickAudited ==
    /\ watch.at = "auditing"
    /\ watch' = IF Unstarted(watch.run) THEN [watch EXCEPT !.at = "aborting"]
                ELSE [at |-> "idle", run |-> NoRun]
    /\ UNCHANGED <<current, entry, pipe, failures, told, visit, stopped, crossed, events>>

\* Mutant: nobody looks again after the abort.
TickAbortedBlindly ==
    /\ watch.at = "aborting"
    /\ told' = [told EXCEPT ![watch.run] = @ \cup {"noFirstChunk"}]
    /\ DeleteIfRunId(entry[watch.run].runId)
    /\ watch' = [at |-> "idle", run |-> NoRun]
    /\ UNCHANGED <<entry, pipe, failures, visit, stopped, crossed, events>>

\* Mutant: the run is dropped and nobody told.
TickAbortedQuietly ==
    /\ watch.at = "aborting"
    /\ \/ Unstarted(watch.run) /\ DeleteIfRunId(entry[watch.run].runId)
       \/ ~Unstarted(watch.run) /\ UNCHANGED current
    /\ watch' = [at |-> "idle", run |-> NoRun]
    /\ UNCHANGED <<entry, pipe, failures, told, visit, stopped, crossed, events>>

\* chatAbort answered or failed: a run that still has not started is reported
\* to its listeners and dropped.
TickAborted ==
    /\ watch.at = "aborting"
    /\ \/ /\ Unstarted(watch.run)
          /\ told' = [told EXCEPT ![watch.run] = @ \cup {"noFirstChunk"}]
          /\ DeleteIfRunId(entry[watch.run].runId)
       \/ ~Unstarted(watch.run) /\ UNCHANGED <<current, told>>
    /\ watch' = [at |-> "idle", run |-> NoRun]
    /\ UNCHANGED <<entry, pipe, failures, visit, stopped, crossed, events>>

-----------------------------------------------------------------------------
(* The browser: stop, history, leaving. *)

\* handleAbort marks the run before it asks the gateway to abort.
StopPressed ==
    /\ Event
    /\ Registered
    /\ entry' = [entry EXCEPT ![current].abortedByUser = TRUE]
    /\ stopped' = IF Streaming(current) /\ Healthy(current) THEN stopped \cup {current}
                  ELSE stopped
    /\ UNCHANGED <<current, pipe, failures, told, watch, visit, crossed>>

\* handleHistory: the tab is attached to the run the session has, if any, and
\* awaits the poke bridge.
HistoryAsked(w) ==
    /\ Event
    /\ visit[w].at # "attached"
    /\ entry' = IF Registered THEN [entry EXCEPT ![current].listeners = @ \cup {w}] ELSE entry
    /\ visit' = [visit EXCEPT ![w] = [at |-> "attached", run |-> current,
                                      heard |-> {}, partial |-> {}]]
    /\ UNCHANGED <<current, pipe, failures, told, watch, stopped, crossed>>

\* The partial reply is taken from the run found before the await.
HistorySnapshot(w) ==
    LET run == visit[w].run IN
    /\ visit[w].at = "attached"
    /\ visit' = [visit EXCEPT
         ![w].at = "served", ![w].run = NoRun,
         ![w].partial = IF run # NoRun /\ entry[run].started THEN entry[run].content ELSE {}]
    /\ UNCHANGED <<current, entry, pipe, failures, told, watch, stopped, crossed, events>>

\* The socket closes, or asks for the history of another session: it is taken
\* off the runs in the map.
TabLeaves(w) ==
    /\ Event
    /\ Registered /\ w \in entry[current].listeners
    /\ entry' = [entry EXCEPT ![current].listeners = @ \ {w}]
    /\ UNCHANGED <<current, pipe, failures, told, watch, visit, stopped, crossed>>

-----------------------------------------------------------------------------
Chunk(p) ==
    \/ FirstChunkAfterTeardown(p) \/ Acknowledged(p) \/ TextChunk(p)
    \/ \E named \in BOOLEAN : ErrorChunk(p, named) \/ DoneChunk(p, named)
    \/ StreamEnds(p) \/ StreamThrows(p)

\* Past an await of pipe() itself.
Resumes(p) ==
    \/ ErrorAudited(p) \/ Superseded(p) \/ StreamCut(p) \/ Delivered(p)
    \/ SilenceReported(p) \/ SilenceAudited(p) \/ FailureSurfaced(p) \/ Departed(p)

Tick == (\E p \in Runs : TickFinds(p)) \/ TickAudited \/ TickAborted

Browser(w) == HistoryAsked(w) \/ HistorySnapshot(w) \/ TabLeaves(w)

Next ==
    \/ \E p \in Runs : \/ \E w \in Tabs : Dispatch(p, w)
                       \/ Chunk(p)
                       \/ Resumes(p)
    \/ \E w \in Tabs : Browser(w)
    \/ GatewayDrops \/ Tick \/ StopPressed

Spec == Init /\ [][Next]_vars

\* The watchdog's timer goes on and its awaits end: the audit row is written and
\* chatAbort answers or times out.  Nothing else is promised, streams least of all.
FairSpec == Spec /\ WF_vars(Tick)

-----------------------------------------------------------------------------
(* What the code promises. *)

Alone(p) == p \notin crossed

\* No entry is leaked: whatever the registry has for the session is what some
\* unfinished pipe will drop (the finally block of pipe, deleteIfRunId).
EntryOwned ==
    Registered => \E p \in Unfinished : entry[current].runId = Owned(p)

\* A run whose stream named itself is reported once: completed, failed, or by the
\* watchdog as never started (tornDownByWatchdog, emittedFailedLiveness).
OneVerdict ==
    \A p \in Runs : Alone(p) /\ (pipe[p].registered \/ "tornDown" \in pipe[p].saw) =>
        Cardinality(told[p]) <= 1

\* "EVERY failed run is recorded", and stays so: the `done` that closes a failed
\* stream does not clear the row a reload and a retry go by (sawTerminalError).
FailureStaysRecorded ==
    \A p \in Runs : pipe[p].at = "over" /\ "failed" \in told[p] => p \in failures

\* A loop that leaves without a word does so because the watchdog has spoken, or
\* because the gateway is gone.
SilentExitAnnounced ==
    \A p \in Runs : Alone(p) /\ pipe[p].at = "over" /\ told[p] = {} =>
        "disconnected" \in pipe[p].saw

\* A run the user stopped before it failed is not reported as a failure, when
\* nothing took its entry away: no other run, nor the watchdog.
StopNotBlamed ==
    \A p \in stopped : Alone(p) /\ "noFirstChunk" \notin told[p] => "failed" \notin told[p]

\* The registry has exactly the words of the turn that the clients got.
ResumeMirrorsStream ==
    Registered /\ Alone(current) => entry[current].content = pipe[current].emitted

Blank == Registered /\ ~entry[current].started

\* No blank thread for ever: a run that has not started is started, replaced or
\* torn down in the end, whatever the gateway does (runWatchdogTick).
PendingSettles == Blank ~> ~Blank

\* "It only removes the entry if it is still ours" (the finally block): a pipe
\* that returns never drops the entry of another run.
NewerRunKept ==
    [][\A p \in Unfinished : p \notin Unfinished' /\ Registered /\ current # p
         => Registered']_vars

\* "Never both": no text of the snapshot is also delivered as a live delta.
NoTextTwice == \A w \in Tabs : visit[w].partial \cap visit[w].heard = {}

=============================================================================
