--------------------------- MODULE ChatRunsProofs ---------------------------
(* Theorems about the runs of a chat session, for every value of the constants. *)
EXTENDS ChatRuns, FiniteSetTheorems, TLAPS

-----------------------------------------------------------------------------
(* Types. *)

\* The first chunk that names a run leaves the registry well typed.
LEMMA ReconciledType ==
  ASSUME TypeOK, NEW p \in Runs, NEW named \in BOOLEAN, Reads(p, named)
  PROVE  Reconciled(p, named) \in [Runs -> Entry]
<1>1. CASE named /\ ~pipe[p].registered
  <2>1. current \in Runs
    BY <1>1 DEF Reads, Registered, TypeOK
  <2>2. Real(p) \in Runs \X BOOLEAN
    BY DEF Real
  <2> DEFINE e == [entry[current] EXCEPT !.started = TRUE, !.runId = Real(p)]
  <2>3. entry[current] \in Entry
    BY <2>1 DEF TypeOK
  <2>4. e \in Entry
    BY <2>2, <2>3 DEF Entry
  <2>5. Reconciled(p, named) = [entry EXCEPT ![current] = e]
    BY <1>1, <2>1 DEF Reconciled, TypeOK
  <2> QED BY <2>1, <2>4, <2>5 DEF TypeOK
<1>2. CASE ~(named /\ ~pipe[p].registered)
  BY <1>2 DEF Reconciled, TypeOK
<1> QED BY <1>1, <1>2

\* So does the end of a turn.
LEMMA RotatedType ==
  ASSUME TypeOK, NEW e \in [Runs -> Entry], NEW registered \in BOOLEAN
  PROVE  Rotated(e, registered) \in [Runs -> Entry]
<1>1. \A r \in Runs : [e[r] EXCEPT !.content = {}] \in Entry
  BY DEF Entry
<1>2. Registered => current \in Runs
  BY DEF Registered, TypeOK
<1> QED BY <1>1, <1>2 DEF Rotated

\* What a pipe may add to what it has seen,
LEMMA SeesMore ==
  ASSUME NEW q \in Pipe, NEW S \in SUBSET Seen
  PROVE  q.saw \cup S \in SUBSET Seen
  BY DEF Pipe

\* and where it may go.
LEMMA StageNames ==
  /\ "streaming" \in Stages /\ "auditing" \in Stages /\ "superseding" \in Stages
  /\ "delivering" \in Stages /\ "persisting" \in Stages /\ "reporting" \in Stages
  /\ "surfacing" \in Stages /\ "departing" \in Stages /\ "over" \in Stages
  BY DEF Stages

\* So may it see any of these.
LEMMA SeenNames ==
  /\ {"ack"} \in SUBSET Seen /\ {"text"} \in SUBSET Seen /\ {"failure"} \in SUBSET Seen
  /\ {"userAbort"} \in SUBSET Seen /\ {"tornDown"} \in SUBSET Seen
  /\ {"disconnected"} \in SUBSET Seen
  BY DEF Seen

\* A pipe that returned is forgotten but for how it left.
LEMMA ReturnedType ==
  ASSUME NEW q \in Pipe
  PROVE  Returned(q) \in Pipe
<1>1. /\ q.saw \cap {"tornDown", "disconnected"} \in SUBSET Seen
      /\ {} \in SUBSET Texts /\ 0 \in 0..MaxTexts /\ NoTab \in Tabs \cup {NoTab}
  BY ChatAssumption DEF Pipe
<1> QED BY <1>1, StageNames DEF Returned, Pipe

\* A pipe in its finally block waits once more or returns.
LEMMA FinishType ==
  ASSUME TypeOK, NEW p \in Runs, NEW q \in Pipe, Finish(p, q)
  PROVE  pipe' \in [Runs -> Pipe] /\ current' \in Runs \cup {NoRun}
<1>1. Returned(q) \in Pipe
  BY ReturnedType
<1>2. [q EXCEPT !.at = "departing"] \in Pipe
  BY StageNames DEF Pipe
<1>3. pipe' \in [Runs -> Pipe]
  BY <1>1, <1>2 DEF Finish, TypeOK
<1> QED BY <1>3 DEF Finish, DeleteIfRunId, TypeOK

\* Each step of a pipe keeps the types.
LEMMA ChunkTypeOK ==
  ASSUME TypeOK, NEW p \in Runs, Chunk(p) \/ Resumes(p)
  PROVE  TypeOK'
<1> USE DEF TypeOK
<1>1. /\ pipe[p] \in Pipe
      /\ \A S \in SUBSET Seen : pipe[p].saw \cup S \in SUBSET Seen
  BY SeesMore
<1> USE <1>1, StageNames, SeenNames
<1>2. CASE FirstChunkAfterTeardown(p)
  BY <1>2 DEF FirstChunkAfterTeardown, Pipe
<1>3. CASE Acknowledged(p)
  BY <1>3, ReconciledType DEF Acknowledged, Pipe
<1>4. CASE TextChunk(p)
  BY <1>4 DEF TextChunk, Pipe, Entry
<1>5. CASE StreamEnds(p)
  BY <1>5 DEF StreamEnds, Pipe
<1>6. CASE StreamCut(p)
  BY <1>6 DEF StreamCut, Pipe
<1>7. CASE StreamThrows(p)
  <2>1. CASE Finish(p, pipe[p]) /\ told' = [told EXCEPT ![p] = @ \cup {"completed"}]
    <3>1. pipe' \in [Runs -> Pipe] /\ current' \in Runs \cup {NoRun}
      BY <2>1, FinishType
    <3> QED BY <1>7, <2>1, <3>1 DEF StreamThrows, Verdicts
  <2>2. CASE /\ pipe' = [pipe EXCEPT ![p].at = "surfacing", ![p].saw = @ \cup {"failure"}]
             /\ UNCHANGED <<current, told>>
    BY <1>7, <2>2 DEF StreamThrows, Pipe
  <2> QED BY <1>7, <2>1, <2>2 DEF StreamThrows
<1>8. CASE ErrorAudited(p)
  BY <1>8 DEF ErrorAudited, Pipe, Verdicts
<1>9. CASE Superseded(p)
  <2>1. pipe[p].registered \in BOOLEAN
    BY DEF Pipe
  <2>2. entry' \in [Runs -> Entry]
    BY <1>9, <2>1, RotatedType DEF Superseded
  <2>3. pipe' \in [Runs -> Pipe]
    BY <1>9 DEF Superseded, Pipe
  <2> QED BY <1>9, <2>2, <2>3 DEF Superseded
<1>10. CASE Delivered(p)
  <2>1. CASE Finish(p, pipe[p])
    <3>1. pipe' \in [Runs -> Pipe] /\ current' \in Runs \cup {NoRun}
      BY <2>1, FinishType
    <3>2. told' \in [Runs -> SUBSET Verdicts]
      BY <1>10 DEF Delivered, Verdicts
    <3> QED BY <1>10, <3>1, <3>2 DEF Delivered
  <2>2. CASE pipe' = [pipe EXCEPT ![p].at = "persisting"] /\ UNCHANGED <<current, told>>
    BY <1>10, <2>2 DEF Delivered, Pipe
  <2> QED BY <1>10, <2>1, <2>2 DEF Delivered
<1>11. CASE SilenceReported(p)
  BY <1>11 DEF SilenceReported, Pipe, Verdicts
<1>12. CASE SilenceAudited(p)
  BY <1>12, FinishType DEF SilenceAudited, Pipe, Verdicts
<1>13. CASE FailureSurfaced(p)
  BY <1>13, FinishType DEF FailureSurfaced, Pipe, Verdicts
<1>14. CASE Departed(p)
  BY <1>14, ReturnedType DEF Departed, DeleteIfRunId
<1>15. ASSUME NEW named \in BOOLEAN, ErrorChunk(p, named) PROVE TypeOK'
  <2>1. Reconciled(p, named) \in [Runs -> Entry]
    BY <1>15, ReconciledType DEF ErrorChunk
  <2>3. pipe' \in [Runs -> Pipe]
    BY <1>15 DEF ErrorChunk, Pipe
  <2> QED BY <1>15, <2>1, <2>3 DEF ErrorChunk
<1>16. ASSUME NEW named \in BOOLEAN, DoneChunk(p, named) PROVE TypeOK'
  <2>1. Reconciled(p, named) \in [Runs -> Entry]
    BY <1>16, ReconciledType DEF DoneChunk
  <2>2. Rotated(Reconciled(p, named), named) \in [Runs -> Entry]
    BY <2>1, RotatedType
  <2>3. pipe' \in [Runs -> Pipe]
    BY <1>16 DEF DoneChunk, Pipe
  <2> QED BY <1>16, <2>1, <2>2, <2>3 DEF DoneChunk
<1> QED BY <1>2, <1>3, <1>4, <1>5, <1>6, <1>7, <1>8, <1>9, <1>10, <1>11, <1>12, <1>13, <1>14, <1>15, <1>16 DEF Chunk, Resumes

\* Tabs come to a run and go, and its user stops it.
LEMMA ListenersType ==
  ASSUME NEW e \in [Runs -> Entry], NEW r \in Runs, NEW L \in SUBSET Tabs
  PROVE  [e EXCEPT ![r].listeners = L] \in [Runs -> Entry]
<1>1. [e[r] EXCEPT !.listeners = L] \in Entry
  BY DEF Entry
<1> QED BY <1>1

LEMMA StoppedType ==
  ASSUME NEW e \in [Runs -> Entry], NEW r \in Runs, NEW b \in BOOLEAN
  PROVE  [e EXCEPT ![r].abortedByUser = b] \in [Runs -> Entry]
<1>1. [e[r] EXCEPT !.abortedByUser = b] \in Entry
  BY DEF Entry
<1> QED BY <1>1

\* A message is sent.
LEMMA SentType ==
  ASSUME NEW q \in Pipe, NEW a \in Stages, NEW f \in Tabs \cup {NoTab}
  PROVE  [q EXCEPT !.at = a, !.from = f] \in Pipe
  BY DEF Pipe

\* A tab gets its history.
LEMMA ServedType ==
  ASSUME NEW A, NEW v \in [at: A, run: Runs \cup {NoRun}, heard: SUBSET Texts, partial: SUBSET Texts],
         NEW a \in A, NEW r \in Runs \cup {NoRun}, NEW P \in SUBSET Texts
  PROVE  [v EXCEPT !.at = a, !.run = r, !.partial = P]
           \in [at: A, run: Runs \cup {NoRun}, heard: SUBSET Texts, partial: SUBSET Texts]
  OBVIOUS

\* The steps that are not a pipe's.
LEMMA OtherTypeOK ==
  ASSUME TypeOK,
         \/ \E p \in Runs, w \in Tabs : Dispatch(p, w)
         \/ Tick \/ StopPressed \/ GatewayDrops
         \/ \E w \in Tabs : Browser(w)
  PROVE  TypeOK'
<1> USE ChatAssumption DEF TypeOK
<1>1. ASSUME NEW p \in Runs, NEW w \in Tabs, Dispatch(p, w) PROVE TypeOK'
  <2>1. Pending(p, {w}) \in Entry
    BY DEF Pending, Provisional, Entry
  <2>2. pipe' \in [Runs -> Pipe]
    <3>1. pipe' = [pipe EXCEPT ![p].at = "streaming", ![p].from = w]
      BY <1>1 DEF Dispatch
    <3>2. "streaming" \in Stages /\ w \in Tabs \cup {NoTab}
      BY StageNames
    <3>3. [pipe[p] EXCEPT !.at = "streaming", !.from = w] \in Pipe
      BY <3>2, SentType
    <3> QED BY <3>1, <3>3
  <2>3. Unfinished \subseteq Runs
    BY DEF Unfinished
  <2> QED BY <1>1, <2>1, <2>2, <2>3 DEF Dispatch
<1>2. CASE Tick
  <2>1. CASE \E p \in Runs : TickFinds(p)
    BY <2>1 DEF TickFinds
  <2>2. CASE TickAudited
    BY <2>2 DEF TickAudited
  <2>3. CASE TickAborted
    <3>1. current' \in Runs \cup {NoRun}
      BY <2>3 DEF TickAborted, DeleteIfRunId
    <3>2. told' \in [Runs -> SUBSET Verdicts]
      BY <2>3 DEF TickAborted, Verdicts
    <3> QED BY <2>3, <3>1, <3>2 DEF TickAborted
  <2> QED BY <1>2, <2>1, <2>2, <2>3 DEF Tick
<1>3. CASE StopPressed
  <2>1. entry' \in [Runs -> Entry]
    BY <1>3, StoppedType DEF StopPressed, Registered
  <2>2. stopped' \subseteq Runs
    BY <1>3 DEF StopPressed, Registered
  <2> QED BY <1>3, <2>1, <2>2 DEF StopPressed, Event
<1>4. CASE GatewayDrops
  <2>1. \A p \in Runs : [pipe[p] EXCEPT !.cut = @ \/ p \in Unfinished] \in Pipe
    BY DEF Pipe
  <2> QED BY <1>4, <2>1 DEF GatewayDrops, Event
<1>5. ASSUME NEW w \in Tabs, HistoryAsked(w) PROVE TypeOK'
  <2>1. Registered => /\ current \in Runs
                      /\ entry[current].listeners \cup {w} \in SUBSET Tabs
    BY DEF Registered, Entry
  <2>2. entry' \in [Runs -> Entry]
    BY <1>5, <2>1, ListenersType DEF HistoryAsked
  <2> QED BY <1>5, <2>2 DEF HistoryAsked, Event
<1>6. ASSUME NEW w \in Tabs, HistorySnapshot(w) PROVE TypeOK'
  <2>1. visit[w].run # NoRun => entry[visit[w].run].content \in SUBSET Texts
    BY DEF Entry
  <2>2. PICK P \in SUBSET Texts :
          visit' = [visit EXCEPT ![w].at = "served", ![w].run = NoRun, ![w].partial = P]
    BY <1>6, <2>1 DEF HistorySnapshot
  <2>3. [visit[w] EXCEPT !.at = "served", !.run = NoRun, !.partial = P]
          \in [at: {"none", "attached", "served"}, run: Runs \cup {NoRun},
               heard: SUBSET Texts, partial: SUBSET Texts]
    <3> DEFINE A == {"none", "attached", "served"}
    <3>1. "served" \in A /\ NoRun \in Runs \cup {NoRun}
      OBVIOUS
    <3>2. visit[w] \in [at: A, run: Runs \cup {NoRun}, heard: SUBSET Texts, partial: SUBSET Texts]
      OBVIOUS
    <3> HIDE DEF A
    <3>3. [visit[w] EXCEPT !.at = "served", !.run = NoRun, !.partial = P]
            \in [at: A, run: Runs \cup {NoRun}, heard: SUBSET Texts, partial: SUBSET Texts]
      BY <3>1, <3>2, ServedType
    <3> QED BY <3>3 DEF A
  <2>4. visit' \in [Tabs -> [at: {"none", "attached", "served"}, run: Runs \cup {NoRun},
                             heard: SUBSET Texts, partial: SUBSET Texts]]
    BY <2>2, <2>3
  <2> QED BY <1>6, <2>4 DEF HistorySnapshot
<1>7. ASSUME NEW w \in Tabs, TabLeaves(w) PROVE TypeOK'
  <2>1. current \in Runs /\ entry[current].listeners \ {w} \in SUBSET Tabs
    BY <1>7 DEF TabLeaves, Registered, Entry
  <2>2. entry' \in [Runs -> Entry]
    BY <1>7, <2>1, ListenersType DEF TabLeaves
  <2> QED BY <1>7, <2>2 DEF TabLeaves, Event
<1> QED BY <1>1, <1>2, <1>3, <1>4, <1>5, <1>6, <1>7 DEF Browser

\* The initial state is well typed.
LEMMA InitTypeOK == Init => TypeOK
<1> SUFFICES ASSUME Init PROVE TypeOK
  OBVIOUS
<1> USE ChatAssumption DEF Init
<1>1. entry \in [Runs -> Entry]
  BY DEF Pending, Provisional, Entry
<1>2. pipe \in [Runs -> Pipe]
  <2>1. [at |-> "idle", from |-> NoTab, registered |-> FALSE, saw |-> {},
         emitted |-> {}, texts |-> 0, cut |-> FALSE] \in Pipe
    BY DEF Pipe, Stages
  <2> QED BY <2>1
<1>3. /\ current \in Runs \cup {NoRun} /\ failures \subseteq Runs
      /\ stopped \subseteq Runs /\ crossed \subseteq Runs /\ events \in 0..MaxEvents
  OBVIOUS
<1>4. /\ told \in [Runs -> SUBSET Verdicts]
      /\ watch \in [at: {"idle", "auditing", "aborting"}, run: Runs \cup {NoRun}]
  OBVIOUS
<1>5. visit \in [Tabs -> [at: {"none", "attached", "served"}, run: Runs \cup {NoRun},
                          heard: SUBSET Texts, partial: SUBSET Texts]]
  OBVIOUS
<1> QED BY <1>1, <1>2, <1>3, <1>4, <1>5 DEF TypeOK

\* So is every step.
LEMMA NextTypeOK == TypeOK /\ [Next]_vars => TypeOK'
<1>1. TypeOK /\ UNCHANGED vars => TypeOK'
  BY DEF vars, TypeOK
<1> QED BY <1>1, ChunkTypeOK, OtherTypeOK DEF Next

\* Every variable keeps its type, for any number of runs, tabs and texts.
THEOREM TypeCorrect == Spec => []TypeOK
<1> QED BY InitTypeOK, NextTypeOK, PTL DEF Spec

-----------------------------------------------------------------------------
(* No entry is leaked.  What owns the session's entry, in more detail: the pipe *)
(* that made it until somebody is named, the pipe it was named after then.      *)

SlotOwned ==
    Registered =>
        \/ /\ current \in Unfinished /\ ~pipe[current].registered
           /\ entry[current].runId = Provisional(current)
        \/ \E p \in Unfinished : pipe[p].registered /\ entry[current].runId = Real(p)

\* A pipe that has not begun has no name.
IdleUnnamed == \A p \in Runs : pipe[p].at = "idle" => ~pipe[p].registered

\* What a step may do to the pipe p that the owners are about: nothing,
Same(p) ==
    /\ pipe'[p].registered = pipe[p].registered
    /\ pipe'[p].at = "idle" => pipe[p].at = "idle"
    /\ p \in Unfinished => p \in Unfinished'

\* and to all of them and the registry,
SameOwners ==
    /\ current' = current
    /\ \A r \in Runs : entry'[r].runId = entry[r].runId
    /\ \A p \in Runs : Same(p)

\* name p, and the session's entry after it,
Named(p) ==
    /\ p \in Unfinished /\ ~pipe[p].registered /\ Registered
    /\ current' = current
    /\ entry'[current].runId = Real(p)
    /\ p \in Unfinished' /\ pipe'[p].registered
    /\ \A q \in Runs \ {p} : Same(q)

\* end p and drop what it owns,
Ended(p) ==
    /\ p \in Unfinished /\ entry' = entry
    /\ pipe'[p].at # "idle"
    /\ current' # NoRun => current' = current /\ entry[current].runId # Owned(p)
    /\ \A q \in Runs \ {p} : Same(q)

\* begin p,
Began(p) ==
    /\ pipe[p].at = "idle" /\ current' = p
    /\ entry'[p].runId = Provisional(p)
    /\ p \in Unfinished' /\ pipe'[p].registered = pipe[p].registered
    /\ \A q \in Runs \ {p} : Same(q)

\* or give up the session's entry.
GivenUp ==
    /\ current' = NoRun
    /\ \A p \in Runs : Same(p)

Effect == SameOwners \/ GivenUp \/ \E p \in Runs : Named(p) \/ Ended(p) \/ Began(p)

\* Each of these keeps the owner.
LEMMA EffectKeepsOwner ==
  ASSUME TypeOK, SlotOwned, IdleUnnamed, Effect
  PROVE  SlotOwned' /\ IdleUnnamed'
<1> USE DEF IdleUnnamed, Same
<1>1. CASE SameOwners
  <2>1. Unfinished \subseteq Runs
    BY DEF Unfinished
  <2>2. Registered' => Registered /\ current \in Runs
    BY <1>1 DEF SameOwners, Registered, TypeOK
  <2>3. SlotOwned'
    BY <1>1, <2>1, <2>2 DEF SameOwners, SlotOwned, Provisional, Real
  <2>4. IdleUnnamed'
    BY <1>1 DEF SameOwners
  <2> QED BY <2>3, <2>4
<1>2. CASE GivenUp
  BY <1>2 DEF GivenUp, SlotOwned, Registered
<1>3. ASSUME NEW p \in Runs, Named(p) PROVE SlotOwned' /\ IdleUnnamed'
  <2>1. SlotOwned'
    BY <1>3 DEF Named, SlotOwned, Registered, Real
  <2>2. IdleUnnamed'
    BY <1>3 DEF Named, Unfinished
  <2> QED BY <2>1, <2>2
<1>4. ASSUME NEW p \in Runs, Ended(p) PROVE SlotOwned' /\ IdleUnnamed'
  <2>1. CASE current' = NoRun
    BY <1>4, <2>1 DEF Ended, SlotOwned, Registered
  <2>2. CASE current' # NoRun
    <3>1. current' = current /\ entry[current].runId # Owned(p) /\ Registered
      BY <1>4, <2>2 DEF Ended, Registered
    <3>2. \A q \in Unfinished : q # p => q \in Unfinished' /\ pipe'[q].registered = pipe[q].registered
      BY <1>4 DEF Ended, Unfinished
    <3>3. CASE /\ current \in Unfinished /\ ~pipe[current].registered
               /\ entry[current].runId = Provisional(current)
      <4>1. current # p
        BY <3>1, <3>3 DEF Owned
      <4> QED BY <1>4, <3>1, <3>2, <3>3, <4>1 DEF Ended, SlotOwned, Provisional
    <3>4. CASE \E q \in Unfinished : pipe[q].registered /\ entry[current].runId = Real(q)
      <4>1. PICK q \in Unfinished : pipe[q].registered /\ entry[current].runId = Real(q)
        BY <3>4
      <4>2. q # p
        BY <3>1, <4>1 DEF Owned
      <4> QED BY <1>4, <3>1, <3>2, <4>1, <4>2 DEF Ended, SlotOwned, Real
    <3>5. SlotOwned'
      BY <3>1, <3>3, <3>4 DEF SlotOwned
    <3> QED BY <1>4, <3>5 DEF Ended
  <2> QED BY <2>1, <2>2
<1>5. ASSUME NEW p \in Runs, Began(p) PROVE SlotOwned' /\ IdleUnnamed'
  <2>1. ~pipe'[p].registered
    BY <1>5 DEF Began
  <2>2. SlotOwned'
    BY <1>5, <2>1 DEF Began, SlotOwned, Provisional
  <2>3. IdleUnnamed'
    BY <1>5, <2>1 DEF Began
  <2> QED BY <2>2, <2>3
<1> QED BY <1>1, <1>2, <1>3, <1>4, <1>5 DEF Effect

\* A pipe that is somewhere between its first chunk and its return is unfinished.
LEMMA AtWork ==
  ASSUME NEW p \in Runs, pipe[p].at \notin {"idle", "over"}
  PROVE  p \in Unfinished
  BY DEF Unfinished

\* A step of one pipe that neither names nor ends it.
LEMMA WorksOn ==
  ASSUME TypeOK, NEW p \in Runs, p \in Unfinished,
         NEW q \in Pipe, pipe' = [pipe EXCEPT ![p] = q],
         q.at \notin {"idle", "over"}, q.registered = pipe[p].registered
  PROVE  \A r \in Runs : Same(r)
  BY DEF Same, Unfinished, TypeOK

\* A pipe that returns drops the entry it owns and no other.
LEMMA ReturnedEffect ==
  ASSUME TypeOK, NEW p \in Runs, p \in Unfinished, UNCHANGED entry,
         pipe' = [pipe EXCEPT ![p] = Returned(pipe[p])], DeleteIfRunId(Owned(p))
  PROVE  Ended(p)
<1>1. pipe'[p].at = "over"
  BY DEF TypeOK, Returned, Pipe
<1>2. \A q \in Runs \ {p} : pipe'[q] = pipe[q]
  BY DEF TypeOK
<1>3. \A q \in Runs \ {p} : Same(q)
  BY <1>2 DEF Same, Unfinished
<1>4. current' # NoRun => current' = current /\ entry[current].runId # Owned(p)
  BY DEF DeleteIfRunId, Registered
<1> QED BY <1>1, <1>3, <1>4 DEF Ended

\* The finally block leaves the owner or ends the pipe.
LEMMA FinishEffect ==
  ASSUME TypeOK, NEW p \in Runs, p \in Unfinished, Finish(p, pipe[p]), UNCHANGED entry
  PROVE  Effect
<1> USE DEF TypeOK
<1>1. CASE /\ pipe' = [pipe EXCEPT ![p] = [pipe[p] EXCEPT !.at = "departing"]]
           /\ UNCHANGED current
  BY <1>1 DEF Effect, SameOwners, Same, Unfinished, Pipe
<1>2. CASE /\ pipe' = [pipe EXCEPT ![p] = Returned(pipe[p])]
           /\ DeleteIfRunId(Owned(p))
  BY <1>2, ReturnedEffect DEF Effect
<1> QED BY <1>1, <1>2 DEF Finish

\* A chunk that may be the first to name the run of p.
Names(p, named) ==
    /\ Reads(p, named) /\ p \in Runs
    /\ current' = current
    /\ pipe'[p].registered = named
    /\ pipe'[p].at \notin {"idle", "over"}
    /\ \A q \in Runs \ {p} : pipe'[q] = pipe[q]
    /\ \A r \in Runs : entry'[r].runId = Reconciled(p, named)[r].runId

LEMMA NamesEffect ==
  ASSUME TypeOK, NEW p \in Runs, NEW named \in BOOLEAN, Names(p, named)
  PROVE  Effect
<1> USE DEF TypeOK, Names
<1>1. \A q \in Runs \ {p} : Same(q)
  BY DEF Same, Unfinished
<1>2. p \in Unfinished /\ p \in Unfinished'
  BY DEF Reads, Streaming, Unfinished
<1>3. CASE named /\ ~pipe[p].registered
  <2>1. Registered /\ current \in Runs
    BY <1>3 DEF Reads, Registered
  <2>2. entry'[current].runId = Real(p)
    BY <1>3, <2>1 DEF Reconciled, Entry
  <2> QED BY <1>1, <1>2, <1>3, <2>1, <2>2 DEF Named, Effect
<1>4. CASE ~(named /\ ~pipe[p].registered)
  <2>1. \A r \in Runs : entry'[r].runId = entry[r].runId
    BY <1>4 DEF Reconciled
  <2>2. pipe[p].registered \in BOOLEAN
    BY DEF Pipe
  <2>3. Same(p)
    BY <1>2, <1>4, <2>2 DEF Same, Reads
  <2> QED BY <1>1, <2>1, <2>3 DEF SameOwners, Effect
<1> QED BY <1>3, <1>4

\* The end of a turn leaves the ids alone.
LEMMA RotatedKeepsIds ==
  ASSUME TypeOK, NEW e \in [Runs -> Entry], NEW named \in BOOLEAN, NEW r \in Runs
  PROVE  Rotated(e, named)[r].runId = e[r].runId
  BY DEF Rotated, Registered, TypeOK, Entry

\* Every step has one of the effects.
LEMMA PipeEffect ==
  ASSUME TypeOK, NEW p \in Runs, Chunk(p) \/ Resumes(p)
  PROVE  Effect
<1> USE DEF TypeOK, Streaming
<1>1. CASE FirstChunkAfterTeardown(p)
  BY <1>1 DEF FirstChunkAfterTeardown, ReadsTooLate, Effect, SameOwners, Same, Unfinished, Pipe
<1>2. CASE StreamEnds(p)
  BY <1>2 DEF StreamEnds, ReadsTooLate, Effect, SameOwners, Same, Unfinished, Pipe
<1>3. CASE StreamCut(p)
  BY <1>3 DEF StreamCut, ReadsTooLate, Effect, SameOwners, Same, Unfinished, Pipe
<1>4. CASE ErrorAudited(p)
  BY <1>4 DEF ErrorAudited, ReadsTooLate, Effect, SameOwners, Same, Unfinished, Pipe
<1>5. CASE SilenceReported(p)
  BY <1>5 DEF SilenceReported, ReadsTooLate, Effect, SameOwners, Same, Unfinished, Pipe
<1>6. CASE TextChunk(p)
  <2>1. /\ current' = current
        /\ \A r \in Runs : entry'[r].runId = entry[r].runId
    BY <1>6 DEF TextChunk
  <2>2. \A r \in Runs : Same(r)
    BY <1>6 DEF TextChunk, Same, Unfinished, Pipe
  <2> QED BY <2>1, <2>2 DEF Effect, SameOwners
<1>7. CASE Superseded(p)
  <2>1. /\ current' = current
        /\ \A r \in Runs : entry'[r].runId = entry[r].runId
    BY <1>7 DEF Superseded, Rotated
  <2>2. \A r \in Runs : Same(r)
    BY <1>7 DEF Superseded, Same, Unfinished, Pipe
  <2> QED BY <2>1, <2>2 DEF Effect, SameOwners
<1>8. CASE StreamThrows(p)
  <2>1. CASE Finish(p, pipe[p])
    BY <1>8, <2>1, AtWork, FinishEffect DEF StreamThrows
  <2>2. CASE /\ pipe' = [pipe EXCEPT ![p].at = "surfacing", ![p].saw = @ \cup {"failure"}]
             /\ UNCHANGED <<current, told>>
    BY <1>8, <2>2 DEF StreamThrows, Effect, SameOwners, Same, Unfinished, Pipe
  <2> QED BY <1>8, <2>1, <2>2 DEF StreamThrows
<1>9. CASE Delivered(p)
  <2>1. CASE Finish(p, pipe[p])
    BY <1>9, <2>1, AtWork, FinishEffect DEF Delivered
  <2>2. CASE pipe' = [pipe EXCEPT ![p].at = "persisting"] /\ UNCHANGED <<current, told>>
    BY <1>9, <2>2 DEF Delivered, Effect, SameOwners, Same, Unfinished, Pipe
  <2> QED BY <1>9, <2>1, <2>2 DEF Delivered
<1>10. CASE SilenceAudited(p)
  BY <1>10, AtWork, FinishEffect DEF SilenceAudited
<1>11. CASE FailureSurfaced(p)
  BY <1>11, AtWork, FinishEffect DEF FailureSurfaced
<1>12. CASE Departed(p)
  BY <1>12, AtWork, ReturnedEffect DEF Departed, Effect
<1>13. CASE Acknowledged(p)
  <2>1. Names(p, TRUE)
    <3>1. pipe'[p].registered = TRUE /\ pipe'[p].at = pipe[p].at
      BY <1>13 DEF Acknowledged, Pipe
    <3>2. \A q \in Runs \ {p} : pipe'[q] = pipe[q]
      BY <1>13 DEF Acknowledged
    <3> QED BY <1>13, <3>1, <3>2 DEF Acknowledged, Names, Reads
  <2> QED BY <1>13, <2>1, NamesEffect DEF Acknowledged
<1>14. ASSUME NEW named \in BOOLEAN, ErrorChunk(p, named) PROVE Effect
  <2>1. Names(p, named)
    <3>1. pipe'[p].registered = named
      BY <1>14 DEF ErrorChunk, Pipe
    <3>2. pipe'[p].at \notin {"idle", "over"}
      BY <1>14 DEF ErrorChunk, Reads, Pipe
    <3>3. \A q \in Runs \ {p} : pipe'[q] = pipe[q]
      BY <1>14 DEF ErrorChunk
    <3>4. \A r \in Runs : entry'[r].runId = Reconciled(p, named)[r].runId
      BY <1>14 DEF ErrorChunk
    <3> QED BY <1>14, <3>1, <3>2, <3>3, <3>4 DEF ErrorChunk, Names
  <2> QED BY <1>14, <2>1, NamesEffect DEF ErrorChunk
<1>15. ASSUME NEW named \in BOOLEAN, DoneChunk(p, named) PROVE Effect
  <2>1. Names(p, named)
    <3>1. pipe'[p].registered = named
      BY <1>15 DEF DoneChunk, Pipe
    <3>2. pipe'[p].at \notin {"idle", "over"}
      BY <1>15 DEF DoneChunk, Reads, Pipe
    <3>3. \A q \in Runs \ {p} : pipe'[q] = pipe[q]
      BY <1>15 DEF DoneChunk
    <3>4. \A r \in Runs : entry'[r].runId = Reconciled(p, named)[r].runId
      BY <1>15, RotatedKeepsIds, ReconciledType DEF DoneChunk
    <3> QED BY <1>15, <3>1, <3>2, <3>3, <3>4 DEF DoneChunk, Names
  <2> QED BY <1>15, <2>1, NamesEffect DEF DoneChunk
<1> QED BY <1>1, <1>2, <1>3, <1>4, <1>5, <1>6, <1>7, <1>8, <1>9, <1>10, <1>11, <1>12, <1>13, <1>14,
           <1>15 DEF Chunk, Resumes

\* Nor do the browser, the watchdog and the gateway take an entry from its owner.
LEMMA OtherEffect ==
  ASSUME TypeOK,
         \/ \E p \in Runs, w \in Tabs : Dispatch(p, w)
         \/ Tick \/ StopPressed \/ GatewayDrops
         \/ \E w \in Tabs : Browser(w)
  PROVE  Effect
<1> USE DEF TypeOK
<1>1. ASSUME NEW p \in Runs, NEW w \in Tabs, Dispatch(p, w) PROVE Began(p)
  BY <1>1 DEF Dispatch, Began, Pending, Same, Unfinished, Pipe, Entry
<1>2. CASE Tick
  <2>1. \A p \in Runs : Same(p)
    BY <1>2 DEF Tick, TickFinds, TickAudited, TickAborted, Same, Unfinished
  <2>2. entry' = entry /\ (current' = current \/ current' = NoRun)
    BY <1>2 DEF Tick, TickFinds, TickAudited, TickAborted, DeleteIfRunId
  <2> QED BY <2>1, <2>2 DEF Effect, SameOwners, GivenUp
<1>3. CASE StopPressed
  BY <1>3 DEF StopPressed, Registered, Entry, Effect, SameOwners, Same, Unfinished
<1>4. CASE GatewayDrops
  <2>1. \A p \in Runs : pipe'[p].at = pipe[p].at /\ pipe'[p].registered = pipe[p].registered
    BY <1>4 DEF GatewayDrops, Pipe
  <2>2. \A p \in Runs : Same(p)
    BY <2>1 DEF Same, Unfinished
  <2> QED BY <1>4, <2>2 DEF GatewayDrops, Effect, SameOwners
<1>5. ASSUME NEW w \in Tabs, Browser(w) PROVE Effect
  <2>1. \A p \in Runs : Same(p)
    BY <1>5 DEF Browser, HistoryAsked, HistorySnapshot, TabLeaves, Same, Unfinished
  <2>2. current' = current /\ \A r \in Runs : entry'[r].runId = entry[r].runId
    <3>1. CASE HistoryAsked(w)
      BY <3>1 DEF HistoryAsked, Registered
    <3>2. CASE HistorySnapshot(w)
      BY <3>2 DEF HistorySnapshot
    <3>3. CASE TabLeaves(w)
      BY <3>3 DEF TabLeaves, Registered
    <3> QED BY <1>5, <3>1, <3>2, <3>3 DEF Browser
  <2> QED BY <2>1, <2>2 DEF Effect, SameOwners
<1> QED BY <1>1, <1>2, <1>3, <1>4, <1>5 DEF Effect

\* So every step does.
LEMMA NextOwned == TypeOK /\ SlotOwned /\ IdleUnnamed /\ [Next]_vars => SlotOwned' /\ IdleUnnamed'
<1>1. TypeOK /\ SlotOwned /\ IdleUnnamed /\ UNCHANGED vars => SlotOwned' /\ IdleUnnamed'
  BY DEF vars, SlotOwned, IdleUnnamed, Registered, Unfinished
<1>2. TypeOK /\ Next => Effect
  BY PipeEffect, OtherEffect DEF Next
<1> QED BY <1>1, <1>2, NextTypeOK, EffectKeepsOwner

\* Whatever the registry has for the session belongs to an unfinished pipe that
\* will drop it: the finally block leaks no entry, however messages overlap.
THEOREM NoEntryLeaked == Spec => []EntryOwned
<1>1. Init => TypeOK /\ SlotOwned /\ IdleUnnamed
  <2> SUFFICES ASSUME Init PROVE SlotOwned /\ IdleUnnamed
    BY InitTypeOK
  <2> QED BY DEF Init, SlotOwned, IdleUnnamed, Registered
<1>2. TypeOK /\ SlotOwned /\ IdleUnnamed /\ [Next]_vars => TypeOK' /\ SlotOwned' /\ IdleUnnamed'
  BY NextTypeOK, NextOwned
<1>3. SlotOwned => EntryOwned
  BY DEF SlotOwned, EntryOwned, Owned
<1> QED BY <1>1, <1>2, <1>3, PTL DEF Spec

-----------------------------------------------------------------------------
(* What a tab is told about a run that no other run overlaps.               *)

Working(p) == p \in Unfinished

\* Where a pipe is says what it has seen and what it has told: only a failed or
\* silent stream reports a failure, which is on record from then on, and
\* `completed` comes last and never after a failure.
StageFits(p) ==
    LET q == pipe[p] IN
    /\ q.at = "idle" => /\ told[p] = {} /\ q.saw = {} /\ q.emitted = {}
                        /\ ~q.registered /\ p \notin stopped
    /\ "failed" \in told[p] =>
         p \in failures /\ ("failure" \in q.saw \/ q.at \in {"reporting", "departing", "over"})
    /\ q.at \in {"auditing", "surfacing"} => "failure" \in q.saw
    /\ q.at = "superseding" => "failure" \notin q.saw
    /\ q.at = "reporting" => "failed" \in told[p]
    /\ "completed" \in told[p] => q.at \in {"departing", "over"} /\ "failed" \notin told[p]

\* A run that is alone has the session's entry to itself, with the words it
\* emitted; only the watchdog takes it away, and only before the run is named.
LoneSlot(p) ==
    /\ Working(p) =>
         /\ Unfinished = {p} /\ current \in {p, NoRun}
         /\ entry[p].content = pipe[p].emitted
         /\ pipe[p].registered => current = p /\ entry[p].started
         /\ ~pipe[p].registered => pipe[p].emitted = {}
         /\ current = NoRun <=> "noFirstChunk" \in told[p]
    /\ pipe[p].at = "over" => current # p

\* The watchdog's verdict is the only one of a run torn down, and none of a run
\* that was named; a loop that leaves without a word was disconnected.
LoneVerdict(p) ==
    /\ pipe[p].registered => "noFirstChunk" \notin told[p]
    /\ "tornDown" \in pipe[p].saw =>
         told[p] = {"noFirstChunk"} /\ pipe[p].at \in {"delivering", "departing", "over"}
    /\ pipe[p].at \in {"departing", "over"} /\ told[p] = {} => "disconnected" \in pipe[p].saw

\* A run stopped while it was healthy keeps its mark, so nothing later in it
\* counts as a failure.
LoneStop(p) ==
    p \in stopped /\ "noFirstChunk" \notin told[p] =>
        /\ "failed" \notin told[p] /\ "failure" \notin pipe[p].saw
        /\ pipe[p].at \notin {"auditing", "surfacing", "persisting", "reporting"}
        /\ Working(p) => entry[p].abortedByUser

LoneFits(p) == Alone(p) => LoneSlot(p) /\ LoneVerdict(p) /\ LoneStop(p)

\* The session's run has begun.
CurrentBegun == Registered => pipe[current].at # "idle"

\* The tick under way is about a run.
WatchNamed == watch.at # "idle" => watch.run \in Runs

RunsFit == CurrentBegun /\ WatchNamed /\ \A p \in Runs : StageFits(p) /\ LoneFits(p)

\* Nothing but the fields of one pipe changes.
LEMMA StaysAtWork ==
  ASSUME NEW p \in Runs, pipe'[p].at \notin {"idle", "over"},
         \A q \in Runs \ {p} : pipe'[q] = pipe[q], Working(p)
  PROVE  Unfinished' = Unfinished
  BY DEF Unfinished, Working

\* The last step of a pipe that was alone leaves none at work, and so no entry:
\* what the session has is owned by a pipe at work.
LEMMA LastLeaves ==
  ASSUME NEW p \in Runs, Unfinished = {p}, pipe'[p].at = "over",
         \A q \in Runs \ {p} : pipe'[q] = pipe[q], SlotOwned'
  PROVE  Unfinished' = {} /\ current' = NoRun
<1>1. Unfinished' = {}
  BY DEF Unfinished
<1> QED BY <1>1 DEF SlotOwned, Registered

\* What the finally block leaves of a pipe.
LEMMA FinishPicture ==
  ASSUME TypeOK, NEW p \in Runs, Finish(p, pipe[p])
  PROVE  /\ \A q \in Runs \ {p} : pipe'[q] = pipe[q]
         /\ pipe'[p].registered = pipe[p].registered
         /\ \/ /\ pipe'[p].at = "departing" /\ current' = current
               /\ pipe'[p].saw = pipe[p].saw /\ pipe'[p].emitted = pipe[p].emitted
            \/ /\ pipe'[p].at = "over"
               /\ pipe'[p].saw = pipe[p].saw \cap {"tornDown", "disconnected"}
<1>0. pipe \in [Runs -> Pipe] /\ pipe[p] \in Pipe
  BY DEF TypeOK
<1>1. CASE /\ pipe' = [pipe EXCEPT ![p] = [pipe[p] EXCEPT !.at = "departing"]]
           /\ UNCHANGED current
  BY <1>0, <1>1 DEF Pipe
<1>2. CASE pipe' = [pipe EXCEPT ![p] = Returned(pipe[p])]
  <2>1. pipe'[p] = Returned(pipe[p]) /\ \A q \in Runs \ {p} : pipe'[q] = pipe[q]
    BY <1>0, <1>2
  <2>2. /\ Returned(pipe[p]).at = "over" /\ Returned(pipe[p]).registered = pipe[p].registered
        /\ Returned(pipe[p]).saw = pipe[p].saw \cap {"tornDown", "disconnected"}
    BY <1>0 DEF Returned, Pipe
  <2> QED BY <2>1, <2>2
<1> QED BY <1>1, <1>2 DEF Finish

\* A pipe that ends fits its stage, if what it told by then does.
LEMMA FinishFits ==
  ASSUME TypeOK, TypeOK', NEW p \in Runs, Working(p), SlotOwned', StageFits(p), LoneFits(p),
         Finish(p, pipe[p]), UNCHANGED <<entry, stopped, crossed>>,
         "failed" \in told'[p] => p \in failures' /\ "completed" \notin told'[p],
         Alone(p) => /\ told'[p] = {} => "disconnected" \in pipe[p].saw
                     /\ "tornDown" \in pipe[p].saw => told'[p] = told[p]
                     /\ "noFirstChunk" \in told'[p] => "noFirstChunk" \in told[p]
                     /\ "noFirstChunk" \in told[p] => "noFirstChunk" \in told'[p]
                     /\ "failed" \in told'[p] /\ "failed" \notin told[p] => p \notin stopped \/ "noFirstChunk" \in told[p]
  PROVE  StageFits(p)' /\ LoneFits(p)'
<1>1. /\ \A q \in Runs \ {p} : pipe'[q] = pipe[q]
      /\ pipe'[p].registered = pipe[p].registered
      /\ \/ /\ pipe'[p].at = "departing" /\ current' = current
            /\ pipe'[p].saw = pipe[p].saw /\ pipe'[p].emitted = pipe[p].emitted
         \/ /\ pipe'[p].at = "over"
            /\ pipe'[p].saw = pipe[p].saw \cap {"tornDown", "disconnected"}
  BY FinishPicture
<1>2. StageFits(p)'
  BY <1>1 DEF StageFits
<1>3. ASSUME Alone(p) PROVE LoneSlot(p)' /\ LoneVerdict(p)' /\ LoneStop(p)'
  <2>0. LoneSlot(p) /\ LoneVerdict(p) /\ LoneStop(p)
    BY <1>3 DEF LoneFits
  <2>1. CASE pipe'[p].at = "departing"
    <3>1. Unfinished' = Unfinished
      BY <1>1, <2>1, StaysAtWork
    <3>2. LoneSlot(p)'
      BY <1>1, <1>3, <2>0, <2>1, <3>1 DEF LoneSlot, Working
    <3>3. LoneVerdict(p)'
      BY <1>1, <1>3, <2>0, <2>1 DEF LoneVerdict
    <3>4. LoneStop(p)'
      BY <1>1, <1>3, <2>0, <2>1, <3>1 DEF LoneStop, Working
    <3> QED BY <3>2, <3>3, <3>4
  <2>2. CASE pipe'[p].at = "over"
    <3>1. Unfinished' = {} /\ current' = NoRun
      BY <1>1, <2>0, <2>2, LastLeaves DEF LoneSlot, Working
    <3>2. NoRun \notin Runs
      BY DEF NoRun, Runs
    <3>3. LoneSlot(p)'
      BY <2>2, <3>1, <3>2 DEF LoneSlot, Working
    <3>4. LoneVerdict(p)'
      BY <1>1, <1>3, <2>0, <2>2 DEF LoneVerdict
    <3>5. LoneStop(p)'
      BY <1>1, <1>3, <2>0, <2>2, <3>1 DEF LoneStop, Working
    <3> QED BY <3>3, <3>4, <3>5
  <2> QED BY <1>1, <2>1, <2>2
<1> QED BY <1>2, <1>3 DEF LoneFits, Alone

\* A pipe that goes on working fits its stage and its slot, if the one field
\* group that changed does.
LEMMA WorkFits ==
  ASSUME NEW p \in Runs, Working(p), LoneFits(p), pipe'[p].at \notin {"idle", "over", "departing"},
         \A q \in Runs \ {p} : pipe'[q] = pipe[q], UNCHANGED <<current, crossed>>,
         pipe[p].at # "departing",
         Alone(p) =>
           /\ entry'[p].content = pipe'[p].emitted
           /\ pipe'[p].registered => current = p /\ entry'[p].started
           /\ ~pipe'[p].registered => pipe'[p].emitted = {}
           /\ "noFirstChunk" \in told[p] <=> "noFirstChunk" \in told'[p]
           /\ pipe'[p].registered => "noFirstChunk" \notin told'[p]
           /\ "tornDown" \in pipe'[p].saw => told'[p] = {"noFirstChunk"} /\ pipe'[p].at = "delivering"
           /\ LoneStop(p)'
  PROVE  LoneFits(p)'
<1>1. Unfinished' = Unfinished
  BY StaysAtWork
<1>2. ASSUME Alone(p) PROVE LoneSlot(p)' /\ LoneVerdict(p)'
  <2>1. LoneSlot(p)
    BY <1>2 DEF LoneFits
  <2>2. LoneSlot(p)'
    BY <1>1, <1>2, <2>1 DEF LoneSlot, Working
  <2> QED BY <1>2, <2>2 DEF LoneVerdict
<1> QED BY <1>2 DEF LoneFits, Alone

\* A chunk changes what the session's entry says of a run that is alone.
LEMMA NamedSlot ==
  ASSUME TypeOK, NEW p \in Runs, NEW named \in BOOLEAN, Reads(p, named),
         LoneFits(p), Alone(p), Working(p)
  PROVE  LET e == Reconciled(p, named)[p] IN
           /\ e.content = entry[p].content /\ e.abortedByUser = entry[p].abortedByUser
           /\ named => current = p /\ e.started /\ "noFirstChunk" \notin told[p]
<1>1. LoneSlot(p) /\ LoneVerdict(p)
  BY DEF LoneFits
<1>2. CASE named /\ ~pipe[p].registered
  <2>1. current = p
    BY <1>1, <1>2 DEF Reads, Registered, LoneSlot
  <2>2. entry[p] \in Entry
    BY DEF TypeOK
  <2>3. NoRun \notin Runs
    BY DEF NoRun, Runs
  <2>4. "noFirstChunk" \notin told[p]
    BY <1>1, <2>1, <2>3 DEF LoneSlot
  <2> QED BY <1>2, <2>1, <2>2, <2>4 DEF Reconciled, TypeOK, Entry
<1>3. CASE ~(named /\ ~pipe[p].registered)
  BY <1>1, <1>3 DEF Reconciled, LoneSlot, LoneVerdict, Reads
<1> QED BY <1>2, <1>3

\* What a chunk of a run leaves: the stage and the slot of the run still fit.
LEMMA ChunkFits ==
  ASSUME TypeOK, TypeOK', SlotOwned', NEW p \in Runs, Chunk(p), Working(p),
         StageFits(p), LoneFits(p)
  PROVE  StageFits(p)' /\ LoneFits(p)'
<1>0. /\ pipe \in [Runs -> Pipe] /\ pipe[p] \in Pipe
      /\ entry \in [Runs -> Entry] /\ entry[p] \in Entry
      /\ told[p] \subseteq Verdicts /\ NoRun \notin Runs
  BY DEF TypeOK, NoRun, Runs
<1>00. Alone(p) => LoneSlot(p) /\ LoneVerdict(p) /\ LoneStop(p)
  BY DEF LoneFits
<1>1. CASE FirstChunkAfterTeardown(p)
  <2>1. /\ pipe[p].at = "streaming" /\ ~pipe[p].registered /\ current = NoRun
        /\ "failure" \notin pipe[p].saw
        /\ pipe'[p].at = "delivering" /\ pipe'[p].saw = pipe[p].saw \cup {"tornDown"}
        /\ pipe'[p].registered = pipe[p].registered /\ pipe'[p].emitted = pipe[p].emitted
        /\ \A q \in Runs \ {p} : pipe'[q] = pipe[q]
        /\ UNCHANGED <<current, entry, failures, told, stopped, crossed>>
    BY <1>0, <1>1 DEF FirstChunkAfterTeardown, ReadsTooLate, Streaming, Registered, Healthy, Pipe
  <2>2. StageFits(p)'
    BY <2>1 DEF StageFits
  <2>3. "failed" \notin told[p] /\ "completed" \notin told[p]
    BY <2>1 DEF StageFits
  <2>4. Alone(p) => told[p] = {"noFirstChunk"}
    BY <1>0, <1>00, <2>1, <2>3 DEF LoneSlot, Verdicts
  <2>5. Alone(p) => LoneStop(p)'
    BY <2>1, <2>4 DEF LoneStop
  <2> QED BY <1>0, <1>00, <2>1, <2>2, <2>4, <2>5, WorkFits DEF LoneSlot, LoneVerdict
<1>2. CASE Acknowledged(p)
  <2>1. /\ pipe[p].at = "streaming" /\ Reads(p, TRUE) /\ ~pipe[p].registered
        /\ pipe'[p].at = "streaming" /\ pipe'[p].saw = pipe[p].saw \cup {"ack"}
        /\ pipe'[p].registered /\ pipe'[p].emitted = pipe[p].emitted
        /\ \A q \in Runs \ {p} : pipe'[q] = pipe[q]
        /\ entry' = Reconciled(p, TRUE)
        /\ UNCHANGED <<current, failures, told, stopped, crossed>>
    BY <1>0, <1>2 DEF Acknowledged, Reads, Streaming, Pipe
  <2>2. StageFits(p)'
    BY <2>1 DEF StageFits
  <2>3. Alone(p) => /\ entry'[p].content = entry[p].content
                    /\ entry'[p].abortedByUser = entry[p].abortedByUser
                    /\ current = p /\ entry'[p].started /\ "noFirstChunk" \notin told[p]
    BY <2>1, NamedSlot
  <2>4. Alone(p) => LoneStop(p)'
    BY <1>00, <2>1, <2>3 DEF LoneStop, Working
  <2> QED BY <1>0, <1>00, <2>1, <2>2, <2>3, <2>4, WorkFits DEF LoneSlot, LoneVerdict
<1>3. CASE TextChunk(p)
  <2> DEFINE t == <<p, pipe[p].texts + 1>>
  <2>1. /\ pipe[p].at = "streaming" /\ pipe[p].registered
        /\ pipe'[p].at = "streaming" /\ pipe'[p].saw = pipe[p].saw \cup {"text"}
        /\ pipe'[p].registered /\ pipe'[p].emitted = pipe[p].emitted \cup {t}
        /\ \A q \in Runs \ {p} : pipe'[q] = pipe[q]
        /\ entry' = IF Registered THEN [entry EXCEPT ![current].content = pipe'[p].emitted] ELSE entry
        /\ UNCHANGED <<current, failures, told, stopped, crossed>>
    BY <1>0, <1>3 DEF TextChunk, Streaming, Pipe
  <2> HIDE DEF t
  <2>2. StageFits(p)'
    BY <2>1 DEF StageFits
  <2>3. Alone(p) => /\ entry'[p].content = pipe'[p].emitted
                    /\ entry'[p].abortedByUser = entry[p].abortedByUser
                    /\ current = p /\ entry'[p].started
    BY <1>0, <1>00, <2>1 DEF LoneSlot, Registered, Entry
  <2>4. Alone(p) => LoneStop(p)'
    BY <1>00, <2>1, <2>3 DEF LoneStop, Working
  <2> QED BY <1>0, <1>00, <2>1, <2>2, <2>3, <2>4, WorkFits DEF LoneSlot, LoneVerdict
<1>4. ASSUME NEW named \in BOOLEAN, ErrorChunk(p, named)
      PROVE  StageFits(p)' /\ LoneFits(p)'
  <2>1. /\ pipe[p].at = "streaming" /\ Reads(p, named)
        /\ "failure" \notin pipe[p].saw
        /\ pipe'[p].registered = named /\ pipe'[p].emitted = pipe[p].emitted
        /\ \/ /\ StopRequested
              /\ pipe'[p].at = "streaming" /\ pipe'[p].saw = pipe[p].saw \cup {"userAbort"}
           \/ /\ ~StopRequested
              /\ pipe'[p].at = "auditing" /\ pipe'[p].saw = pipe[p].saw \cup {"failure"}
        /\ \A q \in Runs \ {p} : pipe'[q] = pipe[q]
        /\ entry' = Reconciled(p, named)
        /\ UNCHANGED <<current, failures, told, stopped, crossed>>
    BY <1>0, <1>4 DEF ErrorChunk, Reads, Streaming, Healthy, Pipe
  <2>2. StageFits(p)'
    BY <2>1 DEF StageFits
  <2>3. Alone(p) => /\ entry'[p].content = entry[p].content
                    /\ entry'[p].abortedByUser = entry[p].abortedByUser
                    /\ named => current = p /\ entry'[p].started /\ "noFirstChunk" \notin told[p]
    BY <2>1, NamedSlot
  <2>4. pipe[p].registered => named
    BY <2>1 DEF Reads
  <2>5. Alone(p) => LoneStop(p)'
    <3>1. Alone(p) /\ p \in stopped /\ "noFirstChunk" \notin told[p] => StopRequested
      BY <1>0, <1>00 DEF LoneStop, LoneSlot, StopRequested, Registered
    <3> QED BY <1>00, <2>1, <2>3, <3>1 DEF LoneStop, Working
  <2> QED BY <1>0, <1>00, <2>1, <2>2, <2>3, <2>4, <2>5, WorkFits DEF LoneSlot, LoneVerdict
<1>5. ASSUME NEW named \in BOOLEAN, DoneChunk(p, named)
      PROVE  StageFits(p)' /\ LoneFits(p)'
  <2>1. /\ pipe[p].at = "streaming" /\ Reads(p, named)
        /\ pipe'[p].registered = named /\ pipe'[p].saw = pipe[p].saw
        /\ \A q \in Runs \ {p} : pipe'[q] = pipe[q]
        /\ UNCHANGED <<current, failures, told, stopped, crossed>>
    BY <1>0, <1>5 DEF DoneChunk, Reads, Streaming, Pipe
  <2>2. pipe[p].registered => named
    BY <2>1 DEF Reads
  <2>3. Alone(p) => LET e == Reconciled(p, named)[p] IN
                      /\ e.content = entry[p].content /\ e.abortedByUser = entry[p].abortedByUser
                      /\ named => current = p /\ e.started /\ "noFirstChunk" \notin told[p]
    BY <2>1, NamedSlot
  <2>4. CASE "failure" \in pipe[p].saw
    <3>1. /\ pipe'[p].at = "streaming" /\ pipe'[p].emitted = {}
          /\ entry' = Rotated(Reconciled(p, named), named)
      BY <1>0, <1>5, <2>1, <2>4 DEF DoneChunk, Pipe
    <3>2. StageFits(p)'
      BY <2>1, <3>1 DEF StageFits
    <3>3. Alone(p) => /\ entry'[p].content = {}
                      /\ entry'[p].abortedByUser = entry[p].abortedByUser
                      /\ named => entry'[p].started
      <4>1. Reconciled(p, named) \in [Runs -> Entry]
        BY <2>1, ReconciledType
      <4>2. CASE named
        BY <1>0, <2>3, <3>1, <4>1, <4>2 DEF Rotated, Registered, Entry
      <4>3. CASE ~named
        BY <1>00, <2>2, <2>3, <3>1, <4>3 DEF Rotated, LoneSlot
      <4> QED BY <4>2, <4>3
    <3>4. Alone(p) => LoneStop(p)'
      BY <1>00, <2>1, <3>1, <3>3 DEF LoneStop, Working
    <3> QED BY <1>0, <1>00, <2>1, <2>2, <2>3, <3>1, <3>2, <3>3, <3>4, WorkFits DEF LoneSlot, LoneVerdict
  <2>5. CASE "failure" \notin pipe[p].saw
    <3>1. /\ pipe'[p].at = "superseding" /\ pipe'[p].emitted = pipe[p].emitted
          /\ entry' = Reconciled(p, named)
      BY <1>0, <1>5, <2>1, <2>5 DEF DoneChunk, Pipe
    <3>2. StageFits(p)'
      BY <2>1, <2>5, <3>1 DEF StageFits
    <3>3. Alone(p) => LoneStop(p)'
      BY <1>00, <2>1, <2>3, <3>1 DEF LoneStop, Working
    <3> QED BY <1>0, <1>00, <2>1, <2>2, <2>3, <3>1, <3>2, <3>3, WorkFits DEF LoneSlot, LoneVerdict
  <2> QED BY <2>4, <2>5
<1>6. CASE StreamEnds(p)
  <2>1. /\ pipe[p].at = "streaming"
        /\ pipe'[p].at = "delivering" /\ pipe'[p].saw = pipe[p].saw
        /\ pipe'[p].registered = pipe[p].registered /\ pipe'[p].emitted = pipe[p].emitted
        /\ \A q \in Runs \ {p} : pipe'[q] = pipe[q]
        /\ UNCHANGED <<current, entry, failures, told, stopped, crossed>>
    BY <1>0, <1>6 DEF StreamEnds, Streaming, Pipe
  <2>2. StageFits(p)'
    BY <2>1 DEF StageFits
  <2>3. Alone(p) => LoneStop(p)'
    BY <1>00, <2>1 DEF LoneStop, Working
  <2> QED BY <1>0, <1>00, <2>1, <2>2, <2>3, WorkFits DEF LoneSlot, LoneVerdict
<1>7. CASE StreamThrows(p)
  <2>1. /\ pipe[p].at = "streaming" /\ "failure" \notin pipe[p].saw
        /\ UNCHANGED <<entry, failures, stopped, crossed>>
    BY <1>7 DEF StreamThrows, Streaming, Healthy
  <2>2. "failed" \notin told[p] /\ (Alone(p) => "tornDown" \notin pipe[p].saw)
    BY <1>00, <2>1 DEF StageFits, LoneVerdict
  <2>3. CASE Finish(p, pipe[p]) /\ told' = [told EXCEPT ![p] = @ \cup {"completed"}]
    <3>1. told'[p] = told[p] \cup {"completed"}
      BY <2>3 DEF TypeOK
    <3> QED BY <2>1, <2>2, <2>3, <3>1, FinishFits
  <2>4. CASE /\ ~StopRequested
             /\ pipe' = [pipe EXCEPT ![p].at = "surfacing", ![p].saw = @ \cup {"failure"}]
             /\ UNCHANGED <<current, told>>
    <3>1. /\ pipe'[p].at = "surfacing" /\ pipe'[p].saw = pipe[p].saw \cup {"failure"}
          /\ pipe'[p].registered = pipe[p].registered /\ pipe'[p].emitted = pipe[p].emitted
          /\ \A q \in Runs \ {p} : pipe'[q] = pipe[q]
      BY <1>0, <2>4 DEF Pipe
    <3>2. StageFits(p)'
      BY <2>1, <2>4, <3>1 DEF StageFits
    <3>3. Alone(p) => LoneStop(p)'
      BY <1>0, <1>00, <2>1, <2>4, <3>1 DEF LoneStop, LoneSlot, StopRequested, Registered
    <3> QED BY <1>0, <1>00, <2>1, <2>2, <2>4, <3>1, <3>2, <3>3, WorkFits DEF LoneSlot, LoneVerdict
  <2> QED BY <1>7, <2>3, <2>4 DEF StreamThrows
<1> QED BY <1>1, <1>2, <1>3, <1>4, <1>5, <1>6, <1>7 DEF Chunk

\* What an await of pipe() leaves when it is over.
LEMMA ResumeFits ==
  ASSUME TypeOK, TypeOK', SlotOwned', NEW p \in Runs, Resumes(p), Working(p),
         StageFits(p), LoneFits(p)
  PROVE  StageFits(p)' /\ LoneFits(p)'
<1>0. /\ pipe \in [Runs -> Pipe] /\ pipe[p] \in Pipe
      /\ entry \in [Runs -> Entry] /\ entry[p] \in Entry
      /\ told \in [Runs -> SUBSET Verdicts] /\ NoRun \notin Runs
  BY DEF TypeOK, NoRun, Runs
<1>00. Alone(p) => LoneSlot(p) /\ LoneVerdict(p) /\ LoneStop(p)
  BY DEF LoneFits
<1>1. CASE ErrorAudited(p)
  <2>1. /\ pipe[p].at = "auditing"
        /\ pipe'[p].at = "streaming" /\ pipe'[p].saw = pipe[p].saw
        /\ pipe'[p].registered = pipe[p].registered /\ pipe'[p].emitted = pipe[p].emitted
        /\ \A q \in Runs \ {p} : pipe'[q] = pipe[q]
        /\ told'[p] = told[p] \cup {"failed"} /\ p \in failures'
        /\ UNCHANGED <<current, entry, stopped, crossed>>
    BY <1>0, <1>1 DEF ErrorAudited, Pipe
  <2>2. StageFits(p)'
    BY <2>1 DEF StageFits
  <2>3. Alone(p) => LoneStop(p)'
    BY <1>00, <2>1 DEF LoneStop, Working
  <2> QED BY <1>0, <1>00, <2>1, <2>2, <2>3, WorkFits DEF LoneSlot, LoneVerdict
<1>2. CASE Superseded(p)
  <2>1. /\ pipe[p].at = "superseding"
        /\ pipe'[p].at = "streaming" /\ pipe'[p].saw = pipe[p].saw
        /\ pipe'[p].registered = pipe[p].registered /\ pipe'[p].emitted = {}
        /\ \A q \in Runs \ {p} : pipe'[q] = pipe[q]
        /\ entry' = Rotated(entry, pipe[p].registered)
        /\ UNCHANGED <<current, told, stopped, crossed>>
    BY <1>0, <1>2 DEF Superseded, Pipe
  <2>2. StageFits(p)'
    BY <2>1 DEF StageFits
  <2>3. Alone(p) => /\ entry'[p].content = {}
                    /\ entry'[p].abortedByUser = entry[p].abortedByUser
                    /\ pipe[p].registered => entry'[p].started
    BY <1>0, <1>00, <2>1 DEF Rotated, LoneSlot, Registered, Entry
  <2>4. Alone(p) => LoneStop(p)'
    BY <1>00, <2>1, <2>3 DEF LoneStop, Working
  <2> QED BY <1>0, <1>00, <2>1, <2>2, <2>3, <2>4, WorkFits DEF LoneSlot, LoneVerdict
<1>3. CASE StreamCut(p)
  <2>1. /\ pipe[p].at = "streaming"
        /\ pipe'[p].at = "delivering" /\ pipe'[p].saw = pipe[p].saw \cup {"disconnected"}
        /\ pipe'[p].registered = pipe[p].registered /\ pipe'[p].emitted = pipe[p].emitted
        /\ \A q \in Runs \ {p} : pipe'[q] = pipe[q]
        /\ UNCHANGED <<current, entry, failures, told, stopped, crossed>>
    BY <1>0, <1>3 DEF StreamCut, Streaming, Pipe
  <2>2. StageFits(p)'
    BY <2>1 DEF StageFits
  <2>3. Alone(p) => LoneStop(p)'
    BY <1>00, <2>1 DEF LoneStop, Working
  <2> QED BY <1>0, <1>00, <2>1, <2>2, <2>3, WorkFits DEF LoneSlot, LoneVerdict
<1>4. CASE Delivered(p)
  <2>1. /\ pipe[p].at = "delivering"
        /\ UNCHANGED <<entry, failures, stopped, crossed>>
        /\ "completed" \notin told[p]
    BY <1>4 DEF Delivered, StageFits
  <2>2. CASE Abandoned(p) /\ Finish(p, pipe[p]) /\ UNCHANGED told
    BY <1>00, <2>1, <2>2, FinishFits DEF Abandoned, StageFits, LoneVerdict
  <2>3. CASE /\ ~Abandoned(p) /\ Finish(p, pipe[p])
             /\ told' = IF "failed" \in told[p] THEN told
                        ELSE [told EXCEPT ![p] = @ \cup {"completed"}]
    <3>1. told'[p] = IF "failed" \in told[p] THEN told[p] ELSE told[p] \cup {"completed"}
      BY <1>0, <2>3
    <3> QED BY <1>00, <2>1, <2>3, <3>1, FinishFits DEF Abandoned, StageFits
  <2>4. CASE /\ ~Abandoned(p) /\ ~StopRequested
             /\ pipe' = [pipe EXCEPT ![p].at = "persisting"]
             /\ UNCHANGED <<current, told>>
    <3>1. /\ pipe'[p].at = "persisting" /\ pipe'[p].saw = pipe[p].saw
          /\ pipe'[p].registered = pipe[p].registered /\ pipe'[p].emitted = pipe[p].emitted
          /\ \A q \in Runs \ {p} : pipe'[q] = pipe[q]
      BY <1>0, <2>4 DEF Pipe
    <3>2. StageFits(p)'
      BY <2>1, <2>4, <3>1 DEF StageFits
    <3>3. Alone(p) => LoneStop(p)'
      BY <1>0, <1>00, <2>1, <2>4, <3>1 DEF LoneStop, LoneSlot, StopRequested, Registered
    <3>4. "tornDown" \notin pipe[p].saw
      BY <2>4 DEF Abandoned
    <3> QED BY <1>0, <1>00, <2>1, <2>4, <3>1, <3>2, <3>3, <3>4, WorkFits DEF LoneSlot, LoneVerdict
  <2> QED BY <1>4, <2>2, <2>3, <2>4 DEF Delivered
<1>5. CASE SilenceReported(p)
  <2>1. /\ pipe[p].at = "persisting"
        /\ pipe'[p].at = "reporting" /\ pipe'[p].saw = pipe[p].saw
        /\ pipe'[p].registered = pipe[p].registered /\ pipe'[p].emitted = pipe[p].emitted
        /\ \A q \in Runs \ {p} : pipe'[q] = pipe[q]
        /\ told'[p] = told[p] \cup {"failed"} /\ p \in failures'
        /\ UNCHANGED <<current, entry, stopped, crossed>>
    BY <1>0, <1>5 DEF SilenceReported, Pipe
  <2>2. StageFits(p)'
    BY <2>1 DEF StageFits
  <2>3. Alone(p) => LoneStop(p)'
    BY <1>00, <2>1 DEF LoneStop, Working
  <2> QED BY <1>0, <1>00, <2>1, <2>2, <2>3, WorkFits DEF LoneSlot, LoneVerdict
<1>6. CASE SilenceAudited(p)
  <2>1. /\ pipe[p].at = "reporting" /\ Finish(p, pipe[p])
        /\ UNCHANGED <<entry, failures, told, stopped, crossed>>
    BY <1>6 DEF SilenceAudited
  <2> QED BY <2>1, FinishFits DEF StageFits
<1>7. CASE FailureSurfaced(p)
  <2>1. /\ pipe[p].at = "surfacing" /\ Finish(p, pipe[p])
        /\ told'[p] = told[p] \cup {"failed"} /\ p \in failures'
        /\ UNCHANGED <<entry, stopped, crossed>>
    BY <1>0, <1>7 DEF FailureSurfaced
  <2> QED BY <1>00, <2>1, FinishFits DEF StageFits, LoneVerdict, LoneStop
<1>8. CASE Departed(p)
  <2>1. /\ pipe[p].at = "departing"
        /\ pipe'[p].at = "over"
        /\ pipe'[p].saw = pipe[p].saw \cap {"tornDown", "disconnected"}
        /\ pipe'[p].registered = pipe[p].registered
        /\ \A q \in Runs \ {p} : pipe'[q] = pipe[q]
        /\ UNCHANGED <<entry, failures, told, stopped, crossed>>
    BY <1>0, <1>8 DEF Departed, Returned, Pipe
  <2>2. StageFits(p)'
    BY <2>1 DEF StageFits
  <2>3. ASSUME Alone(p) PROVE LoneSlot(p)' /\ LoneVerdict(p)' /\ LoneStop(p)'
    <3>1. Unfinished' = {} /\ current' = NoRun
      BY <1>00, <2>1, <2>3, LastLeaves DEF LoneSlot, Working
    <3> QED BY <1>0, <1>00, <2>1, <2>3, <3>1 DEF LoneSlot, LoneVerdict, LoneStop, Working
  <2> QED BY <2>1, <2>2, <2>3 DEF LoneFits, Alone
<1> QED BY <1>1, <1>2, <1>3, <1>4, <1>5, <1>6, <1>7, <1>8 DEF Resumes

\* Only a pipe that is at work has a step to take.
LEMMA PipeAtWork ==
  ASSUME NEW q \in Runs, Chunk(q) \/ Resumes(q)
  PROVE  Working(q)
<1> USE DEF Working, Unfinished, Streaming, Reads
<1>1. CASE Chunk(q)
  BY <1>1 DEF Chunk, FirstChunkAfterTeardown, ReadsTooLate, Acknowledged, TextChunk, ErrorChunk,
     DoneChunk, StreamEnds, StreamThrows
<1>2. CASE Resumes(q)
  BY <1>2 DEF Resumes, ErrorAudited, Superseded, StreamCut, Delivered, SilenceReported,
     SilenceAudited, FailureSurfaced, Departed
<1> QED BY <1>1, <1>2

\* What a step of another pipe leaves of a run.
LEMMA OtherPipeKept ==
  ASSUME TypeOK, NEW p \in Runs, NEW q \in Runs, q # p, Chunk(q) \/ Resumes(q)
  PROVE  /\ Working(q) /\ UNCHANGED <<stopped, crossed>>
         /\ pipe'[p] = pipe[p] /\ told'[p] = told[p]
         /\ p \in failures <=> p \in failures'
         /\ current' \in {current, NoRun}
<1> USE DEF TypeOK, Working, Unfinished, Streaming, Reads, DeleteIfRunId, Finish
<1>1. CASE Chunk(q)
  BY <1>1 DEF Chunk, FirstChunkAfterTeardown, ReadsTooLate, Acknowledged, TextChunk, ErrorChunk,
     DoneChunk, StreamEnds, StreamThrows
<1>2. CASE Resumes(q)
  BY <1>2 DEF Resumes, ErrorAudited, Superseded, StreamCut, Delivered, SilenceReported,
     SilenceAudited, FailureSurfaced, Departed
<1> QED BY <1>1, <1>2

\* A run that is not at work is left as it is by the pipes that are.
LEMMA OtherPipeFits ==
  ASSUME TypeOK, NEW p \in Runs, NEW q \in Runs, q # p, Chunk(q) \/ Resumes(q),
         StageFits(p), LoneFits(p)
  PROVE  StageFits(p)' /\ LoneFits(p)'
<1>1. /\ Working(q) /\ UNCHANGED <<stopped, crossed>>
      /\ pipe'[p] = pipe[p] /\ told'[p] = told[p]
      /\ p \in failures <=> p \in failures'
      /\ current' \in {current, NoRun}
  BY OtherPipeKept
<1>2. StageFits(p)'
  BY <1>1 DEF StageFits
<1>3. ASSUME Alone(p) PROVE LoneSlot(p)' /\ LoneVerdict(p)' /\ LoneStop(p)'
  <2>1. LoneSlot(p) /\ LoneVerdict(p) /\ LoneStop(p)
    BY <1>3 DEF LoneFits
  <2>2. ~Working(p) /\ ~Working(p)' /\ NoRun \notin Runs
    BY <1>1, <2>1 DEF LoneSlot, Working, Unfinished, NoRun, Runs
  <2> QED BY <1>1, <2>1, <2>2 DEF LoneSlot, LoneVerdict, LoneStop
<1> QED BY <1>1, <1>2, <1>3 DEF LoneFits, Alone

\* A message sent while a run is at work crosses it; a run that begins alone has
\* the session to itself.
LEMMA DispatchFits ==
  ASSUME TypeOK, NEW p \in Runs, NEW q \in Runs, NEW w \in Tabs, Dispatch(q, w),
         StageFits(p), LoneFits(p)
  PROVE  StageFits(p)' /\ LoneFits(p)'
<1>1. /\ pipe[q].at = "idle" /\ pipe'[q].at = "streaming"
      /\ pipe'[q].saw = pipe[q].saw /\ pipe'[q].emitted = pipe[q].emitted
      /\ pipe'[q].registered = pipe[q].registered
      /\ \A r \in Runs \ {q} : pipe'[r] = pipe[r]
      /\ current' = q /\ entry'[q].content = {}
      /\ UNCHANGED <<told, failures, stopped>>
      /\ crossed' = crossed \cup (IF Unfinished = {} THEN {} ELSE Unfinished \cup {q})
  BY DEF Dispatch, Pending, TypeOK, Pipe
<1>2. StageFits(p)'
  BY <1>1 DEF StageFits
<1>3. ASSUME Alone(p)' PROVE LoneSlot(p)' /\ LoneVerdict(p)' /\ LoneStop(p)'
  <2>1. Alone(p) /\ LoneSlot(p) /\ LoneVerdict(p) /\ LoneStop(p)
    BY <1>1, <1>3 DEF LoneFits, Alone
  <2>2. ~Working(p)
    BY <1>1, <1>3 DEF Alone, Working
  <2>3. CASE p # q
    <3>1. ~Working(p)'
      BY <1>1, <2>2, <2>3 DEF Working, Unfinished
    <3> QED BY <1>1, <2>1, <2>3, <3>1 DEF LoneSlot, LoneVerdict, LoneStop
  <2>4. CASE p = q
    <3>1. Unfinished = {} /\ Unfinished' = {p}
      BY <1>1, <1>3, <2>4 DEF Alone, Unfinished
    <3>2. /\ told'[p] = {} /\ pipe'[p].saw = {} /\ pipe'[p].emitted = {}
          /\ ~pipe'[p].registered /\ p \notin stopped'
      BY <1>1, <2>4 DEF StageFits
    <3>3. NoRun \notin Runs
      BY DEF NoRun, Runs
    <3> QED BY <1>1, <2>4, <3>1, <3>2, <3>3 DEF LoneSlot, LoneVerdict, LoneStop, Working
  <2> QED BY <2>3, <2>4
<1> QED BY <1>2, <1>3 DEF LoneFits

\* The watchdog reports a run that nothing has named, and takes its entry.
LEMMA TickFits ==
  ASSUME TypeOK, NEW p \in Runs, Tick, CurrentBegun, WatchNamed, StageFits(p), LoneFits(p)
  PROVE  StageFits(p)' /\ LoneFits(p)'
<1>0. UNCHANGED <<pipe, entry, failures, stopped, crossed>> /\ Unfinished' = Unfinished
  BY DEF Tick, TickFinds, TickAudited, TickAborted, Unfinished
<1>1. CASE UNCHANGED <<current, told>>
  BY <1>0, <1>1 DEF StageFits, LoneFits, Alone, LoneSlot, LoneVerdict, LoneStop, Working
<1>2. CASE TickAborted /\ Unstarted(watch.run)
  <2>1. PICK r \in Runs : r = watch.run
    BY <1>2 DEF TickAborted, WatchNamed
  <2>2. current = r /\ ~entry[r].started /\ Registered
    BY <1>2, <2>1 DEF Unstarted, Registered, NoRun, Runs
  <2>3. /\ current' = NoRun
        /\ told'[r] = told[r] \cup {"noFirstChunk"}
        /\ \A q \in Runs \ {r} : told'[q] = told[q]
    BY <1>2, <2>1, <2>2 DEF TickAborted, Unstarted, DeleteIfRunId, TypeOK
  <2>4. pipe[r].at # "idle" /\ NoRun \notin Runs
    BY <2>2 DEF CurrentBegun, NoRun, Runs
  <2>5. StageFits(p)'
    BY <1>0, <2>3, <2>4 DEF StageFits
  <2>6. ASSUME Alone(p) PROVE LoneSlot(p)' /\ LoneVerdict(p)' /\ LoneStop(p)'
    <3>1. LoneSlot(p) /\ LoneVerdict(p) /\ LoneStop(p)
      BY <2>6 DEF LoneFits
    <3>2. CASE p = r
      <4>1. Working(p) /\ ~pipe[p].registered
        BY <2>2, <2>4, <3>1, <3>2 DEF LoneSlot, Working, Unfinished
      <4> QED BY <1>0, <2>3, <2>4, <3>1, <3>2, <4>1 DEF LoneSlot, LoneVerdict, LoneStop, Working
    <3>3. CASE p # r
      <4>1. ~Working(p) /\ ~Working(p)'
        BY <1>0, <2>2, <2>4, <3>1, <3>3 DEF LoneSlot, Working
      <4> QED BY <1>0, <2>3, <2>4, <3>1, <3>3, <4>1 DEF LoneSlot, LoneVerdict, LoneStop
    <3> QED BY <3>2, <3>3
  <2> QED BY <1>0, <2>5, <2>6 DEF LoneFits, Alone
<1> QED BY <1>1, <1>2 DEF Tick, TickFinds, TickAudited, TickAborted

\* The user stops the session's run.
LEMMA StopFits ==
  ASSUME TypeOK, NEW p \in Runs, StopPressed, CurrentBegun, StageFits(p), LoneFits(p)
  PROVE  StageFits(p)' /\ LoneFits(p)'
<1>1. PICK r \in Runs : r = current
  BY DEF StopPressed, Registered, TypeOK
<1>2. /\ UNCHANGED <<current, pipe, failures, told, crossed>> /\ Unfinished' = Unfinished
      /\ entry'[p].content = entry[p].content /\ entry'[p].started = entry[p].started
      /\ entry[p].abortedByUser \/ p = r => entry'[p].abortedByUser
      /\ p \in stopped' => p \in stopped \/ (p = r /\ Streaming(p) /\ Healthy(p))
  <2>1. /\ UNCHANGED <<current, pipe, failures, told, crossed>> /\ Unfinished' = Unfinished
        /\ p \in stopped' => p \in stopped \/ (p = r /\ Streaming(p) /\ Healthy(p))
    BY <1>1 DEF StopPressed, Unfinished
  <2>2. entry \in [Runs -> Entry] /\ entry' = [entry EXCEPT ![r].abortedByUser = TRUE]
    BY <1>1 DEF StopPressed, TypeOK
  <2>3. entry'[p] = IF p = r THEN [entry[p] EXCEPT !.abortedByUser = TRUE] ELSE entry[p]
    BY <2>2
  <2>4. entry[p] \in Entry
    BY <2>2
  <2> QED BY <2>1, <2>3, <2>4 DEF Entry
<1>3. StageFits(p)'
  BY <1>2 DEF StageFits, Streaming
<1>4. ASSUME Alone(p) PROVE LoneSlot(p)' /\ LoneVerdict(p)' /\ LoneStop(p)'
  <2>1. LoneSlot(p) /\ LoneVerdict(p) /\ LoneStop(p)
    BY <1>4 DEF LoneFits
  <2>2. LoneSlot(p)' /\ LoneVerdict(p)'
    BY <1>2, <2>1 DEF LoneSlot, LoneVerdict, Working
  <2>3. Streaming(p) /\ Healthy(p) =>
          /\ "failure" \notin pipe[p].saw /\ "failed" \notin told[p]
          /\ pipe[p].at \notin {"auditing", "surfacing", "persisting", "reporting"}
    BY DEF Streaming, Healthy, StageFits
  <2>4. LoneStop(p)'
    BY <1>2, <2>1, <2>3 DEF LoneStop, Working
  <2> QED BY <2>2, <2>4
<1> QED BY <1>2, <1>3, <1>4 DEF LoneFits, Alone

\* Nothing a run has said or has on record changes with the tabs and the gateway.
LEMMA RestFits ==
  ASSUME TypeOK, NEW p \in Runs, GatewayDrops \/ \E w \in Tabs : Browser(w),
         StageFits(p), LoneFits(p)
  PROVE  StageFits(p)' /\ LoneFits(p)'
<1>1. UNCHANGED <<current, failures, told, stopped, crossed>>
  BY DEF GatewayDrops, Browser, HistoryAsked, HistorySnapshot, TabLeaves
<1>2. \A q \in Runs :
        /\ pipe'[q].at = pipe[q].at /\ pipe'[q].saw = pipe[q].saw
        /\ pipe'[q].emitted = pipe[q].emitted /\ pipe'[q].registered = pipe[q].registered
  <2>1. CASE GatewayDrops
    <3>1. ASSUME NEW q \in Runs
          PROVE  pipe[q] \in Pipe /\ pipe'[q] = [pipe[q] EXCEPT !.cut = @ \/ q \in Unfinished]
      BY <2>1 DEF GatewayDrops, TypeOK
    <3> QED BY <3>1 DEF Pipe
  <2>2. CASE \E w \in Tabs : Browser(w)
    BY <2>2 DEF Browser, HistoryAsked, HistorySnapshot, TabLeaves
  <2> QED BY <2>1, <2>2
<1>3. /\ entry'[p].content = entry[p].content /\ entry'[p].started = entry[p].started
      /\ entry'[p].abortedByUser = entry[p].abortedByUser
  <2>1. entry \in [Runs -> Entry] /\ entry[p] \in Entry
    BY DEF TypeOK
  <2>2. entry' = entry \/ \E L : entry' = [entry EXCEPT ![current].listeners = L]
    BY DEF GatewayDrops, Browser, HistoryAsked, HistorySnapshot, TabLeaves
  <2>3. entry'[p] = entry[p] \/ \E L : entry'[p] = [entry[p] EXCEPT !.listeners = L]
    BY <2>1, <2>2
  <2> QED BY <2>1, <2>3 DEF Entry
<1>4. Unfinished' = Unfinished
  BY <1>2 DEF Unfinished
<1> QED BY <1>1, <1>2, <1>3, <1>4 DEF StageFits, LoneFits, Alone, LoneSlot, LoneVerdict, LoneStop, Working

\* No run begins twice, and the session's run and the watchdog's have begun.
LEMMA BegunKept ==
  ASSUME TypeOK, TypeOK', CurrentBegun, WatchNamed, Next
  PROVE  CurrentBegun' /\ WatchNamed'
<1>1. Effect
  BY PipeEffect, OtherEffect DEF Next
<1>2. CurrentBegun'
  BY <1>1 DEF Effect, SameOwners, GivenUp, Named, Ended, Began, Same, CurrentBegun, Registered,
     Unfinished, TypeOK
<1>3. CASE \E p \in Runs : Chunk(p)
  BY <1>2, <1>3 DEF Chunk, FirstChunkAfterTeardown, Acknowledged, TextChunk,
     ErrorChunk, DoneChunk, StreamEnds, StreamThrows, WatchNamed
<1>4. CASE \E p \in Runs : Resumes(p)
  BY <1>2, <1>4 DEF Resumes, ErrorAudited, Superseded, StreamCut, Delivered,
     SilenceReported, SilenceAudited, FailureSurfaced, Departed, WatchNamed
<1>5. CASE Tick
  <2>1. CASE \E p \in Runs : TickFinds(p)
    BY <1>2, <2>1 DEF TickFinds, WatchNamed
  <2>2. CASE TickAudited \/ TickAborted
    BY <1>2, <2>2 DEF TickAudited, TickAborted, WatchNamed, TypeOK
  <2> QED BY <1>5, <2>1, <2>2 DEF Tick
<1>6. CASE \/ \E p \in Runs, w \in Tabs : Dispatch(p, w)
           \/ StopPressed \/ GatewayDrops \/ \E w \in Tabs : Browser(w)
  BY <1>2, <1>6 DEF Dispatch, StopPressed, GatewayDrops, Browser, HistoryAsked, HistorySnapshot,
     TabLeaves, WatchNamed
<1> QED BY <1>2, <1>3, <1>4, <1>5, <1>6 DEF Next

\* Each run goes on fitting.
LEMMA NextFits ==
  ASSUME TypeOK, TypeOK', SlotOwned', RunsFit, [Next]_vars
  PROVE  RunsFit'
<1>1. CASE UNCHANGED vars
  BY <1>1 DEF vars, RunsFit, CurrentBegun, WatchNamed, Registered, StageFits, LoneFits, Alone,
     LoneSlot, LoneVerdict, LoneStop, Working, Unfinished
<1>2. CASE Next
  <2>1. ASSUME NEW p \in Runs PROVE StageFits(p)' /\ LoneFits(p)'
    <3>0. CurrentBegun /\ WatchNamed /\ StageFits(p) /\ LoneFits(p)
      BY DEF RunsFit
    <3>1. CASE \E q \in Runs \ {p} : Chunk(q) \/ Resumes(q)
      BY <3>0, <3>1, OtherPipeFits
    <3>2. CASE Chunk(p)
      <4>1. Working(p)
        BY <3>2, PipeAtWork
      <4> QED BY <3>0, <3>2, <4>1, ChunkFits
    <3>3. CASE Resumes(p)
      <4>1. Working(p)
        BY <3>3, PipeAtWork
      <4> QED BY <3>0, <3>3, <4>1, ResumeFits
    <3>4. CASE \E q \in Runs, w \in Tabs : Dispatch(q, w)
      BY <3>0, <3>4, DispatchFits
    <3>5. CASE Tick
      BY <3>0, <3>5, TickFits
    <3>6. CASE StopPressed
      BY <3>0, <3>6, StopFits
    <3>7. CASE GatewayDrops \/ \E w \in Tabs : Browser(w)
      BY <3>0, <3>7, RestFits
    <3> QED BY <1>2, <3>1, <3>2, <3>3, <3>4, <3>5, <3>6, <3>7 DEF Next
  <2> QED BY <1>2, <2>1, BegunKept DEF RunsFit
<1> QED BY <1>1, <1>2

LEMMA InitFits == Init => SlotOwned /\ IdleUnnamed /\ RunsFit
<1> SUFFICES ASSUME Init PROVE SlotOwned /\ IdleUnnamed /\ RunsFit
  OBVIOUS
<1>1. SlotOwned /\ IdleUnnamed /\ CurrentBegun /\ WatchNamed
  BY DEF Init, SlotOwned, IdleUnnamed, Registered, CurrentBegun, WatchNamed
<1>2. \A p \in Runs : StageFits(p) /\ LoneFits(p)
  BY DEF Init, StageFits, LoneFits, LoneSlot, LoneVerdict, LoneStop, Working, Unfinished, Pending
<1> QED BY <1>1, <1>2 DEF RunsFit

\* So all of this holds throughout.
LEMMA RunsKept == Spec => [](TypeOK /\ SlotOwned /\ RunsFit)
<1>1. Init => TypeOK /\ SlotOwned /\ IdleUnnamed /\ RunsFit
  BY InitTypeOK, InitFits
<1>2. TypeOK /\ SlotOwned /\ IdleUnnamed /\ RunsFit /\ [Next]_vars
        => TypeOK' /\ SlotOwned' /\ IdleUnnamed' /\ RunsFit'
  BY NextTypeOK, NextOwned, NextFits
<1> QED BY <1>1, <1>2, PTL DEF Spec

\* A run that fails is on record when it is over.
THEOREM FailuresKept == Spec => []FailureStaysRecorded
<1>1. RunsFit => FailureStaysRecorded
  BY DEF RunsFit, StageFits, FailureStaysRecorded
<1> QED BY <1>1, RunsKept, PTL

\* A run stopped in good health is not blamed afterwards.
THEOREM StopRespected == Spec => []StopNotBlamed
<1>1. TypeOK /\ RunsFit => StopNotBlamed
  BY DEF RunsFit, LoneFits, LoneStop, StopNotBlamed, TypeOK
<1> QED BY <1>1, RunsKept, PTL

\* A loop left without a word was disconnected.
THEOREM SilenceAnnounced == Spec => []SilentExitAnnounced
<1>1. RunsFit => SilentExitAnnounced
  BY DEF RunsFit, LoneFits, LoneVerdict, SilentExitAnnounced
<1> QED BY <1>1, RunsKept, PTL

\* A tab that reloads gets the words of the turn that the others got.
THEOREM ResumeMirrors == Spec => []ResumeMirrorsStream
<1>1. ASSUME TypeOK, RunsFit PROVE ResumeMirrorsStream
  <2> SUFFICES ASSUME Registered, Alone(current)
               PROVE  entry[current].content = pipe[current].emitted
    BY DEF ResumeMirrorsStream
  <2>1. PICK p \in Runs : p = current
    BY <1>1 DEF Registered, TypeOK
  <2>2. LoneSlot(p) /\ pipe[p].at # "idle"
    BY <1>1, <2>1 DEF RunsFit, LoneFits, CurrentBegun
  <2>3. Working(p)
    BY <2>1, <2>2 DEF LoneSlot, Working, Unfinished
  <2> QED BY <2>1, <2>2, <2>3 DEF LoneSlot
<1> QED BY <1>1, RunsKept, PTL

\* A run that named itself is reported once.
THEOREM OneVerdictEach == Spec => []OneVerdict
<1>1. ASSUME TypeOK, RunsFit PROVE OneVerdict
  <2> SUFFICES ASSUME NEW p \in Runs, Alone(p), pipe[p].registered \/ "tornDown" \in pipe[p].saw
               PROVE  Cardinality(told[p]) <= 1
    BY DEF OneVerdict
  <2>1. StageFits(p) /\ LoneVerdict(p) /\ told[p] \subseteq Verdicts
    BY <1>1 DEF RunsFit, LoneFits, TypeOK
  <2>2. \E v \in Verdicts : told[p] \subseteq {v}
    BY <2>1 DEF StageFits, LoneVerdict, Verdicts
  <2>3. PICK v \in Verdicts : told[p] \subseteq {v}
    BY <2>2
  <2>4. CASE told[p] = {}
    BY <2>4, FS_EmptySet
  <2>5. CASE told[p] = {v}
    BY <2>5, FS_Singleton
  <2> QED BY <2>3, <2>4, <2>5
<1> QED BY <1>1, RunsKept, PTL

=============================================================================
