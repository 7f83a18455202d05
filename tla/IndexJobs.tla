------------------------------- MODULE IndexJobs -------------------------------
(***************************************************************************)
(* The queue of knowledge-base index jobs of one organisation and the      *)
(* worker that drains it (index-jobs.ts, kb-index-worker.ts).  A partial   *)
(* unique index keeps at most one pending or running row per organisation; *)
(* a deployment has one organisation and one web process.                  *)
(*                                                                         *)
(* A step is one database statement with the code up to the next await.  A *)
(* job is named by the request that queued it.  The audit and usage rows   *)
(* written after a job has ended change nothing here and are left out.     *)
(***************************************************************************)
EXTENDS Naturals, FiniteSets

CONSTANTS
    Requests,       \* bound: calls of enqueueIndexJob, each inserts at most one row
    NoRequest,
    Ticks,          \* bound: worker ticks the model can hold at once
    Documents,      \* documents of a corpus
    MaxRestarts,    \* bound: restarts of the process
    MaxRefused      \* bound: database statements that fail

ASSUME IndexJobsAssumption ==
    /\ NoRequest \notin Requests
    /\ Documents \in Nat /\ MaxRestarts \in Nat /\ MaxRefused \in Nat
    /\ Ticks # {} /\ IsFiniteSet(Ticks) /\ IsFiniteSet(Requests)

VARIABLES
    job,        \* [Requests -> the row the request inserted]
    call,       \* [Requests -> where its enqueue is]
    tick,       \* [Ticks -> where the worker's tick is]
    orphansRequeued,    \* this process has cleaned up after its predecessor
    restarts, refused,  \* how often the process restarted, statements failed
    outage              \* a statement failed in the life of this process

indexVars == <<job, call, tick, orphansRequeued, restarts, refused, outage>>

Statuses == {"none", "pending", "running", "succeeded", "failed"}
Ended(r) == job[r].status \in {"succeeded", "failed"}
Active(r) == job[r].status \in {"pending", "running"}
EndedCount == Cardinality({r \in Requests : Ended(r)})

IndexTypeOK ==
    /\ job \in [Requests -> [status: Statuses, processed: 0..Documents]]
    /\ call \in [Requests -> [at: {"idle", "insert", "lookup", "queued", "busy", "thrown", "error"},
                              attempt: 1..2, since: Nat]]
    /\ tick \in [Ticks -> [at: {"idle", "requeue", "select", "claim", "ingest", "finish"},
                           job: Requests \cup {NoRequest}, processed: 0..Documents,
                           outcome: {"none", "succeeded", "failed"}]]
    /\ orphansRequeued \in BOOLEAN /\ outage \in BOOLEAN
    /\ restarts \in 0..MaxRestarts /\ refused \in 0..MaxRefused

IdleTick == [at |-> "idle", job |-> NoRequest, processed |-> 0, outcome |-> "none"]

IndexInit ==
    /\ job = [r \in Requests |-> [status |-> "none", processed |-> 0]]
    /\ call = [r \in Requests |-> [at |-> "idle", attempt |-> 1, since |-> 0]]
    /\ tick = [t \in Ticks |-> IdleTick]
    /\ orphansRequeued = FALSE
    /\ restarts = 0 /\ refused = 0
    /\ outage = FALSE

\* The next statement fails.
Refused == refused < MaxRefused /\ refused' = refused + 1

-----------------------------------------------------------------------------
(* enqueueIndexJob.  `since`: jobs that had ended when the call began. *)

EnqueueStarts(r) ==
    /\ call[r].at = "idle"
    /\ call' = [call EXCEPT ![r].at = "insert", ![r].since = EndedCount]
    /\ UNCHANGED <<job, tick, orphansRequeued, restarts, refused, outage>>

\* The insert is the busy check: the unique index lets it through or not.
InsertJob(r) ==
    /\ call[r].at = "insert"
    /\ IF \E s \in Requests : Active(s)
       THEN /\ call' = [call EXCEPT ![r].at = "lookup"]
            /\ UNCHANGED job
       ELSE /\ job' = [job EXCEPT ![r].status = "pending"]
            /\ call' = [call EXCEPT ![r].at = "queued"]
    /\ UNCHANGED <<tick, orphansRequeued, restarts, refused, outage>>

\* Mutant: the slot that came free is not tried for again.
LookupOnce(r) ==
    /\ call[r].at = "lookup"
    /\ call' = [call EXCEPT ![r].at = IF \E s \in Requests : Active(s) THEN "busy" ELSE "thrown"]
    /\ UNCHANGED <<job, tick, orphansRequeued, restarts, refused, outage>>

\* findActiveIndexJob; the blocker may be gone, and there are two attempts.
LookupActive(r) ==
    /\ call[r].at = "lookup"
    /\ \/ /\ \E s \in Requests : Active(s)
          /\ call' = [call EXCEPT ![r].at = "busy"]
       \/ /\ \A s \in Requests : ~Active(s)
          /\ call' = IF call[r].attempt = 1
                     THEN [call EXCEPT ![r].at = "insert", ![r].attempt = 2]
                     ELSE [call EXCEPT ![r].at = "thrown"]
    /\ UNCHANGED <<job, tick, orphansRequeued, restarts, refused, outage>>

EnqueueFails(r) ==
    /\ call[r].at \in {"insert", "lookup"}
    /\ Refused
    /\ call' = [call EXCEPT ![r].at = "error"]
    /\ UNCHANGED <<job, tick, orphansRequeued, restarts, outage>>

-----------------------------------------------------------------------------
(* runKbIndexWorkerTick, runNextIndexJob. *)

IdleTicks == {t \in Ticks : tick[t].at = "idle"}
SomeIdleTick == CHOOSE t \in IdleTicks : TRUE

\* The flag is set before the requeue it stands for is awaited.
StartTick ==
    /\ tick' = [tick EXCEPT ![SomeIdleTick].at = IF orphansRequeued THEN "select" ELSE "requeue"]
    /\ orphansRequeued' = TRUE
    /\ UNCHANGED <<job, call, restarts, refused, outage>>

\* Mutant: an overlapping tick is not turned away.
WorkerTickUnguarded == IdleTicks # {} /\ StartTick

\* A tick that lands during a run returns at once.
WorkerTick == IdleTicks = Ticks /\ StartTick

\* Mutant: a new process does not ask what its predecessor left behind.
RequeueNothing(t) ==
    /\ tick[t].at = "requeue"
    /\ tick' = [tick EXCEPT ![t].at = "select"]
    /\ UNCHANGED <<job, call, orphansRequeued, restarts, refused, outage>>

\* Every running row goes back to pending, its progress blanked.
RequeueOrphans(t) ==
    /\ tick[t].at = "requeue"
    /\ job' = [r \in Requests |-> IF job[r].status = "running"
                                  THEN [status |-> "pending", processed |-> 0] ELSE job[r]]
    /\ tick' = [tick EXCEPT ![t].at = "select"]
    /\ UNCHANGED <<call, orphansRequeued, restarts, refused, outage>>

\* The pending row, of which one organisation has one at most; none ends the tick.
SelectPending(t) ==
    /\ tick[t].at = "select"
    /\ \/ \E r \in Requests :
            /\ job[r].status = "pending"
            /\ tick' = [tick EXCEPT ![t].at = "claim", ![t].job = r]
       \/ /\ \A r \in Requests : job[r].status # "pending"
          /\ tick' = [tick EXCEPT ![t] = IdleTick]
    /\ UNCHANGED <<job, call, orphansRequeued, restarts, refused, outage>>

\* The update is conditional on `pending`; zero rows end the tick.
ClaimJob(t) ==
    LET r == tick[t].job IN
    /\ tick[t].at = "claim"
    /\ IF job[r].status = "pending"
       THEN /\ job' = [job EXCEPT ![r].status = "running"]
            /\ tick' = [tick EXCEPT ![t].at = "ingest"]
       ELSE /\ tick' = [tick EXCEPT ![t] = IdleTick]
            /\ UNCHANGED job
    /\ UNCHANGED <<call, orphansRequeued, restarts, refused, outage>>

\* One document more; the row is told before the next one is begun.
IngestDocument(t) ==
    LET n == tick[t].processed + 1 IN
    /\ tick[t].at = "ingest" /\ n <= Documents
    /\ tick' = [tick EXCEPT ![t].processed = n]
    /\ job' = [job EXCEPT ![tick[t].job].processed = n]
    /\ UNCHANGED <<call, orphansRequeued, restarts, refused, outage>>

\* The corpus is through, or something systemic took the run down: no model, the
\* embedder, a progress write.
IngestEnds(t) ==
    /\ tick[t].at = "ingest"
    /\ \E outcome \in {"succeeded", "failed"} :
         /\ outcome = "succeeded" => tick[t].processed = Documents
         /\ tick' = [tick EXCEPT ![t].at = "finish", ![t].outcome = outcome]
    /\ UNCHANGED <<job, call, orphansRequeued, restarts, refused, outage>>

\* By id, whatever the row's status is; the tick looks for more work.
FinishJob(t) ==
    /\ tick[t].at = "finish"
    /\ job' = [job EXCEPT ![tick[t].job].status = tick[t].outcome]
    /\ tick' = [tick EXCEPT ![t] = [IdleTick EXCEPT !.at = "select"]]
    /\ UNCHANGED <<call, orphansRequeued, restarts, refused, outage>>

\* A statement of the tick fails: the tick ends, the row stays as it is.  A claim
\* or a finish may have been committed before the connection was lost.
TickFails(t) ==
    /\ tick[t].at \in {"requeue", "select", "claim", "finish"}
    /\ Refused
    /\ \/ UNCHANGED job
       \/ /\ tick[t].at = "claim" /\ job[tick[t].job].status = "pending"
          /\ job' = [job EXCEPT ![tick[t].job].status = "running"]
       \/ /\ tick[t].at = "finish"
          /\ job' = [job EXCEPT ![tick[t].job].status = tick[t].outcome]
    /\ outage' = TRUE
    /\ tick' = [tick EXCEPT ![t] = IdleTick]
    /\ UNCHANGED <<call, orphansRequeued, restarts>>

\* The process stops and starts again; open requests get no answer.
ProcessRestarts ==
    /\ restarts < MaxRestarts
    /\ restarts' = restarts + 1
    /\ tick' = [t \in Ticks |-> IdleTick]
    /\ call' = [r \in Requests |-> IF call[r].at \in {"insert", "lookup"}
                                   THEN [call[r] EXCEPT !.at = "error"] ELSE call[r]]
    /\ orphansRequeued' = FALSE
    /\ outage' = FALSE
    /\ UNCHANGED <<job, refused>>

-----------------------------------------------------------------------------
EnqueueStep(r) == InsertJob(r) \/ LookupActive(r)

WorkerStep(t) ==
    \/ RequeueOrphans(t) \/ SelectPending(t) \/ ClaimJob(t)
    \/ IngestDocument(t) \/ IngestEnds(t) \/ FinishJob(t)

IndexNext ==
    \/ \E r \in Requests : EnqueueStarts(r) \/ EnqueueStep(r) \/ EnqueueFails(r)
    \/ WorkerTick \/ ProcessRestarts
    \/ \E t \in Ticks : WorkerStep(t) \/ TickFails(t)

IndexSpec == IndexInit /\ [][IndexNext]_indexVars

-----------------------------------------------------------------------------
(* What the queue promises. *)

\* "Resetting it flips a live run to `pending` ... and makes every status read lie"
\* (runKbIndexWorkerTick): while a run is live, its row says so and how far it is.
LiveRunShown ==
    \A t \in Ticks : tick[t].at \in {"ingest", "finish"} =>
        /\ job[tick[t].job].status = "running"
        /\ job[tick[t].job].processed = tick[t].processed

\* "The org's active-job slot kept changing hands": an enqueue gives up for that
\* reason only if two jobs ended while it was looking for a place.
ThrowNeedsTurnover ==
    \A r \in Requests : call[r].at = "thrown" => EndedCount >= call[r].since + 2

\* "Held until the next boot requeues it" (runNextIndexJob): whatever process dies
\* under it, a queued job ends, unless a statement failed since the last boot.
JobSettles ==
    (\E r \in Requests : Active(r)) ~> (\A r \in Requests : ~Active(r)) \/ outage

=============================================================================
