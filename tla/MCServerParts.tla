---------------------------- MODULE MCServerParts ----------------------------
(***************************************************************************)
(* The parts of the server that share no state with each other or with the *)
(* approvals and the chat runs: the poke bridge, the mailbox sweep, the    *)
(* index queue, the channel watchdog, the config push and the uploads.     *)
(* What the others do cannot be seen by the part in focus, so each is      *)
(* explored for itself, beside the initial states of the others.           *)
(***************************************************************************)
EXTENDS PokeBridge, InboxSweep, IndexJobs, ChannelHealth, ConfigPush, Uploads, TLC

CONSTANTS s1, s2, k1, k2, v1, v2, v3,   \* sockets, sessions, history requests
          p1, p2,                       \* passes and ticks
          r1, r2, r3,                   \* index requests
          f1, f2, m1, m2                \* uploads, sends

VARIABLE focus      \* the part that moves

Parts == {"poke", "sweep", "index", "health", "push", "uploads"}

partsVars == <<vars, sweepVars, indexVars, healthVars, pushVars, uploadVars, focus>>

PartsInit ==
    /\ focus \in Parts
    /\ Init /\ SweepInit /\ IndexInit /\ HealthInit /\ PushInit /\ UploadsInit
    /\ restartEnabled => focus = "health"

\* Only the part in focus moves.
StillExcept(part) ==
    /\ focus = part
    /\ UNCHANGED focus
    /\ part = "poke" \/ UNCHANGED vars
    /\ part = "sweep" \/ UNCHANGED sweepVars
    /\ part = "index" \/ UNCHANGED indexVars
    /\ part = "health" \/ UNCHANGED healthVars
    /\ part = "push" \/ UNCHANGED pushVars
    /\ part = "uploads" \/ UNCHANGED uploadVars

PartsNext ==
    \/ focus = "poke" /\ Next /\ StillExcept("poke")
    \/ focus = "sweep" /\ SweepNext /\ StillExcept("sweep")
    \/ focus = "index" /\ IndexNext /\ StillExcept("index")
    \/ focus = "health" /\ HealthNext /\ StillExcept("health")
    \/ focus = "push" /\ PushNext /\ StillExcept("push")
    \/ focus = "uploads" /\ UploadsNext /\ StillExcept("uploads")

\* Every await ends: the database and the gateway answer, or the RPC times out.
PokeFairness ==
    /\ \A q \in Views : WF_vars(focus = "poke" /\ ViewStep(q))
    /\ \A ws \in Sockets : WF_vars(focus = "poke" /\ TeardownGoesOn(ws))

\* The timer fires again and again, statements and mailboxes answer or time out,
\* the watchdog ends every run, and time passes.
SweepFairness ==
    /\ WF_sweepVars(focus = "sweep" /\ SweepTick)
    /\ \A p \in Passes : WF_sweepVars(focus = "sweep" /\ PassGoesOn(p))
    /\ \A m \in Mails : WF_sweepVars(focus = "sweep" /\ ClaimAges(m))

\* The poll timer fires, statements are answered, a corpus has an end.
IndexFairness ==
    /\ WF_indexVars(focus = "index" /\ WorkerTick)
    /\ \A t \in Ticks : WF_indexVars(focus = "index" /\ WorkerStep(t))

\* Every call of the gateway is answered, if only with an error, every sleep ends.
PushFairness == \A g \in 1..Pushes : WF_pushVars(focus = "push" /\ PushGoesOn(g))

\* The hourly timer fires again and again, and its calls return.
UploadsFairness == WF_uploadVars(focus = "uploads" /\ GcGoesOn)

PartsSpec ==
    /\ PartsInit /\ [][PartsNext]_partsVars
    /\ PokeFairness /\ SweepFairness /\ IndexFairness /\ PushFairness /\ UploadsFairness

\* Every part's variables have their types.
PartsTypeOK ==
    /\ TypeOK /\ InboxTypeOK /\ IndexTypeOK /\ HealthTypeOK /\ PushTypeOK /\ UploadsTypeOK

=============================================================================
