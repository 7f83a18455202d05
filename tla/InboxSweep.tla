------------------------------ MODULE InboxSweep ------------------------------
(***************************************************************************)
(* The reconciliation sweep of one (workflow x mailbox) unit: the timer's  *)
(* guarded runner, the pass it starts, and the ledger of processed emails  *)
(* it claims mail in (inbox-sweep.ts, sweep.ts, lister.ts, dispatch.ts,    *)
(* run-adapter.ts, ledger.ts).  Units share nothing but the pass that goes *)
(* through them one after the other.                                       *)
(*                                                                         *)
(* A step is the code up to its next await, and a statement is the step    *)
(* that runs it.  A mail is named by its order of arrival; the id of a     *)
(* claim is the number of claims its mail has had.                         *)
(***************************************************************************)
EXTENDS Naturals, FiniteSets

CONSTANTS
    MailCount,      \* bound: mails that ever arrive, named 1 .. MailCount
    Wanted,         \* those above the watermark that match the filter
    ListLimit,      \* SWEEP_LIST_LIMIT
    Passes,         \* bound: passes the model can hold at once
    Mishaps,        \* "crash", "mailbox", "database", "defer", "delivery"
    MaxMishaps      \* bound: how many of them happen

ASSUME InboxSweepAssumption ==
    /\ MailCount \in Nat /\ ListLimit \in Nat /\ MaxMishaps \in Nat
    /\ Wanted \subseteq 1..MailCount
    /\ Passes # {} /\ IsFiniteSet(Passes)
    /\ Mishaps \subseteq {"crash", "mailbox", "database", "defer", "delivery"}

VARIABLES
    arrived,    \* how many mails have arrived
    row,        \* [Mails -> the ledger row of the mail]
    told,       \* notifications written: mail, claim, kind
    trail,      \* resets the audit log (or its failure record) tells of
    health,     \* the workflow's status column
    pass,       \* [Passes -> where the pass is]
    mishaps     \* mishaps so far

sweepVars == <<arrived, row, told, trail, health, pass, mishaps>>

Mails == 1..MailCount
Verdicts == {"done", "no_action", "failed"}

\* "none": no row.  old: claimed longer ago than the grace period.
Row == [status: {"none", "processing"} \cup Verdicts, id: Nat, old: BOOLEAN]

PassStages == {"idle", "reset", "names", "audit", "load", "search", "skip", "hydrate",
               "dispatch", "running", "notify", "finalize", "status"}

\* What a pass holds: the resets it has to audit, the listed candidates, the mails
\* it has to dispatch, the mail it is at with its claim and what the run came to.
Pass == [at: PassStages, resets: SUBSET (Mails \X Nat), listed: SUBSET Mails,
         todo: SUBSET Mails, mail: 0..MailCount, id: Nat,
         verdict: Verdicts \cup {"none"}, broken: BOOLEAN]

NoPass == [at |-> "idle", resets |-> {}, listed |-> {}, todo |-> {}, mail |-> 0,
           id |-> 0, verdict |-> "none", broken |-> FALSE]

InboxTypeOK ==
    /\ arrived \in 0..MailCount
    /\ row \in [Mails -> Row]
    /\ told \subseteq (Mails \X Nat \X {"success", "failure"})
    /\ trail \subseteq (Mails \X Nat)
    /\ health \in {"active", "error"}
    /\ pass \in [Passes -> Pass]
    /\ mishaps \in 0..MaxMishaps

SweepInit ==
    /\ arrived = 0
    /\ row = [m \in Mails |-> [status |-> "none", id |-> 0, old |-> FALSE]]
    /\ told = {}
    /\ trail = {}
    /\ health = "active"
    /\ pass = [p \in Passes |-> NoPass]
    /\ mishaps = 0

Mishap(kind) ==
    /\ kind \in Mishaps
    /\ mishaps < MaxMishaps
    /\ mishaps' = mishaps + 1

IdlePasses == {p \in Passes : pass[p].at = "idle"}
SomeIdle == CHOOSE p \in IdlePasses : TRUE

\* The providers list the newest mail first and cut the page at the limit.
Page == {m \in 1..arrived : m + ListLimit > arrived}

MailArrives ==
    /\ arrived < MailCount
    /\ arrived' = arrived + 1
    /\ UNCHANGED <<row, told, trail, health, pass, mishaps>>

\* A claim outlives the grace period, whether or not its run is still going.
ClaimAges(m) ==
    /\ row[m].status = "processing" /\ ~row[m].old
    /\ row' = [row EXCEPT ![m].old = TRUE]
    /\ UNCHANGED <<arrived, told, trail, health, pass, mishaps>>

-----------------------------------------------------------------------------
(* The runner and the head of the pass. *)

\* Mutant: the timer starts a pass whether or not one is in flight.
SweepTickUnguarded ==
    /\ IdlePasses # {}
    /\ pass' = [pass EXCEPT ![SomeIdle] = [NoPass EXCEPT !.at = "reset"]]
    /\ UNCHANGED <<arrived, row, told, trail, health, mishaps>>

\* The timer fires; a pass in flight makes the runner return at once.
SweepTick ==
    /\ IdlePasses = Passes
    /\ pass' = [pass EXCEPT ![SomeIdle] = [NoPass EXCEPT !.at = "reset"]]
    /\ UNCHANGED <<arrived, row, told, trail, health, mishaps>>

Stuck == {m \in Mails : row[m].status = "processing" /\ row[m].old}

\* Mutant: the reset does not look at the status.
ResetAnyOldRow(p) ==
    LET S == {m \in Mails : row[m].status # "none" /\ row[m].old} IN
    /\ pass[p].at = "reset"
    /\ row' = [m \in Mails |-> IF m \in S THEN [row[m] EXCEPT !.status = "none", !.old = FALSE]
                               ELSE row[m]]
    /\ pass' = [pass EXCEPT ![p].at = IF S = {} THEN "load" ELSE "names",
                            ![p].resets = {<<m, row[m].id>> : m \in S}]
    /\ UNCHANGED <<arrived, told, trail, health, mishaps>>

\* Mutant: nothing is ever reset.
ResetNothing(p) ==
    /\ pass[p].at = "reset"
    /\ pass' = [pass EXCEPT ![p].at = "load"]
    /\ UNCHANGED <<arrived, row, told, trail, health, mishaps>>

\* resetStuckProcessingEmails: one DELETE; without resets there is nothing to audit.
ResetStuck(p) ==
    /\ pass[p].at = "reset"
    /\ row' = [m \in Mails |-> IF m \in Stuck THEN [row[m] EXCEPT !.status = "none", !.old = FALSE]
                               ELSE row[m]]
    /\ pass' = [pass EXCEPT ![p].at = IF Stuck = {} THEN "load" ELSE "names",
                            ![p].resets = {<<m, row[m].id>> : m \in Stuck}]
    /\ UNCHANGED <<arrived, told, trail, health, mishaps>>

\* The names of the workflows are read before the first reset is audited.
NamesRead(p) ==
    /\ pass[p].at = "names"
    /\ pass' = [pass EXCEPT ![p].at = "audit"]
    /\ UNCHANGED <<arrived, row, told, trail, health, mishaps>>

\* One row per reset; an append that fails leaves the structured failure record.
AuditReset(p) ==
    /\ pass[p].at = "audit"
    /\ \E r \in pass[p].resets :
         /\ trail' = trail \cup {r}
         /\ pass' = [pass EXCEPT ![p].resets = @ \ {r},
                                 ![p].at = IF pass[p].resets = {r} THEN "load" ELSE "audit"]
    /\ UNCHANGED <<arrived, row, told, health, mishaps>>

\* The delete, the names or the load fail: the runner logs it and frees its guard.
SweepFails(p) ==
    /\ pass[p].at \in {"reset", "names", "load", "status"}
    /\ Mishap("database")
    /\ pass' = [pass EXCEPT ![p] = NoPass]
    /\ UNCHANGED <<arrived, row, told, trail, health>>

\* The workflow is a unit of work, or the loader reports that it cannot run.
LoadUnits(p) ==
    /\ pass[p].at = "load"
    /\ \/ /\ pass' = [pass EXCEPT ![p].at = "search"]
          /\ UNCHANGED mishaps
       \/ /\ Mishap("mailbox")
          /\ pass' = [pass EXCEPT ![p].at = "status", ![p].broken = TRUE]
    /\ UNCHANGED <<arrived, row, told, trail, health>>

-----------------------------------------------------------------------------
(* Listing (sweepUnit, listDispatchableEmails). *)

SearchMailbox(p) ==
    /\ pass[p].at = "search"
    /\ pass' = [pass EXCEPT ![p].at = "skip", ![p].listed = Page]
    /\ UNCHANGED <<arrived, row, told, trail, health, mishaps>>

\* Mails the ledger holds a row of, whatever its status, are not read again.
SkipKnown(p) ==
    /\ pass[p].at = "skip"
    /\ pass' = [pass EXCEPT ![p].at = "hydrate",
                            ![p].todo = {m \in pass[p].listed : row[m].status = "none"}]
    /\ UNCHANGED <<arrived, row, told, trail, health, mishaps>>

\* One read each.  Those that cannot be read are skipped, but a page of which
\* nothing could be read is a dead mailbox.
Hydrate(p) ==
    /\ pass[p].at = "hydrate"
    /\ \E lost \in SUBSET pass[p].todo :
         /\ IF lost = {} THEN UNCHANGED mishaps ELSE Mishap("mailbox")
         /\ IF lost # {} /\ lost = pass[p].listed
            THEN pass' = [pass EXCEPT ![p].at = "status", ![p].broken = TRUE]
            ELSE pass' = [pass EXCEPT ![p].at = "dispatch",
                                      ![p].todo = (@ \ lost) \cap Wanted]
    /\ UNCHANGED <<arrived, row, told, trail, health>>

\* The mailbox, the skip query or a claim fails: the unit is given up.
UnitFails(p) ==
    /\ \/ pass[p].at = "search" /\ Mishap("mailbox")
       \/ pass[p].at = "skip" /\ Mishap("database")
       \/ pass[p].at = "dispatch" /\ pass[p].todo # {} /\ Mishap("database")
    /\ pass' = [pass EXCEPT ![p].at = "status", ![p].broken = TRUE]
    /\ UNCHANGED <<arrived, row, told, trail, health>>

-----------------------------------------------------------------------------
(* dispatchEmails. *)

\* On to the next mail of the batch, whatever became of this one.
NextMail(p) == [pass EXCEPT ![p].at = "dispatch", ![p].mail = 0, ![p].id = 0, ![p].verdict = "none"]

\* INSERT ... ON CONFLICT DO NOTHING.
ClaimEmail(p) ==
    /\ pass[p].at = "dispatch"
    /\ \E m \in pass[p].todo :
         \/ /\ row[m].status = "none"
            /\ row' = [row EXCEPT ![m] = [status |-> "processing", id |-> @.id + 1, old |-> FALSE]]
            /\ pass' = [pass EXCEPT ![p].at = "running", ![p].todo = @ \ {m},
                                    ![p].mail = m, ![p].id = row[m].id + 1]
         \/ /\ row[m].status # "none"
            /\ pass' = [pass EXCEPT ![p].todo = @ \ {m}]
            /\ UNCHANGED row
    /\ UNCHANGED <<arrived, told, trail, health, mishaps>>

\* The run reports what it did, or fails: an error chunk, no valid report after
\* the correction turn, no model, or the watchdog's timeout.
RunEnds(p) ==
    /\ pass[p].at = "running"
    /\ \E v \in Verdicts : pass' = [pass EXCEPT ![p].at = "notify", ![p].verdict = v]
    /\ UNCHANGED <<arrived, row, told, trail, health, mishaps>>

\* The agent is not in the runtime yet: the row is left as it is.
RunDefers(p) ==
    /\ pass[p].at = "running"
    /\ Mishap("defer")
    /\ pass' = NextMail(p)
    /\ UNCHANGED <<arrived, row, told, trail, health>>

Notice(p) == <<pass[p].mail, pass[p].id, IF pass[p].verdict = "failed" THEN "failure" ELSE "success">>

\* Mutant: a notification that cannot be written does not keep the row open.
NotifyBestEffort(p) ==
    /\ pass[p].at = "notify"
    /\ pass' = [pass EXCEPT ![p].at = "finalize"]
    /\ told' \in {told, told \cup {Notice(p)}}
    /\ UNCHANGED <<arrived, row, trail, health, mishaps>>

Notify(p) ==
    /\ pass[p].at = "notify"
    /\ told' = told \cup {Notice(p)}
    /\ pass' = [pass EXCEPT ![p].at = "finalize"]
    /\ UNCHANGED <<arrived, row, trail, health, mishaps>>

\* Pinned to the claim's row and to `processing`: no such row makes it throw.
OwnsRow(p) == row[pass[p].mail].id = pass[p].id /\ row[pass[p].mail].status = "processing"

FinalizeEmail(p) ==
    /\ pass[p].at = "finalize"
    /\ row' = IF OwnsRow(p) THEN [row EXCEPT ![pass[p].mail].status = pass[p].verdict] ELSE row
    /\ pass' = NextMail(p)
    /\ UNCHANGED <<arrived, told, trail, health, mishaps>>

\* Delivery throws.  The transaction may have been committed all the same.
DeliveryFails(p) ==
    /\ pass[p].at \in {"notify", "finalize"}
    /\ Mishap("delivery")
    /\ \/ UNCHANGED <<row, told>>
       \/ pass[p].at = "notify" /\ told' = told \cup {Notice(p)} /\ UNCHANGED row
       \/ /\ pass[p].at = "finalize" /\ OwnsRow(p)
          /\ row' = [row EXCEPT ![pass[p].mail].status = pass[p].verdict]
          /\ UNCHANGED told
    /\ pass' = NextMail(p)
    /\ UNCHANGED <<arrived, trail, health>>

BatchDone(p) ==
    /\ pass[p].at = "dispatch" /\ pass[p].todo = {}
    /\ pass' = [pass EXCEPT ![p].at = "status"]
    /\ UNCHANGED <<arrived, row, told, trail, health, mishaps>>

\* The status is written once per pass and is not a latch; the pass is over.
SetWorkflowStatus(p) ==
    /\ pass[p].at = "status"
    /\ health' = IF pass[p].broken THEN "error" ELSE "active"
    /\ pass' = [pass EXCEPT ![p] = NoPass]
    /\ UNCHANGED <<arrived, row, told, trail, mishaps>>

\* The process stops anywhere and starts again; only the database is left.
SweepCrash ==
    /\ IdlePasses # Passes
    /\ Mishap("crash")
    /\ pass' = [p \in Passes |-> NoPass]
    /\ UNCHANGED <<arrived, row, told, trail, health>>

-----------------------------------------------------------------------------
PassGoesOn(p) ==
    \/ ResetStuck(p) \/ NamesRead(p) \/ AuditReset(p) \/ LoadUnits(p)
    \/ SearchMailbox(p) \/ SkipKnown(p) \/ Hydrate(p)
    \/ ClaimEmail(p) \/ RunEnds(p) \/ Notify(p) \/ FinalizeEmail(p)
    \/ BatchDone(p) \/ SetWorkflowStatus(p)

PassStumbles(p) == SweepFails(p) \/ UnitFails(p) \/ RunDefers(p) \/ DeliveryFails(p)

SweepNext ==
    \/ MailArrives \/ SweepTick \/ SweepCrash
    \/ \E m \in Mails : ClaimAges(m)
    \/ \E p \in Passes : PassGoesOn(p) \/ PassStumbles(p)

SweepSpec == SweepInit /\ [][SweepNext]_sweepVars

-----------------------------------------------------------------------------
(* What the sweep promises. *)

\* A pass between claim and finalize still owns its row, however old the row has
\* become: no reset takes it, so no second run of the mail starts meanwhile.
LiveClaimKept ==
    \A p \in Passes : pass[p].at \in {"running", "notify", "finalize"} => OwnsRow(p)

\* "The ledger row only leaves `processing` once its notification is durably
\* persisted" (dispatchEmails): the claim a mail settled under was told, as what
\* it came to.
SettledWasTold ==
    \A m \in Mails : row[m].status \in Verdicts =>
        <<m, row[m].id, IF row[m].status = "failed" THEN "failure" ELSE "success">> \in told

\* "Deleting a ledger row is ... the only way an email gets processed twice - the
\* trail has to explain it" (auditClaimResets): whoever is claimed again has an
\* entry for every claim it lost.
RerunExplained ==
    \A m \in Mails : row[m].status # "none" =>
        \A i \in 1..(row[m].id - 1) : <<m, i>> \in trail

\* The ledger is a MailLedger: a settled mail is never opened again.
Reading(r) == CASE r.status = "none" -> "open" [] r.status = "processing" -> "claimed"
                [] OTHER -> r.status

LedgerState == [m \in Mails |-> Reading(row[m])]

Ledger == INSTANCE MailLedger WITH state <- LedgerState

FollowsLedger == Ledger!Spec

\* "Guarantees no email is ever lost" (inbox-sweep.ts): a wanted mail is settled
\* at last, whatever crashed or failed on the way, unless newer mail pushes it off
\* the listed page first.
Outstanding == {m \in Wanted \cap Page : row[m].status \notin Verdicts}

MailSettles == Outstanding # {} ~> Outstanding = {}

=============================================================================
