------------------------------ MODULE Approvals ------------------------------
(***************************************************************************)
(* The tool-confirmation gate: the pinchy-approvals plugin that runs       *)
(* inside OpenClaw, the tool_approval table, the gate-check, decision and  *)
(* resolution routes, the approval broadcast bridge and the hourly sweep.  *)
(*                                                                         *)
(* Every database statement is one step; the statements of one gate-check  *)
(* are separate steps, because the code runs them outside a transaction.   *)
(* Calls are single attempts: a retry by the model is another call with    *)
(* the same binding.  A binding is what a confirmation is bound to (agent, *)
(* requester, session, tool, arguments digest).  Only the requester may    *)
(* decide (selfConfirmOnly), so the deciding user is not a parameter.      *)
(*                                                                         *)
(* Time is an age per row instead of a clock: a row is fresh until its     *)
(* expires_at, overdue after it, aged past the retention window.           *)
(***************************************************************************)
EXTENDS Naturals, FiniteSets

CONSTANTS
    Calls,          \* tool call attempts
    Bindings,       \* (agent, requester, session, tool, arguments digest)
    BindingOf,      \* [Calls -> Bindings]
    SessionOf,      \* [Bindings -> sessions]
    PrincipalOf,    \* [Bindings -> (agent, requester) pairs]
    IdOf,           \* [Calls -> tool call ids], as the model provider numbers them
    NoCallId,       \* a run context that carries no tool call id
    NoCall,         \* no OpenClaw approval id on a row
    NoBinding,      \* the binding of a row not opened yet
    Gated,          \* the bindings the admin's policy asks to confirm
    Attributable,   \* the bindings with a known requester and a session
    NamesSession,   \* the calls whose broadcast and report carry a session key
    MaxPending,     \* MAX_PENDING_PER_REQUESTER
    MaxRows,        \* bound on the rows ever opened
    MaxChecks,      \* bound on the gate-checks under way at once
    MaxRequests,    \* bound on the decision requests in flight at once
    Faults          \* which of the things that can go wrong do

ASSUME ConstantsAssumption ==
    /\ BindingOf \in [Calls -> Bindings]
    /\ MaxRows \in Nat
    /\ MaxPending \in Nat
    /\ MaxChecks \in Nat /\ MaxRequests \in Nat
    /\ NoCall \notin Calls
    /\ NoBinding \notin Bindings
    /\ Gated \subseteq Bindings
    /\ Attributable \subseteq Bindings
    /\ Faults \subseteq {"answer", "broadcast", "report", "unreachable", "crash",
                         "cancel", "foreign"}

Rows == 1..MaxRows
NoRow == 0
Verdicts == {"approve", "deny"}
Statuses == {"none", "pending", "approved", "denied", "consumed", "expired"}
Ages == {"fresh", "overdue", "aged"}
Events == {"requested", "granted", "denied", "consumed", "expired"}

\* Where a call is: not yet at the gate, between two statements of its
\* gate-check, holding an answer the plugin has not read, parked inside
\* OpenClaw's hook, executed, or blocked.
CallStates == {"new", "lookup", "repoint", "count", "insert", "allowed",
               "prompted", "parked", "running", "blocked"}

\* Between two statements of the gate-check.
Checking == {"lookup", "repoint", "count", "insert"}

\* What let a call run: nothing (yet), the admin's policy, a ticket spent at the
\* gate, the requester's decision handed to the parked call, or another
\* approval surface of OpenClaw.
Grounds == {"none", "policy", "ticket", "resume", "foreign"}
DecisionStates == {"idle", "waiting", "resolving", "done"}
Outcomes == {"none", "delivered", "nothing-waiting", "refused", "unreachable", "died"}
Resolutions == {"allow-once", "deny", "timeout", "cancelled"}

VARIABLES
    rows,       \* the tool_approval table
    nrows,      \* rows ever inserted; row numbers follow created_at
    pc,         \* [Calls -> CallStates]
    seen,       \* [Calls -> row found by the lookup of the gate-check]
    lapsed,     \* [Calls -> rows already overdue at the "now" of the gate-check]
    broadcasts, \* parked calls whose approval broadcast is on its way
    reports,    \* onResolution reports on their way, <<call, resolution>>
    asked,      \* decision requests past their read, <<row, verdict>>
    decision,   \* [Rows -> where the decision route is, the id it resolves]
    verdict,    \* [Rows -> what the requester decided]
    charge,     \* [Calls -> row the execution is charged to]
    ground,     \* [Calls -> Grounds]
    audit       \* [Rows -> [Events -> audit rows written]]

gateVars == <<seen, lapsed>>
decisionVars == <<asked, decision, verdict>>
grantVars == <<charge, ground>>
wireVars == <<broadcasts, reports>>

vars == <<rows, nrows, pc, gateVars, wireVars, decisionVars, grantVars, audit>>

CallIds == {IdOf[c] : c \in Calls} \cup {NoCallId}

Row == [status: Statuses, binding: Bindings \cup {NoBinding}, callId: CallIds,
        approvalId: Calls \cup {NoCall}, age: Ages]

\* Mutant: the two ids of a new row are swapped.
NewRowSwapped(status, b, id) ==
    [status |-> status, binding |-> b, callId |-> NoCall, approvalId |-> id, age |-> "fresh"]

NewRow(status, b, id) ==
    [status |-> status, binding |-> b, callId |-> id, approvalId |-> NoCall, age |-> "fresh"]

Decision == [at: DecisionStates, addr: Calls \cup {NoCall}, outcome: Outcomes]

TypeOK ==
    /\ rows \in [Rows -> Row]
    /\ nrows \in 0..MaxRows
    /\ pc \in [Calls -> CallStates]
    /\ seen \in [Calls -> Rows \cup {NoRow}]
    /\ lapsed \in [Calls -> SUBSET Rows]
    /\ broadcasts \subseteq Calls
    /\ reports \subseteq Calls \X Resolutions
    /\ asked \subseteq Rows \X Verdicts
    /\ decision \in [Rows -> Decision]
    /\ verdict \in [Rows -> Verdicts \cup {"none"}]
    /\ charge \in [Calls -> Rows \cup {NoRow}]
    /\ ground \in [Calls -> Grounds]
    /\ audit \in [Rows -> [Events -> Nat]]

Init ==
    /\ rows = [r \in Rows |-> NewRow("none", NoBinding, NoCallId)]
    /\ nrows = 0
    /\ pc = [c \in Calls |-> "new"]
    /\ seen = [c \in Calls |-> NoRow]
    /\ lapsed = [c \in Calls |-> {}]
    /\ broadcasts = {}
    /\ reports = {}
    /\ asked = {}
    /\ decision = [r \in Rows |-> [at |-> "idle", addr |-> NoCall, outcome |-> "none"]]
    /\ verdict = [r \in Rows |-> "none"]
    /\ charge = [c \in Calls |-> NoRow]
    /\ ground = [c \in Calls |-> "none"]
    /\ audit = [r \in Rows |-> [e \in Events |-> 0]]

-----------------------------------------------------------------------------
(* Who a row, a broadcast or a report is about. *)

Opened(r) == rows[r].status # "none"

\* Mutant: the call id alone is the key.
NamesById(c, r) == rows[r].callId = IdOf[c] /\ rows[r].callId # NoCallId

\* sessionScope: the tool call id, narrowed by the session when the message names one.
Names(c, r) ==
    /\ rows[r].callId = IdOf[c]
    /\ rows[r].callId # NoCallId
    /\ c \in NamesSession =>
         SessionOf[rows[r].binding] = SessionOf[BindingOf[c]]

\* The approved, unexpired rows of exactly this binding.
Tickets(c) == {r \in Rows : /\ rows[r].status = "approved"
                            /\ rows[r].binding = BindingOf[c]
                            /\ rows[r].age = "fresh"}

Overdue == {r \in Rows : rows[r].status = "pending" /\ rows[r].age # "fresh"}

\* Pending rows not yet overdue at the "now" the gate-check of c sampled.
Waiting(c) == {r \in Rows \ lapsed[c] : rows[r].status = "pending"}

PendingOf(p) == {r \in Rows : /\ rows[r].status = "pending"
                              /\ rows[r].age = "fresh"
                              /\ PrincipalOf[rows[r].binding] = p}

\* Gate-check c moves to its next statement, or ends and forgets what it read.
GoesOn(c, next) == pc' = [pc EXCEPT ![c] = next]

Ends(c, next) ==
    /\ pc' = [pc EXCEPT ![c] = next]
    /\ seen' = [seen EXCEPT ![c] = NoRow]
    /\ lapsed' = [lapsed EXCEPT ![c] = {}]

Audited(r, e) == audit' = [audit EXCEPT ![r][e] = @ + 1]

NeedsConfirmation(c) == pc[c] = "new" /\ BindingOf[c] \in Gated /\ BindingOf[c] \in Attributable

-----------------------------------------------------------------------------
(* POST /api/internal/approvals/gate-check *)

\* The policy does not mention the tool, or allows this record type.
PolicyAllows(c) ==
    /\ pc[c] = "new"
    /\ BindingOf[c] \notin Gated
    /\ pc' = [pc EXCEPT ![c] = "allowed"]
    /\ ground' = [ground EXCEPT ![c] = "policy"]
    /\ UNCHANGED <<rows, nrows, gateVars, wireVars, decisionVars, charge, audit>>

\* No real Pinchy user, or no session to bind a grant to: blocked without a card.
RefuseUnattributable(c) ==
    /\ pc[c] = "new"
    /\ BindingOf[c] \in Gated \ Attributable
    /\ pc' = [pc EXCEPT ![c] = "blocked"]
    /\ UNCHANGED <<rows, nrows, gateVars, wireVars, decisionVars, grantVars, audit>>

\* Mutant: a ticket is honoured and not spent.
GateHonour(c) ==
    /\ NeedsConfirmation(c)
    /\ \E r \in Tickets(c) :
         /\ \A s \in Tickets(c) : r <= s
         /\ charge' = [charge EXCEPT ![c] = r]
         /\ Audited(r, "consumed")
    /\ ground' = [ground EXCEPT ![c] = "ticket"]
    /\ pc' = [pc EXCEPT ![c] = "allowed"]
    /\ UNCHANGED <<rows, nrows, gateVars, wireVars, decisionVars>>

\* Statement 1 finds a ticket: spend the oldest one.
GateConsume(c) ==
    /\ NeedsConfirmation(c)
    /\ \E r \in Tickets(c) :
         /\ \A s \in Tickets(c) : r <= s
         /\ rows' = [rows EXCEPT ![r].status = "consumed"]
         /\ charge' = [charge EXCEPT ![c] = r]
         /\ Audited(r, "consumed")
    /\ ground' = [ground EXCEPT ![c] = "ticket"]
    /\ pc' = [pc EXCEPT ![c] = "allowed"]
    /\ UNCHANGED <<nrows, gateVars, wireVars, decisionVars>>

\* Statement 1 finds none; the "now" of the whole gate-check is fixed here.
GateMiss(c) ==
    /\ NeedsConfirmation(c)
    /\ Tickets(c) = {}
    /\ Cardinality({d \in Calls : pc[d] \in Checking}) < MaxChecks
    /\ pc' = [pc EXCEPT ![c] = "lookup"]
    /\ lapsed' = [lapsed EXCEPT ![c] = Overdue]
    /\ UNCHANGED <<rows, nrows, seen, wireVars, decisionVars, grantVars, audit>>

\* Statement 2: reuse an open confirmation of the same binding.  Re-pointing is
\* due only when the attempt carries an id and the id has changed.
GateLookup(c) ==
    /\ pc[c] = "lookup"
    /\ \/ \E r \in Waiting(c) :
            /\ rows[r].binding = BindingOf[c]
            /\ \/ /\ IdOf[c] \in {NoCallId, rows[r].callId}
                  /\ Ends(c, "prompted")
               \/ /\ IdOf[c] \notin {NoCallId, rows[r].callId}
                  /\ GoesOn(c, "repoint")
                  /\ seen' = [seen EXCEPT ![c] = r]
                  /\ UNCHANGED lapsed
       \/ /\ \A r \in Waiting(c) : rows[r].binding # BindingOf[c]
          /\ GoesOn(c, "count")
          /\ UNCHANGED gateVars
    /\ UNCHANGED <<rows, nrows, wireVars, decisionVars, grantVars, audit>>

\* Point the reused row at the call waiting now.  The UPDATE names only the row
\* id: whatever happened to the row since the lookup, it is re-pointed.
GateRepoint(c) ==
    /\ pc[c] = "repoint"
    /\ rows' = IF Opened(seen[c])
               THEN [rows EXCEPT ![seen[c]].callId = IdOf[c], ![seen[c]].approvalId = NoCall]
               ELSE rows
    /\ Ends(c, "prompted")
    /\ UNCHANGED <<nrows, wireVars, decisionVars, grantVars, audit>>

\* Mutant: off by one at the cap.
GateCountOver(c) ==
    /\ pc[c] = "count"
    /\ LET mine == {r \in Waiting(c) : PrincipalOf[rows[r].binding] = PrincipalOf[BindingOf[c]]}
       IN \/ Cardinality(mine) > MaxPending /\ Ends(c, "blocked")
          \/ Cardinality(mine) <= MaxPending /\ GoesOn(c, "insert") /\ UNCHANGED gateVars
    /\ UNCHANGED <<rows, nrows, wireVars, decisionVars, grantVars, audit>>

\* Statement 3: backpressure per (agent, requester).
GateCount(c) ==
    /\ pc[c] = "count"
    /\ LET mine == {r \in Waiting(c) : PrincipalOf[rows[r].binding] = PrincipalOf[BindingOf[c]]}
       IN \/ Cardinality(mine) >= MaxPending /\ Ends(c, "blocked")
          \/ Cardinality(mine) < MaxPending /\ GoesOn(c, "insert") /\ UNCHANGED gateVars
    /\ UNCHANGED <<rows, nrows, wireVars, decisionVars, grantVars, audit>>

\* Statement 4: open a confirmation; the route audits it once.
GateInsert(c) ==
    /\ pc[c] = "insert"
    /\ nrows < MaxRows
    /\ nrows' = nrows + 1
    /\ rows' = [rows EXCEPT ![nrows + 1] = NewRow("pending", BindingOf[c], IdOf[c])]
    /\ Audited(nrows + 1, "requested")
    /\ Ends(c, "prompted")
    /\ UNCHANGED <<wireVars, decisionVars, grantVars>>

-----------------------------------------------------------------------------
(* The plugin and the parked call inside OpenClaw. *)

\* The answer arrives: allow runs the call; a prompt parks it and announces it.
AnswerArrives(c) ==
    /\ \/ /\ pc[c] = "allowed"
          /\ pc' = [pc EXCEPT ![c] = "running"]
          /\ UNCHANGED broadcasts
       \/ /\ pc[c] = "prompted"
          /\ pc' = [pc EXCEPT ![c] = "parked"]
          /\ broadcasts' = IF IdOf[c] = NoCallId THEN broadcasts ELSE broadcasts \cup {c}
    /\ UNCHANGED <<rows, nrows, gateVars, reports, decisionVars, grantVars, audit>>

\* Fail closed: the gate-check failed, timed out, or its answer did not parse.
AnswerLost(c) ==
    /\ "answer" \in Faults
    /\ pc[c] \in Checking \cup {"allowed", "prompted"}
    /\ Ends(c, "blocked")
    /\ UNCHANGED <<rows, nrows, wireVars, decisionVars, grantVars, audit>>

\* OpenClaw ends the wait of a parked call; onResolution reports how, when the
\* call has an id to report on.
EndWait(c, how, next) ==
    /\ pc[c] = "parked"
    /\ pc' = [pc EXCEPT ![c] = next]
    /\ reports' = IF IdOf[c] = NoCallId THEN reports ELSE reports \cup {<<c, how>>}

\* Mutant: only a call whose approval was announced to a row times out.
ParkTimeoutLinked(c) ==
    /\ \E r \in Rows : rows[r].approvalId = c
    /\ EndWait(c, "timeout", "blocked")
    /\ UNCHANGED <<rows, nrows, gateVars, broadcasts, decisionVars, grantVars, audit>>

ParkTimeout(c) ==
    /\ EndWait(c, "timeout", "blocked")
    /\ UNCHANGED <<rows, nrows, gateVars, broadcasts, decisionVars, grantVars, audit>>

RunCancelled(c) ==
    /\ "cancel" \in Faults
    /\ EndWait(c, "cancelled", "blocked")
    /\ UNCHANGED <<rows, nrows, gateVars, broadcasts, decisionVars, grantVars, audit>>

\* A decision made on another approval surface of OpenClaw.
ForeignDecision(c) ==
    /\ "foreign" \in Faults
    /\ \/ /\ EndWait(c, "allow-once", "running")
          /\ ground' = [ground EXCEPT ![c] = "foreign"]
       \/ /\ EndWait(c, "deny", "blocked")
          /\ UNCHANGED ground
    /\ UNCHANGED <<rows, nrows, gateVars, broadcasts, decisionVars, charge, audit>>

-----------------------------------------------------------------------------
(* The bridge: plugin.approval.requested. *)

LinkApproval(c) ==
    /\ c \in broadcasts
    /\ broadcasts' = broadcasts \ {c}
    /\ rows' = [r \in Rows |->
                  IF /\ Names(c, r)
                     /\ rows[r].approvalId = NoCall
                     /\ rows[r].status \in {"pending", "approved", "denied"}
                  THEN [rows[r] EXCEPT !.approvalId = c]
                  ELSE rows[r]]
    /\ UNCHANGED <<nrows, pc, gateVars, reports, decisionVars, grantVars, audit>>

\* The bridge was down, Pinchy restarted, or the database failed once.
BroadcastLost(c) ==
    /\ "broadcast" \in Faults
    /\ c \in broadcasts
    /\ broadcasts' = broadcasts \ {c}
    /\ UNCHANGED <<rows, nrows, pc, gateVars, reports, decisionVars, grantVars, audit>>

-----------------------------------------------------------------------------
(* POST /api/approvals/[id]/decision, by the requester. *)

\* resolveDecision's SELECT: actionable only while pending and not overdue.
DecisionRead(r, v) ==
    /\ rows[r].status = "pending"
    /\ rows[r].age = "fresh"
    /\ Cardinality(asked) < MaxRequests
    /\ asked' = asked \cup {<<r, v>>}
    /\ UNCHANGED <<rows, nrows, pc, gateVars, wireVars, decision, verdict, grantVars, audit>>

\* Mutant: the UPDATE is keyed on the id alone.
DecisionFlipAgain(r, v) ==
    /\ <<r, v>> \in asked
    /\ asked' = asked \ {<<r, v>>}
    /\ rows' = [rows EXCEPT ![r].status = IF v = "approve" THEN "approved" ELSE "denied"]
    /\ verdict' = [verdict EXCEPT ![r] = v]
    /\ decision' = [decision EXCEPT
         ![r].addr = rows[r].approvalId,
         ![r].at = IF rows[r].approvalId = NoCall THEN "waiting" ELSE "resolving"]
    /\ UNCHANGED <<nrows, pc, gateVars, wireVars, grantVars, audit>>

\* resolveDecision's UPDATE ... WHERE status = 'pending' RETURNING *; a 409 otherwise.
DecisionFlip(r, v) ==
    /\ <<r, v>> \in asked
    /\ asked' = asked \ {<<r, v>>}
    /\ IF rows[r].status = "pending"
       THEN /\ rows' = [rows EXCEPT ![r].status = IF v = "approve" THEN "approved" ELSE "denied"]
            /\ verdict' = [verdict EXCEPT ![r] = v]
            /\ decision' = [decision EXCEPT
                 ![r].addr = rows[r].approvalId,
                 ![r].at = IF rows[r].approvalId = NoCall THEN "waiting" ELSE "resolving"]
       ELSE UNCHANGED <<rows, verdict, decision>>
    /\ UNCHANGED <<nrows, pc, gateVars, wireVars, grantVars, audit>>

\* awaitApprovalLink polls the row until it names a parked call.
LinkFound(r) ==
    /\ decision[r].at = "waiting"
    /\ rows[r].approvalId # NoCall
    /\ decision' = [decision EXCEPT ![r].addr = rows[r].approvalId, ![r].at = "resolving"]
    /\ UNCHANGED <<rows, nrows, pc, gateVars, wireVars, asked, verdict, grantVars, audit>>

Over(outcome) == [at |-> "done", addr |-> NoCall, outcome |-> outcome]

Answered(r, outcome) ==
    /\ decision' = [decision EXCEPT ![r] = Over(outcome)]
    /\ Audited(r, IF verdict[r] = "approve" THEN "granted" ELSE "denied")

\* Mutant: the wait goes on for as long as the decided row stands.
LinkWaitStands(r) ==
    /\ decision[r].at = "waiting"
    /\ rows[r].approvalId = NoCall
    /\ rows[r].status \notin {"approved", "denied"}
    /\ Answered(r, "nothing-waiting")
    /\ UNCHANGED <<rows, nrows, pc, gateVars, wireVars, asked, verdict, grantVars>>

\* The last poll before the 2 s deadline still reads no id.
LinkWaitEnds(r) ==
    /\ decision[r].at = "waiting"
    /\ rows[r].approvalId = NoCall
    /\ Answered(r, "nothing-waiting")
    /\ UNCHANGED <<rows, nrows, pc, gateVars, wireVars, asked, verdict, grantVars>>

\* plugin.approval.resolve reaches a call that is still parked.  The reply is
\* delivered, or lost on the way back, which the route reads as unreachable.
ResolveTakesEffect(r) ==
    LET c == decision[r].addr IN
    /\ decision[r].at = "resolving"
    /\ \/ /\ verdict[r] = "approve"
          /\ EndWait(c, "allow-once", "running")
          /\ charge' = [charge EXCEPT ![c] = r]
          /\ ground' = [ground EXCEPT ![c] = "resume"]
       \/ /\ verdict[r] = "deny"
          /\ EndWait(c, "deny", "blocked")
          /\ UNCHANGED grantVars
    /\ \/ Answered(r, "delivered")
       \/ "unreachable" \in Faults /\ Answered(r, "unreachable")
    /\ UNCHANGED <<rows, nrows, gateVars, broadcasts, asked, verdict>>

\* The gateway knows no such approval any more, or could not be asked.
ResolveFails(r) ==
    /\ decision[r].at = "resolving"
    /\ \/ pc[decision[r].addr] # "parked" /\ Answered(r, "refused")
       \/ "unreachable" \in Faults /\ Answered(r, "unreachable")
    /\ UNCHANGED <<rows, nrows, pc, gateVars, wireVars, asked, verdict, grantVars>>

\* Pinchy stops between the flip and the resolve: no resolve, no audit row.
DecisionDies(r) ==
    /\ "crash" \in Faults
    /\ decision[r].at \in {"waiting", "resolving"}
    /\ decision' = [decision EXCEPT ![r] = Over("died")]
    /\ UNCHANGED <<rows, nrows, pc, gateVars, wireVars, asked, verdict, grantVars, audit>>

-----------------------------------------------------------------------------
(* POST /api/internal/approvals/resolution: recordResolution. *)

Allows(how) == how = "allow-once"

SettledAs(how) == IF Allows(how) THEN "consumed"
                  ELSE IF how = "deny" THEN "denied" ELSE "expired"

\* Mutant: a report settles the row of its call whatever its state.
SettledByAny(c, how) == {r \in Rows : Names(c, r) /\ Opened(r)}

\* The rows a report may settle, by call id, session and state.
SettledBy(c, how) ==
    {r \in Rows : /\ Names(c, r)
                  /\ rows[r].status \in IF Allows(how) THEN {"pending", "approved"}
                                                       ELSE {"pending"}}

\* The route audits the first row returned.
RecordResolution(c, how) ==
    /\ <<c, how>> \in reports
    /\ reports' = reports \ {<<c, how>>}
    /\ rows' = [r \in Rows |-> IF r \in SettledBy(c, how)
                               THEN [rows[r] EXCEPT !.status = SettledAs(how)] ELSE rows[r]]
    /\ IF SettledBy(c, how) = {} THEN UNCHANGED audit
       ELSE \E r \in SettledBy(c, how) : Audited(r, SettledAs(how))
    /\ UNCHANGED <<nrows, pc, gateVars, broadcasts, decisionVars, grantVars>>

\* reportResolution swallows a network error or a refusal.
ReportLost(c, how) ==
    /\ "report" \in Faults
    /\ <<c, how>> \in reports
    /\ reports' = reports \ {<<c, how>>}
    /\ UNCHANGED <<rows, nrows, pc, gateVars, broadcasts, decisionVars, grantVars, audit>>

-----------------------------------------------------------------------------
(* Time and the hourly sweep. *)

\* Nothing in flight lasts for the retention window of 30 days.
Quiet ==
    /\ asked = {} /\ broadcasts = {} /\ reports = {}
    /\ \A c \in Calls : pc[c] \in {"new", "running", "blocked"}
    /\ \A r \in Rows : decision[r].at \in {"idle", "done"}

Age(r) ==
    /\ Opened(r)
    /\ \/ /\ rows[r].age = "fresh"
          /\ rows' = [rows EXCEPT ![r].age = "overdue"]
       \/ /\ rows[r].age = "overdue"
          /\ Quiet
          /\ rows' = [rows EXCEPT ![r].age = "aged"]
    /\ UNCHANGED <<nrows, pc, gateVars, wireVars, decisionVars, grantVars, audit>>

\* Mutant: the retention delete runs, the expiry pass does not.
SweepDeletesOnly ==
    /\ rows' = [r \in Rows |->
                  IF rows[r].age = "aged" /\ rows[r].status \notin {"none", "pending"}
                  THEN [NewRow("none", rows[r].binding, NoCallId) EXCEPT !.age = "aged"]
                  ELSE rows[r]]
    /\ UNCHANGED <<nrows, pc, gateVars, wireVars, decisionVars, grantVars, audit>>

\* expireStale with one audit row each, then the retention delete, which takes
\* every settled state and the approved grants nobody spent.
Sweep ==
    /\ rows' = [r \in Rows |->
                  IF rows[r].age = "aged" /\ Opened(r)
                  THEN [NewRow("none", rows[r].binding, NoCallId) EXCEPT !.age = "aged"]
                  ELSE IF r \in Overdue THEN [rows[r] EXCEPT !.status = "expired"]
                  ELSE rows[r]]
    /\ audit' = [r \in Rows |-> IF r \in Overdue THEN [audit[r] EXCEPT !["expired"] = @ + 1]
                                ELSE audit[r]]
    /\ UNCHANGED <<nrows, pc, gateVars, wireVars, decisionVars, grantVars>>

-----------------------------------------------------------------------------
GateCheck(c) ==
    \/ PolicyAllows(c) \/ RefuseUnattributable(c)
    \/ GateConsume(c) \/ GateMiss(c) \/ GateLookup(c) \/ GateRepoint(c)
    \/ GateCount(c) \/ GateInsert(c)

CallStep(c) ==
    \/ AnswerArrives(c) \/ AnswerLost(c)
    \/ ParkTimeout(c) \/ RunCancelled(c) \/ ForeignDecision(c)
    \/ LinkApproval(c) \/ BroadcastLost(c)
    \/ \E how \in Resolutions : RecordResolution(c, how) \/ ReportLost(c, how)

DecisionRoute(r) ==
    \/ LinkFound(r) \/ LinkWaitEnds(r) \/ ResolveTakesEffect(r) \/ ResolveFails(r)

RowStep(r) ==
    \/ \E v \in Verdicts : DecisionRead(r, v) \/ DecisionFlip(r, v)
    \/ DecisionRoute(r) \/ DecisionDies(r) \/ Age(r)

Next ==
    \/ \E c \in Calls : GateCheck(c) \/ CallStep(c)
    \/ \E r \in Rows : RowStep(r)
    \/ Sweep

Spec == Init /\ [][Next]_vars

\* Requests are served, answers and broadcasts arrive or fail, OpenClaw's
\* timeout of a parked call fires, time passes and the sweep's interval fires.
Fairness ==
    /\ \A c \in Calls : /\ WF_vars(GateCheck(c))
                        /\ WF_vars(AnswerArrives(c) \/ AnswerLost(c))
                        /\ WF_vars(ParkTimeout(c))
    /\ \A r \in Rows : WF_vars(DecisionRoute(r)) /\ WF_vars(Age(r))
    /\ WF_vars(Sweep)

FairSpec == Spec /\ Fairness

=============================================================================
