--------------------------- MODULE ApprovalsProps ---------------------------
(* What the tool-confirmation gate promises. *)
EXTENDS Approvals

Ran(c) == pc[c] = "running"

\* A gated call runs only on the strength of a confirmation whose requester
\* said yes to this very binding -- never undecided, never denied, never the
\* confirmation of another call (decideGate, linkApproval and the decision
\* route together), unless another OpenClaw surface allowed it.
RunsAreApproved ==
    \A c \in Calls : Ran(c) /\ BindingOf[c] \in Gated /\ ground[c] # "foreign" =>
        /\ charge[c] \in Rows
        /\ verdict[charge[c]] = "approve"
        /\ rows[charge[c]].binding = BindingOf[c]

\* One approval is spent at the gate at most once and resumes at most one call.
SpentOncePerPath ==
    \A c, d \in Calls : c # d /\ charge[c] # NoRow /\ charge[c] = charge[d] =>
        ground[c] # ground[d]

\* Each confirmation is audited once per lifecycle event, and ends in at most
\* one of granted, denied and expired (recordResolution's null, the sweep's and
\* the decision's status guards).
LifecycleAuditedOnce ==
    \A r \in Rows :
        /\ \A e \in Events : audit[r][e] <= 1
        /\ audit[r]["granted"] + audit[r]["denied"] + audit[r]["expired"] <= 1

\* "One confirmation, one action" (tool-confirmation guide).
OneActionPerConfirmation ==
    \A c, d \in Calls : c # d /\ Ran(c) /\ Ran(d) /\ charge[c] # NoRow => charge[c] # charge[d]

\* At most MaxPending unexpired confirmations wait for one requester on one agent,
\* and one more for each further gate-check that overlaps: the count and the
\* insert are statements of their own.
PendingCapped ==
    \A p \in {PrincipalOf[b] : b \in Bindings} :
        Cardinality(PendingOf(p)) <= MaxPending + (MaxChecks - 1)

\* The table, whoever writes to it, implements the life cycle of a confirmation.
Lifecycle == INSTANCE ConfirmationLifecycle
                 WITH status <- [r \in Rows |-> rows[r].status]

FollowsLifecycle == Lifecycle!Spec

\* OpenClaw's cap ends every wait: no call stays parked for ever, whatever was
\* decided, lost or never announced.
ParkedCallReturns == \A c \in Calls : pc[c] = "parked" ~> pc[c] # "parked"

\* No card stays open for ever: a decision, a report or the sweep closes it.
ConfirmationSettles == \A r \in Rows : rows[r].status = "pending" ~> rows[r].status # "pending"

\* A decision request is answered, even when the broadcast never comes.
DecisionAnswered == \A r \in Rows : decision[r].at \in {"waiting", "resolving"} ~> decision[r].at = "done"

-----------------------------------------------------------------------------
(* Why it holds: an inductive invariant. *)

\* A broadcast or report of c names a row opened for d.
Confusable(c, d) ==
    /\ IdOf[c] = IdOf[d]
    /\ IdOf[c] # NoCallId
    /\ c \in NamesSession => SessionOf[BindingOf[c]] = SessionOf[BindingOf[d]]

\* What the bridge relies on: such calls are attempts at one action.
IdsTellBindingsApart ==
    \A c, d \in Calls : Confusable(c, d) => BindingOf[c] = BindingOf[d]

\* A number not used yet has no row, no decision and no grant behind it.
UnusedRowsClean ==
    \A r \in Rows : r > nrows =>
        /\ rows[r].status = "none"
        /\ rows[r].approvalId = NoCall
        /\ rows[r].callId = NoCallId
        /\ verdict[r] = "none"
        /\ decision[r].addr = NoCall

\* The status of a row and what its requester decided agree.
StatusFitsVerdict ==
    \A r \in Rows : /\ rows[r].status = "pending" => verdict[r] = "none"
                    /\ rows[r].status = "approved" => verdict[r] = "approve"

\* The two ids of a row are ids of calls with its binding.
RowIdsBound ==
    \A r \in Rows :
        /\ rows[r].callId # NoCallId =>
             \E d \in Calls : IdOf[d] = rows[r].callId /\ BindingOf[d] = rows[r].binding
        /\ rows[r].approvalId # NoCall => BindingOf[rows[r].approvalId] = rows[r].binding

\* A row found by a lookup is still one of the same binding when it is re-pointed.
SeenBound ==
    \A c \in Calls : pc[c] = "repoint" =>
        seen[c] \in 1..nrows /\ rows[seen[c]].binding = BindingOf[c]

\* A decision that is being delivered has an address.
AddressKnown == \A r \in Rows : decision[r].at = "resolving" => decision[r].addr # NoCall

\* A decision resolves a call of its row's binding.
DecisionBound ==
    \A r \in Rows :
        decision[r].addr # NoCall => BindingOf[decision[r].addr] = rows[r].binding

\* An execution is charged to an approved row of its binding, and a gated call
\* that may run is charged.
ChargeBound ==
    \A c \in Calls :
        /\ charge[c] # NoRow => /\ charge[c] \in 1..nrows
                               /\ verdict[charge[c]] = "approve"
                               /\ rows[charge[c]].binding = BindingOf[c]
        /\ pc[c] \in {"allowed", "running"} /\ BindingOf[c] \in Gated /\ ground[c] # "foreign"
             => charge[c] # NoRow

\* Every id that passes between the gate, the bridge, the decision route and
\* OpenClaw stays with the binding it was issued for.
BindingsTravelTogether ==
    /\ UnusedRowsClean /\ StatusFitsVerdict /\ RowIdsBound
    /\ SeenBound /\ AddressKnown /\ DecisionBound /\ ChargeBound

=============================================================================
