------------------------ MODULE ConfirmationLifecycle ------------------------
(***************************************************************************)
(* What the tool_approval table promises about one confirmation, whoever   *)
(* touches it and in whatever order: it is opened once, it is decided by   *)
(* its requester at most once and only while pending, a refusal or an      *)
(* expiry is final, a grant can only be spent, and a decision is never     *)
(* taken back.  Several rows may move in one step (the sweep, a report     *)
(* that matches two rows).                                                 *)
(***************************************************************************)
CONSTANT Rows

VARIABLES status, verdict

Statuses == {"none", "pending", "approved", "denied", "consumed", "expired"}

\* "none" -> "pending" opens a row.  A row past the retention window is
\* deleted; one that is still pending then is expired and deleted by one sweep.
Moves == {<<"none", "pending">>,
          <<"pending", "approved">>, <<"pending", "denied">>,
          <<"pending", "consumed">>, <<"pending", "expired">>, <<"pending", "none">>,
          <<"approved", "consumed">>, <<"approved", "none">>,
          <<"denied", "none">>, <<"consumed", "none">>, <<"expired", "none">>}

Init ==
    /\ status = [r \in Rows |-> "none"]
    /\ verdict = [r \in Rows |-> "none"]

\* The requester decides a pending row.
Decide(r) ==
    /\ status[r] = "pending"
    /\ verdict[r] = "none"
    /\ \E v \in {"approve", "deny"} :
         /\ verdict' = [verdict EXCEPT ![r] = v]
         /\ status' = [status EXCEPT ![r] = IF v = "approve" THEN "approved" ELSE "denied"]

\* The gate, the runtime or the sweep moves rows without a decision.  None of
\* them grants, and a row is opened at most once: an opened row that was deleted
\* stays deleted.
Settle ==
    /\ status' \in [Rows -> Statuses]
    /\ \A r \in Rows : status'[r] = status[r] \/ <<status[r], status'[r]>> \in Moves
    /\ \A r \in Rows : status'[r] = "approved" => status[r] = "approved"
    /\ \A r \in Rows : status'[r] = "pending" => verdict[r] = "none"
    /\ UNCHANGED verdict

Next == Settle \/ \E r \in Rows : Decide(r)

Spec == Init /\ [][Next]_<<status, verdict>>
=============================================================================
