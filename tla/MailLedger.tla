------------------------------ MODULE MailLedger ------------------------------
(***************************************************************************)
(* What the ledger of processed emails promises its readers: a mail is     *)
(* claimed by one run at a time, a claim may be taken back and made again, *)
(* and a mail that was settled stays settled as it was.                    *)
(***************************************************************************)
CONSTANTS Mails, Verdicts

VARIABLES state     \* [Mails -> "open", "claimed" or the verdict it settled with]

Init == state = [m \in Mails |-> "open"]

Claim(m) == state[m] = "open" /\ state' = [state EXCEPT ![m] = "claimed"]

Settle(m, v) == state[m] = "claimed" /\ state' = [state EXCEPT ![m] = v]

\* Stuck claims are taken back together.
Release(S) ==
    /\ \A m \in S : state[m] = "claimed"
    /\ state' = [m \in Mails |-> IF m \in S THEN "open" ELSE state[m]]

Next ==
    \/ \E m \in Mails : Claim(m) \/ \E v \in Verdicts : Settle(m, v)
    \/ \E S \in SUBSET Mails : Release(S)

Spec == Init /\ [][Next]_state

=============================================================================
