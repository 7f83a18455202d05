----------------------------- MODULE MCInboxSweep -----------------------------
(* One mailbox, swept by one pass after the other. *)
EXTENDS InboxSweep

CONSTANTS p1

=============================================================================
