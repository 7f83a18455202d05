------------------------------ MODULE MCChatTab ------------------------------
(* One tab, two WebSocket objects at a time, one message. *)
EXTENDS ChatTab

CONSTANTS l1, l2, m1

\* A timer that is armed fires, a dial or a close comes to its end.
TabFairness ==
    /\ WF_tabVars(ReconnectTimer)
    /\ WF_tabVars(WatchdogFires)
    /\ \A w \in Links : WF_tabVars(TabGoesOn(w))

FairTabSpec == TabSpec /\ TabFairness

=============================================================================
