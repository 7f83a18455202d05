----------------------------- MODULE MCChatRuns -----------------------------
(* One chat session with a few messages and tabs. *)
EXTENDS ChatRuns

CONSTANTS w1, w2

=============================================================================
