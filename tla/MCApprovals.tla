----------------------------- MODULE MCApprovals -----------------------------
(* Instances of the tool-confirmation gate for TLC. *)
EXTENDS ApprovalsProps, TLC

CONSTANTS c1, c2, c3, c4, b1, b2, b3, b4

\* Attempts at one action: the same binding, a fresh tool call id each.
SameBinding == [c \in Calls |-> b1]
OwnIds == [c \in Calls |-> c]

\* Three attempts at one action and a call of another tool.
ThreeAttempts == [c \in Calls |-> IF c = c4 THEN b2 ELSE b1]

\* Four different actions.
FourBindings == c1 :> b1 @@ c2 :> b2 @@ c3 :> b3 @@ c4 :> b4
MixedBinding == [c \in Calls |-> FourBindings[c]]

\* A provider that numbers tool calls per response.
SharedIds == [c \in Calls |-> "call_0"]

OneSession == [b \in Bindings |-> "s1"]
OwnSessions == [b \in Bindings |-> b]
OnePrincipal == [b \in Bindings |-> "agent1-user1"]
TwoPrincipals == [b \in Bindings |-> IF b = b1 THEN "agent1-user1" ELSE "agent1-user2"]

\* The attempts at one action are interchangeable.
Attempts == Permutations({c1, c2, c3} \cap Calls)

=============================================================================
