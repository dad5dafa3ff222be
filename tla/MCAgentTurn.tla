---------------------------- MODULE MCAgentTurn ----------------------------
(* Small instances of AgentTurn. *)
EXTENDS AgentTurn, TLC

CONSTANTS e1, e2, e3, e4, alice, bob

\* all messages from one author
OneAuthor == [e \in Events |-> alice]
\* the last message comes from somebody else in the same group chat
TwoAuthors == [e \in Events |-> IF e \in {e2} THEN bob ELSE alice]

\* messages that behave alike may be swapped
SameAuthor == Permutations({e \in Events : Sender[e] = alice})
=============================================================================
