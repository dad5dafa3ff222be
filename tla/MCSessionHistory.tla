-------------------------- MODULE MCSessionHistory --------------------------
(* A small instance of SessionHistory. *)
EXTENDS SessionHistory, TLC

\* What a message asks for is a variable, so messages may be swapped.
SameMessages == Permutations(Messages)
=============================================================================
