--------------------------- MODULE FollowUpTurns ---------------------------
(***************************************************************************)
(* What AstrBot promises about the messages of one session (one UMO):      *)
(* at most one agent run at a time, a follow-up message sent while a run   *)
(* is going either is merged into a run or gets a turn of its own, never   *)
(* both, and the follow-ups that get turns get them in arrival order.      *)
(* AgentTurn implements this specification.                                *)
(***************************************************************************)
EXTENDS Integers

CONSTANT Events             \* the messages of the session

VARIABLES
    phase,                  \* where each message stands
    rank                    \* its place in the line of follow-ups, or NoRank

vars == <<phase, rank>>

NoRank == -1
Phases == {"away", "waiting", "running", "leaving", "merged", "ended"}

Line      == {e \in Events : rank[e] # NoRank}
Running   == {e \in Events : phase[e] = "running"}
IsFirst(e) == e \in Line => \A f \in Line : rank[e] <= rank[f]

Init ==
    /\ phase = [e \in Events |-> "away"]
    /\ rank = [e \in Events |-> NoRank]

ToPhase(e, from, to) ==
    /\ phase[e] \in from
    /\ phase' = [phase EXCEPT ![e] = to]

\* A message arrives on its own account.
Arrive(e) ==
    /\ ToPhase(e, {"away"}, "waiting")
    /\ UNCHANGED rank

\* A message arrives during a run and joins the end of the line.
Join(e) ==
    /\ Running # {}
    /\ ToPhase(e, {"away"}, "waiting")
    /\ rank'[e] \in Nat
    /\ \A f \in Line : rank[f] < rank'[e]
    /\ rank' = [rank EXCEPT ![e] = rank'[e]]

\* The run takes some waiting follow-ups in: they need no turn any more.
Merge(S) ==
    /\ S # {} /\ Running # {}
    /\ \A e \in S : e \in Line /\ phase[e] = "waiting"
    /\ phase' = [e \in Events |-> IF e \in S THEN "merged" ELSE phase[e]]
    /\ rank' = [e \in Events |-> IF e \in S THEN NoRank ELSE rank[e]]

Start(e) ==
    /\ Running = {}
    /\ IsFirst(e)
    /\ ToPhase(e, {"waiting"}, "running")
    /\ UNCHANGED rank

\* The run is over, or a plugin refused the message before it had one.
Leave(e) ==
    /\ IsFirst(e)
    /\ ToPhase(e, {"waiting", "running"}, "leaving")
    /\ UNCHANGED rank

\* Only now may the next follow-up of the line have its turn.
End(e) ==
    /\ ToPhase(e, {"leaving"}, "ended")
    /\ rank' = [rank EXCEPT ![e] = NoRank]

Next ==
    \/ \E e \in Events :
          Arrive(e) \/ Join(e) \/ Start(e) \/ Leave(e) \/ End(e)
    \/ \E S \in SUBSET Events : Merge(S)

Spec == Init /\ [][Next]_vars
=============================================================================
