-------------------------- MODULE AgentTurnProofs --------------------------
(***************************************************************************)
(* Safety of AgentTurn for every set of messages, authors and number of    *)
(* stop requests. Inv is the inductive invariant: the lock and the runner  *)
(* table agree with where the messages stand, and the follow-up order      *)
(* state holds exactly the slots the captured messages rely on. At the end *)
(* safety of the run of such a message, ToolLoop: LoopInv.                 *)
(***************************************************************************)
EXTENDS AgentTurn, ToolLoop, FiniteSets, FiniteSetTheorems, SequenceTheorems, WellFoundedInduction,
        TLAPS

LockInv ==
    /\ \A e \in Events : pc[e] \in HoldsLock => holder = e
    /\ active # NoEvent => pc[active] \in InRun

\* Where a captured message can stand, and what its ticket says by then.
TicketInv ==
    \A e \in Events :
        /\ ticket[e] = "pending" => pc[e] = "captured"
        /\ ticket[e] = "consumed" => pc[e] \in {"captured", "done"}
        /\ pc[e] \in {"captured", "turn"} => Captured(e)
        /\ pc[e] = "captured" => ticket[e] # "none"
        /\ Captured(e) => pc[e] \notin {"away", "done"}
        /\ Captured(e) /\ pc[e] # "captured" => ticket[e] = "returned"
        /\ pc[e] = "away" => ticket[e] = "none"

\* The slot of an unmerged follow-up is in the order state, with the status
\* the message gave it; numbers are never shared. A merged message may keep a
\* number of a state already released, but only while no run is registered.
SlotInv ==
    /\ \A e, f \in Events :
          Captured(e) /\ Captured(f) /\ order[e] = order[f] => e = f
    /\ \A e \in Events : Captured(e) =>
          IF ticket[e] = "consumed"
          THEN order[e] < next_order \/ (next_order = 0 /\ active = NoEvent)
          ELSE /\ order[e] \in DOMAIN statuses
               /\ statuses[order[e]] = IF pc[e] = "captured" THEN "pending" ELSE "active"
               /\ pc[e] \in PastGate => order[e] = next_turn

Inv == TypeOK /\ LockInv /\ TicketInv /\ SlotInv

USE AgentTurnAssumption

----------------------------------------------------------------------------
(* The order state's operators                                             *)

StatusMap(st) == st \in [next_turn..(next_order - 1) -> Statuses]

\* SetStatus keeps the slots, and every other slot's status.
LEMMA SetStatusFact ==
    ASSUME TypeOK, NEW seq \in Int, NEW status \in Statuses
    PROVE  /\ StatusMap(SetStatus(seq, status))
           /\ \A k \in DOMAIN statuses : k # seq =>
                 SetStatus(seq, status)[k] = statuses[k]
           /\ seq \in DOMAIN statuses => SetStatus(seq, status)[seq] = status
    BY DEF TypeOK, SetStatus, StatusMap

\* Advancing keeps every slot that is not handled, never moves the turn past
\* one, and starts the numbers again only when no slot is left unhandled.
LEMMA AdvanceFact ==
    ASSUME TypeOK, NEW st, StatusMap(st), AdvanceAndRelease(st)
    PROVE  /\ next_order' \in Nat
           /\ next_turn' \in 0..next_order'
           /\ statuses' \in [next_turn'..(next_order' - 1) -> Statuses]
           /\ \A k \in DOMAIN st : st[k] \notin Handled =>
                 k \in DOMAIN statuses' /\ statuses'[k] = st[k]
           /\ \A k \in DOMAIN st : k = next_turn /\ st[k] \notin Handled =>
                 next_turn' = next_turn
           /\ next_order' # next_order => next_order' = 0 /\ active = NoEvent
           /\ \A k \in DOMAIN statuses' : k \in DOMAIN st /\ statuses'[k] = st[k]
<1>1. PICK n \in next_turn..next_order :
        /\ FirstUnhandled(st, n)
        /\ LET rest == DOMAIN st \ (next_turn..(n - 1)) IN
           IF rest = {} /\ active = NoEvent
           THEN statuses' = EmptyMap /\ next_order' = 0 /\ next_turn' = 0
           ELSE /\ statuses' = [k \in rest |-> st[k]]
                /\ next_turn' = n
                /\ UNCHANGED next_order
  BY DEF AdvanceAndRelease
<1> DEFINE rest == DOMAIN st \ (next_turn..(n - 1))
<1>2. /\ n \in Int /\ next_turn \in Nat /\ next_order \in Nat
      /\ next_turn <= n /\ n <= next_order
  BY DEF TypeOK
<1>3. DOMAIN st = next_turn..(next_order - 1) /\ \A k \in DOMAIN st : st[k] \in Statuses
  BY DEF StatusMap
<1>4. rest = n..(next_order - 1)
  BY <1>2, <1>3
<1>5. \A k \in DOMAIN st : st[k] \notin Handled => k \in rest
  BY <1>1, <1>2, <1>3 DEF FirstUnhandled
<1>6. CASE rest = {} /\ active = NoEvent
  <2>1. statuses' = EmptyMap /\ next_order' = 0 /\ next_turn' = 0
    BY <1>1, <1>6
  <2>2. EmptyMap \in [0..(0 - 1) -> Statuses]
    <3>1. 0..(0 - 1) = {}
      OBVIOUS
    <3> QED BY <3>1 DEF EmptyMap
  <2> QED BY <2>1, <2>2, <1>5, <1>6
<1>7. CASE ~(rest = {} /\ active = NoEvent)
  <2>1. statuses' = [k \in rest |-> st[k]] /\ next_turn' = n /\ next_order' = next_order
    BY <1>1, <1>7
  <2>2. \A k \in DOMAIN st : k = next_turn /\ st[k] \notin Handled => n = next_turn
    BY <1>1, <1>2, <1>3 DEF FirstUnhandled
  <2>3. statuses' \in [n..(next_order - 1) -> Statuses]
    BY <2>1, <1>3, <1>4
  <2> QED BY <2>1, <2>2, <2>3, <1>2, <1>5
<1> QED BY <1>6, <1>7

\* Marking a merged slot, or finishing a turn, disturbs nobody else's slot.
LEMMA SettleFact ==
    ASSUME Inv, NEW e \in Events, Captured(e),
           \/ ticket[e] = "consumed" /\ MarkConsumed(order[e])
           \/ pc[e] \in PastGate /\ FinishTurn(order[e])
    PROVE  /\ next_order' \in Nat
           /\ next_turn' \in 0..next_order'
           /\ statuses' \in [next_turn'..(next_order' - 1) -> Statuses]
           /\ \A f \in Events : Captured(f) /\ ticket[f] = "consumed" =>
                 order[f] < next_order' \/ (next_order' = 0 /\ active = NoEvent)
           /\ \A f \in Events \ {e} : Captured(f) /\ ticket[f] # "consumed" =>
                 /\ order[f] \in DOMAIN statuses'
                 /\ statuses'[order[f]] = statuses[order[f]]
                 /\ pc[f] \in PastGate => order[f] = next_turn'
<1>1. /\ order[e] \in Nat
      /\ \A f \in Events : order[f] \in Int
      /\ next_order \in Nat /\ next_turn \in Nat
      /\ statuses \in [next_turn..(next_order - 1) -> Statuses]
  BY DEF Inv, TypeOK, Captured, NoOrder
<1>2. CASE UNCHANGED orderVars
  BY <1>2 DEF Inv, TypeOK, SlotInv, orderVars
<1>3. CASE \E st : /\ StatusMap(st) /\ AdvanceAndRelease(st)
                   /\ \A k \in DOMAIN statuses : k # order[e] => st[k] = statuses[k]
  <2>1. PICK st : /\ StatusMap(st) /\ AdvanceAndRelease(st)
                  /\ \A k \in DOMAIN statuses : k # order[e] => st[k] = statuses[k]
    BY <1>3
  <2>2. DOMAIN st = DOMAIN statuses
    BY <2>1, <1>1 DEF StatusMap
  <2>3. /\ next_order' \in Nat
        /\ next_turn' \in 0..next_order'
        /\ statuses' \in [next_turn'..(next_order' - 1) -> Statuses]
        /\ \A k \in DOMAIN st : st[k] \notin Handled =>
                 k \in DOMAIN statuses' /\ statuses'[k] = st[k]
        /\ \A k \in DOMAIN st : k = next_turn /\ st[k] \notin Handled =>
                 next_turn' = next_turn
        /\ next_order' # next_order => next_order' = 0 /\ active = NoEvent
    BY <2>1, AdvanceFact DEF Inv
  <2>4. ASSUME NEW f \in Events, Captured(f), ticket[f] = "consumed"
        PROVE  order[f] < next_order' \/ (next_order' = 0 /\ active = NoEvent)
    BY <2>3, <2>4 DEF Inv, SlotInv
  <2>5. ASSUME NEW f \in Events \ {e}, Captured(f), ticket[f] # "consumed"
        PROVE  /\ order[f] \in DOMAIN statuses'
               /\ statuses'[order[f]] = statuses[order[f]]
               /\ pc[f] \in PastGate => order[f] = next_turn'
    <3>1. /\ order[f] \in DOMAIN statuses
          /\ statuses[order[f]] \in {"pending", "active"}
          /\ pc[f] \in PastGate => order[f] = next_turn
      BY <2>5 DEF Inv, SlotInv
    <3>2. order[f] # order[e]
      BY <2>5 DEF Inv, SlotInv
    <3>3. st[order[f]] = statuses[order[f]] /\ st[order[f]] \notin Handled
      BY <2>1, <3>1, <3>2 DEF Handled
    <3> QED BY <2>2, <2>3, <3>1, <3>3
  <2> QED BY <2>3, <2>4, <2>5
<1>4. UNCHANGED orderVars \/
      \E st : /\ StatusMap(st) /\ AdvanceAndRelease(st)
              /\ \A k \in DOMAIN statuses : k # order[e] => st[k] = statuses[k]
  <2>1. \A status \in Statuses :
           /\ StatusMap(SetStatus(order[e], status))
           /\ \A k \in DOMAIN statuses : k # order[e] =>
                 SetStatus(order[e], status)[k] = statuses[k]
    BY <1>1, SetStatusFact DEF Inv
  <2>2. StatusMap(statuses)
    BY <1>1 DEF StatusMap
  <2>3. {"consumed", "finished"} \subseteq Statuses
    BY DEF Statuses
  <2>4. CASE MarkConsumed(order[e])
    BY <2>1, <2>2, <2>3, <2>4 DEF MarkConsumed
  <2>5. CASE FinishTurn(order[e])
    BY <2>1, <2>3, <2>5 DEF FinishTurn
  <2> QED BY <2>4, <2>5
<1> QED BY <1>2, <1>3, <1>4

----------------------------------------------------------------------------
(* The invariant is inductive                                              *)

LEMMA InitInv == Init => Inv
<1> SUFFICES ASSUME Init PROVE Inv
  OBVIOUS
<1>1. statuses \in [next_turn..(next_order - 1) -> Statuses]
  <2>1. 0..(0 - 1) = {}
    OBVIOUS
  <2> QED BY <2>1 DEF Init, EmptyMap
<1>2. waiters \in Seq(Events)
  BY DEF Init
<1>3. TypeOK
  BY <1>1, <1>2 DEF Init, TypeOK, Locations, NoOrder
<1>4. LockInv
  BY DEF Init, LockInv, HoldsLock, InRun
<1>5. TicketInv /\ SlotInv
  BY DEF Init, TicketInv, SlotInv, Captured, NoOrder
<1> QED BY <1>3, <1>4, <1>5 DEF Inv

\* The three actions that settle a slot
Settles(e) == Monitor(e) \/ WakeConsumed(e) \/ Finalize(e)

\* A message that is done with its ticket settles its own slot.
LEMMA SettlesOne ==
    ASSUME Inv, NEW e \in Events, Settles(e), order[e] # NoOrder
    PROVE  /\ Captured(e)
           /\ \/ ticket[e] = "consumed" /\ MarkConsumed(order[e])
              \/ pc[e] \in PastGate /\ FinishTurn(order[e])
    BY DEF Inv, TypeOK, Settles, Monitor, WakeConsumed, Finalize, Captured, PastGate

\* Every step keeps the types.
LEMMA TypeStep == Inv /\ [Next]_vars => TypeOK'
<1> SUFFICES ASSUME Inv, [Next]_vars PROVE TypeOK'
  OBVIOUS
<1> USE DEF Inv, TypeOK, Locations
<1>1. CASE RequestStop
  BY <1>1 DEF RequestStop, captureVars, runVars, lockVars, orderVars
<1>2. ASSUME NEW e \in Events, Arrive(e) PROVE TypeOK'
  BY <1>2 DEF Arrive, captureVars, runVars, stopVars, lockVars, orderVars
<1>3. ASSUME NEW e \in Events, Capture(e) PROVE TypeOK'
  <2>1. statuses' \in [next_turn..((next_order + 1) - 1) -> Statuses]
    <3>1. DOMAIN statuses \cup {next_order} = next_turn..((next_order + 1) - 1)
      OBVIOUS
    <3> QED BY <1>3, <3>1 DEF Capture, Statuses
  <2> QED BY <1>3, <2>1 DEF Capture, CanCapture, runVars, stopVars, lockVars
<1>4. ASSUME NEW e \in Events, Settles(e) PROVE TypeOK'
  <2>1. CASE order[e] = NoOrder
    <3>1. UNCHANGED orderVars
      BY <1>4, <2>1 DEF Settles, Monitor, WakeConsumed, Finalize, TicketInv, Captured, NoOrder
    <3> QED BY <1>4, <3>1 DEF Settles, Monitor, WakeConsumed, Finalize,
             captureVars, runVars, stopVars, lockVars, orderVars
  <2>2. CASE order[e] # NoOrder
    <3>1. /\ next_order' \in Nat
          /\ next_turn' \in 0..next_order'
          /\ statuses' \in [next_turn'..(next_order' - 1) -> Statuses]
      BY <1>4, <2>2, SettlesOne, SettleFact
    <3> QED BY <1>4, <3>1 DEF Settles, Monitor, WakeConsumed, Finalize,
             captureVars, runVars, stopVars, lockVars
  <2> QED BY <2>1, <2>2
<1>5. ASSUME NEW e \in Events, WakeReturned(e) PROVE TypeOK'
  <2>1. statuses' \in [next_turn..(next_order - 1) -> Statuses]
    <3>1. order[e] \in Int
      BY DEF NoOrder
    <3>2. StatusMap(SetStatus(order[e], "active"))
      BY <3>1, SetStatusFact DEF Statuses
    <3> QED BY <1>5, <3>2 DEF WakeReturned, StatusMap
  <2> QED BY <1>5, <2>1 DEF WakeReturned, captureVars, runVars, stopVars, lockVars
<1>6. ASSUME NEW e \in Events, TakeTurn(e) \/ RefusedWaiting(e) \/ BuildRefused(e)
      PROVE  TypeOK'
  BY <1>6 DEF TakeTurn, RefusedWaiting, BuildRefused, ReleaseLock,
       captureVars, runVars, stopVars, lockVars, orderVars
<1>7. ASSUME NEW e \in Events, RequestLock(e) PROVE TypeOK'
  <2>1. Append(waiters, e) \in Seq(Events)
    OBVIOUS
  <2> QED BY <1>7, <2>1 DEF RequestLock, captureVars, runVars, stopVars, orderVars
<1>8. ASSUME NEW e \in Events, AcquireLock(e) PROVE TypeOK'
  <2>1. waiters # <<>> => Tail(waiters) \in Seq(Events)
    OBVIOUS
  <2> QED BY <1>8, <2>1 DEF AcquireLock, captureVars, runVars, stopVars, orderVars
<1>9. ASSUME NEW e \in Events, RegisterRunner(e) \/ SaveAndUnregister(e) \/ WatchStop(e)
      PROVE  TypeOK'
  BY <1>9 DEF RegisterRunner, SaveAndUnregister, WatchStop, ReleaseLock,
       captureVars, runVars, stopVars, lockVars, orderVars
<1>10. ASSUME NEW e \in Events, ToolResult(e) \/ EndRun(e) \/ EndHook(e) \/ RunFails(e)
       PROVE  TypeOK'
  BY <1>10 DEF ToolResult, EndRun, ToolEndsRun, BeginComplete, BeginAbort, ErrorAnswer,
       EndHook, RunFails, ResolveFollowUps,
       captureVars, runVars, stopVars, lockVars, orderVars
<1>11. CASE UNCHANGED vars
  BY <1>11 DEF vars, captureVars, runVars, stopVars, lockVars, orderVars
<1> QED
  BY <1>1, <1>2, <1>3, <1>4, <1>5, <1>6, <1>7, <1>8, <1>9, <1>10, <1>11
  DEF Next, Wake, Settles

\* A message enters the locked region only with the lock, and nobody else is
\* in it then.
LEMMA LockStep == Inv /\ [Next]_vars => LockInv'
<1> SUFFICES ASSUME Inv, [Next]_vars PROVE LockInv'
  OBVIOUS
<1> USE DEF Inv, TypeOK, LockInv, HoldsLock, InRun
<1>1. CASE RequestStop
  BY <1>1 DEF RequestStop, runVars, lockVars
<1>2. ASSUME NEW e \in Events,
             \/ Arrive(e) \/ Capture(e) \/ Wake(e) \/ RefusedWaiting(e)
             \/ Finalize(e) \/ WatchStop(e) \/ ToolResult(e)
      PROVE  LockInv'
  BY <1>2 DEF Arrive, Capture, Wake, Monitor, WakeConsumed, WakeReturned, TakeTurn,
       RefusedWaiting, Finalize, WatchStop, ToolResult, runVars, lockVars
<1>3. ASSUME NEW e \in Events, RequestLock(e) \/ AcquireLock(e) PROVE LockInv'
  BY <1>3 DEF RequestLock, AcquireLock, runVars
<1>4. ASSUME NEW e \in Events, BuildRefused(e) \/ SaveAndUnregister(e) PROVE LockInv'
  BY <1>4 DEF BuildRefused, SaveAndUnregister, ReleaseLock, runVars
<1>5. ASSUME NEW e \in Events, RegisterRunner(e) PROVE LockInv'
  BY <1>5 DEF RegisterRunner, lockVars
<1>6. ASSUME NEW e \in Events, EndRun(e) \/ EndHook(e) \/ RunFails(e) PROVE LockInv'
  BY <1>6 DEF EndRun, ToolEndsRun, BeginComplete, BeginAbort, ErrorAnswer, EndHook,
       RunFails, runVars, lockVars
<1>7. CASE UNCHANGED vars
  BY <1>7 DEF vars, runVars, lockVars
<1> QED BY <1>1, <1>2, <1>3, <1>4, <1>5, <1>6, <1>7 DEF Next

\* Tickets are given once, resolved once, and read by their own message.
LEMMA TicketStep == Inv /\ [Next]_vars => TicketInv'
<1> SUFFICES ASSUME Inv, [Next]_vars PROVE TicketInv'
  OBVIOUS
<1> USE DEF Inv, TypeOK, TicketInv, Captured
<1>1. CASE RequestStop
  BY <1>1 DEF RequestStop, captureVars
<1>2. ASSUME NEW e \in Events, Arrive(e) PROVE TicketInv'
  BY <1>2 DEF Arrive, captureVars
<1>3. ASSUME NEW e \in Events, Capture(e) PROVE TicketInv'
  BY <1>3 DEF Capture, NoOrder
<1>4. ASSUME NEW e \in Events, Wake(e) PROVE TicketInv'
  BY <1>4 DEF Wake, Monitor, WakeConsumed, WakeReturned, TakeTurn, captureVars
<1>5. ASSUME NEW e \in Events,
             \/ RefusedWaiting(e) \/ RequestLock(e) \/ AcquireLock(e) \/ BuildRefused(e)
             \/ RegisterRunner(e) \/ RunFails(e) \/ SaveAndUnregister(e) \/ WatchStop(e)
      PROVE  TicketInv'
  BY <1>5 DEF RefusedWaiting, RequestLock, AcquireLock, BuildRefused, RegisterRunner,
       RunFails, SaveAndUnregister, WatchStop, captureVars
<1>6. ASSUME NEW e \in Events, ToolResult(e) \/ EndRun(e) \/ EndHook(e) PROVE TicketInv'
  BY <1>6 DEF ToolResult, EndRun, ToolEndsRun, BeginComplete, BeginAbort, ErrorAnswer,
       EndHook, ResolveFollowUps, PendingFollowUps, captureVars
<1>7. ASSUME NEW e \in Events, Finalize(e) PROVE TicketInv'
  BY <1>7 DEF Finalize
<1>8. CASE UNCHANGED vars
  BY <1>8 DEF vars, captureVars
<1> QED BY <1>1, <1>2, <1>3, <1>4, <1>5, <1>6, <1>7, <1>8 DEF Next

\* Slots are taken with fresh numbers, keep the status their message gave
\* them, and the turn stays with the message past the gate.
LEMMA SlotStep == Inv /\ [Next]_vars => SlotInv'
<1> SUFFICES ASSUME Inv, [Next]_vars PROVE SlotInv'
  OBVIOUS
<1> USE DEF Inv, TypeOK, TicketInv, SlotInv, Captured
<1>1. CASE RequestStop
  BY <1>1 DEF RequestStop, captureVars, runVars, orderVars
<1>2. ASSUME NEW e \in Events, Arrive(e) PROVE SlotInv'
  BY <1>2 DEF Arrive, captureVars, runVars, orderVars
<1>3. ASSUME NEW e \in Events, Capture(e) PROVE SlotInv'
  <2>1. active # NoEvent /\ ~Captured(e)
    BY <1>3 DEF Capture, CanCapture
  <2>2. /\ order' = [order EXCEPT ![e] = next_order]
        /\ ticket' = [ticket EXCEPT ![e] = "pending"]
        /\ pc' = [pc EXCEPT ![e] = "captured"]
        /\ active' = active /\ next_turn' = next_turn /\ next_order' = next_order + 1
        /\ DOMAIN statuses' = DOMAIN statuses \cup {next_order}
        /\ statuses'[next_order] = "pending"
        /\ \A k \in DOMAIN statuses : statuses'[k] = statuses[k]
    BY <1>3 DEF Capture, runVars
  <2>3. \A f \in Events : Captured(f) => order[f] < next_order
    BY <2>1
  <2> QED BY <2>1, <2>2, <2>3 DEF NoOrder, PastGate
<1>4. ASSUME NEW e \in Events, Settles(e) PROVE SlotInv'
  <2>1. CASE order[e] = NoOrder
    BY <1>4, <2>1 DEF Settles, Monitor, WakeConsumed, Finalize, runVars, orderVars
  <2>2. CASE order[e] # NoOrder
    <3>1. /\ \A f \in Events : Captured(f) /\ ticket[f] = "consumed" =>
                 order[f] < next_order' \/ (next_order' = 0 /\ active = NoEvent)
          /\ \A f \in Events \ {e} : Captured(f) /\ ticket[f] # "consumed" =>
                 /\ order[f] \in DOMAIN statuses'
                 /\ statuses'[order[f]] = statuses[order[f]]
                 /\ pc[f] \in PastGate => order[f] = next_turn'
      BY <1>4, <2>2, SettlesOne, SettleFact
    <3>2. CASE Monitor(e)
      BY <3>1, <3>2 DEF Monitor, captureVars, runVars
    <3>3. CASE WakeConsumed(e) \/ Finalize(e)
      <4>1. /\ order' = [order EXCEPT ![e] = NoOrder]
            /\ pc' = [pc EXCEPT ![e] = "done"]
            /\ ticket' = ticket /\ active' = active
        BY <3>3 DEF WakeConsumed, Finalize, runVars
      <4>2. \A f \in Events : order'[f] # NoOrder =>
               f # e /\ order'[f] = order[f] /\ pc'[f] = pc[f]
        BY <4>1
      <4>3. \A f, g \in Events :
               order'[f] # NoOrder /\ order'[g] # NoOrder /\ order'[f] = order'[g] => f = g
        BY <4>2
      <4> QED BY <3>1, <4>1, <4>2, <4>3
    <3> QED BY <1>4, <3>2, <3>3 DEF Settles
  <2> QED BY <2>1, <2>2
<1>5. ASSUME NEW e \in Events, WakeReturned(e) PROVE SlotInv'
  <2>1. order[e] \in DOMAIN statuses /\ order[e] \in Int
    BY <1>5 DEF WakeReturned, NoOrder
  <2>2. /\ DOMAIN statuses' = DOMAIN statuses
        /\ statuses'[order[e]] = "active"
        /\ \A k \in DOMAIN statuses : k # order[e] => statuses'[k] = statuses[k]
    BY <1>5, <2>1 DEF WakeReturned, SetStatus
  <2>3. OrderStateExists
    BY <2>1 DEF OrderStateExists
  <2> QED BY <1>5, <2>1, <2>2, <2>3 DEF WakeReturned, captureVars, runVars, PastGate
<1>6. ASSUME NEW e \in Events,
             \/ TakeTurn(e) \/ RefusedWaiting(e) \/ RequestLock(e) \/ AcquireLock(e)
             \/ BuildRefused(e) \/ RunFails(e) \/ WatchStop(e)
      PROVE  SlotInv'
  BY <1>6 DEF TakeTurn, RefusedWaiting, RequestLock, AcquireLock, BuildRefused, RunFails,
       WatchStop, captureVars, runVars, orderVars, PastGate
<1>7. ASSUME NEW e \in Events, RegisterRunner(e) \/ SaveAndUnregister(e) PROVE SlotInv'
  BY <1>7 DEF RegisterRunner, SaveAndUnregister, captureVars, orderVars, PastGate
<1>8. ASSUME NEW e \in Events, ToolResult(e) \/ EndRun(e) \/ EndHook(e) PROVE SlotInv'
  BY <1>8 DEF ToolResult, EndRun, ToolEndsRun, BeginComplete, BeginAbort, ErrorAnswer,
       EndHook, ResolveFollowUps, PendingFollowUps, captureVars, runVars, orderVars, PastGate
<1>9. CASE UNCHANGED vars
  BY <1>9 DEF vars, captureVars, runVars, orderVars
<1> QED
  BY <1>1, <1>2, <1>3, <1>4, <1>5, <1>6, <1>7, <1>8, <1>9 DEF Next, Wake, Settles

\* Inv is an invariant of AgentTurn.
THEOREM Invariance == Spec => []Inv
<1>1. Inv /\ [Next]_vars => Inv'
  BY TypeStep, LockStep, TicketStep, SlotStep DEF Inv
<1> QED BY <1>1, InitInv, PTL DEF Spec

----------------------------------------------------------------------------
(* What follows from the invariant                                         *)

\* One run at a time, and the registered runner is the lock holder's: for any
\* number of messages (internal.py:220).
THEOREM OneRun == Spec => []OneRunAtATime
<1>1. Inv => OneRunAtATime
  BY DEF Inv, LockInv, OneRunAtATime
<1> QED BY <1>1, Invariance, PTL

\* A follow-up past the gate is the first of the line (follow_up.py:124).
THEOREM Ordered == Spec => []StrictOrder
<1>1. Inv => StrictOrder
  <2> SUFFICES ASSUME Inv, NEW e \in Events, NEW f \in Events,
                      Captured(e), Captured(f), pc[e] \in PastGate, ticket[f] # "consumed"
               PROVE  order[e] <= order[f]
    BY DEF StrictOrder
  <2>1. ticket[e] # "consumed"
    BY DEF Inv, TicketInv, PastGate
  <2>2. order[e] = next_turn
    BY <2>1 DEF Inv, SlotInv
  <2>3. order[f] \in next_turn..(next_order - 1)
    BY DEF Inv, SlotInv, TypeOK
  <2> QED BY <2>2, <2>3 DEF Inv, TypeOK
<1> QED BY <1>1, Invariance, PTL

\* A merged follow-up is never answered by a run of its own (follow_up.py:207).
THEOREM MergedOnce == Spec => []MergedXorAnswered
<1>1. Inv => MergedXorAnswered
  BY DEF Inv, TicketInv, MergedXorAnswered
<1> QED BY <1>1, Invariance, PTL

\* The order state outlives every follow-up that relies on it (follow_up.py:107).
THEOREM StateKept == Spec => []OrderStateKept
<1>1. Inv => OrderStateKept
  BY DEF Inv, SlotInv, OrderStateKept
<1> QED BY <1>1, Invariance, PTL

----------------------------------------------------------------------------
(* Every slot that is waited for has a follow-up that will settle it       *)

OwnerInv ==
    \A k \in DOMAIN statuses :
        statuses[k] \notin Handled => \E e \in Events : order[e] = k

\* Settling the slot of one follow-up leaves no other slot to be waited for
\* than those that were waited for before, and not its own.
LEMMA SettleOwnFact ==
    ASSUME Inv, NEW e \in Events, Captured(e),
           \/ ticket[e] = "consumed" /\ MarkConsumed(order[e])
           \/ pc[e] \in PastGate /\ FinishTurn(order[e])
    PROVE  \A k \in DOMAIN statuses' : statuses'[k] \notin Handled =>
              /\ k \in DOMAIN statuses /\ k # order[e]
              /\ statuses[k] = statuses'[k]
<1>1. /\ order[e] \in Int
      /\ next_order \in Nat /\ next_turn \in Nat
      /\ statuses \in [next_turn..(next_order - 1) -> Statuses]
  BY DEF Inv, TypeOK, NoOrder
<1>2. CASE ~OrderStateExists
  <2>1. statuses' = statuses
    BY <1>2 DEF MarkConsumed, FinishTurn, orderVars
  <2>2. DOMAIN statuses = {}
    BY <1>1, <1>2 DEF OrderStateExists
  <2> QED BY <2>1, <2>2
<1>3. CASE OrderStateExists
  <2>1. ASSUME NEW st, StatusMap(st), AdvanceAndRelease(st),
               \A k \in DOMAIN statuses : k # order[e] => st[k] = statuses[k],
               order[e] \in DOMAIN statuses => st[order[e]] \in Handled
        PROVE  \A k \in DOMAIN statuses' : statuses'[k] \notin Handled =>
                  /\ k \in DOMAIN statuses /\ k # order[e]
                  /\ statuses[k] = statuses'[k]
    <3>1. DOMAIN st = DOMAIN statuses
      BY <1>1, <2>1 DEF StatusMap
    <3>2. \A k \in DOMAIN statuses' : k \in DOMAIN st /\ statuses'[k] = st[k]
      BY <2>1, AdvanceFact DEF Inv
    <3> QED BY <2>1, <3>1, <3>2
  <2>2. \A status \in Statuses :
           /\ StatusMap(SetStatus(order[e], status))
           /\ \A k \in DOMAIN statuses : k # order[e] =>
                 SetStatus(order[e], status)[k] = statuses[k]
           /\ order[e] \in DOMAIN statuses => SetStatus(order[e], status)[order[e]] = status
    BY <1>1, SetStatusFact DEF Inv
  <2>3. StatusMap(statuses)
    BY <1>1 DEF StatusMap
  <2>4. {"consumed", "finished"} \subseteq Statuses /\ {"consumed", "finished"} = Handled
    BY DEF Statuses, Handled
  <2>5. CASE MarkConsumed(order[e])
    <3>1. CASE order[e] \in DOMAIN statuses /\ statuses[order[e]] = "finished"
      <4>1. AdvanceAndRelease(statuses)
        BY <1>3, <2>5, <3>1 DEF MarkConsumed
      <4> QED BY <2>1, <2>3, <2>4, <3>1, <4>1
    <3>2. CASE ~(order[e] \in DOMAIN statuses /\ statuses[order[e]] = "finished")
      <4>1. AdvanceAndRelease(SetStatus(order[e], "consumed"))
        BY <1>3, <2>5, <3>2 DEF MarkConsumed
      <4> QED BY <2>1, <2>2, <2>4, <4>1
    <3> QED BY <3>1, <3>2
  <2>6. CASE FinishTurn(order[e])
    <3>1. AdvanceAndRelease(SetStatus(order[e], "finished"))
      BY <1>3, <2>6 DEF FinishTurn
    <3> QED BY <2>1, <2>2, <2>4, <3>1
  <2> QED BY <2>5, <2>6
<1> QED BY <1>2, <1>3

\* A slot the line waits for keeps its owner.
LEMMA OwnerStep == Inv /\ OwnerInv /\ [Next]_vars => OwnerInv'
<1> SUFFICES ASSUME Inv, OwnerInv, [Next]_vars PROVE OwnerInv'
  OBVIOUS
<1>a. TypeOK
  BY DEF Inv
<1>1. CASE UNCHANGED <<order, statuses>>
  BY <1>1 DEF OwnerInv
<1>2. ASSUME NEW e \in Events, Capture(e) PROVE OwnerInv'
  <2>1. order[e] = NoOrder
    BY <1>2 DEF Capture, Inv, TicketInv, Captured
  <2>2. \A k \in DOMAIN statuses : k # NoOrder
    BY <1>a DEF TypeOK, NoOrder
  <2> QED BY <1>2, <1>a, <2>1, <2>2 DEF Capture, OwnerInv, TypeOK
<1>3. ASSUME NEW e \in Events, Settles(e) PROVE OwnerInv'
  <2>1. CASE order[e] = NoOrder
    BY <1>1, <1>3, <2>1, <1>a DEF Settles, Monitor, WakeConsumed, Finalize, Inv, TicketInv,
       Captured, NoOrder, captureVars, orderVars, TypeOK
  <2>2. CASE order[e] # NoOrder
    <3>1. \A k \in DOMAIN statuses' : statuses'[k] \notin Handled =>
              /\ k \in DOMAIN statuses /\ k # order[e]
              /\ statuses[k] = statuses'[k]
      BY <1>3, <2>2, SettlesOne, SettleOwnFact
    <3>2. \A f \in Events : f # e => order'[f] = order[f]
      BY <1>3, <1>a DEF Settles, Monitor, WakeConsumed, Finalize, captureVars, TypeOK
    <3> QED BY <3>1, <3>2 DEF OwnerInv
  <2> QED BY <2>1, <2>2
<1>4. ASSUME NEW e \in Events, WakeReturned(e) PROVE OwnerInv'
  <2>1. order[e] \in Int /\ "active" \in Statuses
    BY <1>a DEF TypeOK, NoOrder, Statuses
  <2>2. /\ DOMAIN statuses' = DOMAIN statuses
        /\ \A k \in DOMAIN statuses : k # order[e] => statuses'[k] = statuses[k]
    BY <1>4, <1>a, <2>1, SetStatusFact DEF WakeReturned, StatusMap, TypeOK
  <2> QED BY <1>4, <2>2 DEF WakeReturned, OwnerInv, captureVars
<1>5. ASSUME NEW e \in Events,
             \/ Arrive(e) \/ TakeTurn(e) \/ RefusedWaiting(e) \/ RequestLock(e)
             \/ AcquireLock(e) \/ BuildRefused(e) \/ RegisterRunner(e) \/ ToolResult(e)
             \/ EndRun(e) \/ EndHook(e) \/ RunFails(e) \/ SaveAndUnregister(e)
             \/ WatchStop(e)
      PROVE  OwnerInv'
  BY <1>1, <1>5 DEF Arrive, TakeTurn, RefusedWaiting, RequestLock, AcquireLock, BuildRefused,
       RegisterRunner, ToolResult, EndRun, ToolEndsRun, BeginComplete, BeginAbort,
       ErrorAnswer, EndHook, RunFails, SaveAndUnregister, WatchStop, captureVars, orderVars
<1>6. CASE RequestStop \/ UNCHANGED vars
  BY <1>1, <1>6 DEF RequestStop, vars, captureVars, orderVars
<1> QED BY <1>2, <1>3, <1>4, <1>5, <1>6 DEF Next, Wake, Settles

\* No slot is left behind to block the line for good: each one that is waited
\* for belongs to a message that is still at work (follow_up.py:63).
THEOREM NoneAbandoned == Spec => []NoAbandonedSlot
<1>1. Init => OwnerInv
  BY DEF Init, OwnerInv, EmptyMap
<1>2. Inv /\ OwnerInv /\ [Next]_vars => OwnerInv'
  BY OwnerStep
<1>3. Inv /\ OwnerInv => NoAbandonedSlot
  <2> SUFFICES ASSUME Inv, OwnerInv, NEW k \in DOMAIN statuses,
                      statuses[k] \in {"pending", "active"}
               PROVE  \E e \in Events : order[e] = k /\ pc[e] # "done"
    BY DEF NoAbandonedSlot
  <2>1. PICK e \in Events : order[e] = k
    BY DEF OwnerInv, Handled
  <2>2. k \in Nat
    BY DEF Inv, TypeOK
  <2>3. Captured(e)
    BY <2>1, <2>2 DEF Captured, NoOrder
  <2> QED BY <2>1, <2>3 DEF Inv, TicketInv
<1> QED BY <1>1, <1>2, <1>3, Invariance, PTL DEF Spec

----------------------------------------------------------------------------
(* Runs that always end properly leave no follow-up waiting for nothing    *)

\* A run that is over says so before it could capture again.
RunInv ==
    /\ \A e \in Events : pc[e] \in {"finishing", "aborting", "saving"} => rstate[e] = "done"
    /\ \A e \in Events : ticket[e] = "pending" =>
          /\ target[e] \in Events
          /\ pc[target[e]] \in {"running", "finishing", "aborting"}

\* Without failing runs, the run a pending ticket waits for goes on.
LEMMA RunStep ==
    ASSUME ~RunsMayFail
    PROVE  Inv /\ RunInv /\ [Next]_vars => RunInv'
<1> SUFFICES ASSUME Inv, RunInv, [Next]_vars PROVE RunInv'
  OBVIOUS
<1> USE DEF Inv, TypeOK, TicketInv, LockInv, RunInv, InRun
<1>1. CASE RequestStop
  BY <1>1 DEF RequestStop, captureVars, runVars
<1>2. ASSUME NEW e \in Events, Arrive(e) PROVE RunInv'
  BY <1>2 DEF Arrive, captureVars, runVars
<1>3. ASSUME NEW e \in Events, Capture(e) PROVE RunInv'
  <2>1. active \in Events /\ pc[active] = "running"
    BY <1>3 DEF Capture, CanCapture, AcceptsFollowUp
  <2> QED BY <1>3, <2>1 DEF Capture, runVars
<1>4. ASSUME NEW e \in Events, Wake(e) PROVE RunInv'
  BY <1>4 DEF Wake, Monitor, WakeConsumed, WakeReturned, TakeTurn, captureVars, runVars
<1>5. ASSUME NEW e \in Events,
             \/ RefusedWaiting(e) \/ RequestLock(e) \/ AcquireLock(e) \/ BuildRefused(e)
      PROVE  RunInv'
  BY <1>5 DEF RefusedWaiting, RequestLock, AcquireLock, BuildRefused, captureVars, runVars
<1>6. ASSUME NEW e \in Events, RegisterRunner(e) PROVE RunInv'
  BY <1>6 DEF RegisterRunner, captureVars
<1>7. ASSUME NEW e \in Events, ToolResult(e) \/ ToolEndsRun(e) \/ EndHook(e) \/ ErrorAnswer(e)
      PROVE  RunInv'
  BY <1>7 DEF ToolResult, ToolEndsRun, EndHook, ErrorAnswer, ResolveFollowUps,
       PendingFollowUps, runVars
<1>8. ASSUME NEW e \in Events, BeginComplete(e) \/ BeginAbort(e) \/ WatchStop(e)
      PROVE  RunInv'
  BY <1>8 DEF BeginComplete, BeginAbort, WatchStop, captureVars
<1>9. ASSUME NEW e \in Events, SaveAndUnregister(e) \/ Finalize(e) PROVE RunInv'
  BY <1>9 DEF SaveAndUnregister, Finalize, captureVars, runVars
<1>10. CASE UNCHANGED vars
  BY <1>10 DEF vars, captureVars, runVars
<1> QED
  BY <1>1, <1>2, <1>3, <1>4, <1>5, <1>6, <1>7, <1>8, <1>9, <1>10 DEF Next, EndRun, RunFails

\* As long as run_agent never returns without ending its run, a pending ticket
\* always has a run that will resolve it (tool_loop_agent_runner.py:639).
THEOREM TicketsOwned ==
    ASSUME ~RunsMayFail
    PROVE  Spec => []NoOrphanTicket
<1>1. Init => RunInv
  BY DEF Init, RunInv
<1>2. Inv /\ RunInv /\ [Next]_vars => RunInv'
  BY RunStep
<1>3. RunInv => NoOrphanTicket
  BY DEF RunInv, NoOrphanTicket
<1> QED BY <1>1, <1>2, <1>3, Invariance, PTL DEF Spec

----------------------------------------------------------------------------
(* AgentTurn implements FollowUpTurns                                      *)

LEMMA PhaseAtFact ==
    /\ PhaseAt("away") = "away" /\ PhaseAt("done") = "ended"
    /\ PhaseAt("stopping") = "leaving"
    /\ \A l \in {"captured", "turn", "typing", "queued", "locked"} : PhaseAt(l) = "waiting"
    /\ \A l \in InRun : PhaseAt(l) = "running"
    BY DEF PhaseAt, InRun

\* A message that moves from one location to another, with no ticket resolved
LEMMA MoveFact ==
    ASSUME TypeOK, NEW e \in Events, NEW l \in Locations, ticket[e] # "consumed",
           pc' = [pc EXCEPT ![e] = l], ticket' = ticket
    PROVE  /\ Phase' = [Phase EXCEPT ![e] = PhaseAt(l)]
           /\ Phase[e] = PhaseAt(pc[e])
    BY DEF TypeOK, Phase

\* ... within a phase of the abstract specification
LEMMA StutterFact ==
    ASSUME TypeOK, NEW e \in Events, NEW l \in Locations, ticket[e] # "consumed",
           pc' = [pc EXCEPT ![e] = l], ticket' = ticket, PhaseAt(l) = PhaseAt(pc[e])
    PROVE  Phase' = Phase
    BY DEF TypeOK, Phase

\* A message past the gate is first in the line of the unmerged.
LEMMA FirstFact ==
    ASSUME Inv, NEW e \in Events, pc[e] \in PastGate
    PROVE  Turns!IsFirst(e) /\ ticket[e] # "consumed"
<1>1. ticket[e] # "consumed"
  BY DEF Inv, TicketInv, PastGate
<1>2. ASSUME NEW f \in Events, Rank[f] # NoOrder, Rank[e] # NoOrder
      PROVE  Rank[e] <= Rank[f]
  <2>1. Captured(e) /\ Captured(f) /\ ticket[f] # "consumed"
    BY <1>2 DEF Rank, Captured
  <2>2. order[e] = next_turn
    BY <1>1, <2>1 DEF Inv, SlotInv
  <2>3. order[f] \in next_turn..(next_order - 1)
    BY <2>1 DEF Inv, SlotInv, TypeOK
  <2> QED BY <1>1, <2>1, <2>2, <2>3 DEF Rank, Inv, TypeOK
<1> QED BY <1>1, <1>2 DEF Turns!IsFirst, Turns!Line, Turns!NoRank, NoOrder

\* Resolving the pending follow-ups of a run as consumed merges them.
LEMMA MergeFact ==
    ASSUME Inv, NEW e \in Events, pc[e] \in InRun, ResolveFollowUps(e, "consumed"),
           order' = order,
           \/ pc' = pc
           \/ \E l \in InRun : pc' = [pc EXCEPT ![e] = l]
    PROVE  [Turns!Next]_(Turns!vars)
<1> DEFINE S == PendingFollowUps(e)
<1>1. /\ S \subseteq Events
      /\ \A f \in S : pc[f] = "captured" /\ ticket[f] = "pending" /\ Captured(f)
  BY DEF PendingFollowUps, Inv, TicketInv
<1>2. ticket[e] # "consumed"
  BY DEF Inv, TicketInv, InRun
<1>3. /\ \A f \in S : Phase[f] = "waiting" /\ Rank[f] # NoOrder
      /\ Phase[e] = "running"
  BY <1>1, <1>2, PhaseAtFact DEF Phase, Rank, Captured, Inv, TypeOK
<1>4. \A f \in Events : ticket'[f] = IF f \in S THEN "consumed" ELSE ticket[f]
  BY DEF ResolveFollowUps
<1>5. \A f \in Events : pc'[f] = pc[f] \/ (f = e /\ pc'[f] \in InRun)
  BY DEF Inv, TypeOK
<1>6. Phase' = [f \in Events |-> IF f \in S THEN "merged" ELSE Phase[f]]
  BY <1>3, <1>4, <1>5, PhaseAtFact DEF Phase
<1>7. Rank' = [f \in Events |-> IF f \in S THEN NoOrder ELSE Rank[f]]
  BY <1>4 DEF Rank
<1>8. CASE S = {}
  <2>1. Phase' = Phase /\ Rank' = Rank
    BY <1>6, <1>7, <1>8 DEF Phase, Rank
  <2> QED BY <2>1 DEF Turns!vars
<1>9. CASE S # {}
  <2>1. Turns!Merge(S)
    BY <1>3, <1>6, <1>7, <1>9, <1>1
    DEF Turns!Merge, Turns!Running, Turns!Line, Turns!NoRank, NoOrder
  <2> QED BY <2>1, <1>1 DEF Turns!Next
<1> QED BY <1>8, <1>9

\* Each step is one of FollowUpTurns, or changes nothing it shows.
LEMMA StepSimulation == Inv /\ Inv' /\ [Next]_vars => [Turns!Next]_(Turns!vars)
<1> SUFFICES ASSUME Inv, Inv', [Next]_vars PROVE [Turns!Next]_(Turns!vars)
  OBVIOUS
<1> USE DEF Turns!vars, NoOrder, Turns!NoRank
<1>a. TypeOK /\ TicketInv /\ SlotInv /\ LockInv
  BY DEF Inv
<1>b. ticket' = ticket /\ order' = order => Rank' = Rank
  BY DEF Rank
<1>1. CASE RequestStop
  BY <1>1 DEF RequestStop, captureVars, Phase, Rank
<1>2. ASSUME NEW e \in Events, Arrive(e) PROVE [Turns!Next]_(Turns!vars)
  <2>1. ticket[e] # "consumed" /\ pc[e] = "away" /\ pc' = [pc EXCEPT ![e] = "typing"]
        /\ ticket' = ticket /\ order' = order
    BY <1>a, <1>2 DEF TicketInv, Arrive, captureVars
  <2>2. Turns!Arrive(e)
    BY <1>a, <1>b, <2>1, MoveFact, PhaseAtFact DEF Turns!Arrive, Turns!ToPhase, Locations
  <2> QED BY <2>2 DEF Turns!Next
<1>3. ASSUME NEW e \in Events, Capture(e) PROVE [Turns!Next]_(Turns!vars)
  <2>1. /\ pc[e] = "away" /\ ticket[e] = "none" /\ ~Captured(e)
        /\ active \in Events /\ pc[active] \in InRun
    BY <1>a, <1>3 DEF Capture, CanCapture, TicketInv, TypeOK, LockInv
  <2>2. /\ pc' = [pc EXCEPT ![e] = "captured"]
        /\ ticket' = [ticket EXCEPT ![e] = "pending"]
        /\ order' = [order EXCEPT ![e] = next_order]
        /\ next_order \in Nat
    BY <1>a, <1>3 DEF Capture, TypeOK
  <2>3. Phase[e] = "away" /\ Phase' = [Phase EXCEPT ![e] = "waiting"]
    BY <1>a, <2>1, <2>2, PhaseAtFact DEF Phase, TypeOK
  <2>4. Rank' = [Rank EXCEPT ![e] = next_order] /\ Rank'[e] = next_order
    BY <1>a, <2>2 DEF Rank, TypeOK
  <2>5. \A f \in Events : Rank[f] # NoOrder => Rank[f] < next_order
    BY <1>a DEF Rank, SlotInv, Captured, TypeOK
  <2>6. Phase[active] = "running"
    <3>1. ticket[active] # "consumed"
      BY <1>a, <2>1 DEF TicketInv, InRun
    <3> QED BY <2>1, <3>1, PhaseAtFact DEF Phase
  <2>7. Turns!Join(e)
    BY <2>1, <2>2, <2>3, <2>4, <2>5, <2>6
    DEF Turns!Join, Turns!ToPhase, Turns!Running, Turns!Line
  <2> QED BY <2>7 DEF Turns!Next
<1>4. ASSUME NEW e \in Events, Monitor(e) PROVE [Turns!Next]_(Turns!vars)
  BY <1>4 DEF Monitor, captureVars, Phase, Rank
<1>5. ASSUME NEW e \in Events, WakeConsumed(e) PROVE [Turns!Next]_(Turns!vars)
  <2>1. Phase' = Phase /\ Rank' = Rank
    BY <1>a, <1>5 DEF WakeConsumed, Phase, Rank, TypeOK
  <2> QED BY <2>1
<1>6. ASSUME NEW e \in Events,
             \/ WakeReturned(e) \/ TakeTurn(e) \/ RequestLock(e) \/ AcquireLock(e)
             \/ BeginComplete(e) \/ BeginAbort(e) \/ RunFails(e)
      PROVE  [Turns!Next]_(Turns!vars)
  <2>1. ticket[e] # "consumed"
    BY <1>a, <1>6 DEF TicketInv, WakeReturned, TakeTurn, RequestLock, AcquireLock,
         BeginComplete, BeginAbort, RunFails
  <2>2. /\ ticket' = ticket /\ order' = order
        /\ \E l \in Locations : pc' = [pc EXCEPT ![e] = l] /\ PhaseAt(l) = PhaseAt(pc[e])
    BY <1>6, PhaseAtFact DEF WakeReturned, TakeTurn, RequestLock, AcquireLock,
         BeginComplete, BeginAbort, RunFails, captureVars, Locations, InRun
  <2> QED BY <1>a, <1>b, <2>1, <2>2, StutterFact
<1>7. ASSUME NEW e \in Events,
             RefusedWaiting(e) \/ BuildRefused(e) \/ SaveAndUnregister(e)
      PROVE  [Turns!Next]_(Turns!vars)
  <2>1. /\ pc[e] \in PastGate /\ PhaseAt(pc[e]) \in {"waiting", "running"}
        /\ pc' = [pc EXCEPT ![e] = "stopping"] /\ ticket' = ticket /\ order' = order
    BY <1>7, PhaseAtFact
    DEF RefusedWaiting, BuildRefused, SaveAndUnregister, captureVars, PastGate, InRun
  <2>2. Turns!IsFirst(e) /\ ticket[e] # "consumed"
    BY <2>1, FirstFact
  <2>3. Turns!Leave(e)
    BY <1>a, <1>b, <2>1, <2>2, MoveFact, PhaseAtFact
    DEF Turns!Leave, Turns!ToPhase, Locations
  <2> QED BY <2>3 DEF Turns!Next
<1>8. ASSUME NEW e \in Events, RegisterRunner(e) PROVE [Turns!Next]_(Turns!vars)
  <2>1. /\ pc[e] = "locked" /\ pc[e] \in PastGate
        /\ pc' = [pc EXCEPT ![e] = "running"] /\ ticket' = ticket /\ order' = order
    BY <1>8 DEF RegisterRunner, captureVars, PastGate
  <2>2. Turns!IsFirst(e) /\ ticket[e] # "consumed"
    BY <2>1, FirstFact
  <2>3. \A f \in Events : Phase[f] # "running"
    <3>1. \A f \in Events : pc[f] \notin InRun
      BY <1>a, <2>1 DEF LockInv, HoldsLock, InRun
    <3> QED BY <1>a, <3>1 DEF Phase, PhaseAt, TypeOK
  <2>4. Phase' = [Phase EXCEPT ![e] = PhaseAt("running")] /\ Phase[e] = PhaseAt("locked")
    BY <1>a, <2>1, <2>2, MoveFact DEF Locations
  <2>5. PhaseAt("running") = "running" /\ PhaseAt("locked") = "waiting"
    BY PhaseAtFact DEF InRun
  <2>6. Turns!Start(e)
    BY <1>b, <2>1, <2>2, <2>3, <2>4, <2>5 DEF Turns!Start, Turns!ToPhase, Turns!Running
  <2> QED BY <2>6 DEF Turns!Next
<1>9. ASSUME NEW e \in Events, ToolResult(e) \/ ToolEndsRun(e)
      PROVE  [Turns!Next]_(Turns!vars)
  BY <1>9, MergeFact DEF ToolResult, ToolEndsRun, InRun
<1>10. ASSUME NEW e \in Events, EndHook(e) \/ ErrorAnswer(e)
       PROVE  [Turns!Next]_(Turns!vars)
  <2>1. /\ pc[e] \in InRun /\ pc' = [pc EXCEPT ![e] = "saving"] /\ order' = order
        /\ ResolveFollowUps(e, "returned")
    BY <1>10 DEF EndHook, ErrorAnswer, InRun
  <2>2. \A f \in Events : ticket'[f] = "consumed" <=> ticket[f] = "consumed"
    BY <2>1 DEF ResolveFollowUps, PendingFollowUps
  <2>3. Phase' = Phase
    BY <1>a, <2>1, <2>2, PhaseAtFact DEF Phase, TypeOK, InRun
  <2>4. Rank' = Rank
    BY <2>1, <2>2 DEF Rank
  <2> QED BY <2>3, <2>4
<1>11. ASSUME NEW e \in Events, Finalize(e) PROVE [Turns!Next]_(Turns!vars)
  <2>1. /\ pc[e] = "stopping" /\ ticket[e] # "consumed"
        /\ pc' = [pc EXCEPT ![e] = "done"] /\ ticket' = ticket
        /\ order' = [order EXCEPT ![e] = NoOrder]
    BY <1>a, <1>11 DEF Finalize, TicketInv
  <2>2. Rank' = [Rank EXCEPT ![e] = NoOrder]
    BY <1>a, <2>1 DEF Rank, TypeOK
  <2>3. Turns!End(e)
    BY <1>a, <2>1, <2>2, MoveFact, PhaseAtFact DEF Turns!End, Turns!ToPhase, Locations
  <2> QED BY <2>3 DEF Turns!Next
<1>12. ASSUME NEW e \in Events, WatchStop(e) PROVE [Turns!Next]_(Turns!vars)
  BY <1>12 DEF WatchStop, captureVars, Phase, Rank
<1>13. CASE UNCHANGED vars
  BY <1>13 DEF vars, captureVars, Phase, Rank
<1> QED
  BY <1>1, <1>2, <1>3, <1>4, <1>5, <1>6, <1>7, <1>8, <1>9, <1>10, <1>11, <1>12, <1>13
  DEF Next, Wake, EndRun

\* The messages of a session take turns as FollowUpTurns promises: one run at
\* a time, each follow-up merged or answered but never both, and those that
\* are answered in arrival order (internal.py:162, follow_up.py:207).
THEOREM Implements == Spec => TakesTurns
<1>1. Init => Turns!Init
  BY PhaseAtFact DEF Init, Turns!Init, Phase, Rank, NoOrder, Turns!NoRank
<1>2. Inv /\ Inv' /\ [Next]_vars => [Turns!Next]_(Turns!vars)
  BY StepSimulation
<1> QED BY <1>1, <1>2, Invariance, PTL DEF Spec, TakesTurns, Turns!Spec

----------------------------------------------------------------------------
(* The session lock                                                        *)

\* The lock of the session, as one of the locks SessionLock provides.
Session == {"session"}
Fifo == INSTANCE FifoLock WITH
            Tasks <- Events, Keys <- Session, NoTask <- NoEvent,
            holder <- [k \in Session |-> holder], queue <- [k \in Session |-> waiters]

\* A message enters the lock, is granted it, or leaves it as its holder; no other
\* step touches it.
LEMMA LockSimulation == Inv /\ [Next]_vars => [Fifo!Next]_(Fifo!vars)
<1> SUFFICES ASSUME Inv, [Next]_vars PROVE [Fifo!Next]_(Fifo!vars)
  OBVIOUS
<1>1. ASSUME NEW e \in Events, RequestLock(e) PROVE Fifo!Next
  <2>1. Fifo!Enter(e, "session")
    BY <1>1 DEF RequestLock, Fifo!Enter, Session
  <2> QED BY <2>1 DEF Fifo!Next, Session
<1>2. ASSUME NEW e \in Events, AcquireLock(e) PROVE Fifo!Next
  <2>1. Fifo!Grant("session")
    BY <1>2 DEF AcquireLock, Fifo!Grant, Session
  <2> QED BY <2>1 DEF Fifo!Next, Session
<1>3. ASSUME NEW e \in Events, BuildRefused(e) \/ SaveAndUnregister(e) PROVE Fifo!Next
  <2>1. holder = e
    BY <1>3 DEF Inv, LockInv, HoldsLock, InRun, BuildRefused, SaveAndUnregister
  <2>2. Fifo!Exit("session")
    BY <1>3, <2>1 DEF BuildRefused, SaveAndUnregister, ReleaseLock, Fifo!Exit, Session,
         AgentTurnAssumption
  <2> QED BY <2>2 DEF Fifo!Next, Session
<1>4. UNCHANGED lockVars => UNCHANGED Fifo!vars
  BY DEF lockVars, Fifo!vars, Session
<1>5. CASE RequestStop
  BY <1>4, <1>5 DEF RequestStop
<1>6. ASSUME NEW e \in Events,
             \/ Arrive(e) \/ Capture(e) \/ Wake(e) \/ RefusedWaiting(e) \/ Finalize(e)
             \/ WatchStop(e) \/ ToolResult(e) \/ RegisterRunner(e) \/ EndRun(e)
             \/ EndHook(e) \/ RunFails(e)
      PROVE  UNCHANGED lockVars
  BY <1>6 DEF Arrive, Capture, Wake, Monitor, WakeConsumed, WakeReturned, TakeTurn,
       RefusedWaiting, Finalize, WatchStop, ToolResult, RegisterRunner, EndRun,
       ToolEndsRun, BeginComplete, BeginAbort, ErrorAnswer, EndHook, RunFails
<1>7. CASE UNCHANGED vars
  BY <1>4, <1>7 DEF vars
<1> QED BY <1>1, <1>2, <1>3, <1>4, <1>5, <1>6, <1>7 DEF Next

\* AgentTurn takes, hands on and leaves the session lock the way FifoLock says, and
\* SessionLock provides (internal.py:220).
THEOREM TakesLock == Spec => Fifo!Spec
<1>1. Init => Fifo!Init
  BY DEF Init, Fifo!Init, Session
<1> QED BY <1>1, LockSimulation, Invariance, PTL DEF Spec, Fifo!Spec

----------------------------------------------------------------------------
(* Nobody waits for ever on one who waits                                  *)

\* A set of naturals has a least element.
LEMMA LeastFact ==
    ASSUME NEW S \in SUBSET Nat, S # {}
    PROVE  \E x \in S : \A y \in S : x <= y
<1> DEFINE less == {ss \in Nat \X Nat : ss[1] < ss[2]}
<1>1. IsWellFoundedOn(less, Nat)
  BY NatLessThanWellFounded, Zenon DEF OpToRel
<1>2. PICK x \in S : \A y \in S : ~ (<<y, x>> \in less)
  <2> HIDE DEF less
  <2> QED BY <1>1, WFMin
<1>3. ASSUME NEW y \in S PROVE x <= y
  <2>1. x \in Nat /\ y \in Nat
    OBVIOUS
  <2>2. ~ (y < x)
    BY <1>2, <2>1
  <2> QED BY <2>1, <2>2
<1> QED BY <1>3

\* The line of any status map can be advanced to the first slot not handled: no
\* step of AgentTurn is blocked for want of one (_advance_follow_up_turn_locked).
LEMMA Advances ==
    ASSUME TypeOK, NEW st, StatusMap(st)
    PROVE  \E n \in next_turn..next_order : FirstUnhandled(st, n)
<1>0. next_turn \in Nat /\ next_order \in Nat /\ next_turn <= next_order
  BY DEF TypeOK
<1> DEFINE S == {n \in Nat : n >= next_turn /\ ~(n \in DOMAIN st /\ st[n] \in Handled)}
<1>1. next_order \in S
  BY <1>0 DEF StatusMap
<1>2. PICK n \in S : \A m \in S : n <= m
  <2> HIDE DEF S
  <2>1. S # {}
    BY <1>1
  <2>2. S \in SUBSET Nat
    BY DEF S
  <2> QED BY <2>1, <2>2, LeastFact
<1>3. n \in next_turn..next_order
  BY <1>0, <1>1, <1>2
<1>4. \A k \in next_turn..(n - 1) : k \in DOMAIN st /\ st[k] \in Handled
  BY <1>0, <1>2
<1> QED BY <1>2, <1>3, <1>4 DEF FirstUnhandled

\* Who waits for the lock is queued, whoever has it is past it, and a run that
\* goes on has a runner that is not done.
LineInv ==
    /\ holder # NoEvent => pc[holder] \in HoldsLock
    /\ \A e \in Events : pc[e] = "queued" => \E i \in 1..Len(waiters) : waiters[i] = e
    /\ \A i \in 1..Len(waiters) : pc[waiters[i]] = "queued"
    /\ \A i, j \in 1..Len(waiters) : waiters[i] = waiters[j] => i = j
    /\ \A e \in Events : pc[e] = "running" => rstate[e] = "running"

\* The slot whose turn it is is not handled yet.
HeadInv == next_turn \in DOMAIN statuses => statuses[next_turn] \notin Handled

\* A message moves outside of the queue and does not touch the lock.
LEMMA LineMove ==
    ASSUME Inv, LineInv, NEW e \in Events, NEW l \in Locations,
           pc[e] # "queued", pc[e] \in HoldsLock => l \in HoldsLock,
           l \notin {"queued", "running"},
           pc' = [pc EXCEPT ![e] = l], UNCHANGED lockVars,
           \A f \in Events \ {e} : rstate'[f] = rstate[f]
    PROVE  LineInv'
<1>1. waiters \in Seq(Events) /\ pc \in [Events -> Locations] /\ holder \in Events \cup {NoEvent}
  BY DEF Inv, TypeOK
<1>2. \A i \in 1..Len(waiters) : waiters[i] \in Events \ {e}
  BY <1>1 DEF LineInv
<1>3. UNCHANGED <<holder, waiters>>
  BY DEF lockVars
<1> QED BY <1>1, <1>2, <1>3 DEF LineInv

LEMMA LineStep == Inv /\ LineInv /\ [Next]_vars => LineInv'
<1> SUFFICES ASSUME Inv, LineInv, [Next]_vars PROVE LineInv'
  OBVIOUS
<1>0. /\ TypeOK /\ waiters \in Seq(Events) /\ pc \in [Events -> Locations]
      /\ rstate \in [Events -> {"idle", "running", "done"}]
  BY DEF Inv, TypeOK
<1>1. CASE UNCHANGED <<pc, rstate, holder, waiters>>
  BY <1>1 DEF LineInv
<1>2. ASSUME NEW e \in Events,
             \/ Arrive(e) \/ Capture(e) \/ WakeConsumed(e) \/ WakeReturned(e) \/ TakeTurn(e)
             \/ RefusedWaiting(e) \/ Finalize(e)
      PROVE  LineInv'
  <2>1. PICK l \in {"typing", "captured", "done", "turn", "stopping"} :
          pc' = [pc EXCEPT ![e] = l]
    BY <1>2 DEF Arrive, Capture, WakeConsumed, WakeReturned, TakeTurn, RefusedWaiting, Finalize
  <2>2. /\ UNCHANGED lockVars /\ rstate' = rstate
        /\ pc[e] \in {"away", "captured", "turn", "typing", "stopping"}
    BY <1>2 DEF Arrive, Capture, WakeConsumed, WakeReturned, TakeTurn, RefusedWaiting,
         Finalize, runVars
  <2>3. l \in Locations \ {"queued", "running"} /\ pc[e] \notin HoldsLock
    BY <2>2 DEF Locations, HoldsLock, InRun
  <2> QED BY <2>1, <2>2, <2>3, LineMove
<1>3. ASSUME NEW e \in Events,
             EndRun(e) \/ EndHook(e) \/ RunFails(e)
      PROVE  LineInv'
  <2>1. PICK l \in {"saving", "finishing", "aborting"} : pc' = [pc EXCEPT ![e] = l]
    BY <1>3 DEF EndRun, ToolEndsRun, BeginComplete, BeginAbort, ErrorAnswer, EndHook, RunFails
  <2>2. /\ UNCHANGED lockVars /\ \A f \in Events \ {e} : rstate'[f] = rstate[f]
        /\ pc[e] \in {"running", "finishing", "aborting"}
    BY <1>0, <1>3 DEF EndRun, ToolEndsRun, BeginComplete, BeginAbort, ErrorAnswer, EndHook,
         RunFails, runVars
  <2>3. l \in Locations \ {"queued", "running"} /\ l \in HoldsLock /\ l \in InRun
    BY DEF Locations, HoldsLock, InRun
  <2> QED BY <2>1, <2>2, <2>3, LineMove
<1>4. ASSUME NEW e \in Events, RegisterRunner(e) PROVE LineInv'
  <2>1. /\ pc[e] = "locked" /\ pc' = [pc EXCEPT ![e] = "running"]
        /\ rstate' = [rstate EXCEPT ![e] = "running"] /\ UNCHANGED <<holder, waiters>>
    BY <1>4 DEF RegisterRunner, lockVars
  <2> QED BY <1>0, <2>1 DEF LineInv, HoldsLock, InRun
<1>5. ASSUME NEW e \in Events, BuildRefused(e) \/ SaveAndUnregister(e) PROVE LineInv'
  <2>1. /\ pc[e] \in {"locked", "saving"} /\ pc' = [pc EXCEPT ![e] = "stopping"]
        /\ rstate' = rstate /\ holder' = NoEvent /\ waiters' = waiters
    BY <1>5 DEF BuildRefused, SaveAndUnregister, ReleaseLock, runVars
  <2> QED BY <1>0, <2>1 DEF LineInv
<1>6. ASSUME NEW e \in Events, RequestLock(e) PROVE LineInv'
  <2>1. pc[e] = "typing" /\ rstate' = rstate
    BY <1>6 DEF RequestLock, runVars
  <2>2. CASE holder = NoEvent /\ waiters = <<>>
    <3>1. holder' = e /\ pc' = [pc EXCEPT ![e] = "locked"] /\ waiters' = waiters
      BY <1>6, <2>2 DEF RequestLock
    <3>2. \A i \in 1..Len(waiters) : waiters[i] \in Events \ {e}
      BY <1>0, <2>1 DEF LineInv
    <3>3. pc'[holder'] \in HoldsLock
      BY <1>0, <3>1 DEF HoldsLock
    <3>4. \A f \in Events : f # e => pc'[f] = pc[f]
      BY <1>0, <3>1
    <3>5. pc'[e] = "locked"
      BY <1>0, <3>1
    <3> QED BY <1>0, <2>1, <3>1, <3>2, <3>3, <3>4, <3>5 DEF LineInv
  <2>3. CASE ~(holder = NoEvent /\ waiters = <<>>)
    <3>1. /\ waiters' = Append(waiters, e) /\ pc' = [pc EXCEPT ![e] = "queued"]
          /\ holder' = holder
      BY <1>6, <2>3 DEF RequestLock
    <3>2. /\ Len(waiters') = Len(waiters) + 1 /\ Len(waiters) \in Nat
          /\ \A i \in 1..Len(waiters) : waiters'[i] = waiters[i]
          /\ waiters'[Len(waiters) + 1] = e
      BY <1>0, <3>1
    <3>3. \A i \in 1..Len(waiters) : waiters[i] \in Events \ {e}
      BY <1>0, <2>1 DEF LineInv
    <3>4. \A f \in Events : pc'[f] = "queued" =>
             \E i \in 1..Len(waiters') : waiters'[i] = f
      <4> SUFFICES ASSUME NEW f \in Events, pc'[f] = "queued"
                   PROVE  \E i \in 1..Len(waiters') : waiters'[i] = f
        OBVIOUS
      <4>1. CASE f = e
        BY <3>2, <4>1
      <4>2. CASE f # e
        <5>1. PICK i \in 1..Len(waiters) : waiters[i] = f
          BY <1>0, <3>1, <4>2 DEF LineInv
        <5> QED BY <3>2, <5>1
      <4> QED BY <4>1, <4>2
    <3>5. \A i \in 1..Len(waiters') : pc'[waiters'[i]] = "queued"
      BY <1>0, <3>1, <3>2, <3>3 DEF LineInv
    <3>6. \A i, j \in 1..Len(waiters') : waiters'[i] = waiters'[j] => i = j
      BY <3>2, <3>3 DEF LineInv
    <3>7. holder' # NoEvent => pc'[holder'] \in HoldsLock
      BY <1>0, <2>1, <3>1 DEF LineInv, HoldsLock, InRun, TypeOK
    <3>8. \A f \in Events : pc'[f] = "running" => rstate'[f] = "running"
      BY <1>0, <2>1, <3>1 DEF LineInv
    <3> QED BY <3>4, <3>5, <3>6, <3>7, <3>8 DEF LineInv
  <2> QED BY <2>2, <2>3
<1>7. ASSUME NEW e \in Events, AcquireLock(e) PROVE LineInv'
  <2>1. /\ pc[e] = "queued" /\ holder = NoEvent /\ waiters # <<>> /\ Head(waiters) = e
        /\ holder' = e /\ waiters' = Tail(waiters) /\ pc' = [pc EXCEPT ![e] = "locked"]
        /\ rstate' = rstate
    BY <1>7 DEF AcquireLock, runVars
  <2>2. /\ Len(waiters') = Len(waiters) - 1 /\ Len(waiters) \in Nat \ {0} /\ waiters[1] = e
        /\ \A i \in 1..Len(waiters') : waiters'[i] = waiters[i + 1]
    BY <1>0, <2>1
  <2>3. \A i \in 1..Len(waiters') : waiters'[i] \in Events \ {e}
    <3> SUFFICES ASSUME NEW i \in 1..Len(waiters') PROVE waiters'[i] \in Events \ {e}
      OBVIOUS
    <3>1. 1 \in 1..Len(waiters) /\ i + 1 \in 1..Len(waiters) /\ i + 1 # 1
      BY <2>2
    <3>2. waiters[i + 1] # waiters[1] /\ waiters[i + 1] \in Events
      BY <1>0, <3>1 DEF LineInv
    <3> QED BY <2>2, <3>2
  <2>4. \A f \in Events : pc'[f] = "queued" => \E i \in 1..Len(waiters') : waiters'[i] = f
    <3> SUFFICES ASSUME NEW f \in Events, pc'[f] = "queued"
                 PROVE  \E i \in 1..Len(waiters') : waiters'[i] = f
      OBVIOUS
    <3>1. f # e /\ pc[f] = "queued"
      BY <1>0, <2>1
    <3>2. PICK i \in 1..Len(waiters) : waiters[i] = f
      BY <3>1 DEF LineInv
    <3>3. i - 1 \in 1..Len(waiters') /\ waiters'[i - 1] = waiters[(i - 1) + 1]
      BY <2>2, <3>1, <3>2
    <3> QED BY <3>2, <3>3
  <2>5. \A i \in 1..Len(waiters') : pc'[waiters'[i]] = "queued"
    BY <1>0, <2>1, <2>2, <2>3 DEF LineInv
  <2>6. \A i, j \in 1..Len(waiters') : waiters'[i] = waiters'[j] => i = j
    <3> SUFFICES ASSUME NEW i \in 1..Len(waiters'), NEW j \in 1..Len(waiters'),
                        waiters'[i] = waiters'[j]
                 PROVE  i = j
      OBVIOUS
    <3>1. i + 1 \in 1..Len(waiters) /\ j + 1 \in 1..Len(waiters)
      BY <2>2
    <3>2. i + 1 = j + 1
      BY <2>2, <3>1 DEF LineInv
    <3> QED BY <3>2
  <2>7. \A f \in Events : pc'[f] = "running" => rstate'[f] = "running"
    BY <1>0, <2>1 DEF LineInv
  <2>8. pc'[holder'] \in HoldsLock
    BY <1>0, <2>1 DEF HoldsLock
  <2> QED BY <2>4, <2>5, <2>6, <2>7, <2>8 DEF LineInv
<1>8. ASSUME NEW e \in Events, Monitor(e) \/ ToolResult(e) \/ WatchStop(e) PROVE LineInv'
  BY <1>1, <1>8 DEF Monitor, ToolResult, WatchStop, runVars, lockVars
<1>9. CASE RequestStop \/ UNCHANGED vars
  BY <1>1, <1>9 DEF RequestStop, vars, runVars, lockVars
<1> QED BY <1>2, <1>3, <1>4, <1>5, <1>6, <1>7, <1>8, <1>9 DEF Next, Wake

\* Settling a slot leaves the turn with a slot that is not handled.
LEMMA SettleHead ==
    ASSUME Inv, HeadInv, NEW e \in Events, Captured(e),
           \/ ticket[e] = "consumed" /\ MarkConsumed(order[e])
           \/ pc[e] \in PastGate /\ FinishTurn(order[e])
    PROVE  HeadInv'
<1>1. CASE ~OrderStateExists
  BY <1>1 DEF MarkConsumed, FinishTurn, orderVars, HeadInv
<1>2. ASSUME NEW st, AdvanceAndRelease(st) PROVE HeadInv'
  <2>1. PICK n \in next_turn..next_order :
          /\ FirstUnhandled(st, n)
          /\ LET rest == DOMAIN st \ (next_turn..(n - 1)) IN
             IF rest = {} /\ active = NoEvent
             THEN statuses' = EmptyMap /\ next_order' = 0 /\ next_turn' = 0
             ELSE /\ statuses' = [k \in rest |-> st[k]]
                  /\ next_turn' = n
                  /\ UNCHANGED next_order
    BY <1>2 DEF AdvanceAndRelease
  <2> DEFINE rest == DOMAIN st \ (next_turn..(n - 1))
  <2>2. CASE rest = {} /\ active = NoEvent
    BY <2>1, <2>2 DEF HeadInv, EmptyMap
  <2>3. CASE ~(rest = {} /\ active = NoEvent)
    <3>1. statuses' = [k \in rest |-> st[k]] /\ next_turn' = n
      BY <2>1, <2>3
    <3>2. ~(n \in DOMAIN st /\ st[n] \in Handled)
      BY <2>1 DEF FirstUnhandled
    <3> QED BY <3>1, <3>2 DEF HeadInv
  <2> QED BY <2>2, <2>3
<1> QED BY <1>1, <1>2 DEF MarkConsumed, FinishTurn

LEMMA HeadStep == Inv /\ HeadInv /\ [Next]_vars => HeadInv'
<1> SUFFICES ASSUME Inv, HeadInv, [Next]_vars PROVE HeadInv'
  OBVIOUS
<1>0. TypeOK
  BY DEF Inv
<1>1. CASE UNCHANGED orderVars
  BY <1>1 DEF HeadInv, orderVars
<1>2. ASSUME NEW e \in Events, Capture(e) PROVE HeadInv'
  <2>1. /\ next_turn' = next_turn /\ DOMAIN statuses' = DOMAIN statuses \cup {next_order}
        /\ \A k \in DOMAIN statuses' :
              statuses'[k] = IF k = next_order THEN "pending" ELSE statuses[k]
    BY <1>2 DEF Capture
  <2> QED BY <2>1 DEF HeadInv, Handled
<1>3. ASSUME NEW e \in Events, Settles(e) PROVE HeadInv'
  <2>1. CASE order[e] = NoOrder
    <3>1. UNCHANGED orderVars
      BY <1>3, <2>1 DEF Inv, Settles, Monitor, WakeConsumed, Finalize, TicketInv, Captured
    <3> QED BY <1>1, <3>1
  <2>2. CASE order[e] # NoOrder
    BY <1>3, <2>2, SettlesOne, SettleHead
  <2> QED BY <2>1, <2>2
<1>4. ASSUME NEW e \in Events, WakeReturned(e) PROVE HeadInv'
  <2>1. order[e] \in Int /\ "active" \in Statuses
    BY <1>0 DEF TypeOK, NoOrder, Statuses
  <2>2. /\ DOMAIN SetStatus(order[e], "active") = DOMAIN statuses
        /\ \A k \in DOMAIN statuses :
              SetStatus(order[e], "active")[k] \in {statuses[k], "active"}
    BY <1>0, <2>1, SetStatusFact DEF StatusMap, TypeOK
  <2> QED BY <1>4, <2>2 DEF WakeReturned, HeadInv, Handled
<1>5. ASSUME NEW e \in Events,
             \/ Arrive(e) \/ TakeTurn(e) \/ RefusedWaiting(e) \/ RequestLock(e)
             \/ AcquireLock(e) \/ BuildRefused(e) \/ RegisterRunner(e) \/ ToolResult(e)
             \/ EndRun(e) \/ EndHook(e) \/ RunFails(e) \/ SaveAndUnregister(e)
             \/ WatchStop(e)
      PROVE  HeadInv'
  BY <1>1, <1>5 DEF Arrive, TakeTurn, RefusedWaiting, RequestLock, AcquireLock, BuildRefused,
       RegisterRunner, ToolResult, EndRun, ToolEndsRun, BeginComplete, BeginAbort,
       ErrorAnswer, EndHook, RunFails, SaveAndUnregister, WatchStop
<1>6. CASE RequestStop \/ UNCHANGED vars
  BY <1>1, <1>6 DEF RequestStop, vars
<1> QED BY <1>2, <1>3, <1>4, <1>5, <1>6 DEF Next, Wake, Settles

\* What the message does next is not up to another one. (A message that has the lock
\* could also be refused; here it is to get its run.)
CanGoOn(e) ==
    \/ pc[e] \in {"typing", "finishing", "aborting", "saving", "stopping"}
    \/ pc[e] = "captured" /\ ticket[e] # "pending"
    \/ pc[e] = "turn" /\ next_turn = order[e]
    \/ pc[e] = "queued" /\ holder = NoEvent /\ waiters # <<>> /\ Head(waiters) = e
    \/ pc[e] = "locked" /\ \A f \in Events : pc[f] = "captured" => ticket[f] = "pending"
    \/ pc[e] = "running" /\ rstate[e] = "running"

\* A message past the capture and the line goes on, or somebody does it waits for.
LEMMA PastLine ==
    ASSUME Inv, LineInv, NEW e \in Events, pc[e] \in PastGate
    PROVE  \E f \in Events : CanGoOn(f)
<1>0. TypeOK
  BY DEF Inv
<1>1. ASSUME NEW f \in Events, pc[f] \in HoldsLock
      PROVE  \E g \in Events : CanGoOn(g)
  <2>1. CASE pc[f] = "locked"
    BY <2>1 DEF CanGoOn
  <2>2. CASE pc[f] \in InRun
    BY <2>2 DEF CanGoOn, LineInv, InRun
  <2> QED BY <1>1, <2>1, <2>2 DEF HoldsLock
<1>2. CASE pc[e] = "queued"
  <2>1. CASE holder = NoEvent
    <3>1. waiters \in Seq(Events)
      BY <1>0 DEF TypeOK
    <3>2. PICK i \in 1..Len(waiters) : waiters[i] = e
      BY <1>2 DEF LineInv
    <3>3. waiters # <<>> /\ Head(waiters) = waiters[1] /\ 1 \in 1..Len(waiters)
      BY <3>1, <3>2
    <3>4. waiters[1] \in Events /\ pc[waiters[1]] = "queued"
      BY <3>1, <3>3 DEF LineInv
    <3> QED BY <2>1, <3>3, <3>4 DEF CanGoOn
  <2>2. CASE holder # NoEvent
    <3>1. holder \in Events /\ pc[holder] \in HoldsLock
      BY <1>0, <2>2 DEF TypeOK, LineInv
    <3> QED BY <1>1, <3>1
  <2> QED BY <2>1, <2>2
<1>3. CASE pc[e] \in HoldsLock
  BY <1>1, <1>3
<1>4. CASE pc[e] \in {"typing", "stopping"}
  BY <1>4 DEF CanGoOn
<1> QED BY <1>2, <1>3, <1>4 DEF PastGate, HoldsLock, InRun

\* However many messages wait for a verdict on their ticket, for their turn and for
\* the session lock, one of them can go on as long as one has not ended, if runs end
\* properly (follow_up.py:130, internal.py:220).
THEOREM NeverStuck ==
    ASSUME ~RunsMayFail
    PROVE  Spec => []((\E e \in Events : pc[e] \notin {"away", "done"}) =>
                        \E e \in Events : CanGoOn(e))
<1>1. Init => LineInv /\ HeadInv /\ OwnerInv /\ RunInv
  <2>1. Init => Len(waiters) = 0 /\ statuses = EmptyMap
    BY DEF Init
  <2> QED BY <2>1 DEF Init, LineInv, HeadInv, OwnerInv, RunInv, EmptyMap
<1>2. /\ Inv /\ LineInv /\ [Next]_vars => LineInv'
      /\ Inv /\ HeadInv /\ [Next]_vars => HeadInv'
      /\ Inv /\ OwnerInv /\ [Next]_vars => OwnerInv'
      /\ Inv /\ RunInv /\ [Next]_vars => RunInv'
  BY LineStep, HeadStep, OwnerStep, RunStep
<1>3. ASSUME Inv, LineInv, HeadInv, OwnerInv, RunInv,
             NEW e \in Events, pc[e] \notin {"away", "done"}
      PROVE  \E f \in Events : CanGoOn(f)
  <2>0. TypeOK
    BY <1>3 DEF Inv
  <2>1. ASSUME NEW f \in Events, pc[f] = "captured" PROVE \E g \in Events : CanGoOn(g)
    <3>1. CASE ticket[f] # "pending"
      BY <2>1, <3>1 DEF CanGoOn
    <3>2. CASE ticket[f] = "pending"
      <4>1. target[f] \in Events /\ pc[target[f]] \in {"running", "finishing", "aborting"}
        BY <1>3, <3>2 DEF RunInv
      <4> QED BY <1>3, <4>1 DEF CanGoOn, LineInv
    <3> QED BY <3>1, <3>2
  <2>2. ASSUME pc[e] = "turn" PROVE \E f \in Events : CanGoOn(f)
    <3>1. ticket[e] # "consumed" /\ Captured(e)
      BY <1>3, <2>2 DEF Inv, TicketInv
    <3>2. order[e] \in next_turn..(next_order - 1)
      BY <1>3, <2>0, <3>1 DEF Inv, SlotInv, TypeOK
    <3>3. next_turn \in next_turn..(next_order - 1) /\ next_turn \in Nat
      BY <2>0, <3>2 DEF TypeOK
    <3>4. next_turn \in DOMAIN statuses
      BY <2>0, <3>3 DEF TypeOK
    <3>5. PICK f \in Events : order[f] = next_turn
      BY <1>3, <3>4 DEF HeadInv, OwnerInv
    <3>6. Captured(f)
      BY <3>3, <3>5 DEF Captured, NoOrder
    <3>7. pc[f] \notin {"away", "done"} /\ pc[f] \in Locations
      BY <1>3, <2>0, <3>6 DEF Inv, TicketInv, TypeOK
    <3>8. CASE pc[f] = "captured"
      BY <2>1, <3>8
    <3>9. CASE pc[f] = "turn"
      BY <3>5, <3>9 DEF CanGoOn
    <3>10. CASE pc[f] \in PastGate
      BY <1>3, <3>10, PastLine
    <3> QED BY <3>7, <3>8, <3>9, <3>10 DEF Locations, PastGate
  <2>3. CASE pc[e] \in PastGate
    BY <1>3, <2>3, PastLine
  <2>4. pc[e] \in Locations
    BY <2>0 DEF TypeOK
  <2> QED BY <1>3, <2>1, <2>2, <2>3, <2>4 DEF Locations, PastGate
<1>4. Inv /\ LineInv /\ HeadInv /\ OwnerInv /\ RunInv =>
        ((\E e \in Events : pc[e] \notin {"away", "done"}) => \E e \in Events : CanGoOn(e))
  BY <1>3
<1> QED BY <1>1, <1>2, <1>4, Invariance, PTL DEF Spec

----------------------------------------------------------------------------
(* ToolLoop, the run that a registered message does, for every number of   *)
(* steps, calls, results, fallback models, attempts and turns. A history   *)
(* is good if each result follows its call with only other results in      *)
(* between, each call but the silent ones has a result there, and no call  *)
(* is made twice. All that is done to a history leaves it good, and from a *)
(* good one _sanitize_assistant_messages makes one with one result for     *)
(* each call.                                                              *)

HIDE AgentTurnAssumption

\* What messages may be in a history: only an assistant calls tools.
Msgs(C) ==
    {m \in [role : {"system", "user", "assistant", "tool"}, calls : SUBSET C, id : Nat] :
        m.calls # {} => m.role = "assistant"}

\* From i to k there are only results.
Follows(ms, i, k) == i < k /\ \A l \in i + 1..k : ms[l].role = "tool"

\* Results that directly follow calls are theirs,
Linked(ms) ==
    \A i, k \in 1..Len(ms) :
        Follows(ms, i, k) /\ ms[i].calls # {} => ms[k].id \in ms[i].calls

\* every call but the silent ones has a result that does,
Answered(ms, S) ==
    \A i \in 1..Len(ms) : \A c \in ms[i].calls \ S :
        \E k \in 1..Len(ms) : Follows(ms, i, k) /\ ms[k] = Tool(c)

\* and no call is made twice.
Distinct(ms) == \A i, j \in 1..Len(ms) : i # j => ms[i].calls \cap ms[j].calls = {}

Fit(ms, C, S) == ms \in Seq(Msgs(C)) /\ Linked(ms) /\ Answered(ms, S) /\ Distinct(ms)
Good(ms, C, S) == Fit(ms, C, S) /\ NoOrphanIn(ms)

Plain(ms) == \A i \in 1..Len(ms) : ms[i].role # "tool" /\ ms[i].calls = {}

\* In a history without orphans every result is of the call it follows.
LEMMA LinkedFact ==
    ASSUME NEW C, NEW ms \in Seq(Msgs(C)), NoOrphanIn(ms)
    PROVE  Linked(ms)
<1> SUFFICES ASSUME NEW i \in 1..Len(ms), NEW k \in 1..Len(ms), Follows(ms, i, k),
                    ms[i].calls # {}
             PROVE  ms[k].id \in ms[i].calls
  BY DEF Linked
<1>1. i < k /\ (\A l \in i + 1..k : ms[l].role = "tool") /\ ms[i].role = "assistant"
  BY DEF Follows, Msgs
<1>2. k \in DOMAIN ms /\ ms[k].role = "tool"
  BY <1>1
<1>3. PICK j \in 1..k - 1 : /\ ms[k].id \in ms[j].calls
                            /\ \A l \in j + 1..k - 1 : ms[l].role = "tool"
  BY <1>2 DEF NoOrphanIn, AnswersCall
<1>4. ms[j].role = "assistant"
  BY <1>3 DEF Msgs
<1>5. ~ (j < i)
  <2> SUFFICES ASSUME j < i PROVE FALSE
    OBVIOUS
  <2>1. i \in j + 1..k - 1
    BY <1>1
  <2> QED BY <1>1, <1>3, <2>1
<1>6. ~ (i < j)
  BY <1>1, <1>3, <1>4
<1>7. i = j
  BY <1>5, <1>6
<1> QED BY <1>3, <1>7

\* Without calls and results there is nothing to separate.
LEMMA PlainFact ==
    ASSUME NEW C, NEW S, NEW ms \in Seq(Msgs(C)), Plain(ms)
    PROVE  Good(ms, C, S)
BY DEF Good, Fit, Plain, Linked, Answered, Distinct, NoOrphanIn

\* Whatever is cut off at the front,
LEMMA DropFact ==
    ASSUME NEW M, NEW ms \in Seq(M), NEW d \in 0..Len(ms)
    PROVE  /\ DropFirst(ms, d) \in Seq(M) /\ Len(DropFirst(ms, d)) = Len(ms) - d
           /\ \A i \in 1..Len(ms) - d : DropFirst(ms, d)[i] = ms[d + i]
BY DEF DropFirst

\* the rest is fit,
LEMMA DropFit ==
    ASSUME NEW C, NEW S, NEW ms, Fit(ms, C, S), NEW d \in 0..Len(ms)
    PROVE  Fit(DropFirst(ms, d), C, S)
<1> DEFINE r == DropFirst(ms, d)
<1>0. ms \in Seq(Msgs(C))
  BY DEF Fit
<1>a. /\ r \in Seq(Msgs(C)) /\ Len(r) = Len(ms) - d
      /\ \A i \in 1..Len(ms) - d : r[i] = ms[d + i]
  BY <1>0, DropFact
<1>1. /\ r \in Seq(Msgs(C)) /\ Len(r) = Len(ms) - d /\ Len(ms) \in Nat /\ Len(r) \in Nat
      /\ \A i \in 1..Len(r) : d + i \in 1..Len(ms) /\ r[i] = ms[d + i]
  <2> HIDE DEF r
  <2> QED BY <1>0, <1>a
<1> HIDE DEF r
<1>2. ASSUME NEW i \in 1..Len(r), NEW k \in 1..Len(r)
      PROVE  Follows(r, i, k) <=> Follows(ms, d + i, d + k)
  <2>1. ASSUME Follows(r, i, k) PROVE Follows(ms, d + i, d + k)
    <3>1. d + i < d + k
      BY <2>1 DEF Follows
    <3>2. ASSUME NEW l \in (d + i) + 1..d + k PROVE ms[l].role = "tool"
      <4>1. l - d \in i + 1..k /\ l - d \in 1..Len(r) /\ d + (l - d) = l
        BY <1>1
      <4>2. r[l - d].role = "tool" /\ r[l - d] = ms[d + (l - d)]
        BY <1>1, <2>1, <4>1 DEF Follows
      <4> QED BY <4>1, <4>2
    <3> QED BY <3>1, <3>2 DEF Follows
  <2>2. ASSUME Follows(ms, d + i, d + k) PROVE Follows(r, i, k)
    <3>1. i < k
      BY <2>2 DEF Follows
    <3>2. ASSUME NEW l \in i + 1..k PROVE r[l].role = "tool"
      <4>1. d + l \in (d + i) + 1..d + k /\ l \in 1..Len(r)
        BY <1>1
      <4> QED BY <1>1, <2>2, <4>1 DEF Follows
    <3> QED BY <3>1, <3>2 DEF Follows
  <2> QED BY <2>1, <2>2
<1>3. Linked(r)
  <2> SUFFICES ASSUME NEW i \in 1..Len(r), NEW k \in 1..Len(r), Follows(r, i, k),
                      r[i].calls # {}
               PROVE  r[k].id \in r[i].calls
    BY DEF Linked
  <2>1. Follows(ms, d + i, d + k) /\ d + i \in 1..Len(ms) /\ d + k \in 1..Len(ms)
        /\ r[i] = ms[d + i] /\ r[k] = ms[d + k]
    BY <1>1, <1>2
  <2> QED BY <2>1 DEF Fit, Linked
<1>4. Answered(r, S)
  <2> SUFFICES ASSUME NEW i \in 1..Len(r), NEW c \in r[i].calls \ S
               PROVE  \E k \in 1..Len(r) : Follows(r, i, k) /\ r[k] = Tool(c)
    BY DEF Answered
  <2>1. d + i \in 1..Len(ms) /\ r[i] = ms[d + i]
    BY <1>1
  <2>2. PICK k \in 1..Len(ms) : Follows(ms, d + i, k) /\ ms[k] = Tool(c)
    BY <2>1 DEF Fit, Answered
  <2>3. d + i < k
    BY <2>2 DEF Follows
  <2>4. k - d \in 1..Len(r) /\ d + (k - d) = k
    BY <1>1, <2>3
  <2> QED BY <1>1, <1>2, <2>2, <2>4
<1>5. Distinct(r)
  <2> SUFFICES ASSUME NEW i \in 1..Len(r), NEW j \in 1..Len(r), i # j
               PROVE  r[i].calls \cap r[j].calls = {}
    BY DEF Distinct
  <2>1. /\ d + i \in 1..Len(ms) /\ r[i] = ms[d + i]
        /\ d + j \in 1..Len(ms) /\ r[j] = ms[d + j] /\ d + i # d + j
    BY <1>1
  <2> QED BY <2>1 DEF Fit, Distinct
<1> QED BY <1>1, <1>3, <1>4, <1>5 DEF Fit, r

\* and good if it does not begin with a result.
LEMMA DropGood ==
    ASSUME NEW C, NEW S, NEW ms, Good(ms, C, S), NEW d \in 0..Len(ms),
           d = 0 \/ d = Len(ms) \/ ms[d + 1].role # "tool"
    PROVE  Good(DropFirst(ms, d), C, S)
<1> DEFINE r == DropFirst(ms, d)
<1>0. ms \in Seq(Msgs(C))
  BY DEF Good, Fit
<1>a. /\ r \in Seq(Msgs(C)) /\ Len(r) = Len(ms) - d
      /\ \A i \in 1..Len(ms) - d : r[i] = ms[d + i]
  BY <1>0, DropFact
<1>1. /\ r \in Seq(Msgs(C)) /\ Len(r) = Len(ms) - d /\ Len(ms) \in Nat /\ Len(r) \in Nat
      /\ \A i \in 1..Len(r) : d + i \in 1..Len(ms) /\ r[i] = ms[d + i]
  <2> HIDE DEF r
  <2> QED BY <1>0, <1>a
<1>2. Fit(r, C, S)
  BY DropFit DEF Good
<1> HIDE DEF r
<1>3. ASSUME NEW i \in 1..Len(r), r[i].role = "tool" PROVE AnswersCall(r, i)
  <2>1. d + i \in DOMAIN ms /\ ms[d + i].role = "tool" /\ r[i] = ms[d + i]
    BY <1>0, <1>1, <1>3
  <2>2. PICK j \in 1..(d + i) - 1 : /\ ms[d + i].id \in ms[j].calls
                                   /\ \A l \in j + 1..(d + i) - 1 : ms[l].role = "tool"
    BY <2>1 DEF Good, NoOrphanIn, AnswersCall
  <2>3. d < j
    <3> SUFFICES ASSUME j <= d PROVE FALSE
      OBVIOUS
    <3>1. d # 0 /\ d # Len(ms) /\ d + 1 \in 1..Len(ms) /\ ms[d + 1].role # "tool"
      BY <1>1
    <3>2. CASE i = 1
      BY <2>1, <3>1, <3>2
    <3>3. CASE i # 1
      <4>1. d + 1 \in j + 1..(d + i) - 1
        BY <3>3
      <4> QED BY <2>2, <3>1, <4>1
    <3> QED BY <3>2, <3>3
  <2>4. j - d \in 1..i - 1 /\ d + (j - d) = j /\ j - d \in 1..Len(r)
    BY <1>1, <2>3
  <2>5. ASSUME NEW l \in (j - d) + 1..i - 1 PROVE r[l].role = "tool"
    <3>1. d + l \in j + 1..(d + i) - 1 /\ l \in 1..Len(r)
      BY <1>1, <2>4
    <3> QED BY <1>1, <2>2, <3>1
  <2>6. r[j - d] = ms[j]
    BY <1>1, <2>4
  <2> QED BY <2>1, <2>2, <2>4, <2>5, <2>6 DEF AnswersCall
<1>4. NoOrphanIn(r)
  BY <1>1, <1>3 DEF NoOrphanIn
<1> QED BY <1>2, <1>4 DEF Good, r

\* One list after another.
LEMMA JoinFact ==
    ASSUME NEW M, NEW a \in Seq(M), NEW b \in Seq(M)
    PROVE  /\ a \o b \in Seq(M) /\ Len(a \o b) = Len(a) + Len(b)
           /\ \A i \in 1..Len(a) : (a \o b)[i] = a[i]
           /\ \A i \in 1..Len(b) : (a \o b)[Len(a) + i] = b[i]
           /\ \A k \in 1..Len(a \o b) :
                k \in 1..Len(a) \/ (k > Len(a) /\ k - Len(a) \in 1..Len(b))
<1>1. /\ a \o b \in Seq(M) /\ Len(a \o b) = Len(a) + Len(b)
      /\ \A i \in 1..Len(a) + Len(b) :
            (a \o b)[i] = IF i <= Len(a) THEN a[i] ELSE b[i - Len(a)]
  BY ConcatProperties
<1>2. Len(a) \in Nat /\ Len(b) \in Nat
  OBVIOUS
<1>3. ASSUME NEW i \in 1..Len(a) PROVE (a \o b)[i] = a[i]
  BY <1>1, <1>2
<1>4. ASSUME NEW i \in 1..Len(b) PROVE (a \o b)[Len(a) + i] = b[i]
  <2>1. /\ Len(a) + i \in 1..Len(a) + Len(b) /\ ~ (Len(a) + i <= Len(a))
        /\ (Len(a) + i) - Len(a) = i
    BY <1>2
  <2> QED BY <1>1, <2>1
<1> QED BY <1>1, <1>2, <1>3, <1>4

\* One list after another, where no result comes after the calls of the first.
LEMMA JoinFit ==
    ASSUME NEW C, NEW S, NEW a, NEW b, Fit(a, C, S), Fit(b, C, S),
           \A i \in 1..Len(a), j \in 1..Len(b) : a[i].calls \cap b[j].calls = {},
           Plain(a) \/ b = <<>> \/ b[1].role # "tool"
    PROVE  Fit(a \o b, C, S)
<1> DEFINE r == a \o b
           n == Len(a)
<1>0. a \in Seq(Msgs(C)) /\ b \in Seq(Msgs(C)) /\ n \in Nat /\ Len(b) \in Nat
  BY DEF Fit
<1>1. /\ r \in Seq(Msgs(C)) /\ Len(r) = n + Len(b)
      /\ \A i \in 1..n : r[i] = a[i]
      /\ \A i \in 1..Len(b) : r[n + i] = b[i]
      /\ \A k \in 1..Len(r) : k \in 1..n \/ (k > n /\ k - n \in 1..Len(b))
  BY <1>0, JoinFact
<1> HIDE DEF r, n
<1>2. ASSUME NEW i \in 1..n, NEW k \in 1..n PROVE Follows(r, i, k) <=> Follows(a, i, k)
  <2>1. \A l \in i + 1..k : l \in 1..n
    BY <1>0
  <2> QED BY <1>1, <2>1 DEF Follows
<1>3. ASSUME NEW i \in 1..Len(b), NEW k \in 1..Len(b)
      PROVE  Follows(r, n + i, n + k) <=> Follows(b, i, k)
  <2>1. ASSUME Follows(r, n + i, n + k) PROVE Follows(b, i, k)
    <3>1. ASSUME NEW l \in i + 1..k PROVE b[l].role = "tool"
      <4>1. n + l \in (n + i) + 1..n + k /\ l \in 1..Len(b)
        BY <1>0
      <4> QED BY <1>1, <2>1, <4>1 DEF Follows
    <3> QED BY <1>0, <2>1, <3>1 DEF Follows
  <2>2. ASSUME Follows(b, i, k) PROVE Follows(r, n + i, n + k)
    <3>1. ASSUME NEW l \in (n + i) + 1..n + k PROVE r[l].role = "tool"
      <4>1. l - n \in i + 1..k /\ l - n \in 1..Len(b) /\ n + (l - n) = l
        BY <1>0
      <4>2. r[n + (l - n)] = b[l - n] /\ b[l - n].role = "tool"
        BY <1>1, <2>2, <4>1 DEF Follows
      <4> QED BY <4>1, <4>2
    <3> QED BY <1>0, <2>2, <3>1 DEF Follows
  <2> QED BY <2>1, <2>2
<1>4. Linked(r)
  <2> SUFFICES ASSUME NEW i \in 1..Len(r), NEW k \in 1..Len(r), Follows(r, i, k),
                      r[i].calls # {}
               PROVE  r[k].id \in r[i].calls
    BY DEF Linked
  <2>1. CASE i \in 1..n /\ k \in 1..n
    BY <1>1, <1>2, <2>1 DEF Fit, Linked, n
  <2>2. CASE i > n /\ i - n \in 1..Len(b)
    <3>1. k > n /\ k - n \in 1..Len(b) /\ n + (k - n) = k /\ n + (i - n) = i
      BY <1>0, <1>1, <2>2 DEF Follows
    <3>2. Follows(b, i - n, k - n) /\ r[i] = b[i - n] /\ r[k] = b[k - n]
      BY <1>1, <1>3, <2>2, <3>1
    <3> QED BY <2>2, <3>1, <3>2 DEF Fit, Linked
  <2>3. CASE i \in 1..n /\ k > n /\ k - n \in 1..Len(b)
    <3>1. ~ Plain(a)
      BY <1>1, <2>3 DEF Plain, n
    <3>2. n + 1 \in i + 1..k /\ 1 \in 1..Len(b)
      BY <1>0, <2>3
    <3>3. b[1].role = "tool" /\ b # <<>>
      BY <1>1, <3>2 DEF Follows
    <3> QED BY <3>1, <3>3
  <2> QED BY <1>1, <2>1, <2>2, <2>3
<1>5. Answered(r, S)
  <2> SUFFICES ASSUME NEW i \in 1..Len(r), NEW c \in r[i].calls \ S
               PROVE  \E k \in 1..Len(r) : Follows(r, i, k) /\ r[k] = Tool(c)
    BY DEF Answered
  <2>1. CASE i \in 1..n
    <3>1. PICK k \in 1..n : Follows(a, i, k) /\ a[k] = Tool(c)
      BY <1>1, <2>1 DEF Fit, Answered, n
    <3>2. k \in 1..Len(r)
      BY <1>0, <1>1
    <3> QED BY <1>1, <1>2, <2>1, <3>1, <3>2
  <2>2. CASE i > n /\ i - n \in 1..Len(b)
    <3>0. n + (i - n) = i
      BY <1>0
    <3>1. PICK k \in 1..Len(b) : Follows(b, i - n, k) /\ b[k] = Tool(c)
      BY <1>1, <2>2, <3>0 DEF Fit, Answered
    <3>2. n + k \in 1..Len(r)
      BY <1>0, <1>1
    <3>3. Follows(r, n + (i - n), n + k) /\ r[n + k] = b[k]
      BY <1>1, <1>3, <2>2, <3>1
    <3> QED BY <3>0, <3>1, <3>2, <3>3
  <2> QED BY <1>1, <2>1, <2>2
<1>6. Distinct(r)
  <2> SUFFICES ASSUME NEW i \in 1..Len(r), NEW j \in 1..Len(r), i # j
               PROVE  r[i].calls \cap r[j].calls = {}
    BY DEF Distinct
  <2>0. /\ \A x \in 1..n, y \in 1..Len(b) : a[x].calls \cap b[y].calls = {}
        /\ \A x, y \in 1..n : x # y => a[x].calls \cap a[y].calls = {}
        /\ \A x, y \in 1..Len(b) : x # y => b[x].calls \cap b[y].calls = {}
    BY DEF Fit, Distinct, n
  <2>1. \A k \in 1..Len(r) : k > n => n + (k - n) = k
    BY <1>0
  <2>2. CASE i \in 1..n /\ j \in 1..n
    BY <1>1, <2>0, <2>2
  <2>3. CASE i \in 1..n /\ j > n /\ j - n \in 1..Len(b)
    <3>1. r[i] = a[i] /\ r[j] = b[j - n]
      BY <1>1, <2>1, <2>3
    <3> QED BY <2>0, <2>3, <3>1
  <2>4. CASE j \in 1..n /\ i > n /\ i - n \in 1..Len(b)
    <3>1. r[j] = a[j] /\ r[i] = b[i - n]
      BY <1>1, <2>1, <2>4
    <3>2. a[j].calls \cap b[i - n].calls = {}
      BY <2>0, <2>4
    <3> QED BY <3>1, <3>2
  <2>5. CASE i > n /\ i - n \in 1..Len(b) /\ j > n /\ j - n \in 1..Len(b)
    <3>1. r[i] = b[i - n] /\ r[j] = b[j - n] /\ i - n # j - n
      BY <1>1, <2>1, <2>5, <1>0
    <3> QED BY <2>0, <2>5, <3>1
  <2> QED BY <1>1, <2>2, <2>3, <2>4, <2>5
<1> QED BY <1>1, <1>4, <1>5, <1>6 DEF Fit, r

\* A result needs a message before it.
LEMMA FirstIsNoResult ==
    ASSUME NEW C, NEW b \in Seq(Msgs(C)), NoOrphanIn(b), b # <<>>
    PROVE  b[1].role # "tool"
<1>1. 1 \in DOMAIN b
  OBVIOUS
<1> QED BY <1>1 DEF NoOrphanIn, AnswersCall

\* Good histories with different calls make a good history.
LEMMA JoinGood ==
    ASSUME NEW C, NEW S, NEW a, NEW b, Good(a, C, S), Good(b, C, S),
           \A i \in 1..Len(a), j \in 1..Len(b) : a[i].calls \cap b[j].calls = {}
    PROVE  Good(a \o b, C, S)
<1> DEFINE r == a \o b
           n == Len(a)
<1>0. a \in Seq(Msgs(C)) /\ b \in Seq(Msgs(C)) /\ n \in Nat /\ Len(b) \in Nat
  BY DEF Good, Fit
<1>1. /\ r \in Seq(Msgs(C)) /\ Len(r) = n + Len(b)
      /\ \A i \in 1..n : r[i] = a[i]
      /\ \A i \in 1..Len(b) : r[n + i] = b[i]
      /\ \A k \in 1..Len(r) : k \in 1..n \/ (k > n /\ k - n \in 1..Len(b))
  BY <1>0, JoinFact
<1>2. Fit(r, C, S)
  <2>1. b = <<>> \/ b[1].role # "tool"
    BY <1>0, FirstIsNoResult DEF Good
  <2> QED BY <2>1, JoinFit DEF Good
<1> HIDE DEF r, n
<1>3. ASSUME NEW i \in 1..Len(r), r[i].role = "tool" PROVE AnswersCall(r, i)
  <2>1. CASE i \in 1..n
    <3>1. i \in DOMAIN a /\ a[i].role = "tool" /\ r[i] = a[i]
      BY <1>0, <1>1, <1>3, <2>1 DEF n
    <3>2. PICK j \in 1..i - 1 : /\ a[i].id \in a[j].calls
                                /\ \A l \in j + 1..i - 1 : a[l].role = "tool"
      BY <3>1 DEF Good, NoOrphanIn, AnswersCall
    <3>3. j \in 1..n /\ \A l \in j + 1..i - 1 : l \in 1..n
      BY <1>0, <2>1
    <3> QED BY <1>1, <3>1, <3>2, <3>3 DEF AnswersCall
  <2>2. CASE i > n /\ i - n \in 1..Len(b)
    <3>0. n + (i - n) = i
      BY <1>0
    <3>1. i - n \in DOMAIN b /\ b[i - n].role = "tool" /\ r[i] = b[i - n]
      BY <1>0, <1>1, <1>3, <2>2, <3>0
    <3>2. PICK j \in 1..(i - n) - 1 : /\ b[i - n].id \in b[j].calls
                                      /\ \A l \in j + 1..(i - n) - 1 : b[l].role = "tool"
      BY <3>1 DEF Good, NoOrphanIn, AnswersCall
    <3>3. n + j \in 1..i - 1 /\ j \in 1..Len(b)
      BY <1>0, <2>2
    <3>4. ASSUME NEW l \in (n + j) + 1..i - 1 PROVE r[l].role = "tool"
      <4>1. l - n \in j + 1..(i - n) - 1 /\ l - n \in 1..Len(b) /\ n + (l - n) = l
        BY <1>0, <2>2
      <4>2. r[n + (l - n)] = b[l - n] /\ b[l - n].role = "tool"
        BY <1>1, <3>2, <4>1
      <4> QED BY <4>1, <4>2
    <3> QED BY <1>1, <3>1, <3>2, <3>3, <3>4 DEF AnswersCall
  <2> QED BY <1>1, <2>1, <2>2
<1>4. NoOrphanIn(r)
  BY <1>1, <1>3 DEF NoOrphanIn
<1> QED BY <1>2, <1>4 DEF Good, r

----------------------------------------------------------------------------
(* fix_messages                                                            *)

\* What is passed on from each place of a list to the next reaches the last one.
LEMMA PlacesFact ==
    ASSUME NEW n \in Nat, NEW G, 0 \in G, \A k \in 1..n : k - 1 \in G => k \in G
    PROVE  \A k \in 0..n : k \in G
<1> DEFINE Bad == {k \in 0..n : k \notin G}
<1> SUFFICES ASSUME Bad # {} PROVE FALSE
  OBVIOUS
<1>1. PICK k \in Bad : \A j \in Bad : k <= j
  <2>1. Bad \in SUBSET Nat
    OBVIOUS
  <2> HIDE DEF Bad
  <2> QED BY <2>1, LeastFact
<1>2. k \in 1..n /\ k - 1 \in 0..n /\ k - 1 < k
  BY <1>1
<1>3. k - 1 \in G
  BY <1>1, <1>2
<1> QED BY <1>1, <1>2, <1>3

\* The greatest of some places,
LEMMA MaxFact ==
    ASSUME NEW n \in Nat, NEW S \in SUBSET (1..n), S # {}
    PROVE  Max(S) \in S /\ \A x \in S : x <= Max(S)
<1> DEFINE V == {n - x : x \in S}
<1>1. PICK y \in V : \A z \in V : y <= z
  <2>1. \A x \in S : n - x \in Nat
    OBVIOUS
  <2>2. V \in SUBSET Nat /\ V # {}
    BY <2>1
  <2> HIDE DEF V
  <2> QED BY <2>2, LeastFact
<1>2. PICK x \in S : y = n - x
  BY <1>1
<1>3. \A z \in S : z <= x
  <2> TAKE z \in S
  <2>1. n - x <= n - z
    BY <1>1, <1>2
  <2>2. x \in Int /\ z \in Int
    OBVIOUS
  <2> QED BY <2>1, <2>2
<1>4. \E m \in S : \A z \in S : m >= z
  BY <1>3
<1> QED BY <1>4 DEF Max

\* The places up to n, the last of them first
LEMMA UpToFact ==
    ASSUME NEW n \in Nat \ {0}
    PROVE  Max(1..n) = n /\ (1..n) \ {n} = 1..(n - 1) /\ 1..n # {}
<1>1. n \in 1..n
  OBVIOUS
<1>2. Max(1..n) \in 1..n /\ n <= Max(1..n)
  BY <1>1, MaxFact
<1>3. (1..n) \ {n} = 1..(n - 1)
  OBVIOUS
<1> QED BY <1>1, <1>2, <1>3

\* A fold goes through the places of a list, the last one of those left at a time.
Iterates(iter, X, base, f, s, n) ==
    /\ iter \in [SUBSET (1..n) -> X]
    /\ \A S \in SUBSET (1..n) :
        iter[S] = IF S = {} THEN base ELSE f[<<iter[S \ {Max(S)}], s[Max(S)]>>]

\* There is such an iteration.
LEMMA IterFact ==
    ASSUME NEW X, NEW M, NEW f \in [X \X M -> X], NEW base \in X, NEW s \in Seq(M)
    PROVE  \E iter : Iterates(iter, X, base, f, s, Len(s))
<1> DEFINE G == {n \in 0..Len(s) : \E iter : Iterates(iter, X, base, f, s, n)}
<1>1. 0 \in G
  <2>1. SUBSET (1..0) = {{}}
    OBVIOUS
  <2>2. Iterates([S \in SUBSET (1..0) |-> base], X, base, f, s, 0)
    BY <2>1 DEF Iterates
  <2> QED BY <2>2
<1>2. ASSUME NEW n \in 1..Len(s), n - 1 \in G PROVE n \in G
  <2>1. PICK g : Iterates(g, X, base, f, s, n - 1)
    BY <1>2
  <2> DEFINE h == [S \in SUBSET (1..n) |->
                      IF n \in S THEN f[<<g[S \ {n}], s[n]>>] ELSE g[S]]
  <2>2. ASSUME NEW S \in SUBSET (1..n), n \in S PROVE Max(S) = n
    <3>1. n \in Nat /\ S # {}
      BY <2>2
    <3>2. Max(S) \in S /\ n <= Max(S)
      BY <2>2, <3>1, MaxFact
    <3>3. Max(S) \in 1..n
      BY <3>2
    <3> QED BY <3>2, <3>3
  <2>3. \A S \in SUBSET (1..n) : (S \ {n}) \in SUBSET (1..(n - 1))
    OBVIOUS
  <2>4. s[n] \in M
    OBVIOUS
  <2>5. ASSUME NEW S \in SUBSET (1..n), n \notin S
        PROVE  /\ S \in SUBSET (1..(n - 1)) /\ h[S] = g[S] /\ g[S] \in X
               /\ h[S] = IF S = {} THEN base ELSE f[<<g[S \ {Max(S)}], s[Max(S)]>>]
    <3>1. S \in SUBSET (1..(n - 1)) /\ h[S] = g[S]
      BY <2>5
    <3> HIDE DEF h
    <3> QED BY <2>1, <3>1 DEF Iterates
  <2>6. ASSUME NEW S \in SUBSET (1..n), n \in S
        PROVE  h[S] = f[<<g[S \ {n}], s[n]>>] /\ h[S] \in X
    <3>1. g[S \ {n}] \in X
      BY <2>1, <2>3 DEF Iterates
    <3> QED BY <2>4, <2>6, <3>1
  <2>7. ASSUME NEW S \in SUBSET (1..n), S # {}, n \notin S
        PROVE  /\ n \notin S \ {Max(S)}
               /\ (S \ {Max(S)}) \in SUBSET (1..n)
    BY <2>7
  <2>8. h \in [SUBSET (1..n) -> X]
    BY <2>5, <2>6
  <2>9. ASSUME NEW S \in SUBSET (1..n)
        PROVE  h[S] = IF S = {} THEN base ELSE f[<<h[S \ {Max(S)}], s[Max(S)]>>]
    <3>1. CASE n \in S
      <4>1. h[S \ {n}] = g[S \ {n}]
        BY <2>3, <2>5
      <4> QED BY <2>2, <2>6, <3>1, <4>1
    <3>2. CASE n \notin S /\ S # {}
      <4>1. h[S \ {Max(S)}] = g[S \ {Max(S)}]
        BY <2>5, <2>7, <3>2
      <4> QED BY <2>5, <3>2, <4>1
    <3>3. CASE S = {}
      BY <2>5, <3>3
    <3> QED BY <3>1, <3>2, <3>3
  <2> HIDE DEF h
  <2>10. Iterates(h, X, base, f, s, n)
    BY <2>8, <2>9 DEF Iterates
  <2> QED BY <2>10
<1> HIDE DEF G
<1>3. Len(s) \in Nat /\ Len(s) \in 0..Len(s)
  OBVIOUS
<1>4. Len(s) \in G
  BY <1>1, <1>2, <1>3, PlacesFact
<1> QED BY <1>4 DEF G

FixStates(M) == [fixed : Seq(M), chain : Seq(M)]
FixBase == [fixed |-> <<>>, chain |-> <<>>]

\* What fix_messages has done so far, and the chain it is at.
LEMMA FixTypes ==
    ASSUME NEW M, NEW a \in FixStates(M), NEW m \in M
    PROVE  FixOne(a, m) \in FixStates(M) /\ Flush(a) \in Seq(M)
<1> DEFINE b == FixOne(a, m)
<1>1. a.fixed \in Seq(M) /\ a.chain \in Seq(M) /\ <<>> \in Seq(M) /\ <<m>> \in Seq(M)
  BY DEF FixStates
<1>2. Flush(a) \in Seq(M)
  BY <1>1 DEF Flush
<1>3. Append(a.chain, m) \in Seq(M) /\ Append(Flush(a), m) \in Seq(M)
  BY <1>1, <1>2
<1>4. CASE m.role = "tool" /\ a.chain = <<>>
  BY <1>2, <1>4 DEF FixOne
<1>5. CASE m.role = "tool" /\ a.chain # <<>>
  <2>1. b = [a EXCEPT !.chain = Append(a.chain, m)]
    BY <1>5 DEF FixOne
  <2> DEFINE c == Append(a.chain, m)
  <2> HIDE DEF c
  <2>2. c \in Seq(M)
    BY <1>3 DEF c
  <2>3. [a EXCEPT !.chain = c] \in FixStates(M)
    BY <2>2 DEF FixStates
  <2> QED BY <1>2, <2>1, <2>3 DEF c
<1>6. CASE m.role # "tool"
  <2>1. \/ b = [fixed |-> Flush(a), chain |-> <<m>>]
        \/ b = [fixed |-> Append(Flush(a), m), chain |-> <<>>]
    BY <1>6 DEF FixOne
  <2> HIDE DEF b
  <2>a. \A f, c \in Seq(M) : [fixed |-> f, chain |-> c] \in FixStates(M)
    BY DEF FixStates
  <2>2. b \in FixStates(M)
    BY <1>1, <1>2, <1>3, <2>1, <2>a
  <2> QED BY <1>2, <2>2 DEF b
<1> QED BY <1>2, <1>4, <1>5, <1>6

\* fix_messages goes from each message to the next.
LEMMA FixFold ==
    ASSUME NEW M, NEW ms \in Seq(M)
    PROVE  \E f : /\ f[0] = FixBase
                  /\ \A n \in 1..Len(ms) : f[n] = FixOne(f[n - 1], ms[n])
                  /\ FixMessages(ms) = Flush(f[Len(ms)])
<1> DEFINE X == FixStates(M)
           one == [y \in X \X M |-> FixOne(y[1], y[2])]
           It(iter) == iter = [S \in SUBSET (DOMAIN ms) |->
                    IF S = {} THEN FixBase
                              ELSE FixOne(iter[S \ {Max(S)}], ms[Max(S)])]
           it == CHOOSE iter : It(iter)
<1>1. FixMessages(ms) = Flush(it[DOMAIN ms])
  BY DEF FixMessages, FoldLeft, MapThenFoldSet, FixBase
<1>2. DOMAIN ms = 1..Len(ms) /\ Len(ms) \in Nat
  OBVIOUS
<1>3. one \in [X \X M -> X] /\ FixBase \in X
  <2>1. \A y \in X \X M : FixOne(y[1], y[2]) \in X
    BY FixTypes
  <2>2. <<>> \in Seq(M)
    OBVIOUS
  <2> QED BY <2>1, <2>2 DEF FixStates, FixBase
<1>4. PICK iter : Iterates(iter, X, FixBase, one, ms, Len(ms))
  <2> HIDE DEF X, one
  <2> QED BY <1>3, IterFact
<1>5. ASSUME NEW S \in SUBSET (DOMAIN ms), S # {}
      PROVE  iter[S] = FixOne(iter[S \ {Max(S)}], ms[Max(S)])
  <2>1. Max(S) \in S /\ Max(S) \in 1..Len(ms)
    BY <1>2, <1>5, MaxFact
  <2>2. (S \ {Max(S)}) \in SUBSET (1..Len(ms)) /\ S \in SUBSET (1..Len(ms))
    BY <1>2
  <2>3. iter[S \ {Max(S)}] \in X /\ ms[Max(S)] \in M
    BY <1>4, <2>1, <2>2 DEF Iterates
  <2>4. iter[S] = one[<<iter[S \ {Max(S)}], ms[Max(S)]>>]
    BY <1>4, <1>5, <2>2 DEF Iterates
  <2> QED BY <2>3, <2>4
<1>6. It(iter)
  <2>1. iter \in [SUBSET (DOMAIN ms) -> X]
    BY <1>2, <1>4 DEF Iterates
  <2>2. iter[{}] = FixBase
    BY <1>4 DEF Iterates
  <2> HIDE DEF X
  <2> QED BY <1>5, <2>1, <2>2
<1>7. It(it)
  <2> HIDE DEF It
  <2> QED BY <1>6
<1> HIDE DEF it
<1>8. ASSUME NEW S \in SUBSET (1..Len(ms))
      PROVE  it[S] = IF S = {} THEN FixBase
                     ELSE FixOne(it[S \ {Max(S)}], ms[Max(S)])
  BY <1>2, <1>7
<1> DEFINE f == [n \in 0..Len(ms) |-> it[1..n]]
<1>9. f[0] = FixBase
  <2>1. 1..0 = {} /\ 0 \in 0..Len(ms)
    BY <1>2
  <2> QED BY <1>8, <2>1
<1>10. ASSUME NEW n \in 1..Len(ms) PROVE f[n] = FixOne(f[n - 1], ms[n])
  <2>1. Max(1..n) = n /\ (1..n) \ {n} = 1..(n - 1) /\ 1..n # {}
    BY UpToFact
  <2>2. n \in 0..Len(ms) /\ n - 1 \in 0..Len(ms) /\ (1..n) \in SUBSET (1..Len(ms))
    BY <1>2
  <2>3. it[1..n] = FixOne(it[1..(n - 1)], ms[n])
    BY <1>8, <2>1, <2>2
  <2> QED BY <2>2, <2>3
<1>11. f[Len(ms)] = it[DOMAIN ms]
  BY <1>2
<1> HIDE DEF f
<1> QED BY <1>1, <1>9, <1>10, <1>11

\* What fix_messages knows after n messages, the first k of which it is done with:
\* those it has passed on are good and have the calls of these, and the chain is the
\* last call with its results so far.
FixHas(ms, a, k, C, S) ==
    /\ a \in FixStates(Msgs(C))
    /\ Good(a.fixed, C, S)
    /\ \A i \in 1..Len(a.fixed) :
          a.fixed[i].calls = {} \/ \E j \in 1..k : a.fixed[i].calls = ms[j].calls
    /\ \A i \in 1..Len(a.chain) : a.chain[i] = ms[k + i]
    /\ a.chain # <<>> =>
          a.chain[1].calls # {} /\ \A i \in 2..Len(a.chain) : a.chain[i].role = "tool"

FixKnows(ms, a, n, C, S) ==
    Len(a.chain) <= n /\ FixHas(ms, a, n - Len(a.chain), C, S)

\* A chain is over when a message comes that is no result.
LEMMA FlushFact ==
    ASSUME NEW C, NEW S, NEW ms, Fit(ms, C, S), NEW n \in 0..Len(ms),
           n = Len(ms) \/ ms[n + 1].role # "tool",
           NEW a, FixKnows(ms, a, n, C, S)
    PROVE  /\ Good(Flush(a), C, S)
           /\ \A i \in 1..Len(Flush(a)) :
                Flush(a)[i].calls = {}
                \/ \E j \in 1..n : Flush(a)[i].calls = ms[j].calls
<1> DEFINE k == n - Len(a.chain)
           c == a.chain
<1>0. ms \in Seq(Msgs(C)) /\ n \in Nat /\ Len(ms) \in Nat
  BY DEF Fit
<1>1. /\ c \in Seq(Msgs(C)) /\ a.fixed \in Seq(Msgs(C))
      /\ Good(a.fixed, C, S)
      /\ Len(c) \in Nat /\ k \in 0..n /\ n = k + Len(c)
      /\ \A i \in 1..Len(a.fixed) :
            a.fixed[i].calls = {} \/ \E j \in 1..k : a.fixed[i].calls = ms[j].calls
      /\ \A i \in 1..Len(c) : c[i] = ms[k + i]
      /\ c # <<>> => c[1].calls # {} /\ \A i \in 2..Len(c) : c[i].role = "tool"
  BY <1>0 DEF FixKnows, FixHas, FixStates
<1> HIDE DEF k, c
<1>2. CASE ~ (Len(c) > 1)
  <2>1. Flush(a) = a.fixed
    BY <1>2 DEF Flush, c
  <2>2. \A j \in 1..k : j \in 1..n
    BY <1>0, <1>1
  <2> QED BY <1>1, <2>1, <2>2
<1>3. CASE Len(c) > 1
  <2>1. Flush(a) = a.fixed \o c
    BY <1>3 DEF Flush, c
  <2>2. c # <<>> /\ 1 \in 1..Len(c)
    BY <1>1, <1>3
  <2>3. \A i \in 1..Len(c) : k + i \in 1..n /\ k + i \in 1..Len(ms)
    BY <1>0, <1>1
  <2>4. ASSUME NEW i \in 1..Len(c), i # 1 PROVE c[i].role = "tool" /\ c[i].calls = {}
    <3>1. i \in 2..Len(c)
      BY <2>4
    <3>2. c[i] \in Msgs(C)
      BY <1>1
    <3> QED BY <1>1, <2>2, <3>1, <3>2 DEF Msgs
  <2>5. ASSUME NEW i \in 1..Len(c), i # 1 PROVE c[i].id \in c[1].calls
    <3>1. ASSUME NEW l \in (k + 1) + 1..k + i PROVE ms[l].role = "tool"
      <4>1. l - k \in 1..Len(c) /\ l - k # 1 /\ k + (l - k) = l
        BY <1>1
      <4>2. c[l - k].role = "tool" /\ c[l - k] = ms[k + (l - k)]
        BY <1>1, <2>4, <4>1
      <4> QED BY <4>1, <4>2
    <3>2. Follows(ms, k + 1, k + i)
      BY <1>1, <2>5, <3>1 DEF Follows
    <3>3. ms[k + 1].calls # {} /\ c[1] = ms[k + 1] /\ c[i] = ms[k + i]
      BY <1>1, <2>2
    <3>4. k + 1 \in 1..Len(ms) /\ k + i \in 1..Len(ms)
      BY <2>2, <2>3
    <3> QED BY <3>2, <3>3, <3>4 DEF Fit, Linked
  <2>6. NoOrphanIn(c)
    <3> SUFFICES ASSUME NEW i \in 1..Len(c), c[i].role = "tool" PROVE AnswersCall(c, i)
      BY <1>1 DEF NoOrphanIn
    <3>1. c[1].role # "tool"
      <4>1. c[1] \in Msgs(C)
        BY <1>1, <2>2
      <4> QED BY <1>1, <2>2, <4>1 DEF Msgs
    <3>2. i # 1 /\ 1 \in 1..i - 1
      BY <3>1, <1>1
    <3>3. \A l \in 1 + 1..i - 1 : l \in 1..Len(c) /\ l # 1
      BY <1>1
    <3>4. c[i].id \in c[1].calls
      BY <2>5, <3>2
    <3> QED BY <2>4, <3>2, <3>3, <3>4 DEF AnswersCall
  <2>7. Linked(c)
    BY <1>1, <2>6, LinkedFact
  <2>8. Answered(c, S)
    <3> SUFFICES ASSUME NEW i \in 1..Len(c), NEW x \in c[i].calls \ S
                 PROVE  \E j \in 1..Len(c) : Follows(c, i, j) /\ c[j] = Tool(x)
      BY DEF Answered
    <3>1. i = 1
      BY <2>4
    <3>2. c[1] = ms[k + 1] /\ k + 1 \in 1..Len(ms)
      BY <1>1, <2>2, <2>3
    <3>3. PICK j \in 1..Len(ms) : Follows(ms, k + 1, j) /\ ms[j] = Tool(x)
      BY <3>1, <3>2 DEF Fit, Answered
    <3>4. j <= n
      <4> SUFFICES ASSUME n < j PROVE FALSE
        BY <1>0
      <4>1. n + 1 \in (k + 1) + 1..j
        BY <1>0, <1>1, <1>3
      <4>2. ms[n + 1].role = "tool"
        BY <3>3, <4>1 DEF Follows
      <4> QED BY <1>0, <4>2
    <3>5. j - k \in 1..Len(c) /\ 1 < j - k /\ k + (j - k) = j
      BY <1>0, <1>1, <3>3, <3>4 DEF Follows
    <3>6. c[j - k] = Tool(x)
      BY <1>1, <3>3, <3>5
    <3>7. \A l \in 1 + 1..j - k : l \in 1..Len(c) /\ l # 1
      BY <1>1, <3>5
    <3>8. Follows(c, 1, j - k)
      BY <2>4, <3>5, <3>7 DEF Follows
    <3> QED BY <3>1, <3>5, <3>6, <3>8
  <2>9. Distinct(c)
    BY <2>4 DEF Distinct
  <2>10. Good(c, C, S)
    BY <1>1, <2>6, <2>7, <2>8, <2>9 DEF Good, Fit
  <2>11. \A i \in 1..Len(a.fixed), j \in 1..Len(c) : a.fixed[i].calls \cap c[j].calls = {}
    <3> SUFFICES ASSUME NEW i \in 1..Len(a.fixed), NEW j \in 1..Len(c),
                        a.fixed[i].calls # {}
                 PROVE  a.fixed[i].calls \cap c[j].calls = {}
      OBVIOUS
    <3>1. PICK x \in 1..k : a.fixed[i].calls = ms[x].calls
      BY <1>1
    <3>2. c[j] = ms[k + j] /\ k + j \in 1..Len(ms) /\ x \in 1..Len(ms) /\ x # k + j
      BY <1>0, <1>1, <2>3
    <3> QED BY <3>1, <3>2 DEF Fit, Distinct
  <2>12. Good(Flush(a), C, S)
    BY <1>1, <2>1, <2>10, <2>11, JoinGood
  <2>13. ASSUME NEW i \in 1..Len(Flush(a))
         PROVE  Flush(a)[i].calls = {} \/ \E j \in 1..n : Flush(a)[i].calls = ms[j].calls
    <3>1. CASE i \in 1..Len(a.fixed)
      <4>1. Flush(a)[i] = a.fixed[i]
        BY <1>1, <2>1, <3>1, JoinFact
      <4>2. \A j \in 1..k : j \in 1..n
        BY <1>0, <1>1
      <4> QED BY <1>1, <3>1, <4>1, <4>2
    <3>2. CASE i > Len(a.fixed) /\ i - Len(a.fixed) \in 1..Len(c)
      <4> DEFINE x == i - Len(a.fixed)
      <4>1. (a.fixed \o c)[Len(a.fixed) + x] = c[x]
        BY <1>1, <3>2, JoinFact
      <4>2. Len(a.fixed) + x = i
        BY <1>1
      <4>3. c[x] = ms[k + x] /\ k + x \in 1..n
        BY <1>1, <2>3, <3>2
      <4> QED BY <2>1, <4>1, <4>2, <4>3
    <3> QED BY <1>1, <2>1, <3>1, <3>2, JoinFact
  <2> QED BY <2>12, <2>13
<1> QED BY <1>2, <1>3

\* One more message.
LEMMA AppendFact ==
    ASSUME NEW M, NEW s \in Seq(M), NEW m \in M
    PROVE  /\ Append(s, m) \in Seq(M) /\ Len(Append(s, m)) = Len(s) + 1
           /\ Append(s, m) # <<>> /\ Append(s, m) = s \o <<m>>
           /\ \A i \in 1..Len(s) : Append(s, m)[i] = s[i]
           /\ Append(s, m)[Len(s) + 1] = m
           /\ \A i \in 1..Len(Append(s, m)) : i \in 1..Len(s) \/ i = Len(s) + 1
OBVIOUS

\* A message that neither calls tools nor is a result is good.
LEMMA PlainGood ==
    ASSUME NEW C, NEW S, NEW m \in Msgs(C), m.role # "tool", m.calls = {}
    PROVE  Good(<<m>>, C, S)
<1>1. <<m>> \in Seq(Msgs(C)) /\ \A i \in 1..Len(<<m>>) : <<m>>[i] = m
  OBVIOUS
<1>2. Plain(<<m>>)
  BY <1>1 DEF Plain
<1> QED BY <1>1, <1>2, PlainFact

\* An empty history is good.
LEMMA EmptyGood ==
    ASSUME NEW C, NEW S
    PROVE  Good(<<>>, C, S)
<1>1. <<>> \in Seq(Msgs(C)) /\ \A i \in 1..Len(<<>>) : FALSE
  OBVIOUS
<1>2. Plain(<<>>)
  BY <1>1 DEF Plain
<1> QED BY <1>1, <1>2, PlainFact

\* What fix_messages knows after one more message.
LEMMA FixStep ==
    ASSUME NEW C, NEW S, NEW ms, Fit(ms, C, S), NEW n \in 1..Len(ms),
           NEW a, FixKnows(ms, a, n - 1, C, S)
    PROVE  FixKnows(ms, FixOne(a, ms[n]), n, C, S)
<1> DEFINE m == ms[n]
           b == FixOne(a, m)
           c == a.chain
           k == n - 1 - Len(c)
<1>0. /\ ms \in Seq(Msgs(C)) /\ n \in Nat /\ Len(ms) \in Nat /\ n - 1 \in 0..Len(ms)
      /\ n - 1 + 1 = n /\ m \in Msgs(C)
  BY DEF Fit
<1>a. /\ a \in FixStates(Msgs(C)) /\ Good(a.fixed, C, S) /\ Len(c) <= n - 1
      /\ \A i \in 1..Len(a.fixed) :
            a.fixed[i].calls = {} \/ \E j \in 1..k : a.fixed[i].calls = ms[j].calls
      /\ \A i \in 1..Len(c) : c[i] = ms[k + i]
      /\ c # <<>> => c[1].calls # {} /\ \A i \in 2..Len(c) : c[i].role = "tool"
  BY DEF FixKnows, FixHas
<1>b. c \in Seq(Msgs(C)) /\ a.fixed \in Seq(Msgs(C))
  BY <1>a DEF FixStates
<1>c. Len(c) \in Nat /\ k \in 0..n - 1 /\ n - 1 = k + Len(c)
  BY <1>0, <1>a, <1>b
<1>1. /\ a \in FixStates(Msgs(C)) /\ c \in Seq(Msgs(C)) /\ a.fixed \in Seq(Msgs(C))
      /\ Good(a.fixed, C, S)
      /\ Len(c) \in Nat /\ k \in 0..n - 1 /\ n - 1 = k + Len(c)
      /\ \A i \in 1..Len(a.fixed) :
            a.fixed[i].calls = {} \/ \E j \in 1..k : a.fixed[i].calls = ms[j].calls
      /\ \A i \in 1..Len(c) : c[i] = ms[k + i]
      /\ c # <<>> => c[1].calls # {} /\ \A i \in 2..Len(c) : c[i].role = "tool"
  BY <1>a, <1>b, <1>c
<1>2. b \in FixStates(Msgs(C)) /\ Flush(a) \in Seq(Msgs(C))
  BY <1>0, <1>1, FixTypes
<1>d. b = FixOne(a, m) /\ m = ms[n] /\ c = a.chain /\ k = n - 1 - Len(c)
  OBVIOUS
<1> SUFFICES FixKnows(ms, b, n, C, S)
  OBVIOUS
<1> HIDE DEF b, c, k, m
<1>3. CASE m.role = "tool" /\ c = <<>>
  <2>1. b = a
    BY <1>3, <1>d DEF FixOne
  <2>2. \A j \in 1..k : j \in 1..n
    BY <1>0, <1>1
  <2>3. Len(c) = 0 /\ n - Len(c) = n /\ Len(c) <= n /\ \A i \in 1..Len(c) : FALSE
    BY <1>0, <1>3
  <2>4. FixHas(ms, a, n, C, S)
    BY <1>1, <1>3, <1>d, <2>2, <2>3 DEF FixHas
  <2> QED BY <1>3, <1>d, <2>1, <2>3, <2>4 DEF FixKnows
<1>4. CASE m.role = "tool" /\ c # <<>>
  <2>1. b.fixed = a.fixed /\ b.chain = Append(c, m)
    BY <1>1, <1>4, <1>d DEF FixOne, FixStates
  <2>2. /\ Len(b.chain) = Len(c) + 1 /\ b.chain # <<>>
        /\ \A i \in 1..Len(c) : b.chain[i] = c[i]
        /\ b.chain[Len(c) + 1] = m
    <3>1. c \in Seq(Msgs(C)) /\ m \in Msgs(C)
      BY <1>0, <1>1
    <3> QED BY <2>1, <3>1, AppendFact
  <2>3. n - Len(b.chain) = k /\ Len(b.chain) <= n /\ k + (Len(c) + 1) = n
    <3>1. n \in Nat /\ k \in 0..n - 1 /\ Len(c) \in Nat /\ n - 1 = k + Len(c)
      BY <1>0, <1>1
    <3> QED BY <2>2, <3>1
  <2>4. \A i \in 1..Len(b.chain) : i \in 1..Len(c) \/ i = Len(c) + 1
    BY <1>1, <2>2
  <2>5. \A i \in 1..Len(b.chain) : b.chain[i] = ms[k + i]
    BY <1>1, <1>d, <2>2, <2>3, <2>4
  <2>6. ASSUME NEW i \in 2..Len(b.chain) PROVE b.chain[i].role = "tool"
    <3>1. i \in 2..Len(c) \/ i = Len(c) + 1
      BY <1>1, <2>2
    <3>2. CASE i \in 2..Len(c)
      <4>1. i \in 1..Len(c)
        BY <3>2
      <4> QED BY <1>1, <1>4, <2>2, <3>2, <4>1
    <3>3. CASE i = Len(c) + 1
      BY <1>4, <2>2, <3>3
    <3> QED BY <3>1, <3>2, <3>3
  <2>7. 1 \in 1..Len(c)
    BY <1>1, <1>4
  <2>8. b.chain[1].calls # {}
    BY <1>1, <1>4, <2>2, <2>7
  <2>9. FixHas(ms, b, k, C, S)
    BY <1>1, <1>2, <2>1, <2>5, <2>6, <2>8 DEF FixHas
  <2> QED BY <2>3, <2>9 DEF FixKnows
<1>5. CASE m.role # "tool"
  <2>1. /\ Good(Flush(a), C, S)
        /\ \A i \in 1..Len(Flush(a)) :
             Flush(a)[i].calls = {}
             \/ \E j \in 1..n - 1 : Flush(a)[i].calls = ms[j].calls
    <3>1. n - 1 \in 0..Len(ms) /\ ms[n - 1 + 1].role # "tool"
      BY <1>0, <1>5, <1>d
    <3> QED BY <3>1, FlushFact
  <2>2. CASE HasToolCalls(m)
    <3>1. b.fixed = Flush(a) /\ b.chain = <<m>>
      BY <1>5, <1>d, <2>2 DEF FixOne
    <3>2. /\ Len(b.chain) = 1 /\ b.chain # <<>> /\ b.chain[1] = m /\ m.calls # {}
          /\ \A i \in 1..Len(b.chain) : i = 1
      BY <2>2, <3>1 DEF HasToolCalls
    <3>3. n - Len(b.chain) = n - 1 /\ Len(b.chain) <= n /\ n - 1 + 1 = n
      BY <1>0, <3>2
    <3>4. \A i \in 2..Len(b.chain) : FALSE
      BY <3>2
    <3>5. \A i \in 1..Len(b.chain) : b.chain[i] = ms[n - 1 + i]
      BY <1>d, <3>2, <3>3
    <3>6. b.chain # <<>> =>
            b.chain[1].calls # {} /\ \A i \in 2..Len(b.chain) : b.chain[i].role = "tool"
      BY <3>2, <3>4
    <3>7. FixHas(ms, b, n - 1, C, S)
      BY <1>2, <2>1, <3>1, <3>5, <3>6 DEF FixHas
    <3> QED BY <3>3, <3>7 DEF FixKnows
  <2>3. CASE ~ HasToolCalls(m)
    <3>1. b.fixed = Append(Flush(a), m) /\ b.chain = <<>>
      BY <1>5, <1>d, <2>3 DEF FixOne
    <3>2. m.calls = {}
      BY <1>0, <2>3 DEF HasToolCalls, Msgs
    <3>3. Good(<<m>>, C, S)
      BY <1>0, <1>5, <3>2, PlainGood
    <3>4. b.fixed = Flush(a) \o <<m>>
      BY <1>2, <3>1
    <3>5. \A i \in 1..Len(Flush(a)), j \in 1..Len(<<m>>) :
             Flush(a)[i].calls \cap <<m>>[j].calls = {}
      BY <3>2
    <3>6. Good(b.fixed, C, S)
      BY <2>1, <3>3, <3>4, <3>5, JoinGood
    <3>7. Len(b.chain) = 0 /\ n - Len(b.chain) = n /\ Len(b.chain) <= n
      BY <1>0, <3>1
    <3>8. ASSUME NEW i \in 1..Len(b.fixed)
          PROVE  b.fixed[i].calls = {} \/ \E j \in 1..n : b.fixed[i].calls = ms[j].calls
      <4>1. CASE i \in 1..Len(Flush(a))
        <5>1. b.fixed[i] = Flush(a)[i]
          BY <1>0, <1>2, <3>1, <4>1
        <5>2. \A j \in 1..n - 1 : j \in 1..n
          BY <1>0
        <5> QED BY <2>1, <4>1, <5>1, <5>2
      <4>2. CASE i = Len(Flush(a)) + 1
        <5>1. b.fixed[i] = m
          BY <1>0, <1>2, <3>1, <4>2
        <5> QED BY <3>2, <5>1
      <4> QED BY <1>0, <1>2, <3>1, <4>1, <4>2
    <3>9. \A i \in 1..Len(b.chain) : FALSE
      BY <3>7
    <3>10. FixHas(ms, b, n, C, S)
      BY <1>2, <3>1, <3>6, <3>8, <3>9 DEF FixHas
    <3> QED BY <3>7, <3>10 DEF FixKnows
  <2> QED BY <2>2, <2>3
<1> QED BY <1>3, <1>4, <1>5

\* What fix_messages makes of fit messages is good, wherever they were cut.
LEMMA FixFact ==
    ASSUME NEW C, NEW S, NEW ms, Fit(ms, C, S)
    PROVE  Good(FixMessages(ms), C, S)
<1>0. ms \in Seq(Msgs(C)) /\ Len(ms) \in Nat /\ Len(ms) \in 0..Len(ms)
  BY DEF Fit
<1>1. PICK f : /\ f[0] = FixBase
               /\ \A n \in 1..Len(ms) : f[n] = FixOne(f[n - 1], ms[n])
               /\ FixMessages(ms) = Flush(f[Len(ms)])
  BY <1>0, FixFold
<1> DEFINE G == {n \in 0..Len(ms) : FixKnows(ms, f[n], n, C, S)}
<1>2. 0 \in G
  <2>1. <<>> \in Seq(Msgs(C)) /\ Len(<<>>) = 0
    OBVIOUS
  <2>2. Good(<<>>, C, S)
    BY EmptyGood
  <2>3. f[0].fixed = <<>> /\ f[0].chain = <<>> /\ f[0] \in FixStates(Msgs(C))
    BY <1>1, <2>1 DEF FixBase, FixStates
  <2> QED BY <2>1, <2>2, <2>3 DEF FixKnows, FixHas
<1>3. ASSUME NEW n \in 1..Len(ms), n - 1 \in G PROVE n \in G
  BY <1>1, <1>3, FixStep
<1> HIDE DEF G
<1>4. Len(ms) \in G
  BY <1>0, <1>2, <1>3, PlacesFact
<1>5. FixKnows(ms, f[Len(ms)], Len(ms), C, S)
  BY <1>4 DEF G
<1> QED BY <1>0, <1>1, <1>5, FlushFact

----------------------------------------------------------------------------
(* The truncations                                                         *)

\* The least of some places,
LEMMA MinFact ==
    ASSUME NEW n \in Nat, NEW S \in SUBSET (1..n), S # {}
    PROVE  Min(S) \in S /\ \A x \in S : Min(S) <= x
<1>1. S \in SUBSET Nat
  OBVIOUS
<1>2. \E x \in S : \A y \in S : x <= y
  BY <1>1, LeastFact
<1> QED BY <1>2 DEF Min

\* the place of the first user message,
LEMMA FirstUserFact ==
    ASSUME NEW M, NEW ms \in Seq(M)
    PROVE  /\ FirstUser(ms) \in 0..Len(ms)
           /\ FirstUser(ms) # 0 =>
                 FirstUser(ms) \in 1..Len(ms) /\ ms[FirstUser(ms)].role = "user"
<1> DEFINE I == {i \in 1..Len(ms) : ms[i].role = "user"}
<1>1. FirstUser(ms) = IF I # {} THEN Min(I) ELSE 0
  BY DEF FirstUser, SelectInSeq
<1>2. CASE I # {}
  <2>1. I \in SUBSET (1..Len(ms)) /\ Len(ms) \in Nat
    OBVIOUS
  <2>2. Min(I) \in I
    <3> HIDE DEF I
    <3> QED BY <1>2, <2>1, MinFact
  <2> QED BY <1>1, <1>2, <2>2
<1>3. CASE I = {}
  BY <1>1, <1>3
<1> QED BY <1>2, <1>3

\* and the system messages at the beginning,
LEMMA LeadingFact ==
    ASSUME NEW M, NEW ms \in Seq(M)
    PROVE  /\ Leading(ms) \in 0..Len(ms)
           /\ \A i \in 1..Leading(ms) : ms[i].role = "system"
<1> DEFINE I == {i \in 1..Len(ms) : ms[i].role # "system"}
           s == SelectInSeq(ms, LAMBDA m : m.role # "system")
<1>1. s = IF I # {} THEN Min(I) ELSE 0
  BY DEF SelectInSeq
<1>2. Leading(ms) = IF s = 0 THEN 0 ELSE s - 1
  BY DEF Leading
<1> HIDE DEF s
<1>3. CASE I # {}
  <2>1. I \in SUBSET (1..Len(ms)) /\ Len(ms) \in Nat
    OBVIOUS
  <2>2. Min(I) \in I /\ \A x \in I : Min(I) <= x
    <3> HIDE DEF I
    <3> QED BY <1>3, <2>1, MinFact
  <2>3. s \in 1..Len(ms) /\ \A x \in I : s <= x
    BY <1>1, <1>3, <2>2
  <2>4. Leading(ms) = s - 1 /\ s - 1 \in 0..Len(ms)
    BY <1>2, <2>1, <2>3
  <2>5. ASSUME NEW i \in 1..s - 1 PROVE ms[i].role = "system"
    <3>1. i \in 1..Len(ms) /\ ~ (s <= i)
      BY <2>1, <2>3
    <3> QED BY <2>3, <3>1
  <2> QED BY <2>4, <2>5
<1>4. CASE I = {}
  <2>1. Leading(ms) = 0
    BY <1>1, <1>2, <1>4
  <2> QED BY <2>1
<1> QED BY <1>3, <1>4

\* which call nothing.
LEMMA SystemFact ==
    ASSUME NEW C, NEW ms \in Seq(Msgs(C))
    PROVE  SystemOf(ms) \in Seq(Msgs(C)) /\ Plain(SystemOf(ms))
<1> DEFINE n == Leading(ms)
           s == SystemOf(ms)
<1>1. n \in 0..Len(ms) /\ \A i \in 1..n : ms[i].role = "system"
  BY LeadingFact
<1> HIDE DEF n
<1>2. s = SubSeq(ms, 1, n)
  BY DEF SystemOf, n
<1>3. s \in Seq(Msgs(C)) /\ Len(s) = n /\ \A i \in 1..n : s[i] = ms[i] /\ ms[i] \in Msgs(C)
  BY <1>1, <1>2
<1> HIDE DEF s
<1>4. ASSUME NEW i \in 1..Len(s) PROVE s[i].role # "tool" /\ s[i].calls = {}
  <2>1. s[i] \in Msgs(C) /\ s[i].role = "system"
    BY <1>1, <1>3
  <2> QED BY <2>1 DEF Msgs
<1> QED BY <1>3, <1>4 DEF Plain, s

\* They go before any fit list.
LEMMA PlainJoin ==
    ASSUME NEW C, NEW S, NEW p \in Seq(Msgs(C)), Plain(p), NEW ms, Fit(ms, C, S)
    PROVE  Fit(p \o ms, C, S)
<1>1. Fit(p, C, S)
  BY PlainFact DEF Good
<1>2. \A i \in 1..Len(p), j \in 1..Len(ms) : p[i].calls \cap ms[j].calls = {}
  BY DEF Plain
<1> QED BY <1>1, <1>2, JoinFit

\* The system messages, a user message and what is kept of the rest
LEMMA EnsureFit ==
    ASSUME NEW C, NEW S, NEW kept, Fit(kept, C, S), NEW ms \in Seq(Msgs(C))
    PROVE  Fit(EnsureUserMessage(kept, ms), C, S)
<1>1. SystemOf(ms) \in Seq(Msgs(C)) /\ Plain(SystemOf(ms))
  BY SystemFact
<1>2. CASE FirstUser(ms) = 0 \/ (kept # <<>> /\ kept[1].role = "user")
  BY <1>1, <1>2, PlainJoin DEF EnsureUserMessage
<1>3. CASE ~ (FirstUser(ms) = 0 \/ (kept # <<>> /\ kept[1].role = "user"))
  <2> DEFINE u == ms[FirstUser(ms)]
             p == SystemOf(ms) \o <<u>>
  <2>1. u \in Msgs(C) /\ u.role = "user"
    BY <1>3, FirstUserFact
  <2>2. u.calls = {}
    BY <2>1 DEF Msgs
  <2> HIDE DEF u
  <2>3. Good(<<u>>, C, S)
    BY <2>1, <2>2, PlainGood
  <2>4. /\ p \in Seq(Msgs(C)) /\ \A i \in 1..Len(p) : i \in 1..Len(SystemOf(ms)) \/ p[i] = u
        /\ \A i \in 1..Len(SystemOf(ms)) : p[i] = SystemOf(ms)[i]
    <3>1. p = Append(SystemOf(ms), u)
      BY <1>1, <2>1
    <3> HIDE DEF p
    <3> QED BY <1>1, <2>1, <3>1, AppendFact
  <2>5. Plain(p)
    <3> HIDE DEF p
    <3> QED BY <1>1, <2>1, <2>2, <2>4 DEF Plain
  <2>6. EnsureUserMessage(kept, ms) = p \o kept
    BY <1>3 DEF EnsureUserMessage, u
  <2> HIDE DEF p
  <2> QED BY <2>4, <2>5, <2>6, PlainJoin
<1> QED BY <1>2, <1>3

\* whatever is kept, its repair is good.
LEMMA TruncatedGood ==
    ASSUME NEW C, NEW S, NEW kept, Fit(kept, C, S), NEW ms \in Seq(Msgs(C))
    PROVE  Good(Truncated(kept, ms), C, S)
<1>1. Fit(FromFirstUser(kept), C, S)
  <2>1. kept \in Seq(Msgs(C))
    BY DEF Fit
  <2>2. CASE FirstUser(kept) = 0
    BY <2>2 DEF FromFirstUser
  <2>3. CASE FirstUser(kept) # 0
    <3>1. FirstUser(kept) - 1 \in 0..Len(kept)
      BY <2>1, <2>3, FirstUserFact
    <3>2. FromFirstUser(kept) = DropFirst(kept, FirstUser(kept) - 1)
      BY <2>3 DEF FromFirstUser
    <3> QED BY <3>1, <3>2, DropFit
  <2> QED BY <2>2, <2>3
<1> QED BY <1>1, EnsureFit, FixFact DEF Truncated

\* The messages after the system messages
LEMMA RestFit ==
    ASSUME NEW C, NEW S, NEW ms, Fit(ms, C, S)
    PROVE  Fit(RestOf(ms), C, S) /\ Len(RestOf(ms)) \in Nat
<1>1. ms \in Seq(Msgs(C))
  BY DEF Fit
<1>2. Leading(ms) \in 0..Len(ms)
  BY <1>1, LeadingFact
<1>3. Fit(RestOf(ms), C, S)
  BY <1>2, DropFit DEF RestOf
<1>4. RestOf(ms) \in Seq(Msgs(C))
  BY <1>3 DEF Fit
<1> QED BY <1>3, <1>4

\* The three truncations keep a history good.
LEMMA ByTurnsGood ==
    ASSUME NEW C, NEW S, NEW ms, Good(ms, C, S), NEW keep \in Int, NEW drop \in Int
    PROVE  Good(TruncateByTurns(ms, keep, drop), C, S)
<1> DEFINE rest == RestOf(ms)
           kept == 2 * (keep - drop + 1)
<1>1. ms \in Seq(Msgs(C)) /\ Fit(ms, C, S) /\ Fit(<<>>, C, S)
  BY EmptyGood DEF Good, Fit
<1>2. Fit(rest, C, S) /\ Len(rest) \in Nat
  BY <1>1, RestFit
<1> HIDE DEF rest
<1>3. ASSUME ~ (kept <= 0), ~ (kept >= Len(rest))
      PROVE  Good(Truncated(DropFirst(rest, Len(rest) - kept), ms), C, S)
  <2>1. kept \in Int
    OBVIOUS
  <2> HIDE DEF kept
  <2>2. Len(rest) - kept \in 0..Len(rest)
    BY <1>2, <1>3, <2>1
  <2> QED BY <1>1, <1>2, <2>2, DropFit, TruncatedGood
<1>4. Good(Truncated(<<>>, ms), C, S) /\ Good(Truncated(rest, ms), C, S)
  BY <1>1, <1>2, TruncatedGood
<1> QED BY <1>3, <1>4 DEF TruncateByTurns, rest

\* DropOldestTurns,
LEMMA OldestGood ==
    ASSUME NEW C, NEW S, NEW ms, Good(ms, C, S), NEW drop \in Int
    PROVE  Good(DropOldestTurns(ms, drop), C, S)
<1> DEFINE rest == RestOf(ms)
<1>1. ms \in Seq(Msgs(C)) /\ Fit(ms, C, S) /\ Fit(<<>>, C, S)
  BY EmptyGood DEF Good, Fit
<1>2. Fit(rest, C, S) /\ Len(rest) \in Nat
  BY <1>1, RestFit
<1> HIDE DEF rest
<1>3. ASSUME ~ (drop <= 0), ~ (Len(rest) \div 2 <= drop)
      PROVE  Good(Truncated(DropFirst(rest, 2 * drop), ms), C, S)
  <2>1. 2 * drop \in 0..Len(rest)
    BY <1>2, <1>3
  <2> QED BY <1>1, <1>2, <2>1, DropFit, TruncatedGood
<1>4. Good(Truncated(<<>>, ms), C, S)
  BY <1>1, TruncatedGood
<1> QED BY <1>3, <1>4 DEF DropOldestTurns, rest

\* and Halve.
LEMMA HalveGood ==
    ASSUME NEW C, NEW S, NEW ms, Good(ms, C, S)
    PROVE  Good(Halve(ms), C, S)
<1> DEFINE rest == RestOf(ms)
           half == Len(rest) \div 2
<1>1. ms \in Seq(Msgs(C)) /\ Fit(ms, C, S)
  BY DEF Good, Fit
<1>2. Fit(rest, C, S) /\ Len(rest) \in Nat
  BY <1>1, RestFit
<1> HIDE DEF rest
<1>3. half \in 0..Len(rest)
  BY <1>2
<1>4. Good(Truncated(DropFirst(rest, half), ms), C, S)
  BY <1>1, <1>2, <1>3, DropFit, TruncatedGood
<1> QED BY <1>4 DEF Halve, rest

----------------------------------------------------------------------------
(* The compression                                                         *)

\* Parts of a list.
LEMMA PartFact ==
    ASSUME NEW M, NEW s \in Seq(M), NEW a \in Nat, NEW b \in Nat, a <= b, b <= Len(s)
    PROVE  /\ SubSeq(s, a + 1, b) \in Seq(M) /\ Len(SubSeq(s, a + 1, b)) = b - a
           /\ \A i \in 1..b - a : SubSeq(s, a + 1, b)[i] = s[a + i]
OBVIOUS

\* Two parts of a list that follow one another make one.
LEMMA PartsJoin ==
    ASSUME NEW M, NEW s \in Seq(M), NEW a \in Nat, NEW b \in Nat, NEW c \in Nat,
           a <= b, b <= c, c <= Len(s)
    PROVE  SubSeq(s, a + 1, b) \o SubSeq(s, b + 1, c) = SubSeq(s, a + 1, c)
<1> DEFINE x == SubSeq(s, a + 1, b)
           y == SubSeq(s, b + 1, c)
           z == SubSeq(s, a + 1, c)
<1>0. b <= Len(s) /\ a <= c
  OBVIOUS
<1>1. x \in Seq(M) /\ Len(x) = b - a /\ \A i \in 1..b - a : x[i] = s[a + i]
  BY <1>0, PartFact
<1>2. y \in Seq(M) /\ Len(y) = c - b /\ \A i \in 1..c - b : y[i] = s[b + i]
  BY PartFact
<1>3. z \in Seq(M) /\ Len(z) = c - a /\ \A i \in 1..c - a : z[i] = s[a + i]
  BY <1>0, PartFact
<1> HIDE DEF x, y, z
<1>4. x \o y \in Seq(M) /\ Len(x \o y) = c - a
  <2>1. x \o y \in Seq(M) /\ Len(x \o y) = Len(x) + Len(y)
    BY <1>1, <1>2, JoinFact
  <2>2. Len(x) + Len(y) = c - a
    BY <1>1, <1>2
  <2> QED BY <2>1, <2>2
<1>5. ASSUME NEW i \in 1..c - a PROVE (x \o y)[i] = z[i]
  <2>1. CASE i <= b - a
    <3>1. i \in 1..Len(x) /\ i \in 1..b - a
      BY <1>1, <2>1
    <3>2. (x \o y)[i] = x[i]
      BY <1>1, <1>2, <3>1, JoinFact
    <3> QED BY <1>1, <1>3, <3>1, <3>2
  <2>2. CASE ~ (i <= b - a)
    <3> DEFINE j == i - (b - a)
    <3>1. j \in 1..Len(y) /\ j \in 1..c - b /\ Len(x) + j = i /\ b + j = a + i
      BY <1>1, <1>2, <2>2
    <3> HIDE DEF j
    <3>2. (x \o y)[Len(x) + j] = y[j]
      BY <1>1, <1>2, <3>1, JoinFact
    <3>3. y[j] = s[b + j] /\ z[i] = s[a + i]
      BY <1>2, <1>3, <3>1
    <3> QED BY <3>1, <3>2, <3>3
  <2> QED BY <2>1, <2>2
<1>6. x \o y = z
  <2>1. /\ Len(x \o y) = Len(z) /\ Len(z) \in Nat
        /\ \A i \in 1..Len(z) : (x \o y)[i] = z[i]
    BY <1>3, <1>4, <1>5
  <2>2. z \in Seq(M) /\ x \o y \in Seq(M)
    BY <1>3, <1>4
  <2> QED BY <2>1, <2>2, SeqEqual
<1> QED BY <1>6 DEF x, y, z

\* A part of one message.
LEMMA OnePart ==
    ASSUME NEW M, NEW s \in Seq(M), NEW n \in 1..Len(s)
    PROVE  SubSeq(s, n, n) = <<s[n]>>
<1> DEFINE x == SubSeq(s, n, n)
           y == <<s[n]>>
<1>1. x \in Seq(M) /\ Len(x) = 1 /\ x[1] = s[n]
  OBVIOUS
<1>2. y \in Seq(M) /\ Len(y) = 1 /\ y[1] = s[n]
  OBVIOUS
<1> HIDE DEF x, y
<1>3. \A i \in 1..Len(y) : x[i] = y[i]
  BY <1>1, <1>2
<1>4. x = y
  BY <1>1, <1>2, <1>3, SeqEqual
<1> QED BY <1>4 DEF x, y

\* Rounds are lists of messages.
LEMMA RoundTypes ==
    ASSUME NEW M, NEW r \in Seq(Seq(M)), NEW m \in M
    PROVE  IntoRounds(r, m) \in Seq(Seq(M))
<1>1. <<m>> \in Seq(M)
  OBVIOUS
<1>2. CASE r = <<>> \/ m.role = "user"
  BY <1>1, <1>2 DEF IntoRounds
<1>3. CASE ~ (r = <<>> \/ m.role = "user")
  <2>1. Len(r) \in 1..Len(r) /\ r[Len(r)] \in Seq(M)
    BY <1>3
  <2>2. Append(r[Len(r)], m) \in Seq(M)
    BY <2>1
  <2>3. [r EXCEPT ![Len(r)] = Append(@, m)] \in Seq(Seq(M))
    BY <2>1, <2>2, ExceptSeq
  <2> QED BY <1>3, <2>3 DEF IntoRounds
<1> QED BY <1>2, <1>3

\* split_into_rounds goes from each message to the next.
LEMMA RoundsFold ==
    ASSUME NEW M, NEW ms \in Seq(M)
    PROVE  \E f : /\ f[0] = <<>>
                  /\ \A n \in 1..Len(ms) : f[n] = IntoRounds(f[n - 1], ms[n])
                  /\ Rounds(ms) = f[Len(ms)]
<1> DEFINE X == Seq(Seq(M))
           one == [y \in X \X M |-> IntoRounds(y[1], y[2])]
           It(iter) == iter = [S \in SUBSET (DOMAIN ms) |->
                    IF S = {} THEN <<>>
                              ELSE IntoRounds(iter[S \ {Max(S)}], ms[Max(S)])]
           it == CHOOSE iter : It(iter)
<1>1. Rounds(ms) = it[DOMAIN ms]
  BY DEF Rounds, FoldLeft, MapThenFoldSet
<1>2. DOMAIN ms = 1..Len(ms) /\ Len(ms) \in Nat
  OBVIOUS
<1>3. one \in [X \X M -> X] /\ <<>> \in X
  BY RoundTypes
<1>4. PICK iter : Iterates(iter, X, <<>>, one, ms, Len(ms))
  <2> HIDE DEF X, one
  <2> QED BY <1>3, IterFact
<1>5. ASSUME NEW S \in SUBSET (DOMAIN ms), S # {}
      PROVE  iter[S] = IntoRounds(iter[S \ {Max(S)}], ms[Max(S)])
  <2>1. Max(S) \in S /\ Max(S) \in 1..Len(ms)
    BY <1>2, <1>5, MaxFact
  <2>2. (S \ {Max(S)}) \in SUBSET (1..Len(ms)) /\ S \in SUBSET (1..Len(ms))
    BY <1>2
  <2>3. iter[S \ {Max(S)}] \in X /\ ms[Max(S)] \in M
    BY <1>4, <2>1, <2>2 DEF Iterates
  <2>4. iter[S] = one[<<iter[S \ {Max(S)}], ms[Max(S)]>>]
    BY <1>4, <1>5, <2>2 DEF Iterates
  <2> QED BY <2>3, <2>4
<1>6. It(iter)
  <2>1. iter \in [SUBSET (DOMAIN ms) -> X]
    BY <1>2, <1>4 DEF Iterates
  <2>2. iter[{}] = <<>>
    BY <1>4 DEF Iterates
  <2> HIDE DEF X
  <2> QED BY <1>5, <2>1, <2>2
<1>7. It(it)
  <2> HIDE DEF It
  <2> QED BY <1>6
<1> HIDE DEF it
<1>8. ASSUME NEW S \in SUBSET (1..Len(ms))
      PROVE  it[S] = IF S = {} THEN <<>>
                     ELSE IntoRounds(it[S \ {Max(S)}], ms[Max(S)])
  BY <1>2, <1>7
<1> DEFINE f == [n \in 0..Len(ms) |-> it[1..n]]
<1>9. f[0] = <<>>
  <2>1. 1..0 = {} /\ 0 \in 0..Len(ms)
    BY <1>2
  <2> QED BY <1>8, <2>1
<1>10. ASSUME NEW n \in 1..Len(ms) PROVE f[n] = IntoRounds(f[n - 1], ms[n])
  <2>1. Max(1..n) = n /\ (1..n) \ {n} = 1..(n - 1) /\ 1..n # {}
    BY UpToFact
  <2>2. n \in 0..Len(ms) /\ n - 1 \in 0..Len(ms) /\ (1..n) \in SUBSET (1..Len(ms))
    BY <1>2
  <2>3. it[1..n] = IntoRounds(it[1..(n - 1)], ms[n])
    BY <1>8, <2>1, <2>2
  <2> QED BY <2>2, <2>3
<1>11. f[Len(ms)] = it[DOMAIN ms]
  BY <1>2
<1> HIDE DEF f
<1> QED BY <1>1, <1>9, <1>10, <1>11

\* The rounds r of the first n messages end at e, and each later one begins with a user.
Ends(e, r, ms, n) ==
    /\ e[0] = 0 /\ e[Len(r)] = n
    /\ \A k \in 1..Len(r) :
        /\ e[k - 1] \in Nat /\ e[k] \in Nat /\ e[k - 1] <= e[k] /\ e[k] <= n
        /\ r[k] = SubSeq(ms, e[k - 1] + 1, e[k])
    /\ \A k \in 1..Len(r) - 1 : ms[e[k] + 1].role = "user"

\* One more message belongs to the last round or begins another.
LEMMA RoundStep ==
    ASSUME NEW M, NEW ms \in Seq(M), NEW n \in 1..Len(ms), NEW r \in Seq(Seq(M)),
           NEW e, Ends(e, r, ms, n - 1)
    PROVE  \E d : Ends(d, IntoRounds(r, ms[n]), ms, n)
<1> DEFINE m == ms[n]
           t == IntoRounds(r, m)
           len == Len(r)
<1>0. len \in Nat /\ Len(ms) \in Nat /\ n \in Nat /\ m \in M /\ n - 1 \in Nat /\ n - 1 + 1 = n
  OBVIOUS
<1>1. /\ e[0] = 0 /\ e[len] = n - 1
      /\ \A k \in 1..len :
          /\ e[k - 1] \in Nat /\ e[k] \in Nat /\ e[k - 1] <= e[k] /\ e[k] <= n - 1
          /\ r[k] = SubSeq(ms, e[k - 1] + 1, e[k])
      /\ \A k \in 1..len - 1 : ms[e[k] + 1].role = "user"
  BY DEF Ends
<1>2. SubSeq(ms, n, n) = <<m>>
  BY OnePart
<1>3. CASE r = <<>> \/ m.role = "user"
  <2> DEFINE d == [k \in 0..len + 1 |-> IF k <= len THEN e[k] ELSE n]
  <2>1. t = Append(r, <<m>>)
    BY <1>3 DEF IntoRounds
  <2>2. /\ Len(t) = len + 1 /\ t[len + 1] = <<m>> /\ \A k \in 1..len : t[k] = r[k]
    BY <1>0, <2>1
  <2>3. \A k \in 1..len : d[k] = e[k] /\ d[k - 1] = e[k - 1]
    BY <1>0
  <2>4. d[0] = 0 /\ d[len] = n - 1 /\ d[len + 1] = n
    BY <1>0, <1>1
  <2> HIDE DEF d, t, m, len
  <2>5. ASSUME NEW k \in 1..len + 1
        PROVE  /\ d[k - 1] \in Nat /\ d[k] \in Nat /\ d[k - 1] <= d[k] /\ d[k] <= n
               /\ t[k] = SubSeq(ms, d[k - 1] + 1, d[k])
    <3>1. CASE k \in 1..len
      <4>1. /\ e[k - 1] \in Nat /\ e[k] \in Nat /\ e[k - 1] <= e[k] /\ e[k] <= n - 1
            /\ r[k] = SubSeq(ms, e[k - 1] + 1, e[k])
        BY <1>1, <3>1
      <4>2. d[k] = e[k] /\ d[k - 1] = e[k - 1] /\ t[k] = r[k]
        BY <2>2, <2>3, <3>1
      <4> QED BY <1>0, <4>1, <4>2
    <3>2. CASE k = len + 1
      <4>1. k - 1 = len
        BY <1>0, <3>2
      <4>2. d[k - 1] = n - 1 /\ d[k] = n /\ t[k] = <<m>>
        BY <2>2, <2>4, <3>2, <4>1
      <4>3. d[k - 1] + 1 = n
        BY <1>0, <4>2
      <4>4. t[k] = SubSeq(ms, d[k - 1] + 1, d[k])
        BY <1>2, <4>2, <4>3
      <4>5. n \in Nat /\ n - 1 \in Nat /\ n - 1 <= n
        BY <1>0
      <4>6. d[k - 1] \in Nat /\ d[k] \in Nat /\ d[k - 1] <= d[k] /\ d[k] <= n
        BY <4>2, <4>5
      <4> QED BY <4>4, <4>6
    <3> QED BY <1>0, <3>1, <3>2
  <2>6. ASSUME NEW k \in 1..(len + 1) - 1 PROVE ms[d[k] + 1].role = "user"
    <3>0. k \in 1..len
      BY <1>0
    <3>1. CASE k \in 1..len - 1
      BY <1>1, <2>3, <3>0, <3>1
    <3>2. CASE k = len
      <4>1. r # <<>>
        BY <1>0, <3>0 DEF len
      <4>2. d[k] + 1 = n
        BY <1>0, <2>4, <3>2
      <4> QED BY <1>3, <4>1, <4>2 DEF m
    <3> QED BY <1>0, <3>0, <3>1, <3>2
  <2>7. Ends(d, t, ms, n)
    BY <2>2, <2>4, <2>5, <2>6 DEF Ends
  <2> QED BY <2>7 DEF t, m
<1>4. CASE ~ (r = <<>> \/ m.role = "user")
  <2> DEFINE d == [k \in 0..len |-> IF k = len THEN n ELSE e[k]]
             o == Append(r[len], m)
  <2>0. len \in 1..len /\ len - 1 \in Nat /\ r[len] \in Seq(M)
    BY <1>4
  <2>1. t = [r EXCEPT ![len] = o]
    BY <1>4 DEF IntoRounds
  <2>2. Len(t) = len /\ t[len] = o /\ \A k \in 1..len - 1 : t[k] = r[k]
    <3> HIDE DEF t, o
    <3> QED BY <2>0, <2>1
  <2>3. \A k \in 1..len - 1 : d[k] = e[k] /\ d[k - 1] = e[k - 1]
    BY <1>0
  <2>4. d[0] = 0 /\ d[len - 1] = e[len - 1] /\ d[len] = n
    BY <1>0, <1>1, <2>0
  <2>5. /\ e[len - 1] \in Nat /\ e[len - 1] <= n - 1
        /\ r[len] = SubSeq(ms, e[len - 1] + 1, n - 1)
    BY <1>1, <2>0
  <2>6. o = SubSeq(ms, e[len - 1] + 1, n)
    <3>1. o = r[len] \o <<m>>
      <4>1. r[len] \in Seq(M) /\ m \in M
        BY <1>0, <2>0
      <4> HIDE DEF m, len
      <4> QED BY <4>1, AppendFact
    <3>2. SubSeq(ms, e[len - 1] + 1, n - 1) \o SubSeq(ms, n - 1 + 1, n)
            = SubSeq(ms, e[len - 1] + 1, n)
      <4> DEFINE a == e[len - 1]
                 b == n - 1
      <4>1. a \in Nat /\ b \in Nat /\ a <= b /\ b <= n /\ n <= Len(ms)
        BY <1>0, <2>5
      <4> HIDE DEF a, b
      <4>2. SubSeq(ms, a + 1, b) \o SubSeq(ms, b + 1, n) = SubSeq(ms, a + 1, n)
        BY <1>0, <4>1, PartsJoin
      <4> QED BY <4>2 DEF a, b
    <3> HIDE DEF o
    <3> QED BY <1>0, <1>2, <2>5, <3>1, <3>2
  <2> HIDE DEF d, t, m, len, o
  <2>7. ASSUME NEW k \in 1..len
        PROVE  /\ d[k - 1] \in Nat /\ d[k] \in Nat /\ d[k - 1] <= d[k] /\ d[k] <= n
               /\ t[k] = SubSeq(ms, d[k - 1] + 1, d[k])
    <3>1. CASE k \in 1..len - 1
      <4>1. /\ e[k - 1] \in Nat /\ e[k] \in Nat /\ e[k - 1] <= e[k] /\ e[k] <= n - 1
            /\ r[k] = SubSeq(ms, e[k - 1] + 1, e[k])
        BY <1>1
      <4>2. d[k] = e[k] /\ d[k - 1] = e[k - 1] /\ t[k] = r[k]
        BY <2>2, <2>3, <3>1
      <4> QED BY <1>0, <4>1, <4>2
    <3>2. CASE k = len
      <4>1. d[k - 1] = e[len - 1] /\ d[k] = n /\ t[k] = o
        BY <2>2, <2>4, <3>2
      <4>2. e[len - 1] <= n
        BY <1>0, <2>5
      <4> QED BY <1>0, <2>5, <2>6, <4>1, <4>2
    <3> QED BY <1>0, <3>1, <3>2
  <2>8. \A k \in 1..len - 1 : ms[d[k] + 1].role = "user"
    BY <1>1, <2>3
  <2>9. Ends(d, t, ms, n)
    BY <2>2, <2>4, <2>7, <2>8 DEF Ends
  <2> QED BY <2>9 DEF t, m
<1> QED BY <1>3, <1>4

\* The rounds are the messages, in parts.
LEMMA RoundsFact ==
    ASSUME NEW M, NEW ms \in Seq(M)
    PROVE  Rounds(ms) \in Seq(Seq(M)) /\ \E e : Ends(e, Rounds(ms), ms, Len(ms))
<1>0. Len(ms) \in Nat /\ Len(ms) \in 0..Len(ms)
  OBVIOUS
<1>1. PICK f : /\ f[0] = <<>>
               /\ \A n \in 1..Len(ms) : f[n] = IntoRounds(f[n - 1], ms[n])
               /\ Rounds(ms) = f[Len(ms)]
  BY RoundsFold
<1> DEFINE G == {n \in 0..Len(ms) : f[n] \in Seq(Seq(M)) /\ \E e : Ends(e, f[n], ms, n)}
<1>2. 0 \in G
  <2>1. Len(<<>>) = 0 /\ <<>> \in Seq(Seq(M))
    OBVIOUS
  <2>2. Ends([k \in 0..0 |-> 0], <<>>, ms, 0)
    BY <2>1 DEF Ends
  <2>3. 0 \in 0..Len(ms) /\ f[0] \in Seq(Seq(M)) /\ \E e : Ends(e, f[0], ms, 0)
    BY <1>0, <1>1, <2>1, <2>2
  <2> QED BY <2>3
<1>3. ASSUME NEW n \in 1..Len(ms), n - 1 \in G PROVE n \in G
  <2>1. f[n - 1] \in Seq(Seq(M)) /\ ms[n] \in M
    BY <1>3
  <2>2. PICK e : Ends(e, f[n - 1], ms, n - 1)
    BY <1>3
  <2>3. f[n] \in Seq(Seq(M))
    BY <1>1, <2>1, RoundTypes
  <2>4. \E d : Ends(d, f[n], ms, n)
    BY <1>1, <2>1, <2>2, RoundStep
  <2>5. n \in 0..Len(ms)
    OBVIOUS
  <2> QED BY <2>3, <2>4, <2>5
<1> HIDE DEF G
<1>4. Len(ms) \in G
  BY <1>0, <1>2, <1>3, PlacesFact
<1> QED BY <1>1, <1>4 DEF G

\* Where one round ends.
LEMMA EndsAt ==
    ASSUME NEW e, NEW r, NEW ms, NEW n, Ends(e, r, ms, n), NEW k \in 1..Len(r)
    PROVE  /\ e[k - 1] \in Nat /\ e[k] \in Nat /\ e[k - 1] <= e[k] /\ e[k] <= n
           /\ r[k] = SubSeq(ms, e[k - 1] + 1, e[k])
  BY DEF Ends

\* Put together again, the last rounds are the last messages.
LEMMA FlatFact ==
    ASSUME NEW M, NEW ms \in Seq(M), NEW r \in Seq(Seq(M)), NEW e,
           Ends(e, r, ms, Len(ms)), NEW old \in 0..Len(r), old # Len(r)
    PROVE  FlattenSeq(DropFirst(r, old)) = DropFirst(ms, e[old])
<1> DEFINE s == DropFirst(r, old)
           len == Len(r) - old
           c == e[old]
<1>0. /\ s \in Seq(Seq(M)) /\ Len(s) = len /\ len \in Nat \ {0} /\ old \in Nat
      /\ \A i \in 1..len : s[i] = r[old + i] /\ old + i \in 1..Len(r)
  BY DropFact
<1>1. ASSUME NEW i \in 1..len
      PROVE  /\ e[old + i - 1] \in Nat /\ e[old + i] \in Nat /\ e[old + i - 1] <= e[old + i]
             /\ e[old + i] <= Len(ms) /\ s[i] = SubSeq(ms, e[old + i - 1] + 1, e[old + i])
  <2> HIDE DEF s, len
  <2>1. s[i] = r[old + i] /\ old + i \in 1..Len(r)
    BY <1>0
  <2> DEFINE k == old + i
  <2> HIDE DEF k
  <2>2. k \in 1..Len(r)
    BY <2>1 DEF k
  <2>3. /\ e[k - 1] \in Nat /\ e[k] \in Nat /\ e[k - 1] <= e[k] /\ e[k] <= Len(ms)
        /\ r[k] = SubSeq(ms, e[k - 1] + 1, e[k])
    BY <2>2, EndsAt
  <2> QED BY <2>1, <2>3 DEF k
<1>2. e[Len(r)] = Len(ms) /\ old + len = Len(r)
  BY <1>0 DEF Ends
<1> HIDE DEF s, len
<1>3. c \in Nat /\ c = e[old]
  <2>1. 1 \in 1..len /\ old + 1 - 1 = old
    BY <1>0
  <2>2. e[old + 1 - 1] \in Nat
    BY <1>1, <2>1
  <2> QED BY <2>1, <2>2
<1> HIDE DEF c
<1> DEFINE It(fl) == fl = [i \in 1..Len(s) |-> IF i = 1 THEN s[i] ELSE fl[i - 1] \o s[i]]
           it == CHOOSE fl : It(fl)
           w == [i \in 1..Len(s) |-> SubSeq(ms, c + 1, e[old + i])]
<1>4. FlattenSeq(s) = it[len]
  BY <1>0 DEF FlattenSeq
<1>5. ASSUME NEW i \in 1..len PROVE c <= e[old + i] /\ e[old + i] \in Nat
  <2> DEFINE G == {k \in 0..len : c <= e[old + k]}
  <2>1. 0 \in G
    <3>1. old + 0 = old /\ 0 \in 0..len
      BY <1>0
    <3> QED BY <1>3, <3>1
  <2>2. ASSUME NEW k \in 1..len, k - 1 \in G PROVE k \in G
    <3>1. old + (k - 1) = old + k - 1 /\ k \in 0..len
      BY <1>0
    <3>2. c <= e[old + k - 1]
      BY <2>2, <3>1
    <3>3. e[old + k - 1] \in Nat /\ e[old + k] \in Nat /\ e[old + k - 1] <= e[old + k]
      BY <1>1
    <3>4. c <= e[old + k]
      BY <1>3, <3>2, <3>3
    <3> QED BY <3>1, <3>4
  <2> HIDE DEF G
  <2>3. i \in G
    <3>1. i \in 0..len /\ len \in Nat
      BY <1>0
    <3> QED BY <2>1, <2>2, <3>1, PlacesFact
  <2> QED BY <1>1, <2>3 DEF G
<1>6. ASSUME NEW i \in 1..len PROVE w[i] = IF i = 1 THEN s[i] ELSE w[i - 1] \o s[i]
  <2>0. w[i] = SubSeq(ms, c + 1, e[old + i])
    BY <1>0
  <2>1. CASE i = 1
    <3>1. old + i - 1 = old
      BY <1>0, <2>1
    <3> QED BY <1>1, <1>3, <2>0, <2>1, <3>1
  <2>2. CASE i # 1
    <3>1. i - 1 \in 1..len /\ old + (i - 1) = old + i - 1
      BY <1>0, <2>2
    <3>2. w[i - 1] = SubSeq(ms, c + 1, e[old + i - 1])
      BY <1>0, <3>1
    <3> DEFINE b == e[old + i - 1]
               d == e[old + i]
    <3>3. b \in Nat /\ d \in Nat /\ c <= b /\ b <= d /\ d <= Len(ms)
      BY <1>1, <1>5, <3>1
    <3>4. s[i] = SubSeq(ms, b + 1, d)
      BY <1>1
    <3> HIDE DEF b, d
    <3>5. SubSeq(ms, c + 1, b) \o SubSeq(ms, b + 1, d) = SubSeq(ms, c + 1, d)
      BY <1>3, <3>3, PartsJoin
    <3> HIDE DEF w
    <3> QED BY <2>0, <2>2, <3>2, <3>4, <3>5 DEF b, d
  <2> QED BY <2>1, <2>2
<1>7. It(w)
  BY <1>0, <1>6
<1> HIDE DEF It
<1>8. It(it)
  BY <1>7
<1> HIDE DEF it
<1>9. ASSUME NEW i \in 1..len PROVE it[i] = IF i = 1 THEN s[i] ELSE it[i - 1] \o s[i]
  BY <1>0, <1>8 DEF It
<1>10. it[len] = w[len]
  <2> HIDE DEF w
  <2> DEFINE G == {k \in 0..len : k = 0 \/ it[k] = w[k]}
  <2>1. 0 \in G
    BY <1>0
  <2>2. ASSUME NEW k \in 1..len, k - 1 \in G PROVE k \in G
    <3>1. k \in 0..len /\ (k # 1 => k - 1 # 0)
      OBVIOUS
    <3>2. it[k] = w[k]
      BY <1>6, <1>9, <2>2, <3>1
    <3> QED BY <3>1, <3>2
  <2> HIDE DEF G
  <2>3. len \in G
    <3>1. len \in Nat /\ len \in 0..len
      BY <1>0
    <3> QED BY <2>1, <2>2, <3>1, PlacesFact
  <2> QED BY <1>0, <2>3 DEF G
<1>11. w[len] = DropFirst(ms, c)
  <2>0. len \in 1..Len(s)
    BY <1>0
  <2>1. w[len] = SubSeq(ms, c + 1, e[old + len])
    BY <2>0 DEF w
  <2> QED BY <1>2, <2>1 DEF DropFirst
<1> QED BY <1>4, <1>10, <1>11 DEF s, c

\* No rounds are no messages.
LEMMA NothingFlat ==
    ASSUME NEW M, NEW r \in Seq(Seq(M))
    PROVE  FlattenSeq(DropFirst(r, Len(r))) = <<>>
<1>1. /\ DropFirst(r, Len(r)) \in Seq(Seq(M)) /\ Len(DropFirst(r, Len(r))) = 0
  <2>1. Len(r) \in 0..Len(r) /\ Len(r) - Len(r) = 0
    OBVIOUS
  <2> QED BY <2>1, DropFact
<1>2. DropFirst(r, Len(r)) = <<>>
  BY <1>1
<1> QED BY <1>1, <1>2 DEF FlattenSeq

\* A compression keeps whole rounds, and so does not separate calls from results.
LEMMA SummarisedGood ==
    ASSUME NEW C, NEW S, NEW ms, Good(ms, C, S), NEW recent \in 0..Len(Rounds(ms))
    PROVE  Good(Summarised(ms, recent), C, S)
<1> DEFINE r == Rounds(ms)
           old == Len(r) - RecentRounds(ms, recent)
           flat == FlattenSeq(DropFirst(r, old))
           p == SystemOf(ms) \o <<Summary, Assistant({})>>
<1>1. ms \in Seq(Msgs(C)) /\ Len(ms) \in Nat
  BY DEF Good, Fit
<1>2. r \in Seq(Seq(Msgs(C))) /\ \E e : Ends(e, r, ms, Len(ms))
  BY <1>1, RoundsFact
<1>3. PICK e : Ends(e, r, ms, Len(ms))
  BY <1>2
<1> HIDE DEF r
<1>4. old \in 0..Len(r)
  <2>1. RecentRounds(ms, recent) \in 0..Len(r)
    <3>1. CASE recent = 0 /\ EndsWithUser(ms)
      <4>1. Len(ms) # 0
        BY <1>1, <3>1 DEF EndsWithUser
      <4>2. Len(r) # 0
        BY <1>3, <4>1 DEF Ends
      <4>3. Len(r) \in Nat
        BY <1>2
      <4> QED BY <3>1, <4>2, <4>3 DEF RecentRounds
    <3>2. CASE ~ (recent = 0 /\ EndsWithUser(ms))
      BY <3>2 DEF RecentRounds, r
    <3> QED BY <3>1, <3>2
  <2>2. Len(r) \in Nat
    BY <1>2
  <2> QED BY <2>1, <2>2
<1> HIDE DEF old
<1>5. Good(flat, C, S)
  <2>1. CASE old = Len(r)
    BY <1>2, <2>1, NothingFlat, EmptyGood
  <2>2. CASE old # Len(r)
    <3>1. flat = DropFirst(ms, e[old])
      BY <1>1, <1>2, <1>3, <1>4, <2>2, FlatFact
    <3>2. old + 1 \in 1..Len(r) /\ old + 1 - 1 = old
      BY <1>2, <1>4, <2>2
    <3>3. e[old + 1 - 1] \in Nat /\ e[old + 1 - 1] <= e[old + 1] /\ e[old + 1] <= Len(ms)
          /\ e[old + 1] \in Nat
      <4> DEFINE k == old + 1
      <4> HIDE DEF k
      <4>1. k \in 1..Len(r)
        BY <3>2 DEF k
      <4>2. e[k - 1] \in Nat /\ e[k - 1] <= e[k] /\ e[k] <= Len(ms) /\ e[k] \in Nat
        BY <1>3, <4>1, EndsAt
      <4>3. k = old + 1 /\ k - 1 = old
        BY <1>2, <1>4 DEF k
      <4> QED BY <4>2, <4>3
    <3>4. e[old] \in 0..Len(ms)
      BY <1>1, <3>2, <3>3
    <3>5. e[old] = 0 \/ ms[e[old] + 1].role # "tool"
      <4>1. CASE old = 0
        BY <1>3, <4>1 DEF Ends
      <4>2. CASE old # 0
        <5>1. old \in 1..Len(r) - 1
          BY <1>2, <1>4, <2>2, <4>2
        <5>2. ms[e[old] + 1].role = "user"
          BY <1>3, <5>1 DEF Ends
        <5> QED BY <5>2
      <4> QED BY <4>1, <4>2
    <3> QED BY <3>1, <3>4, <3>5, DropGood
  <2> QED BY <2>1, <2>2
<1> HIDE DEF flat
<1>6. Good(p, C, S) /\ Plain(p)
  <2>1. SystemOf(ms) \in Seq(Msgs(C)) /\ Plain(SystemOf(ms))
    BY <1>1, SystemFact
  <2> DEFINE q == <<Summary, Assistant({})>>
  <2>2. Summary \in Msgs(C) /\ Assistant({}) \in Msgs(C)
    BY DEF Summary, User, Assistant, Message, Msgs
  <2>3. /\ Summary.role # "tool" /\ Summary.calls = {}
        /\ Assistant({}).role # "tool" /\ Assistant({}).calls = {}
    BY DEF Summary, User, Assistant, Message
  <2>4. q \in Seq(Msgs(C)) /\ Plain(q)
    <3>1. \A x, y \in Msgs(C) :
            /\ <<x, y>> \in Seq(Msgs(C)) /\ \A i \in 1..Len(<<x, y>>) : i = 1 \/ i = 2
            /\ <<x, y>>[1] = x /\ <<x, y>>[2] = y
      OBVIOUS
    <3>2. /\ q \in Seq(Msgs(C)) /\ \A i \in 1..Len(q) : i = 1 \/ i = 2
          /\ q[1] = Summary /\ q[2] = Assistant({})
      BY <2>2, <3>1
    <3> HIDE DEF q
    <3> QED BY <2>3, <3>2 DEF Plain
  <2> HIDE DEF q
  <2>5. \A i \in 1..Len(SystemOf(ms)), j \in 1..Len(q) :
           SystemOf(ms)[i].calls \cap q[j].calls = {}
    BY <2>1 DEF Plain
  <2>6. Good(SystemOf(ms) \o q, C, S)
    BY <2>1, <2>4, <2>5, PlainFact, JoinGood
  <2>7. Plain(SystemOf(ms) \o q)
    BY <2>1, <2>4, JoinFact DEF Plain
  <2> QED BY <2>6, <2>7 DEF q
<1> HIDE DEF p
<1>7. Good(p \o flat, C, S) /\ Good(p \o <<>>, C, S)
  <2>1. \A i \in 1..Len(p), j \in 1..Len(flat) : p[i].calls \cap flat[j].calls = {}
    BY <1>6 DEF Plain
  <2>2. \A i \in 1..Len(p), j \in 1..Len(<<>>) : p[i].calls \cap <<>>[j].calls = {}
    BY <1>6 DEF Plain
  <2> QED BY <1>5, <1>6, <2>1, <2>2, EmptyGood, JoinGood
<1>8. \/ Summarised(ms, recent) = ms
      \/ Summarised(ms, recent) = p \o flat
      \/ Summarised(ms, recent) = p \o <<>>
  BY DEF Summarised, r, old, flat, p
<1> QED BY <1>7, <1>8

\* Nothing that is done to a history before a request separates calls from results.
LEMMA ProcessedGood ==
    ASSUME MaxTurns \in Int, DropTurns \in Int,
           NEW C, NEW S, NEW ms, Good(ms, C, S), NEW x \in Processed(ms)
    PROVE  Good(x, C, S)
<1> DEFINE cut == TruncateByTurns(ms, MaxTurns, DropTurns)
<1>1. Good(cut, C, S)
  BY ByTurnsGood
<1>2. x \in {cut} \cup Compressed(cut) \cup {Halve(c) : c \in Compressed(cut)}
  BY DEF Processed
<1> HIDE DEF cut
<1>3. ASSUME NEW c \in Compressed(cut) PROVE Good(c, C, S)
  <2>1. \/ c = DropOldestTurns(cut, DropTurns) \/ c = cut
        \/ \E recent \in 0..Len(Rounds(cut)) : c = Summarised(cut, recent)
    BY <1>3 DEF Compressed
  <2> QED BY <1>1, <2>1, OldestGood, SummarisedGood
<1> QED BY <1>1, <1>2, <1>3, HalveGood

\* More ids and more silent calls leave a history good.
LEMMA GoodGrows ==
    ASSUME NEW C, NEW S, NEW ms, Good(ms, C, S), NEW D, C \subseteq D, NEW U, S \subseteq U
    PROVE  Good(ms, D, U)
<1>1. ms \in Seq(Msgs(C))
  BY DEF Good, Fit
<1>2. Msgs(C) \subseteq Msgs(D)
  BY DEF Msgs
<1>3. ms \in Seq(Msgs(D))
  BY <1>1, <1>2
<1>4. Answered(ms, U)
  BY DEF Good, Fit, Answered
<1> QED BY <1>3, <1>4 DEF Good, Fit

\* Calls and their results, one at least for each call that is not silent.
LEMMA BlockGood ==
    ASSUME NEW C \in SUBSET Nat, NEW S, NEW given \in SUBSET C, given # {},
           NEW res \in Seq(given),
           \A c \in given \ S : \E i \in 1..Len(res) : res[i] = c
    PROVE  Good(<<Assistant(given)>> \o [i \in DOMAIN res |-> Tool(res[i])], C, S)
<1> DEFINE a == <<Assistant(given)>>
           b == [i \in DOMAIN res |-> Tool(res[i])]
           r == a \o b
<1>1. Assistant(given) \in Msgs(C)
  BY DEF Assistant, Message, Msgs
<1>2. a \in Seq(Msgs(C)) /\ Len(a) = 1 /\ a[1] = Assistant(given)
  BY <1>1
<1>3. \A i \in 1..Len(res) : res[i] \in given /\ Tool(res[i]) \in Msgs(C)
  <2> SUFFICES ASSUME NEW i \in 1..Len(res)
               PROVE  res[i] \in given /\ Tool(res[i]) \in Msgs(C)
    OBVIOUS
  <2>0. res[i] \in given
    OBVIOUS
  <2>1. res[i] \in Nat
    BY <2>0
  <2>2. \A n \in Nat : Tool(n) \in Msgs(C)
    BY DEF Tool, Message, Msgs
  <2> QED BY <2>0, <2>1, <2>2
<1>4. DOMAIN res = 1..Len(res) /\ Len(res) \in Nat
  OBVIOUS
<1>5. /\ b \in Seq(Msgs(C)) /\ Len(b) = Len(res)
      /\ \A i \in 1..Len(res) : b[i] = Tool(res[i])
  <2> SUFFICES b \in [1..Len(res) -> Msgs(C)]
    BY <1>4
  <2> QED BY <1>3, <1>4
<1> HIDE DEF a, b
<1>6. /\ r \in Seq(Msgs(C)) /\ Len(r) = 1 + Len(res)
      /\ r[1] = Assistant(given)
      /\ \A i \in 1..Len(res) : r[1 + i] = Tool(res[i])
      /\ \A k \in 1..Len(r) : k = 1 \/ (k > 1 /\ k - 1 \in 1..Len(res))
  <2>1. /\ r \in Seq(Msgs(C)) /\ Len(r) = Len(a) + Len(b)
        /\ \A i \in 1..Len(a) : r[i] = a[i]
        /\ \A i \in 1..Len(b) : r[Len(a) + i] = b[i]
        /\ \A k \in 1..Len(r) : k \in 1..Len(a) \/ (k > Len(a) /\ k - Len(a) \in 1..Len(b))
    BY <1>2, <1>5, JoinFact
  <2> HIDE DEF r
  <2>2. 1 \in 1..Len(a) /\ \A k \in 1..Len(a) : k = 1
    BY <1>2
  <2> QED BY <1>2, <1>5, <2>1, <2>2
<1> HIDE DEF r
<1>7. r[1].role = "assistant" /\ r[1].calls = given
  BY <1>6 DEF Assistant, Message
<1>8. ASSUME NEW k \in 1..Len(r), k # 1
      PROVE  /\ k - 1 \in 1..Len(res) /\ r[k] = Tool(res[k - 1])
             /\ r[k].role = "tool" /\ r[k].calls = {} /\ r[k].id \in given
  <2>1. k - 1 \in 1..Len(res) /\ 1 + (k - 1) = k
    BY <1>6, <1>8
  <2>2. r[1 + (k - 1)] = Tool(res[k - 1])
    BY <1>6, <2>1
  <2>3. r[k] = Tool(res[k - 1]) /\ res[k - 1] \in given
    BY <1>3, <2>1, <2>2
  <2> QED BY <2>1, <2>3 DEF Tool, Message
<1>9. Len(r) \in Nat /\ 1 \in 1..Len(r)
  BY <1>4, <1>6
<1>10. Linked(r)
  <2> SUFFICES ASSUME NEW i \in 1..Len(r), NEW k \in 1..Len(r), Follows(r, i, k),
                      r[i].calls # {}
               PROVE  r[k].id \in r[i].calls
    BY DEF Linked
  <2>1. i = 1
    BY <1>8
  <2>2. k # 1
    BY <2>1 DEF Follows
  <2> QED BY <1>7, <1>8, <2>1, <2>2
<1>11. Answered(r, S)
  <2> SUFFICES ASSUME NEW i \in 1..Len(r), NEW c \in r[i].calls \ S
               PROVE  \E k \in 1..Len(r) : Follows(r, i, k) /\ r[k] = Tool(c)
    BY DEF Answered
  <2>1. i = 1
    BY <1>8
  <2>2. c \in given \ S
    BY <1>7, <2>1
  <2>3. PICK j \in 1..Len(res) : res[j] = c
    BY <2>2
  <2>4. 1 + j \in 1..Len(r) /\ 1 < 1 + j
    BY <1>4, <1>6
  <2>5. \A l \in 1 + 1..1 + j : l \in 1..Len(r) /\ l # 1
    BY <1>4, <1>6
  <2>6. Follows(r, 1, 1 + j)
    BY <1>8, <2>4, <2>5 DEF Follows
  <2> QED BY <1>6, <2>1, <2>3, <2>4, <2>6
<1>12. Distinct(r)
  <2> SUFFICES ASSUME NEW i \in 1..Len(r), NEW j \in 1..Len(r), i # j
               PROVE  r[i].calls \cap r[j].calls = {}
    BY DEF Distinct
  <2>1. i # 1 \/ j # 1
    OBVIOUS
  <2> QED BY <1>8, <2>1
<1>13. NoOrphanIn(r)
  <2> SUFFICES ASSUME NEW i \in 1..Len(r), r[i].role = "tool" PROVE AnswersCall(r, i)
    BY <1>6 DEF NoOrphanIn
  <2>1. i # 1 /\ 1 \in 1..i - 1
    BY <1>7
  <2>2. \A l \in 1 + 1..i - 1 : l \in 1..Len(r) /\ l # 1
    BY <1>9
  <2>3. r[i].id \in r[1].calls
    BY <1>7, <1>8, <2>1
  <2>4. \A l \in 1 + 1..i - 1 : r[l].role = "tool"
    BY <1>8, <2>2
  <2> QED BY <2>1, <2>3, <2>4 DEF AnswersCall
<1> QED BY <1>6, <1>10, <1>11, <1>12, <1>13 DEF Good, Fit, r, a, b

----------------------------------------------------------------------------
(* _sanitize_assistant_messages                                            *)

SaneStates(M, C) == [sent : Seq(M), open : SUBSET C]
SaneBase == [sent |-> <<>>, open |-> {}]

\* What _sanitize_assistant_messages has passed on so far, and the calls that are open.
LEMMA SaneTypes ==
    ASSUME NEW C, NEW a \in SaneStates(Msgs(C), C), NEW m \in Msgs(C)
    PROVE  SanitizeOne(a, m) \in SaneStates(Msgs(C), C)
<1>1. /\ a.sent \in Seq(Msgs(C)) /\ a.open \in SUBSET C /\ m.calls \in SUBSET C
      /\ a.open \ {m.id} \in SUBSET C
  BY DEF SaneStates, Msgs
<1>2. Append(a.sent, m) \in Seq(Msgs(C))
  BY <1>1
<1> QED BY <1>1, <1>2 DEF SanitizeOne, SaneStates

\* So does _sanitize_assistant_messages.
LEMMA SaneFold ==
    ASSUME NEW C, NEW ms \in Seq(Msgs(C))
    PROVE  \E f : /\ f[0] = SaneBase
                  /\ \A n \in 1..Len(ms) : f[n] = SanitizeOne(f[n - 1], ms[n])
                  /\ Sanitize(ms) = f[Len(ms)].sent
<1> DEFINE M == Msgs(C)
           X == SaneStates(M, C)
           one == [y \in X \X M |-> SanitizeOne(y[1], y[2])]
           It(iter) == iter = [S \in SUBSET (DOMAIN ms) |->
                    IF S = {} THEN SaneBase
                              ELSE SanitizeOne(iter[S \ {Max(S)}], ms[Max(S)])]
           it == CHOOSE iter : It(iter)
<1>1. Sanitize(ms) = it[DOMAIN ms].sent
  BY DEF Sanitize, FoldLeft, MapThenFoldSet, SaneBase
<1>2. DOMAIN ms = 1..Len(ms) /\ Len(ms) \in Nat
  OBVIOUS
<1>3. one \in [X \X M -> X] /\ SaneBase \in X
  <2>1. \A y \in X \X M : SanitizeOne(y[1], y[2]) \in X
    BY SaneTypes
  <2>2. <<>> \in Seq(M)
    OBVIOUS
  <2> QED BY <2>1, <2>2 DEF SaneStates, SaneBase
<1>4. PICK iter : Iterates(iter, X, SaneBase, one, ms, Len(ms))
  <2> HIDE DEF X, one, M
  <2> QED BY <1>3, IterFact DEF M
<1>5. ASSUME NEW S \in SUBSET (DOMAIN ms), S # {}
      PROVE  iter[S] = SanitizeOne(iter[S \ {Max(S)}], ms[Max(S)])
  <2>1. Max(S) \in S /\ Max(S) \in 1..Len(ms)
    BY <1>2, <1>5, MaxFact
  <2>2. (S \ {Max(S)}) \in SUBSET (1..Len(ms)) /\ S \in SUBSET (1..Len(ms))
    BY <1>2
  <2>3. iter[S \ {Max(S)}] \in X /\ ms[Max(S)] \in M
    BY <1>4, <2>1, <2>2 DEF Iterates
  <2>4. iter[S] = one[<<iter[S \ {Max(S)}], ms[Max(S)]>>]
    BY <1>4, <1>5, <2>2 DEF Iterates
  <2> QED BY <2>3, <2>4
<1>6. It(iter)
  <2>1. iter \in [SUBSET (DOMAIN ms) -> X]
    BY <1>2, <1>4 DEF Iterates
  <2>2. iter[{}] = SaneBase
    BY <1>4 DEF Iterates
  <2> HIDE DEF X
  <2> QED BY <1>5, <2>1, <2>2
<1>7. It(it)
  <2> HIDE DEF It
  <2> QED BY <1>6
<1> HIDE DEF it
<1>8. ASSUME NEW S \in SUBSET (1..Len(ms))
      PROVE  it[S] = IF S = {} THEN SaneBase
                     ELSE SanitizeOne(it[S \ {Max(S)}], ms[Max(S)])
  BY <1>2, <1>7
<1> DEFINE f == [n \in 0..Len(ms) |-> it[1..n]]
<1>9. f[0] = SaneBase
  <2>1. 1..0 = {} /\ 0 \in 0..Len(ms)
    BY <1>2
  <2> QED BY <1>8, <2>1
<1>10. ASSUME NEW n \in 1..Len(ms) PROVE f[n] = SanitizeOne(f[n - 1], ms[n])
  <2>1. Max(1..n) = n /\ (1..n) \ {n} = 1..(n - 1) /\ 1..n # {}
    BY UpToFact
  <2>2. n \in 0..Len(ms) /\ n - 1 \in 0..Len(ms) /\ (1..n) \in SUBSET (1..Len(ms))
    BY <1>2
  <2>3. it[1..n] = SanitizeOne(it[1..(n - 1)], ms[n])
    BY <1>8, <2>1, <2>2
  <2> QED BY <2>2, <2>3
<1>11. f[Len(ms)] = it[DOMAIN ms]
  BY <1>2
<1> HIDE DEF f
<1> QED BY <1>1, <1>9, <1>10, <1>11

\* What it knows after n messages. Those it passes on are among them, and none is
\* without its call;
Passed(ms, a, n) ==
    /\ \A i \in 1..Len(a.sent) : \E k \in 1..n : a.sent[i] = ms[k]
    /\ NoOrphanIn(a.sent)

\* an open call is one of the last message passed on that is no result, and has none
\* yet; a call has at most one;
Opened(a) ==
    /\ \A c \in a.open :
        /\ \E j \in 1..Len(a.sent) :
              c \in a.sent[j].calls /\ \A k \in j + 1..Len(a.sent) : a.sent[k].role = "tool"
        /\ \A j \in 1..Len(a.sent) : a.sent[j] # Tool(c)
    /\ \A i, j \in 1..Len(a.sent) :
        a.sent[i].role = "tool" /\ a.sent[i] = a.sent[j] => i = j

\* a call with nothing but results after it is open or has its result, and whatever
\* is the result of a call is passed on once.
Closed(ms, a, n) ==
    /\ \A k \in 1..n : \A c \in ms[k].calls :
        (\A l \in k + 1..n : ms[l].role = "tool") =>
            c \in a.open \/ \E j \in 1..Len(a.sent) : a.sent[j] = Tool(c)
    /\ \A k, l \in 1..n : Follows(ms, k, l) /\ ms[l].id \in ms[k].calls =>
            \E j \in 1..Len(a.sent) : a.sent[j] = ms[l]

SaneKnows(ms, a, n, C) ==
    a \in SaneStates(Msgs(C), C) /\ Passed(ms, a, n) /\ Opened(a) /\ Closed(ms, a, n)

\* A result is told by its call.
LEMMA ToolFact ==
    ASSUME NEW C, NEW m \in Msgs(C), m.role = "tool"
    PROVE  m = Tool(m.id) /\ m.calls = {}
<1>1. m.calls = {}
  BY DEF Msgs
<1>2. m = [role |-> m.role, calls |-> m.calls, id |-> m.id]
  BY DEF Msgs
<1> QED BY <1>1, <1>2 DEF Tool, Message

\* A message at the end is no orphan if it has its call, or is no result.
LEMMA AppendOrphan ==
    ASSUME NEW M, NEW s \in Seq(M), NoOrphanIn(s), NEW m \in M,
           m.role = "tool" =>
                \E j \in 1..Len(s) : /\ m.id \in s[j].calls
                                     /\ \A k \in j + 1..Len(s) : s[k].role = "tool"
    PROVE  NoOrphanIn(Append(s, m))
<1> DEFINE t == Append(s, m)
<1>1. /\ t \in Seq(M) /\ Len(t) = Len(s) + 1 /\ Len(s) \in Nat
      /\ \A i \in 1..Len(s) : t[i] = s[i]
      /\ t[Len(s) + 1] = m
      /\ \A i \in 1..Len(t) : i \in 1..Len(s) \/ i = Len(s) + 1
  BY AppendFact
<1> HIDE DEF t
<1> SUFFICES ASSUME NEW i \in 1..Len(t), t[i].role = "tool" PROVE AnswersCall(t, i)
  BY <1>1 DEF NoOrphanIn, t
<1>2. CASE i \in 1..Len(s)
  <2>1. i \in DOMAIN s /\ s[i].role = "tool" /\ t[i] = s[i]
    BY <1>1, <1>2
  <2>2. PICK j \in 1..i - 1 : /\ s[i].id \in s[j].calls
                              /\ \A k \in j + 1..i - 1 : s[k].role = "tool"
    BY <2>1 DEF NoOrphanIn, AnswersCall
  <2>3. j \in 1..Len(s) /\ \A k \in j + 1..i - 1 : k \in 1..Len(s)
    BY <1>1, <1>2
  <2> QED BY <1>1, <2>1, <2>2, <2>3 DEF AnswersCall
<1>3. CASE i = Len(s) + 1
  <2>1. PICK j \in 1..Len(s) : /\ m.id \in s[j].calls
                               /\ \A k \in j + 1..Len(s) : s[k].role = "tool"
    BY <1>1, <1>3
  <2>2. i - 1 = Len(s) /\ \A k \in j + 1..Len(s) : k \in 1..Len(s)
    BY <1>1, <1>3
  <2>3. \A k \in j + 1..i - 1 : t[k].role = "tool"
    BY <1>1, <2>1, <2>2
  <2> QED BY <1>1, <1>3, <2>1, <2>2, <2>3 DEF AnswersCall
<1> QED BY <1>1, <1>2, <1>3

\* A result is passed on if its call is open,
LEMMA SaneTool ==
    ASSUME NEW C, NEW S, NEW ms, Good(ms, C, S), NEW n \in 1..Len(ms),
           NEW a, SaneKnows(ms, a, n - 1, C), ms[n].role = "tool"
    PROVE  SaneKnows(ms, SanitizeOne(a, ms[n]), n, C)
<1> DEFINE m == ms[n]
           b == SanitizeOne(a, m)
           s == a.sent
           t == b.sent
           c == m.id
<1>0. /\ ms \in Seq(Msgs(C)) /\ n \in Nat /\ Len(ms) \in Nat /\ m \in Msgs(C)
      /\ \A k \in 1..n : k \in 1..n - 1 \/ k = n
      /\ \A k \in 1..n - 1 : k \in 1..n
  BY DEF Good, Fit
<1>1. /\ a \in SaneStates(Msgs(C), C) /\ Passed(ms, a, n - 1) /\ Opened(a)
      /\ Closed(ms, a, n - 1)
  BY DEF SaneKnows
<1>2. b \in SaneStates(Msgs(C), C)
  BY <1>0, <1>1, SaneTypes
<1>3. s \in Seq(Msgs(C)) /\ Len(s) \in Nat
  BY <1>1 DEF SaneStates
<1>4. m = Tool(c) /\ m.calls = {} /\ m.role = "tool" /\ ms[n] = m
  BY <1>0, ToolFact
<1>5. b = IF c \in a.open THEN [sent |-> Append(s, m), open |-> a.open \ {c}] ELSE a
  BY <1>4 DEF SanitizeOne
<1>6. a.sent = s /\ b.sent = t
  OBVIOUS
<1> SUFFICES SaneKnows(ms, b, n, C)
  OBVIOUS
<1> HIDE DEF m, b, s, t, c
\* What the messages before the last one leave open.
<1>7. ASSUME NEW k \in 1..n, NEW d \in ms[k].calls,
             \A l \in k + 1..n : ms[l].role = "tool"
      PROVE  d \in a.open \/ \E j \in 1..Len(s) : s[j] = Tool(d)
  <2>1. k \in 1..n - 1
    BY <1>0, <1>4, <1>7
  <2>2. \A l \in k + 1..n - 1 : l \in k + 1..n
    BY <1>0
  <2> QED BY <1>1, <1>6, <1>7, <2>1, <2>2 DEF Closed
<1>8. ASSUME NEW k \in 1..n, Follows(ms, k, n), c \in ms[k].calls
      PROVE  c \in a.open \/ \E j \in 1..Len(s) : s[j] = m
  BY <1>4, <1>7, <1>8 DEF Follows
<1>9. ASSUME NEW k \in 1..n, NEW l \in 1..n - 1, Follows(ms, k, l), ms[l].id \in ms[k].calls
      PROVE  \E j \in 1..Len(s) : s[j] = ms[l]
  <2>1. k \in 1..n - 1
    BY <1>0, <1>9 DEF Follows
  <2> QED BY <1>1, <1>6, <1>9, <2>1 DEF Closed
<1>10. CASE c \notin a.open
  <2>1. b = a
    BY <1>5, <1>10
  <2>2. Passed(ms, b, n)
    BY <1>0, <1>1, <2>1 DEF Passed
  <2>3. \A k \in 1..n : \A d \in ms[k].calls :
          (\A l \in k + 1..n : ms[l].role = "tool") =>
                d \in a.open \/ \E j \in 1..Len(s) : s[j] = Tool(d)
    BY <1>7
  <2>4. ASSUME NEW k \in 1..n, NEW l \in 1..n, Follows(ms, k, l), ms[l].id \in ms[k].calls
        PROVE  \E j \in 1..Len(s) : s[j] = ms[l]
    <3>1. CASE l = n
      <4>1. c \in ms[k].calls /\ Follows(ms, k, n)
        BY <1>4, <2>4, <3>1 DEF c
      <4> QED BY <1>4, <1>8, <1>10, <3>1, <4>1
    <3>2. CASE l \in 1..n - 1
      BY <1>9, <2>4, <3>2
    <3> QED BY <1>0, <3>1, <3>2
  <2>5. Closed(ms, b, n)
    BY <1>6, <2>1, <2>3, <2>4 DEF Closed
  <2> QED BY <1>1, <2>1, <2>2, <2>5 DEF SaneKnows
<1>11. CASE c \in a.open
  <2>1. t = Append(s, m) /\ b.open = a.open \ {c}
    BY <1>5, <1>6, <1>11
  <2>2. /\ Len(t) = Len(s) + 1
        /\ \A i \in 1..Len(s) : t[i] = s[i]
        /\ t[Len(s) + 1] = m
        /\ \A i \in 1..Len(t) : i \in 1..Len(s) \/ i = Len(s) + 1
    <3>1. m \in Msgs(C)
      BY <1>0
    <3> QED BY <1>3, <2>1, <3>1, AppendFact
  <2>3. Len(s) + 1 \in 1..Len(t) /\ \A i \in 1..Len(s) : i \in 1..Len(t)
    BY <1>3, <2>2
  <2>4. Passed(ms, b, n)
    <3>1. ASSUME NEW i \in 1..Len(t) PROVE \E k \in 1..n : t[i] = ms[k]
      <4>1. CASE i \in 1..Len(s)
        BY <1>0, <1>1, <1>6, <2>2, <4>1 DEF Passed
      <4>2. CASE i = Len(s) + 1
        BY <1>0, <1>4, <2>2, <4>2
      <4> QED BY <2>2, <4>1, <4>2
    <3>2. \E j \in 1..Len(s) : c \in s[j].calls /\ \A k \in j + 1..Len(s) : s[k].role = "tool"
      BY <1>1, <1>6, <1>11 DEF Opened
    <3>3. NoOrphanIn(t)
      <4>1. m \in Msgs(C) /\ NoOrphanIn(s)
        BY <1>0, <1>1, <1>6 DEF Passed
      <4> QED BY <1>3, <2>1, <3>2, <4>1, AppendOrphan DEF c
    <3> QED BY <1>6, <3>1, <3>3 DEF Passed
  <2>5. Opened(b)
    <3>1. ASSUME NEW d \in b.open
          PROVE  /\ \E j \in 1..Len(t) :
                       d \in t[j].calls /\ \A k \in j + 1..Len(t) : t[k].role = "tool"
                 /\ \A j \in 1..Len(t) : t[j] # Tool(d)
      <4>1. d \in a.open /\ d # c
        BY <2>1
      <4>2. PICK j \in 1..Len(s) :
                d \in s[j].calls /\ \A k \in j + 1..Len(s) : s[k].role = "tool"
        BY <1>1, <1>6, <4>1 DEF Opened
      <4>3. \A k \in j + 1..Len(t) : (k \in j + 1..Len(s) /\ k \in 1..Len(s)) \/ k = Len(s) + 1
        BY <1>3, <2>2
      <4>4. \A k \in j + 1..Len(t) : t[k].role = "tool"
        BY <1>4, <2>2, <4>2, <4>3
      <4>5. m # Tool(d)
        <5>1. Tool(d).id = d /\ Tool(c).id = c
          BY DEF Tool, Message
        <5> QED BY <1>4, <4>1, <5>1
      <4>6. \A i \in 1..Len(s) : s[i] # Tool(d)
        BY <1>1, <1>6, <4>1 DEF Opened
      <4> QED BY <2>2, <2>3, <4>2, <4>4, <4>5, <4>6
    <3>2. \A i \in 1..Len(s) : s[i] # m
      BY <1>1, <1>4, <1>6, <1>11 DEF Opened
    <3>3. \A i, j \in 1..Len(s) : s[i].role = "tool" /\ s[i] = s[j] => i = j
      BY <1>1, <1>6 DEF Opened
    <3>4. \A i, j \in 1..Len(t) : t[i].role = "tool" /\ t[i] = t[j] => i = j
      BY <2>2, <3>2, <3>3
    <3> QED BY <1>6, <3>1, <3>4 DEF Opened
  <2>6. Closed(ms, b, n)
    <3>1. ASSUME NEW k \in 1..n, NEW d \in ms[k].calls,
                 \A l \in k + 1..n : ms[l].role = "tool"
          PROVE  d \in b.open \/ \E j \in 1..Len(t) : t[j] = Tool(d)
      <4>1. d \in a.open \/ \E j \in 1..Len(s) : s[j] = Tool(d)
        BY <1>7, <3>1
      <4> QED BY <1>4, <2>1, <2>2, <2>3, <4>1
    <3>2. ASSUME NEW k \in 1..n, NEW l \in 1..n, Follows(ms, k, l), ms[l].id \in ms[k].calls
          PROVE  \E j \in 1..Len(t) : t[j] = ms[l]
      <4>1. CASE l = n
        BY <1>4, <2>2, <2>3, <4>1
      <4>2. CASE l \in 1..n - 1
        <5>1. \E j \in 1..Len(s) : s[j] = ms[l]
          BY <1>9, <3>2, <4>2
        <5> QED BY <2>2, <2>3, <5>1
      <4> QED BY <1>0, <4>1, <4>2
    <3> QED BY <1>6, <3>1, <3>2 DEF Closed
  <2> QED BY <1>2, <2>4, <2>5, <2>6 DEF SaneKnows
<1> QED BY <1>10, <1>11

\* and any other message closes what was open.
LEMMA SaneOther ==
    ASSUME NEW C, NEW S, NEW ms, Good(ms, C, S), NEW n \in 1..Len(ms),
           NEW a, SaneKnows(ms, a, n - 1, C), ms[n].role # "tool"
    PROVE  SaneKnows(ms, SanitizeOne(a, ms[n]), n, C)
<1> DEFINE m == ms[n]
           b == SanitizeOne(a, m)
           s == a.sent
           t == b.sent
<1>0. /\ ms \in Seq(Msgs(C)) /\ n \in Nat /\ Len(ms) \in Nat /\ m \in Msgs(C)
      /\ \A k \in 1..n : k \in 1..n - 1 \/ k = n
      /\ \A k \in 1..n - 1 : k \in 1..n
      /\ \A k \in 1..n : k \in 1..Len(ms)
  BY DEF Good, Fit
<1>1. /\ a \in SaneStates(Msgs(C), C) /\ Passed(ms, a, n - 1) /\ Opened(a)
      /\ Closed(ms, a, n - 1)
  BY DEF SaneKnows
<1>2. b \in SaneStates(Msgs(C), C)
  BY <1>0, <1>1, SaneTypes
<1>3. s \in Seq(Msgs(C)) /\ Len(s) \in Nat
  BY <1>1 DEF SaneStates
<1>4. t = Append(s, m) /\ b.open = m.calls
  BY DEF SanitizeOne
<1>5. a.sent = s /\ b.sent = t /\ m.role # "tool" /\ ms[n] = m
  OBVIOUS
<1> SUFFICES SaneKnows(ms, b, n, C)
  OBVIOUS
<1> HIDE DEF m, b, s, t
<1>6. /\ Len(t) = Len(s) + 1
      /\ \A i \in 1..Len(s) : t[i] = s[i]
      /\ t[Len(s) + 1] = m
      /\ \A i \in 1..Len(t) : i \in 1..Len(s) \/ i = Len(s) + 1
  <2>1. m \in Msgs(C)
    BY <1>0
  <2> QED BY <1>3, <1>4, <2>1, AppendFact
<1>7. Len(s) + 1 \in 1..Len(t) /\ \A i \in 1..Len(s) : i \in 1..Len(t)
  BY <1>3, <1>6
<1>8. Passed(ms, b, n)
  <2>1. ASSUME NEW i \in 1..Len(t) PROVE \E k \in 1..n : t[i] = ms[k]
    <3>1. CASE i \in 1..Len(s)
      BY <1>0, <1>1, <1>5, <1>6, <3>1 DEF Passed
    <3>2. CASE i = Len(s) + 1
      BY <1>0, <1>5, <1>6, <3>2
    <3> QED BY <1>6, <3>1, <3>2
  <2>2. NoOrphanIn(t)
    <3>1. m \in Msgs(C) /\ NoOrphanIn(s)
      BY <1>0, <1>1, <1>5 DEF Passed
    <3> QED BY <1>3, <1>4, <1>5, <3>1, AppendOrphan
  <2> QED BY <1>5, <2>1, <2>2 DEF Passed
\* A result that was passed on is one of an earlier call.
<1>9. ASSUME NEW d \in m.calls, NEW j \in 1..Len(s), s[j] = Tool(d) PROVE FALSE
  <2>1. PICK k \in 1..n - 1 : s[j] = ms[k]
    BY <1>1, <1>5 DEF Passed
  <2>2. k \in DOMAIN ms /\ ms[k].role = "tool" /\ ms[k].id = d
    BY <1>0, <1>9, <2>1 DEF Tool, Message
  <2>3. PICK i \in 1..k - 1 : d \in ms[i].calls
    BY <2>2 DEF Good, NoOrphanIn, AnswersCall
  <2>4. i \in 1..Len(ms) /\ i # n
    BY <1>0, <2>1, <2>3
  <2>5. ms[i].calls \cap ms[n].calls = {}
    BY <2>4 DEF Good, Fit, Distinct
  <2> QED BY <1>5, <2>3, <2>5
<1>10. Opened(b)
  <2>1. ASSUME NEW d \in b.open
        PROVE  /\ \E j \in 1..Len(t) :
                     d \in t[j].calls /\ \A k \in j + 1..Len(t) : t[k].role = "tool"
               /\ \A j \in 1..Len(t) : t[j] # Tool(d)
    <3>1. \A k \in (Len(s) + 1) + 1..Len(t) : FALSE
      BY <1>3, <1>6
    <3>2. d \in t[Len(s) + 1].calls
      BY <1>4, <1>6
    <3>3. m # Tool(d)
      BY <1>5 DEF Tool, Message
    <3> QED BY <1>4, <1>6, <1>7, <1>9, <3>1, <3>2, <3>3
  <2>2. \A i, j \in 1..Len(s) : s[i].role = "tool" /\ s[i] = s[j] => i = j
    BY <1>1, <1>5 DEF Opened
  <2>3. \A i, j \in 1..Len(t) : t[i].role = "tool" /\ t[i] = t[j] => i = j
    BY <1>5, <1>6, <2>2
  <2> QED BY <1>5, <2>1, <2>3 DEF Opened
<1>11. Closed(ms, b, n)
  <2>1. ASSUME NEW k \in 1..n, NEW d \in ms[k].calls,
               \A l \in k + 1..n : ms[l].role = "tool"
        PROVE  d \in b.open \/ \E j \in 1..Len(t) : t[j] = Tool(d)
    <3>1. k = n
      <4>1. k # n => n \in k + 1..n
        BY <1>0
      <4> QED BY <1>5, <2>1, <4>1
    <3> QED BY <1>4, <1>5, <3>1
  <2>2. ASSUME NEW k \in 1..n, NEW l \in 1..n, Follows(ms, k, l), ms[l].id \in ms[k].calls
        PROVE  \E j \in 1..Len(t) : t[j] = ms[l]
    <3>1. l # n
      <4>1. l \in k + 1..l
        BY <2>2 DEF Follows
      <4> QED BY <1>5, <2>2, <4>1 DEF Follows
    <3>2. l \in 1..n - 1 /\ k \in 1..n - 1
      BY <1>0, <2>2, <3>1 DEF Follows
    <3>3. \E j \in 1..Len(s) : s[j] = ms[l]
      BY <1>1, <1>5, <2>2, <3>2 DEF Closed
    <3> QED BY <1>6, <1>7, <3>3
  <2> QED BY <1>5, <2>1, <2>2 DEF Closed
<1> QED BY <1>2, <1>8, <1>10, <1>11 DEF SaneKnows

\* What an OpenAI model is sent has one result for each call that is not silent.
LEMMA SaneFact ==
    ASSUME NEW C, NEW S, NEW ms, Good(ms, C, S)
    PROVE  LET sent == Sanitize(ms)
           IN /\ NoOrphanIn(sent)
              /\ \A i \in DOMAIN sent : \A call \in sent[i].calls \ S :
                    Cardinality({j \in DOMAIN sent : sent[j] = Tool(call)}) = 1
<1> DEFINE s == Sanitize(ms)
           n == Len(ms)
<1>0. ms \in Seq(Msgs(C)) /\ n \in Nat /\ n \in 0..n
  BY DEF Good, Fit
<1>1. PICK f : /\ f[0] = SaneBase
               /\ \A k \in 1..n : f[k] = SanitizeOne(f[k - 1], ms[k])
               /\ s = f[n].sent
  BY <1>0, SaneFold
<1> HIDE DEF s
<1> DEFINE G == {k \in 0..n : SaneKnows(ms, f[k], k, C)}
<1>2. 0 \in G
  <2>1. <<>> \in Seq(Msgs(C)) /\ \A i \in 1..Len(<<>>) : FALSE
    OBVIOUS
  <2>2. f[0].sent = <<>> /\ f[0].open = {} /\ f[0] \in SaneStates(Msgs(C), C)
    BY <1>1, <2>1 DEF SaneBase, SaneStates
  <2>3. Passed(ms, f[0], 0)
    BY <2>1, <2>2 DEF Passed, NoOrphanIn
  <2>4. Opened(f[0])
    BY <2>1, <2>2 DEF Opened
  <2>5. \A k \in 1..0 : FALSE
    OBVIOUS
  <2>6. Closed(ms, f[0], 0)
    BY <2>5 DEF Closed
  <2> QED BY <1>0, <2>2, <2>3, <2>4, <2>6 DEF SaneKnows
<1>3. ASSUME NEW k \in 1..n, k - 1 \in G PROVE k \in G
  <2>1. SaneKnows(ms, f[k - 1], k - 1, C) /\ k \in 0..n
    BY <1>0, <1>3
  <2>2. SaneKnows(ms, SanitizeOne(f[k - 1], ms[k]), k, C)
    BY <2>1, SaneTool, SaneOther
  <2> QED BY <1>1, <2>1, <2>2
<1> HIDE DEF G
<1>4. n \in G
  BY <1>0, <1>2, <1>3, PlacesFact
<1>5. SaneKnows(ms, f[n], n, C)
  BY <1>4 DEF G
<1>6. s \in Seq(Msgs(C)) /\ DOMAIN s = 1..Len(s)
  BY <1>1, <1>5 DEF SaneKnows, SaneStates
<1>7. NoOrphanIn(s)
  BY <1>1, <1>5 DEF SaneKnows, Passed
<1>8. ASSUME NEW i \in DOMAIN s, NEW call \in s[i].calls \ S
      PROVE  Cardinality({j \in DOMAIN s : s[j] = Tool(call)}) = 1
  <2>1. PICK k \in 1..n : s[i] = ms[k]
    BY <1>1, <1>5, <1>6 DEF SaneKnows, Passed
  <2>2. PICK l \in 1..n : Follows(ms, k, l) /\ ms[l] = Tool(call)
    BY <1>8, <2>1 DEF Good, Fit, Answered
  <2>3. ms[l].id \in ms[k].calls
    BY <1>8, <2>1, <2>2 DEF Tool, Message
  <2>4. PICK j \in 1..Len(s) : s[j] = ms[l]
    BY <1>1, <1>5, <2>2, <2>3 DEF SaneKnows, Closed
  <2>5. Tool(call).role = "tool"
    BY DEF Tool, Message
  <2>6. \A h \in 1..Len(s) : s[h] = Tool(call) => h = j
    BY <1>1, <1>5, <2>2, <2>4, <2>5 DEF SaneKnows, Opened
  <2>7. {h \in DOMAIN s : s[h] = Tool(call)} = {j}
    BY <1>6, <2>2, <2>4, <2>6
  <2> QED BY <2>7, FS_Singleton
<1> QED BY <1>7, <1>8 DEF s

----------------------------------------------------------------------------
(* The calls of a run                                                      *)

\* The ids of the calls of a step, and of all steps up to one.
Now(n) == {CallId(n, k) : k \in 1..MaxCalls}
Past(n) == {1} \cup UNION {Now(s) : s \in 1..n}

\* Ids of calls are numbers, and none is 1.
LEMMA NowFact ==
    ASSUME NEW n \in Nat \ {0}, NEW k \in 1..MaxCalls
    PROVE  CallId(n, k) \in Nat \ {0, 1} /\ CallId(n, k) \in Now(n)
<1>1. MaxCalls \in Nat \ {0} /\ n - 1 \in Nat
  BY ToolLoopAssumption
<1>2. MaxCalls * (n - 1) \in Nat
  BY <1>1
<1> QED BY <1>2 DEF CallId, Now

\* Every step has ids of its own.
LEMMA IdsApart ==
    ASSUME NEW n \in Nat \ {0}, NEW s \in 1..n - 1,
           NEW k \in 1..MaxCalls, NEW l \in 1..MaxCalls
    PROVE  CallId(s, k) # CallId(n, l)
<1> DEFINE d == n - 1 - s
           p == MaxCalls * (s - 1)
           q == MaxCalls * d
<1>1. MaxCalls \in Nat \ {0} /\ d \in Nat /\ s - 1 \in Nat
  BY ToolLoopAssumption
<1>2. p \in Nat /\ q \in Nat
  BY <1>1
<1>3. MaxCalls * (n - 1) = p + MaxCalls + q
  <2>1. n - 1 = (s - 1) + 1 + d
    OBVIOUS
  <2> HIDE DEF d
  <2>2. MaxCalls * ((s - 1) + 1 + d) = MaxCalls * (s - 1) + MaxCalls + MaxCalls * d
    BY <1>1
  <2> QED BY <2>1, <2>2
<1> HIDE DEF d, p, q
<1>4. CallId(s, k) = 1 + p + k
  BY DEF CallId, p
<1>5. CallId(n, l) = 1 + (p + MaxCalls + q) + l
  BY <1>3 DEF CallId
<1> QED BY <1>1, <1>2, <1>4, <1>5

\* The ids of a step are new.
LEMMA PastFact ==
    ASSUME NEW n \in Nat
    PROVE  /\ Past(n) \in SUBSET Nat /\ 1 \in Past(n)
           /\ n # 0 => /\ Past(n - 1) \subseteq Past(n) /\ Now(n) \subseteq Past(n)
                       /\ Now(n) \cap Past(n - 1) = {} /\ Now(n) \in SUBSET Nat
           /\ n <= MaxSteps + 1 => Past(n) \subseteq CallIds
<1>1. MaxSteps \in Nat /\ MaxCalls \in Nat
  BY ToolLoopAssumption
<1>2. ASSUME NEW s \in 1..n, NEW c \in Now(s) PROVE c \in Nat \ {0, 1}
  <2>1. PICK k \in 1..MaxCalls : c = CallId(s, k)
    BY <1>2 DEF Now
  <2> QED BY <2>1, NowFact
<1>3. Past(n) \in SUBSET Nat /\ 1 \in Past(n)
  BY <1>2 DEF Past
<1>4. ASSUME n # 0
      PROVE  /\ Past(n - 1) \subseteq Past(n) /\ Now(n) \subseteq Past(n)
             /\ Now(n) \cap Past(n - 1) = {} /\ Now(n) \in SUBSET Nat
  <2>1. n \in 1..n /\ \A s \in 1..n - 1 : s \in 1..n
    BY <1>4
  <2>2. Past(n - 1) \subseteq Past(n) /\ Now(n) \subseteq Past(n) /\ Now(n) \in SUBSET Nat
    BY <1>2, <2>1 DEF Past
  <2>3. ASSUME NEW c \in Now(n), c \in Past(n - 1) PROVE FALSE
    <3>1. c # 1
      BY <1>2, <2>1
    <3>2. PICK s \in 1..n - 1 : c \in Now(s)
      BY <2>3, <3>1 DEF Past
    <3>3. PICK k \in 1..MaxCalls : c = CallId(s, k)
      BY <3>2 DEF Now
    <3>4. PICK l \in 1..MaxCalls : c = CallId(n, l)
      BY DEF Now
    <3> QED BY <1>4, <3>3, <3>4, IdsApart
  <2> QED BY <2>2, <2>3
<1>5. ASSUME n <= MaxSteps + 1 PROVE Past(n) \subseteq CallIds
  <2>1. \A s \in 1..n : s \in 1..MaxSteps + 1
    BY <1>1, <1>5
  <2> QED BY <2>1 DEF Past, Now, CallIds
<1> QED BY <1>3, <1>4, <1>5

\* Messages that neither call tools nor are results go before or after any others.
LEMMA PlainAround ==
    ASSUME NEW C, NEW S, NEW p \in Seq(Msgs(C)), Plain(p), NEW ms, Good(ms, C, S)
    PROVE  Good(p \o ms, C, S) /\ Good(ms \o p, C, S)
<1>1. Good(p, C, S)
  BY PlainFact
<1>2. /\ \A i \in 1..Len(p), j \in 1..Len(ms) : p[i].calls \cap ms[j].calls = {}
      /\ \A i \in 1..Len(ms), j \in 1..Len(p) : ms[i].calls \cap p[j].calls = {}
  BY DEF Plain
<1> QED BY <1>1, <1>2, JoinGood

\* A list of one such message.
LEMMA OnePlain ==
    ASSUME NEW C, NEW m \in Msgs(C), m.role # "tool", m.calls = {}
    PROVE  <<m>> \in Seq(Msgs(C)) /\ Plain(<<m>>)
<1>1. <<m>> \in Seq(Msgs(C)) /\ \A i \in 1..Len(<<m>>) : <<m>>[i] = m
  OBVIOUS
<1> QED BY <1>1 DEF Plain

\* The messages there are.
LEMMA MessageFact ==
    ASSUME NEW C
    PROVE  /\ System \in Msgs(C) /\ System.role # "tool" /\ System.calls = {}
           /\ \A n \in Nat : /\ User(n) \in Msgs(C) /\ User(n).role # "tool"
                             /\ User(n).calls = {}
           /\ /\ Assistant({}) \in Msgs(C) /\ Assistant({}).role # "tool"
              /\ Assistant({}).calls = {}
BY DEF System, User, Assistant, Message, Msgs

\* One more of them at the end.
LEMMA SaidGood ==
    ASSUME NEW C, NEW S, NEW ms, Good(ms, C, S)
    PROVE  Good(Append(ms, Assistant({})), C, S) /\ Good(Append(ms, User(2)), C, S)
<1>1. ms \in Seq(Msgs(C))
  BY DEF Good, Fit
<1>2. ASSUME NEW m \in Msgs(C), m.role # "tool", m.calls = {} PROVE Good(Append(ms, m), C, S)
  <2>1. Append(ms, m) = ms \o <<m>>
    BY <1>1, AppendFact
  <2> QED BY <1>2, <2>1, OnePlain, PlainAround
<1> QED BY <1>2, MessageFact

----------------------------------------------------------------------------
(* The invariant of a run                                                  *)

Busy == at \notin {"ready", "ended"}
Calling == at \in {"requery", "repair", "tool", "reading"}

\* The steps whose calls may be in the history.
Recorded == IF Busy THEN step - 1 ELSE step

Types ==
    /\ state \in {"idle", "running", "done", "error"}
    /\ step \in 0..MaxSteps + 1
    /\ at \in {"ready", "asking", "requery", "repair", "tool", "reading", "ended"}
    /\ model \in Models /\ candidate \in Candidates /\ attempt \in 1..MaxAttempts
    /\ shown \in 0..2
    /\ calls \in Seq(asked) /\ Len(calls) <= MaxCalls
    /\ results \in Seq(asked) /\ asked \subseteq CallIds /\ silent \subseteq CallIds
    /\ {tools, signal, aborted, streamed, images} \subseteq BOOLEAN
    /\ Calling => asked # {} /\ state # "error"
    /\ at = "reading" => calls # <<>>
    /\ state = "error" => at = "ended"
    /\ Busy => step # 0
    /\ at = "ready" => step # MaxSteps + 1

\* The calls of a step are its own; each has a result, is known to give none or is
\* still to be done.
Batch ==
    Calling =>
        /\ asked \subseteq Now(step)
        /\ tools => \A c \in asked :
            \/ c \in silent
            \/ \E i \in 1..Len(results) : results[i] = c
            \/ \E i \in 1..Len(calls) : calls[i] = c

Wellformed == Good(messages, Past(Recorded), silent)

LoopInv == Types /\ Batch /\ Wellformed

\* The invariant has the type invariant in it,
LEMMA LoopTypesFact ==
    ASSUME LoopInv
    PROVE  LoopTypeOK
<1>1. Recorded \in Nat /\ Recorded <= MaxSteps + 1
  BY ToolLoopAssumption DEF LoopInv, Types, Recorded, Busy
<1>2. messages \in Seq(Msgs(CallIds))
  <2>1. Past(Recorded) \subseteq CallIds
    BY <1>1, PastFact
  <2>2. Good(messages, CallIds, silent)
    BY <2>1, GoodGrows DEF LoopInv, Wellformed
  <2> QED BY <2>2 DEF Good, Fit
<1>3. \A i \in DOMAIN messages : messages[i] \in MessageSet
  <2>1. Msgs(CallIds) \subseteq MessageSet
    BY DEF Msgs, MessageSet
  <2> QED BY <1>2, <2>1
<1>4. calls \in Seq(CallIds) /\ results \in Seq(CallIds)
  <2>1. calls \in Seq(asked) /\ results \in Seq(asked) /\ asked \subseteq CallIds
    BY DEF LoopInv, Types
  <2> QED BY <2>1
<1> QED BY <1>3, <1>4 DEF LoopInv, Types, Calling, LoopTypeOK

\* Short lists, put together.
LEMMA ListFact ==
    ASSUME NEW M, NEW u \in M, NEW a \in M, NEW t \in M, NEW p \in M
    PROVE  /\ <<u>> \o <<p>> = <<u, p>>
           /\ (<<u>> \o <<a, t>>) \o <<p>> = <<u, a, t, p>>
<1>1. /\ <<u>> \in Seq(M) /\ Len(<<u>>) = 1 /\ <<u>>[1] = u
      /\ <<p>> \in Seq(M) /\ Len(<<p>>) = 1 /\ <<p>>[1] = p
      /\ <<a, t>> \in Seq(M) /\ Len(<<a, t>>) = 2 /\ <<a, t>>[1] = a /\ <<a, t>>[2] = t
      /\ <<u, p>> \in Seq(M) /\ Len(<<u, p>>) = 2 /\ <<u, p>>[1] = u /\ <<u, p>>[2] = p
      /\ <<u, a, t, p>> \in Seq(M) /\ Len(<<u, a, t, p>>) = 4
      /\ <<u, a, t, p>>[1] = u /\ <<u, a, t, p>>[2] = a
      /\ <<u, a, t, p>>[3] = t /\ <<u, a, t, p>>[4] = p
  OBVIOUS
<1> DEFINE x == <<u>>
           y == <<p>>
           z == <<a, t>>
           v == <<u, p>>
           w == <<u, a, t, p>>
<1>2. /\ x \in Seq(M) /\ Len(x) = 1 /\ x[1] = u
      /\ y \in Seq(M) /\ Len(y) = 1 /\ y[1] = p
      /\ z \in Seq(M) /\ Len(z) = 2 /\ z[1] = a /\ z[2] = t
      /\ v \in Seq(M) /\ Len(v) = 2 /\ v[1] = u /\ v[2] = p
      /\ w \in Seq(M) /\ Len(w) = 4 /\ w[1] = u /\ w[2] = a /\ w[3] = t /\ w[4] = p
  BY <1>1
<1> HIDE DEF x, y, z, v, w
<1>a. x \in Seq(M) /\ y \in Seq(M) /\ z \in Seq(M)
  BY <1>2
<1>3. x \o y = v
  <2>0. /\ x \o y \in Seq(M) /\ Len(x \o y) = Len(x) + Len(y)
        /\ \A i \in 1..Len(x) : (x \o y)[i] = x[i]
        /\ \A i \in 1..Len(y) : (x \o y)[Len(x) + i] = y[i]
    BY <1>a, JoinFact
  <2>1. x \o y \in Seq(M) /\ Len(x \o y) = 2 /\ (x \o y)[1] = u /\ (x \o y)[2] = p
    <3>1. 1 \in 1..Len(x) /\ 1 \in 1..Len(y) /\ Len(x) + 1 = 2 /\ Len(x) + Len(y) = 2
      BY <1>2
    <3> QED BY <1>2, <2>0, <3>1
  <2>2. \A i \in 1..2 : i = 1 \/ i = 2
    OBVIOUS
  <2>3. \A i \in 1..2 : (x \o y)[i] = v[i]
    BY <1>2, <2>1, <2>2
  <2> QED BY <1>2, <2>1, <2>3, SeqEqual
<1>4. (x \o z) \o y = w
  <2>1. /\ x \o z \in Seq(M) /\ Len(x \o z) = 3
        /\ (x \o z)[1] = u /\ (x \o z)[2] = a /\ (x \o z)[3] = t
    <3>1. /\ x \o z \in Seq(M) /\ Len(x \o z) = Len(x) + Len(z)
          /\ \A i \in 1..Len(x) : (x \o z)[i] = x[i]
          /\ \A i \in 1..Len(z) : (x \o z)[Len(x) + i] = z[i]
      BY <1>a, JoinFact
    <3>2. /\ 1 \in 1..Len(x) /\ 1 \in 1..Len(z) /\ 2 \in 1..Len(z)
          /\ Len(x) + 1 = 2 /\ Len(x) + 2 = 3 /\ Len(x) + Len(z) = 3
      BY <1>2
    <3> QED BY <1>2, <3>1, <3>2
  <2> DEFINE q == x \o z
  <2> HIDE DEF q
  <2>2. q \in Seq(M) /\ Len(q) = 3 /\ q[1] = u /\ q[2] = a /\ q[3] = t
    BY <2>1 DEF q
  <2>3. /\ q \o y \in Seq(M) /\ Len(q \o y) = 4 /\ (q \o y)[1] = u
        /\ (q \o y)[2] = a /\ (q \o y)[3] = t /\ (q \o y)[4] = p
    <3>1. /\ q \o y \in Seq(M) /\ Len(q \o y) = Len(q) + Len(y)
          /\ \A i \in 1..Len(q) : (q \o y)[i] = q[i]
          /\ \A i \in 1..Len(y) : (q \o y)[Len(q) + i] = y[i]
      <4>1. q \in Seq(M)
        BY <2>2
      <4> QED BY <1>a, <4>1, JoinFact
    <3>2. /\ 1 \in 1..Len(q) /\ 2 \in 1..Len(q) /\ 3 \in 1..Len(q) /\ 1 \in 1..Len(y)
          /\ Len(q) + 1 = 4 /\ Len(q) + Len(y) = 4
      BY <1>2, <2>2
    <3> QED BY <1>2, <2>2, <3>1, <3>2
  <2>4. \A i \in 1..4 : i = 1 \/ i = 2 \/ i = 3 \/ i = 4
    OBVIOUS
  <2>5. \A i \in 1..4 : (q \o y)[i] = w[i]
    BY <1>2, <2>3, <2>4
  <2>6. q \o y = w
    BY <1>2, <2>3, <2>5, SeqEqual
  <2> QED BY <2>6 DEF q
<1> QED BY <1>3, <1>4 DEF x, y, z, v, w

\* The histories a run may begin with.
LEMMA HistoryGood ==
    ASSUME NEW C \in SUBSET Nat, 1 \in C, NEW h \in Histories
    PROVE  Good(h, C, {})
<1> DEFINE u == User(Other)
           p == Assistant({})
           a == Assistant({1})
           t == Tool(1)
<1>1. /\ u \in Msgs(C) /\ u.role # "tool" /\ u.calls = {}
      /\ p \in Msgs(C) /\ p.role # "tool" /\ p.calls = {}
  BY MessageFact DEF Other
<1>2. a \in Msgs(C) /\ t \in Msgs(C)
  BY DEF Assistant, Tool, Message, Msgs
<1>3. h = <<>> \/ h = <<u, p>> \/ h = <<u, a, t, p>>
  BY DEF Histories
<1>4. Good(<<a, t>>, C, {})
  <2> DEFINE res == <<1>>
             b == [i \in DOMAIN res |-> Tool(res[i])]
  <2>1. res \in Seq({1}) /\ Len(res) = 1 /\ res[1] = 1 /\ DOMAIN res = {1} /\ 1 \in 1..1
    OBVIOUS
  <2>2. b = <<t>>
    BY <2>1
  <2>3. Good(<<a>> \o b, C, {})
    <3>1. {1} \in SUBSET C /\ {1} # {} /\ \A c \in {1} \ {} : \E i \in 1..Len(res) : res[i] = c
      BY <2>1
    <3> HIDE DEF res
    <3> QED BY <2>1, <3>1, BlockGood
  <2>4. <<a>> \o <<t>> = <<a, t>>
    <3> HIDE DEF a, t
    <3> QED BY <1>2, ListFact
  <2> HIDE DEF b
  <2> QED BY <2>2, <2>3, <2>4
<1> HIDE DEF u, p, a, t
<1>5. /\ <<u>> \in Seq(Msgs(C)) /\ <<p>> \in Seq(Msgs(C)) /\ <<a, t>> \in Seq(Msgs(C))
      /\ <<u>> \o <<p>> = <<u, p>>
      /\ (<<u>> \o <<a, t>>) \o <<p>> = <<u, a, t, p>>
  <2>1. <<u>> \in Seq(Msgs(C)) /\ <<p>> \in Seq(Msgs(C)) /\ <<a, t>> \in Seq(Msgs(C))
    BY <1>1, <1>2
  <2> QED BY <1>1, <1>2, <2>1, ListFact
<1>6. Good(<<u, p>>, C, {})
  <2>1. Good(<<p>>, C, {})
    BY <1>1, PlainGood
  <2> QED BY <1>1, <1>5, <2>1, OnePlain, PlainAround
<1>7. Good(<<u, a, t, p>>, C, {})
  <2>1. Good(<<u>> \o <<a, t>>, C, {})
    BY <1>1, <1>4, OnePlain, PlainAround
  <2>2. Good((<<u>> \o <<a, t>>) \o <<p>>, C, {})
    BY <1>1, <2>1, OnePlain, PlainAround
  <2> QED BY <1>5, <2>2
<1> QED BY <1>3, <1>6, <1>7, EmptyGood

\* holds at the beginning,
LEMMA LoopInitial ==
    ASSUME LoopInit
    PROVE  LoopInv
<1>1. Types
  <2>1. <<>> \in Seq({}) /\ Len(<<>>) = 0
    OBVIOUS
  <2>2. /\ MaxSteps \in Nat /\ MaxCalls \in Nat \ {0} /\ Fallbacks \in Nat
        /\ MaxAttempts \in Nat \ {0}
    BY ToolLoopAssumption
  <2>3. /\ model \in Models /\ candidate \in Candidates /\ attempt \in 1..MaxAttempts
        /\ shown \in 0..2 /\ step \in 0..MaxSteps + 1
    BY <2>2 DEF LoopInit, Models, Candidates
  <2>4. /\ calls \in Seq(asked) /\ Len(calls) <= MaxCalls /\ results \in Seq(asked)
        /\ asked \subseteq CallIds /\ silent \subseteq CallIds
    BY <2>1, <2>2 DEF LoopInit
  <2>5. {tools, signal, aborted, streamed, images} \subseteq BOOLEAN
    BY DEF LoopInit
  <2>6. state = "idle" /\ at = "ready"
    BY DEF LoopInit
  <2>7. step # MaxSteps + 1
    BY <2>2 DEF LoopInit
  <2> QED BY <2>3, <2>4, <2>5, <2>6, <2>7 DEF Types, Calling, Busy
<1>2. Batch
  BY DEF LoopInit, Batch, Calling
<1>3. Wellformed
  <2> DEFINE C == Past(0)
  <2>1. Recorded = 0 /\ silent = {}
    BY DEF LoopInit, Recorded, Busy
  <2>2. C \in SUBSET Nat /\ 1 \in C
    BY PastFact
  <2> HIDE DEF C
  <2>3. PICK h \in Histories, system \in BOOLEAN :
            messages = (IF system THEN <<System>> ELSE <<>>) \o h \o <<User(1)>>
    BY DEF LoopInit, Request
  <2>4. Good(h, C, {})
    BY <2>2, HistoryGood
  <2>5. Good(<<System>> \o h, C, {}) /\ Good(<<>> \o h, C, {})
    <3>1. <<>> \in Seq(Msgs(C)) /\ Plain(<<>>)
      BY DEF Plain
    <3> QED BY <2>4, <3>1, MessageFact, OnePlain, PlainAround
  <2>6. /\ Good((<<System>> \o h) \o <<User(1)>>, C, {})
        /\ Good((<<>> \o h) \o <<User(1)>>, C, {})
    BY <2>5, MessageFact, OnePlain, PlainAround
  <2> QED BY <2>1, <2>3, <2>6 DEF Wellformed, C
<1> QED BY <1>1, <1>2, <1>3 DEF LoopInv

\* The calls of an answer.
LEMMA TakesFact ==
    ASSUME step \in 0..MaxSteps + 1, step # 0,
           NEW n \in 1..MaxCalls, Takes(n)
    PROVE  /\ calls' \in Seq(asked') /\ Len(calls') <= MaxCalls
           /\ results' = <<>> /\ results' \in Seq(asked')
           /\ asked' \subseteq Now(step) /\ asked' \subseteq CallIds /\ asked' # {}
           /\ \A c \in asked' : \E i \in 1..Len(calls') : calls'[i] = c
           /\ images' = FALSE /\ silent' = silent
<1>0. MaxSteps \in Nat /\ MaxCalls \in Nat /\ step \in Nat \ {0} /\ step <= MaxSteps + 1
  BY ToolLoopAssumption
<1>1. /\ calls' = [k \in 1..n |-> CallId(step, k)]
      /\ asked' = {CallId(step, k) : k \in 1..n}
      /\ results' = <<>> /\ images' = FALSE /\ silent' = silent
  BY DEF Takes
<1>2. \A k \in 1..n : k \in 1..MaxCalls
  BY <1>0
<1>3. asked' \subseteq Now(step) /\ asked' # {}
  BY <1>0, <1>1, <1>2 DEF Now
<1>4. asked' \subseteq CallIds
  BY <1>0, <1>3, PastFact
<1>5. calls' \in [1..n -> asked'] /\ n \in Nat
  BY <1>1
<1>6. calls' \in Seq(asked') /\ Len(calls') = n
  BY <1>5
<1>7. \A c \in asked' : \E i \in 1..Len(calls') : calls'[i] = c
  BY <1>1, <1>6
<1>8. <<>> \in Seq(asked')
  OBVIOUS
<1> QED BY <1>0, <1>1, <1>3, <1>4, <1>6, <1>7, <1>8

\* The first of the calls that are left, and the others.
LEMMA NextFact ==
    ASSUME calls \in Seq(asked), results \in Seq(asked), calls # <<>>
    PROVE  /\ calls[1] \in asked
           /\ Tail(calls) \in Seq(asked) /\ Len(Tail(calls)) <= Len(calls)
           /\ \A i \in 1..Len(calls) :
                i = 1 \/ \E j \in 1..Len(Tail(calls)) : Tail(calls)[j] = calls[i]
           /\ Append(results, calls[1]) \in Seq(asked)
           /\ Len(Append(results, calls[1])) = Len(results) + 1
           /\ Append(results, calls[1])[Len(results) + 1] = calls[1]
           /\ \A i \in 1..Len(results) : Append(results, calls[1])[i] = results[i]
<1>1. calls[1] \in asked /\ Len(calls) \in Nat /\ Len(results) \in Nat
  OBVIOUS
<1>2. /\ Tail(calls) \in Seq(asked) /\ Len(Tail(calls)) = Len(calls) - 1
      /\ \A i \in 1..Len(calls) - 1 : Tail(calls)[i] = calls[i + 1]
  OBVIOUS
<1>3. ASSUME NEW i \in 1..Len(calls), i # 1
      PROVE  \E j \in 1..Len(Tail(calls)) : Tail(calls)[j] = calls[i]
  <2>1. i - 1 \in 1..Len(calls) - 1 /\ (i - 1) + 1 = i
    BY <1>1, <1>3
  <2>2. Tail(calls)[i - 1] = calls[i]
    BY <1>2, <2>1
  <2> QED BY <1>2, <2>1, <2>2
<1>4. /\ Append(results, calls[1]) \in Seq(asked)
      /\ Len(Append(results, calls[1])) = Len(results) + 1
      /\ Append(results, calls[1])[Len(results) + 1] = calls[1]
      /\ \A i \in 1..Len(results) : Append(results, calls[1])[i] = results[i]
  BY <1>1, AppendFact
<1> QED BY <1>1, <1>2, <1>3, <1>4

\* A call whose tool gave something has a result.
LEMMA GivenFact ==
    ASSUME results \in Seq(asked), NEW c, GivenBy(c) # 0
    PROVE  \E i \in 1..Len(results) : results[i] = c
<1> DEFINE R == {i \in DOMAIN results : results[i] = c}
<1>1. Cardinality(R) # 0
  BY DEF GivenBy
<1>2. R # {}
  <2> HIDE DEF R
  <2>1. Cardinality({}) = 0
    BY FS_EmptySet
  <2> QED BY <1>1, <2>1
<1> QED BY <1>2

\* The parts of the invariant but the last do not need the history.
LEMMA TypesStep ==
    ASSUME Types, LoopNext
    PROVE  Types'
<1>0. /\ MaxSteps \in Nat /\ MaxCalls \in Nat \ {0} /\ Fallbacks \in Nat
      /\ MaxAttempts \in Nat \ {0} /\ step \in Nat
  BY ToolLoopAssumption DEF Types
<1> USE DEF Types, Calling, Busy
<1>1. CASE Step
  BY <1>0, <1>1 DEF Step, LastStep, requestVars, toolVars
<1>2. CASE AskStop
  BY <1>2 DEF AskStop, requestVars, toolVars
<1>3. CASE Chunk
  BY <1>3 DEF Chunk, Asking, toolVars
<1>4. CASE Retry
  <2>1. attempt' \in 1..MaxAttempts
    BY <1>0, <1>4 DEF Retry
  <2> QED BY <1>4, <2>1 DEF Retry, Asking, toolVars
<1>5. CASE Fail
  <2>1. /\ model' \in Models /\ candidate' \in Candidates /\ attempt' \in 1..MaxAttempts
        /\ streamed' = FALSE
    <3>1. /\ candidate \in 1..Fallbacks /\ candidate' = candidate + 1 /\ attempt' = 1
          /\ streamed' = FALSE /\ model' = candidate
      BY <1>0, <1>5 DEF Fail, Candidates
    <3>2. candidate \in Candidates /\ candidate' \in Candidates /\ model' \in Models
      BY <1>0, <3>1 DEF Models, Candidates
    <3>3. 1 \in 1..MaxAttempts
      BY <1>0
    <3> QED BY <3>1, <3>2, <3>3
  <2> QED BY <1>5, <2>1 DEF Fail, Asking, toolVars
<1>6. CASE GiveUp
  BY <1>6 DEF GiveUp, Asking, requestVars, toolVars
<1>7. CASE BreakOff
  BY <1>7 DEF BreakOff, Asking, requestVars, toolVars
\* What ends a request.
<1>8. ASSUME RequestEnds
      PROVE  /\ candidate' \in Candidates /\ attempt' \in 1..MaxAttempts
             /\ shown' \in 0..2 /\ streamed' = FALSE
  BY <1>0, <1>8 DEF RequestEnds, Candidates
<1>9. CASE StreamEnds
  BY <1>8, <1>9 DEF StreamEnds, StepEnds, Asking, toolVars
<1>10. CASE StopSeen
  BY <1>8, <1>10 DEF StopSeen, Abort, Asking, toolVars
<1>11. CASE AnswerText
  BY <1>8, <1>11 DEF AnswerText, Complete, Asking, toolVars
<1>12. ASSUME \E n \in 1..MaxCalls : Takes(n), step # 0
       PROVE  /\ calls' \in Seq(asked') /\ Len(calls') <= MaxCalls
              /\ results' \in Seq(asked') /\ asked' \subseteq CallIds /\ asked' # {}
              /\ images' = FALSE /\ silent' = silent
  BY <1>12, TakesFact
<1>13. CASE AnswerTools
  <2>1. at' \in {"tool", "requery"}
    BY <1>13 DEF AnswerTools
  <2> QED BY <1>8, <1>12, <1>13, <2>1 DEF AnswerTools, Asking
<1>14. CASE RequeryTools
  BY <1>12, <1>14 DEF RequeryTools, Requerying, requestVars
<1>15. CASE RequeryText
  BY <1>15 DEF RequeryText, Complete, Requerying, requestVars, toolVars
<1>16. CASE Repair
  BY <1>16 DEF Repair, requestVars, toolVars
<1>17. CASE RequeryRaises
  BY <1>17 DEF RequeryRaises, Requerying, requestVars, toolVars
<1>18. ASSUME calls # <<>>
       PROVE  /\ calls[1] \in asked /\ calls[1] \in CallIds
              /\ Tail(calls) \in Seq(asked) /\ Len(Tail(calls)) <= MaxCalls
              /\ Append(results, calls[1]) \in Seq(asked)
  <2>1. /\ calls[1] \in asked /\ Tail(calls) \in Seq(asked)
        /\ Len(Tail(calls)) <= Len(calls) /\ Append(results, calls[1]) \in Seq(asked)
    BY <1>18, NextFact
  <2>2. Len(Tail(calls)) \in Nat /\ Len(calls) \in Nat
    BY <2>1
  <2> QED BY <1>0, <2>1, <2>2
<1>19. CASE UnknownTool
  BY <1>18, <1>19 DEF UnknownTool, Append1, NextCall, requestVars
<1>20. CASE StartTool
  BY <1>20 DEF StartTool, requestVars, toolVars
<1>21. CASE Result
  BY <1>18, <1>21 DEF Result, Append1, requestVars
<1>22. CASE ToolRaises
  BY <1>18, <1>22 DEF ToolRaises, Append1, NextCall, requestVars
<1>23. CASE ToolEnds
  BY <1>18, <1>23 DEF ToolEnds, NextCall, requestVars
<1>24. CASE Interrupt
  BY <1>24 DEF Interrupt, Abort, requestVars, toolVars
<1>25. CASE Record
  <2>1. <<>> \in Seq(asked) /\ Len(<<>>) = 0
    OBVIOUS
  <2> QED BY <1>0, <1>25, <2>1 DEF Record, StepEnds, requestVars
<1> QED BY <1>1, <1>2, <1>3, <1>4, <1>5, <1>6, <1>7, <1>9, <1>10, <1>11, <1>13, <1>14, <1>15,
           <1>16, <1>17, <1>19, <1>20, <1>21, <1>22, <1>23, <1>24, <1>25 DEF LoopNext

\* A call is done with a result, or silent.
LEMMA BatchStep ==
    ASSUME Types, Batch, LoopNext
    PROVE  Batch'
<1>0. /\ step \in 0..MaxSteps + 1 /\ calls \in Seq(asked) /\ results \in Seq(asked)
      /\ Busy => step # 0
  BY DEF Types
<1>1. CASE Step \/ Chunk \/ Retry \/ Fail \/ GiveUp \/ BreakOff
  BY <1>1 DEF Step, Chunk, Retry, Fail, GiveUp, BreakOff, Asking, Batch, Calling
<1>2. CASE StreamEnds \/ StopSeen \/ AnswerText
  BY <1>2 DEF StreamEnds, StepEnds, StopSeen, AnswerText, Abort, Complete, Batch,
              Calling
<1>3. CASE AskStop \/ Repair \/ StartTool
  BY <1>3 DEF AskStop, Repair, StartTool, toolVars, Batch, Calling
<1>4. CASE RequeryText \/ RequeryRaises \/ Interrupt \/ Record
  BY <1>4 DEF RequeryText, RequeryRaises, Interrupt, Record, Complete, Abort,
              StepEnds, Batch, Calling
<1>5. CASE AnswerTools \/ RequeryTools
  <2>1. (\E n \in 1..MaxCalls : Takes(n)) /\ step # 0 /\ step' = step
    BY <1>0, <1>5 DEF AnswerTools, RequeryTools, Asking, Requerying, Busy
  <2>2. asked' \subseteq Now(step) /\ \A c \in asked' : \E i \in 1..Len(calls') : calls'[i] = c
    BY <1>0, <2>1, TakesFact
  <2>3. asked' \subseteq Now(step')
    BY <2>1, <2>2
  <2> QED BY <2>2, <2>3 DEF Batch
\* What is left when the first call is done, and what a result is added to.
<1>6. ASSUME calls # <<>>
      PROVE  /\ \A i \in 1..Len(calls) :
                    calls[i] = calls[1]
                    \/ \E j \in 1..Len(Tail(calls)) : Tail(calls)[j] = calls[i]
             /\ LET more == Append(results, calls[1])
                IN \A c \in asked :
                    c = calls[1] \/ (\E i \in 1..Len(results) : results[i] = c) =>
                        \E i \in 1..Len(more) : more[i] = c
  <2>1. \A i \in 1..Len(calls) :
            i = 1 \/ \E j \in 1..Len(Tail(calls)) : Tail(calls)[j] = calls[i]
    BY <1>0, <1>6, NextFact
  <2> DEFINE more == Append(results, calls[1])
  <2>2. /\ Len(more) = Len(results) + 1 /\ more[Len(results) + 1] = calls[1]
        /\ \A i \in 1..Len(results) : more[i] = results[i]
    BY <1>0, <1>6, NextFact
  <2> HIDE DEF more
  <2>3. Len(results) \in Nat
    BY <1>0
  <2>4. Len(results) + 1 \in 1..Len(more) /\ \A i \in 1..Len(results) : i \in 1..Len(more)
    BY <2>2, <2>3
  <2>5. \A c : c = calls[1] \/ (\E i \in 1..Len(results) : results[i] = c) =>
                    \E i \in 1..Len(more) : more[i] = c
    BY <2>2, <2>4
  <2> QED BY <2>1, <2>5 DEF more
<1>7. CASE UnknownTool \/ ToolRaises
  <2>1. /\ calls # <<>> /\ Calling /\ calls' = Tail(calls)
        /\ results' = Append(results, calls[1])
        /\ UNCHANGED <<tools, asked, silent, step>>
    BY <1>7 DEF UnknownTool, ToolRaises, Append1, NextCall, Types, Calling
  <2>2. ASSUME tools, NEW c \in asked
       PROVE  \/ c \in silent'
              \/ \E i \in 1..Len(results') : results'[i] = c
              \/ \E i \in 1..Len(calls') : calls'[i] = c
    <3>1. CASE c \in silent
      BY <2>1, <3>1
    <3>2. CASE c = calls[1] \/ \E i \in 1..Len(results) : results[i] = c
      <4>1. \E i \in 1..Len(Append(results, calls[1])) : Append(results, calls[1])[i] = c
        BY <1>6, <2>1, <3>2
      <4> QED BY <2>1, <4>1
    <3>3. ASSUME NEW i \in 1..Len(calls), calls[i] = c, c # calls[1]
          PROVE  \E j \in 1..Len(calls') : calls'[j] = c
      BY <1>6, <2>1, <3>3
    <3> QED BY <2>1, <2>2, <3>1, <3>2, <3>3 DEF Batch
  <2> QED BY <2>1, <2>2 DEF Batch
<1>8. CASE Result
  <2>1. /\ calls # <<>> /\ Calling /\ calls' = calls
        /\ results' = Append(results, calls[1])
        /\ UNCHANGED <<tools, asked, silent, step>>
    BY <1>8 DEF Result, Append1, Types, Calling
  <2>2. ASSUME tools, NEW c \in asked
       PROVE  \/ c \in silent'
              \/ \E i \in 1..Len(results') : results'[i] = c
              \/ \E i \in 1..Len(calls') : calls'[i] = c
    <3>1. CASE \E i \in 1..Len(results) : results[i] = c
      <4>1. \E i \in 1..Len(Append(results, calls[1])) : Append(results, calls[1])[i] = c
        BY <1>6, <2>1, <3>1
      <4> QED BY <2>1, <4>1
    <3>2. CASE c \in silent \/ \E i \in 1..Len(calls) : calls[i] = c
      BY <2>1, <3>2
    <3> QED BY <2>1, <2>2, <3>1, <3>2 DEF Batch
  <2> QED BY <2>1, <2>2 DEF Batch
<1>9. CASE ToolEnds
  <2>1. /\ calls # <<>> /\ Calling /\ calls' = Tail(calls)
        /\ UNCHANGED <<results, tools, asked, step>> /\ silent \subseteq silent'
    BY <1>9 DEF ToolEnds, NextCall, Types, Calling
  <2>2. calls[1] \in silent' \/ \E i \in 1..Len(results) : results[i] = calls[1]
    BY <1>0, <1>9, GivenFact DEF ToolEnds
  <2>3. ASSUME tools, NEW c \in asked
       PROVE  \/ c \in silent'
              \/ \E i \in 1..Len(results') : results'[i] = c
              \/ \E i \in 1..Len(calls') : calls'[i] = c
    <3>1. CASE c \in silent \/ c = calls[1] \/ \E i \in 1..Len(results) : results[i] = c
      BY <2>1, <2>2, <3>1
    <3>2. ASSUME NEW i \in 1..Len(calls), calls[i] = c, c # calls[1]
          PROVE  \E j \in 1..Len(calls') : calls'[j] = c
      BY <1>6, <2>1, <3>2
    <3> QED BY <2>1, <2>3, <3>1, <3>2 DEF Batch
  <2> QED BY <2>1, <2>3 DEF Batch
<1> QED BY <1>1, <1>2, <1>3, <1>4, <1>5, <1>7, <1>8, <1>9 DEF LoopNext

\* Calls enter the history together with their results.
LEMMA WellformedStep ==
    ASSUME Types, Batch, Wellformed, LoopNext
    PROVE  Wellformed'
<1>0. /\ step \in Nat /\ MaxTurns \in Int /\ DropTurns \in Int /\ MaxSteps \in Nat
      /\ Busy => step # 0
  BY ToolLoopAssumption DEF Types
<1>1. Recorded \in Nat
  BY <1>0 DEF Recorded
\* The history stays as it is, and perhaps the step ends or a call gives nothing.
<1>2. ASSUME NEW ms, Good(ms, Past(Recorded), silent), messages' = ms,
             silent \subseteq silent', Recorded' = Recorded \/ Recorded' = Recorded + 1
      PROVE  Wellformed'
  <2>1. Past(Recorded) \subseteq Past(Recorded + 1)
    <3> DEFINE r == Recorded + 1
    <3>1. r \in Nat /\ r # 0 /\ r - 1 = Recorded
      BY <1>1
    <3> HIDE DEF r
    <3>2. Past(r - 1) \subseteq Past(r)
      BY <3>1, PastFact
    <3> QED BY <3>1, <3>2 DEF r
  <2>2. Good(ms, Past(Recorded'), silent')
    BY <1>2, <2>1, GoodGrows
  <2>3. Wellformed' <=> Good(messages', Past(Recorded'), silent')
    BY DEF Wellformed
  <2> QED BY <1>2, <2>2, <2>3
<1>3. Good(messages, Past(Recorded), silent)
  BY DEF Wellformed
<1>4. CASE Step
  <2> DEFINE base == IF LastStep THEN Append(messages, User(Other)) ELSE messages
  <2>1. Good(base, Past(Recorded), silent)
    BY <1>3, SaidGood DEF Other
  <2>2. messages' \in Processed(base)
    BY <1>4 DEF Step
  <2> HIDE DEF base
  <2>3. Good(messages', Past(Recorded), silent)
    BY <1>0, <2>1, <2>2, ProcessedGood
  <2>4. Recorded' = Recorded /\ silent' = silent
    BY <1>0, <1>4 DEF Step, toolVars, Recorded, Busy
  <2> QED BY <1>2, <2>3, <2>4
<1>5. CASE AskStop \/ Chunk \/ Retry \/ Fail
  <2>1. UNCHANGED <<messages, step, at, silent>>
    BY <1>5 DEF AskStop, Chunk, Retry, Fail, toolVars
  <2>2. Recorded' = Recorded
    BY <2>1 DEF Recorded, Busy
  <2> QED BY <1>2, <1>3, <2>1, <2>2
<1>6. CASE GiveUp \/ BreakOff \/ StreamEnds
  <2>1. UNCHANGED <<messages, step, silent>> /\ at = "asking" /\ at' \in {"ready", "ended"}
    BY <1>6 DEF GiveUp, BreakOff, StreamEnds, StepEnds, Asking, toolVars
  <2>2. Recorded' = Recorded + 1
    BY <1>0, <2>1 DEF Recorded, Busy
  <2> QED BY <1>2, <1>3, <2>1, <2>2
<1>7. ASSUME NEW text \in BOOLEAN, messages' = Said(text), Busy, at' = "ended",
             UNCHANGED <<step, silent>>
      PROVE  Wellformed'
  <2>1. Good(Said(text), Past(Recorded), silent)
    BY <1>3, SaidGood DEF Said
  <2>2. Recorded' = Recorded + 1
    BY <1>0, <1>7 DEF Recorded, Busy
  <2> QED BY <1>2, <1>7, <2>1, <2>2
<1>8. CASE StopSeen
  BY <1>7, <1>8 DEF StopSeen, Abort, Asking, toolVars, Busy
<1>9. CASE AnswerText
  BY <1>7, <1>9 DEF AnswerText, Complete, Asking, toolVars, Busy
<1>10. CASE AnswerTools \/ RequeryTools \/ Repair
  <2>1. UNCHANGED <<messages, step, silent>> /\ Busy /\ Busy'
    BY <1>10 DEF AnswerTools, RequeryTools, Repair, Takes, Asking, Requerying,
                 toolVars, Busy
  <2>2. Recorded' = Recorded
    BY <2>1 DEF Recorded
  <2> QED BY <1>2, <1>3, <2>1, <2>2
<1>11. CASE RequeryText
  BY <1>7, <1>11 DEF RequeryText, Complete, Requerying, toolVars, Busy
<1>12. CASE RequeryRaises
  <2>1. UNCHANGED <<messages, step, silent>> /\ Busy /\ at' = "ended"
    BY <1>12 DEF RequeryRaises, Requerying, toolVars, Busy
  <2>2. Recorded' = Recorded + 1
    BY <1>0, <2>1 DEF Recorded, Busy
  <2> QED BY <1>2, <1>3, <2>1, <2>2
<1>13. CASE UnknownTool \/ StartTool \/ Result \/ ToolRaises \/ ToolEnds
  <2>1. UNCHANGED <<messages, step>> /\ silent \subseteq silent' /\ Busy /\ Busy'
    BY <1>13 DEF UnknownTool, StartTool, Result, ToolRaises, ToolEnds, NextCall,
                 toolVars, Busy
  <2>2. Recorded' = Recorded
    BY <2>1 DEF Recorded
  <2> QED BY <1>2, <1>3, <2>1, <2>2
<1>14. CASE Interrupt
  BY <1>7, <1>14 DEF Interrupt, Abort, toolVars, Busy
<1>15. CASE Record
  <2>1. /\ at = "tool" /\ at' \in {"ready", "ended"} /\ step' = step /\ asked # {}
        /\ (calls = <<>> \/ ~tools)
        /\ silent' = IF tools THEN silent ELSE silent \cup asked
    BY <1>15 DEF Record, StepEnds, Types, Calling
  <2>2. step # 0 /\ Recorded = step - 1 /\ Recorded' = step
    BY <1>0, <2>1 DEF Recorded, Busy
  <2> DEFINE C == Past(step)
             a == <<Assistant(asked)>>
             b == [i \in DOMAIN results |-> Tool(results[i])]
             u == IF images THEN <<User(2)>> ELSE <<>>
  <2>3. /\ C \in SUBSET Nat /\ Past(step - 1) \subseteq C /\ Now(step) \subseteq C
        /\ Now(step) \cap Past(step - 1) = {}
    BY <1>0, <2>2, PastFact
  <2>4. asked \subseteq Now(step) /\ asked \in SUBSET C
    BY <2>1, <2>3 DEF Batch, Calling
  <2> HIDE DEF C
  <2>5. \A c \in asked \ silent' : \E i \in 1..Len(results) : results[i] = c
    <3>1. calls = <<>> => \A i \in 1..Len(calls) : FALSE
      OBVIOUS
    <3> QED BY <2>1, <3>1 DEF Batch, Calling
  <2>6. Good(a \o b, C, silent')
    <3>1. results \in Seq(asked)
      BY DEF Types
    <3> QED BY <2>1, <2>3, <2>4, <2>5, <3>1, BlockGood
  <2>7. Good(messages, C, silent') /\ messages \in Seq(Msgs(Past(step - 1)))
    <3>1. Good(messages, Past(step - 1), silent) /\ silent \subseteq silent'
      BY <1>3, <2>1, <2>2
    <3>2. Good(messages, C, silent')
      BY <2>3, <3>1, GoodGrows
    <3> QED BY <3>1, <3>2 DEF Good, Fit
  <2>8. /\ a \in Seq(Msgs(C)) /\ b \in Seq(Msgs(C)) /\ messages \in Seq(Msgs(C))
    <3>1. Assistant(asked) \in Msgs(C)
      BY <2>4 DEF Assistant, Message, Msgs
    <3>2. a \in Seq(Msgs(C))
      BY <3>1
    <3>3. results \in Seq(asked) /\ Len(results) \in Nat /\ DOMAIN results = 1..Len(results)
      BY DEF Types
    <3>4. \A c \in C : Tool(c) \in Msgs(C)
      BY <2>3 DEF Tool, Message, Msgs
    <3>5. \A i \in 1..Len(results) : results[i] \in C
      BY <2>4, <3>3
    <3>6. b \in [1..Len(results) -> Msgs(C)]
      BY <3>3, <3>4, <3>5
    <3>7. b \in Seq(Msgs(C))
      <4> HIDE DEF b
      <4> QED BY <3>3, <3>6
    <3> QED BY <2>7, <3>2, <3>7 DEF Good, Fit
  <2>9. \A i \in 1..Len(messages), j \in 1..Len(a \o b) :
            messages[i].calls \cap (a \o b)[j].calls = {}
    <3>1. \A j \in 1..Len(a \o b) : (a \o b)[j].calls \subseteq asked
      <4>1. Len(a) = 1 /\ a[1].calls = asked
        BY DEF Assistant, Message
      <4>2. \A i \in DOMAIN b : b[i].calls = {}
        BY DEF Tool, Message
      <4> HIDE DEF a, b
      <4>3. DOMAIN b = 1..Len(b)
        BY <2>8
      <4>4. /\ \A j \in 1..Len(a) : (a \o b)[j] = a[j]
            /\ \A j \in 1..Len(b) : (a \o b)[Len(a) + j] = b[j]
            /\ \A k \in 1..Len(a \o b) :
                 k \in 1..Len(a) \/ (k > Len(a) /\ k - Len(a) \in 1..Len(b))
        BY <2>8, JoinFact
      <4> SUFFICES ASSUME NEW k \in 1..Len(a \o b) PROVE (a \o b)[k].calls \subseteq asked
        OBVIOUS
      <4>5. CASE k \in 1..Len(a)
        BY <4>1, <4>4, <4>5
      <4>6. CASE k > Len(a) /\ k - Len(a) \in 1..Len(b)
        <5>1. Len(a) + (k - Len(a)) = k
          BY <4>1
        <5>2. (a \o b)[Len(a) + (k - Len(a))] = b[k - Len(a)]
          BY <4>4, <4>6
        <5>3. b[k - Len(a)].calls = {}
          BY <4>2, <4>3, <4>6
        <5> QED BY <5>1, <5>2, <5>3
      <4> QED BY <4>4, <4>5, <4>6
    <3>2. \A i \in 1..Len(messages) : messages[i].calls \subseteq Past(step - 1)
      BY <2>7 DEF Msgs
    <3> HIDE DEF a, b
    <3> QED BY <2>3, <2>4, <3>1, <3>2
  <2>10. Good(messages \o (a \o b), C, silent')
    <3> HIDE DEF a, b
    <3> QED BY <2>6, <2>7, <2>9, JoinGood
  <2>11. (messages \o a) \o b = messages \o (a \o b)
    <3> HIDE DEF a, b
    <3> QED BY <2>8, ConcatAssociative
  <2>12. Good(messages \o a \o b \o u, C, silent')
    <3>1. u \in Seq(Msgs(C)) /\ Plain(u)
      <4>1. <<>> \in Seq(Msgs(C)) /\ Plain(<<>>)
        BY DEF Plain
      <4>2. <<User(2)>> \in Seq(Msgs(C)) /\ Plain(<<User(2)>>)
        BY MessageFact, OnePlain
      <4> QED BY <4>1, <4>2
    <3> HIDE DEF a, b, u
    <3> QED BY <2>10, <2>11, <3>1, PlainAround
  <2>13. messages' = messages \o a \o b \o u
    BY <1>15 DEF Record, Other
  <2> HIDE DEF a, b, u
  <2>14. Wellformed' <=> Good(messages', Past(Recorded'), silent')
    BY DEF Wellformed
  <2> QED BY <2>2, <2>12, <2>13, <2>14 DEF C
<1> QED BY <1>4, <1>5, <1>6, <1>8, <1>9, <1>10, <1>11, <1>12, <1>13, <1>14, <1>15 DEF LoopNext

\* and is kept by every step.
LEMMA LoopStep ==
    ASSUME LoopInv, [LoopNext]_loopVars
    PROVE  LoopInv'
<1>1. CASE LoopNext
  BY <1>1, TypesStep, BatchStep, WellformedStep DEF LoopInv
<1>2. CASE UNCHANGED loopVars
  <2> USE <1>2 DEF loopVars, requestVars, toolVars
  <2>1. Types'
    BY DEF LoopInv, Types, Calling, Busy
  <2>2. Batch'
    BY DEF LoopInv, Batch, Calling
  <2>3. Wellformed'
    <3>1. Recorded' = Recorded
      BY DEF Recorded, Busy
    <3>2. Wellformed' <=> Good(messages', Past(Recorded'), silent')
      BY DEF Wellformed
    <3> QED BY <3>1, <3>2 DEF LoopInv, Wellformed
  <2> QED BY <2>1, <2>2, <2>3 DEF LoopInv
<1> QED BY <1>1, <1>2

----------------------------------------------------------------------------
(* What holds of every run                                                 *)

\* LoopInv is the inductive invariant of a run.
LEMMA LoopInvariant == LoopSpec => []LoopInv
<1>1. LoopInit => LoopInv
  BY LoopInitial
<1>2. LoopInv /\ [LoopNext]_loopVars => LoopInv'
  BY LoopStep
<1> QED BY <1>1, <1>2, PTL DEF LoopSpec

\* Type correctness of ToolLoop, for every number of steps, calls, fallback models, attempts
\* and turns.
THEOREM LoopTypes == LoopSpec => []LoopTypeOK
<1>1. LoopInv => LoopTypeOK
  BY LoopTypesFact
<1> QED BY <1>1, LoopInvariant, PTL

\* NoOrphans: wherever the history is cut, however often, every tool message in it follows
\* the message that called the tool, with only other results in between
\* (truncator.py:51-98, with the compression of compressor.py and the turns of a run).
THEOREM ResultsHaveCalls == LoopSpec => []NoOrphans
<1>1. LoopInv => NoOrphans
  BY DEF LoopInv, Wellformed, Good, NoOrphans
<1> QED BY <1>1, LoopInvariant, PTL

\* SentIsPaired: an OpenAI model is sent exactly one result for every call it is shown,
\* except for calls that gave nothing that can be passed on
\* (tool_loop_agent_runner.py:1132-1285, openai_source.py:496-529).
THEOREM OneResultPerCall == LoopSpec => []SentIsPaired
<1>1. LoopInv => SentIsPaired
  <2> SUFFICES ASSUME LoopInv PROVE SentIsPaired
    OBVIOUS
  <2>1. /\ NoOrphanIn(Sent)
        /\ \A i \in DOMAIN Sent : \A call \in Sent[i].calls \ silent :
              Cardinality({j \in DOMAIN Sent : Sent[j] = Tool(call)}) = 1
    BY SaneFact DEF LoopInv, Wellformed, Sent
  <2> QED BY <2>1 DEF SentIsPaired
<1> QED BY <1>1, LoopInvariant, PTL

\* CallsKeepResults: however a run ends, every call in the history it leaves to be saved
\* has its result right behind it, except for calls that gave nothing that can be passed
\* on, or were made without tools (tool_loop_agent_runner.py:912-1000, 1419-1458,
\* 1467-1509, truncator.py:51-98).
THEOREM SavedIsAnswered == LoopSpec => []CallsKeepResults
<1>1. LoopInv => CallsKeepResults
  <2> SUFFICES ASSUME LoopInv, NEW i \in DOMAIN messages, NEW call \in messages[i].calls \ silent
               PROVE  \E j \in i + 1..Len(messages) :
                          /\ messages[j] = Tool(call)
                          /\ \A k \in i + 1..j : messages[k].role = "tool"
    BY DEF CallsKeepResults
  <2>1. Answered(messages, silent) /\ DOMAIN messages = 1..Len(messages)
    BY DEF LoopInv, Wellformed, Good, Fit
  <2>2. PICK j \in 1..Len(messages) : Follows(messages, i, j) /\ messages[j] = Tool(call)
    BY <2>1 DEF Answered
  <2>3. j \in i + 1..Len(messages)
    BY <2>1, <2>2 DEF Follows
  <2> QED BY <2>2, <2>3 DEF Follows
<1> QED BY <1>1, LoopInvariant, PTL
=============================================================================
