----------------------------- MODULE AgentTurn -----------------------------
(***************************************************************************)
(* The turns of the messages of ONE session (UMO) in the internal agent    *)
(* stage: follow_up.py (capture, ordered resume), internal.py process()    *)
(* (typing, session lock, build, run, save, finalize), the follow-up part  *)
(* of the tool loop runner and the stop watcher of astr_agent_run_util.py. *)
(* All module-level tables of that code are keyed by UMO, so sessions do   *)
(* not interact and one is enough.                                         *)
(*                                                                         *)
(* An action is the code one asyncio task runs between two suspensions.    *)
(* The asyncio.Condition of follow_up.py is never contended: the only      *)
(* await in its critical sections is condition.wait itself.                *)
(***************************************************************************)
EXTENDS Integers, Sequences

CONSTANTS
    Events,         \* the messages of the session
    Senders,        \* their authors
    Sender,         \* author of each message
    NoEvent,        \* None, where a message or its runner is expected
    RunsMayFail,    \* whether run_agent may leave its run without ending it
    MaxStops        \* bound on the stop requests of a behaviour

ASSUME AgentTurnAssumption ==
    /\ Sender \in [Events -> Senders]
    /\ NoEvent \notin Events
    /\ RunsMayFail \in BOOLEAN
    /\ MaxStops \in Nat

VARIABLES
    pc,             \* where process() of each message stands
    ticket,         \* FollowUpTicket: consumed, or resolved unconsumed
    target,         \* FollowUpCapture.target_run_id
    order,          \* FollowUpCapture.order_seq
    rstate,         \* AgentState of the runner of each message
    abort,          \* its _abort_signal
    stop,           \* the extra "agent_stop_requested" of each message
    stops,          \* number of stop requests so far
    active,         \* _ACTIVE_AGENT_RUNNERS[umo]
    holder,         \* the session lock,
    waiters,        \* and the tasks queued on it
    statuses,       \* _FOLLOW_UP_ORDER_STATE[umo]
    next_order,
    next_turn

captureVars == <<ticket, target, order>>
runVars     == <<rstate, abort, active>>
stopVars    == <<stop, stops>>
lockVars    == <<holder, waiters>>
orderVars   == <<statuses, next_order, next_turn>>
vars == <<pc, captureVars, runVars, stopVars, lockVars, orderVars>>

NoOrder  == -1
EmptyMap == [k \in {} |-> "pending"]
Statuses == {"pending", "active", "consumed", "finished"}
Handled  == {"consumed", "finished"}

Locations == {"away", "captured", "turn", "typing", "queued", "locked", "running",
              "finishing", "aborting", "saving", "stopping", "done"}
\* where the message is past the gate of the follow-up order
PastGate  == {"typing", "queued", "locked", "running", "finishing", "aborting",
              "saving", "stopping"}
InRun     == {"running", "finishing", "aborting", "saving"}
HoldsLock == InRun \cup {"locked"}

TypeOK ==
    /\ pc \in [Events -> Locations]
    /\ ticket \in [Events -> {"none", "pending", "consumed", "returned"}]
    /\ target \in [Events -> Events \cup {NoEvent}]
    /\ order \in [Events -> Nat \cup {NoOrder}]
    /\ rstate \in [Events -> {"idle", "running", "done"}]
    /\ abort \in [Events -> BOOLEAN]
    /\ stop \in [Events -> BOOLEAN]
    /\ stops \in 0..MaxStops
    /\ active \in Events \cup {NoEvent}
    /\ holder \in Events \cup {NoEvent}
    /\ waiters \in Seq(Events)
    /\ next_order \in Nat
    /\ next_turn \in 0..next_order
    /\ statuses \in [next_turn..(next_order - 1) -> Statuses]

Init ==
    /\ pc = [e \in Events |-> "away"]
    /\ ticket = [e \in Events |-> "none"]
    /\ target = [e \in Events |-> NoEvent]
    /\ order = [e \in Events |-> NoOrder]
    /\ rstate = [e \in Events |-> "idle"]
    /\ abort = [e \in Events |-> FALSE]
    /\ stop = [e \in Events |-> FALSE]
    /\ stops = 0
    /\ active = NoEvent
    /\ holder = NoEvent
    /\ waiters = <<>>
    /\ statuses = EmptyMap
    /\ next_order = 0
    /\ next_turn = 0

----------------------------------------------------------------------------
(* The follow-up order state. It exists exactly when next_order > 0: the   *)
(* one function that creates it allocates a number at once.                *)

OrderStateExists == next_order > 0

\* _advance_follow_up_turn_locked on the status map st: n is the first slot
\* from next_turn on that is not handled yet.
FirstUnhandled(st, n) ==
    /\ \A k \in next_turn..(n - 1) : k \in DOMAIN st /\ st[k] \in Handled
    /\ ~(n \in DOMAIN st /\ st[n] \in Handled)

\* Variants ending in "Bug" are not the code: each is a slip the properties
\* must notice, and stands before the definition it would replace.
ReleaseTooEarlyBug(st) ==
    \E n \in next_turn..next_order :
        /\ FirstUnhandled(st, n)
        /\ IF active = NoEvent
           THEN statuses' = EmptyMap /\ next_order' = 0 /\ next_turn' = 0
           ELSE /\ statuses' = [k \in DOMAIN st \ (next_turn..(n - 1)) |-> st[k]]
                /\ next_turn' = n
                /\ UNCHANGED next_order

\* The end _mark_follow_up_consumed and _finish_follow_up_turn share: advance,
\* and release the state when nobody needs it.
AdvanceAndRelease(st) ==
    \E n \in next_turn..next_order :
        /\ FirstUnhandled(st, n)
        /\ LET rest == DOMAIN st \ (next_turn..(n - 1)) IN
           IF rest = {} /\ active = NoEvent
           THEN /\ statuses' = EmptyMap
                /\ next_order' = 0
                /\ next_turn' = 0
           ELSE /\ statuses' = [k \in rest |-> st[k]]
                /\ next_turn' = n
                /\ UNCHANGED next_order

SetStatus(seq, status) ==
    IF seq \in DOMAIN statuses THEN [statuses EXCEPT ![seq] = status] ELSE statuses

MarkConsumed(seq) ==
    IF OrderStateExists
    THEN AdvanceAndRelease(
            IF seq \in DOMAIN statuses /\ statuses[seq] = "finished"
            THEN statuses ELSE SetStatus(seq, "consumed"))
    ELSE UNCHANGED orderVars

FinishTurn(seq) ==
    IF OrderStateExists
    THEN AdvanceAndRelease(SetStatus(seq, "finished"))
    ELSE UNCHANGED orderVars

----------------------------------------------------------------------------
(* Arrival and follow-up capture                                           *)

AcceptsWhenDoneBug(r) == ~abort[r]

\* AgentRunner.follow_up accepts a text: the run is not done, nor stopping.
AcceptsFollowUp(r) == rstate[r] # "done" /\ ~abort[r]

CanCapture(e) ==
    /\ active # NoEvent
    /\ Sender[active] = Sender[e]
    /\ ~stop[active]
    /\ AcceptsFollowUp(active)

CaptureSameNumberBug(e) ==
    /\ pc[e] = "away"
    /\ CanCapture(e)
    /\ pc' = [pc EXCEPT ![e] = "captured"]
    /\ ticket' = [ticket EXCEPT ![e] = "pending"]
    /\ target' = [target EXCEPT ![e] = active]
    /\ order' = [order EXCEPT ![e] = 0]
    /\ statuses' = [k \in {0} |-> "pending"]
    /\ next_order' = 1
    /\ UNCHANGED <<next_turn, runVars, stopVars, lockVars>>

\* The message reaches process(): try_capture_follow_up takes it for the
\* current run, numbered in arrival order.
Capture(e) ==
    /\ pc[e] = "away"
    /\ CanCapture(e)
    /\ pc' = [pc EXCEPT ![e] = "captured"]
    /\ ticket' = [ticket EXCEPT ![e] = "pending"]
    /\ target' = [target EXCEPT ![e] = active]
    /\ order' = [order EXCEPT ![e] = next_order]
    /\ statuses' = [k \in DOMAIN statuses \cup {next_order} |->
                        IF k = next_order THEN "pending" ELSE statuses[k]]
    /\ next_order' = next_order + 1
    /\ UNCHANGED <<next_turn, runVars, stopVars, lockVars>>

\* ... or there is no run to follow up, and the message goes its own way.
Arrive(e) ==
    /\ pc[e] = "away"
    /\ ~CanCapture(e)
    /\ pc' = [pc EXCEPT ![e] = "typing"]
    /\ UNCHANGED <<captureVars, runVars, stopVars, lockVars, orderVars>>

\* _monitor_follow_up_ticket marks a consumed slot before its message wakes.
Monitor(e) ==
    /\ pc[e] = "captured"
    /\ ticket[e] = "consumed"
    /\ order[e] \in DOMAIN statuses /\ statuses[order[e]] = "pending"
    /\ MarkConsumed(order[e])
    /\ UNCHANGED <<pc, captureVars, runVars, stopVars, lockVars>>

WakeUnmarkedBug(e) ==
    /\ pc[e] = "captured"
    /\ ticket[e] = "consumed"
    /\ pc' = [pc EXCEPT ![e] = "done"]
    /\ order' = [order EXCEPT ![e] = NoOrder]
    /\ UNCHANGED <<ticket, target, runVars, stopVars, lockVars, orderVars>>

\* prepare_follow_up_capture: the message was merged into the run. process()
\* returns, and finalize_follow_up_capture cancels the monitor.
WakeConsumed(e) ==
    /\ pc[e] = "captured"
    /\ ticket[e] = "consumed"
    /\ MarkConsumed(order[e])
    /\ pc' = [pc EXCEPT ![e] = "done"]
    /\ order' = [order EXCEPT ![e] = NoOrder]
    /\ UNCHANGED <<ticket, target, runVars, stopVars, lockVars>>

WakeAnyResolvedBug(e) ==
    /\ pc[e] = "captured"
    /\ ticket[e] # "pending"
    /\ pc' = [pc EXCEPT ![e] = IF ~OrderStateExists \/ next_turn = order[e]
                               THEN "typing" ELSE "turn"]
    /\ statuses' = SetStatus(order[e], "active")
    /\ UNCHANGED <<next_order, next_turn, captureVars, runVars, stopVars, lockVars>>

\* prepare_follow_up_capture: the run ended without it; only the head of the
\* line goes on (_activate_and_wait_follow_up_turn).
WakeReturned(e) ==
    /\ pc[e] = "captured"
    /\ ticket[e] = "returned"
    /\ pc' = [pc EXCEPT ![e] = IF ~OrderStateExists \/ next_turn = order[e]
                               THEN "typing" ELSE "turn"]
    /\ statuses' = SetStatus(order[e], "active")
    /\ UNCHANGED <<next_order, next_turn, captureVars, runVars, stopVars, lockVars>>

TakeTurnUnorderedBug(e) ==
    /\ pc[e] = "turn"
    /\ pc' = [pc EXCEPT ![e] = "typing"]
    /\ UNCHANGED <<captureVars, runVars, stopVars, lockVars, orderVars>>

TakeTurn(e) ==
    /\ pc[e] = "turn"
    /\ next_turn = order[e]
    /\ pc' = [pc EXCEPT ![e] = "typing"]
    /\ UNCHANGED <<captureVars, runVars, stopVars, lockVars, orderVars>>

----------------------------------------------------------------------------
(* From send_typing to the registered run                                  *)

\* An OnWaitingLLMRequestEvent hook stops the message.
RefusedWaiting(e) ==
    /\ pc[e] = "typing"
    /\ pc' = [pc EXCEPT ![e] = "stopping"]
    /\ UNCHANGED <<captureVars, runVars, stopVars, lockVars, orderVars>>

\* asyncio.Lock is FIFO: a task that finds the lock taken, or others queued,
\* queues behind them.
RequestLock(e) ==
    /\ pc[e] = "typing"
    /\ IF holder = NoEvent /\ waiters = <<>>
       THEN /\ holder' = e
            /\ pc' = [pc EXCEPT ![e] = "locked"]
            /\ UNCHANGED waiters
       ELSE /\ waiters' = Append(waiters, e)
            /\ pc' = [pc EXCEPT ![e] = "queued"]
            /\ UNCHANGED holder
    /\ UNCHANGED <<captureVars, runVars, stopVars, orderVars>>

AcquireLock(e) ==
    /\ pc[e] = "queued"
    /\ holder = NoEvent
    /\ waiters # <<>> /\ Head(waiters) = e
    /\ holder' = e
    /\ waiters' = Tail(waiters)
    /\ pc' = [pc EXCEPT ![e] = "locked"]
    /\ UNCHANGED <<captureVars, runVars, stopVars, orderVars>>

ReleaseLock == holder' = NoEvent /\ UNCHANGED waiters

\* build_main_agent gave nothing or raised, the host is blocked, or an
\* OnLLMRequestEvent hook stopped the message: no runner was registered.
BuildRefused(e) ==
    /\ pc[e] = "locked"
    /\ ReleaseLock
    /\ pc' = [pc EXCEPT ![e] = "stopping"]
    /\ UNCHANGED <<captureVars, runVars, stopVars, orderVars>>

\* The runner is built and registered. Building takes I/O, while a message
\* whose ticket is resolved was put on the event loop's ready queue before the
\* previous run gave the lock back: all of them have woken by now.
RegisterRunner(e) ==
    /\ pc[e] = "locked"
    /\ \A f \in Events : pc[f] = "captured" => ticket[f] = "pending"
    /\ active' = e
    /\ rstate' = [rstate EXCEPT ![e] = "running"]
    /\ pc' = [pc EXCEPT ![e] = "running"]
    /\ UNCHANGED <<captureVars, abort, stopVars, lockVars, orderVars>>

----------------------------------------------------------------------------
(* The run                                                                 *)

\* _pending_follow_ups of the runner of e
PendingFollowUps(e) == {f \in Events : target[f] = e /\ ticket[f] = "pending"}

ResolveFollowUps(e, verdict) ==
    ticket' = [f \in Events |->
                  IF f \in PendingFollowUps(e) THEN verdict ELSE ticket[f]]

\* A tool result is appended: it carries every pending follow-up
\* (_merge_follow_up_notice). Also after a stop request, if the result was
\* being stored when the request came.
ToolResult(e) ==
    /\ pc[e] = "running" /\ rstate[e] = "running"
    /\ PendingFollowUps(e) # {}
    /\ ResolveFollowUps(e, "consumed")
    /\ UNCHANGED <<pc, target, order, runVars, stopVars, lockVars, orderVars>>

\* A tool that returned nothing ends the run, and its result still takes the
\* pending follow-ups with it.
ToolEndsRun(e) ==
    /\ pc[e] = "running" /\ rstate[e] = "running"
    /\ rstate' = [rstate EXCEPT ![e] = "done"]
    /\ ResolveFollowUps(e, "consumed")
    /\ pc' = [pc EXCEPT ![e] = "saving"]
    /\ UNCHANGED <<target, order, abort, active, stopVars, lockVars, orderVars>>

\* _complete_with_assistant_response: the state is DONE before the
\* on_agent_done hook, the pending follow-ups are resolved after it.
BeginComplete(e) ==
    /\ pc[e] = "running" /\ rstate[e] = "running"
    /\ rstate' = [rstate EXCEPT ![e] = "done"]
    /\ pc' = [pc EXCEPT ![e] = "finishing"]
    /\ UNCHANGED <<captureVars, abort, active, stopVars, lockVars, orderVars>>

\* _finalize_aborted_step, in the same two steps
BeginAbort(e) ==
    /\ pc[e] = "running" /\ rstate[e] = "running"
    /\ abort[e]
    /\ rstate' = [rstate EXCEPT ![e] = "done"]
    /\ pc' = [pc EXCEPT ![e] = "aborting"]
    /\ UNCHANGED <<captureVars, abort, active, stopVars, lockVars, orderVars>>

\* The hook is over; after an abort run_agent clears the stop request.
EndHook(e) ==
    /\ pc[e] \in {"finishing", "aborting"}
    /\ ResolveFollowUps(e, "returned")
    /\ stop' = [stop EXCEPT ![e] = stop[e] /\ pc[e] # "aborting"]
    /\ pc' = [pc EXCEPT ![e] = "saving"]
    /\ UNCHANGED <<target, order, runVars, stops, lockVars, orderVars>>

ErrorUnresolvedBug(e) ==
    /\ pc[e] = "running" /\ rstate[e] = "running"
    /\ ~abort[e]
    /\ rstate' = [rstate EXCEPT ![e] = "done"]
    /\ pc' = [pc EXCEPT ![e] = "saving"]
    /\ UNCHANGED <<captureVars, abort, active, stopVars, lockVars, orderVars>>

\* The provider answered with an error: state ERROR, which done() counts too.
ErrorAnswer(e) ==
    /\ pc[e] = "running" /\ rstate[e] = "running"
    /\ ~abort[e]
    /\ rstate' = [rstate EXCEPT ![e] = "done"]
    /\ ResolveFollowUps(e, "returned")
    /\ pc' = [pc EXCEPT ![e] = "saving"]
    /\ UNCHANGED <<target, order, abort, active, stopVars, lockVars, orderVars>>

\* run_agent returns though the runner is not done: it caught an exception (a
\* status message that could not be sent, a re-query that raised), the last
\* allowed step asked for a tool again, or the scheduler did not resume it. No
\* follow-up is resolved.
RunFails(e) ==
    /\ RunsMayFail
    /\ pc[e] = "running" /\ rstate[e] = "running"
    /\ pc' = [pc EXCEPT ![e] = "saving"]
    /\ UNCHANGED <<captureVars, runVars, stopVars, lockVars, orderVars>>

\* _save_to_history is over: the runner is unregistered and the lock released.
SaveAndUnregister(e) ==
    /\ pc[e] = "saving"
    /\ active' = IF active = e THEN NoEvent ELSE active
    /\ ReleaseLock
    /\ pc' = [pc EXCEPT ![e] = "stopping"]
    /\ UNCHANGED <<captureVars, rstate, abort, stopVars, orderVars>>

\* stop_typing is over: finalize_follow_up_capture gives the turn on.
Finalize(e) ==
    /\ pc[e] = "stopping"
    /\ IF order[e] # NoOrder THEN FinishTurn(order[e]) ELSE UNCHANGED orderVars
    /\ order' = [order EXCEPT ![e] = NoOrder]
    /\ pc' = [pc EXCEPT ![e] = "done"]
    /\ UNCHANGED <<ticket, target, runVars, stopVars, lockVars>>

----------------------------------------------------------------------------
(* Stop requests                                                           *)

\* request_agent_stop_all marks every message the pipeline is working on.
RequestStop ==
    /\ stops < MaxStops
    /\ stops' = stops + 1
    /\ stop' = [e \in Events |-> stop[e] \/ pc[e] \notin {"away", "done"}]
    /\ UNCHANGED <<pc, captureVars, runVars, lockVars, orderVars>>

\* _watch_agent_stop_signal, polling while the run is not done
WatchStop(e) ==
    /\ pc[e] = "running" /\ rstate[e] = "running"
    /\ stop[e] /\ ~abort[e]
    /\ abort' = [abort EXCEPT ![e] = TRUE]
    /\ UNCHANGED <<pc, captureVars, rstate, active, stopVars, lockVars, orderVars>>

----------------------------------------------------------------------------
Wake(e)   == Monitor(e) \/ WakeConsumed(e) \/ WakeReturned(e) \/ TakeTurn(e)
EndRun(e) == ToolEndsRun(e) \/ BeginComplete(e) \/ BeginAbort(e) \/ ErrorAnswer(e)

Next ==
    \/ RequestStop
    \/ \E e \in Events :
        \/ Arrive(e) \/ Capture(e)
        \/ Wake(e)
        \/ RefusedWaiting(e) \/ RequestLock(e) \/ AcquireLock(e)
        \/ BuildRefused(e) \/ RegisterRunner(e)
        \/ ToolResult(e) \/ EndRun(e) \/ EndHook(e) \/ RunFails(e)
        \/ SaveAndUnregister(e) \/ Finalize(e)
        \/ WatchStop(e)

Spec == Init /\ [][Next]_vars

\* Every task the event loop can run runs; hooks, tools, providers and the
\* database answer (all of them have timeouts or are local), so a run ends.
Fairness ==
    \A e \in Events :
        /\ WF_vars(Wake(e))
        /\ WF_vars(RequestLock(e) \/ RefusedWaiting(e))
        /\ WF_vars(AcquireLock(e))
        /\ WF_vars(RegisterRunner(e) \/ BuildRefused(e))
        /\ WF_vars(EndRun(e))
        /\ WF_vars(EndHook(e))
        /\ WF_vars(SaveAndUnregister(e))
        /\ WF_vars(Finalize(e))

FairSpec == Spec /\ Fairness

----------------------------------------------------------------------------
(* Properties                                                              *)

Captured(e) == order[e] # NoOrder

\* The session lock gives one message at a time the run, and the registered
\* runner is that message's: never a runner left over from an earlier run
\* (internal.py:220, follow_up.py:38).
OneRunAtATime ==
    /\ \A e, f \in Events : pc[e] \in HoldsLock /\ pc[f] \in HoldsLock => e = f
    /\ active # NoEvent => pc[active] \in InRun

\* "Strict ordering: only the head can continue" (follow_up.py:124): a
\* follow-up past the gate has no earlier, unmerged follow-up behind it.
StrictOrder ==
    \A e, f \in Events :
        Captured(e) /\ Captured(f) /\ pc[e] \in PastGate /\ ticket[f] # "consumed"
            => order[e] <= order[f]

\* A follow-up merged into a run gets no run of its own (follow_up.py:207).
MergedXorAnswered ==
    \A e \in Events : ticket[e] = "consumed" => pc[e] \in {"captured", "done"}

\* The order state is released, and its numbers start again, only when no
\* captured follow-up still relies on its number (follow_up.py:107, 147).
OrderStateKept ==
    \A e \in Events :
        Captured(e) /\ ticket[e] # "consumed" => order[e] \in DOMAIN statuses

\* Every slot the line waits for is the slot of one live follow-up: no slot is
\* left behind to block the line for good (follow_up.py:63).
NoAbandonedSlot ==
    \A k \in DOMAIN statuses :
        statuses[k] \in {"pending", "active"} =>
            \E e \in Events : order[e] = k /\ pc[e] # "done"

\* A follow-up waits for a verdict only from a run that will give one: none is
\* captured by, or left with, a run past its resolution
\* (tool_loop_agent_runner.py:639, internal.py:426). Needs ~RunsMayFail.
NoOrphanTicket ==
    \A e \in Events :
        ticket[e] = "pending" => pc[target[e]] \in {"running", "finishing", "aborting"}

\* Every message process() begins with is finished: merged, refused or
\* answered (follow_up.py:207, internal.py:162). Needs ~RunsMayFail.
EveryMessageEnds == \A e \in Events : pc[e] # "away" ~> pc[e] = "done"

----------------------------------------------------------------------------
(* What the session promises: the abstract specification FollowUpTurns     *)

PhaseAt(location) ==
    CASE location = "away"     -> "away"
      [] location \in InRun    -> "running"
      [] location = "stopping" -> "leaving"
      [] location = "done"     -> "ended"
      [] OTHER                 -> "waiting"
Phase == [e \in Events |-> IF ticket[e] = "consumed" THEN "merged" ELSE PhaseAt(pc[e])]
Rank == [e \in Events |-> IF ticket[e] = "consumed" THEN NoOrder ELSE order[e]]

Turns == INSTANCE FollowUpTurns WITH phase <- Phase, rank <- Rank

\* The messages of a session take turns as FollowUpTurns says.
TakesTurns == Turns!Spec
=============================================================================
