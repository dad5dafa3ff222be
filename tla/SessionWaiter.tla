---------------------------- MODULE SessionWaiter ----------------------------
(***************************************************************************)
(* A plugin that waits for the next messages of its session: the waiters   *)
(* of one session, the messages that are offered to them, and the periods  *)
(* after which they time out.                                              *)
(*                                                                         *)
(* Every waiter uses the default filter, so all of them have one key in    *)
(* USER_SESSIONS. The lock of a waiter is FifoLock.                        *)
(***************************************************************************)
EXTENDS Integers, Sequences, FiniteSets, SequencesExt

CONSTANTS
    MaxMessages,    \* bounds the messages of the session
    MaxWaits,       \* bounds the calls of functions decorated with session_waiter
    MaxKeeps        \* bounds the calls of keep() on one waiter

\* Messages and calls are numbered in the order in which they come.
Messages == 1..MaxMessages
Waiters == 1..MaxWaits
NoMessage == 0
NoWaiter == 0

ASSUME SessionWaiterAssumption ==
    MaxMessages \in Nat /\ MaxWaits \in Nat /\ MaxKeeps \in Nat

VARIABLES
    session,        \* the waiter in USER_SESSIONS, or NoWaiter
    filters,        \* FILTERS, each filter standing for its waiter
    waiter,         \* how far each register_wait is
    future,         \* its session_controller.future
    holds,          \* its _holding tasks, in the order they were started
    holder, queue,  \* its lock
    at,             \* how far each message is
    pos,            \* its place in FILTERS
    stopped,        \* event.stop_event() was called
    serving,        \* the waiter that was found for it last
    asking,         \* the waiter its handler waits for
    handled,        \* how often a waiter's handler was started for it
    met             \* waiters that shared the session with another one

lockVars == <<holder, queue>>
registry == <<session, filters, waiter, met>>
messageVars == <<at, pos, stopped, serving,
                   asking, handled>>
waiterVars == <<registry, future, holds, lockVars, messageVars>>

Lock == INSTANCE FifoLock WITH Tasks <- Messages, Keys <- Waiters, NoTask <- NoMessage

Waiting == {w \in Waiters : waiter[w] = "waiting"}

WaiterTypeOK ==
    /\ session \in Waiters \cup {NoWaiter}
    /\ filters \in Seq(Waiters) /\ IsInjective(filters)
    /\ waiter \in [Waiters -> {"new", "waiting", "ended"}]
    /\ future \in [Waiters -> {"pending", "result", "error"}]
    /\ \A w \in Waiters :
        /\ holds[w] \in Seq({"on", "released", "expired", "over"})
        /\ Len(holds[w]) <= MaxKeeps + 1
    /\ holder \in [Waiters -> Messages \cup {NoMessage}]
    /\ queue \in [Waiters -> Seq(Messages)]
    /\ at \in [Messages -> {"away", "scanning", "locking", "handling", "nested",
                            "free", "asking", "done"}]
    /\ pos \in [Messages -> Nat \ {0}]
    /\ stopped \in [Messages -> BOOLEAN]
    /\ serving \in [Messages -> Waiters \cup {NoWaiter}]
    /\ asking \in [Messages -> Waiters \cup {NoWaiter}]
    /\ handled \in [Messages -> Nat]
    /\ met \subseteq Waiters

WaiterInit ==
    /\ session = NoWaiter /\ filters = <<>>
    /\ waiter = [w \in Waiters |-> "new"]
    /\ future = [w \in Waiters |-> "pending"]
    /\ holds = [w \in Waiters |-> <<>>]
    /\ Lock!Init
    /\ at = [m \in Messages |-> "away"]
    /\ pos = [m \in Messages |-> 1]
    /\ stopped = [m \in Messages |-> FALSE]
    /\ serving = [m \in Messages |-> NoWaiter]
    /\ asking = [m \in Messages |-> NoWaiter]
    /\ handled = [m \in Messages |-> 0]
    /\ met = {}

MessageGoes(m, from, to) == at[m] = from /\ at' = [at EXCEPT ![m] = to]

\* A coroutine that is not suspended keeps the event loop to itself.
Idle == \A m \in Messages : at[m] # "scanning"

Done(w) == future[w] # "pending"

----------------------------------------------------------------------------
(* SessionController                                                       *)

\* stop(): the first outcome counts.
Stop(w, outcome) ==
    future' = IF Done(w) THEN future ELSE [future EXCEPT ![w] = outcome]

Release(hold) == IF hold = "on" THEN "released" ELSE hold

\* Variants ending in "Bug" are slips the properties must notice.
KeepReleasingNewBug(w) ==
    holds' = [holds EXCEPT ![w] = Append(holds[w], "released")]

\* keep(): the period so far is released and a new one begins.
Keep(w) ==
    LET released == [k \in DOMAIN holds[w] |-> Release(holds[w][k])]
    IN holds' = [holds EXCEPT ![w] = Append(released, "on")]

\* The period of a _holding task is over; it may have been released in the same
\* turn of the event loop, before the task could see it.
Expire(w, k) ==
    /\ Idle
    /\ holds[w][k] \in {"on", "released"}
    /\ holds' = [holds EXCEPT ![w][k] = "expired"]
    /\ UNCHANGED <<registry, future, lockVars, messageVars>>

\* The _holding task wakes.
HoldingEnds(w, k) ==
    /\ Idle
    /\ holds[w][k] \in {"released", "expired"}
    /\ holds' = [holds EXCEPT ![w][k] = "over"]
    /\ IF holds[w][k] = "expired" THEN Stop(w, "error") ELSE UNCHANGED future
    /\ UNCHANGED <<registry, lockVars, messageVars>>

----------------------------------------------------------------------------
(* SessionWaiter                                                           *)

\* A message's handler calls a decorated function, which registers its waiter,
\* over any other of the session, and waits.
RegisterWait(m, w) ==
    /\ Idle
    /\ waiter[w] = "new" /\ \A v \in 1..w-1 : waiter[v] # "new"
    /\ MessageGoes(m, "free", "asking") \/ MessageGoes(m, "handling", "nested")
    /\ asking' = [asking EXCEPT ![m] = w]
    /\ waiter' = [waiter EXCEPT ![w] = "waiting"]
    /\ session' = w
    /\ filters' = Append(filters, w)
    /\ Keep(w)
    /\ met' = IF Waiting = {} THEN met ELSE met \cup Waiting \cup {w}
    /\ UNCHANGED <<future, lockVars, pos, stopped, serving, handled>>

\* FILTERS.remove: each filter is there once.
LeavesFilters(w) ==
    \E i \in DOMAIN filters : filters[i] = w /\ filters' = RemoveAt(filters, i)

\* register_wait resumes, cleans up, and its caller goes on.
Cleanup(m) ==
    LET w == asking[m] IN
    /\ Idle
    /\ MessageGoes(m, "asking", "free") \/ MessageGoes(m, "nested", "handling")
    /\ Done(w)
    /\ asking' = [asking EXCEPT ![m] = NoWaiter]
    /\ waiter' = [waiter EXCEPT ![w] = "ended"]
    /\ session' = NoWaiter
    /\ LeavesFilters(w)
    /\ UNCHANGED <<future, holds, lockVars, pos, stopped, serving, handled, met>>

DropWhileBusyBug(m, w) ==
    IF holder[w] = NoMessage
    THEN /\ Lock!Enter(m, w)
         /\ at' = [at EXCEPT ![m] = "handling"]
         /\ handled' = [handled EXCEPT ![m] = @ + 1]
    ELSE /\ at' = [at EXCEPT ![m] = "done"]
         /\ UNCHANGED <<lockVars, handled>>

\* trigger(): one handler of a waiter at a time.
Trigger(m, w) ==
    /\ Lock!Enter(m, w)
    /\ IF holder'[w] = m
       THEN /\ at' = [at EXCEPT ![m] = "handling"]
            /\ handled' = [handled EXCEPT ![m] = @ + 1]
       ELSE /\ at' = [at EXCEPT ![m] = "locking"]
            /\ UNCHANGED handled

\* trigger() has the lock, and looks again whether the session is over.
Locked(m) ==
    LET w == serving[m] IN
    /\ Idle
    /\ at[m] = "locking" /\ holder[w] = NoMessage /\ Head(queue[w]) = m
    /\ IF Done(w)
       THEN /\ queue' = [queue EXCEPT ![w] = Tail(queue[w])]
            /\ at' = [at EXCEPT ![m] = "scanning"]
            /\ UNCHANGED <<holder, handled>>
       ELSE /\ Lock!Grant(w)
            /\ at' = [at EXCEPT ![m] = "handling"]
            /\ handled' = [handled EXCEPT ![m] = @ + 1]
    /\ UNCHANGED <<registry, future, holds, pos, stopped, serving, asking>>

HandlerKeeps(m) ==
    /\ Idle
    /\ at[m] = "handling"
    /\ Len(holds[serving[m]]) <= MaxKeeps
    /\ Keep(serving[m])
    /\ UNCHANGED <<registry, future, lockVars, messageVars>>

\* controller.stop(), or a keep() that leaves no time.
HandlerStops(m) ==
    /\ Idle
    /\ at[m] = "handling"
    /\ \E outcome \in {"result", "error"} : Stop(serving[m], outcome)
    /\ UNCHANGED <<registry, holds, lockVars, messageVars>>

ReturnCleaningBug(m) ==
    /\ Lock!Exit(serving[m])
    /\ session' = NoWaiter
    /\ filters' = Remove(filters, serving[m])
    /\ UNCHANGED <<future, waiter, met>>

\* The handler returns, or raises, which stops the session.
Return(m) ==
    /\ Lock!Exit(serving[m])
    /\ UNCHANGED future \/ Stop(serving[m], "error")
    /\ UNCHANGED registry

HandlerEnds(m) ==
    /\ Idle
    /\ MessageGoes(m, "handling", "scanning")
    /\ Return(m)
    /\ UNCHANGED <<holds, pos, stopped, serving,
                   asking, handled>>

----------------------------------------------------------------------------
(* handle_session_control_agent, ahead of all other handlers               *)

Arrive(m) ==
    /\ Idle
    /\ MessageGoes(m, "away", "scanning") /\ \A n \in 1..m-1 : at[n] # "away"
    /\ UNCHANGED <<registry, future, holds, lockVars, pos, stopped, serving,
                   asking, handled>>

\* The message has been offered to every filter: unless one of them found a
\* waiter, it goes on to the other handlers.
ScanEnds(m) ==
    /\ pos[m] > Len(filters) \/ session = NoWaiter
    /\ MessageGoes(m, "scanning", IF stopped[m] THEN "done" ELSE "free")
    /\ UNCHANGED <<registry, future, holds, lockVars, pos, stopped, serving,
                   asking, handled>>

\* The next filter, which need not be that of the session's waiter, finds it.
ScanFinds(m) ==
    /\ at[m] = "scanning"
    /\ pos[m] <= Len(filters) /\ session # NoWaiter
    /\ pos' = [pos EXCEPT ![m] = @ + 1]
    /\ stopped' = [stopped EXCEPT ![m] = TRUE]
    /\ serving' = [serving EXCEPT ![m] = session]
    /\ IF Done(session)
       THEN UNCHANGED <<lockVars, at, handled>>
       ELSE Trigger(m, session)
    /\ UNCHANGED <<registry, future, holds, asking>>

\* The other handlers have finished with it.
MessageLeaves(m) ==
    /\ Idle
    /\ MessageGoes(m, "free", "done")
    /\ UNCHANGED <<registry, future, holds, lockVars, pos, stopped, serving,
                   asking, handled>>

----------------------------------------------------------------------------
MessageStep(m) ==
    \/ Arrive(m) \/ ScanEnds(m) \/ ScanFinds(m) \/ MessageLeaves(m) \/ Locked(m)
    \/ HandlerKeeps(m) \/ HandlerStops(m) \/ HandlerEnds(m)
    \/ \E w \in Waiters : RegisterWait(m, w)
    \/ Cleanup(m)

Timer(w, k) == Expire(w, k) \/ HoldingEnds(w, k)

\* No more messages; a message stuck halfway would be a deadlock.
Over ==
    /\ \A m \in Messages : at[m] \in {"away", "done"}
    /\ UNCHANGED waiterVars

WaiterNext ==
    \/ \E m \in Messages : MessageStep(m)
    \/ \E w \in Waiters : \E k \in DOMAIN holds[w] : Timer(w, k)
    \/ Over

WaiterSpec == WaiterInit /\ [][WaiterNext]_waiterVars

\* The event loop runs what is ready and time passes. Handlers may take for ever.
WaiterFairness ==
    /\ \A m \in Messages :
        /\ WF_waiterVars(ScanEnds(m)) /\ WF_waiterVars(ScanFinds(m))
        /\ WF_waiterVars(Locked(m)) /\ WF_waiterVars(Cleanup(m))
    /\ \A w \in Waiters, k \in 1..MaxKeeps + 1 :
        WF_waiterVars(k \in DOMAIN holds[w] /\ Expire(w, k))
        /\ WF_waiterVars(k \in DOMAIN holds[w] /\ HoldingEnds(w, k))

WaiterFairSpec == WaiterSpec /\ WaiterFairness

----------------------------------------------------------------------------
(* Properties                                                              *)

\* A waiter that had the session to itself is found by every message until it
\* is over: messages "will first be processed by" its handler, "until the
\* session controller is stopped or times out" (session_waiter.py:131, 146).
AloneIsReachable ==
    \A w \in Waiting \ met : session = w /\ filters = <<w>>

\* A message that no handler saw is kept from the rest of the pipeline only if
\* it came when a waiter was just over (session_waiter.py:154, 158). It is not
\* lost for another reason, such as a handler that is busy with an earlier one.
DroppedOnlyAtEnd ==
    \A m \in Messages :
        at[m] = "done" /\ stopped[m] /\ handled[m] = 0 => Done(serving[m])

\* Whoever waits goes on some time: a period is running at all times, whatever
\* the handlers do, and the last one ends the session (session_waiter.py:66).
WaitersEnd == \A w \in Waiters : waiter[w] = "waiting" ~> waiter[w] = "ended"

\* A session has one handler at a time: "a session must have only one trigger
\* at a time" (session_waiter.py:122).
OneHandlerPerSession ==
    \A m, n \in Messages : at[m] = "handling" /\ at[n] = "handling" => m = n

\* A waiter is found by messages as long as its session lasts.
WaiterIsReachable == \A w \in Waiting : ~Done(w) => session = w
=============================================================================
