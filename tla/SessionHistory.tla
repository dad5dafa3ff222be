--------------------------- MODULE SessionHistory ---------------------------
(***************************************************************************)
(* The conversation history of one session and everybody who works on it:  *)
(* messages that run the agent (read the history, run, write it back whole,*)
(* under the session lock), messages a handler asks the LLM about, with a  *)
(* history it has read before that lock is taken, the commands /reset, /new*)
(* and /stop, and agent runs woken by a cron job or a background tool,     *)
(* which take no lock. A message runs the agent at most once.              *)
(*                                                                         *)
(* Commands reach the messages at work through active_event_registry. The  *)
(* lock is FifoLock, which SessionLock implements. Database writes succeed,*)
(* and a conversation is not deleted while the session works on it.        *)
(***************************************************************************)
EXTENDS Integers, Sequences, FiniteSets

CONSTANTS
    Messages,       \* of the session
    Wakeups,        \* cron jobs and background tools of it
    UniqueSession,  \* platform_settings["unique_session"]
    NoEvent

Events == Messages \cup Wakeups
Kinds  == {"chat", "asked", "reset", "stop", "new"}

ASSUME SessionHistoryAssumption ==
    /\ IsFiniteSet(Events) /\ NoEvent \notin Events
    /\ UniqueSession \in BOOLEAN
    /\ Messages \cap Wakeups = {}

\* unified_msg_origin: of the chat, and of its member's own session
Umos  == {"chat", "member"}
Convs == 1..Cardinality(Events)     \* each event creates at most one

VARIABLES
    kind,           \* what each message asks for
    pc,             \* how far each event is
    umo,            \* its unified_msg_origin
    active,         \* active_event_registry._events
    stopped,        \* event.stop_event() was called
    askedStop,      \* the extra "agent_stop_requested"
    aborted,        \* agent_runner.was_aborted()
    holder, queue,  \* the session lock
    cur,            \* the session's conversation, or 0,
    made,           \* and how many were made
    conv,           \* the conversation an event works on, or 0 for none
    seen,           \* the history it read
    hist            \* the turns stored in each conversation

lockVars == <<holder, queue>>
stopVars == <<stopped, askedStop>>
convVars == <<cur, made, conv>>
vars == <<kind, pc, umo, active, stopVars, aborted, lockVars, convVars, seen, hist>>

Asks(k) == {e \in Messages : kind[e] = k}
Chats   == Asks("chat")     \* the agent stage builds the request,
Asked   == Asks("asked")    \* or a handler has
Resets  == Asks("reset")
Stops   == Asks("stop")
News    == Asks("new")
Requests == Chats \cup Asked

Lock == INSTANCE FifoLock WITH Tasks <- Events, Keys <- Umos, NoTask <- NoEvent

Pcs == {"idle", "woken", "waiting", "locked", "creating", "picked", "loaded",
        "running", "saving", "clearing", "told", "leaving", "done"}

TypeOK ==
    /\ kind \in [Messages -> Kinds]
    /\ pc \in [Events -> Pcs]
    /\ umo \in [Events -> Umos]
    /\ active \in [Umos -> SUBSET Messages]
    /\ stopped \in [Events -> BOOLEAN] /\ askedStop \in [Events -> BOOLEAN]
    /\ aborted \in [Events -> BOOLEAN]
    /\ holder \in [Umos -> Events \cup {NoEvent}]
    /\ queue \in [Umos -> Seq(Events)]
    /\ made \in Convs \cup {0} /\ cur \in 0..made
    /\ conv \in [Events -> 0..made]
    /\ seen \in [Events -> SUBSET Events]
    /\ hist \in [Convs -> SUBSET Events]

Init ==
    /\ kind \in [Messages -> Kinds]
    /\ pc = [e \in Events |-> "idle"]
    /\ umo = [e \in Events |-> "chat"]
    /\ active = [u \in Umos |-> {}]
    /\ stopped = [e \in Events |-> FALSE] /\ askedStop = [e \in Events |-> FALSE]
    /\ aborted = [e \in Events |-> FALSE]
    /\ Lock!Init
    /\ made = 0 /\ cur = 0
    /\ conv = [e \in Events |-> 0]
    /\ seen = [e \in Events |-> {}]
    /\ hist = [c \in Convs |-> {}]

Goes(e, from, to) == pc[e] = from /\ pc' = [pc EXCEPT ![e] = to]

----------------------------------------------------------------------------
(* A message enters and leaves the pipeline                                *)

\* The event bus starts a task for it; the first stage, WakingCheckStage, may
\* move it to a session of its own before anything is awaited.
Execute(e) ==
    /\ e \in Messages
    /\ Goes(e, "idle", "woken")
    /\ active' = [active EXCEPT ![umo[e]] = active[umo[e]] \cup {e}]
    /\ umo' = IF UniqueSession THEN [umo EXCEPT ![e] = "member"] ELSE umo
    /\ UNCHANGED <<kind, stopVars, aborted, lockVars, convVars, seen, hist>>

\* A stage stops the message, or raises an exception, a command is over, or a
\* handler does not come to ask the LLM.
GiveUp(e) ==
    /\ e \in Messages
    /\ \/ Goes(e, "woken", "leaving") \/ Goes(e, "told", "leaving")
       \/ e \in Asked /\ (Goes(e, "picked", "leaving") \/ Goes(e, "loaded", "leaving"))
    /\ UNCHANGED <<kind, umo, active, stopVars, aborted, lockVars, convVars, seen, hist>>

\* The finally clause of execute.
Leave(e) ==
    /\ Goes(e, "leaving", "done")
    /\ active' = [active EXCEPT ![umo[e]] = active[umo[e]] \ {e}]
    /\ UNCHANGED <<kind, umo, stopVars, aborted, lockVars, convVars, seen, hist>>

Unlock(e) == Lock!Exit(umo[e])

----------------------------------------------------------------------------
(* The conversation: ConversationManager, _get_session_conv                *)

\* A handler that asks the LLM about the message looks the conversation up
\* before anything is locked.
HandlerLooksUp(e) == e \in Asked /\ pc[e] = "woken"

\* Who looks up the session's conversation, and when.
LooksUp(e) ==
    \/ e \in Chats /\ pc[e] = "locked"
    \/ HandlerLooksUp(e)
    \/ e \in Resets /\ pc[e] = "woken"
    \/ e \in Wakeups /\ pc[e] = "idle"

PickConv(e) ==
    /\ LooksUp(e) /\ cur # 0
    /\ conv' = [conv EXCEPT ![e] = cur]
    /\ pc' = [pc EXCEPT ![e] = "picked"]
    /\ UNCHANGED <<kind, umo, active, stopVars, aborted, lockVars, cur, made, seen, hist>>

\* There is none: one is made, except for a reset, and by some handlers.
MissConv(e) ==
    /\ LooksUp(e) /\ cur = 0
    /\ \/ e \notin Resets /\ pc' = [pc EXCEPT ![e] = "creating"]
       \/ e \in Resets \cup Asked /\ pc' = [pc EXCEPT ![e] = "leaving"]
    /\ UNCHANGED <<kind, umo, active, stopVars, aborted, lockVars, convVars, seen, hist>>

AfterCreation(e) ==
    IF e \in News THEN "leaving" ELSE IF e \in Asked THEN "loaded" ELSE "picked"

\* A handler asks without the conversation it has just made.
CreateConv(e) ==
    /\ Goes(e, "creating", AfterCreation(e))
    /\ made' = made + 1
    /\ cur' = made + 1
    /\ conv' = IF e \in Asked THEN conv ELSE [conv EXCEPT ![e] = made + 1]
    /\ UNCHANGED <<kind, umo, active, stopVars, aborted, lockVars, seen, hist>>

LoadConv(e) ==
    /\ e \in Requests \cup Wakeups
    /\ Goes(e, "picked", "loaded")
    /\ seen' = [seen EXCEPT ![e] = hist[conv[e]]]
    /\ UNCHANGED <<kind, umo, active, stopVars, aborted, lockVars, convVars, hist>>

----------------------------------------------------------------------------
(* A message runs the agent: InternalAgentSubStage.process                 *)

\* When a message comes to the agent stage.
ComesToRun(e) ==
    \/ e \in Chats /\ pc[e] = "woken"
    \/ e \in Asked /\ pc[e] = "loaded"

\* Variants ending in "Bug" are slips the properties must notice.
RequestBargingBug(e) ==
    /\ ComesToRun(e)
    /\ pc' = [pc EXCEPT ![e] = "locked"]
    /\ holder' = [holder EXCEPT ![umo[e]] = e]
    /\ UNCHANGED <<kind, umo, active, stopVars, aborted, queue, convVars, seen, hist>>

RequestLLM(e) ==
    /\ ComesToRun(e)
    /\ Lock!Enter(e, umo[e])
    /\ pc' = [pc EXCEPT ![e] = IF holder'[umo[e]] = e THEN "locked" ELSE "waiting"]
    /\ UNCHANGED <<kind, umo, active, stopVars, aborted, convVars, seen, hist>>

Granted(e) ==
    /\ Goes(e, "waiting", "locked")
    /\ Lock!Grant(umo[e])
    /\ holder'[umo[e]] = e
    /\ UNCHANGED <<kind, umo, active, stopVars, aborted, convVars, seen, hist>>

\* build_main_agent takes the handler's request, history and all, as it is, or
\* has read the history for its own.
Built(e) ==
    \/ e \in Chats /\ pc[e] = "loaded"
    \/ e \in Asked /\ pc[e] = "locked"

StartRun(e) ==
    /\ Built(e) /\ ~stopped[e]
    /\ pc' = [pc EXCEPT ![e] = "running"]
    /\ UNCHANGED <<kind, umo, active, stopVars, aborted, lockVars, convVars, seen, hist>>

\* The agent could not be built, or a hook found the message stopped.
Refuse(e) ==
    /\ Built(e)
    /\ pc' = [pc EXCEPT ![e] = "leaving"]
    /\ Unlock(e)
    /\ UNCHANGED <<kind, umo, active, stopVars, aborted, convVars, seen, hist>>

\* The run gave its answer and the message goes on.
RunEnds(e) ==
    /\ ~stopped[e]
    /\ Goes(e, "running", "saving")
    /\ UNCHANGED <<kind, umo, active, stopVars, aborted, lockVars, convVars, seen, hist>>

AbortUnsavedBug(e) ==
    /\ stopped[e] \/ askedStop[e]
    /\ Goes(e, "running", "leaving")
    /\ Unlock(e)
    /\ aborted' = [aborted EXCEPT ![e] = TRUE]
    /\ askedStop' = [askedStop EXCEPT ![e] = FALSE]
    /\ UNCHANGED <<kind, umo, active, stopped, convVars, seen, hist>>

\* The watcher saw a stop, and the runner gave up: what it had is saved, be the
\* message stopped or not.
RunAborts(e) ==
    /\ stopped[e] \/ askedStop[e]
    /\ Goes(e, "running", "saving")
    /\ aborted' = [aborted EXCEPT ![e] = TRUE]
    /\ askedStop' = [askedStop EXCEPT ![e] = FALSE]
    /\ UNCHANGED <<kind, umo, active, stopped, lockVars, convVars, seen, hist>>

\* Nothing is kept: an error, an empty answer, a message stopped when the run
\* ends, or when it yields, last of all what an aborted run had buffered, and
\* the scheduler does not resume it.
RunDiscarded(e) ==
    /\ Goes(e, "running", "leaving")
    /\ Unlock(e)
    /\ \E cut \in {FALSE, stopped[e]} : aborted' = [aborted EXCEPT ![e] = cut]
    /\ UNCHANGED <<kind, umo, active, stopVars, convVars, seen, hist>>

Store(e, c) ==
    /\ IF e \in Wakeups THEN Goes(e, "saving", "done") /\ UNCHANGED lockVars
       ELSE Goes(e, "saving", "leaving") /\ Unlock(e)
    /\ hist' = IF c = 0 THEN hist ELSE [hist EXCEPT ![c] = seen[e] \cup {e}]

CommitToCurrentBug(e) ==
    /\ Store(e, cur)
    /\ UNCHANGED <<kind, umo, active, stopVars, aborted, convVars, seen>>

\* The whole history is written, as it was read, with the new turn, if the request
\* has a conversation; a message then leaves the lock.
Commit(e) ==
    /\ Store(e, conv[e])
    /\ UNCHANGED <<kind, umo, active, stopVars, aborted, convVars, seen>>

\* A woken agent runs; it may not be built, but it is never stopped.
WakeupRuns(e) ==
    /\ e \in Wakeups
    /\ Goes(e, "loaded", "saving") \/ Goes(e, "loaded", "done")
    /\ UNCHANGED <<kind, umo, active, stopVars, aborted, lockVars, convVars, seen, hist>>

Run(e) ==
    \/ RequestLLM(e) \/ Granted(e) \/ StartRun(e) \/ Refuse(e)
    \/ RunEnds(e) \/ RunAborts(e) \/ RunDiscarded(e) \/ Commit(e)
    \/ WakeupRuns(e)

----------------------------------------------------------------------------
(* The commands                                                            *)

Others(e) == active[umo[e]] \ {e}
StopAll(e) == stopped' = [x \in Events |-> stopped[x] \/ x \in Others(e)]

\* /reset: stop_all, then the conversation is emptied.
ResetStops(e) ==
    /\ e \in Resets
    /\ Goes(e, "picked", "clearing")
    /\ StopAll(e)
    /\ UNCHANGED <<kind, umo, active, askedStop, aborted, lockVars, convVars, seen, hist>>

Clear(e) ==
    /\ Goes(e, "clearing", "leaving")
    /\ hist' = [hist EXCEPT ![conv[e]] = {}]
    /\ UNCHANGED <<kind, umo, active, stopVars, aborted, lockVars, convVars, seen>>

\* /new: stop_all, then a conversation is made.
NewStops(e) ==
    /\ e \in News
    /\ Goes(e, "woken", "creating")
    /\ StopAll(e)
    /\ UNCHANGED <<kind, umo, active, askedStop, aborted, lockVars, convVars, seen, hist>>

\* /stop: request_agent_stop_all
AskStop(e) ==
    /\ e \in Stops
    /\ Goes(e, "woken", "told")
    /\ askedStop' = [x \in Events |-> askedStop[x] \/ x \in Others(e)]
    /\ UNCHANGED <<kind, umo, active, stopped, aborted, lockVars, convVars, seen, hist>>

Command(e) == ResetStops(e) \/ Clear(e) \/ NewStops(e) \/ AskStop(e)

----------------------------------------------------------------------------
Step(e) ==
    \/ Execute(e) \/ GiveUp(e) \/ Leave(e)
    \/ PickConv(e) \/ MissConv(e) \/ CreateConv(e) \/ LoadConv(e)
    \/ Run(e) \/ Command(e)

\* No more messages; a message stuck halfway would be a deadlock.
Over == (\A e \in Events : pc[e] \in {"idle", "done"}) /\ UNCHANGED vars

Next == (\E e \in Events : Step(e)) \/ Over

Spec == Init /\ [][Next]_vars

----------------------------------------------------------------------------
(* Properties                                                              *)

\* The registry holds a message exactly while it is at work, and under its own
\* unified_msg_origin, where the commands of its session look for it
\* (active_event_registry.py:19, scheduler.py:98, waking_check/stage.py:82).
ActiveIsRegistered ==
    \A e \in Messages, u \in Umos :
        e \in active[u] <=> umo[e] = u /\ pc[e] \notin {"idle", "done"}

\* A conversation holds only turns that were begun in it, although /new may
\* change the session's conversation under a run (internal.py:531).
TurnsStayInConversation ==
    \A c \in Convs : \A e \in hist[c] : conv[e] = c

\* Who reads the history without the lock, and will write over the turn of e.
Overwrites(r, e) ==
    /\ r \in Asked \cup Wakeups /\ r # e
    /\ conv[r] = conv[e] /\ pc[r] # "picked" /\ e \notin seen[r]

\* /stop does not keep the history from being saved (active_event_registry.py:56):
\* a run that nothing but /stop cut short keeps its turn, unless the conversation
\* was reset or somebody works on it who read it without the lock (internal.py:409).
AbortedIsSaved ==
    \A e \in Messages :
        aborted[e] /\ conv[e] # 0 /\ ~stopped[e] /\ pc[e] \in {"leaving", "done"} =>
            \/ e \in hist[conv[e]]
            \/ \E r \in Resets : conv[r] = conv[e]
            \/ \E r \in Events : Overwrites(r, e)

\* A run that has read the history under the lock keeps every turn stored so far,
\* those of handlers' requests included, as all messages write under that lock
\* (internal.py:220, astr_main_agent.py:1522). Woken agents are another matter, and
\* so are requests that bring a history along.
ChatTurnsKept ==
    [][\A e \in Chats :
          Commit(e) /\ (\A w \in Wakeups : conv[w] # conv[e]) =>
              hist[conv[e]] \subseteq hist'[conv[e]]]_vars

\* /stop reaches every run of its session: "stop the Agent tasks currently
\* running in the current session" (active_event_registry.py:60).
StopReachesRuns ==
    [][\A s \in Messages : AskStop(s) =>
          \A e \in Messages :
              pc[e] = "running" /\ umo[e] = umo[s] => askedStop'[e]]_vars

\* Nothing but /reset removes a turn: "Persist agent interaction into
\* conversation history" (history_saver.py:16).
NoTurnLost ==
    [][\/ \A c \in Convs : hist[c] \subseteq hist'[c]
       \/ \E e \in Messages : Clear(e)]_vars

\* What /reset has cleared does not come back with a run it has stopped: "if the
\* event is stopped, the history is not saved" (internal.py:408).
ClearedStaysCleared ==
    [][\A e \in Messages :
          Commit(e) /\ aborted[e] => seen[e] \subseteq hist[conv[e]]]_vars
=============================================================================
