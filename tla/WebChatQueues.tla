---------------------------- MODULE WebChatQueues ----------------------------
(***************************************************************************)
(* The input queue of one WebChat conversation: the dashboard puts         *)
(* messages, a listener task hands them to the adapter, the dashboard may  *)
(* delete the conversation and the adapter may shut down meanwhile.        *)
(*                                                                         *)
(* Queues are numbered as they are made. Each has one close event, and at  *)
(* most one listener task, which go by its number: removing the queue      *)
(* leaves all three to whoever still works with them.                      *)
(***************************************************************************)
EXTENDS Integers, Sequences, FiniteSets, Functions

CONSTANTS
    Messages,       \* to the conversation
    Maxsize,        \* queue_maxsize
    MaxQueues       \* bounds how often the conversation gets a queue

ASSUME WebChatQueuesAssumption ==
    /\ IsFiniteSet(Messages)
    /\ Maxsize \in Nat \ {0} /\ MaxQueues \in Nat \ {0}

Queues == 1..MaxQueues
None == 0

VARIABLES
    made,           \* queues made so far
    queue,          \* self.queues, the queue of the conversation, or None
    closeEvent,     \* self._queue_close_events
    registered,     \* self._listener_tasks
    closed,         \* the close events that are set
    content,        \* of each queue
    adapter,        \* _listener_callback is set only while it is "on"
    awaited,        \* the listeners clear_listener waits for
    task,           \* how far each listener task is
    hand,           \* the messages a listener has taken off its queue
    cancelled,      \* listeners that were cancelled
    sender,         \* how far the request that sends a message is
    target,         \* the queue it puts the message into
    sent, handled,  \* messages, in the order in which they were put, and handled
    late,           \* how many were handled after their queue was removed
    forgotten       \* listeners the manager lost to an older one's done_callback

managerVars == <<made, queue, closeEvent, registered, closed>>
adapterVars == <<adapter, awaited>>
listenerVars == <<task, hand, cancelled>>
senderVars == <<sender, target>>
vars == <<managerVars, content, adapterVars, listenerVars, senderVars, sent, handled, late,
          forgotten>>

TypeOK ==
    /\ made \in 0..MaxQueues
    /\ queue \in 0..made /\ closeEvent \in 0..made /\ registered \in 0..made
    /\ closed \subseteq 1..made /\ cancelled \subseteq 1..made /\ awaited \subseteq 1..made
    /\ content \in [Queues -> Seq(Messages)]
    /\ \A q \in Queues : Len(content[q]) <= Maxsize
    /\ adapter \in {"new", "on", "clearing", "off"}
    /\ task \in [Queues -> {"none", "starting", "waiting", "took", "calling",
                            "ended", "over"}]
    /\ hand \in [Queues -> Messages \cup {None}]
    /\ \A q \in Queues :
        hand[q] \in IF task[q] \in {"took", "calling"} THEN Messages ELSE {None}
    /\ sender \in [Messages -> {"idle", "blocked", "done"}]
    /\ target \in [Messages -> 0..made]
    /\ sent \in Seq(Messages) /\ handled \in Seq(Messages)
    /\ late \in [Queues -> Nat] /\ forgotten \subseteq 1..made

Init ==
    /\ made = 0 /\ queue = None /\ closeEvent = None /\ registered = None
    /\ closed = {} /\ content = [q \in Queues |-> <<>>]
    /\ adapter = "new" /\ awaited = {}
    /\ task = [q \in Queues |-> "none"]
    /\ hand = [q \in Queues |-> None]
    /\ cancelled = {}
    /\ sender = [m \in Messages |-> "idle"]
    /\ target = [m \in Messages |-> None]
    /\ sent = <<>> /\ handled = <<>>
    /\ late = [q \in Queues |-> 0] /\ forgotten = {}

----------------------------------------------------------------------------
(* The requests of the dashboard                                           *)

\* Variants ending in "Bug" are slips the properties must notice.
StartOnlyOnceBug(q) ==
    IF adapter # "on" \/ made > 0
    THEN UNCHANGED <<task, registered>>
    ELSE /\ task' = [task EXCEPT ![q] = "starting"]
         /\ registered' = q

\* _start_listener_if_needed, for a queue that has its close event.
StartListener(q) ==
    IF adapter # "on"
    THEN UNCHANGED <<task, registered>>
    ELSE /\ task' = [task EXCEPT ![q] = "starting"]
         /\ registered' = q

\* get_or_create_queue
GetOrCreate ==
    IF queue # None
    THEN UNCHANGED <<managerVars, task>>
    ELSE /\ made < MaxQueues
         /\ made' = made + 1
         /\ queue' = made + 1
         /\ closeEvent' = made + 1
         /\ StartListener(made + 1)
         /\ UNCHANGED closed

\* queue.put: at once if there is room, whoever may be waiting for some.
Put(m, q) ==
    IF Len(content[q]) < Maxsize
    THEN /\ content' = [content EXCEPT ![q] = Append(@, m)]
         /\ sender' = [sender EXCEPT ![m] = "done"]
         /\ sent' = Append(sent, m)
    ELSE /\ sender' = [sender EXCEPT ![m] = "blocked"]
         /\ UNCHANGED <<content, sent>>

\* build_chat_stream
Send(m) ==
    /\ sender[m] = "idle"
    /\ GetOrCreate
    /\ target' = [target EXCEPT ![m] = queue']
    /\ Put(m, queue')
    /\ UNCHANGED <<adapterVars, hand, cancelled, handled, late, forgotten>>

\* A blocked request finds room.
Unblock(m) ==
    /\ sender[m] = "blocked" /\ Len(content[target[m]]) < Maxsize
    /\ Put(m, target[m])
    /\ UNCHANGED <<managerVars, adapterVars, listenerVars, target,
                   handled, late, forgotten>>

RemoveUnclosedBug ==
    /\ queue # None
    /\ queue' = None
    /\ closeEvent' = None
    /\ registered' = None
    /\ cancelled' = cancelled \cup ({registered} \ {None})
    /\ UNCHANGED <<made, closed, content, adapterVars, task, hand, senderVars, sent,
                   handled, late, forgotten>>

RemoveLeavingListenerBug ==
    /\ queue # None
    /\ queue' = None
    /\ closeEvent' = None
    /\ registered' = None
    /\ UNCHANGED <<made, closed, content, adapterVars, listenerVars, senderVars, sent,
                   handled, late, forgotten>>

\* remove_queue, when the conversation is deleted.
RemoveQueue ==
    /\ queue # None
    /\ queue' = None
    /\ closeEvent' = None
    /\ closed' = closed \cup ({closeEvent} \ {None})
    /\ registered' = None
    /\ cancelled' = cancelled \cup ({registered} \ {None})
    /\ UNCHANGED <<made, content, adapterVars, task, hand, senderVars,
                   sent, handled, late, forgotten>>

----------------------------------------------------------------------------
(* The adapter: QueueListener.run                                          *)

\* set_listener, also for a queue made before.
SetListener ==
    /\ adapter = "new"
    /\ adapter' = "on"
    /\ IF queue = None
       THEN UNCHANGED <<task, registered>>
       ELSE /\ task' = [task EXCEPT ![queue] = "starting"]
            /\ registered' = queue
    /\ UNCHANGED <<made, queue, closeEvent, closed, content, awaited, hand, cancelled,
                   senderVars, sent, handled, late, forgotten>>

\* clear_listener closes and cancels, and waits for the listeners it knows of.
ClearListener ==
    /\ adapter = "on"
    /\ adapter' = "clearing"
    /\ closed' = closed \cup ({closeEvent} \ {None})
    /\ closeEvent' = None
    /\ awaited' = {registered} \ {None}
    /\ cancelled' = cancelled \cup ({registered} \ {None})
    /\ UNCHANGED <<made, queue, registered, content, task, hand, senderVars, sent,
                   handled, late, forgotten>>

Cleared ==
    /\ adapter = "clearing"
    /\ \A q \in awaited : task[q] = "over"
    /\ adapter' = "off"
    /\ registered' = None
    /\ UNCHANGED <<made, queue, closeEvent, closed, content, awaited, listenerVars,
                   senderVars, sent, handled, late, forgotten>>

----------------------------------------------------------------------------
(* A listener: _listen_to_queue                                            *)

Hands(q, from, to, m) ==
    /\ task[q] = from /\ task' = [task EXCEPT ![q] = to]
    /\ hand' = [hand EXCEPT ![q] = m]

\* The task gets its first step, unless it was cancelled before.
Start(q) ==
    /\ Hands(q, "starting", IF q \in cancelled THEN "ended" ELSE "waiting", None)
    /\ UNCHANGED <<managerVars, content, adapterVars, cancelled, senderVars, sent,
                   handled, late, forgotten>>

\* get_task takes a message; the listener itself has yet to wake.
Take(q) ==
    /\ content[q] # <<>> /\ q \notin closed
    /\ Hands(q, "waiting", "took", Head(content[q]))
    /\ content' = [content EXCEPT ![q] = Tail(@)]
    /\ UNCHANGED <<managerVars, adapterVars, cancelled, senderVars,
                   sent, handled, late, forgotten>>

\* The listener finds its queue closed, or itself cancelled: it ends, and what
\* get_task has taken by then is lost.
Break(q) ==
    /\ q \in closed \cup cancelled
    /\ \/ /\ Hands(q, "waiting", "ended", None)
          /\ \/ UNCHANGED content
             \/ content[q] # <<>> /\ content' = [content EXCEPT ![q] = Tail(@)]
       \/ /\ Hands(q, "took", "ended", None)
          /\ UNCHANGED content
       \/ /\ q \in cancelled
          /\ Hands(q, "calling", "ended", None)
          /\ UNCHANGED content
    /\ UNCHANGED <<managerVars, adapterVars, cancelled, senderVars,
                   sent, handled, late, forgotten>>

\* It found the message alone: close_task had not noticed yet.
Call(q) ==
    /\ q \notin cancelled
    /\ IF adapter = "on" THEN Hands(q, "took", "calling", hand[q])
       ELSE Hands(q, "took", "waiting", None)
    /\ UNCHANGED <<managerVars, content, adapterVars, cancelled, senderVars, sent,
                   handled, late, forgotten>>

\* The callback has committed the event, or raised an exception.
CallEnds(q) ==
    /\ q \notin cancelled
    /\ Hands(q, "calling", "waiting", None)
    /\ handled' = Append(handled, hand[q])
    /\ late' = IF q \in closed \/ queue # q THEN [late EXCEPT ![q] = @ + 1] ELSE late
    /\ UNCHANGED <<managerVars, content, adapterVars, cancelled, senderVars, sent,
                   forgotten>>

\* Its done_callback forgets the conversation's listener, whichever that is now.
DoneCallback(q) ==
    /\ Hands(q, "ended", "over", None)
    /\ registered' = None
    /\ forgotten' = forgotten \cup ({registered} \ {None, q})
    /\ UNCHANGED <<made, queue, closeEvent, closed, content, adapterVars, cancelled,
                   senderVars, sent, handled, late>>

Listener(q) ==
    Start(q) \/ Take(q) \/ Break(q) \/ Call(q) \/ CallEnds(q) \/ DoneCallback(q)

----------------------------------------------------------------------------
Next ==
    \/ \E m \in Messages : Send(m) \/ Unblock(m)
    \/ RemoveQueue
    \/ SetListener \/ ClearListener \/ Cleared
    \/ \E q \in Queues : Listener(q)

Spec == Init /\ [][Next]_vars

\* The adapter comes up, tasks run, callbacks end. Nobody need send or delete.
Fairness ==
    /\ WF_vars(SetListener)
    /\ \A q \in Queues :
        /\ WF_vars(Start(q)) /\ WF_vars(Take(q)) /\ WF_vars(Break(q))
        /\ WF_vars(Call(q)) /\ WF_vars(CallEnds(q)) /\ WF_vars(DoneCallback(q))
    /\ \A m \in Messages : WF_vars(Unblock(m))

FairSpec == Spec /\ Fairness

----------------------------------------------------------------------------
(* Properties                                                              *)

Before(x, y, seq) == \E i, j \in DOMAIN seq : i < j /\ seq[i] = x /\ seq[j] = y

\* Messages are handled in the order in which they were put, none twice, also
\* when the conversation is deleted, and used again, while the listener of its
\* first queue is still at work: only a listener the manager has lost can be
\* late (webchat_queue_mgr.py:109, 150).
InOrder ==
    /\ IsInjective(handled)
    /\ \A i, j \in DOMAIN handled :
        i < j => \/ Before(handled[i], handled[j], sent)
                 \/ target[handled[j]] \in forgotten

\* What the code fails to ensure: a conversation has one listener at a time
\* (webchat_queue_mgr.py:153), so that its messages never overtake each other.
\* The done_callback of a listener whose queue is gone pops its successor's
\* entry; deleting the conversation again then leaves that one at work beside
\* the next one's (webchat_queue_mgr.py:117, 167).
AlwaysInOrder ==
    \A i, j \in DOMAIN handled : i < j => Before(handled[i], handled[j], sent)

\* After the conversation is deleted at most the message in hand is handled,
\* even by a listener that the done_callback of an older one has made the
\* manager forget, so that it is not cancelled (webchat_queue_mgr.py:117, 167).
OneLateAtMost == \A q \in Queues : late[q] <= 1

\* Every message sent is put and handled, unless its queue is closed first, or
\* the adapter has shut down (webchat_queue_mgr.py:26, 129,
\* 177).
SentIsHandled ==
    \A m \in Messages :
        sender[m] # "idle" ~> 
            \/ m \in Range(handled)
            \/ target[m] \in closed
            \/ adapter \in {"clearing", "off"}
=============================================================================
