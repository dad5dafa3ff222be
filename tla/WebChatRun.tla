----------------------------- MODULE WebChatRun -----------------------------
(***************************************************************************)
(* One chat run of the dashboard: the pipeline writes payloads into the    *)
(* run's bounded back queue, the run's task stores them and publishes them *)
(* to any number of streams, each with a bounded buffer, and the session   *)
(* may be deleted at any time.                                             *)
(*                                                                         *)
(* A published event is its revision number.                               *)
(***************************************************************************)
EXTENDS Integers, Sequences, FiniteSets

CONSTANTS
    Payloads,           \* put into the back queue, one call each
    Texts,              \* those with content to store,
    Files,              \* those that become an attachment first,
    Completing,         \* those after which what is pending is stored,
    Ending,             \* and those that end the run
    Streams,            \* SSE streams of clients
    BackMaxsize,        \* back_queue_maxsize
    BufferSize,         \* CHAT_RUN_SUBSCRIBER_QUEUE_SIZE
    MaxDeletes          \* bounds the requests that delete the session

ASSUME WebChatRunAssumption ==
    /\ IsFiniteSet(Payloads) /\ IsFiniteSet(Streams)
    /\ Files \subseteq Texts /\ Texts \subseteq Payloads
    /\ Completing \subseteq Payloads /\ Ending \subseteq Payloads \ Texts
    /\ BackMaxsize \in Nat \ {0} /\ BufferSize \in Nat \ {0} /\ MaxDeletes \in Nat

Last == 0               \* the None that ends a stream

VARIABLES
    call,           \* how far each call of put_back_queue is
    back,           \* the back queue
    open,           \* its close event is not set
    known,          \* the run is in chat_runs
    pc,             \* how far the run's task is
    cancelling,     \* its task is being cancelled
    atWork,         \* the payload at work
    consumed,       \* the content taken so far,
    pending,        \* the part of it that is not stored,
    stored,         \* and how often each was stored
    status,         \* run.status
    detached,       \* a shielded flush goes on without the task
    revision,       \* run.revision
    subscribers,    \* run.subscribers
    stream,         \* how far each stream is
    buffer,         \* what it has yet to read
    seen,           \* the revision it has reached
    deletes, deleting  \* requests that delete the session, and wait for the run

queueVars == <<call, back, open>>
contentVars == <<consumed, pending, stored>>
publishVars == <<revision, subscribers, buffer>>
streamVars == <<publishVars, stream, seen>>
taskVars == <<pc, atWork, cancelling, status, known, detached>>
deleteVars == <<deletes, deleting>>
runVars == <<queueVars, taskVars, contentVars, streamVars, deleteVars>>

RunTypeOK ==
    /\ call \in [Payloads -> {"idle", "blocked", "accepted", "refused"}]
    /\ back \in Seq(Payloads) /\ Len(back) <= BackMaxsize
    /\ {open, known, cancelling, detached, deleting} \subseteq BOOLEAN
    /\ pc \in {"starting", "getting", "attaching", "saving", "flushing", "over"}
    /\ atWork \in Payloads \cup {Last}
    /\ pending \subseteq consumed /\ consumed \subseteq Texts
    /\ stored \in [Payloads -> 0..2]
    /\ status \in {"running", "completed", "failed", "stopped"}
    /\ revision \in Nat
    /\ subscribers \subseteq Streams
    /\ stream \in [Streams -> {"none", "open", "over"}]
    /\ buffer \in [Streams -> Seq(Nat)]
    /\ \A s \in Streams : Len(buffer[s]) <= BufferSize
    /\ seen \in [Streams -> 0..revision]
    /\ deletes \in 0..MaxDeletes

RunInit ==
    /\ call = [p \in Payloads |-> "idle"]
    /\ back = <<>> /\ open = TRUE /\ known = TRUE
    /\ pc = "starting" /\ cancelling = FALSE /\ atWork = Last
    /\ consumed = {} /\ pending = {} /\ stored = [p \in Payloads |-> 0]
    /\ status = "running" /\ detached = FALSE
    /\ revision = 0
    /\ \E s \in Streams :           \* the one of the request that started the run
        /\ subscribers = {s}
        /\ stream = [x \in Streams |-> IF x = s THEN "open" ELSE "none"]
    /\ buffer = [s \in Streams |-> <<>>]
    /\ seen = [s \in Streams |-> 0]
    /\ deletes = 0 /\ deleting = FALSE

----------------------------------------------------------------------------
(* put_back_queue                                                          *)

Accept(p) ==
    /\ back' = Append(back, p)
    /\ call' = [call EXCEPT ![p] = "accepted"]

Refuse(p) ==
    /\ call' = [call EXCEPT ![p] = "refused"]
    /\ UNCHANGED back

PutCall(p) ==
    /\ call[p] = "idle"
    /\ IF ~open THEN Refuse(p)
       ELSE IF Len(back) < BackMaxsize THEN Accept(p)
       ELSE call' = [call EXCEPT ![p] = "blocked"] /\ UNCHANGED back
    /\ UNCHANGED <<open, taskVars, contentVars, streamVars, deleteVars>>

\* Variants ending in "Bug" are slips the properties must notice.
PutWaitsOnBug(p) ==
    /\ call[p] = "blocked"
    /\ Len(back) < BackMaxsize /\ Accept(p)
    /\ UNCHANGED <<open, taskVars, contentVars, streamVars, deleteVars>>

\* Once the queue is closed the call fails, even if there is room as well.
PutWakes(p) ==
    /\ call[p] = "blocked"
    /\ IF open THEN Len(back) < BackMaxsize /\ Accept(p) ELSE Refuse(p)
    /\ UNCHANGED <<open, taskVars, contentVars, streamVars, deleteVars>>

----------------------------------------------------------------------------
(* Publishing                                                              *)

Slow == {s \in subscribers : Len(buffer[s]) = BufferSize}

PublishDroppingBug ==
    /\ revision' = revision + 1
    /\ buffer' = [s \in Streams |->
         IF s \in subscribers \ Slow THEN Append(buffer[s], revision + 1) ELSE buffer[s]]
    /\ UNCHANGED subscribers

\* _publish_chat_run: a stream that is too slow is ended, to begin anew.
Publish ==
    /\ revision' = revision + 1
    /\ buffer' = [s \in Streams |->
         IF s \in Slow THEN <<Last>>
         ELSE IF s \in subscribers THEN Append(buffer[s], revision + 1)
         ELSE buffer[s]]
    /\ subscribers' = subscribers \ Slow

\* _subscribe_chat_run, for a run that is known: the snapshot is as of now.
Subscribe(s) ==
    /\ known /\ stream[s] = "none"
    /\ stream' = [stream EXCEPT ![s] = "open"]
    /\ subscribers' = subscribers \cup {s}
    /\ seen' = [seen EXCEPT ![s] = revision]
    /\ UNCHANGED <<queueVars, taskVars, contentVars, revision, buffer, deleteVars>>

\* A stream that is over leaves nothing behind.
EndStream(s) ==
    /\ stream' = [stream EXCEPT ![s] = "over"]
    /\ subscribers' = subscribers \ {s}
    /\ buffer' = [buffer EXCEPT ![s] = <<>>]
    /\ seen' = [seen EXCEPT ![s] = 0]

Read(s) ==
    /\ stream[s] = "open" /\ buffer[s] # <<>>
    /\ IF Head(buffer[s]) = Last
       THEN EndStream(s)
       ELSE /\ seen' = [seen EXCEPT ![s] = Head(buffer[s])]
            /\ buffer' = [buffer EXCEPT ![s] = Tail(@)]
            /\ UNCHANGED <<stream, subscribers>>
    /\ UNCHANGED <<queueVars, taskVars, contentVars, revision, deleteVars>>

\* The client goes away; the run does not care.
Disconnect(s) ==
    /\ stream[s] = "open"
    /\ EndStream(s)
    /\ UNCHANGED <<queueVars, taskVars, contentVars, revision, deleteVars>>

----------------------------------------------------------------------------
(* The run: _consume_chat_run                                              *)

\* A task cancelled before its first step does nothing at all.
Begin ==
    /\ pc = "starting"
    /\ pc' = IF cancelling THEN "over" ELSE "getting"
    /\ UNCHANGED <<queueVars, atWork, cancelling, status, known, detached, contentVars,
                   streamVars, deleteVars>>

AfterPayload(p) == IF p \in Ending THEN "flushing" ELSE "getting"
StatusAfter(p) == IF p \in Ending THEN "completed" ELSE status

\* The payload is added to what is pending, and published.
TakeIn(p) ==
    /\ consumed' = consumed \cup ({p} \cap Texts)
    /\ pending' = pending \cup ({p} \cap Texts)
    /\ Publish
    /\ IF p \in Completing \cup Ending /\ pending' # {}
       THEN pc' = "saving" /\ UNCHANGED status
       ELSE pc' = AfterPayload(p) /\ status' = StatusAfter(p)

Get ==
    /\ pc = "getting" /\ ~cancelling /\ back # <<>>
    /\ atWork' = Head(back)
    /\ back' = Tail(back)
    /\ IF Head(back) \in Files
       THEN pc' = "attaching" /\ UNCHANGED <<status, consumed, pending, publishVars>>
       ELSE TakeIn(Head(back))
    /\ UNCHANGED <<call, open, cancelling, known, detached, stored, stream, seen,
                   deleteVars>>

Attached ==
    /\ pc = "attaching" /\ ~cancelling
    /\ TakeIn(atWork)
    /\ UNCHANGED <<queueVars, atWork, cancelling, known, detached, stored, stream, seen,
                   deleteVars>>

Store == stored' = [p \in Payloads |-> stored[p] + IF p \in pending THEN 1 ELSE 0]

SaveKeepingPendingBug ==
    /\ pc = "saving" /\ ~cancelling
    /\ Store
    /\ Publish
    /\ pc' = AfterPayload(atWork) /\ status' = StatusAfter(atWork)
    /\ UNCHANGED <<queueVars, atWork, cancelling, known, detached, consumed, pending,
                   stream, seen, deleteVars>>

\* What was pending is stored.
Save ==
    /\ pc = "saving" /\ ~cancelling
    /\ Store /\ pending' = {}
    /\ Publish
    /\ pc' = AfterPayload(atWork) /\ status' = StatusAfter(atWork)
    /\ UNCHANGED <<queueVars, atWork, cancelling, known, detached, consumed, stream, seen,
                   deleteVars>>

\* The database refuses, or the attachment cannot be made: the run has failed.
Fail ==
    /\ pc \in {"saving", "attaching"} /\ ~cancelling
    /\ pc' = "flushing" /\ status' = "failed"
    /\ Publish
    /\ UNCHANGED <<queueVars, atWork, cancelling, known, detached, contentVars, stream,
                   seen, deleteVars>>

\* The run is cancelled while it waits; a save it was waiting for may have been
\* made or not.
Stopped ==
    /\ pc \in {"getting", "attaching", "saving"} /\ cancelling
    /\ pc' = "flushing" /\ status' = "stopped" /\ cancelling' = FALSE
    /\ UNCHANGED stored \/ (pc = "saving" /\ Store)
    /\ UNCHANGED <<queueVars, atWork, known, detached, consumed, pending, streamVars,
                   deleteVars>>

\* Every stream is told, in place of what it has yet to read.
EndStreams ==
    /\ buffer' = [s \in Streams |-> IF s \in subscribers THEN <<Last>> ELSE buffer[s]]
    /\ subscribers' = {}

Forget ==
    /\ pc' = "over"
    /\ open' = FALSE                \* remove_back_queue
    /\ known' = FALSE
    /\ EndStreams

\* The finally clause: what is pending is stored, or is not, and the run forgotten.
Flush ==
    /\ pc = "flushing" /\ ~cancelling
    /\ \/ pending # {} /\ Store /\ pending' = {} /\ revision' = revision + 1
       \/ UNCHANGED <<stored, pending, revision>>
    /\ Forget
    /\ UNCHANGED <<call, back, atWork, cancelling, status, detached, consumed, stream, seen,
                   deleteVars>>

\* Cancelled there, the task ends at once; only the shielded flush goes on.
FlushCancelled ==
    /\ pc = "flushing" /\ cancelling
    /\ pc' = "over"
    /\ detached' = (pending # {})
    /\ UNCHANGED <<queueVars, atWork, cancelling, status, known, contentVars, streamVars,
                   deleteVars>>

DetachedFlush ==
    /\ detached /\ detached' = FALSE
    /\ \/ Store /\ pending' = {}
       \/ UNCHANGED <<stored, pending>>
    /\ UNCHANGED <<queueVars, pc, atWork, cancelling, status, known, consumed, streamVars,
                   deleteVars>>

Run ==
    \/ Begin \/ Get \/ Attached \/ Save \/ Fail
    \/ Stopped \/ Flush \/ FlushCancelled \/ DetachedFlush

----------------------------------------------------------------------------
(* The session is deleted: delete_session_internal                         *)

Delete ==
    /\ known /\ deletes < MaxDeletes
    /\ deletes' = deletes + 1 /\ deleting' = TRUE
    /\ cancelling' = (pc # "over")
    /\ UNCHANGED <<queueVars, pc, atWork, status, known, detached, contentVars, streamVars>>

\* remove_queues, once the run is over.
DeleteEnds ==
    /\ deleting /\ pc = "over"
    /\ deleting' = FALSE
    /\ open' = FALSE
    /\ UNCHANGED <<call, back, taskVars, contentVars, streamVars, deletes>>

----------------------------------------------------------------------------
RunNext ==
    \/ \E p \in Payloads : PutCall(p) \/ PutWakes(p)
    \/ \E s \in Streams : Subscribe(s) \/ Read(s) \/ Disconnect(s)
    \/ Run
    \/ Delete \/ DeleteEnds

RunSpec == RunInit /\ [][RunNext]_runVars

\* The event loop runs what is ready; clients read, and the database answers.
RunFairness ==
    /\ WF_runVars(Run) /\ WF_runVars(DeleteEnds)
    /\ \A p \in Payloads : WF_runVars(PutWakes(p))
    /\ \A s \in Streams : WF_runVars(Read(s))

RunFairSpec == RunSpec /\ RunFairness

----------------------------------------------------------------------------
(* Properties                                                              *)

\* A stream shows every event since its snapshot, in order and without a gap,
\* or it is ended: what a subscriber has seen and what waits in its buffer is
\* exactly what was published since (chat_service.py:768, 787).
Gapless ==
    /\ \A s \in subscribers :
        buffer[s] = [i \in 1..revision - seen[s] |-> seen[s] + i]
    /\ \A s \in Streams \ subscribers :
        stream[s] = "open" => buffer[s] = <<Last>>

\* What was taken off the back queue is stored or still pending, whatever fails
\* or is cancelled, and never stored twice in a run that was not cut short
\* (chat_service.py:901, 1047).
AccountedFor ==
    \A p \in consumed :
        /\ stored[p] > 0 \/ p \in pending
        /\ status \in {"running", "completed"} =>
            stored[p] + (IF p \in pending THEN 1 ELSE 0) = 1

\* A run cut down before its first step, or in its last one, is left behind.
LeftBehind == pc = "over" /\ known

\* When a run comes to its end all its streams end, and no writer is left
\* waiting for room, unless the run is left behind (chat_service.py:1068, 1077,
\* webchat_queue_mgr.py:76).
EverybodyIsFreed ==
    pc = "flushing" ~>
        \/ /\ \A s \in Streams : stream[s] # "open"
           /\ \A p \in Payloads : call[p] # "blocked"
        \/ LeftBehind

\* A run that is over is forgotten, and its streams end (chat_service.py:1047).
NothingLeftBehind == ~LeftBehind
=============================================================================
