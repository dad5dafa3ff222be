------------------------------ MODULE Pipeline ------------------------------
(***************************************************************************)
(* One message on its way through the stages: PipelineScheduler            *)
(* ._process_stages (pipeline/scheduler.py) with the stages it drives. A   *)
(* stage is a coroutine, or a generator whose every yield runs all later   *)
(* stages before it is resumed (the "onion"). frames is the scheduler's    *)
(* call stack: each frame is one activation of _process_stages, with the   *)
(* stage its loop is at.                                                   *)
(*                                                                         *)
(* A frame is "working" while its stage awaits something; only then can    *)
(* another task run, and stop the message. All else happens at once.       *)
(***************************************************************************)
EXTENDS Integers, FiniteSets, Sequences, SequencesExt

CONSTANTS
    Handlers,       \* how many plugin handlers the message has activated
    MaxYields       \* bound on what handlers and agent runs give out

ASSUME PipelineAssumption == Handlers \in Nat /\ MaxYields \in Nat \ {0}

\* STAGES_ORDER. Gates are the stages that only let through or stop.
Gates         == 1..4
ContentSafety == 5
PreProcess    == 6
Process       == 7
ResultDecorate == 8
Respond       == 9
Stages        == 1..9
Generators    == {ContentSafety, Process, ResultDecorate}

VARIABLES
    frames,         \* activations of _process_stages: [stage, at]
    result,         \* event._result
    forced,         \* event._force_stopped
    wake,           \* event.is_at_or_wake_command
    sentOper,       \* event._has_send_oper
    streamed,       \* the extra "_streaming_finished"
    place,          \* where the generator of ProcessStage stands
    hand,           \* its current handler
    nested,         \* the agent run was asked for by that handler
    gave,           \* the agent run has yielded (_t)
    yields,         \* number of results, empty yields and requests so far
    last,           \* the reply ProcessStage yielded last, or 0
    fate,           \* what became of each reply
    runs,           \* how often each handler was started
    asked,          \* number of LLM runs begun
    blocked         \* the content check rejected the message

plugin == <<place, hand, nested, gave, last, runs, asked>>
flags  == <<wake, blocked>>
vars   == <<frames, result, forced, sentOper, streamed, yields, fate, plugin, flags>>

NoResult == [id |-> 0, kind |-> "none", stop |-> FALSE]
Kinds    == {"none", "bare", "chain", "llm", "stream", "finish"}
Results  == [id : 0..MaxYields, kind : Kinds, stop : BOOLEAN]
Ats      == {"start", "working", "yielded", "inner", "returned", "resumed", "finished"}
Places   == {"outside", "between", "handler", "error", "asked", "agent", "stream"}

TypeOK ==
    /\ frames \in Seq([stage : Stages, at : Ats])
    /\ result \in Results
    /\ forced \in BOOLEAN /\ wake \in BOOLEAN /\ sentOper \in BOOLEAN
    /\ streamed \in BOOLEAN /\ nested \in BOOLEAN /\ gave \in BOOLEAN
    /\ blocked \in BOOLEAN
    /\ place \in Places
    /\ hand \in 1..(Handlers + 1)
    /\ yields \in 0..MaxYields
    /\ last \in 0..MaxYields
    /\ fate \in [1..MaxYields -> {"unsent", "skipped", "sent", "resent"}]
    /\ runs \in [1..Handlers -> Nat]
    /\ asked \in Nat

Init ==
    /\ frames = <<[stage |-> 1, at |-> "start"]>>
    /\ result = NoResult
    /\ forced = FALSE
    /\ wake \in BOOLEAN
    /\ sentOper = FALSE /\ streamed = FALSE
    /\ place = "outside" /\ hand = 1 /\ nested = FALSE /\ gave = FALSE
    /\ yields = 0 /\ last = 0
    /\ fate = [r \in 1..MaxYields |-> "unsent"]
    /\ runs = [h \in 1..Handlers |-> 0]
    /\ asked = 0
    /\ blocked = FALSE

----------------------------------------------------------------------------
(* The message                                                             *)

IsStopped == forced \/ result.stop

\* event.stop_event
Stopped(r) == [id |-> r.id, kind |-> IF r.kind = "none" THEN "bare" ELSE r.kind,
               stop |-> TRUE]
StopEvent == forced' = TRUE /\ result' = Stopped(result)

\* event.set_result with a reply made for it, which may carry a stop itself
SetResult(kind, stop) ==
    /\ yields < MaxYields
    /\ yields' = yields + 1
    /\ result' = [id |-> yields + 1, kind |-> kind, stop |-> stop]

HasChain == result.kind \in {"chain", "llm", "finish"}

Fate(f) == fate' = [fate EXCEPT ![result.id] = f]

----------------------------------------------------------------------------
(* The scheduler                                                           *)

Top == Last(frames)
In(stage, at) == frames # <<>> /\ Top.stage = stage /\ Top.at = at
ToAt(at) == frames' = [frames EXCEPT ![Len(frames)].at = at]
NextStage == frames' = [frames EXCEPT ![Len(frames)] =
                            [stage |-> Top.stage + 1, at |-> "start"]]

\* _process_stages returns, into the generator loop of the caller or to execute.
EndLoop ==
    frames' = IF Len(frames) = 1 THEN <<>>
              ELSE [Front(frames) EXCEPT ![Len(frames) - 1].at = "returned"]

LoopOn == IF Top.stage < Respond THEN NextStage ELSE EndLoop

Unchanged == UNCHANGED <<result, forced, sentOper, streamed, yields, fate, plugin, flags>>

\* A generator yielded: the later stages run.
Descend ==
    /\ frames # <<>> /\ Top.at = "yielded" /\ ~IsStopped
    /\ frames' = Append([frames EXCEPT ![Len(frames)].at = "inner"],
                        [stage |-> Top.stage + 1, at |-> "start"])
    /\ Unchanged

\* The break leaves the loop over the generator, not the one over the stages.
BreakOut ==
    /\ frames # <<>> /\ Top.at \in {"yielded", "returned"} /\ IsStopped
    /\ LoopOn
    /\ Unchanged

Resume ==
    /\ frames # <<>> /\ Top.at = "returned" /\ ~IsStopped
    /\ ToAt("resumed")
    /\ Unchanged

\* Variants ending in "Bug" are slips the properties must notice.
FinishAfterGeneratorBug ==
    /\ frames # <<>> /\ Top.at = "finished"
    /\ IF Top.stage \in Generators \/ IsStopped THEN EndLoop ELSE LoopOn
    /\ Unchanged

\* Whether the message is stopped is asked after a coroutine only.
Finish ==
    /\ frames # <<>> /\ Top.at = "finished"
    /\ IF Top.stage \notin Generators /\ IsStopped THEN EndLoop ELSE LoopOn
    /\ Unchanged

Scheduler == Descend \/ BreakOut \/ Resume \/ Finish

----------------------------------------------------------------------------
(* What other code does while a stage awaits                               *)

Awaiting ==
    /\ frames # <<>> /\ Top.at = "working"
    /\ Top.stage = Process => place \in {"handler", "asked", "agent"}

\* A handler, a hook, or active_event_registry.stop_all on behalf of another
\* message of the session stops this one.
Stop ==
    /\ Awaiting /\ ~forced
    /\ StopEvent
    /\ UNCHANGED <<frames, sentOper, streamed, yields, fate, plugin, flags>>

\* An exception nobody catches unwinds all activations.
Raise ==
    /\ Awaiting
    /\ \/ Top.stage \in Gates \cup {PreProcess, ResultDecorate}
       \/ Top.stage = Respond /\ result.kind = "stream"
    /\ frames' = <<>>
    /\ Unchanged

----------------------------------------------------------------------------
(* The stages before ProcessStage                                          *)

BeginStage ==
    /\ frames # <<>> /\ Top.at = "start" /\ Top.stage \in Gates \cup {PreProcess}
    /\ ToAt("working")
    /\ Unchanged

Pass ==
    /\ frames # <<>> /\ Top.at = "working" /\ Top.stage \in Gates \cup {PreProcess}
    /\ ToAt("finished")
    /\ Unchanged

\* Not woken, not on the whitelist, session disabled, or over the rate limit.
GateStops ==
    /\ frames # <<>> /\ Top.at = "working" /\ Top.stage \in Gates
    /\ StopEvent
    /\ ToAt("finished")
    /\ UNCHANGED <<sentOper, streamed, yields, fate, plugin, flags>>

ContentPasses ==
    /\ In(ContentSafety, "start")
    /\ ToAt("finished")
    /\ Unchanged

\* A rejected message that addressed the bot first gets a notice as its result.
ContentRejected ==
    /\ In(ContentSafety, "start")
    /\ blocked' = TRUE
    /\ IF wake
       THEN SetResult("chain", FALSE) /\ ToAt("yielded") /\ UNCHANGED forced
       ELSE StopEvent /\ ToAt("finished") /\ UNCHANGED yields
    /\ UNCHANGED <<sentOper, streamed, fate, plugin, wake>>

RejectWithoutStopBug ==
    /\ In(ContentSafety, "resumed")
    /\ ToAt("finished")
    /\ Unchanged

RejectedResumed ==
    /\ In(ContentSafety, "resumed")
    /\ StopEvent
    /\ ToAt("finished")
    /\ UNCHANGED <<sentOper, streamed, yields, fate, plugin, flags>>

BeforeProcess ==
    \/ BeginStage \/ Pass \/ GateStops
    \/ ContentPasses \/ ContentRejected \/ RejectedResumed

----------------------------------------------------------------------------
(* ProcessStage: the activated handlers, then the default LLM request      *)

At(spot) == In(Process, "working") /\ place = spot
Goes(spot) == place' = spot

ProcessStart ==
    /\ In(Process, "start")
    /\ ToAt("working")
    /\ Goes("between") /\ hand' = 1
    /\ UNCHANGED <<result, forced, sentOper, streamed, yields, fate, nested, gave, last,
                   runs, asked, flags>>

StartHandler ==
    /\ At("between") /\ hand <= Handlers /\ ~IsStopped
    /\ Goes("handler")
    /\ runs' = [runs EXCEPT ![hand] = runs[hand] + 1]
    /\ UNCHANGED <<frames, result, forced, sentOper, streamed, yields, fate, hand, nested,
                   gave, last, asked, flags>>

\* Its plugin has been unloaded.
SkipHandler ==
    /\ At("between") /\ hand <= Handlers /\ ~IsStopped
    /\ hand' = hand + 1
    /\ UNCHANGED <<frames, result, forced, sentOper, streamed, yields, fate, place, nested,
                   gave, last, runs, asked, flags>>

\* The handler yields a reply, which may stop the message, or nothing at all.
HandlerYields ==
    /\ At("handler")
    /\ \/ \E stop \in BOOLEAN : SetResult("chain", stop) /\ last' = yields + 1
       \/ yields < MaxYields /\ yields' = yields + 1 /\ last' = 0 /\ UNCHANGED result
    /\ ToAt("yielded")
    /\ UNCHANGED <<forced, sentOper, streamed, fate, place, hand, nested, gave, runs, asked,
                   flags>>

HandlerRequestsLLM ==
    /\ At("handler")
    /\ yields < MaxYields /\ yields' = yields + 1
    /\ Goes("asked") /\ nested' = TRUE /\ gave' = FALSE
    /\ UNCHANGED <<frames, result, forced, sentOper, streamed, fate, hand, last, runs, asked,
                   flags>>

\* event.send, past the pipeline
SendsDirectly ==
    /\ At("handler") \/ At("agent")
    /\ sentOper' = TRUE
    /\ UNCHANGED <<frames, result, forced, streamed, yields, fate, plugin, flags>>

HandlerReturns ==
    /\ At("handler")
    /\ Goes("between")
    /\ IF IsStopped THEN UNCHANGED <<result, hand>>
       ELSE result' = NoResult /\ hand' = hand + 1
    /\ UNCHANGED <<frames, forced, sentOper, streamed, yields, fate, nested, gave, last, runs,
                   asked, flags>>

HandlerRaises ==
    /\ At("handler")
    /\ IF ~IsStopped /\ wake
       THEN /\ SetResult("chain", FALSE) /\ last' = yields + 1
            /\ Goes("error") /\ ToAt("yielded") /\ UNCHANGED forced
       ELSE /\ StopEvent /\ Goes("between")
            /\ UNCHANGED <<frames, yields, last>>
    /\ UNCHANGED <<sentOper, streamed, fate, hand, nested, gave, runs, asked, flags>>

\* Only a message that addressed the bot and has had no answer goes on to the
\* LLM, if that is enabled and no handler waived it.
HandlersOver ==
    /\ At("between") /\ (hand > Handlers \/ IsStopped)
    /\ \/ Goes("outside") /\ ToAt("finished") /\ UNCHANGED <<nested, gave>>
       \/ /\ ~sentOper /\ wake /\ ~(result # NoResult /\ IsStopped)
          /\ Goes("asked") /\ nested' = FALSE /\ gave' = FALSE /\ UNCHANGED frames
    /\ UNCHANGED <<result, forced, sentOper, streamed, yields, fate, hand, last, runs, asked,
                   flags>>

\* The agent stage is over: back to the handler that asked for it, after a
\* yield on its behalf if the run gave none, or out of ProcessStage.
AgentOver(g) ==
    IF ~nested
    THEN Goes("outside") /\ ToAt("finished") /\ UNCHANGED last
    ELSE /\ Goes("handler")
         /\ IF g THEN ToAt("working") /\ UNCHANGED last
            ELSE ToAt("yielded") /\ last' = 0

\* Session without LLM, merged into another run, or stopped by a hook.
AgentRefuses ==
    /\ At("asked")
    /\ AgentOver(FALSE)
    /\ UNCHANGED <<result, forced, sentOper, streamed, yields, fate, hand, nested, gave, runs,
                   asked, flags>>

AgentStarts ==
    /\ At("asked") /\ ~IsStopped
    /\ Goes("agent") /\ asked' = asked + 1
    /\ UNCHANGED <<frames, result, forced, sentOper, streamed, yields, fate, hand, nested,
                   gave, last, runs, flags>>

AgentYields ==
    /\ At("agent")
    /\ \E kind \in {"chain", "llm"} : SetResult(kind, FALSE)
    /\ last' = yields + 1 /\ gave' = TRUE
    /\ ToAt("yielded")
    /\ UNCHANGED <<forced, sentOper, streamed, fate, place, hand, nested, runs, asked, flags>>

\* Streaming: the run goes on inside RespondStage.
AgentStreams ==
    /\ At("agent") /\ ~gave
    /\ SetResult("stream", FALSE)
    /\ last' = 0 /\ gave' = TRUE /\ Goes("stream")
    /\ ToAt("yielded")
    /\ UNCHANGED <<forced, sentOper, streamed, fate, hand, nested, runs, asked, flags>>

AgentEnds ==
    /\ At("agent")
    /\ AgentOver(gave)
    /\ UNCHANGED <<result, forced, sentOper, streamed, yields, fate, hand, nested, gave, runs,
                   asked, flags>>

\* run_agent caught an exception and leaves the error text as the result.
AgentErrs ==
    /\ At("agent")
    /\ SetResult("chain", FALSE)
    /\ AgentOver(gave)
    /\ UNCHANGED <<forced, sentOper, streamed, fate, hand, nested, gave, runs, asked, flags>>

\* The agent stage caught one itself and sent the error text.
AgentFails ==
    /\ At("asked") \/ At("agent")
    /\ sentOper' = TRUE
    /\ AgentOver(gave)
    /\ UNCHANGED <<result, forced, streamed, yields, fate, hand, nested, gave, runs, asked,
                   flags>>

\* What the generator does when it is resumed after a yield.
ProcessResumed ==
    /\ In(Process, "resumed")
    /\ \/ /\ place = "handler" /\ ToAt("working")
          /\ UNCHANGED <<result, forced, yields, place, hand, last>>
       \/ /\ place = "error" /\ ToAt("working")
          /\ forced' = TRUE /\ result' = Stopped(NoResult)
          /\ Goes("between") /\ hand' = hand + 1
          /\ UNCHANGED <<yields, last>>
       \/ /\ place = "agent" /\ ToAt("working")
          /\ result' = NoResult
          /\ UNCHANGED <<forced, yields, place, hand, last>>
       \/ /\ place = "stream" /\ AgentOver(TRUE)
          /\ SetResult("finish", FALSE) \/ UNCHANGED <<result, yields>>
          /\ UNCHANGED <<forced, hand>>
    /\ UNCHANGED <<sentOper, streamed, fate, nested, gave, runs, asked, flags>>

InProcess ==
    \/ ProcessStart \/ StartHandler \/ SkipHandler \/ HandlersOver
    \/ HandlerYields \/ HandlerRequestsLLM \/ HandlerReturns \/ HandlerRaises
    \/ SendsDirectly
    \/ AgentRefuses \/ AgentStarts \/ AgentYields \/ AgentStreams
    \/ AgentEnds \/ AgentErrs \/ AgentFails
    \/ ProcessResumed

----------------------------------------------------------------------------
(* ResultDecorateStage and RespondStage                                    *)

DecorateStart ==
    /\ In(ResultDecorate, "start")
    /\ ToAt(IF HasChain THEN "working" ELSE "finished")
    /\ Unchanged

\* The content check of replies rejects what the LLM said.
ReplyRejected ==
    /\ In(ResultDecorate, "start") /\ result.kind = "llm"
    /\ IF wake
       THEN SetResult("chain", FALSE) /\ ToAt("yielded") /\ UNCHANGED forced
       ELSE StopEvent /\ ToAt("working") /\ UNCHANGED yields
    /\ UNCHANGED <<sentOper, streamed, fate, plugin, flags>>

RejectionResumed ==
    /\ In(ResultDecorate, "resumed")
    /\ StopEvent
    /\ ToAt("working")
    /\ UNCHANGED <<sentOper, streamed, yields, fate, plugin, flags>>

\* A decorating hook may clear the result.
HookClears ==
    /\ In(ResultDecorate, "working") /\ HasChain
    /\ result' = NoResult /\ Fate("skipped")
    /\ ToAt("finished")
    /\ UNCHANGED <<forced, sentOper, streamed, yields, plugin, flags>>

DecorateEnd ==
    /\ In(ResultDecorate, "working")
    /\ ToAt("finished")
    /\ Unchanged

RespondStart ==
    /\ In(Respond, "start")
    /\ result # NoResult /\ ~streamed /\ result.kind # "finish"
    /\ ToAt("working")
    /\ Unchanged

\* Nothing to send, a stream that ended, a text a tool has sent already, or a
\* chain without content: the result stays.
RespondSkips ==
    /\ In(Respond, "start")
    /\ streamed' = (streamed \/ result.kind = "finish")
    /\ result.kind = "bare" => streamed
    /\ IF HasChain /\ fate[result.id] = "unsent" THEN Fate("skipped") ELSE UNCHANGED fate
    /\ ToAt("finished")
    /\ UNCHANGED <<result, forced, sentOper, yields, plugin, flags>>

RespondClearsLateBug ==
    /\ In(Respond, "working") /\ result.kind \in {"chain", "llm"}
    /\ Fate(IF fate[result.id] \in {"sent", "resent"} THEN "resent" ELSE "sent")
    /\ sentOper' = TRUE
    /\ ToAt("finished")
    /\ UNCHANGED <<result, forced, streamed, yields, plugin, flags>>

\* The reply is sent and the OnAfterMessageSentEvent hooks are called; if the
\* message is stopped by then, the result stays.
RespondSends ==
    /\ In(Respond, "working") /\ result.kind \in {"chain", "llm"}
    /\ Fate(IF fate[result.id] \in {"sent", "resent"} THEN "resent" ELSE "sent")
    /\ sentOper' = TRUE
    /\ result' = IF IsStopped THEN result ELSE NoResult
    /\ ToAt("finished")
    /\ UNCHANGED <<forced, streamed, yields, plugin, flags>>

RespondStreams ==
    /\ In(Respond, "working") /\ result.kind = "stream"
    /\ sentOper' = TRUE
    /\ ToAt("finished")
    /\ UNCHANGED <<result, forced, streamed, yields, fate, plugin, flags>>

\* An empty result sends nothing, and only stop_event leaves one.
RespondBare ==
    /\ In(Respond, "working") /\ result.kind = "bare"
    /\ ToAt("finished")
    /\ Unchanged

AfterProcess ==
    \/ DecorateStart \/ ReplyRejected \/ RejectionResumed \/ HookClears \/ DecorateEnd
    \/ RespondStart \/ RespondSkips \/ RespondSends \/ RespondStreams \/ RespondBare

----------------------------------------------------------------------------
\* execute is over; a message stuck halfway would be a deadlock.
Over == frames = <<>> /\ UNCHANGED vars

Next == Scheduler \/ Stop \/ Raise \/ BeforeProcess \/ InProcess \/ AfterProcess \/ Over

Spec == Init /\ [][Next]_vars

----------------------------------------------------------------------------
(* Properties                                                              *)

\* How many handlers and LLM runs were begun.
Begun == asked + Cardinality({h \in 1..Handlers : runs[h] > 0})

\* However the stages are nested and repeated, no plugin handler is started
\* twice for a message (scheduler.py:46, star_request.py:38).
HandlersOnce == \A h \in 1..Handlers : runs[h] <= 1

\* "When event propagation is stopped, all subsequent steps will not be executed"
\* (listen-message-event.md:485) holds of what it costs most, and for good: once a
\* message was stopped, no handler and no LLM run is begun for it. A stop may be
\* undone: the result that carries it is cleared by a decorating hook while outer
\* activations have still to go on (scheduler.py:46, result_decorate/stage.py:173).
StopIsFinal ==
    \A n \in 0..Handlers + MaxYields + 1 :
        [](IsStopped /\ Begun = n => [](Begun = n))

\* What a plugin or the agent yields is sent, or dropped on purpose, before it
\* is resumed (scheduler.py:46, stage.py:45).
RepliesInOrder ==
    In(Process, "resumed") /\ last # 0 => fate[last] # "unsent"

\* A reply is sent twice only for a message that was stopped
\* (respond/stage.py:321).
ResentOnlyIfStopped == \A r \in 1..MaxYields : fate[r] = "resent" => forced

\* "No subsequent steps": no reply is sent again (respond/stage.py:321).
NoReplySentTwice == \A r \in 1..MaxYields : fate[r] # "resent"

\* "Your message ... has been blocked": no handler and no LLM run sees a message
\* that the content check rejected (content_safety_check/stage.py:44).
BlockedNotProcessed == [][blocked => UNCHANGED <<runs, asked>>]_vars
=============================================================================
