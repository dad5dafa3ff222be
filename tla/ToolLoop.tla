------------------------------ MODULE ToolLoop ------------------------------
(***************************************************************************)
(* One run of ToolLoopAgentRunner under run_agent: the requests it makes   *)
(* to the model and to the fallback models, the tools it calls, and the    *)
(* stop a user may ask for at any time. Contexts says what happens to the  *)
(* messages before each request.                                           *)
(*                                                                         *)
(* What a model or a tool does is chosen freely. A stop is seen where the  *)
(* code looks for it. Follow-ups are in AgentTurn.                         *)
(***************************************************************************)
EXTENDS Contexts

CONSTANTS
    MaxSteps,       \* max_step of run_agent
    MaxCalls,       \* bounds the tool calls of one answer
    MaxResults,     \* bounds the results of one tool
    Fallbacks,      \* how many fallback models there are
    MaxAttempts,    \* EMPTY_OUTPUT_RETRY_ATTEMPTS
    MaxTurns,       \* enforce_max_turns
    DropTurns,      \* truncate_turns
    SkillsLike      \* tool_schema_mode is "skills_like"

ASSUME ToolLoopAssumption ==
    /\ MaxSteps \in Nat /\ MaxCalls \in Nat \ {0} /\ MaxResults \in Nat
    /\ Fallbacks \in Nat /\ MaxAttempts \in Nat \ {0}
    /\ MaxTurns \in Nat \cup {-1} /\ DropTurns \in Nat
    /\ SkillsLike \in BOOLEAN

\* The primary model is 0. The candidates of a request are the model in use and
\* then all fallbacks, the one in use again if it is one of them.
Models == 0..Fallbacks
Candidates == 1..Fallbacks + 1

Request == 1        \* the name of the message that started the run
Other == 2          \* of the user messages before it and of those added in the run

\* The conversation may have an earlier turn, with or without a tool call.
Histories ==
    {<<>>, <<User(Other), Assistant({})>>,
     <<User(Other), Assistant({1}), Tool(1), Assistant({})>>}

\* Calls have ids of their own.
CallId(step, k) == 1 + MaxCalls * (step - 1) + k
CallIds == {1} \cup {CallId(s, k) : s \in 1..MaxSteps + 1, k \in 1..MaxCalls}

VARIABLES
    messages,   \* run_context.messages
    compressor, \* request_context_manager.compressor, by its kind
    tools,      \* req.func_tool is set
    state,      \* _state
    signal,       \* _abort_signal
    aborted,    \* _aborted
    step, at,   \* the step the run is in, and how far it is
    model,      \* self.provider
    candidate, attempt,     \* of the request, as the next two
    streamed,   \* has_stream_output
    shown,      \* attempts of this request the user has seen output of, up to 2
    calls,      \* the calls of the answer that are still to be done
    asked,      \* all the calls of the answer
    results,    \* tool_call_result_blocks
    images,     \* cached_images is not empty
    silent      \* calls whose tool gave nothing that can be passed on

requestVars == <<candidate, attempt, streamed, shown>>
toolVars == <<calls, asked, results, images, silent>>
loopVars == <<messages, compressor, tools, state, signal, aborted, step, at, model,
          requestVars, toolVars>>

MessageSet == [role : {"system", "user", "assistant", "tool"},
               calls : SUBSET CallIds, id : Nat]

LoopTypeOK ==
    /\ \A i \in DOMAIN messages : messages[i] \in MessageSet
    /\ state \in {"idle", "running", "done", "error"}
    /\ step \in 0..MaxSteps + 1
    /\ at \in {"ready", "asking", "requery", "repair", "tool", "reading", "ended"}
    /\ model \in Models /\ candidate \in Candidates /\ attempt \in 1..MaxAttempts
    /\ shown \in 0..2
    /\ calls \in Seq(CallIds) /\ Len(calls) <= MaxCalls
    /\ results \in Seq(CallIds) /\ asked \subseteq CallIds /\ silent \subseteq CallIds
    /\ {tools, signal, aborted, streamed, images} \subseteq BOOLEAN
    \* The request is over before its tools are called, and they before the next.
    /\ at \in {"requery", "repair", "tool", "reading"} => asked # {} /\ state # "error"
    /\ at = "reading" => calls # <<>>
    /\ state = "error" => at = "ended"

LoopInit ==
    /\ \E history \in Histories, system \in BOOLEAN :
        messages = (IF system THEN <<System>> ELSE <<>>) \o history \o <<User(Request)>>
    /\ compressor \in {"turns", "summary"}
    /\ tools = TRUE
    /\ state = "idle" /\ signal = FALSE /\ aborted = FALSE
    /\ step = 0 /\ at = "ready"
    /\ model = 0
    /\ candidate = 1 /\ attempt = 1 /\ streamed = FALSE /\ shown = 0
    /\ calls = <<>> /\ asked = {} /\ results = <<>> /\ images = FALSE /\ silent = {}

----------------------------------------------------------------------------
(* The beginning of a step                                                 *)

\* ContextManager.process: truncation by turns, then compression if the tokens
\* are too many, then halving if they still are.
Compressed(ms) ==
    IF compressor = "turns"
    THEN {DropOldestTurns(ms, DropTurns)}
    ELSE {ms} \cup {Summarised(ms, recent) : recent \in 0..Len(Rounds(ms))}

Processed(ms) ==
    LET cut == TruncateByTurns(ms, MaxTurns, DropTurns)
    IN {cut} \cup Compressed(cut) \cup {Halve(c) : c \in Compressed(cut)}

\* The step after the last one has no tools and is told to sum up.
LastStep == step = MaxSteps

Step ==
    /\ at = "ready"
    /\ step' = step + 1
    /\ tools' = (tools /\ ~LastStep)
    /\ state' = "running"
    /\ messages' \in Processed(IF LastStep THEN Append(messages, User(Other))
                                           ELSE messages)
    /\ at' = "asking"
    /\ UNCHANGED <<compressor, signal, aborted, model, requestVars, toolVars>>

AskStop ==
    /\ at # "ended" /\ ~signal
    /\ signal' = TRUE
    /\ UNCHANGED <<messages, compressor, tools, state, aborted, step, at, model,
                   requestVars, toolVars>>

Said(text) == IF text THEN Append(messages, Assistant({})) ELSE messages

\* _finalize_aborted_step
Abort ==
    /\ \E text \in BOOLEAN : messages' = Said(text)
    /\ aborted' = TRUE
    /\ state' = "done" /\ at' = "ended"

\* _complete_with_assistant_response
Complete ==
    /\ messages' = Said(TRUE)
    /\ state' = "done" /\ at' = "ended"
    /\ UNCHANGED aborted

\* run_agent goes on with the next step until the runner is done or none is left.
StepEnds ==
    at' = IF state = "done" \/ step = MaxSteps + 1 THEN "ended" ELSE "ready"

----------------------------------------------------------------------------
(* _iter_llm_responses_with_fallback                                       *)

Asking == at = "asking"

\* The request is over and its variables go.
RequestEnds ==
    /\ candidate' = 1 /\ attempt' = 1 /\ streamed' = FALSE /\ shown' = 0

\* The first output of an attempt; later chunks change nothing.
Chunk ==
    /\ Asking /\ ~streamed
    /\ streamed' = TRUE
    /\ shown' = IF shown < 2 THEN shown + 1 ELSE shown
    /\ UNCHANGED <<messages, compressor, tools, state, signal, aborted, step, at, model,
                   candidate, attempt, toolVars>>

\* EmptyModelOutputError is retried, whether something was streamed or not.
Retry ==
    /\ Asking /\ attempt < MaxAttempts
    /\ attempt' = attempt + 1
    /\ streamed' = FALSE
    /\ UNCHANGED <<messages, compressor, tools, state, signal, aborted, step, at, model,
                   candidate, shown, toolVars>>

\* An exception, attempts used up, an error response before any output, or the end
\* of a stream without any: the next candidate is asked, and stays self.provider.
Fail ==
    /\ Asking /\ candidate <= Fallbacks
    /\ candidate' = candidate + 1 /\ attempt' = 1 /\ streamed' = FALSE
    /\ model' = candidate
    /\ UNCHANGED <<messages, compressor, tools, state, signal, aborted, step, at, shown,
                   toolVars>>

\* The last candidate has failed.
GiveUp ==
    /\ Asking /\ ~signal
    /\ candidate = Fallbacks + 1
    /\ state' = "error" /\ at' = "ended"
    /\ UNCHANGED <<messages, compressor, tools, signal, aborted, step, model, requestVars,
                   toolVars>>

\* An error response after some output is final.
BreakOff ==
    /\ Asking /\ ~signal /\ streamed
    /\ state' = "error" /\ at' = "ended"
    /\ UNCHANGED <<messages, compressor, tools, signal, aborted, step, model, requestVars,
                   toolVars>>

\* A stream that ends without a final response ends the step without a trace.
StreamEnds ==
    /\ Asking /\ ~signal /\ streamed
    /\ RequestEnds
    /\ StepEnds
    /\ UNCHANGED <<messages, compressor, tools, state, signal, aborted, step, model,
                   toolVars>>

\* The stop is looked for after each chunk and each response.
StopSeen ==
    /\ Asking /\ signal
    /\ RequestEnds
    /\ Abort
    /\ UNCHANGED <<compressor, tools, signal, step, model, toolVars>>

AnswerText ==
    /\ Asking /\ ~signal
    /\ RequestEnds
    /\ Complete
    /\ UNCHANGED <<compressor, tools, signal, step, model, toolVars>>

\* The answer calls tools, n of them.
Takes(n) ==
    /\ calls' = [k \in 1..n |-> CallId(step, k)]
    /\ asked' = {CallId(step, k) : k \in 1..n}
    /\ results' = <<>> /\ images' = FALSE
    /\ UNCHANGED silent

AnswerTools ==
    /\ Asking /\ ~signal
    /\ RequestEnds
    /\ \E n \in 1..MaxCalls : Takes(n)
    /\ at' \in {"tool"} \cup (IF SkillsLike /\ tools THEN {"requery"} ELSE {})
    /\ UNCHANGED <<messages, compressor, tools, state, signal, aborted, step, model>>

----------------------------------------------------------------------------
(* _resolve_tool_exec: the model is asked again with the tools' parameters *)

Requerying == at \in {"requery", "repair"}

RequeryTools ==
    /\ Requerying
    /\ \E n \in 1..MaxCalls : Takes(n)
    /\ at' = "tool"
    /\ UNCHANGED <<messages, compressor, tools, state, signal, aborted, step, model,
                   requestVars>>

RequeryText ==
    /\ Requerying
    /\ Complete
    /\ UNCHANGED <<compressor, tools, signal, step, model, requestVars, toolVars>>

\* Neither calls nor text: once more with a stronger instruction.
Repair ==
    /\ at = "requery"
    /\ at' = "repair"
    /\ UNCHANGED <<messages, compressor, tools, state, signal, aborted, step, model,
                   requestVars, toolVars>>

\* The exception leaves the step; run_agent reports it and returns.
RequeryRaises ==
    /\ Requerying
    /\ at' = "ended"
    /\ UNCHANGED <<messages, compressor, tools, state, signal, aborted, step, model,
                   requestVars, toolVars>>

----------------------------------------------------------------------------
(* _handle_function_tools                                                  *)

Append1 == results' = Append(results, calls[1])

NextCall == calls' = Tail(calls) /\ at' = "tool"

UnknownTool ==
    /\ at = "tool" /\ tools /\ calls # <<>>
    /\ Append1
    /\ NextCall
    /\ UNCHANGED <<messages, compressor, tools, state, signal, aborted, step, model,
                   requestVars, asked, images, silent>>

StartTool ==
    /\ at = "tool" /\ tools /\ calls # <<>> /\ ~signal
    /\ at' = "reading"
    /\ UNCHANGED <<messages, compressor, tools, state, signal, aborted, step, model,
                   requestVars, toolVars>>

GivenBy(call) == Cardinality({i \in DOMAIN results : results[i] = call})

\* A result that can be passed on, perhaps with an image, or a message the tool has
\* sent to the user itself: the run is done, though the other calls are made.
Result ==
    /\ at = "reading" /\ ~signal
    /\ GivenBy(calls[1]) < MaxResults
    /\ Append1
    /\ \/ state' = state /\ images' \in {images, TRUE}
       \/ state' = "done" /\ images' = images
    /\ UNCHANGED <<messages, compressor, tools, signal, aborted, step, at, model,
                   requestVars, calls, asked, silent>>

ToolRaises ==
    /\ at = "reading" /\ ~signal
    /\ Append1
    /\ NextCall
    /\ UNCHANGED <<messages, compressor, tools, state, signal, aborted, step, model,
                   requestVars, asked, images, silent>>

ToolEnds ==
    /\ at = "reading" /\ ~signal
    /\ silent' = IF GivenBy(calls[1]) = 0 THEN silent \cup {calls[1]} ELSE silent
    /\ NextCall
    /\ UNCHANGED <<messages, compressor, tools, state, signal, aborted, step, model,
                   requestVars, asked, results, images>>

\* Variants ending in "Bug" are slips the properties must notice.
InterruptRecordsBug ==
    /\ signal
    /\ at = "reading" \/ (at = "tool" /\ tools /\ calls # <<>>)
    /\ messages' = messages \o <<Assistant(asked)>>
            \o [i \in DOMAIN results |-> Tool(results[i])]
    /\ aborted' = TRUE
    /\ state' = "done" /\ at' = "ended"
    /\ UNCHANGED <<compressor, tools, signal, step, model, requestVars, toolVars>>

\* _iter_tool_executor_results: the tool is not waited for, and what the calls
\* before it have given is dropped.
Interrupt ==
    /\ signal
    /\ at = "reading" \/ (at = "tool" /\ tools /\ calls # <<>>)
    /\ Abort
    /\ UNCHANGED <<compressor, tools, signal, step, model, requestVars, toolVars>>

\* step: the calls and their results enter the history together. Without tools
\* there are calls and no results.
Record ==
    /\ at = "tool" /\ (calls = <<>> \/ ~tools)
    /\ messages' = messages \o <<Assistant(asked)>>
            \o [i \in DOMAIN results |-> Tool(results[i])]
            \o (IF images THEN <<User(Other)>> ELSE <<>>)
    /\ silent' = IF tools THEN silent ELSE silent \cup asked
    /\ calls' = <<>>
    /\ StepEnds
    /\ UNCHANGED <<compressor, tools, state, signal, aborted, step, model, requestVars,
                   asked, results, images>>

LoopNext ==
    \/ Step \/ AskStop
    \/ Chunk \/ Retry \/ Fail \/ GiveUp \/ BreakOff \/ StreamEnds \/ StopSeen
    \/ AnswerText \/ AnswerTools
    \/ RequeryTools \/ RequeryText \/ Repair \/ RequeryRaises
    \/ UnknownTool \/ StartTool \/ Result \/ ToolRaises \/ ToolEnds \/ Interrupt
    \/ Record

LoopSpec == LoopInit /\ [][LoopNext]_loopVars

----------------------------------------------------------------------------
(* Properties                                                              *)

\* The message a tool message belongs to is the last one before it that is none.
AnswersCall(ms, i) ==
    \E j \in 1..i - 1 :
        /\ ms[i].id \in ms[j].calls
        /\ \A k \in j + 1..i - 1 : ms[k].role = "tool"

NoOrphanIn(ms) == \A i \in DOMAIN ms : ms[i].role = "tool" => AnswersCall(ms, i)

\* Wherever the history is cut, however often, and whatever the tools return, every
\* tool message in it follows the message that called the tool, with nothing but
\* other results in between: a result whose call was cut off goes with it
\* (truncator.py:51-98). Models that get the history unfiltered reject it otherwise.
NoOrphans == NoOrphanIn(messages)

\* What an OpenAI model gets.
Sent == Sanitize(messages)

\* An OpenAI model is sent exactly one result for every call it is shown, even if a
\* tool gives several, except for calls that gave nothing that can be passed on
\* (tool_loop_agent_runner.py:1132-1285, openai_source.py:496-529).
SentIsPaired ==
    Asking =>
        /\ NoOrphanIn(Sent)
        /\ \A i \in DOMAIN Sent : \A call \in Sent[i].calls \ silent :
            Cardinality({j \in DOMAIN Sent : Sent[j] = Tool(call)}) = 1

\* However a run ends, by an answer, an error or a stop in the middle of a batch of
\* calls, every call in the history it leaves to be saved has its result, right behind
\* it, except for calls that gave nothing that can be passed on, or were made without
\* tools: the next run begins with that history, and no provider takes a call without
\* a result out of it
\* (tool_loop_agent_runner.py:912-1000, 1419-1458, 1467-1509, truncator.py:51-98).
CallsKeepResults ==
    \A i \in DOMAIN messages : \A call \in messages[i].calls \ silent :
        \E j \in i + 1..Len(messages) :
            /\ messages[j] = Tool(call)
            /\ \A k \in i + 1..j : messages[k].role = "tool"

\* The rest is not guaranteed by the code.

\* The message the run is about is part of every request to a model.
RequestKept == Asking => \E i \in DOMAIN Sent : Sent[i] = User(Request)

\* The model chosen for the request is asked of the primary provider only:
\* include_model is set for the first candidate.
ModelGoesToPrimary == Asking /\ candidate = 1 => model = 0

\* The user sees the output of one attempt of a request.
ShownOnce == shown <= 1

\* Every call a model is sent has a result.
EveryCallAnswered ==
    Asking => \A i \in DOMAIN Sent : \A call \in Sent[i].calls :
        \E j \in DOMAIN Sent : Sent[j] = Tool(call)
=============================================================================
