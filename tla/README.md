# A TLA+ model of SHAHEEN-YS (AstrBot)

SHAHEEN-YS is a fork of AstrBot, a chatbot that receives messages from many
chat platforms, runs plugin handlers and an LLM agent on them, and answers. It
is one asyncio process: no two lines of Python run at once, but every `await`
lets other messages of the same chat run in between. A small Flask layer
(`src/app`, `src/shaheen_ys`) is added around it.

The project models what is hardest about such a program: several tasks at work
together, each suspended at some `await`, that share a session's lock, agent run,
follow-up line, registry entry and history, a queue, a job, or the tables of the tool
servers and of the model providers.

Paths below are under `src/astrbot/core/` unless they start with `src/`.

## 1. Inventory

| component | state | operations | talks to |
|---|---|---|---|
| event bus (`event_bus.py`) | queue, set of running tasks | `dispatch`: one task per message | adapters (queue), scheduler |
| pipeline scheduler (`pipeline/scheduler.py`) | the call stack of nested `_process_stages` | `execute`, `_process_stages` | stages, registry |
| pipeline stages (`pipeline/*/stage.py`) | mostly in the event: result, stop flags, extras | `process` of each stage, as coroutine or generator | plugins, agent stage, adapters |
| rate limit stage (`pipeline/rate_limit_check`) | timestamps and a lock per session | stall or discard | scheduler |
| follow-ups (`pipeline/process_stage/follow_up.py`) | active runner and order state per session | capture, monitor, activate, finish, release | agent stage, runner |
| internal agent stage (`.../agent_sub_stages/internal.py`) | local to a message | `process`, `_save_to_history` | follow-ups, session lock, runner, conversations |
| tool loop runner (`agent/runners/tool_loop_agent_runner.py`) | IDLE/RUNNING/DONE/ERROR, pending tickets, abort signal, messages | `reset`, `step`, `follow_up`, `request_stop` | providers, tools, hooks |
| `run_agent` and its stop watcher (`astr_agent_run_util.py`) | one watcher task per step | drive the runner, turn its output into results | runner, event |
| session locks (`utils/session_lock.py`) | lock and count per session, per event loop | `acquire_lock` | agent stage, others |
| active events (`utils/active_event_registry.py`) | set of events per session | register, unregister, stop_all, request_agent_stop_all | scheduler, commands, dashboard |
| conversations (`conversation_mgr.py`, `db/`) | current conversation per session; histories | get, create, update, switch, delete | agent stage, commands, cron, dashboard |
| built-in commands (`src/astrbot/builtin_stars`) | none | `/reset`, `/new`, `/stop`, ... | registry, conversations |
| contexts (`agent/context`, `agent/message.py`, `provider/sources`) | none | truncate, compress, halve, repair tool calls | runner, before each request |
| cron jobs (`cron/manager.py`), background tools (`astr_agent_tool_exec.py`) | jobs, scheduler entries, running tasks | add, update, delete, run, wake the agent | runner, conversations |
| MCP servers (`provider/func_tool_manager.py`, `agent/mcp_client.py`) | `mcp_server.json`, a runtime and a task per server, the tools they offer | boot, enable, disable, shut down | dashboard (`src/astrbot/dashboard/services/tools_service.py`), runner |
| provider manager (`provider/manager.py`) | configuration of providers and their sources, instances by id, a list and a default, two locks | load, reload, terminate, create, update, delete | dashboard (`src/astrbot/dashboard/services/config_service.py`), every message that asks for a model |
| WebChat queues (`platform/sources/webchat`) | queues, back queues, listener tasks, close events | create, remove, put, listen | dashboard, adapter |
| chat runs (`src/astrbot/dashboard/services/chat_service.py`) | per run: what is pending, the revision, streams with bounded buffers | run, publish, subscribe, delete session | back queues, database, SSE clients |
| session waiter (`utils/session_waiter.py`) | waiters and filters, one entry per session, a timer and a lock per waiter | register, trigger, keep, stop, time out | plugins |
| gateway and provider keys (`src/app`) | sliding windows; keys with cooldowns | `is_allowed`; get, report error or success | Flask threads |
| provider clients, platforms, knowledge base, plugins, computer tools, dashboard, CLI, backup, updater | connections, files, database rows | I/O | external services |

Hard behaviours, and what must be right:

* **Follow-ups.** A message sent by the author of the going run is captured: it is
  merged into a tool result of that run, or, if the run ends first, gets a turn of
  its own, in arrival order. Right: never both, never out of order, never stuck.
* **Lock table.** Locks appear and disappear by count. Right: exclusion, no leaks, no
  starvation, cancellation included.
* **Onion pipeline.** A `yield` runs all later stages, then the generator goes on.
  Right: handlers once, replies in order and once, nothing after a stop.
* **Stops.** `/stop`, `/reset` and `/new` reach runs through flags that four places
  read at different times.
* **History.** Read whole, written whole, minutes apart, and not by everybody under the
  session lock. Right: no lost turn, no resurrected one, no turn in the wrong
  conversation.
* **Tool loop.** Retries, fallback models, tool batches and stops meet inside one
  step, after the history was cut to fit. Right: what is sent has one result for every
  tool call, and what is saved, however the run ends, has one too.
* **Two generations of a thing.** A WebChat queue, a waiter, a tool server is removed
  while its task still runs, and another comes under the same name. Right: the old
  one's clean-up leaves the new one alone, order and tools are kept, everybody is
  freed.
* **Row and timer.** A cron job is in the database, in the scheduler and at work, and
  each of the three changes with the others half changed. Right: what is scheduled is
  what is stored, a one-time job is done once, restarts included.
* **Providers.** The configuration is written first and the instances follow, closing and
  loading with failures in between, under two locks that not every request takes.
  Right: at rest, one open instance for each enabled provider, with its present
  settings, but for what failures leave behind; what a message is given is not closed;
  no request waits for ever.

PROJECT.json lists each hazard at its line.

## 2. Modules

| module | models | state and actions in the code |
|---|---|---|
| `FollowUpTurns` | what a session promises | abstract: phases of messages and the line of follow-ups |
| `AgentTurn` | one session's messages in the internal agent stage | `pc`: where `process()` stands; `statuses, next_order, next_turn`: the order state; `ticket`: FollowUpTicket; `active`: the registered runner; `rstate, abort`: the runner; `holder, waiters`: the session lock. One action per stretch of code between two suspensions |
| `AgentTurnProofs` | | theorems about AgentTurn, and about ToolLoop |
| `MCAgentTurn` | | small instances |
| `FifoLock` | the lock users rely on | abstract: holder and queue per key |
| `SessionLock` | `session_lock.py` | `table, count`: the two dictionaries; `owner, waiters`: asyncio.Lock objects; `lockOf, want`: a task's local variables |
| `SessionLockProofs` | | theorems about SessionLock, and about SessionWaiter |
| `Pipeline` | one message through the stages | `frames`: the activations of `_process_stages`; `result, forced`: the event's result and stop flag; `place, hand`: where ProcessStage's generator stands; `fate`: what became of each reply (a history variable) |
| `PipelineProofs` | | theorems about Pipeline |
| `SessionHistory` | conversation, registry, commands, messages that handlers ask the LLM about, woken agents | `active`: the registry; `cur, hist`: conversations; `pc, conv, seen`: an event's progress and what it read; the lock is an instance of FifoLock |
| `SessionHistoryProofs` | | theorems about SessionHistory |
| `MCSessionHistory` | | symmetry over messages |
| `SessionWaiter` | `session_waiter.py` and the handler that offers messages to it | `session, filters`: USER_SESSIONS and FILTERS; `waiter, future, holds`: each `register_wait`, its controller and its timers; each waiter's lock is an instance of FifoLock |
| `WebChatQueues` | input queues and listeners of one conversation | queues are numbered as they are made; `queue, closeEvent, registered`: what the manager's dictionaries say of the conversation; per number: content, listener, whether its event is set |
| `WebChatQueuesProofs` | | theorems about WebChatQueues, and about WebChatRun |
| `WebChatRun` | back queue, run task, streams and deletion of one chat run | `call, back, open`: writers and the queue; `pc, atWork, cancelling`: the run's task; per stream a buffer of revisions |
| `Cron`, `MCCron` | `cron/manager.py` and one job | `row`: the database; `timer`: the scheduler's entry; where each call, each run and `start()` stands; restarts |
| `CronProofs` | | theorems about Cron |
| `Contexts` | truncation, compression and repair of messages | operators over sequences of messages (a role and the ids of tool calls), no state |
| `ToolLoop` (extends `Contexts`) | one run of the tool loop runner under `run_agent` | `messages, compressor, tools, state, signal, aborted`: the runner; the rest: where the step stands, which model is asked, what was shown |
| `McpServers` | the tool manager's servers and the dashboard's changes to them | `config`: the file, and what the requests that wrote it wanted; `servers`: each start, with its two tasks; `runtime`: which of them a name belongs to; `tools`: whose tools are offered; `call`: requests, boot and shutdown |
| `McpServersProofs` | | theorems about McpServers |
| `ProviderManager` | the provider manager and the dashboard's changes to it | `config, listed, aliased`: the configured providers and the manager's view of them; `sources, current, seen`: the same of the sources, by list; `inst, instMap, insts, curr`: instances and where they are found; `at, req, todo, keys, target`: requests; the locks are instances of FifoLock |
| `ProviderManagerProofs` | | theorems about ProviderManager |

Composition: SessionLock implements FifoLock; AgentTurn implements FollowUpTurns;
SessionHistory, SessionWaiter and ProviderManager use FifoLock. AgentTurn writes the same
lock out for its one session (proved: `TakesLock`). ToolLoop and AgentTurn share the runner: AgentTurn lets a run end in
each way ToolLoop does (done, aborted, failed) and adds the follow-ups; ToolLoop adds
what happens inside. WebChatQueues and WebChatRun are the two directions of a
conversation and share nothing but its deletion.

Definitions whose name ends in `Bug` are not part of any model. Each is a slip one
could make in the code, kept beside the definition it would replace, to show
that the properties notice it.

### Reading the models

* An action is what one task does between two suspensions. An `await` that cannot
  suspend (an uncontended asyncio.Lock or Condition, a coroutine that never
  waits) does not end an action. This is why `_access_lock` and the order state's
  Condition have no variables: no critical section of theirs awaits anything else.
* `RegisterRunner` waits until every captured message whose ticket is resolved has
  woken. The event loop's ready queue is first-come: those wake-ups were queued before
  the previous run gave up the lock, and the next run registers only after building
  its agent, which takes I/O.
* In `Pipeline`, other tasks can act only while a stage is "working". The content
  check and the steps of the scheduler itself never await.
* When the scheduler breaks off a generator, Python closes it, and leaves the session
  lock, soon afterwards from a task of its own. SessionHistory lets this happen with
  the break; nobody who could tell waits for anything but the lock.
* In `SessionHistory` histories are sets of turns: what matters is which turns a write
  keeps. A message runs the agent at most once. One that a handler asks the LLM about
  (`asked`) looks the conversation up and reads it before it comes to the agent stage and
  its lock (`src/astrbot/builtin_stars/astrbot/main.py:79` and `:187`), and
  `build_main_agent` takes what it brings (`astr_main_agent.py:1385`). For an empty mention
  the handler makes a conversation if there is none, but then asks without it, so that
  nothing is saved; other handlers do not ask at all. A chat's own request is looked up
  and read under the lock (`:1522`). In all modules database updates are atomic; only in
  `Cron` do others run between a call of the database and what follows it.
* In `WebChatQueues` and `McpServers` a thing that goes by a name in the code goes by a
  number, because the hazards are about two of them with one name. `forgotten` of
  WebChatQueues is a history variable: the listeners that were still at work when an older
  one's `done_callback` popped their entry, so that the manager can no longer cancel them.
* In `McpServers` a start has two tasks, the caller's (`start`) and the connection's
  (`life`). `_runtime_lock` is never held across an await and `_mcp_starting` is empty
  whenever another task runs, so neither has a variable. Opening a connection may take
  for ever, closing one ends. `struck` and `overlapped` are history variables: whether a
  server's entry was removed by the clean-up of another, and whether two changes of the
  file overlapped. An entry of `config` holds what the file calls active and, as a history
  variable, whether the request that wrote it wanted the server to run (`wanted`). The two
  differ when the request brings an entry with an `active` of its own; `Contrary` are the
  requests that may.
* In `ToolLoop` whether a context is too long, what a model answers and what a tool
  returns are free choices, so every compression can happen before every request.
  Nothing is claimed of when a user is told of an error: a re-query for the parameters of
  the chosen tools that fails ends the run after one model, no fallback asked
  (`tool_loop_agent_runner.py:1359-1367`).
* In `Cron` jobs share only `_started`, so one job stands for all; a second `start()` is
  the next process's.
* In `ProviderManager` `running` is the request that has the event loop: everything up to
  its next wait is in single steps, and nobody else acts between them. A lock that is
  free is taken without a wait. Closing and loading are waits that end or fail. The
  models' list stands for those of speech-to-text and text-to-speech too, which are
  kept in the same way. `failed`, `leaked` and `overlapped` are history variables: ids a
  failure has left behind until their next reload, instances whose entry in `inst_map` was
  taken by a later load of the same id, and whether an edit of the source met another
  request.

## 3. Runs

| run | instance | shows |
|---|---|---|
| `agent_turn` | 4 messages, 2 authors, 1 stop request, runs may fail (~700 000 states) | strict order, merged xor answered, no order state dropped or slot abandoned, and AgentTurn implements FollowUpTurns |
| `agent_turn_live` | 3 messages, runs do not fail (~76 000) | no ticket left with a run that will not resolve it; every message is finished |
| `session_lock` | 4 tasks, 2 sessions, 4 lock objects (~7 400) | exclusion, exact counts, no starvation, implements FifoLock |
| `pipeline` | 2 handlers, 3 results (~150 000) | handlers once, replies in order, resent only if stopped, nothing started after a stop, even one that is undone |
| `session_history` | 3 messages of any kind, 1 woken agent (~2 200 000 with symmetry) | conversation of a turn; what /stop cut short is saved, and chats lose no turn, unless somebody works on the conversation who has read it without the lock |
| `session_waiter` | 3 messages, 2 waiters, 1 `keep` each (~125 000) | a lone waiter gets every message until it ends, is dropped only at its end, and ends |
| `webchat_queues` | 3 messages, queues of 2, 3 generations (~158 000) | messages in order across generations unless the manager has lost a listener, at most one handled after its conversation is gone, what was sent is handled |
| `webchat_run` | 4 payloads, back queue of 1, 2 streams with buffers of 2, 2 deletions (~275 000) | streams without gaps, every payload stored, pending or dropped by a deletion, and once; readers and writers are freed |
| `cron` | 2 calls, 2 runs, 1 restart (~397 000 with symmetry) | scheduled as stored unless changes overlap; a one-time job is done once |
| `tool_loop` | 3 requests, 2 calls, 2 results, 1 fallback model (~470 000) | histories stay well formed, what is sent is paired, what is saved keeps its results |
| `mcp_servers` | 2 names, 1 configured, 2 requests, 1 of them with a contrary entry (~1 400 000) | servers are listed while alive, their tools offered, what runs was wanted and has the settings of the file, a disabled server is down, every call ends |
| `provider_manager` | 2 providers, 1 of them of the source, 2 requests (~105 000) | at rest the providers run as configured, but for what failures leave behind; messages are given open instances, every request ends |

Each module also states a `TypeOK`, which is proved. `OneRunAtATime`, `ActiveIsRegistered` and
`StopReachesRuns` are proved and in no run.

Bounds. Four messages are the least in which one runs, two are captured by it in an
order that matters, and a newcomer interferes; the second author is one whose
message is never captured. One stop request reaches a run in each phase; more
would repeat it. `MaxStops` is the only counter bound of AgentTurn: order numbers
are bounded by the messages. With four tasks on two locks, one holds, one waits,
one gives up and one comes new. `MaxYields` = 3 bounds what handlers and runs give
out: a reply before, in and after a nested agent run. In SessionHistory a reader,
a writer, a command and a woken agent overlap; each message is of any kind, so that a
chat, a handler's request and a command meet as well as three handlers' requests.
Two generations are what the hazards of SessionWaiter and McpServers need (a third only
repeats the second's meeting with the first; three waiters were checked once, 4.8 million
states). WebChatQueues needs three: the first one's end makes the manager lose the
second, which then works beside the third. Three messages fill a queue of two or come
before, between and after two waiters. WebChatRun has one
payload for each way the run's task treats one; a back queue of one is full whenever
it is not empty. In Cron two calls overlap with a run and a restart; three calls
without a restart were checked once as well (3.8 million states). `MaxSteps` = 2 gives
a step with tools, another, and the last request without tools; two calls with two
results each can be cut short by a stop at every point. In McpServers one request may
be contrary, which is enough to tell `active` from what runs; the name that is
not configured is the one requests can add; the instance with both names configured
was checked once for safety only (5.0 million states). In ProviderManager two requests
meet in each kind of their waits, one provider takes its settings from the source and
one does not, and either may be renamed to the other's id when that is free; three
requests were checked once, with symmetry and for safety only (1.5 million states).

Deadlock is checked in `session_lock`, `pipeline`, `session_history` and
`session_waiter`, where being finished is a step of its own, so a message stuck halfway
would be reported. Elsewhere behaviours end (all messages handled, all calls
done, the process shut down), so it is not checked; `EveryMessageEnds`,
`SentIsHandled`, `EverybodyIsFreed`, `EveryCallEnds` and `RequestsEnd` say more.

Fairness. In AgentTurn each task the event loop can run does run (weak fairness of
its next step), and a run, a hook and a save end: providers, tools and the database
are local or have timeouts. No fairness is assumed of arrivals, stop requests, tool
results or the stop watcher. In SessionLock the loop resumes the first waiter of a
free lock and lock bodies end; cancellation and entering are free. In SessionWaiter
the loop runs what is ready and time passes, but a handler may take for ever. In
WebChatQueues the adapter comes up, tasks run and callbacks end; nobody need
delete or shut down. In WebChatRun the loop runs, connected clients read (the server
sees when one has gone), and the database answers. In McpServers tasks run, a closing
connection closes and time passes; one weak fairness condition on the steps of all
tasks is enough, because each task takes finitely many steps and so none can use up the
others' turns. In ProviderManager requests run, locks are granted, and loads and closes
end or fail; nobody need send a request. Pipeline, SessionHistory, Cron and ToolLoop are checked for safety only.

## 4. Where code and documents disagree

Each entry says how TLC shows it: the run, or what to change in a configuration.

1. **A run that raises leaves its follow-ups waiting** (`astr_agent_run_util.py:318`).
   The except clause and the exit at the step limit do not resolve the pending tickets.
   `MCAgentTurnLive.cfg` with `RunsMayFail = TRUE`.
2. **A reply is sent twice** when the message is stopped while it is being sent
   (`pipeline/respond/stage.py:321`). `MCPipeline.cfg` with `NoReplySentTwice`.
3. **A rejected message is processed all the same** if it addressed the bot
   (`pipeline/content_safety_check/stage.py:53`). `MCPipeline.cfg` with
   `BlockedNotProcessed`.
4. **/reset is undone by the run it stops** (`internal.py:409`).
   `MCSessionHistoryReset.cfg`.
5. **A woken agent overwrites newer turns** (`utils/history_saver.py:22`).
   `MCSessionHistory.cfg` with `NoTurnLost`.
6. **With unique_session, /stop and /reset miss running messages**, and the registry
   keeps them for good (`pipeline/waking_check/stage.py:85`). `MCSessionHistory.cfg`
   with `UniqueSession = TRUE` and `StopReachesRuns`.
7. **A fallback model is asked for the primary model's name** from the second step on
   (`tool_loop_agent_runner.py:521`). `MCToolLoopModel.cfg`.
8. **The current request may be cut off** in a run with many tool results, and an old
   one sent in its place (`agent/context/truncator.py:45`). `MCToolLoop.cfg` with
   `RequestKept`.
9. **Output is shown several times** when a model fails after it has streamed some
   (`tool_loop_agent_runner.py:558`). `MCToolLoop.cfg` with `ShownOnce`.
10. **A chat run that is cancelled twice is never cleaned up**
    (`chat_service.py:1049`): its streams go on and its back queue stays.
    `MCWebChatRun.cfg` with `NothingLeftBehind`.
11. **The end of one waiter hides another of the session**
    (`utils/session_waiter.py:146`). `MCSessionWaiter.cfg` with `WaiterIsReachable`.
12. **Two waiters' handlers of a session run at once** (`utils/session_waiter.py:121`).
    `MCSessionWaiter.cfg` with `OneHandlerPerSession`.
13. **The default session of a waiter is the chat, not the sender**: the guide
    (`src/docs/en/dev/star/guides/session-control.md:91`) says `sender_id`, the code
    takes `unified_msg_origin` (`utils/session_waiter.py:101`).
14. **A job added before start() keeps the stored ones from being scheduled**, and of
    two updates the older may win (`cron/manager.py:110`). `MCCron.cfg` with
    `AlwaysScheduledAsStored`.
15. **A failed start removes the entry of its name, whoever has it by then**, and a
    second server is started beside the first (`provider/func_tool_manager.py:620` and
    `:761`). `MCMcpServersTwice.cfg`.
16. **Adding a server writes back a configuration read before a long wait**
    (`src/astrbot/dashboard/services/tools_service.py:118`). `MCMcpServers.cfg` with
    `overlapped` taken out of `RunsAsConfigured`.
17. **The servers that did not close in time are never named**: `pending_names` is
    computed when all have ended (`provider/func_tool_manager.py:799`).
18. **A deleted provider is loaded again**, and never closed, when an edit of its source
    meets the deletion; a creation or an update that meets it leaves two instances or old
    settings (`src/astrbot/dashboard/services/config_service.py:1731`).
    `MCProviderManager.cfg` with `overlapped` taken out of `RunsAsConfigured`.
19. **A provider renamed without success stays loaded** though it is no longer configured
    (`provider/manager.py:753`). `MCProviderManager.cfg` with `LoadedIsConfigured`.
20. **Closed embedding and rerank providers stay in their lists**
    (`provider/manager.py:798`). Found by reading; the lists are not modelled.
21. **Two listeners of a conversation work at once**: the end of a listener whose queue was
    deleted pops the entry of its successor, which the next deletion then does not cancel
    (`platform/sources/webchat/webchat_queue_mgr.py:167`). `MCWebChatQueues.cfg` with
    `AlwaysInOrder`. The attempt to prove order for any number of queues found this one.
22. **A handler's request overwrites newer turns**: it brings a history that was read
    before the session lock was taken (`astr_main_agent.py:1391`). `MCSessionHistory.cfg`
    with `Wakeups = {}` and `NoTurnLost`.
23. **A server runs though its entry is not active**: adding starts it whatever the entry
    says, and an update with a pasted entry stores that one's `active` but follows its
    own (`src/astrbot/dashboard/services/tools_service.py:131` and `:408`).
    `MCMcpServers.cfg` with `RunsOnlyIfActive`.
24. **The old instance of a provider is never closed** when the provider is renamed
    without success and then created again under its old id
    (`provider/manager.py:738`). `MCProviderManager.cfg` with `OpenIsFound`.

The passing runs state what still holds: e.g. replies are resent *only if* the
message was stopped, a chat keeps every turn that is stored when it writes *unless* a
woken agent works on the same conversation (a handler's request may keep fewer), a waiter
is reachable *while it is alone*, and the scheduler agrees with the database *unless*
changes overlap. Of tool servers the runs show that they follow what the requests wanted,
not what the file calls active; of providers that they are as configured but for three
exceptions, which stand where the property does.

## 5. Proofs

Every invariant and every action property the runs check is stated by a theorem, for all
values of the constants. No bound of a run is assumed: a set of messages, tasks or
requests is arbitrary, and finite only where the code counts it.
In each module the properties are not inductive by themselves; `Inv` (or what the module
calls it) is, and is shown so action by action. Its parts were first checked with TLC.

**AgentTurn** (`AgentTurnAssumption`). `Inv` adds: whoever is past the lock holds
it and a registered runner is in its run (`LockInv`); where a captured message can stand,
given its ticket (`TicketInv`); numbers are not shared, and an unmerged message's number
has a slot in the order state, which is at the head of the line once the message
passes the gate (`SlotInv`). The last needs care: a *merged* message may still hold a
number of an order state that was released and begun anew, which is harmless only because
this happens while no runner is registered. `SettleFact` is the heart of it: marking or
finishing one slot disturbs no other. From `Inv` follow `OneRun`, `Ordered`,
`MergedOnce`, `StateKept`; and with `Inv` at both ends of a step, `Implements`: each step
of AgentTurn is a step of FollowUpTurns or a stutter under `Phase` and `Rank`.
`NoneAbandoned` adds `OwnerInv`: each slot the line waits for is that of a message at
work. `NeverStuck`: while messages are under way one of them can go on. It adds that the
queue of the lock holds exactly who waits for it (`LineInv`) and that the slot at the head
of the line is not handled yet (`HeadInv`); `Advances` shows that the order state can
always be advanced, so that no step is blocked for want of it. `TicketsOwned` and
`NeverStuck` need `~RunsMayFail`, the negation of finding 1. `TakesLock` is
`Spec => Fifo!Spec`: the lock that AgentTurn writes out is one of those SessionLock
provides.

**ToolLoop** (in AgentTurnProofs; any steps, calls, results, fallbacks, attempts and
turns). A history is `Good` if each result follows its call with only results in between,
each call but the silent ones has a result there, and no call is made twice. Most of the
proof shows that all that is done to a history keeps it good: dropping its oldest turns
or half of it, summarising it, repairing it, adding the calls of a step with their
results. `FixMessages`, the split into rounds and the clean-up before a request are
folds, whose results are reached by the least length at which they would fail
(`FixFact`, `RoundsFact`, `SaneFact`), as the induction theorems of the library cannot be
used. `LoopInv` then says that the history is good (`Wellformed`), that the calls of a
step are new and each has a result, is silent or is still to be done (`Batch`).
`ResultsHaveCalls` follows at once; `OneResultPerCall` because the clean-up of a good
history leaves one result for each call; `SavedIsAnswered` because the calls of a step
come into the history together with their results, so that wherever a run ends, what it
leaves to be saved is good too.

**SessionLock** (the set of tasks finite, as counts are cardinalities). `Inv` says which
tasks use which lock object, that no object serves two keys, that queues hold exactly
the waiting tasks, once each, and that an owner is inside. From it: `Exclusive`,
`NothingLeaks`, and `Implements` (`Spec => Fifo!Spec`). `NeverStuck`: whoever waits for a
session, a task of that session is inside or is the next to get in (`WaitingInv`: who
waits is in the queue of the lock it waits on).

**SessionWaiter** (in SessionLockProofs; any number of waiters, messages and periods).
`WaiterInv` says that what the registry holds are waiting waiters, each once, that a message
waits for one waiter (`AskingInv`, `RegistryInv`), and why a message was kept from other
handlers (`KeptInv`). `Reachable` needs that two waiters which wait at the same time
have met: only then does the end of one hide the other (finding 11). `TurnInv` says that
who handles a message holds the lock of its waiter, and `PeriodInv` that a waiter has no
periods before it is registered; with them `WaiterTypesHold`, `OneHandlerEach` (one
handler at a time for each waiter, if not for each session: finding 12) and
`WaiterTakesLocks` (`WaiterSpec => Lock!Spec`). `AlwaysTimed`: somebody waits for every
registered waiter (`AskedInv`), and until it is over the last of its periods is running or
has run out (`TimedInv`): `keep()` releases only the ones before.

**SessionHistory** (any messages and woken agents, either value of UniqueSession). `Inv`
says which kind of event stands where (`KindInv`), who holds the lock and when (`InLock`:
a chat from before it looks the conversation up, a handler's request only to run and to
write), and that an event has no conversation before it has looked for one (`Before`,
`ConvInv`). What a *chat* has read contains what is stored, unless a woken agent came to
the conversation (`KeptInv`): everybody else who writes needs the lock. A handler's request
may have read anything older. So a turn that /stop cut short stays (`Stays`) until
somebody who has read the history without the lock is there to write over it
(`Overwrites`), and remains excused from then on (`OverwritesKept`). `TurnsKept` follows
for chats, and `WhoForgets` says which steps can remove a turn at all: /reset, a handler's
request, and whoever works on a conversation beside a woken agent; these are findings 5
and 22. `Registered` and `StopReaches` need `~UniqueSession`, the negation of finding 6.
`TakesLocks` is `Spec => Lock!Spec`, which completes what SessionLock's `Implements`
begins; `OneAtWork` says what the lock is for, and how little of a handler's request it
covers.

**Pipeline** (any number of handlers and of replies). `Inv` is about the stack of nested
activations: each one below the top is a generator that waits for a later stage
(`StackInv`). From this follow where the reply that is on its way is to be found
(`ReplyInv`), that ProcessStage is begun before any handler has run (`FirstInv`), and that
a reply which was sent stays the result only if it has stopped the message (`SentInv`).
`StoppedStartsNothing` needs more, since a stop does not last: a decorating hook clears the
result that carries it while outer activations have still to go on. `StopInv` says where
the pipeline can stand when only the result says stop, and `Halted` what is left when that
is cleared (`Past`): no activation is at ProcessStage, and the only one that could still
reach it is the content check, which has the message stopped before it ends.

**Cron** (any calls, runs and restarts; `None` is no row, call or entry). `Inv` says what
a change may rely on while it meets no other (`AloneInv`, `OrderInv`), and which
schedules can come back after they were done: none, unless the run is still at work
(`WorkInv`). A one-time job is done once *whatever* calls come in between; agreement of
scheduler and database needs that changes do not overlap (finding 14).

**McpServers** (any names, finitely many, and any requests; what stands for boot, shutdown
and no settings is no request). `Inv` says what each clean-up will close (`ServerInv`),
which server a name is listed with (`RuntimeInv`), and, while requests do not overlap,
that a server nobody has told to end runs with the settings of the file and because the
last request about it wanted it (`ConfigInv`); that the file calls it active does not
follow, and is finding 23. `Disabled`
is an action property: a request that ends leaves none of its servers alive, the
timeouts of `shutdown_mcp_server` included.

**WebChatQueues** (any messages, finitely many, any number and size of queues). `Inv`
orders what was put by where it is now: handled, in the listener's hand, in the queue
(`ContentInv`, `HandInv`, `HandledInv`), across queues too (`TakenInv`), and says that a
listener at work is registered, cancelled or lost (`TaskInv`). The lost ones are finding
21; without them the order is that of the puts. `NothingStrays`: while the adapter is there
a message of an open queue was handled, or a listener that nobody has cancelled has it in
hand or in its queue, or it waits for room there. It adds that every open queue has such a
listener (`ListenInv`) and where a message that was put is (`FoundInv`).

**WebChatRun** (in WebChatQueuesProofs; any payloads, streams and sizes). `RunInv`: a
subscriber's buffer is exactly the window of revisions since its snapshot (`StreamInv`),
and each payload is in one place (`BackInv`, `StoreInv`). `EndsForAll`: a run that is over
has closed its queue and every stream has its end ahead of it, or a request to delete the
session has cut it down (`EndInv`), which is the one way to be left behind.

**ProviderManager** (any providers, finitely many, any requests; `None` is none of the
things it stands for the lack of). `Inv` says what `inst_map`, the list and the default may
hold whatever requests do to each other, and gives `GivenOpen`. `ProvidersConfigured`
needs more. Without an edit of the source that meets another request, one request is at
work at a time, because `resource_lock` is held by all others (`Base`); and every
provider then is as it is configured, or the request at work will still come to it, or a
failure has marked it (`Sound` in `RunInv`). An open instance is found under its id, so
that the next reload closes it, unless a load has taken its entry (`Single`); then it is
in `leaked` for good (finding 24), and the theorem says of such ids that everything but
these instances is as it should be. To carry this through a reload, `WorkOf`
says for each point of a request what it has read, closed and loaded so far.
`NeverStuck`: while requests are under way one of them can go on. A request that does not
run waits for a provider or in the queue of the one lock it asks for, and who has
reload_lock does not ask for resource_lock (`WaitInv`); so the two are never asked for in
the other order, and the holder of reload_lock runs or waits for a provider.

Three modules of proofs hold two components each, a large one beside a small one, and
extend both. For this the definitions of ToolLoop, SessionWaiter and WebChatRun that every
module has (`Init`, `Next`, `Spec`, `TypeOK`, ...) begin with `Loop`, `Waiter` and `Run`.
The two components of such a module have no constant and no variable in common.

Only model-checked: the liveness properties, which need ENABLED and stay with TLC for
good. The three theorems `NeverStuck` are what safety can say of `EveryMessageEnds`,
`NobodyStarves` and `RequestsEnd` for all constants: no circle of waiting, whoever comes
in between. In the same way `NothingStrays` is the safety core of `SentIsHandled`,
`EndsForAll` of `EverybodyIsFreed` and `AlwaysTimed` of `WaitersEnd`. `CanGoOn` writes out
the guards of the steps in place of ENABLED. That each of these steps then comes, and that
the one who can go on is not always another one, is what the fairness adds and what TLC
checks.

## 6. Plan

Done: all modules above, and the proofs of section 5.

Proofs left: none of what the runs check, but for liveness. ProviderManager's locks are not
shown to be FifoLock's: a request that ends leaves both at once, and reload lets go of one
and queues for it again in one step, which are two steps of FifoLock.

Modules left: the rate limit (the stage's sliding window with its lock held over a stall,
and the gateway's), provider keys with cooldowns, the plugin and platform managers
(reload against messages that use the old instance), reconnection of a tool
server and the ModelScope synchronisation, edits of a conversation's history by the
dashboard.

## 7. Not modelled

Provider clients, platform adapters, knowledge base, plugin loading, sandboxes, the rest
of the dashboard, CLI, backup and updater are I/O or data processing with little shared
state. Wording, segmenting, text-to-speech, live mode and statistics are abstracted within
the modelled parts; so are the chunks of a streamed answer, except whether any was shown.
Of the chat runs, attachments' files, threads, editing and regenerating are left out; of
the MCP servers, reconnecting in a tool call and the ModelScope synchronisation; of the
provider manager, the lists of embedding and rerank providers, the choice of a session,
which may be set without a session too (`provider/manager.py:173-202`; no command does),
renaming a source, and shutdown. Waiters have the default filter. The third-party agent
runners are left out: they use neither follow-ups nor the conversation history.
