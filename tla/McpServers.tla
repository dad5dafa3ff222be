----------------------------- MODULE McpServers -----------------------------
(***************************************************************************)
(* The MCP servers of the tool manager: starting them at boot and from the *)
(* dashboard, the life of each one's task, shutting them down, and the     *)
(* configuration file that says which of them should run.                  *)
(*                                                                         *)
(* _runtime_lock is never held across an await, so that nobody ever waits  *)
(* for it, and _mcp_starting is empty again before anybody else runs: both *)
(* are left out. A start has two tasks, the one that called                *)
(* _start_mcp_server ("start") and the one that owns the connection        *)
(* ("life").                                                               *)
(***************************************************************************)
EXTENDS Naturals, Sequences, FiniteSets, SequencesExt

CONSTANTS
    Names,          \* the names servers are configured under
    Configured,     \* those in the configuration file at boot, all of them active
    Requests,       \* bounds the requests of the dashboard
    Contrary        \* those whose entry may say another `active` than what is done

Boot == "boot"      \* init_mcp_clients, in the background
Quit == "quit"      \* terminate of the provider manager
Calls == Requests \cup {Boot, Quit}

NoServer == 0
NoName == "none"
NoSettings == "none"

ASSUME McpServersAssumption ==
    /\ IsFiniteSet(Names) /\ NoName \notin Names /\ Configured \subseteq Names
    /\ {Boot, Quit, NoSettings} \cap Requests = {} /\ Contrary \subseteq Requests

\* An entry of mcp_server.json. Its settings stand for the request that wrote them.
\* That the request that wrote it wanted the server to run is not in the file: what
\* the file calls active may be something else.
Entry(active, wanted, settings) ==
    [active |-> active, wanted |-> wanted, settings |-> settings]
Absent == Entry(FALSE, FALSE, NoSettings)

VARIABLES
    config,     \* mcp_server.json
    servers,    \* every server started so far, in the order they were started
    runtime,    \* _mcp_server_runtime, the server of each name or NoServer
    tools,      \* the servers whose tools are in func_list
    call,       \* how far each request, the boot and the shutdown are
    struck,     \* servers whose entry a clean-up for another server removed
    overlapped  \* two requests of the dashboard were under way at once

vars == <<config, servers, runtime, tools, call, struck, overlapped>>

Server == DOMAIN servers
Present(n) == config[n].settings # NoSettings
Ended(i) == servers[i].life = "ended"
Started(c) == {i \in Server : servers[i].by = c}
Over(c) == call[c].pc = "done"

Entries == [Names -> [active : BOOLEAN, wanted : BOOLEAN, settings : Calls \cup {NoSettings}]]

TypeOK ==
    /\ config \in Entries
    /\ servers \in Seq([
        name : Names, settings : Calls, by : Calls,
        start : {"waiting", "stopping", "quitting", "ok", "failed"},
        life : {"connecting", "failing", "aborting", "serving", "terminating", "ended"},
        connected : {"no", "ok", "error"},
        shutdown : BOOLEAN, cancelled : BOOLEAN, open : BOOLEAN,
        target : Server \cup {NoServer}])
    /\ runtime \in [Names -> Server \cup {NoServer}]
    /\ tools \subseteq Server /\ struck \subseteq Server
    /\ call \in [Calls -> [
        pc : {"idle", "testing", "starting", "shutting", "forcing", "cancelling", "done"},
        name : Names \cup {NoName}, next : Names \cup {NoName},
        settings : Calls \cup {NoSettings}, targets : SUBSET Server, adds : BOOLEAN, seen : Entries]]
    /\ overlapped \in BOOLEAN

Fresh == [pc |-> "idle", name |-> NoName, next |-> NoName, settings |-> NoSettings,
          targets |-> {}, adds |-> FALSE, seen |-> [n \in Names |-> Absent]]

\* The call is over, and what it worked with is forgotten.
EndedCall == [Fresh EXCEPT !.pc = "done"]

New(n, settings, c) ==
    [name |-> n, settings |-> settings, by |-> c, start |-> "waiting", life |-> "connecting",
     connected |-> "no", shutdown |-> FALSE, cancelled |-> FALSE, open |-> TRUE,
     target |-> NoServer]

Init ==
    /\ config = [n \in Names |-> IF n \in Configured THEN Entry(TRUE, TRUE, Boot) ELSE Absent]
    /\ servers = <<>>
    /\ runtime = [n \in Names |-> NoServer]
    /\ tools = {} /\ struck = {} /\ overlapped = FALSE
    /\ call = [c \in Calls |-> Fresh]

(***************************************************************************)
(* The task of a server: connect_and_lifecycle                             *)
(***************************************************************************)

Of(n) == {i \in Server : servers[i].name = n}
Cancelled(s, C) ==
    [i \in DOMAIN s |-> [s[i] EXCEPT !.cancelled = @ \/ (i \in C /\ s[i].life # "ended")]]

Signalled(D) == [i \in Server |-> [servers[i] EXCEPT !.shutdown = @ \/ (i \in D /\ ~Ended(i))]]

\* The task of server s is over; what only the task reads is forgotten.
Gone(s) == [s EXCEPT !.life = "ended", !.cancelled = FALSE, !.shutdown = FALSE, !.target = NoServer]

\* pop(n) by a clean-up for server i.
Forget(n, i) ==
    /\ runtime' = [runtime EXCEPT ![n] = NoServer]
    /\ struck' = struck \cup ({runtime[n]} \ {NoServer, i})

\* Its client is connected and its tools replace those of its name.
Connected(i) ==
    /\ servers[i].life = "connecting" /\ servers[i].open /\ ~servers[i].cancelled
    /\ servers' = [servers EXCEPT ![i].life = "serving", ![i].connected = "ok"]
    /\ tools' = (tools \ Of(servers[i].name)) \cup {i}
    /\ UNCHANGED <<config, runtime, call, struck, overlapped>>

ConnectFailed(i) ==
    /\ servers[i].life = "connecting" /\ ~servers[i].cancelled
    /\ servers' = [servers EXCEPT ![i].life = "failing"]
    /\ UNCHANGED <<config, runtime, tools, call, struck, overlapped>>

\* The clean-up after a failed connection, which may itself be cancelled, and
\* then tells nobody, or the clean-up after a cancelled one.
ConnectEnds(i) ==
    /\ \/ servers[i].life = "failing"
       \/ servers[i].life = "aborting"
    /\ servers' = [servers EXCEPT ![i] = [Gone(servers[i]) EXCEPT !.open = FALSE,
            !.connected = IF servers[i].life = "failing" /\ ~servers[i].cancelled
                          THEN "error" ELSE servers[i].connected]]
    /\ UNCHANGED <<config, runtime, tools, call, struck, overlapped>>

ConnectCancelled(i) ==
    /\ servers[i].life = "connecting" /\ servers[i].cancelled
    /\ servers' = [servers EXCEPT ![i].life = "aborting", ![i].cancelled = FALSE]
    /\ UNCHANGED <<config, runtime, tools, call, struck, overlapped>>

\* The finally clause: _terminate_mcp_client looks its name up and cleans up
\* the client it finds. It is begun again whenever it is cancelled.
Terminate(i) ==
    /\ \/ servers[i].life = "serving" /\ (servers[i].shutdown \/ servers[i].cancelled)
       \/ servers[i].life = "terminating" /\ servers[i].cancelled
    /\ LET n == servers[i].name
       IN IF runtime[n] # NoServer
          THEN /\ servers' = [servers EXCEPT ![i].life = "terminating",
                                  ![i].target = runtime[n], ![i].cancelled = FALSE]
               /\ UNCHANGED tools
          ELSE /\ servers' = [servers EXCEPT ![i] = Gone(@)]
               /\ tools' = tools \ Of(n)
    /\ UNCHANGED <<config, runtime, call, struck, overlapped>>

\* Variants ending in "Bug" are slips the properties must notice. Here the client is
\* closed and the entry removed, but not the tools.
TerminatedKeepsToolsBug(i) ==
    /\ servers[i].life = "terminating" /\ ~servers[i].cancelled
    /\ servers' = [servers EXCEPT ![i] = Gone(@), ![servers[i].target].open = FALSE]
    /\ Forget(servers[i].name, i)
    /\ UNCHANGED <<config, tools, call, overlapped>>

\* The client is closed, and the tools and the entry of its name are removed.
Terminated(i) ==
    /\ servers[i].life = "terminating" /\ ~servers[i].cancelled
    /\ servers' = [servers EXCEPT ![i] = Gone(@), ![servers[i].target].open = FALSE]
    /\ tools' = tools \ Of(servers[i].name)
    /\ Forget(servers[i].name, i)
    /\ UNCHANGED <<config, call, overlapped>>

(***************************************************************************)
(* Starting a server: _start_mcp_server                                    *)
(***************************************************************************)

\* enable_mcp_server of call c: the request is ignored if the name is taken.
Enable(c, n, settings) ==
    IF runtime[n] # NoServer
    THEN /\ call' = [call EXCEPT ![c] = EndedCall]
         /\ UNCHANGED <<servers, runtime>>
    ELSE /\ servers' = Append(servers, New(n, settings, c))
         /\ runtime' = [runtime EXCEPT ![n] = Len(servers) + 1]
         /\ call' = [call EXCEPT ![c] = [Fresh EXCEPT !.pc = "starting", !.adds = call[c].adds]]

\* _start_mcp_server of server i returns or raises. A request of the dashboard
\* is over with it; one that was to add the server takes it out of the file.
Finish(i, ok) ==
    LET c == servers[i].by
    IN /\ servers' = [servers EXCEPT ![i].start = IF ok THEN "ok" ELSE "failed",
                                    ![i].connected = "no"]
       /\ call' = IF c = Boot THEN call ELSE [call EXCEPT ![c] = EndedCall]
       /\ config' = IF call[c].adds /\ ~ok
                    THEN [config EXCEPT ![servers[i].name] = Absent] ELSE config

StartSucceeds(i) ==
    /\ servers[i].start = "waiting" /\ servers[i].connected = "ok"
    /\ Finish(i, TRUE)
    /\ UNCHANGED <<runtime, tools, struck, overlapped>>

StartFails(i) ==
    /\ servers[i].start = "waiting" /\ servers[i].connected = "error"
    /\ Finish(i, FALSE)
    /\ Forget(servers[i].name, i)
    /\ UNCHANGED <<tools, overlapped>>

\* A start that waits for the task without having cancelled it.
StartTimesOutBug(i) ==
    /\ servers[i].start = "waiting"
    /\ servers' = [servers EXCEPT ![i].start = "stopping"]
    /\ UNCHANGED <<config, runtime, tools, call, struck, overlapped>>

\* The time for the start is over, perhaps just when it has succeeded: the
\* server's task is cancelled and waited for.
StartTimesOut(i) ==
    /\ servers[i].start = "waiting"
    /\ servers' = Cancelled([servers EXCEPT ![i].start = "stopping"], {i})
    /\ UNCHANGED <<config, runtime, tools, call, struck, overlapped>>

\* A start that does not wait for the task it has cancelled.
StartStoppedBug(i) ==
    /\ servers[i].start = "stopping"
    /\ Finish(i, FALSE)
    /\ Forget(servers[i].name, i)
    /\ UNCHANGED <<tools, overlapped>>

StartStopped(i) ==
    /\ servers[i].start = "stopping" /\ Ended(i)
    /\ Finish(i, FALSE)
    /\ Forget(servers[i].name, i)
    /\ UNCHANGED <<tools, overlapped>>

\* A start that is cancelled while it waits for the task leaves the entry.
StartAbandoned(i) ==
    /\ servers[i].start = "quitting" /\ Ended(i)
    /\ Finish(i, FALSE)
    /\ UNCHANGED <<runtime, tools, struck, overlapped>>

(***************************************************************************)
(* Shutting servers down: disable_mcp_server and _shutdown_runtimes        *)
(***************************************************************************)

\* What call c does once the servers it had to shut down are down.
Proceed(c, next, settings) ==
    IF next # NoName
    THEN Enable(c, next, settings)
    ELSE /\ call' = [call EXCEPT ![c] = EndedCall]
         /\ UNCHANGED <<servers, runtime>>

\* Shuts the servers D down first, unless their tasks are over.
Shutdown(c, D, next, settings) ==
    IF \A i \in D : Ended(i)
    THEN Proceed(c, next, settings)
    ELSE /\ servers' = Signalled(D)
         /\ call' = [call EXCEPT ![c].pc = "shutting", ![c].next = next,
                                 ![c].settings = settings, ![c].targets = D]
         /\ UNCHANGED runtime

ShutdownDone(c) ==
    /\ call[c].pc = "shutting" /\ \A i \in call[c].targets : Ended(i)
    /\ Proceed(c, call[c].next, call[c].settings)
    /\ UNCHANGED <<config, tools, struck, overlapped>>

\* The time for it is over: the tasks are cancelled, and waited for all the same.
ShutdownTimesOut(c) ==
    /\ call[c].pc = "shutting"
    /\ servers' = Cancelled(servers, call[c].targets)
    /\ call' = [call EXCEPT ![c].pc = "forcing"]
    /\ UNCHANGED <<config, runtime, tools, struck, overlapped>>

\* A shutdown that raises as soon as it has cancelled the tasks.
ShutdownForcedBug(c) ==
    /\ call[c].pc = "forcing"
    /\ call' = [call EXCEPT ![c] = EndedCall]
    /\ UNCHANGED <<config, servers, runtime, tools, struck, overlapped>>

\* The request fails with MCPShutdownTimeoutError, the shutdown only logs it.
ShutdownForced(c) ==
    /\ call[c].pc = "forcing" /\ \A i \in call[c].targets : Ended(i)
    /\ call' = [call EXCEPT ![c] = EndedCall]
    /\ UNCHANGED <<config, servers, runtime, tools, struck, overlapped>>

(***************************************************************************)
(* Boot and shutdown                                                       *)
(***************************************************************************)

\* init_mcp_clients starts every active server of the file at once.
BootStarts ==
    /\ call[Boot].pc = "idle"
    /\ LET due == SetToSeq({n \in Names : config[n].active})
       IN /\ servers' = [k \in DOMAIN due |-> New(due[k], config[due[k]].settings, Boot)]
          /\ runtime' = [n \in Names |->
                IF \E k \in DOMAIN due : due[k] = n
                THEN CHOOSE k \in DOMAIN due : due[k] = n ELSE NoServer]
    /\ call' = [call EXCEPT ![Boot].pc = "starting"]
    /\ UNCHANGED <<config, tools, struck, overlapped>>

StartsOver(c) == \A i \in Started(c) : servers[i].start \in {"ok", "failed"}

\* When all of them have started or failed, the names of those that failed are
\* removed, whoever uses them now. A cancelled boot does not get that far.
BootEnds ==
    /\ call[Boot].pc = "starting" /\ StartsOver(Boot)
    /\ LET failed == {i \in Started(Boot) : servers[i].start = "failed"}
           gone == {servers[i].name : i \in failed}
       IN /\ runtime' = [n \in Names |-> IF n \in gone THEN NoServer ELSE runtime[n]]
          /\ struck' = struck \cup ({runtime[n] : n \in gone} \ (failed \cup {NoServer}))
    /\ call' = [call EXCEPT ![Boot] = EndedCall]
    /\ UNCHANGED <<config, servers, tools, overlapped>>

\* The shutdown cancels the boot, and with it each start it still waits for ...
QuitBegins ==
    /\ call[Quit].pc = "idle" /\ call[Boot].pc # "idle"
    /\ LET waiting == {i \in Started(Boot) : servers[i].start = "waiting"}
           stopping == {i \in Started(Boot) : servers[i].start = "stopping"}
           left == [i \in Server |-> [servers[i] EXCEPT !.start =
                        IF i \in waiting THEN "stopping"
                        ELSE IF i \in stopping THEN "quitting" ELSE @]]
       IN servers' = IF Over(Boot) THEN servers ELSE Cancelled(left, waiting \cup stopping)
    /\ call' = [call EXCEPT ![Quit].pc = "cancelling",
                            ![Boot].pc = IF Over(Boot) THEN @ ELSE "cancelling"]
    /\ UNCHANGED <<config, runtime, tools, struck, overlapped>>

\* ... waits for it, and shuts down every server that is listed then.
QuitDisables ==
    /\ call[Quit].pc = "cancelling" /\ StartsOver(Boot)
    /\ LET listed == {runtime[n] : n \in Names} \ {NoServer}
           k == [call EXCEPT ![Boot].pc = "done"]
       IN IF \A i \in listed : Ended(i)
          THEN /\ call' = [k EXCEPT ![Quit] = EndedCall]
               /\ UNCHANGED servers
          ELSE /\ servers' = Signalled(listed)
               /\ call' = [k EXCEPT ![Quit].pc = "shutting", ![Quit].targets = listed]
    /\ UNCHANGED <<config, runtime, tools, struck, overlapped>>

(***************************************************************************)
(* Requests of the dashboard: ToolsService                                 *)
(***************************************************************************)

Request(c) ==
    /\ call[c].pc = "idle" /\ call[Boot].pc # "idle"
    /\ overlapped' = (overlapped \/ \E d \in Requests : call[d].pc \notin {"idle", "done"})

\* add_mcp_server reads the file and then tries the connection ...
Add(c, n) ==
    /\ Request(c)
    /\ ~Present(n)
    /\ call' = [call EXCEPT ![c] = [Fresh EXCEPT
                    !.adds = TRUE, !.pc = "testing", !.name = n, !.seen = config]]
    /\ UNCHANGED <<config, servers, runtime, tools, struck>>

\* What the entry that comes with request c may say, if `active` is what is done.
Stored(c, active) == IF c \in Contrary THEN BOOLEAN ELSE {active}

\* ... writes back what it has read, with the server added, and starts the server
\* even if the entry that came with the request is not active.
AddTested(c) ==
    /\ call[c].pc = "testing"
    /\ \E active \in Stored(c, TRUE) :
        config' = [call[c].seen EXCEPT ![call[c].name] = Entry(active, TRUE, c)]
    /\ Enable(c, call[c].name, c)
    /\ UNCHANGED <<tools, struck, overlapped>>

AddRefused(c) ==
    /\ call[c].pc = "testing"
    /\ call' = [call EXCEPT ![c] = EndedCall]
    /\ UNCHANGED <<config, servers, runtime, tools, struck, overlapped>>

\* What an update writes: new settings if full, with the entry's own active, which
\* differs from that of the request if the entry is pasted as mcpServers.
Written(c, old, active, full) ==
    {Entry(stored, active, IF full THEN c ELSE config[old].settings) :
        stored \in IF full THEN Stored(c, active) ELSE {active}}

\* An update that starts the server without shutting it down first.
UpdateBug(c, old, new, active, full) ==
    /\ Request(c)
    /\ Present(old) /\ (new = old \/ ~Present(new))
    /\ \E entry \in Written(c, old, active, full) :
        /\ config' = [config EXCEPT ![old] = Absent, ![new] = entry]
        /\ Shutdown(c, IF active THEN {} ELSE {runtime[old]} \ {NoServer},
                    IF active THEN new ELSE NoName, entry.settings)
    /\ UNCHANGED <<tools, struck>>

\* update_mcp_server, with a new name if new is another one. Whether the server is
\* started again depends on the request's active, not on the entry's.
Update(c, old, new, active, full) ==
    /\ Request(c)
    /\ Present(old) /\ (new = old \/ ~Present(new))
    /\ \E entry \in Written(c, old, active, full) :
        /\ config' = [config EXCEPT ![old] = Absent, ![new] = entry]
        /\ Shutdown(c, {runtime[old]} \ {NoServer}, IF active THEN new ELSE NoName,
                    entry.settings)
    /\ UNCHANGED <<tools, struck>>

Delete(c, n) ==
    /\ Request(c)
    /\ Present(n)
    /\ config' = [config EXCEPT ![n] = Absent]
    /\ Shutdown(c, {runtime[n]} \ {NoServer}, NoName, NoSettings)
    /\ UNCHANGED <<tools, struck>>

(***************************************************************************)
(* Specification                                                           *)
(***************************************************************************)

LifeStep(i) ==
    \/ ConnectEnds(i) \/ ConnectCancelled(i)
    \/ Terminate(i) \/ Terminated(i)

StartStep(i) ==
    \/ StartSucceeds(i) \/ StartFails(i)
    \/ StartTimesOut(i) \/ StartStopped(i) \/ StartAbandoned(i)

ShutdownStep(c) == ShutdownDone(c) \/ ShutdownTimesOut(c) \/ ShutdownForced(c)

Next ==
    \/ \E i \in Server : Connected(i) \/ ConnectFailed(i) \/ LifeStep(i) \/ StartStep(i)
    \/ \E c \in Calls : ShutdownStep(c)
    \/ BootStarts \/ BootEnds \/ QuitBegins \/ QuitDisables
    \/ \E c \in Requests :
        \/ \E n \in Names : Add(c, n) \/ Delete(c, n)
        \/ AddTested(c) \/ AddRefused(c)
        \/ \E old, new \in Names, active, full \in BOOLEAN : Update(c, old, new, active, full)

Spec == Init /\ [][Next]_vars

TaskStep ==
    \/ \E i \in Server : LifeStep(i) \/ StartStep(i)
    \/ \E c \in Calls : ShutdownStep(c)
    \/ BootEnds \/ QuitDisables

\* Tasks run when they can, a closing connection ends, and time passes; a
\* connection that is being made may take for ever. Every task takes finitely
\* many steps, so that it is enough that one of them runs.
Fairness == WF_vars(TaskStep)

FairSpec == Spec /\ Fairness

(***************************************************************************)
(* Properties                                                              *)
(***************************************************************************)

\* A server whose task is not over is in the runtime table, where disabling it
\* and the shutdown find it, and once its task is over its connection is closed:
\* whatever order starts, timeouts and shutdowns come in, only a clean-up for
\* another server of the same name can take the entry away.
LiveIsListed ==
    \A i \in Server \ struck :
        /\ ~Ended(i) => runtime[servers[i].name] = i
        /\ Ended(i) => ~servers[i].open

\* The tools in func_list belong to servers that are connected, and those of a
\* connected server that waits for its shutdown are all there: no tool is left
\* behind by a server that failed, timed out or was disabled, and none is lost
\* while no server of the name has been struck from the table.
ToolsAreServed ==
    /\ \A i \in tools : servers[i].open
    /\ \A i \in Server : Of(servers[i].name) \cap struck = {} =>
            (i \in tools <=> servers[i].life \in {"serving", "terminating"})

\* A request or a shutdown that had servers to shut down is over only when their
\* tasks are, even if it ran out of time and failed.
DisabledIsDown ==
    [][\A c \in Calls : ~Over(c) /\ Over(c)' => \A i \in call[c].targets : Ended(i)']_vars

AtRest == /\ \A c \in Calls \ {Quit} : call[c].pc \in {"idle", "done"}
          /\ call[Quit].pc = "idle" /\ ~overlapped

Runs(i) ==
    i \notin struck /\ servers[i].life = "serving" /\ ~servers[i].cancelled /\ ~servers[i].shutdown

\* When everything has come to rest, a server that is running is in the file with the
\* settings it runs with, and the last request about it wanted it to run, whichever
\* starts and shutdowns failed or timed out, unless requests of the dashboard
\* overlapped. What the file says of it being active may be another thing: see below.
RunsAsConfigured ==
    AtRest => \A i \in Server : Runs(i) =>
        LET entry == config[servers[i].name]
        IN entry.wanted /\ entry.settings = servers[i].settings

\* Once a call has begun to start or to shut down servers, it ends, even if a
\* connection is never made. (There are finitely many calls, so that all of them
\* end if in the end none is under way.)
EveryCallEnds ==
    <>[](\A c \in Calls :
            call[c].pc \notin {"starting", "shutting", "forcing", "cancelling"})

\* The rest is not guaranteed by the code.

\* A server that runs is active in the file, which decides at the next boot and is what
\* the dashboard shows (tools_service.py:69).
RunsOnlyIfActive ==
    AtRest => \A i \in Server : Runs(i) => config[servers[i].name].active

\* _start_mcp_server keeps a running server and ignores another start of it (its
\* docstring, func_tool_manager.py:654): no name has two servers that are connected.
OneServerPerName ==
    \A i, j \in Server :
        servers[i].name = servers[j].name /\ servers[i].life = "serving"
        /\ servers[j].life = "serving" => i = j
============================================================================
