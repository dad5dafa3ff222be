-------------------------- MODULE McpServersProofs --------------------------
(***************************************************************************)
(* Safety of McpServers for any number of names and requests. Inv says     *)
(* which server the table lists under a name, what a clean-up will close,  *)
(* and, while the dashboard's requests do not overlap, that a server which *)
(* nothing has told to end runs as the file says.                          *)
(***************************************************************************)
EXTENDS McpServers, FiniteSetTheorems, SequenceTheorems, TLAPS

\* A start that has not returned yet
Pending(i) == servers[i].start \notin {"ok", "failed"}

\* The server is ending, or its task has been told to end.
Doomed(i) ==
    \/ servers[i].shutdown \/ servers[i].cancelled
    \/ servers[i].life \notin {"connecting", "serving"}

\* What has failed is over; a clean-up closes the client of its own name, and that
\* of the server itself unless another one removed its entry.
ServerInv ==
    \A i \in Server :
        /\ servers[i].connected = "error" \/ servers[i].start = "failed" => Ended(i)
        /\ servers[i].life = "terminating" =>
            /\ servers[i].target \in Server
            /\ servers[servers[i].target].name = servers[i].name
            /\ i \notin struck => servers[i].target = i

RuntimeInv ==
    \A n \in Names : runtime[n] # NoServer =>
        runtime[n] \in Server /\ servers[runtime[n]].name = n

ToolsInv == \A i \in tools : servers[i].life \in {"serving", "terminating"} /\ servers[i].open

\* A call that will start a server knows its name and its settings.
Knows(k) ==
    /\ k.pc = "testing" => k.name # NoName
    /\ k.pc = "shutting" /\ k.next # NoName => k.settings # NoSettings

\* Nothing is started before the boot, and nobody is waited for by a call that is
\* not shutting down.
CallInv ==
    /\ call[Boot].pc = "idle" =>
        /\ servers = <<>> /\ \A c \in Calls : call[c].pc = "idle"
        /\ \A n \in Names : config[n].active => Present(n) /\ config[n].wanted
    /\ call[Boot].pc \in {"idle", "starting", "cancelling", "done"}
    /\ ~call[Boot].adds /\ ~call[Quit].adds /\ call[Quit].next = NoName
    /\ \A c \in Calls :
        Knows(call[c]) /\ (call[c].pc \notin {"shutting", "forcing"} => call[c].targets = {})

\* A request starts one server at most, and the shutdown none.
StartInv ==
    \A i \in Server :
        /\ servers[i].by # Quit
        /\ servers[i].by \in Requests /\ Pending(i) =>
            /\ call[servers[i].by].pc = "starting"
            /\ \A j \in Server : servers[j].by = servers[i].by /\ Pending(j) => j = i

Busy(c) == call[c].pc \notin {"idle", "done"}
Serves(entry, settings) == entry.wanted /\ entry.settings = settings

OneAtATime == \A c, d \in Requests : Busy(c) /\ Busy(d) => c = d

AsFiled ==
    \A i \in Server \ struck :
        ~Doomed(i) => Serves(config[servers[i].name], servers[i].settings)

StartOwns ==
    \A i \in Server :
        servers[i].by \in Requests /\ Pending(i) => runtime[servers[i].name] \in {i, NoServer}

\* What a request has read or written is still so when it comes back to it.
RequestsKnow ==
    \A c \in Requests :
        /\ call[c].pc = "testing" =>
            call[c].seen = config /\ ~Present(call[c].name)
        /\ call[c].pc = "shutting" /\ call[c].next # NoName =>
            call[c].next \in Names /\ Serves(config[call[c].next], call[c].settings)

ConfigInv ==
    ~overlapped /\ call[Quit].pc = "idle" => OneAtATime /\ AsFiled /\ StartOwns /\ RequestsKnow

Inv ==
    /\ TypeOK /\ ServerInv /\ RuntimeInv /\ LiveIsListed /\ ToolsInv /\ ToolsAreServed
    /\ CallInv /\ StartInv /\ ConfigInv

USE McpServersAssumption

----------------------------------------------------------------------------
(* The servers                                                             *)

Starts == {"waiting", "stopping", "quitting", "ok", "failed"}
Lives == {"connecting", "failing", "aborting", "serving", "terminating", "ended"}
Rec == [name : Names, settings : Calls, by : Calls, start : Starts, life : Lives,
        connected : {"no", "ok", "error"}, shutdown : BOOLEAN, cancelled : BOOLEAN,
        open : BOOLEAN, target : Nat]
Pcs == {"idle", "testing", "starting", "shutting", "forcing", "cancelling", "done"}
CallRec == [pc : Pcs, name : Names \cup {NoName}, next : Names \cup {NoName},
            settings : Calls \cup {NoSettings}, targets : SUBSET Server, adds : BOOLEAN,
            seen : Entries]

ServersOK ==
    /\ servers \in Seq(Rec)
    /\ \A i \in Server : servers[i].target \in Server \cup {NoServer}

TableOK ==
    /\ runtime \in [Names -> Server \cup {NoServer}]
    /\ tools \subseteq Server /\ struck \subseteq Server

FileOK == config \in Entries /\ overlapped \in BOOLEAN
CallsOK == call \in [Calls -> CallRec]

\* Servers are numbered from 1.
LEMMA ServerFact ==
    ASSUME servers \in Seq(Rec)
    PROVE  /\ Server = 1..Len(servers) /\ Len(servers) \in Nat /\ NoServer \notin Server
           /\ Len(servers) + 1 \in Nat /\ Len(servers) + 1 \notin Server
           /\ \A i \in Server : servers[i] \in Rec
BY DEF Server, NoServer

\* The type invariant by components, so that a step need show only what it touches.
LEMMA TypeParts == TypeOK <=> ServersOK /\ TableOK /\ FileOK /\ CallsOK
<1> DEFINE Typed == [
        name : Names, settings : Calls, by : Calls,
        start : {"waiting", "stopping", "quitting", "ok", "failed"},
        life : {"connecting", "failing", "aborting", "serving", "terminating", "ended"},
        connected : {"no", "ok", "error"},
        shutdown : BOOLEAN, cancelled : BOOLEAN, open : BOOLEAN,
        target : Server \cup {NoServer}]
<1>a. ASSUME NEW S, NEW T, servers \in Seq(S) PROVE
        /\ Server = 1..Len(servers) /\ Len(servers) \in Nat /\ \A i \in Server : servers[i] \in S
        /\ (\A i \in 1..Len(servers) : servers[i] \in T) => servers \in Seq(T)
  BY <1>a DEF Server
<1>1. ASSUME servers \in Seq(Typed) PROVE ServersOK
  <2>1. Server = 1..Len(servers) /\ Len(servers) \in Nat /\ \A i \in Server : servers[i] \in Typed
    BY <1>a, <1>1
  <2>2. \A i \in 1..Len(servers) : servers[i] \in Rec /\ servers[i].target \in Server \cup {NoServer}
    BY <2>1 DEF Rec, Starts, Lives, NoServer
  <2>3. servers \in Seq(Rec)
    BY <1>a, <1>1, <2>2
  <2> QED BY <2>1, <2>2, <2>3 DEF ServersOK
<1>2. ASSUME ServersOK PROVE servers \in Seq(Typed)
  <2>1. Server = 1..Len(servers) /\ \A i \in Server : servers[i] \in Rec
    BY <1>2, ServerFact DEF ServersOK
  <2>2. \A i \in 1..Len(servers) : servers[i] \in Typed
    BY <1>2, <2>1 DEF ServersOK, Rec, Starts, Lives
  <2> HIDE DEF Typed
  <2> QED BY <1>a, <1>2, <2>2 DEF ServersOK
<1>3. TypeOK <=> servers \in Seq(Typed) /\ TableOK /\ FileOK /\ CallsOK
  BY DEF TypeOK, TableOK, FileOK, CallsOK, CallRec, Pcs
<1> QED BY <1>1, <1>2, <1>3

\* One server is replaced.
LEMMA ReplaceFact ==
    ASSUME ServersOK, NEW i \in Server, NEW s \in Rec, s.target \in Server \cup {NoServer},
           servers' = [servers EXCEPT ![i] = s]
    PROVE  /\ ServersOK' /\ Server' = Server /\ servers'[i] = s
           /\ \A j \in Server : j # i => servers'[j] = servers[j]
<1>1. servers \in Seq(Rec) /\ Server = DOMAIN servers
  BY DEF ServersOK, Server
<1>2. servers' \in Seq(Rec) /\ Server' = Server
  BY <1>1 DEF Server
<1>3. servers'[i] = s /\ \A j \in Server : j # i => servers'[j] = servers[j]
  BY <1>1
<1> QED BY <1>2, <1>3 DEF ServersOK

\* A server is added.
LEMMA AppendFact ==
    ASSUME ServersOK, NEW s \in Rec, s.target = NoServer, servers' = Append(servers, s)
    PROVE  /\ ServersOK' /\ Server' = Server \cup {Len(servers) + 1}
           /\ servers'[Len(servers) + 1] = s
           /\ \A j \in Server : servers'[j] = servers[j]
<1>1. servers \in Seq(Rec) /\ Server = 1..Len(servers) /\ Len(servers) \in Nat
  BY ServerFact DEF ServersOK
<1>2. /\ servers' \in Seq(Rec) /\ Len(servers') = Len(servers) + 1
      /\ servers'[Len(servers) + 1] = s /\ \A j \in Server : servers'[j] = servers[j]
  BY <1>1
<1>3. Server' = Server \cup {Len(servers) + 1}
  <2>1. Server' = 1..Len(servers) + 1
    BY <1>2 DEF Server
  <2> QED BY <1>1, <2>1
<1>4. \A j \in Server' : servers'[j].target \in Server' \cup {NoServer}
  BY <1>2, <1>3 DEF ServersOK
<1> QED BY <1>2, <1>3, <1>4 DEF ServersOK

\* All are marked in some way.
LEMMA MarksFact ==
    ASSUME ServersOK, NEW f,
           \A i \in Server : f[i] \in Rec /\ f[i].target \in Server \cup {NoServer},
           servers' = [i \in Server |-> f[i]]
    PROVE  ServersOK' /\ Server' = Server /\ \A i \in Server : servers'[i] = f[i]
<1>1. Server = 1..Len(servers) /\ Len(servers) \in Nat
  BY ServerFact DEF ServersOK
<1>2. servers' \in Seq(Rec) /\ Len(servers') = Len(servers)
  BY <1>1
<1>3. Server' = Server
  BY <1>1, <1>2 DEF Server
<1> QED BY <1>2, <1>3 DEF ServersOK

----------------------------------------------------------------------------
(* The table of the servers                                                *)

TableInv == ServerInv /\ RuntimeInv /\ LiveIsListed /\ ToolsInv /\ ToolsAreServed

WithTools == {"serving", "terminating"}

\* No server ends, is connected or closed, or gets to its clean-up.
Quiet ==
    /\ Server' = Server
    /\ \A i \in Server :
        /\ servers'[i].name = servers[i].name /\ servers'[i].open = servers[i].open
        /\ servers'[i].life = "ended" <=> servers[i].life = "ended"
        /\ servers'[i].life \in WithTools <=> servers[i].life \in WithTools
        /\ servers'[i].life = "terminating" =>
             servers[i].life = "terminating" /\ servers'[i].target = servers[i].target
        /\ servers'[i].connected = "error" \/ servers'[i].start = "failed" =>
             servers[i].life = "ended"

\* Entries are removed: of servers that have ended, or else the server is struck.
Removes ==
    /\ struck \subseteq struck'
    /\ \A n \in Names : runtime'[n] # runtime[n] =>
        /\ runtime'[n] = NoServer
        /\ runtime[n] \in Server => runtime[n] \in struck' \/ servers[runtime[n]].life = "ended"

\* While no server connects or ends, entries of those that are over may be removed.
LEMMA QuietTable ==
    ASSUME ServersOK, TableOK, TableInv, Quiet, Removes, TableOK', tools' = tools
    PROVE  TableInv'
<1> USE DEF Quiet, WithTools
<1>a. /\ ServerInv /\ RuntimeInv /\ LiveIsListed /\ ToolsInv /\ ToolsAreServed
      /\ NoServer \notin Server /\ \A i \in Server : servers[i].name \in Names
  BY ServerFact DEF TableInv, ServersOK, Rec
<1>1. ServerInv'
  BY <1>a DEF ServerInv, Ended, Removes
<1>2. RuntimeInv'
  BY <1>a DEF RuntimeInv, Removes, TableOK
<1>3. LiveIsListed'
  BY <1>a DEF LiveIsListed, Ended, Removes
<1>4. ToolsInv'
  BY <1>a DEF ToolsInv, TableOK
<1>5. ToolsAreServed'
  <2>1. ASSUME NEW n PROVE Of(n)' = Of(n)
    BY DEF Of
  <2>2. ASSUME NEW i \in Server, Of(servers[i].name)' \cap struck' = {}
        PROVE  Of(servers[i].name) \cap struck = {}
    BY <2>1, <2>2 DEF Removes
  <2> QED BY <1>a, <1>4, <2>2 DEF ToolsAreServed, ToolsInv, Of
<1> QED BY <1>1, <1>2, <1>3, <1>4, <1>5 DEF TableInv

\* What no step takes back
Keeps ==
    /\ Server \subseteq Server' /\ struck \subseteq struck'
    /\ \A i \in Server :
        /\ servers'[i].name = servers[i].name /\ servers'[i].settings = servers[i].settings
        /\ servers'[i].by = servers[i].by
        /\ servers[i].start \in {"ok", "failed"} => servers'[i].start \in {"ok", "failed"}
        /\ servers[i].life = "ended" => servers'[i].life = "ended"
        /\ \/ servers[i].shutdown \/ servers[i].cancelled
           \/ servers[i].life \notin {"connecting", "serving"}
           => \/ servers'[i].shutdown \/ servers'[i].cancelled
              \/ servers'[i].life \notin {"connecting", "serving"}

Life(i) == Connected(i) \/ ConnectFailed(i) \/ LifeStep(i)

\* A server connects and its tools are offered.
LEMMA ConnectedTable ==
    ASSUME ServersOK, TableOK, TableInv, NEW i \in Server, Connected(i)
    PROVE  ServersOK' /\ TableOK' /\ TableInv' /\ Keeps /\ Server' = Server
<1> DEFINE s == [servers[i] EXCEPT !.life = "serving", !.connected = "ok"]
<1>a. /\ ServerInv /\ RuntimeInv /\ LiveIsListed /\ ToolsInv /\ ToolsAreServed
      /\ NoServer \notin Server /\ \A j \in Server : servers[j] \in Rec
  BY ServerFact DEF TableInv, ServersOK
<1>b. /\ servers[i].life = "connecting" /\ servers[i].open /\ ~servers[i].cancelled
      /\ tools' = (tools \ Of(servers[i].name)) \cup {i}
      /\ UNCHANGED <<runtime, struck>>
  BY DEF Connected
<1>c. /\ s \in Rec /\ s.target = servers[i].target /\ s.name = servers[i].name
      /\ s.settings = servers[i].settings /\ s.by = servers[i].by /\ s.start = servers[i].start
      /\ s.life = "serving" /\ s.connected = "ok" /\ s.open = servers[i].open
      /\ s.shutdown = servers[i].shutdown /\ s.cancelled = servers[i].cancelled
  BY <1>a DEF Rec, Lives
<1>d. servers' = [servers EXCEPT ![i] = s]
  <2>1. servers' = [servers EXCEPT ![i].life = "serving", ![i].connected = "ok"]
    BY DEF Connected
  <2> QED BY <1>a, <2>1 DEF Server, Rec
<1> HIDE DEF s
<1>e. /\ ServersOK' /\ Server' = Server /\ servers'[i] = s
      /\ \A j \in Server : j # i => servers'[j] = servers[j]
  BY <1>c, <1>d, ReplaceFact DEF ServersOK
<1>1. TableOK'
  BY <1>b, <1>e DEF TableOK
<1>2. Keeps
  BY <1>b, <1>c, <1>e DEF Keeps
<1>n. \A j \in Server : servers'[j].name = servers[j].name
  BY <1>c, <1>e
<1>f. \A j \in Server :
        /\ servers'[j].life = IF j = i THEN "serving" ELSE servers[j].life
        /\ servers'[j].life = "ended" <=> servers[j].life = "ended"
        /\ servers'[j].connected = IF j = i THEN "ok" ELSE servers[j].connected
        /\ servers'[j].open = servers[j].open /\ servers'[j].target = servers[j].target
        /\ servers'[j].start = servers[j].start
  BY <1>b, <1>c, <1>e
<1>g. servers'[i].open
  BY <1>b, <1>f
<1>3. ServerInv' /\ RuntimeInv'
  <2>1. ServerInv'
    BY <1>a, <1>b, <1>e, <1>f, <1>n DEF ServerInv, Ended
  <2>2. RuntimeInv'
    BY <1>a, <1>b, <1>e, <1>n DEF RuntimeInv
  <2> QED BY <2>1, <2>2
<1>4. LiveIsListed'
  BY <1>a, <1>b, <1>e, <1>f, <1>n DEF LiveIsListed, Ended
<1>5. ToolsInv'
  BY <1>a, <1>b, <1>e, <1>f, <1>g DEF ToolsInv, TableOK
<1>6. ToolsAreServed'
  <2>1. \A n : Of(n)' = Of(n)
    BY <1>e, <1>n DEF Of
  <2>2. ASSUME NEW j \in Server, Of(servers[j].name)' \cap struck' = {}
        PROVE  j \in tools' <=> servers'[j].life \in {"serving", "terminating"}
    <3>1. Of(servers[j].name) \cap struck = {} /\ j \in Of(servers[j].name)
      BY <1>b, <1>e, <1>n, <2>1, <2>2 DEF Of
    <3>2. j \in tools <=> servers[j].life \in {"serving", "terminating"}
      BY <1>a, <3>1 DEF ToolsAreServed
    <3>3. CASE servers[j].name = servers[i].name /\ j # i
      <4>1. i \notin struck /\ j \notin struck
        BY <3>1, <3>3 DEF Of
      <4>2. ~(servers[j].life \in {"serving", "terminating"})
        BY <1>a, <1>b, <3>3, <4>1 DEF LiveIsListed, Ended
      <4> QED BY <1>b, <1>e, <3>3, <4>2 DEF Of
    <3>4. CASE j = i
      BY <1>b, <1>c, <1>e, <3>4
    <3>5. CASE servers[j].name # servers[i].name
      BY <1>b, <1>e, <3>2, <3>5 DEF Of
    <3> QED BY <3>3, <3>4, <3>5
  <2> QED BY <1>5, <1>e, <1>n, <2>2 DEF ToolsAreServed, ToolsInv
<1> QED BY <1>1, <1>2, <1>3, <1>4, <1>5, <1>6, <1>e DEF TableInv

\* A connection that has failed or was cancelled is closed, and the task ends.
LEMMA ConnectEndsTable ==
    ASSUME ServersOK, TableOK, TableInv, NEW i \in Server, ConnectEnds(i)
    PROVE  ServersOK' /\ TableOK' /\ TableInv' /\ Keeps /\ Server' = Server
<1> DEFINE s == [Gone(servers[i]) EXCEPT !.open = FALSE,
                    !.connected = IF servers[i].life = "failing" /\ ~servers[i].cancelled
                                  THEN "error" ELSE servers[i].connected]
<1>a. /\ ServerInv /\ RuntimeInv /\ LiveIsListed /\ ToolsInv /\ ToolsAreServed
      /\ NoServer \notin Server /\ \A j \in Server : servers[j] \in Rec
  BY ServerFact DEF TableInv, ServersOK
<1>b. /\ servers[i].life \in {"failing", "aborting"} /\ servers' = [servers EXCEPT ![i] = s]
      /\ UNCHANGED <<runtime, tools, struck>>
  BY DEF ConnectEnds
<1>c. /\ s \in Rec /\ s.target = NoServer /\ s.name = servers[i].name
      /\ s.settings = servers[i].settings /\ s.by = servers[i].by /\ s.start = servers[i].start
      /\ s.life = "ended" /\ ~s.open
  <2>1. servers[i] \in Rec
    BY <1>a
  <2> QED BY <2>1 DEF Rec, Lives, Gone, NoServer
<1> HIDE DEF s
<1>e. /\ ServersOK' /\ Server' = Server /\ servers'[i] = s
      /\ \A j \in Server : j # i => servers'[j] = servers[j]
  BY <1>b, <1>c, ReplaceFact
<1>n. \A j \in Server : servers'[j].name = servers[j].name
  BY <1>c, <1>e
<1>1. TableOK'
  BY <1>b, <1>e DEF TableOK
<1>2. Keeps
  BY <1>b, <1>c, <1>e DEF Keeps
<1>3. ServerInv' /\ RuntimeInv'
  BY <1>a, <1>b, <1>c, <1>e, <1>n DEF ServerInv, RuntimeInv, Ended
<1>4. LiveIsListed'
  BY <1>a, <1>b, <1>c, <1>e, <1>n DEF LiveIsListed, Ended
<1>5. ToolsInv'
  BY <1>a, <1>b, <1>c, <1>e DEF ToolsInv
<1>6. ToolsAreServed'
  <2>1. \A n : Of(n)' = Of(n)
    BY <1>e, <1>n DEF Of
  <2>2. i \notin tools
    BY <1>a, <1>b DEF ToolsInv
  <2>3. \A j \in Server : servers'[j].life \in WithTools <=> servers[j].life \in WithTools
    BY <1>b, <1>c, <1>e DEF WithTools
  <2> QED BY <1>a, <1>b, <1>e, <1>n, <1>5, <2>1, <2>3 DEF ToolsAreServed, ToolsInv, WithTools
<1> QED BY <1>1, <1>2, <1>3, <1>4, <1>5, <1>6, <1>e DEF TableInv

\* The clean-up of a task begins, or finds no entry of its name.
LEMMA TerminateTable ==
    ASSUME ServersOK, TableOK, TableInv, NEW i \in Server, Terminate(i)
    PROVE  ServersOK' /\ TableOK' /\ TableInv' /\ Keeps /\ Server' = Server
<1> DEFINE n == servers[i].name
           s == [servers[i] EXCEPT !.life = "terminating", !.target = runtime[n],
                                   !.cancelled = FALSE]
           g == Gone(servers[i])
<1>a. /\ ServerInv /\ RuntimeInv /\ LiveIsListed /\ ToolsInv /\ ToolsAreServed
      /\ NoServer \notin Server /\ \A j \in Server : servers[j] \in Rec
  BY ServerFact DEF TableInv, ServersOK
<1>b. /\ servers[i].life \in {"serving", "terminating"}
      /\ UNCHANGED <<runtime, struck>> /\ n \in Names
      /\ runtime[n] \in Server \cup {NoServer}
  BY <1>a DEF Terminate, TableOK, Rec
<1>n. n = servers[i].name
  OBVIOUS
<1>1. CASE runtime[n] # NoServer
  <2>b. servers' = [servers EXCEPT ![i] = s] /\ tools' = tools
    <3>1. servers' = [servers EXCEPT ![i].life = "terminating", ![i].target = runtime[n],
                                     ![i].cancelled = FALSE]
      BY <1>1 DEF Terminate
    <3> QED BY <1>1, <1>a, <3>1 DEF Terminate, Server, Rec
  <2>c. /\ s \in Rec /\ s.target = runtime[n] /\ s.name = servers[i].name
        /\ s.settings = servers[i].settings /\ s.by = servers[i].by
        /\ s.start = servers[i].start /\ s.connected = servers[i].connected
        /\ s.life = "terminating" /\ s.open = servers[i].open
    <3>1. servers[i] \in Rec /\ runtime[n] \in Nat
      BY <1>1, <1>a, <1>b DEF Server, ServersOK, NoServer
    <3> QED BY <3>1 DEF Rec, Lives
  <2> HIDE DEF s, n
  <2>e. /\ ServersOK' /\ Server' = Server /\ servers'[i] = s
        /\ \A j \in Server : j # i => servers'[j] = servers[j]
    BY <1>b, <2>b, <2>c, ReplaceFact
  <2>f. \A j \in Server :
          /\ servers'[j].life = IF j = i THEN "terminating" ELSE servers[j].life
          /\ servers'[j].life = "ended" <=> servers[j].life = "ended"
          /\ servers'[j].life \in WithTools <=> servers[j].life \in WithTools
          /\ servers'[j].connected = servers[j].connected
          /\ servers'[j].open = servers[j].open
          /\ servers'[j].target = IF j = i THEN runtime[n] ELSE servers[j].target
          /\ servers'[j].start = servers[j].start
    BY <1>b, <2>c, <2>e DEF WithTools
  <2>g. \A j \in Server : servers'[j].name = servers[j].name
    BY <2>c, <2>e
  <2>1. TableOK'
    BY <1>b, <2>b, <2>e DEF TableOK
  <2>2. Keeps
    BY <1>b, <2>c, <2>e DEF Keeps
  <2>t. /\ runtime[n] \in Server /\ servers[runtime[n]].name = n
        /\ i \notin struck => runtime[n] = i
    BY <1>1, <1>a, <1>b, <1>n DEF RuntimeInv, LiveIsListed, Ended
  <2>3. ServerInv'
    BY <1>a, <1>b, <1>n, <2>e, <2>f, <2>g, <2>t DEF ServerInv, Ended
  <2>4. RuntimeInv' /\ LiveIsListed'
    BY <1>a, <1>b, <2>e, <2>f, <2>g DEF RuntimeInv, LiveIsListed, Ended
  <2>5. ToolsInv'
    BY <1>a, <2>b, <2>f DEF ToolsInv, TableOK, WithTools
  <2>6. ToolsAreServed'
    <3>1. \A m : Of(m)' = Of(m)
      BY <2>e, <2>g DEF Of
    <3> QED BY <1>a, <1>b, <2>5, <2>b, <2>e, <2>f, <2>g, <3>1 DEF ToolsAreServed, ToolsInv, WithTools
  <2> QED BY <2>e, <2>1, <2>2, <2>3, <2>4, <2>5, <2>6 DEF TableInv
<1>2. CASE runtime[n] = NoServer
  <2>b. servers' = [servers EXCEPT ![i] = g] /\ tools' = tools \ Of(n)
    BY <1>2 DEF Terminate
  <2>c. /\ g \in Rec /\ g.target = NoServer /\ g.name = servers[i].name
        /\ g.settings = servers[i].settings /\ g.by = servers[i].by
        /\ g.start = servers[i].start /\ g.life = "ended"
    <3>1. servers[i] \in Rec
      BY <1>a
    <3> QED BY <3>1 DEF Rec, Lives, Gone, NoServer
  <2> HIDE DEF g, n
  <2>e. /\ ServersOK' /\ Server' = Server /\ servers'[i] = g
        /\ \A j \in Server : j # i => servers'[j] = servers[j]
    BY <1>b, <2>b, <2>c, ReplaceFact
  <2>g. \A j \in Server : servers'[j].name = servers[j].name
    BY <2>c, <2>e
  <2>s. i \in struck
    BY <1>2, <1>a, <1>b, <1>n DEF LiveIsListed, Ended
  <2>o. \A m : Of(m)' = Of(m)
    BY <2>e, <2>g DEF Of
  <2>t. TableOK'
    BY <1>b, <2>b, <2>e DEF TableOK
  <2>2. Keeps
    BY <1>b, <2>c, <2>e DEF Keeps
  <2>3. ServerInv'
    BY <1>a, <1>b, <2>c, <2>e, <2>g DEF ServerInv, Ended
  <2>4. RuntimeInv'
    BY <1>a, <1>b, <2>e, <2>g DEF RuntimeInv
  <2>5. LiveIsListed'
    BY <1>a, <1>b, <2>e, <2>s DEF LiveIsListed, Ended
  <2>6. ToolsInv'
    BY <1>a, <1>n, <2>b, <2>e DEF ToolsInv, TableOK, Of
  <2>7. ToolsAreServed'
    <3>1. ASSUME NEW j \in Server, Of(servers[j].name)' \cap struck' = {}
          PROVE  j \in tools' <=> servers'[j].life \in {"serving", "terminating"}
      <4>1. Of(servers[j].name) \cap struck = {} /\ j \in Of(servers[j].name)
        BY <1>b, <2>e, <2>g, <2>o, <3>1 DEF Of
      <4>2. servers[j].name # n
        BY <1>n, <2>s, <4>1 DEF Of
      <4>3. j \in tools <=> servers[j].life \in {"serving", "terminating"}
        BY <1>a, <4>1 DEF ToolsAreServed
      <4> QED BY <1>n, <2>b, <2>e, <4>2, <4>3 DEF Of
    <3> QED BY <2>6, <2>e, <2>g, <3>1 DEF ToolsAreServed, ToolsInv
  <2> QED BY <2>e, <2>t, <2>2, <2>3, <2>4, <2>5, <2>6, <2>7 DEF TableInv
<1> QED BY <1>1, <1>2

\* The client, the tools and the entry of a server's name are removed.
LEMMA TerminatedTable ==
    ASSUME ServersOK, TableOK, TableInv, NEW i \in Server, Terminated(i)
    PROVE  ServersOK' /\ TableOK' /\ TableInv' /\ Keeps /\ Server' = Server
<1> DEFINE n == servers[i].name
           t == servers[i].target
           g == Gone(servers[i])
           Shut(r) == [r EXCEPT !.open = FALSE]
           f == [j \in Server |-> IF j = i THEN (IF t = i THEN Shut(g) ELSE g)
                                  ELSE IF j = t THEN Shut(servers[j]) ELSE servers[j]]
<1>a. /\ ServerInv /\ RuntimeInv /\ LiveIsListed /\ ToolsInv /\ ToolsAreServed
      /\ NoServer \notin Server /\ \A j \in Server : servers[j] \in Rec
  BY ServerFact DEF TableInv, ServersOK
<1>b. /\ servers[i].life = "terminating" /\ tools' = tools \ Of(n)
      /\ runtime' = [runtime EXCEPT ![n] = NoServer]
      /\ struck' = struck \cup ({runtime[n]} \ {NoServer, i})
  BY DEF Terminated, Forget
<1>t. /\ t \in Server /\ servers[t].name = n /\ n \in Names
      /\ i \notin struck => t = i
      /\ runtime[n] \in Server \cup {NoServer}
  BY <1>a, <1>b DEF ServerInv, Rec, TableOK
<1>r. ASSUME NEW r \in Rec
      PROVE  /\ Gone(r) \in Rec /\ Gone(r).target = NoServer /\ Gone(r).name = r.name
             /\ Gone(r).settings = r.settings /\ Gone(r).by = r.by /\ Gone(r).start = r.start
             /\ Gone(r).life = "ended"
             /\ Shut(r) \in Rec /\ Shut(r).target = r.target /\ Shut(r).name = r.name
             /\ Shut(r).settings = r.settings /\ Shut(r).by = r.by /\ Shut(r).start = r.start
             /\ Shut(r).life = r.life /\ ~Shut(r).open /\ Shut(r).shutdown = r.shutdown
             /\ Shut(r).cancelled = r.cancelled /\ Shut(r).connected = r.connected
  BY <1>r DEF Rec, Lives, Gone, NoServer
<1>d. servers' = [j \in Server |-> f[j]]
  <2>1. servers' = [servers EXCEPT ![i] = g, ![t].open = FALSE]
    BY DEF Terminated
  <2> HIDE DEF t
  <2>2. servers' = [j \in Server |-> IF j = t
                        THEN [(IF j = i THEN g ELSE servers[j]) EXCEPT !.open = FALSE]
                        ELSE IF j = i THEN g ELSE servers[j]]
    BY <1>t, <2>1 DEF Server
  <2> QED BY <2>2
<1>f. \A j \in Server :
        /\ f[j] \in Rec /\ f[j].target \in {servers[j].target, NoServer}
        /\ f[j].name = servers[j].name /\ f[j].settings = servers[j].settings
        /\ f[j].by = servers[j].by /\ f[j].start = servers[j].start
        /\ j # i => /\ f[j].life = servers[j].life /\ f[j].shutdown = servers[j].shutdown
                    /\ f[j].cancelled = servers[j].cancelled
                    /\ f[j].connected = servers[j].connected
                    /\ f[j].target = servers[j].target
                    /\ j = t => ~f[j].open
                    /\ j # t => f[j].open = servers[j].open
        /\ j = i => f[j].life = "ended" /\ (t = i => ~f[j].open)
  <2> HIDE DEF g, Shut
  <2>1. g \in Rec /\ g.target = NoServer /\ g.name = servers[i].name
      /\ g.settings = servers[i].settings /\ g.by = servers[i].by /\ g.start = servers[i].start
      /\ g.life = "ended"
    BY <1>a, <1>r DEF g
  <2>2. Shut(g) \in Rec /\ Shut(g).target = NoServer /\ Shut(g).name = servers[i].name
      /\ Shut(g).settings = servers[i].settings /\ Shut(g).by = servers[i].by
      /\ Shut(g).start = servers[i].start /\ Shut(g).life = "ended" /\ ~Shut(g).open
    BY <1>r, <2>1
  <2> HIDE DEF t
  <2>3. TAKE j \in Server
  <2>4. CASE j = i
    BY <2>1, <2>2, <2>4
  <2>r. servers[j] \in Rec
    BY <1>a
  <2>5. CASE j # i /\ j = t
    <3>1. f[j] = Shut(servers[j])
      BY <2>5
    <3>2. /\ Shut(servers[j]) \in Rec /\ Shut(servers[j]).target = servers[j].target
          /\ Shut(servers[j]).name = servers[j].name
          /\ Shut(servers[j]).settings = servers[j].settings
          /\ Shut(servers[j]).by = servers[j].by /\ Shut(servers[j]).start = servers[j].start
          /\ Shut(servers[j]).life = servers[j].life /\ ~Shut(servers[j]).open
          /\ Shut(servers[j]).shutdown = servers[j].shutdown
          /\ Shut(servers[j]).cancelled = servers[j].cancelled
          /\ Shut(servers[j]).connected = servers[j].connected
      BY <1>r, <2>r
    <3> HIDE DEF f
    <3> QED BY <2>5, <3>1, <3>2
  <2>6. CASE j # i /\ j # t
    <3>1. f[j] = servers[j]
      BY <2>6
    <3> HIDE DEF f
    <3> QED BY <2>r, <2>6, <3>1
  <2> QED BY <2>4, <2>5, <2>6
<1>m. /\ struck \subseteq struck' /\ \A j \in Server : servers[j].name \in Names
      /\ \A m \in Names : runtime'[m] = IF m = n THEN NoServer ELSE runtime[m]
  BY <1>a, <1>b DEF TableOK, Rec
<1> HIDE DEF f, Shut, g
<1>e. ServersOK' /\ Server' = Server /\ \A j \in Server : servers'[j] = f[j]
  <2>1. \A j \in Server : f[j] \in Rec /\ f[j].target \in Server \cup {NoServer}
    BY <1>f DEF ServersOK
  <2> QED BY <1>d, <2>1, MarksFact
<1>n. n = servers[i].name
  OBVIOUS
<1>1. TableOK'
  BY <1>b, <1>e, <1>t DEF TableOK
<1>2. Keeps
  <2>1. Server \subseteq Server' /\ struck \subseteq struck'
    BY <1>e, <1>m
  <2>2. ASSUME NEW j \in Server
        PROVE
        /\ servers'[j].name = servers[j].name /\ servers'[j].settings = servers[j].settings
        /\ servers'[j].by = servers[j].by /\ servers'[j].start = servers[j].start
        /\ j = i => servers'[j].life = "ended"
        /\ j # i => /\ servers'[j].life = servers[j].life
                    /\ servers'[j].shutdown = servers[j].shutdown
                    /\ servers'[j].cancelled = servers[j].cancelled
    BY <1>e, <1>f
  <2> QED BY <2>1, <2>2 DEF Keeps
<1>g. \A j \in Server : servers'[j].name = servers[j].name
  BY <1>e, <1>f
<1>o. \A m : Of(m)' = Of(m)
  BY <1>e, <1>g DEF Of
<1>k. \A j \in Server : j # i =>
        /\ servers'[j].life = servers[j].life /\ servers'[j].target = servers[j].target
        /\ servers'[j].connected = servers[j].connected /\ servers'[j].start = servers[j].start
        /\ j = t => ~servers'[j].open
        /\ j # t => servers'[j].open = servers[j].open
  <2>1. ASSUME NEW j \in Server, j # i
        PROVE  /\ servers'[j].life = f[j].life /\ servers'[j].target = f[j].target
               /\ servers'[j].connected = f[j].connected /\ servers'[j].start = f[j].start
               /\ servers'[j].open = f[j].open
    BY <1>e, <2>1
  <2> HIDE DEF t
  <2> QED BY <1>f, <2>1
<1>l. servers'[i].life = "ended" /\ (i \notin struck => ~servers'[i].open)
  <2>1. servers'[i] = f[i]
    BY <1>e
  <2>2. f[i].life = "ended" /\ (t = i => ~f[i].open)
    BY <1>f
  <2> HIDE DEF t
  <2> QED BY <2>1, <2>2, <1>t
<1> HIDE DEF n, t
<1>3. ServerInv'
  <2>1. ASSUME NEW j \in Server
        PROVE  servers'[j].connected = "error" \/ servers'[j].start = "failed"
               => servers'[j].life = "ended"
    BY <1>a, <1>k, <1>l DEF ServerInv, Ended
  <2>2. ASSUME NEW j \in Server, servers'[j].life = "terminating"
        PROVE  /\ servers'[j].target \in Server
               /\ servers'[servers'[j].target].name = servers'[j].name
               /\ j \notin struck' => servers'[j].target = j
    <3>1. j # i /\ servers[j].life = "terminating" /\ servers'[j].target = servers[j].target
      BY <1>k, <1>l, <2>2
    <3>2. /\ servers[j].target \in Server /\ servers[servers[j].target].name = servers[j].name
          /\ j \notin struck => servers[j].target = j
      BY <1>a, <3>1 DEF ServerInv
    <3> QED BY <1>g, <1>m, <3>1, <3>2
  <2> QED BY <1>e, <2>1, <2>2 DEF ServerInv, Ended
<1>4. RuntimeInv'
  BY <1>a, <1>b, <1>e, <1>g, <1>t DEF RuntimeInv, TableOK
<1>5. LiveIsListed'
  <2>1. ASSUME NEW j \in Server \ struck', j # i, servers'[j].life # "ended"
        PROVE  runtime'[servers'[j].name] = j
    <3>1. j \notin struck /\ runtime[servers[j].name] = j
      BY <1>a, <1>b, <1>k, <2>1 DEF LiveIsListed, Ended
    <3>2. servers[j].name # n
      BY <1>a, <1>b, <2>1, <3>1
    <3> QED BY <1>b, <1>g, <3>1, <3>2 DEF TableOK
  <2>2. ASSUME NEW j \in Server \ struck', j # i, servers'[j].life = "ended"
        PROVE  ~servers'[j].open
    BY <1>a, <1>b, <1>k, <2>2 DEF LiveIsListed, Ended
  <2>3. struck \subseteq struck'
    BY <1>b
  <2> QED BY <1>e, <1>l, <2>1, <2>2, <2>3 DEF LiveIsListed, Ended
<1>6. ToolsInv'
  <2>1. ASSUME NEW j \in tools' PROVE j \in tools /\ j # i /\ j # t /\ j \in Server
    <3>1. tools \subseteq Server
      BY DEF TableOK
    <3> QED BY <1>b, <1>n, <1>t, <2>1, <3>1 DEF Of
  <2> QED BY <1>a, <1>k, <2>1 DEF ToolsInv
<1>7. ToolsAreServed'
  <2>1. ASSUME NEW j \in Server, Of(servers[j].name)' \cap struck' = {}
        PROVE  j \in tools' <=> servers'[j].life \in {"serving", "terminating"}
    <3>1. Of(servers[j].name) \cap struck = {} /\ j \in Of(servers[j].name)
      BY <1>b, <1>e, <1>g, <1>o, <2>1 DEF Of
    <3>2. j \in tools <=> servers[j].life \in {"serving", "terminating"}
      BY <1>a, <3>1 DEF ToolsAreServed
    <3>3. CASE j = i
      BY <1>b, <1>l, <1>n, <3>3 DEF Of
    <3>4. CASE j # i /\ servers[j].name = n
      <4>1. i \notin struck /\ j \notin struck
        BY <1>n, <3>1, <3>4 DEF Of
      <4>2. runtime[n] = i /\ (servers[j].life # "ended" => runtime[n] = j)
        BY <1>a, <1>b, <1>n, <3>4, <4>1 DEF LiveIsListed, Ended
      <4> QED BY <1>b, <1>k, <3>4, <4>2 DEF Of
    <3>5. CASE servers[j].name # n
      BY <1>b, <1>k, <1>n, <3>2, <3>5 DEF Of
    <3> QED BY <3>3, <3>4, <3>5
  <2> QED BY <1>6, <1>e, <1>g, <2>1 DEF ToolsAreServed, ToolsInv
<1> QED BY <1>1, <1>2, <1>3, <1>4, <1>5, <1>6, <1>7, <1>e DEF TableInv

\* A connection fails, or is cancelled.
LEMMA ConnectingTable ==
    ASSUME ServersOK, TableOK, TableInv, NEW i \in Server,
           ConnectFailed(i) \/ ConnectCancelled(i)
    PROVE  ServersOK' /\ TableOK' /\ TableInv' /\ Keeps /\ Server' = Server
<1> DEFINE p == [servers[i] EXCEPT !.life = "failing"]
           q == [servers[i] EXCEPT !.life = "aborting", !.cancelled = FALSE]
<1>a. /\ \A j \in Server : servers[j] \in Rec /\ servers[j].target \in Server \cup {NoServer}
      /\ \A j \in Server : servers[j].connected = "error" \/ servers[j].start = "failed"
                           => servers[j].life = "ended"
  BY ServerFact DEF TableInv, ServersOK, ServerInv, Ended
<1>b. servers[i].life = "connecting" /\ UNCHANGED <<runtime, tools, struck>>
  BY DEF ConnectFailed, ConnectCancelled
<1>r. servers[i] \in Rec
  BY <1>a
<1>c. PICK r \in {p, q} : servers' = [servers EXCEPT ![i] = r]
  <2>1. CASE ConnectFailed(i)
    <3>1. servers' = [servers EXCEPT ![i] = p]
      BY <1>r, <2>1 DEF ConnectFailed, Server, Rec
    <3> QED BY <3>1
  <2>2. CASE ConnectCancelled(i)
    <3>1. servers' = [servers EXCEPT ![i].life = "aborting", ![i].cancelled = FALSE]
      BY <2>2 DEF ConnectCancelled
    <3>2. servers' = [servers EXCEPT ![i] = q]
      BY <1>r, <3>1 DEF Server, Rec
    <3> QED BY <3>2
  <2> QED BY <2>1, <2>2
<1>d. /\ r \in Rec /\ r.target = servers[i].target /\ r.name = servers[i].name
      /\ r.settings = servers[i].settings /\ r.by = servers[i].by /\ r.start = servers[i].start
      /\ r.life \in {"failing", "aborting"} /\ r.open = servers[i].open
      /\ r.connected = servers[i].connected
  <2>1. r = p \/ r = q
    BY <1>c
  <2> QED BY <1>r, <2>1 DEF Rec, Lives
<1> HIDE DEF p, q
<1>e. /\ ServersOK' /\ Server' = Server /\ servers'[i] = r
      /\ \A j \in Server : j # i => servers'[j] = servers[j]
  BY <1>a, <1>c, <1>d, ReplaceFact
<1>1. TableOK'
  BY <1>b, <1>e DEF TableOK
<1>2. Keeps
  BY <1>b, <1>d, <1>e DEF Keeps
<1>3. Quiet
  <2>1. ASSUME NEW j \in Server
        PROVE
        /\ servers'[j].name = servers[j].name /\ servers'[j].open = servers[j].open
        /\ servers'[j].life = "ended" <=> servers[j].life = "ended"
        /\ servers'[j].life \in WithTools <=> servers[j].life \in WithTools
        /\ servers'[j].life = "terminating" =>
             servers[j].life = "terminating" /\ servers'[j].target = servers[j].target
        /\ servers'[j].connected = "error" \/ servers'[j].start = "failed" =>
             servers[j].life = "ended"
    <3>1. CASE j = i
      BY <1>a, <1>b, <1>d, <1>e, <3>1 DEF WithTools
    <3>2. CASE j # i
      BY <1>a, <1>e, <3>2
    <3> QED BY <3>1, <3>2
  <2> QED BY <1>e, <2>1 DEF Quiet
<1>4. Removes
  BY <1>b DEF Removes
<1> QED BY <1>1, <1>2, <1>3, <1>4, <1>b, <1>e, QuietTable

\* A start is over: that of a task that has ended, or a successful one.
LEMMA FinishTable ==
    ASSUME ServersOK, TableOK, TableInv, NEW i \in Server, NEW ok \in BOOLEAN,
           Finish(i, ok), ~ok => Ended(i), tools' = tools,
           \/ Ended(i) /\ Forget(servers[i].name, i)
           \/ UNCHANGED <<runtime, struck>>
    PROVE  /\ ServersOK' /\ TableOK' /\ TableInv' /\ Keeps /\ Server' = Server /\ Removes
           /\ servers'[i].start = IF ok THEN "ok" ELSE "failed"
           /\ \A j \in Server : j # i => servers'[j] = servers[j]
<1> DEFINE r == [servers[i] EXCEPT !.start = IF ok THEN "ok" ELSE "failed", !.connected = "no"]
<1>a. /\ \A j \in Server : servers[j] \in Rec /\ servers[j].target \in Server \cup {NoServer}
      /\ \A j \in Server : servers[j].connected = "error" \/ servers[j].start = "failed"
                           => servers[j].life = "ended"
      /\ NoServer \notin Server
  BY ServerFact DEF TableInv, ServersOK, ServerInv, Ended
<1>r. servers[i] \in Rec
  BY <1>a
<1>c. servers' = [servers EXCEPT ![i] = r]
  <2>1. servers' = [servers EXCEPT ![i].start = IF ok THEN "ok" ELSE "failed",
                                    ![i].connected = "no"]
    BY DEF Finish
  <2> QED BY <1>r, <2>1 DEF Server, Rec
<1>d. /\ r \in Rec /\ r.target = servers[i].target /\ r.name = servers[i].name
      /\ r.settings = servers[i].settings /\ r.by = servers[i].by
      /\ r.start = IF ok THEN "ok" ELSE "failed"
      /\ r.life = servers[i].life /\ r.open = servers[i].open
      /\ r.connected = "no" /\ r.shutdown = servers[i].shutdown
      /\ r.cancelled = servers[i].cancelled
  BY <1>r DEF Rec, Starts
<1> HIDE DEF r
<1>e. /\ ServersOK' /\ Server' = Server /\ servers'[i] = r
      /\ \A j \in Server : j # i => servers'[j] = servers[j]
  BY <1>a, <1>c, <1>d, ReplaceFact
<1>n. servers[i].name \in Names
  BY <1>r DEF Rec
<1>1. TableOK' /\ Removes
  <2>1. CASE UNCHANGED <<runtime, struck>>
    BY <1>e, <2>1 DEF TableOK, Removes
  <2>2. CASE Ended(i) /\ Forget(servers[i].name, i)
    <3>1. /\ runtime' = [runtime EXCEPT ![servers[i].name] = NoServer]
          /\ struck' = struck \cup ({runtime[servers[i].name]} \ {NoServer, i})
          /\ servers[i].life = "ended"
      BY <2>2 DEF Forget, Ended
    <3>2. runtime \in [Names -> Server \cup {NoServer}]
      BY DEF TableOK
    <3>3. runtime' \in [Names -> Server \cup {NoServer}] /\ struck' \subseteq Server
      BY <3>1, <3>2, <1>n DEF TableOK
    <3>4. ASSUME NEW n \in Names, runtime'[n] # runtime[n]
          PROVE  /\ runtime'[n] = NoServer
                 /\ runtime[n] \in Server => runtime[n] \in struck' \/ servers[runtime[n]].life = "ended"
      <4>1. n = servers[i].name
        BY <3>1, <3>2, <3>4
      <4> QED BY <1>a, <1>n, <3>1, <3>2, <4>1
    <3> QED BY <1>e, <3>1, <3>3, <3>4 DEF TableOK, Removes
  <2> QED BY <2>1, <2>2
<1>2. Keeps
  <2>1. struck \subseteq struck'
    BY <1>1 DEF Removes
  <2> QED BY <1>d, <1>e, <2>1 DEF Keeps
<1>3. Quiet
  <2>1. ASSUME NEW j \in Server
        PROVE
        /\ servers'[j].name = servers[j].name /\ servers'[j].open = servers[j].open
        /\ servers'[j].life = servers[j].life /\ servers'[j].target = servers[j].target
        /\ servers'[j].connected = "error" \/ servers'[j].start = "failed" =>
             servers[j].life = "ended"
    <3>1. CASE j = i
      BY <1>d, <1>e, <3>1 DEF Ended
    <3>2. CASE j # i
      BY <1>a, <1>e, <3>2
    <3> QED BY <3>1, <3>2
  <2> QED BY <1>e, <2>1 DEF Quiet
<1> QED BY <1>1, <1>2, <1>3, <1>d, <1>e, QuietTable

\* Servers are told to end, or starts wait for their task.
Marked ==
    /\ Server' = Server
    /\ \A i \in Server :
        /\ servers'[i].name = servers[i].name /\ servers'[i].settings = servers[i].settings
        /\ servers'[i].by = servers[i].by /\ servers'[i].life = servers[i].life
        /\ servers'[i].open = servers[i].open /\ servers'[i].connected = servers[i].connected
        /\ servers'[i].target = servers[i].target
        /\ \/ servers'[i].start = servers[i].start
           \/ servers[i].start \notin {"ok", "failed"} /\ servers'[i].start \in {"stopping", "quitting"}
        /\ servers[i].shutdown => servers'[i].shutdown
        /\ servers[i].cancelled => servers'[i].cancelled

\* Telling servers to end, or cancelling their tasks, changes nothing in the table.
LEMMA MarkedTable ==
    ASSUME ServersOK, TableOK, TableInv, ServersOK', Marked, UNCHANGED <<runtime, tools, struck>>
    PROVE  TableOK' /\ TableInv' /\ Keeps /\ Server' = Server /\ Removes
<1>1. TableOK' /\ Removes /\ Server' = Server
  BY DEF TableOK, Marked, Removes
<1>2. Keeps
  BY DEF Keeps, Marked
<1>3. Quiet
  BY DEF Quiet, Marked, TableInv, ServerInv, Ended
<1> QED BY <1>1, <1>2, <1>3, QuietTable

\* Every server of D that is not over is told to shut down.
LEMMA SignalFact ==
    ASSUME ServersOK, NEW D, servers' = Signalled(D)
    PROVE  /\ ServersOK' /\ Marked
           /\ \A i \in D \cap Server : ~Ended(i) => servers'[i].shutdown
<1> DEFINE f == [i \in Server |-> [servers[i] EXCEPT !.shutdown = @ \/ (i \in D /\ ~Ended(i))]]
<1>1. \A i \in Server : servers[i] \in Rec /\ servers[i].target \in Server \cup {NoServer}
  BY ServerFact DEF ServersOK
<1>2. ASSUME NEW i \in Server
      PROVE  /\ f[i] \in Rec /\ f[i].name = servers[i].name /\ f[i].settings = servers[i].settings
             /\ f[i].by = servers[i].by /\ f[i].life = servers[i].life
             /\ f[i].open = servers[i].open /\ f[i].connected = servers[i].connected
             /\ f[i].target = servers[i].target /\ f[i].start = servers[i].start
             /\ servers[i].shutdown => f[i].shutdown
             /\ servers[i].cancelled => f[i].cancelled
             /\ i \in D /\ ~Ended(i) => f[i].shutdown
  <2>1. servers[i] \in Rec
    BY <1>1
  <2> DEFINE b == i \in D /\ ~Ended(i)
  <2>2. f[i] = [servers[i] EXCEPT !.shutdown = servers[i].shutdown \/ b]
    OBVIOUS
  <2> HIDE DEF b, f
  <2>3. /\ f[i] \in Rec /\ f[i].name = servers[i].name /\ f[i].settings = servers[i].settings
        /\ f[i].by = servers[i].by /\ f[i].life = servers[i].life
        /\ f[i].open = servers[i].open /\ f[i].connected = servers[i].connected
        /\ f[i].target = servers[i].target /\ f[i].start = servers[i].start
        /\ f[i].shutdown = (servers[i].shutdown \/ b)
        /\ f[i].cancelled = servers[i].cancelled
    BY <2>1, <2>2 DEF Rec
  <2> QED BY <2>3 DEF b
<1>3. servers' = [i \in Server |-> f[i]]
  BY DEF Signalled
<1> HIDE DEF f
<1>4. ServersOK' /\ Server' = Server /\ \A i \in Server : servers'[i] = f[i]
  BY <1>1, <1>2, <1>3, MarksFact
<1> QED BY <1>2, <1>4 DEF Marked

\* Cancelling only marks tasks, but for starts that now wait for theirs to end.
LEMMA CancelFact ==
    ASSUME ServersOK, NEW t, NEW C, DOMAIN t = Server,
           \A i \in Server :
             /\ t[i] \in Rec /\ t[i].name = servers[i].name /\ t[i].settings = servers[i].settings
             /\ t[i].by = servers[i].by /\ t[i].life = servers[i].life
             /\ t[i].open = servers[i].open /\ t[i].connected = servers[i].connected
             /\ t[i].target = servers[i].target /\ t[i].shutdown = servers[i].shutdown
             /\ t[i].cancelled = servers[i].cancelled
             /\ \/ t[i].start = servers[i].start
                \/ /\ servers[i].start \notin {"ok", "failed"}
                   /\ t[i].start \in {"stopping", "quitting"},
           servers' = Cancelled(t, C)
    PROVE  ServersOK' /\ Marked
<1> DEFINE f == [i \in Server |->
                    [t[i] EXCEPT !.cancelled = @ \/ (i \in C /\ t[i].life # "ended")]]
<1>1. \A i \in Server : servers[i] \in Rec /\ servers[i].target \in Server \cup {NoServer}
  BY ServerFact DEF ServersOK
<1>2. ASSUME NEW i \in Server
      PROVE  /\ f[i] \in Rec /\ f[i].name = servers[i].name /\ f[i].settings = servers[i].settings
             /\ f[i].by = servers[i].by /\ f[i].life = servers[i].life
             /\ f[i].open = servers[i].open /\ f[i].connected = servers[i].connected
             /\ f[i].target = servers[i].target /\ f[i].start = t[i].start
             /\ servers[i].shutdown => f[i].shutdown
             /\ servers[i].cancelled => f[i].cancelled
  <2> DEFINE b == i \in C /\ t[i].life # "ended"
  <2>1. t[i] \in Rec
    OBVIOUS
  <2>2. f[i] = [t[i] EXCEPT !.cancelled = t[i].cancelled \/ b]
    OBVIOUS
  <2> HIDE DEF b, f
  <2>3. /\ f[i] \in Rec /\ f[i].name = t[i].name /\ f[i].settings = t[i].settings
        /\ f[i].by = t[i].by /\ f[i].life = t[i].life
        /\ f[i].open = t[i].open /\ f[i].connected = t[i].connected
        /\ f[i].target = t[i].target /\ f[i].start = t[i].start
        /\ f[i].cancelled = (t[i].cancelled \/ b) /\ f[i].shutdown = t[i].shutdown
    BY <2>1, <2>2 DEF Rec
  <2> QED BY <2>3
<1>3. servers' = [i \in Server |-> f[i]]
  BY DEF Cancelled
<1> HIDE DEF f
<1>4. ServersOK' /\ Server' = Server /\ \A i \in Server : servers'[i] = f[i]
  BY <1>1, <1>2, <1>3, MarksFact
<1>5. ASSUME NEW i \in Server
      PROVE
        /\ servers'[i].name = servers[i].name /\ servers'[i].settings = servers[i].settings
        /\ servers'[i].by = servers[i].by /\ servers'[i].life = servers[i].life
        /\ servers'[i].open = servers[i].open /\ servers'[i].connected = servers[i].connected
        /\ servers'[i].target = servers[i].target
        /\ servers'[i].start = t[i].start
        /\ servers[i].shutdown => servers'[i].shutdown
        /\ servers[i].cancelled => servers'[i].cancelled
  BY <1>2, <1>4
<1> QED BY <1>4, <1>5 DEF Marked

\* A start that takes too long is cleaned up, and its name forgotten.
LEMMA StartTimesOutTable ==
    ASSUME ServersOK, TableOK, TableInv, NEW i \in Server, StartTimesOut(i)
    PROVE  ServersOK' /\ TableOK' /\ TableInv' /\ Keeps /\ Server' = Server
<1> DEFINE t == [servers EXCEPT ![i].start = "stopping"]
<1>1. /\ servers' = Cancelled(t, {i}) /\ servers[i].start = "waiting"
      /\ UNCHANGED <<runtime, tools, struck>>
  BY DEF StartTimesOut
<1>2. \A j \in Server : servers[j] \in Rec
  BY ServerFact DEF ServersOK
<1>3. DOMAIN t = Server
  BY DEF Server
<1>4. ASSUME NEW j \in Server
      PROVE  /\ t[j] \in Rec /\ t[j].name = servers[j].name /\ t[j].settings = servers[j].settings
             /\ t[j].by = servers[j].by /\ t[j].life = servers[j].life
             /\ t[j].open = servers[j].open /\ t[j].connected = servers[j].connected
             /\ t[j].target = servers[j].target /\ t[j].shutdown = servers[j].shutdown
             /\ t[j].cancelled = servers[j].cancelled
             /\ \/ t[j].start = servers[j].start
                \/ /\ servers[j].start \notin {"ok", "failed"}
                   /\ t[j].start \in {"stopping", "quitting"}
  <2>1. CASE j = i
    <3>1. t[j] = [servers[j] EXCEPT !.start = "stopping"]
      BY <2>1 DEF Server
    <3>2. servers[j] \in Rec /\ servers[j].start = "waiting"
      BY <1>1, <1>2, <2>1
    <3> HIDE DEF t
    <3> QED BY <3>1, <3>2 DEF Rec, Starts
  <2>2. CASE j # i
    <3>1. t[j] = servers[j]
      BY <2>2 DEF Server
    <3> HIDE DEF t
    <3> QED BY <1>2, <3>1
  <2> QED BY <2>1, <2>2
<1> HIDE DEF t
<1>5. ServersOK' /\ Marked
  BY <1>1, <1>3, <1>4, CancelFact
<1> QED BY <1>1, <1>5, MarkedTable

\* What the tasks of the servers and their starts do to the table
LEMMA LifeTable ==
    ASSUME ServersOK, TableOK, TableInv, NEW i \in Server, Life(i)
    PROVE  ServersOK' /\ TableOK' /\ TableInv' /\ Keeps /\ Server' = Server
BY ConnectedTable, ConnectEndsTable, ConnectingTable, TerminateTable, TerminatedTable
   DEF Life, LifeStep

\* The other ends of a start are of one shape.
LEMMA FinishActions ==
    ASSUME ServersOK, TableOK, TableInv, NEW i \in Server, StartStep(i), ~StartTimesOut(i)
    PROVE  \E ok \in BOOLEAN :
             /\ Finish(i, ok) /\ (~ok => Ended(i)) /\ tools' = tools /\ overlapped' = overlapped
             /\ \/ Ended(i) /\ Forget(servers[i].name, i)
                \/ UNCHANGED <<runtime, struck>>
             /\ Pending(i)
<1>1. CASE StartSucceeds(i)
  BY <1>1 DEF StartSucceeds, Pending
<1>2. CASE StartFails(i)
  <2>1. Ended(i)
    BY <1>2 DEF StartFails, TableInv, ServerInv
  <2> QED BY <1>2, <2>1 DEF StartFails, Pending
<1>3. CASE StartStopped(i)
  BY <1>3 DEF StartStopped, Pending
<1>4. CASE StartAbandoned(i)
  BY <1>4 DEF StartAbandoned, Pending
<1> QED BY <1>1, <1>2, <1>3, <1>4 DEF StartStep

\* A server is started, unless its name is taken.
LEMMA EnableTable ==
    ASSUME ServersOK, TableOK, TableInv, NEW c \in Calls, NEW n \in Names, NEW set \in Calls,
           Enable(c, n, set), UNCHANGED <<tools, struck>>
    PROVE  /\ ServersOK' /\ TableOK' /\ TableInv' /\ Keeps
           /\ \/ servers' = servers /\ runtime' = runtime
              \/ \E k : /\ k \notin Server /\ Server' = Server \cup {k}
                        /\ runtime[n] = NoServer /\ runtime' = [runtime EXCEPT ![n] = k]
                        /\ servers'[k] = New(n, set, c)
                        /\ \A j \in Server : servers'[j] = servers[j]
<1>1. CASE runtime[n] # NoServer
  <2>1. UNCHANGED <<servers, runtime>>
    BY <1>1 DEF Enable
  <2>2. ServersOK' /\ Server' = Server
    BY <2>1 DEF ServersOK, Server
  <2>3. Marked
    BY <2>1, <2>2 DEF Marked
  <2> QED BY <2>1, <2>2, <2>3, MarkedTable
<1>2. CASE runtime[n] = NoServer
  <2> DEFINE k == Len(servers) + 1
             s == New(n, set, c)
  <2>a. /\ ServerInv /\ RuntimeInv /\ LiveIsListed /\ ToolsInv /\ ToolsAreServed
        /\ NoServer \notin Server /\ k \notin Server /\ \A j \in Server : servers[j] \in Rec
    BY ServerFact DEF TableInv, ServersOK
  <2>b. /\ servers' = Append(servers, s) /\ runtime' = [runtime EXCEPT ![n] = k]
        /\ UNCHANGED <<tools, struck>>
    BY <1>2 DEF Enable
  <2>c. /\ s \in Rec /\ s.target = NoServer /\ s.name = n /\ s.life = "connecting"
        /\ s.start = "waiting" /\ s.connected = "no"
    BY DEF New, Rec, Starts, Lives, NoServer
  <2> HIDE DEF s
  <2>e. /\ ServersOK' /\ Server' = Server \cup {k} /\ servers'[k] = s
        /\ \A j \in Server : servers'[j] = servers[j]
    BY <2>b, <2>c, AppendFact
  <2> HIDE DEF k
  <2>r. \A m \in Names : runtime'[m] = IF m = n THEN k ELSE runtime[m]
    BY <2>b DEF TableOK
  <2>t. tools \subseteq Server /\ struck \subseteq Server
    BY DEF TableOK
  <2>1. TableOK'
    BY <2>b, <2>e DEF TableOK
  <2>2. Keeps
    BY <2>b, <2>e DEF Keeps
  <2>3. ServerInv'
    <3>1. ASSUME NEW j \in Server
          PROVE  /\ servers'[j].connected = "error" \/ servers'[j].start = "failed"
                    => servers'[j].life = "ended"
                 /\ servers'[j].life = "terminating" =>
                    /\ servers'[j].target \in Server
                    /\ servers'[servers'[j].target].name = servers'[j].name
                    /\ j \notin struck' => servers'[j].target = j
      <4>1. /\ servers[j].connected = "error" \/ servers[j].start = "failed"
               => servers[j].life = "ended"
            /\ servers[j].life = "terminating" =>
               /\ servers[j].target \in Server
               /\ servers[servers[j].target].name = servers[j].name
               /\ j \notin struck => servers[j].target = j
        BY <2>a DEF ServerInv, Ended
      <4>2. struck' = struck /\ servers'[j] = servers[j]
        BY <2>b, <2>e
      <4>3. servers[j].target \in Server =>
              servers'[servers[j].target].name = servers[servers[j].target].name
        BY <2>e
      <4> QED BY <4>1, <4>2, <4>3
    <3>2. /\ servers'[k].connected = "no" /\ servers'[k].start = "waiting"
          /\ servers'[k].life = "connecting"
      BY <2>c, <2>e
    <3> QED BY <2>e, <3>1, <3>2 DEF ServerInv, Ended
  <2>4. RuntimeInv'
    BY <2>a, <2>c, <2>e, <2>r DEF RuntimeInv
  <2>5. LiveIsListed'
    <3>1. ASSUME NEW j \in Server \ struck', ~(servers'[j].life = "ended")
          PROVE  runtime'[servers'[j].name] = j
      <4>1. runtime[servers[j].name] = j /\ servers[j].name \in Names
        BY <2>a, <2>b, <2>e, <3>1 DEF LiveIsListed, Ended, Rec
      <4> QED BY <1>2, <2>a, <2>e, <2>r, <3>1, <4>1
    <3>2. ASSUME NEW j \in Server \ struck', servers'[j].life = "ended"
          PROVE  ~servers'[j].open
      BY <2>a, <2>b, <2>e, <3>2 DEF LiveIsListed, Ended
    <3>3. runtime'[servers'[k].name] = k /\ servers'[k].life # "ended"
      BY <2>c, <2>e, <2>r
    <3> QED BY <2>e, <3>1, <3>2, <3>3 DEF LiveIsListed, Ended
  <2>6. ToolsInv'
    BY <2>a, <2>b, <2>e, <2>t DEF ToolsInv
  <2>7. ToolsAreServed'
    <3>1. ASSUME NEW j \in Server, Of(servers[j].name)' \cap struck' = {}
          PROVE  j \in tools' <=> servers'[j].life \in {"serving", "terminating"}
      <4>1. Of(servers[j].name) \cap struck = {}
        <5>1. \A i \in Of(servers[j].name) : i \in Of(servers[j].name)'
          BY <2>e DEF Of
        <5> QED BY <2>b, <3>1, <5>1
      <4> QED BY <2>a, <2>b, <2>e, <4>1 DEF ToolsAreServed
    <3>2. k \notin tools' /\ servers'[k].life = "connecting"
      BY <2>a, <2>b, <2>c, <2>e, <2>t
    <3>3. \A j \in tools' : servers'[j].open
      BY <2>6 DEF ToolsInv
    <3> QED BY <2>e, <3>1, <3>2, <3>3 DEF ToolsAreServed
  <2> QED BY <1>2, <2>a, <2>b, <2>e, <2>1, <2>2, <2>3, <2>4, <2>5, <2>6, <2>7 DEF TableInv, s
<1> QED BY <1>1, <1>2

\* The names that failed at boot are removed, whoever uses them.
LEMMA BootEndsTable ==
    ASSUME ServersOK, TableOK, TableInv, BootEnds
    PROVE  /\ ServersOK' /\ TableOK' /\ TableInv' /\ Keeps /\ Server' = Server /\ Removes
           /\ servers' = servers
<1> DEFINE failed == {i \in Started(Boot) : servers[i].start = "failed"}
           gone == {servers[i].name : i \in failed}
<1>1. /\ runtime' = [n \in Names |-> IF n \in gone THEN NoServer ELSE runtime[n]]
      /\ struck' = struck \cup ({runtime[n] : n \in gone} \ (failed \cup {NoServer}))
      /\ UNCHANGED <<servers, tools>>
  BY DEF BootEnds
<1>2. \A i \in failed : i \in Server /\ servers[i].name \in Names /\ servers[i].life = "ended"
  BY ServerFact DEF ServersOK, Started, TableInv, ServerInv, Ended, Rec
<1>3. gone \subseteq Names
  BY <1>2
<1> HIDE DEF failed, gone
<1>4. ServersOK' /\ Server' = Server
  BY <1>1 DEF ServersOK, Server
<1>5. TableOK'
  BY <1>1, <1>3, <1>4 DEF TableOK
<1>6. Removes
  <2>1. ASSUME NEW n \in Names, runtime'[n] # runtime[n]
        PROVE  /\ runtime'[n] = NoServer
               /\ runtime[n] \in Server => runtime[n] \in struck' \/ servers[runtime[n]].life = "ended"
    <3>1. n \in gone /\ runtime'[n] = NoServer /\ runtime[n] # NoServer
      BY <1>1, <2>1
    <3> QED BY <1>1, <1>2, <3>1
  <2> QED BY <1>1, <2>1 DEF Removes
<1>7. Quiet
  BY <1>1, <1>4 DEF Quiet, TableInv, ServerInv, Ended
<1>8. Keeps
  BY <1>1, <1>4 DEF Keeps
<1> QED BY <1>1, <1>4, <1>5, <1>6, <1>7, <1>8, QuietTable

\* SetToSeq lists the elements of a finite set, each one once.
LEMMA ListFact ==
    ASSUME NEW A, IsFiniteSet(A)
    PROVE  /\ SetToSeq(A) \in Seq(A)
           /\ \A j, k \in DOMAIN SetToSeq(A) : SetToSeq(A)[j] = SetToSeq(A)[k] => j = k
<1>1. Cardinality(A) \in Nat /\ \E f \in [1..Cardinality(A) -> A] : IsInjective(f)
  BY FS_CardinalityType DEF ExistsBijection, Bijection, Injection, Surjection
<1>2. SetToSeq(A) \in [1..Cardinality(A) -> A] /\ IsInjective(SetToSeq(A))
  BY <1>1 DEF SetToSeq
<1> QED BY <1>1, <1>2 DEF IsInjective

\* The boot starts the servers of the file, each under its name.
LEMMA BootStartsTable ==
    ASSUME TypeOK, TableInv, CallInv, BootStarts
    PROVE  /\ ServersOK' /\ TableOK' /\ TableInv' /\ Keeps
           /\ \A k \in Server' :
                /\ servers'[k].by = Boot
                /\ Serves(config[servers'[k].name], servers'[k].settings)
<1> DEFINE A == {n \in Names : config[n].active}
           due == SetToSeq(A)
<1>a. /\ servers = <<>> /\ config \in Entries /\ tools \subseteq Server /\ struck \subseteq Server
      /\ \A n \in Names : config[n].active =>
            config[n].settings # NoSettings /\ config[n].wanted
  BY TypeParts DEF CallInv, BootStarts, FileOK, TableOK, Present
<1>b. Server = {} /\ tools = {} /\ struck = {}
  BY <1>a DEF Server
<1>c. due \in Seq(A) /\ \A j, k \in DOMAIN due : due[j] = due[k] => j = k
  <2>1. IsFiniteSet(A)
    BY FS_Subset
  <2> HIDE DEF A
  <2> QED BY <2>1, ListFact
<1>d. /\ servers' = [k \in DOMAIN due |-> New(due[k], config[due[k]].settings, Boot)]
      /\ runtime' = [n \in Names |->
                IF \E k \in DOMAIN due : due[k] = n
                THEN CHOOSE k \in DOMAIN due : due[k] = n ELSE NoServer]
      /\ UNCHANGED <<config, tools, struck>>
  BY DEF BootStarts
<1> HIDE DEF due
<1>e. DOMAIN due = 1..Len(due) /\ Len(due) \in Nat /\ \A k \in DOMAIN due : due[k] \in A
  <2> HIDE DEF A
  <2> QED BY <1>c
<1>f. ASSUME NEW k \in DOMAIN due
      PROVE  /\ servers'[k] \in Rec /\ servers'[k].target = NoServer
             /\ servers'[k].name = due[k] /\ servers'[k].by = Boot
             /\ servers'[k].life = "connecting" /\ servers'[k].start = "waiting"
             /\ servers'[k].connected = "no"
             /\ Serves(config[due[k]], servers'[k].settings)
  <2>1. /\ due[k] \in Names /\ config[due[k]].active
        /\ config[due[k]].settings # NoSettings /\ config[due[k]].wanted
    BY <1>a, <1>e
  <2>2. config[due[k]].settings \in Calls
    BY <1>a, <2>1 DEF Entries
  <2>3. servers'[k] = New(due[k], config[due[k]].settings, Boot)
    BY <1>d
  <2> QED BY <2>1, <2>2, <2>3 DEF New, Rec, Starts, Lives, Calls, NoServer, Serves
<1>g. servers' \in Seq(Rec) /\ Server' = DOMAIN due
  <2>1. servers' \in [1..Len(due) -> Rec]
    <3>1. servers' = [k \in 1..Len(due) |-> servers'[k]]
      BY <1>d, <1>e
    <3> QED BY <1>e, <1>f, <3>1
  <2> QED BY <1>d, <1>e, <2>1 DEF Server
<1>h. ServersOK'
  BY <1>f, <1>g DEF ServersOK
<1>i. \A k \in DOMAIN due : runtime'[due[k]] = k
  <2>1. ASSUME NEW k \in DOMAIN due PROVE runtime'[due[k]] = k
    <3>1. due[k] \in Names /\ runtime'[due[k]] = CHOOSE j \in DOMAIN due : due[j] = due[k]
      BY <1>d, <1>e
    <3> QED BY <1>c, <3>1
  <2> QED BY <2>1
<1>j. \A n \in Names : runtime'[n] # NoServer => runtime'[n] \in DOMAIN due /\ due[runtime'[n]] = n
  <2>1. ASSUME NEW n \in Names, runtime'[n] # NoServer
        PROVE  runtime'[n] \in DOMAIN due /\ due[runtime'[n]] = n
    <3>1. \E k \in DOMAIN due : due[k] = n
      BY <1>d, <2>1
    <3> QED BY <1>i, <3>1
  <2> QED BY <2>1
<1> HIDE DEF A
<1>1. TableOK'
  <2>1. runtime' = [n \in Names |-> runtime'[n]]
    BY <1>d
  <2>2. runtime' \in [Names -> DOMAIN due \cup {NoServer}]
    BY <1>j, <2>1
  <2> QED BY <1>b, <1>d, <1>g, <2>2 DEF TableOK
<1>2. Keeps
  BY <1>b, <1>d DEF Keeps
<1>3. ServerInv'
  BY <1>f, <1>g DEF ServerInv, Ended
<1>4. RuntimeInv'
  BY <1>f, <1>g, <1>j DEF RuntimeInv
<1>5. LiveIsListed'
  BY <1>f, <1>g, <1>i DEF LiveIsListed, Ended
<1>6. ToolsInv' /\ ToolsAreServed'
  BY <1>b, <1>d, <1>f, <1>g DEF ToolsInv, ToolsAreServed
<1> QED BY <1>h, <1>1, <1>2, <1>3, <1>4, <1>5, <1>6, <1>f, <1>g DEF TableInv

\* The shutdown makes the starts of the boot wait for their tasks.
LEMMA QuitBeginsTable ==
    ASSUME ServersOK, TableOK, TableInv, QuitBegins
    PROVE  ServersOK' /\ Marked
<1> DEFINE waiting == {i \in Started(Boot) : servers[i].start = "waiting"}
           stopping == {i \in Started(Boot) : servers[i].start = "stopping"}
           left == [i \in Server |-> [servers[i] EXCEPT !.start =
                        IF i \in waiting THEN "stopping"
                        ELSE IF i \in stopping THEN "quitting" ELSE @]]
<1>1. servers' = servers \/ servers' = Cancelled(left, waiting \cup stopping)
  BY DEF QuitBegins
<1>2. CASE servers' = servers
  <2>1. ServersOK' /\ Server' = Server
    BY <1>2 DEF ServersOK, Server
  <2> QED BY <1>2, <2>1 DEF Marked
<1>3. CASE servers' = Cancelled(left, waiting \cup stopping)
  <2>1. DOMAIN left = Server
    OBVIOUS
  <2>2. \A i \in Server : servers[i] \in Rec
    BY ServerFact DEF ServersOK
  <2>3. \A i \in waiting \cup stopping : servers[i].start \in {"waiting", "stopping"}
    OBVIOUS
  <2>4. ASSUME NEW i \in Server
        PROVE
             /\ left[i] \in Rec /\ left[i].name = servers[i].name
             /\ left[i].settings = servers[i].settings
             /\ left[i].by = servers[i].by /\ left[i].life = servers[i].life
             /\ left[i].open = servers[i].open /\ left[i].connected = servers[i].connected
             /\ left[i].target = servers[i].target /\ left[i].shutdown = servers[i].shutdown
             /\ left[i].cancelled = servers[i].cancelled
             /\ \/ left[i].start = servers[i].start
                \/ /\ servers[i].start \notin {"ok", "failed"}
                   /\ left[i].start \in {"stopping", "quitting"}
    <3> DEFINE v == IF i \in waiting THEN "stopping"
                    ELSE IF i \in stopping THEN "quitting" ELSE servers[i].start
    <3>1. left[i] = [servers[i] EXCEPT !.start = v]
      OBVIOUS
    <3>2. servers[i] \in Rec
      BY <2>2
    <3>3. /\ v \in Starts
          /\ \/ v = servers[i].start
             \/ servers[i].start \notin {"ok", "failed"} /\ v \in {"stopping", "quitting"}
      BY <2>3, <3>2 DEF Rec, Starts
    <3> HIDE DEF left, v
    <3> QED BY <3>1, <3>2, <3>3 DEF Rec
  <2> HIDE DEF left, waiting, stopping
  <2> QED BY <1>3, <2>1, <2>4, CancelFact
<1> QED BY <1>1, <1>2, <1>3

----------------------------------------------------------------------------
(* The calls                                                               *)

LEMMA CallFact ==
    ASSUME CallsOK, Server \subseteq Server', NEW c \in Calls, NEW k, k \in CallRec',
           call' = [call EXCEPT ![c] = k]
    PROVE  CallsOK' /\ call'[c] = k /\ \A d \in Calls : d # c => call'[d] = call[d]
<1>1. \A d \in Calls : call[d] \in CallRec'
  BY DEF CallsOK, CallRec
<1>2. call' = [d \in Calls |-> IF d = c THEN k ELSE call[d]]
  BY DEF CallsOK
<1> QED BY <1>1, <1>2 DEF CallsOK

LEMMA SameCalls ==
    ASSUME CallsOK, Server \subseteq Server', call' = call
    PROVE  CallsOK'
<1>1. \A d \in Calls : call[d] \in CallRec'
  BY DEF CallsOK, CallRec
<1> QED BY <1>1 DEF CallsOK

LEMMA EndedCallFact ==
    /\ EndedCall \in CallRec' /\ EndedCall.pc = "done" /\ ~EndedCall.adds
    /\ EndedCall.targets = {} /\ EndedCall.next = NoName
<1>1. [n \in Names |-> Absent] \in Entries
  BY DEF Entries, Absent, Entry
<1> HIDE DEF Entries
<1> QED BY <1>1 DEF EndedCall, Fresh, CallRec, Pcs

\* The conjuncts of Inv, its type invariant in parts
Parts ==
    /\ ServersOK /\ TableOK /\ FileOK /\ CallsOK
    /\ TableInv /\ CallInv /\ StartInv /\ ConfigInv

LEMMA PartsFact == Inv <=> Parts
BY TypeParts DEF Inv, Parts, TableInv

\* Request c is over, or ends by force, and none of its starts is pending.
Closes(c) ==
    /\ Busy(c) /\ call'[c].pc \in {"forcing", "done"}
    /\ \A i \in Server : servers[i].by = c => servers'[i].start \in {"ok", "failed"}

CallsGo ==
    /\ call[Boot].pc # "idle"
    /\ call'[Boot].pc \in {"starting", "cancelling", "done"}
    /\ ~call'[Boot].adds /\ ~call'[Quit].adds /\ call'[Quit].next = NoName
    /\ \A c \in Calls :
        Knows(call'[c]) /\ (call'[c].pc \notin {"shutting", "forcing"} => call'[c].targets = {})
    /\ call'[Quit].pc = "idle" => call[Quit].pc = "idle"
    /\ \A c \in Requests : call'[c] = call[c] \/ Closes(c)

\* Requests that wait for starts go on when the last is over.
LEMMA CallsGoFact ==
    ASSUME StartInv, Keeps, Server' = Server, CallsGo
    PROVE  /\ CallInv' /\ StartInv'
           /\ \A c \in Requests : Busy(c)' => Busy(c)
           /\ \A i \in Server : servers'[i].by = servers[i].by /\ (Pending(i)' => Pending(i))
<1>1. CallInv'
  BY DEF CallInv, CallsGo, Knows
<1>2. ASSUME NEW i \in Server
      PROVE  servers'[i].by = servers[i].by /\ (Pending(i)' => Pending(i))
  BY DEF Keeps, Pending
<1>3. ASSUME NEW i \in Server, servers[i].by \in Requests, Pending(i)'
      PROVE  call'[servers[i].by].pc = "starting"
  BY <1>2, <1>3 DEF StartInv, CallsGo, Closes, Pending
<1>4. StartInv'
  BY <1>2, <1>3 DEF StartInv
<1>5. ASSUME NEW c \in Requests, Busy(c)' PROVE Busy(c)
  BY <1>5 DEF CallsGo, Closes, Busy
<1> QED BY <1>1, <1>2, <1>4, <1>5

\* A step that starts nothing and leaves the file alone
LEMMA RestStep ==
    ASSUME Parts, ServersOK', TableOK', CallsOK', TableInv', Keeps, Server' = Server, CallsGo,
           UNCHANGED <<config, overlapped>>,
           \A n \in Names : runtime'[n] \in {runtime[n], NoServer}
    PROVE  Parts'
<1>a. FileOK /\ StartInv /\ ConfigInv /\ \A i \in Server : servers[i].name \in Names
  BY ServerFact DEF Parts, ServersOK, Rec
<1>b. /\ CallInv' /\ StartInv'
      /\ \A c \in Requests : Busy(c)' => Busy(c)
      /\ \A i \in Server : servers'[i].by = servers[i].by /\ (Pending(i)' => Pending(i))
  BY <1>a, CallsGoFact
<1>1. FileOK'
  BY <1>a DEF FileOK
<1>2. ConfigInv'
  <2> SUFFICES ASSUME ~overlapped', call'[Quit].pc = "idle"
               PROVE  OneAtATime' /\ AsFiled' /\ StartOwns' /\ RequestsKnow'
    BY DEF ConfigInv
  <2>0. OneAtATime /\ AsFiled /\ StartOwns /\ RequestsKnow
    BY <1>a DEF CallsGo, ConfigInv
  <2>1. OneAtATime'
    BY <1>b, <2>0 DEF OneAtATime
  <2>2. AsFiled'
    <3>1. ASSUME NEW i \in Server \ struck', ~Doomed(i)'
          PROVE  Serves(config'[servers'[i].name], servers'[i].settings)
      <4>1. /\ servers'[i].name = servers[i].name /\ servers'[i].settings = servers[i].settings
            /\ i \in Server \ struck /\ ~Doomed(i)
        BY <3>1 DEF Keeps, Doomed
      <4> QED BY <2>0, <4>1 DEF AsFiled
    <3> QED BY <3>1 DEF AsFiled, Serves
  <2>3. StartOwns'
    <3>1. ASSUME NEW i \in Server, servers'[i].by \in Requests, Pending(i)'
          PROVE  runtime'[servers'[i].name] \in {i, NoServer}
      <4>1. servers'[i].name = servers[i].name /\ servers[i].by \in Requests /\ Pending(i)
        BY <1>b, <3>1 DEF Keeps
      <4> QED BY <1>a, <2>0, <3>1, <4>1 DEF StartOwns
    <3> QED BY <3>1 DEF StartOwns
  <2>4. RequestsKnow'
    <3>1. ASSUME NEW c \in Requests, call'[c].pc \in {"testing", "shutting"}
          PROVE  call'[c] = call[c]
      BY <3>1 DEF CallsGo, Closes
    <3> QED BY <2>0, <3>1 DEF RequestsKnow, Present, Serves
  <2> QED BY <2>1, <2>2, <2>3, <2>4
<1> QED BY <1>1, <1>2, <1>b DEF Parts

\* The boot has begun when there are servers, or calls under way.
LEMMA Begun ==
    ASSUME CallInv, (\E i \in Server : TRUE) \/ (\E c \in Calls : call[c].pc # "idle")
    PROVE  call[Boot].pc \in {"starting", "cancelling", "done"}
BY DEF CallInv, Server

\* What the task of a server does by itself
LEMMA LifeKeeps ==
    ASSUME Parts, NEW i \in Server, Life(i) \/ StartTimesOut(i)
    PROVE  Parts'
<1>a. ServersOK /\ TableOK /\ CallsOK /\ TableInv /\ CallInv
  BY DEF Parts
<1>1. ServersOK' /\ TableOK' /\ TableInv' /\ Keeps /\ Server' = Server
  BY <1>a, LifeTable, StartTimesOutTable
<1>2. /\ UNCHANGED <<config, overlapped, call>>
      /\ runtime' = runtime \/ Terminated(i)
  BY DEF Life, LifeStep, Connected, ConnectFailed, ConnectEnds, ConnectCancelled, Terminate,
         Terminated, StartTimesOut
<1>3. \A n \in Names : runtime'[n] \in {runtime[n], NoServer}
  <2>1. CASE runtime' = runtime
    BY <2>1
  <2>2. CASE Terminated(i)
    BY <1>a, <2>2 DEF Terminated, Forget, TableOK
  <2> QED BY <1>2, <2>1, <2>2
<1>4. CallsGo
  BY <1>a, <1>2, Begun DEF CallsGo, CallInv, Knows
<1>5. CallsOK'
  BY <1>a, <1>1, <1>2, SameCalls
<1> QED BY <1>1, <1>2, <1>3, <1>4, <1>5, RestStep

\* The start of server i returns or raises.
LEMMA FinishStep ==
    ASSUME Parts, NEW i \in Server, StartStep(i), ~StartTimesOut(i)
    PROVE  Parts'
<1> DEFINE c == servers[i].by
<1>a. /\ ServersOK /\ TableOK /\ FileOK /\ CallsOK /\ TableInv /\ CallInv /\ StartInv /\ ConfigInv
      /\ \A j \in Server : servers[j] \in Rec
  BY ServerFact DEF Parts, ServersOK
<1>b. PICK ok \in BOOLEAN :
             /\ Finish(i, ok) /\ (~ok => Ended(i)) /\ tools' = tools /\ overlapped' = overlapped
             /\ \/ Ended(i) /\ Forget(servers[i].name, i)
                \/ UNCHANGED <<runtime, struck>>
             /\ Pending(i)
  BY <1>a, FinishActions
<1>c. /\ ServersOK' /\ TableOK' /\ TableInv' /\ Keeps /\ Server' = Server /\ Removes
      /\ servers'[i].start \in {"ok", "failed"}
      /\ \A j \in Server : j # i => servers'[j] = servers[j]
  BY <1>a, <1>b, FinishTable
<1>d. \A n \in Names : runtime'[n] \in {runtime[n], NoServer}
  BY <1>c DEF Removes
<1>e. c \in Calls /\ servers[i].name \in Names /\ Boot \notin Requests /\ Quit \notin Requests
  BY <1>a DEF Rec
<1>f. /\ call' = IF c = Boot THEN call ELSE [call EXCEPT ![c] = EndedCall]
      /\ config' = IF call[c].adds /\ ~ok
                   THEN [config EXCEPT ![servers[i].name] = Absent] ELSE config
  BY <1>b DEF Finish
<1>n. c = servers[i].by
  OBVIOUS
<1> HIDE DEF c
<1>g. CallsOK' /\ (c # Boot => call'[c] = EndedCall)
  BY <1>a, <1>c, <1>e, <1>f, CallFact, SameCalls, EndedCallFact
<1>h. \A d \in Calls : d # c \/ c = Boot => call'[d] = call[d]
  BY <1>a, <1>c, <1>e, <1>f, CallFact, EndedCallFact
<1>k. CallsGo
  <2>1. call[Boot].pc \in {"starting", "cancelling", "done"} /\ call'[Boot] = call[Boot]
    BY <1>a, <1>h, Begun DEF Calls
  <2>2. /\ ~call'[Boot].adds /\ ~call'[Quit].adds /\ call'[Quit].next = NoName
        /\ \A d \in Calls : Knows(call'[d])
             /\ (call'[d].pc \notin {"shutting", "forcing"} => call'[d].targets = {})
        /\ call'[Quit].pc = "idle" => call[Quit].pc = "idle"
    BY <1>a, <1>g, <1>h, EndedCallFact DEF CallInv, Calls, Knows
  <2>3. ASSUME NEW d \in Requests PROVE call'[d] = call[d] \/ Closes(d)
    <3>1. CASE d # c
      BY <1>h, <3>1 DEF Calls
    <3>2. CASE d = c
      <4>1. call[c].pc = "starting" /\ call'[c].pc = "done"
        BY <1>a, <1>b, <1>e, <1>g, <1>n, <3>2, EndedCallFact DEF StartInv
      <4>2. ASSUME NEW j \in Server, servers[j].by = c
            PROVE  servers'[j].start \in {"ok", "failed"}
        <5>1. j # i => ~Pending(j)
          BY <1>a, <1>b, <1>n, <3>2, <4>2 DEF StartInv
        <5> QED BY <1>c, <5>1 DEF Pending
      <4> QED BY <3>2, <4>1, <4>2 DEF Closes, Busy
    <3> QED BY <3>1, <3>2
  <2> QED BY <2>1, <2>2, <2>3 DEF CallsGo
<1>1. CASE config' = config
  BY <1>1, <1>b, <1>c, <1>d, <1>g, <1>k, RestStep
<1>2. CASE config' # config
  <2>1. call[c].adds /\ config' = [config EXCEPT ![servers[i].name] = Absent] /\ ~ok
    BY <1>2, <1>f
  <2>2. c \in Requests
    BY <1>a, <1>e, <2>1 DEF CallInv, Calls
  <2>3. /\ CallInv' /\ StartInv'
        /\ \A d \in Requests : Busy(d)' => Busy(d)
        /\ \A j \in Server : servers'[j].by = servers[j].by /\ (Pending(j)' => Pending(j))
    BY <1>a, <1>c, <1>k, CallsGoFact
  <2>4. FileOK'
    BY <1>a, <1>b, <1>e, <2>1 DEF FileOK, Entries, Absent, Entry
  <2>5. ConfigInv'
    <3> SUFFICES ASSUME ~overlapped', call'[Quit].pc = "idle"
                 PROVE  OneAtATime' /\ AsFiled' /\ StartOwns' /\ RequestsKnow'
      BY DEF ConfigInv
    <3>0. OneAtATime /\ AsFiled /\ StartOwns /\ RequestsKnow
      BY <1>a, <1>b, <1>k DEF CallsGo, ConfigInv
    <3>1. OneAtATime'
      BY <2>3, <3>0 DEF OneAtATime
    <3>2. AsFiled'
      <4>1. ASSUME NEW j \in Server \ struck', ~Doomed(j)'
            PROVE  Serves(config'[servers'[j].name], servers'[j].settings)
        <5>1. /\ servers'[j].name = servers[j].name /\ servers'[j].settings = servers[j].settings
              /\ j \in Server \ struck /\ ~Doomed(j)
          BY <1>c, <4>1 DEF Keeps, Doomed
        <5>2. j # i
          BY <1>b, <2>1, <5>1 DEF Doomed, Ended
        <5>3. runtime[servers[j].name] = j
          BY <1>a, <5>1 DEF TableInv, LiveIsListed, Doomed, Ended
        <5>4. runtime[servers[i].name] \in {i, NoServer}
          BY <1>b, <1>n, <2>2, <3>0 DEF StartOwns
        <5>5. servers[j].name # servers[i].name
          BY <5>1, <5>2, <5>3, <5>4, <1>a, ServerFact DEF ServersOK
        <5>6. config'[servers[j].name] = config[servers[j].name]
          BY <1>a, <2>1, <5>5 DEF FileOK, Entries
        <5> QED BY <3>0, <5>1, <5>6 DEF AsFiled
      <4> QED BY <1>c, <4>1 DEF AsFiled, Serves
    <3>3. StartOwns'
      <4>1. ASSUME NEW j \in Server, servers'[j].by \in Requests, Pending(j)'
            PROVE  runtime'[servers'[j].name] \in {j, NoServer}
        <5>1. servers'[j].name = servers[j].name /\ servers[j].by \in Requests /\ Pending(j)
              /\ servers[j].name \in Names
          BY <1>a, <1>c, <2>3, <4>1 DEF Keeps, Rec
        <5> QED BY <1>d, <3>0, <5>1 DEF StartOwns
      <4> QED BY <1>c, <4>1 DEF StartOwns
    <3>4. RequestsKnow'
      <4>1. ASSUME NEW d \in Requests PROVE call'[d].pc \notin {"testing", "shutting"}
        <5>1. Busy(c) /\ call'[c].pc = "done"
          BY <1>a, <1>b, <1>e, <1>g, <1>n, <2>2, EndedCallFact DEF StartInv, Busy
        <5>2. d # c => ~Busy(d)' 
          BY <2>2, <2>3, <3>0, <5>1 DEF OneAtATime
        <5> QED BY <5>1, <5>2 DEF Busy
      <4> QED BY <4>1 DEF RequestsKnow
    <3> QED BY <3>1, <3>2, <3>3, <3>4
  <2> QED BY <1>c, <1>g, <2>3, <2>4, <2>5 DEF Parts
<1> QED BY <1>1, <1>2

\* A call that starts nothing goes on or is over.
LEMMA CloseStep ==
    ASSUME Parts, NEW c \in Calls, call[c].pc \in {"testing", "shutting", "forcing"},
           NEW k, k \in CallRec', call' = [call EXCEPT ![c] = k],
           k.pc \in {"forcing", "done"}, k.pc = "done" => k.targets = {},
           k.adds => call[c].adds, k.next \in {call[c].next, NoName},
           ServersOK', Marked, UNCHANGED <<config, runtime, tools, struck, overlapped>>
    PROVE  Parts'
<1>a. ServersOK /\ TableOK /\ CallsOK /\ TableInv /\ CallInv /\ StartInv
  BY DEF Parts
<1>1. TableOK' /\ TableInv' /\ Keeps /\ Server' = Server /\ Removes
  BY <1>a, MarkedTable
<1>2. CallsOK' /\ call'[c] = k /\ \A d \in Calls : d # c => call'[d] = call[d]
  BY <1>a, <1>1, CallFact
<1>3. \A n \in Names : runtime'[n] \in {runtime[n], NoServer}
  OBVIOUS
<1>4. CallsGo
  <2>1. call[Boot].pc \in {"starting", "cancelling", "done"} /\ c # Boot /\ Boot \in Calls
    BY <1>a, Begun DEF CallInv, Calls
  <2>2. call'[Boot] = call[Boot] /\ ~call'[Boot].adds
    BY <1>2, <1>a, <2>1 DEF CallInv
  <2>3. ~call'[Quit].adds /\ call'[Quit].next = NoName
        /\ (call'[Quit].pc = "idle" => call[Quit].pc = "idle")
    BY <1>2, <1>a DEF CallInv, Calls
  <2>4. \A d \in Calls : Knows(call'[d])
             /\ (call'[d].pc \notin {"shutting", "forcing"} => call'[d].targets = {})
    BY <1>2, <1>a DEF CallInv, Knows
  <2>5. ASSUME NEW d \in Requests PROVE call'[d] = call[d] \/ Closes(d)
    <3>1. CASE d # c
      BY <1>2, <3>1 DEF Calls
    <3>2. CASE d = c
      <4>1. ASSUME NEW j \in Server, servers[j].by = c
            PROVE  servers'[j].start \in {"ok", "failed"}
        BY <1>1, <1>a, <3>2, <4>1 DEF StartInv, Pending, Keeps
      <4> QED BY <1>2, <3>2, <4>1 DEF Closes, Busy
    <3> QED BY <3>1, <3>2
  <2> QED BY <2>1, <2>2, <2>3, <2>4, <2>5 DEF CallsGo
<1> QED BY <1>1, <1>2, <1>3, <1>4, RestStep

\* A step of request c that writes the file, starts a server or shuts one down: at
\* most one server is added, and what is under way are only c's own affairs.
LEMMA RequestStep ==
    ASSUME Parts, ServersOK', TableOK', TableInv', Keeps,
           NEW c \in Requests, call[Boot].pc # "idle", call[c].pc # "starting",
           NEW k, k \in CallRec', call' = [call EXCEPT ![c] = k],
           Knows(k), k.pc \notin {"shutting", "forcing"} => k.targets = {},
           FileOK',
           \A j \in Server' \ Server :
             /\ servers'[j].by = c /\ k.pc = "starting" /\ runtime'[servers'[j].name] = j
             /\ \A i \in Server' \ Server : i = j,
           ~overlapped' /\ call[Quit].pc = "idle" =>
             /\ \A d \in Requests : Busy(d) => d = c
             /\ \A i \in Server' \ struck' : ~Doomed(i)' =>
                  Serves(config'[servers'[i].name], servers'[i].settings)
             /\ k.pc = "testing" =>
                  k.seen = config' /\ config'[k.name].settings = NoSettings
             /\ k.pc = "shutting" /\ k.next # NoName =>
                  k.next \in Names /\ Serves(config'[k.next], k.settings)
    PROVE  Parts'
<1>a. ServersOK /\ CallsOK /\ CallInv /\ StartInv
  BY DEF Parts
<1>b. c # Boot /\ c # Quit /\ c \in Calls /\ Boot \in Calls /\ Quit \in Calls
  BY DEF Calls
<1>1. CallsOK' /\ call'[c] = k /\ \A d \in Calls : d # c => call'[d] = call[d]
  BY <1>a, <1>b, CallFact DEF Keeps
<1>2. CallInv'
  BY <1>1, <1>a, <1>b DEF CallInv, Knows
<1>3. ASSUME NEW i \in Server
      PROVE  /\ servers'[i].by = servers[i].by
             /\ servers[i].by \in Requests /\ Pending(i)' =>
                 Pending(i) /\ call[servers[i].by].pc = "starting" /\ servers[i].by # c
  BY <1>a DEF Keeps, Pending, StartInv
<1>4. StartInv'
  <2>1. ASSUME NEW i \in Server', servers'[i].by \in Requests, Pending(i)'
        PROVE  call'[servers'[i].by].pc = "starting"
    <3>1. CASE i \in Server
      BY <1>1, <1>3, <2>1, <3>1 DEF Calls
    <3>2. CASE i \notin Server
      BY <1>1, <3>2
    <3> QED BY <3>1, <3>2
  <2>2. ASSUME NEW i \in Server', servers'[i].by \in Requests, Pending(i)',
               NEW j \in Server', servers'[j].by = servers'[i].by, Pending(j)'
        PROVE  j = i
    <3>1. CASE i \in Server /\ j \in Server
      BY <1>3, <1>a, <2>2, <3>1 DEF StartInv
    <3>2. CASE i \notin Server /\ j \notin Server
      BY <3>2
    <3>3. CASE i \in Server /\ j \notin Server
      BY <1>3, <2>2, <3>3
    <3>4. CASE i \notin Server /\ j \in Server
      BY <1>3, <2>2, <3>4
    <3> QED BY <3>1, <3>2, <3>3, <3>4
  <2>3. ASSUME NEW i \in Server' PROVE servers'[i].by # Quit
    BY <1>3, <1>a, <1>b DEF StartInv
  <2> QED BY <2>1, <2>2, <2>3 DEF StartInv
<1>5. ConfigInv'
  <2> SUFFICES ASSUME ~overlapped', call'[Quit].pc = "idle"
               PROVE  OneAtATime' /\ AsFiled' /\ StartOwns' /\ RequestsKnow'
    BY DEF ConfigInv
  <2>0. call[Quit].pc = "idle" /\ \A d \in Requests : Busy(d) => d = c
    BY <1>1, <1>b
  <2>1. \A d \in Requests : d # c => call'[d] = call[d] /\ ~Busy(d)
    BY <1>1, <2>0 DEF Calls
  <2>2. OneAtATime'
    BY <2>1 DEF OneAtATime, Busy
  <2>3. AsFiled'
    BY <2>0 DEF AsFiled, Serves
  <2>4. StartOwns'
    <3>1. ASSUME NEW i \in Server', servers'[i].by \in Requests, Pending(i)'
          PROVE  runtime'[servers'[i].name] \in {i, NoServer}
      <4>1. CASE i \in Server
        BY <1>3, <2>1, <3>1, <4>1 DEF Busy
      <4>2. CASE i \notin Server
        BY <4>2
      <4> QED BY <4>1, <4>2
    <3> QED BY <3>1 DEF StartOwns
  <2>5. RequestsKnow'
    <3>1. ASSUME NEW d \in Requests, d # c PROVE call'[d].pc \notin {"testing", "shutting"}
      BY <2>1, <3>1 DEF Busy
    <3> QED BY <1>1, <1>b, <2>0, <3>1 DEF RequestsKnow, Present, Serves
  <2> QED BY <2>2, <2>3, <2>4, <2>5
<1> QED BY <1>1, <1>2, <1>4, <1>5 DEF Parts

LEMMA SameServers ==
    ASSUME ServersOK, servers' = servers
    PROVE  ServersOK' /\ Marked
<1>1. ServersOK' /\ Server' = Server
  BY DEF ServersOK, Server
<1> QED BY <1>1 DEF Marked

LEMMA ShutdownTimesOutStep ==
    ASSUME Parts, NEW c \in Calls, ShutdownTimesOut(c)
    PROVE  Parts'
<1> DEFINE k == [call[c] EXCEPT !.pc = "forcing"]
<1>a. /\ ServersOK /\ CallsOK /\ call[c] \in CallRec
      /\ \A i \in Server : servers[i] \in Rec
  BY ServerFact DEF Parts, CallsOK, ServersOK
<1>1. /\ call[c].pc = "shutting" /\ servers' = Cancelled(servers, call[c].targets)
      /\ UNCHANGED <<config, runtime, tools, struck, overlapped>>
      /\ call' = [call EXCEPT ![c].pc = "forcing"]
  BY DEF ShutdownTimesOut
<1>2. ServersOK' /\ Marked
  BY <1>1, <1>a, CancelFact DEF Server
<1>3. /\ k \in CallRec' /\ k.pc = "forcing" /\ k.adds = call[c].adds /\ k.next = call[c].next
  BY <1>a, <1>2 DEF CallRec, Pcs, Marked
<1>4. call' = [call EXCEPT ![c] = k]
  BY <1>1, <1>a DEF CallsOK
<1> HIDE DEF k
<1> QED BY <1>1, <1>2, <1>3, <1>4, CloseStep

\* A request whose servers are down is over, and owes nothing.
LEMMA EndStep ==
    ASSUME Parts, NEW c \in Calls, call[c].pc \in {"testing", "shutting", "forcing"},
           call' = [call EXCEPT ![c] = EndedCall],
           UNCHANGED <<config, servers, runtime, tools, struck, overlapped>>
    PROVE  Parts'
<1>1. ServersOK' /\ Marked
  BY SameServers DEF Parts
<1> QED BY <1>1, EndedCallFact, CloseStep

\* What enable_mcp_server leaves of the call that called it
LEMMA EnabledCall ==
    ASSUME CallsOK, NEW c \in Calls
    PROVE  LET k == [Fresh EXCEPT !.pc = "starting", !.adds = call[c].adds]
           IN k \in CallRec' /\ k.pc = "starting" /\ k.targets = {}
<1>1. [n \in Names |-> Absent] \in Entries
  BY DEF Entries, Absent, Entry
<1>2. call[c].adds \in BOOLEAN
  BY DEF CallsOK, CallRec
<1> HIDE DEF Entries
<1> QED BY <1>1, <1>2 DEF Fresh, CallRec, Pcs

\* Request c starts the server of name n, which is in the file as it will run.
LEMMA EnableStep ==
    ASSUME Parts, NEW c \in Requests, call[Boot].pc # "idle", call[c].pc # "starting",
           NEW n \in Names, NEW set \in Calls, Enable(c, n, set), UNCHANGED <<tools, struck>>,
           FileOK',
           ~overlapped' /\ call[Quit].pc = "idle" =>
             /\ \A d \in Requests : Busy(d) => d = c
             /\ \A i \in Server \ struck : ~Doomed(i) =>
                  Serves(config'[servers[i].name], servers[i].settings)
             /\ Serves(config'[n], set)
    PROVE  Parts'
<1>a. ServersOK /\ TableOK /\ CallsOK /\ TableInv /\ c \in Calls
  BY DEF Parts, Calls
<1>1. /\ ServersOK' /\ TableOK' /\ TableInv' /\ Keeps
      /\ \/ servers' = servers /\ runtime' = runtime
         \/ \E k : /\ k \notin Server /\ Server' = Server \cup {k}
                   /\ runtime[n] = NoServer /\ runtime' = [runtime EXCEPT ![n] = k]
                   /\ servers'[k] = New(n, set, c)
                   /\ \A j \in Server : servers'[j] = servers[j]
  BY <1>a, EnableTable
<1> DEFINE k == [Fresh EXCEPT !.pc = "starting", !.adds = call[c].adds]
<1>2. CASE runtime[n] # NoServer
  <2>1. servers' = servers /\ runtime' = runtime /\ call' = [call EXCEPT ![c] = EndedCall]
    BY <1>2 DEF Enable
  <2>2. Server' = Server
    BY <2>1 DEF Server
  <2>3. \A i \in Server : Doomed(i)' <=> Doomed(i)
    BY <2>1 DEF Doomed
  <2>4. Knows(EndedCall)
    BY EndedCallFact DEF Knows
  <2>5. ~overlapped' /\ call[Quit].pc = "idle" =>
             /\ \A d \in Requests : Busy(d) => d = c
             /\ \A i \in Server' \ struck' : ~Doomed(i)' =>
                  Serves(config'[servers'[i].name], servers'[i].settings)
    BY <2>1, <2>2, <2>3
  <2> QED BY <1>1, <2>1, <2>2, <2>4, <2>5, EndedCallFact, RequestStep
<1>3. CASE runtime[n] = NoServer
  <2>1. call' = [call EXCEPT ![c] = k]
    BY <1>3 DEF Enable
  <2>2. k \in CallRec' /\ k.pc = "starting" /\ k.targets = {} /\ Knows(k)
    <3>1. k \in CallRec' /\ k.pc = "starting" /\ k.targets = {}
      BY <1>a, EnabledCall
    <3> HIDE DEF k
    <3> QED BY <3>1 DEF Knows
  <2>3. servers' # servers
    BY <1>3, <1>a, ServerFact DEF Enable, ServersOK
  <2>4. PICK s : /\ s \notin Server /\ Server' = Server \cup {s}
                 /\ runtime' = [runtime EXCEPT ![n] = s]
                 /\ servers'[s] = New(n, set, c)
                 /\ \A j \in Server : servers'[j] = servers[j]
    BY <1>1, <2>3
  <2>5. /\ servers'[s].name = n /\ servers'[s].by = c /\ runtime'[n] = s
        /\ servers'[s].settings = set
    BY <1>a, <2>4 DEF New, TableOK
  <2>6. \A i \in Server : Doomed(i)' <=> Doomed(i)
    BY <2>4 DEF Doomed
  <2> HIDE DEF k
  <2>7. ~overlapped' /\ call[Quit].pc = "idle" =>
             /\ \A d \in Requests : Busy(d) => d = c
             /\ \A i \in Server' \ struck' : ~Doomed(i)' =>
                  Serves(config'[servers'[i].name], servers'[i].settings)
    BY <2>4, <2>5, <2>6
  <2>8. k.pc # "testing" /\ k.pc # "shutting" /\ k.pc # "forcing"
    BY <2>2
  <2>9. \A j \in Server' \ Server :
             /\ servers'[j].by = c /\ k.pc = "starting" /\ runtime'[servers'[j].name] = j
             /\ \A i \in Server' \ Server : i = j
    BY <2>2, <2>4, <2>5 DEF New
  <2> QED BY <1>1, <2>1, <2>2, <2>7, <2>8, <2>9, RequestStep
<1> QED BY <1>2, <1>3

\* A new request of the dashboard
LEMMA RequestFact ==
    ASSUME Parts, NEW c \in Requests, Request(c)
    PROVE  /\ call[c].pc = "idle" /\ call[Boot].pc # "idle" /\ overlapped' \in BOOLEAN
           /\ ~overlapped' /\ call[Quit].pc = "idle" =>
                /\ \A d \in Requests : ~Busy(d)
                /\ AsFiled
<1>1. overlapped \in BOOLEAN /\ ConfigInv
  BY DEF Parts, FileOK
<1>2. overlapped' = (overlapped \/ \E d \in Requests : Busy(d))
  BY DEF Request, Busy
<1> QED BY <1>1, <1>2 DEF Request, ConfigInv

\* Request c writes the file, and then shuts the servers D down, starts one or is over.
LEMMA DisableStep ==
    ASSUME Parts, NEW c \in Requests, Request(c), NEW D \in SUBSET Server,
           NEW next \in Names \cup {NoName}, NEW set \in Calls \cup {NoSettings},
           next # NoName => set \in Calls,
           Shutdown(c, D, next, set), UNCHANGED <<tools, struck>>, FileOK',
           ~overlapped' /\ call[Quit].pc = "idle" =>
             /\ \A i \in Server \ struck : ~Doomed(i) /\ i \notin D =>
                  Serves(config'[servers[i].name], servers[i].settings)
             /\ next # NoName => Serves(config'[next], set)
    PROVE  Parts'
<1>a. /\ ServersOK /\ TableOK /\ CallsOK /\ TableInv /\ CallInv /\ c \in Calls
      /\ call[c] \in CallRec
  BY DEF Parts, Calls, CallsOK
<1>b. /\ call[c].pc = "idle" /\ call[Boot].pc # "idle"
      /\ ~overlapped' /\ call[Quit].pc = "idle" => \A d \in Requests : ~Busy(d)
  BY RequestFact
<1>c. \A i \in Server : Doomed(i) <=> \/ servers[i].shutdown \/ servers[i].cancelled
                                      \/ servers[i].life \notin {"connecting", "serving"}
  BY DEF Doomed
<1>1. CASE \A i \in D : Ended(i)
  <2>1. \A i \in Server : ~Doomed(i) => i \notin D
    BY <1>1 DEF Doomed, Ended
  <2>2. CASE next # NoName
    <3>1. Enable(c, next, set)
      BY <1>1, <2>2 DEF Shutdown, Proceed
    <3> QED BY <1>b, <2>1, <2>2, <3>1, EnableStep
  <2>3. CASE next = NoName
    <3>1. call' = [call EXCEPT ![c] = EndedCall] /\ UNCHANGED <<servers, runtime>>
      BY <1>1, <2>3 DEF Shutdown, Proceed
    <3>2. ServersOK' /\ Marked
      BY <1>a, <3>1, SameServers
    <3>3. TableOK' /\ TableInv' /\ Keeps /\ Server' = Server
      BY <1>a, <3>1, <3>2, MarkedTable
    <3>4. Knows(EndedCall)
      BY EndedCallFact DEF Knows
    <3>5. \A i \in Server : Doomed(i)' <=> Doomed(i)
      BY <3>1 DEF Doomed
    <3>6. ~overlapped' /\ call[Quit].pc = "idle" =>
            /\ \A d \in Requests : Busy(d) => d = c
            /\ \A i \in Server' \ struck' : ~Doomed(i)' =>
                  Serves(config'[servers'[i].name], servers'[i].settings)
      BY <1>b, <2>1, <3>1, <3>3, <3>5
    <3> QED BY <1>b, <3>1, <3>2, <3>3, <3>4, <3>6, EndedCallFact, RequestStep
  <2> QED BY <2>2, <2>3
<1>2. CASE ~ \A i \in D : Ended(i)
  <2> DEFINE k == [call[c] EXCEPT !.pc = "shutting", !.next = next, !.settings = set, !.targets = D]
  <2>1. /\ servers' = Signalled(D) /\ runtime' = runtime
        /\ call' = [call EXCEPT ![c].pc = "shutting", ![c].next = next,
                                 ![c].settings = set, ![c].targets = D]
    BY <1>2 DEF Shutdown
  <2>2. ServersOK' /\ Marked /\ \A i \in D : ~Ended(i) => servers'[i].shutdown
    BY <1>a, <2>1, SignalFact
  <2>3. TableOK' /\ TableInv' /\ Keeps /\ Server' = Server
    BY <1>a, <2>1, <2>2, MarkedTable
  <2>4. call' = [call EXCEPT ![c] = k]
    BY <1>a, <2>1 DEF CallsOK
  <2>5. /\ k \in CallRec' /\ k.pc = "shutting" /\ k.next = next /\ k.settings = set
    BY <1>a, <2>3 DEF CallRec, Pcs
  <2> HIDE DEF k
  <2>6. Knows(k)
    BY <2>5 DEF Knows, Calls, Boot, Quit, NoSettings
  <2>7. \A i \in Server : ~Doomed(i)' => ~Doomed(i) /\ i \notin D
    BY <2>2 DEF Marked, Doomed, Ended
  <2>8. ~overlapped' /\ call[Quit].pc = "idle" =>
            /\ \A d \in Requests : Busy(d) => d = c
            /\ \A i \in Server' \ struck' : ~Doomed(i)' =>
                  Serves(config'[servers'[i].name], servers'[i].settings)
            /\ next # NoName => next \in Names /\ Serves(config'[next], set)
    <3>1. \A i \in Server : servers'[i].name = servers[i].name
                            /\ servers'[i].settings = servers[i].settings
      BY <2>3 DEF Keeps
    <3> QED BY <1>b, <2>3, <2>7, <3>1
  <2> QED BY <1>b, <2>2, <2>3, <2>4, <2>5, <2>6, <2>8, RequestStep
<1> QED BY <1>1, <1>2

\* The requests of the dashboard, one by one
LEMMA UpdateStep ==
    ASSUME Parts, NEW c \in Requests, NEW old \in Names, NEW new \in Names,
           NEW active \in BOOLEAN, NEW full \in BOOLEAN, Update(c, old, new, active, full)
    PROVE  Parts'
<1> DEFINE set == IF full THEN c ELSE config[old].settings
           D == {runtime[old]} \ {NoServer}
           next == IF active THEN new ELSE NoName
<1>a. /\ ServersOK /\ TableOK /\ FileOK /\ TableInv
      /\ \A i \in Server : servers[i] \in Rec
  BY ServerFact DEF Parts, ServersOK
<1>b. /\ overlapped' \in BOOLEAN
      /\ ~overlapped' /\ call[Quit].pc = "idle" => AsFiled
  BY RequestFact DEF Update
<1>1. PICK entry \in Written(c, old, active, full) :
            /\ Request(c) /\ Present(old) /\ (new = old \/ ~Present(new))
            /\ config' = [config EXCEPT ![old] = Absent, ![new] = entry]
            /\ Shutdown(c, D, next, entry.settings) /\ UNCHANGED <<tools, struck>>
  BY DEF Update
<1>w. PICK stored \in BOOLEAN :
            entry = [active |-> stored, wanted |-> active, settings |-> set]
  <2>1. PICK stored \in IF full THEN Stored(c, active) ELSE {active} :
            entry = Entry(stored, active, set)
    BY DEF Written
  <2>2. stored \in BOOLEAN
    BY <2>1 DEF Stored
  <2> QED BY <2>1, <2>2 DEF Entry
<1>s. entry.settings = set /\ entry.wanted = active
  BY <1>w
<1>2. set \in Calls
  BY <1>a, <1>1 DEF Present, FileOK, Entries, Calls
<1> HIDE DEF set
<1>e. entry \in [active : BOOLEAN, wanted : BOOLEAN, settings : Calls \cup {NoSettings}]
  BY <1>w, <1>2
<1>3. FileOK' /\ \A n \in Names : config'[n] =
            IF n = new THEN entry ELSE IF n = old THEN Absent ELSE config[n]
  BY <1>a, <1>b, <1>1, <1>e DEF FileOK, Entries, Absent, Entry
<1>4. D \in SUBSET Server
  BY <1>a DEF TableOK
<1>5. ASSUME ~overlapped', call[Quit].pc = "idle"
      PROVE  /\ \A i \in Server \ struck : ~Doomed(i) /\ i \notin D =>
                  Serves(config'[servers[i].name], servers[i].settings)
             /\ next # NoName => Serves(config'[next], set)
  <2>1. ASSUME NEW i \in Server \ struck, ~Doomed(i), i \notin D
        PROVE  Serves(config'[servers[i].name], servers[i].settings)
    <3>1. /\ Serves(config[servers[i].name], servers[i].settings) /\ servers[i].name \in Names
          /\ servers[i].settings # NoSettings /\ runtime[servers[i].name] = i
          /\ i # NoServer
      BY <1>a, <1>b, <1>5, <2>1, ServerFact
         DEF AsFiled, Rec, Calls, TableInv, LiveIsListed, Doomed, Ended, Boot, Quit, NoSettings, ServersOK
    <3>2. servers[i].name # old
      BY <2>1, <3>1
    <3>3. servers[i].name # new
      BY <1>1, <3>1, <3>2 DEF Serves, Present
    <3> QED BY <1>3, <3>1, <3>2, <3>3
  <2>2. ASSUME active PROVE Serves(config'[new], set)
    BY <1>3, <1>s, <2>2 DEF Serves
  <2> QED BY <2>1, <2>2
<1>6. next \in Names \cup {NoName} /\ (next # NoName => set \in Calls)
  BY <1>2
<1>7. Shutdown(c, D, next, set)
  BY <1>1, <1>s
<1> HIDE DEF next, D
<1> QED BY <1>1, <1>2, <1>3, <1>4, <1>5, <1>6, <1>7, DisableStep

LEMMA DeleteStep ==
    ASSUME Parts, NEW c \in Requests, NEW n \in Names, Delete(c, n)
    PROVE  Parts'
<1> DEFINE D == {runtime[n]} \ {NoServer}
<1>a. /\ ServersOK /\ TableOK /\ FileOK /\ TableInv
      /\ \A i \in Server : servers[i] \in Rec
  BY ServerFact DEF Parts, ServersOK
<1>b. /\ overlapped' \in BOOLEAN
      /\ ~overlapped' /\ call[Quit].pc = "idle" => AsFiled
  BY RequestFact DEF Delete
<1>1. /\ Request(c) /\ config' = [config EXCEPT ![n] = Absent]
      /\ Shutdown(c, D, NoName, NoSettings) /\ UNCHANGED <<tools, struck>>
  BY DEF Delete
<1>3. FileOK' /\ \A m \in Names : config'[m] = IF m = n THEN Absent ELSE config[m]
  BY <1>a, <1>b, <1>1 DEF FileOK, Entries, Absent, Entry
<1>4. D \in SUBSET Server
  BY <1>a DEF TableOK
<1>5. ASSUME ~overlapped', call[Quit].pc = "idle",
             NEW i \in Server \ struck, ~Doomed(i), i \notin D
      PROVE  Serves(config'[servers[i].name], servers[i].settings)
  <2>1. /\ Serves(config[servers[i].name], servers[i].settings) /\ servers[i].name \in Names
        /\ runtime[servers[i].name] = i /\ i # NoServer
    BY <1>a, <1>b, <1>5, ServerFact
       DEF AsFiled, Rec, TableInv, LiveIsListed, Doomed, Ended, ServersOK
  <2>2. servers[i].name # n
    BY <1>5, <2>1
  <2> QED BY <1>3, <2>1, <2>2
<1> HIDE DEF D
<1> QED BY <1>1, <1>3, <1>4, <1>5, DisableStep

LEMMA AddStep ==
    ASSUME Parts, NEW c \in Requests, NEW n \in Names, Add(c, n)
    PROVE  Parts'
<1> DEFINE k == [Fresh EXCEPT !.adds = TRUE, !.pc = "testing", !.name = n, !.seen = config]
<1>a. /\ ServersOK /\ TableOK /\ FileOK /\ TableInv
  BY DEF Parts
<1>b. /\ call[c].pc = "idle" /\ call[Boot].pc # "idle" /\ overlapped' \in BOOLEAN
      /\ ~overlapped' /\ call[Quit].pc = "idle" => AsFiled /\ \A d \in Requests : ~Busy(d)
  BY RequestFact DEF Add
<1>1. /\ ~Present(n) /\ call' = [call EXCEPT ![c] = k]
      /\ UNCHANGED <<config, servers, runtime, tools, struck>>
  BY DEF Add
<1>2. ServersOK' /\ Marked
  BY <1>a, <1>1, SameServers
<1>3. TableOK' /\ TableInv' /\ Keeps /\ Server' = Server
  BY <1>a, <1>1, <1>2, MarkedTable
<1>4. k \in CallRec' /\ k.pc = "testing" /\ k.targets = {} /\ k.seen = config /\ k.name = n
  <2>1. config \in Entries
    BY <1>a DEF FileOK
  <2> HIDE DEF Entries
  <2> QED BY <2>1 DEF CallRec, Fresh, Pcs
<1>5. FileOK'
  BY <1>a, <1>b, <1>1 DEF FileOK
<1> HIDE DEF k
<1>6. Knows(k)
  BY <1>4 DEF Knows
<1>7. ASSUME ~overlapped', call[Quit].pc = "idle", NEW i \in Server' \ struck', ~Doomed(i)'
      PROVE  Serves(config'[servers'[i].name], servers'[i].settings)
  BY <1>b, <1>1, <1>3, <1>7 DEF AsFiled, Doomed
<1>8. config'[n].settings = NoSettings
  BY <1>1 DEF Present
<1> QED BY <1>b, <1>1, <1>2, <1>3, <1>4, <1>5, <1>6, <1>7, <1>8, RequestStep

LEMMA AddTestedStep ==
    ASSUME Parts, NEW c \in Requests, AddTested(c)
    PROVE  Parts'
<1> DEFINE n == call[c].name
<1>a. /\ FileOK /\ CallsOK /\ CallInv /\ ConfigInv /\ ServersOK
      /\ \A i \in Server : servers[i] \in Rec
  BY ServerFact DEF Parts, ServersOK
<1>1. /\ call[c].pc = "testing" /\ Enable(c, n, c) /\ UNCHANGED <<tools, struck, overlapped>>
      /\ \E active \in BOOLEAN : config' =
            [call[c].seen EXCEPT ![n] = [active |-> active, wanted |-> TRUE, settings |-> c]]
  BY DEF AddTested, Stored, Entry
<1>2. c \in Calls /\ call[c] \in CallRec /\ call[Boot].pc # "idle"
  BY <1>a, <1>1 DEF Calls, CallsOK, CallInv
<1>3. n \in Names
  BY <1>a, <1>1, <1>2 DEF CallInv, Knows, CallRec
<1>4. call[c].seen \in Entries
  BY <1>2 DEF CallRec
<1>n. n = call[c].name
  OBVIOUS
<1> HIDE DEF n
<1>5. FileOK'
  BY <1>a, <1>1, <1>2, <1>3, <1>4 DEF FileOK, Entries
<1>6. ASSUME ~overlapped', call[Quit].pc = "idle"
      PROVE  /\ \A d \in Requests : Busy(d) => d = c
             /\ \A i \in Server \ struck : ~Doomed(i) =>
                  Serves(config'[servers[i].name], servers[i].settings)
             /\ Serves(config'[n], c)
  <2>0. OneAtATime /\ AsFiled /\ RequestsKnow
    BY <1>a, <1>1, <1>6 DEF ConfigInv
  <2>1. Busy(c)
    BY <1>1 DEF Busy
  <2>2. call[c].seen = config /\ config[n].settings = NoSettings
    BY <1>1, <1>n, <2>0 DEF RequestsKnow, Present
  <2>3. ASSUME NEW i \in Server \ struck, ~Doomed(i)
        PROVE  Serves(config'[servers[i].name], servers[i].settings)
    <3>1. Serves(config[servers[i].name], servers[i].settings)
      BY <2>0, <2>3 DEF AsFiled
    <3>2. servers[i].settings # NoSettings /\ servers[i].name \in Names
      BY <1>a, <2>3 DEF Rec, Calls, Boot, Quit, NoSettings
    <3>3. servers[i].name # n
      BY <2>2, <3>1, <3>2 DEF Serves
    <3> QED BY <1>1, <1>4, <2>2, <3>1, <3>2, <3>3 DEF Entries
  <2>4. Serves(config'[n], c)
    BY <1>1, <1>3, <1>4 DEF Entries, Serves
  <2> QED BY <2>0, <2>1, <2>3, <2>4 DEF OneAtATime
<1> QED BY <1>1, <1>2, <1>3, <1>5, <1>6, EnableStep

\* The servers a request had to shut down are down: it goes on or is over.
LEMMA ShutdownDoneStep ==
    ASSUME Parts, NEW c \in Calls, ShutdownDone(c)
    PROVE  Parts'
<1> DEFINE next == call[c].next
           set == call[c].settings
<1>a. /\ FileOK /\ CallsOK /\ CallInv /\ ConfigInv /\ call[c] \in CallRec
  BY DEF Parts, CallsOK
<1>1. /\ call[c].pc = "shutting" /\ Proceed(c, next, set)
      /\ UNCHANGED <<config, tools, struck, overlapped>>
  BY DEF ShutdownDone
<1>2. CASE next = NoName
  <2>1. call' = [call EXCEPT ![c] = EndedCall] /\ UNCHANGED <<servers, runtime>>
    BY <1>1, <1>2 DEF Proceed
  <2> QED BY <1>1, <2>1, EndStep
<1>3. CASE next # NoName
  <2>1. Enable(c, next, set)
    BY <1>1, <1>3 DEF Proceed
  <2>2. c \in Requests /\ call[Boot].pc # "idle"
    BY <1>a, <1>1, <1>3 DEF CallInv, Calls
  <2>3. next \in Names /\ set \in Calls
    BY <1>a, <1>1, <1>3 DEF CallRec, CallInv, Knows
  <2>n. next = call[c].next /\ set = call[c].settings
    OBVIOUS
  <2> HIDE DEF next, set
  <2>4. FileOK'
    BY <1>a, <1>1 DEF FileOK
  <2>5. ASSUME ~overlapped', call[Quit].pc = "idle"
        PROVE  /\ \A d \in Requests : Busy(d) => d = c
               /\ \A i \in Server \ struck : ~Doomed(i) =>
                    Serves(config'[servers[i].name], servers[i].settings)
               /\ Serves(config'[next], set)
    <3>1. OneAtATime /\ AsFiled /\ RequestsKnow
      BY <1>a, <1>1, <2>5 DEF ConfigInv
    <3>2. Busy(c)
      BY <1>1 DEF Busy
    <3>3. Serves(config[next], set)
      BY <1>1, <1>3, <2>2, <2>n, <3>1 DEF RequestsKnow
    <3> QED BY <1>1, <2>2, <3>1, <3>2, <3>3 DEF OneAtATime, AsFiled
  <2> QED BY <1>1, <2>1, <2>2, <2>3, <2>4, <2>5, EnableStep
<1> QED BY <1>2, <1>3

\* Boot and shutdown of the program
LEMMA BootEndsStep ==
    ASSUME Parts, BootEnds
    PROVE  Parts'
<1>a. /\ ServersOK /\ TableOK /\ CallsOK /\ TableInv /\ CallInv /\ Boot \in Calls
  BY DEF Parts, Calls
<1>1. /\ ServersOK' /\ TableOK' /\ TableInv' /\ Keeps /\ Server' = Server /\ Removes
      /\ servers' = servers
  BY <1>a, BootEndsTable
<1>2. call[Boot].pc = "starting" /\ call' = [call EXCEPT ![Boot] = EndedCall]
      /\ UNCHANGED <<config, overlapped>>
  BY DEF BootEnds
<1>3. CallsOK' /\ call'[Boot] = EndedCall /\ \A d \in Calls : d # Boot => call'[d] = call[d]
  BY <1>1, <1>2, <1>a, CallFact, EndedCallFact
<1>4. CallsGo
  <2>1. call'[Quit] = call[Quit] /\ Quit \in Calls
    BY <1>3 DEF Calls, Boot, Quit
  <2>2. \A d \in Requests : call'[d] = call[d]
    BY <1>3 DEF Calls
  <2>3. \A d \in Calls : Knows(call'[d])
             /\ (call'[d].pc \notin {"shutting", "forcing"} => call'[d].targets = {})
    BY <1>3, <1>a, EndedCallFact DEF CallInv, Knows
  <2> QED BY <1>2, <1>3, <1>a, <2>1, <2>2, <2>3, EndedCallFact DEF CallsGo, CallInv
<1>5. \A n \in Names : runtime'[n] \in {runtime[n], NoServer}
  BY <1>1 DEF Removes
<1> QED BY <1>1, <1>2, <1>3, <1>4, <1>5, RestStep

LEMMA BootStartsStep ==
    ASSUME Parts, BootStarts
    PROVE  Parts'
<1> DEFINE k == [call[Boot] EXCEPT !.pc = "starting"]
<1>a. /\ TypeOK /\ ServersOK /\ TableOK /\ CallsOK /\ FileOK /\ TableInv /\ CallInv /\ Boot \in Calls
      /\ Boot \notin Requests /\ Quit \in Calls /\ Quit # Boot
  BY TypeParts DEF Parts, Calls, Boot, Quit
<1>1. /\ ServersOK' /\ TableOK' /\ TableInv' /\ Keeps
      /\ \A i \in Server' :
           /\ servers'[i].by = Boot
           /\ Serves(config[servers'[i].name], servers'[i].settings)
  BY <1>a, BootStartsTable
<1>2. /\ call[Boot].pc = "idle" /\ UNCHANGED <<config, overlapped>>
      /\ call' = [call EXCEPT ![Boot].pc = "starting"]
  BY DEF BootStarts
<1>3. /\ k \in CallRec' /\ k.pc = "starting" /\ k.adds = call[Boot].adds
      /\ k.targets = call[Boot].targets
  <2>1. call[Boot] \in CallRec /\ Server \subseteq Server'
    BY <1>a, <1>1 DEF CallsOK, Keeps
  <2> QED BY <2>1 DEF CallRec, Pcs
<1>4. call' = [call EXCEPT ![Boot] = k]
  BY <1>a, <1>2 DEF CallsOK
<1> HIDE DEF k
<1>5. CallsOK' /\ call'[Boot] = k /\ \A d \in Calls : d # Boot => call'[d] = call[d]
  BY <1>1, <1>3, <1>4, <1>a, CallFact DEF Keeps
<1>6. CallInv'
  <2>1. \A d \in Calls : Knows(call'[d])
             /\ (call'[d].pc \notin {"shutting", "forcing"} => call'[d].targets = {})
    BY <1>2, <1>3, <1>5, <1>a DEF CallInv, Knows
  <2> QED BY <1>3, <1>5, <1>a, <2>1 DEF CallInv
<1>7. StartInv'
  BY <1>1, <1>a DEF StartInv
<1>8. \A d \in Requests : call'[d].pc = "idle"
  BY <1>2, <1>5, <1>a DEF CallInv, Calls
<1>9. OneAtATime' /\ StartOwns' /\ RequestsKnow'
  BY <1>1, <1>8, <1>a DEF OneAtATime, StartOwns, RequestsKnow, Busy
<1>10. AsFiled'
  BY <1>1, <1>2 DEF AsFiled, Serves
<1>11. FileOK'
  BY <1>2, <1>a DEF FileOK
<1> QED BY <1>1, <1>5, <1>6, <1>7, <1>9, <1>10, <1>11 DEF Parts, ConfigInv

\* What the shutdown writes into its own record and the boot's
LEMMA QuitCalls ==
    ASSUME Parts, Server' = Server, NEW q, q \in CallRec', NEW b, b \in CallRec',
           call' = [call EXCEPT ![Quit] = q, ![Boot] = b],
           q.pc # "idle", ~q.adds, q.next = NoName,
           q.pc \notin {"shutting", "forcing"} => q.targets = {}, Knows(q),
           b.pc \in {"cancelling", "done"}, ~b.adds, b.targets = {}, call[Boot].pc # "idle"
    PROVE  CallsOK' /\ CallsGo
<1>a. CallsOK /\ CallInv /\ Quit \in Calls /\ Boot \in Calls /\ Quit # Boot
      /\ Quit \notin Requests /\ Boot \notin Requests
  BY DEF Parts, Calls, Quit, Boot
<1>1. /\ DOMAIN call' = Calls /\ call'[Quit] = q /\ call'[Boot] = b
      /\ \A d \in Calls : d # Quit /\ d # Boot => call'[d] = call[d]
      /\ call' = [d \in Calls |-> call'[d]]
  BY <1>a DEF CallsOK
<1>2. CallsOK'
  <2>1. \A d \in Calls : call[d] \in CallRec'
    BY <1>a DEF CallsOK, CallRec
  <2>2. \A d \in Calls : call'[d] \in CallRec'
    BY <1>1, <2>1
  <2> QED BY <1>1, <2>2 DEF CallsOK
<1>3. \A d \in Calls : Knows(call'[d])
             /\ (call'[d].pc \notin {"shutting", "forcing"} => call'[d].targets = {})
  BY <1>1, <1>a DEF CallInv, Knows
<1>4. \A d \in Requests : call'[d] = call[d]
  BY <1>1, <1>a DEF Calls
<1> QED BY <1>1, <1>2, <1>3, <1>4 DEF CallsGo

LEMMA QuitBeginsStep ==
    ASSUME Parts, QuitBegins
    PROVE  Parts'
<1> DEFINE q == [call[Quit] EXCEPT !.pc = "cancelling"]
           b == [call[Boot] EXCEPT !.pc = IF Over(Boot) THEN call[Boot].pc ELSE "cancelling"]
<1>a. /\ ServersOK /\ TableOK /\ CallsOK /\ TableInv /\ CallInv
      /\ call[Quit] \in CallRec /\ call[Boot] \in CallRec /\ Quit # Boot
  BY DEF Parts, CallsOK, Calls, Quit, Boot
<1>1. /\ call[Quit].pc = "idle" /\ call[Boot].pc # "idle"
      /\ UNCHANGED <<config, runtime, tools, struck, overlapped>>
      /\ call' = [call EXCEPT ![Quit].pc = "cancelling",
                              ![Boot].pc = IF Over(Boot) THEN @ ELSE "cancelling"]
  BY DEF QuitBegins
<1>2. ServersOK' /\ Marked
  BY <1>a, QuitBeginsTable
<1>3. TableOK' /\ TableInv' /\ Keeps /\ Server' = Server
  BY <1>a, <1>1, <1>2, MarkedTable
<1>4. /\ q \in CallRec' /\ q.pc = "cancelling" /\ q.adds = call[Quit].adds
      /\ q.next = call[Quit].next /\ q.targets = call[Quit].targets
  BY <1>a, <1>3 DEF CallRec, Pcs
<1>5. /\ b \in CallRec' /\ b.pc = IF Over(Boot) THEN call[Boot].pc ELSE "cancelling"
      /\ b.adds = call[Boot].adds /\ b.targets = call[Boot].targets
  BY <1>a, <1>3 DEF CallRec, Pcs
<1>6. call' = [call EXCEPT ![Quit] = q, ![Boot] = b]
  <2>1. Quit \in DOMAIN call /\ Boot \in DOMAIN call
    BY <1>a DEF CallsOK, Calls
  <2>2. [call EXCEPT ![Quit] = q, ![Boot] = b] = [d \in DOMAIN call |->
            IF d = Boot THEN b ELSE IF d = Quit THEN q ELSE call[d]]
    BY <2>1, <1>a
  <2>3. call' = [d \in DOMAIN call |->
            IF d = Boot THEN b ELSE IF d = Quit THEN q ELSE call[d]]
    BY <1>1, <2>1, <1>a
  <2> QED BY <2>2, <2>3
<1> HIDE DEF q, b
<1>7. CallsOK' /\ CallsGo
  <2>1. /\ ~q.adds /\ q.next = NoName /\ q.targets = {} /\ Knows(q)
        /\ b.pc \in {"cancelling", "done"} /\ ~b.adds /\ b.targets = {}
    BY <1>a, <1>1, <1>4, <1>5 DEF CallInv, Over, Knows, Calls
  <2> QED BY <1>1, <1>3, <1>4, <1>5, <1>6, <2>1, QuitCalls
<1> QED BY <1>1, <1>2, <1>3, <1>7, RestStep

LEMMA QuitDisablesStep ==
    ASSUME Parts, QuitDisables
    PROVE  Parts'
<1> DEFINE listed == {runtime[n] : n \in Names} \ {NoServer}
           q == [call[Quit] EXCEPT !.pc = "shutting", !.targets = listed]
           b == [call[Boot] EXCEPT !.pc = "done"]
<1>a. /\ ServersOK /\ TableOK /\ CallsOK /\ TableInv /\ CallInv
      /\ call[Quit] \in CallRec /\ call[Boot] \in CallRec /\ Quit # Boot
  BY DEF Parts, CallsOK, Calls, Quit, Boot
<1>1. /\ call[Quit].pc = "cancelling" /\ UNCHANGED <<config, runtime, tools, struck, overlapped>>
      /\ \/ /\ call' = [[call EXCEPT ![Boot].pc = "done"] EXCEPT ![Quit] = EndedCall]
            /\ servers' = servers
         \/ /\ call' = [[call EXCEPT ![Boot].pc = "done"]
                            EXCEPT ![Quit].pc = "shutting", ![Quit].targets = listed]
            /\ servers' = Signalled(listed)
  BY DEF QuitDisables
<1>b. call[Boot].pc # "idle" /\ listed \subseteq Server
  BY <1>1, <1>a, Begun DEF Calls, TableOK
<1>2. ServersOK' /\ Marked
  BY <1>1, <1>a, SameServers, SignalFact
<1>3. TableOK' /\ TableInv' /\ Keeps /\ Server' = Server
  BY <1>a, <1>1, <1>2, MarkedTable
<1>4. /\ q \in CallRec' /\ q.pc = "shutting" /\ q.adds = call[Quit].adds
      /\ q.next = call[Quit].next
  <2> HIDE DEF listed
  <2> QED BY <1>a, <1>b, <1>3 DEF CallRec, Pcs
<1>5. /\ b \in CallRec' /\ b.pc = "done" /\ b.adds = call[Boot].adds
      /\ b.targets = call[Boot].targets
  BY <1>a, <1>3 DEF CallRec, Pcs
<1>c. call[Boot].targets = {} /\ ~call[Boot].adds /\ ~call[Quit].adds /\ call[Quit].next = NoName
  BY <1>a DEF CallInv, Calls
<1>d. Quit \in DOMAIN call /\ Boot \in DOMAIN call
  BY <1>a DEF CallsOK, Calls
<1>e. \A v : [call EXCEPT ![Quit] = v, ![Boot] = b] = [d \in DOMAIN call |->
            IF d = Boot THEN b ELSE IF d = Quit THEN v ELSE call[d]]
  BY <1>d, <1>a
<1>6. CASE /\ call' = [[call EXCEPT ![Boot].pc = "done"] EXCEPT ![Quit] = EndedCall]
           /\ servers' = servers
  <2>1. call' = [call EXCEPT ![Quit] = EndedCall, ![Boot] = b]
    <3>1. call' = [d \in DOMAIN call |->
            IF d = Boot THEN b ELSE IF d = Quit THEN EndedCall ELSE call[d]]
      BY <1>6, <1>d, <1>a
    <3> QED BY <1>e, <3>1
  <2> HIDE DEF b
  <2>2. Knows(EndedCall)
    BY EndedCallFact DEF Knows
  <2>3. CallsOK' /\ CallsGo
    BY <1>3, <1>5, <1>b, <1>c, <2>1, <2>2, EndedCallFact, QuitCalls
  <2> QED BY <1>1, <1>2, <1>3, <2>3, RestStep
<1>7. CASE /\ call' = [[call EXCEPT ![Boot].pc = "done"]
                            EXCEPT ![Quit].pc = "shutting", ![Quit].targets = listed]
           /\ servers' = Signalled(listed)
  <2>1. call' = [call EXCEPT ![Quit] = q, ![Boot] = b]
    <3> HIDE DEF listed
    <3>1. call' = [d \in DOMAIN call |->
            IF d = Boot THEN b ELSE IF d = Quit THEN q ELSE call[d]]
      <4> DEFINE X == [call EXCEPT ![Boot].pc = "done"]
      <4>1. /\ DOMAIN X = DOMAIN call /\ X[Boot] = b /\ X[Quit] = call[Quit]
            /\ \A d \in DOMAIN call : d # Boot => X[d] = call[d]
        BY <1>d, <1>a
      <4>2. call' = [X EXCEPT ![Quit].pc = "shutting", ![Quit].targets = listed]
        BY <1>7
      <4> HIDE DEF X, b
      <4>3. call' = [d \in DOMAIN X |->
                IF d = Quit THEN [X[Quit] EXCEPT !.pc = "shutting", !.targets = listed] ELSE X[d]]
        BY <1>d, <4>1, <4>2
      <4> QED BY <1>d, <1>a, <4>1, <4>3
    <3> QED BY <1>e, <3>1
  <2> HIDE DEF q, b
  <2>2. Knows(q)
    BY <1>4, <1>c DEF Knows
  <2>3. CallsOK' /\ CallsGo
    BY <1>3, <1>4, <1>5, <1>b, <1>c, <2>1, <2>2, QuitCalls
  <2> QED BY <1>1, <1>2, <1>3, <2>3, RestStep
<1> QED BY <1>1, <1>6, <1>7

----------------------------------------------------------------------------
(* The theorems                                                            *)

LEMMA InitParts == Init => Parts
<1> SUFFICES ASSUME Init PROVE Parts
  OBVIOUS
<1>1. Server = {} /\ servers = <<>> /\ tools = {} /\ struck = {} /\ overlapped = FALSE
  BY DEF Init, Server
<1>2. /\ \A c \in Calls : call[c] = Fresh
      /\ Fresh.pc = "idle" /\ Fresh.targets = {} /\ ~Fresh.adds /\ Fresh.next = NoName
      /\ Boot \in Calls /\ Quit \in Calls
  BY DEF Init, Fresh, Calls
<1>3. ServersOK
  BY <1>1 DEF ServersOK
<1>4. TableOK
  BY <1>1 DEF Init, TableOK
<1>5. FileOK
  BY <1>1 DEF Init, FileOK, Entries, Absent, Entry, Calls
<1>6. CallsOK
  <2>1. [n \in Names |-> Absent] \in Entries
    BY DEF Entries, Absent, Entry
  <2>2. Fresh \in CallRec
    <3> HIDE DEF Entries
    <3> QED BY <2>1 DEF CallRec, Fresh, Pcs
  <2> HIDE DEF Fresh, CallRec
  <2> QED BY <2>2 DEF Init, CallsOK
<1>7. TableInv
  BY <1>1 DEF Init, TableInv, ServerInv, RuntimeInv, LiveIsListed, ToolsInv, ToolsAreServed
<1>8. CallInv
  <2>1. \A n \in Names : config[n].active => Present(n) /\ config[n].wanted
    BY DEF Init, Present, Absent, Entry, Boot, NoSettings
  <2> QED BY <1>1, <1>2, <2>1 DEF CallInv, Knows
<1>9. StartInv
  BY <1>1 DEF StartInv
<1>10. ConfigInv
  BY <1>1, <1>2 DEF ConfigInv, OneAtATime, AsFiled, StartOwns, RequestsKnow, Busy, Calls
<1> QED BY <1>3, <1>4, <1>5, <1>6, <1>7, <1>8, <1>9, <1>10 DEF Parts

\* The steps, by who takes them.
LEMMA NextCases ==
    ASSUME Next
    PROVE  \/ \E i \in Server : Life(i) \/ StartTimesOut(i)
           \/ \E i \in Server : StartStep(i) /\ ~StartTimesOut(i)
           \/ \E c \in Calls : ShutdownDone(c) \/ ShutdownTimesOut(c) \/ ShutdownForced(c)
           \/ BootStarts \/ BootEnds \/ QuitBegins \/ QuitDisables
           \/ \E c \in Requests :
                \/ \E n \in Names : Add(c, n) \/ Delete(c, n)
                \/ AddTested(c) \/ AddRefused(c)
                \/ \E old, new \in Names, active, full \in BOOLEAN : Update(c, old, new, active, full)
BY DEF Next, Life, LifeStep, ShutdownStep

LEMMA StepParts ==
    ASSUME Parts, [Next]_vars
    PROVE  Parts'
<1>1. CASE UNCHANGED vars
  <2>1. /\ UNCHANGED <<config, servers, runtime, tools, call, struck, overlapped>>
    BY <1>1 DEF vars
  <2> QED BY <2>1 DEF Parts, ServersOK, TableOK, FileOK, CallsOK, CallRec, TableInv, ServerInv,
       RuntimeInv, LiveIsListed, ToolsInv, ToolsAreServed, CallInv, StartInv, ConfigInv, Server,
       OneAtATime, AsFiled, StartOwns, RequestsKnow, Busy, Doomed, Present, Ended, Of, Pending, Serves
<1>2. CASE \E i \in Server : Life(i) \/ StartTimesOut(i)
  BY <1>2, LifeKeeps
<1>3. CASE \E i \in Server : StartStep(i) /\ ~StartTimesOut(i)
  BY <1>3, FinishStep
<1>4. ASSUME NEW c \in Calls, ShutdownForced(c) PROVE Parts'
  BY <1>4, EndStep DEF ShutdownForced
<1>5. ASSUME NEW c \in Requests, AddRefused(c) PROVE Parts'
  BY <1>5, EndStep DEF AddRefused, Calls
<1> QED BY <1>1, <1>2, <1>3, <1>4, <1>5, NextCases, ShutdownDoneStep, ShutdownTimesOutStep,
           BootStartsStep, BootEndsStep, QuitBeginsStep, QuitDisablesStep, AddStep, DeleteStep,
           AddTestedStep, UpdateStep

\* The inductive invariant: which server the table lists under a name, and, while
\* the requests of the dashboard do not overlap, that what runs is what the file says.
THEOREM Invariance == Spec => []Inv
<1>1. Init => Parts
  BY InitParts
<1>2. Parts /\ [Next]_vars => Parts'
  BY StepParts
<1>3. Inv <=> Parts
  BY PartsFact
<1> QED BY <1>1, <1>2, <1>3, PTL DEF Spec

\* A server whose task is not over is in the runtime table, for any number of names
\* and of requests.
THEOREM LiveListed == Spec => []LiveIsListed
<1>1. Inv => LiveIsListed
  BY DEF Inv
<1> QED BY <1>1, Invariance, PTL

\* The tools in func_list are those of the servers that are connected.
THEOREM ToolsServed == Spec => []ToolsAreServed
<1>1. Inv => ToolsAreServed
  BY DEF Inv
<1> QED BY <1>1, Invariance, PTL

\* What runs when everything is at rest is in the file with the settings it runs with, and
\* the last request about it wanted it to run, unless requests of the dashboard have
\* overlapped (tools_service.py:101-230, func_tool_manager.py:644-772).
THEOREM Configuration == Spec => []RunsAsConfigured
<1>1. Inv => RunsAsConfigured
  <2> SUFFICES ASSUME Inv, AtRest, NEW i \in Server, Runs(i)
               PROVE  Serves(config[servers[i].name], servers[i].settings)
    BY DEF RunsAsConfigured, Serves
  <2>1. AsFiled /\ ~Doomed(i)
    BY DEF Inv, ConfigInv, Doomed, AtRest, Runs
  <2> QED BY <2>1 DEF AsFiled, Runs
<1> QED BY <1>1, Invariance, PTL

\* The step that ends a call comes when its servers are down.
LEMMA DownStep ==
    ASSUME Parts, Next, NEW c \in Calls, ~Over(c), Over(c)'
    PROVE  \A i \in call[c].targets : Ended(i)'
<1>a. /\ ServersOK /\ TableOK /\ CallsOK /\ TableInv /\ CallInv /\ StartInv
      /\ call[c] \in CallRec /\ call[c].targets \subseteq Server /\ Boot # Quit
      /\ \A i \in Server : servers[i] \in Rec
  BY ServerFact DEF Parts, CallsOK, CallRec, Boot, Quit, ServersOK
<1>1. CASE call[c].pc \notin {"shutting", "forcing"}
  BY <1>1, <1>a DEF CallInv
<1>2. CASE call[c].pc \in {"shutting", "forcing"}
  <2>0. c # Boot /\ call'[c] # call[c]
    BY <1>2, <1>a DEF CallInv, Over
  <2>1. ASSUME NEW i \in Server, Life(i) \/ StartTimesOut(i) PROVE FALSE
    BY <2>0, <2>1 DEF Life, LifeStep, Connected, ConnectFailed, ConnectEnds, ConnectCancelled,
          Terminate, Terminated, StartTimesOut
  <2>2. ASSUME NEW i \in Server, StartStep(i), ~StartTimesOut(i) PROVE FALSE
    <3>1. PICK ok \in BOOLEAN : Finish(i, ok) /\ Pending(i)
      BY <1>a, <2>2, FinishActions
    <3>2. call' = call \/ call' = [call EXCEPT ![servers[i].by] = EndedCall]
      BY <3>1 DEF Finish
    <3>3. servers[i].by = c
      BY <1>a, <2>0, <3>2 DEF CallsOK
    <3>4. c \in Requests => call[c].pc = "starting"
      BY <1>a, <3>1, <3>3 DEF StartInv
    <3>5. c # Quit
      BY <1>a, <3>3 DEF StartInv
    <3> QED BY <1>2, <2>0, <3>4, <3>5 DEF Calls
  <2>3. ASSUME NEW d \in Calls, ShutdownDone(d) \/ ShutdownTimesOut(d) \/ ShutdownForced(d)
        PROVE  \A i \in call[c].targets : Ended(i)'
    <3>1. d = c
      BY <1>a, <2>0, <2>3 DEF ShutdownDone, Proceed, Enable, ShutdownTimesOut, ShutdownForced, CallsOK
    <3>2. CASE ShutdownTimesOut(d)
      <4>1. call'[c] = [call[c] EXCEPT !.pc = "forcing"]
        BY <1>a, <3>1, <3>2 DEF ShutdownTimesOut, CallsOK
      <4> QED BY <1>a, <4>1 DEF Over, CallRec
    <3>3. CASE ShutdownForced(d)
      BY <3>1, <3>3 DEF ShutdownForced, Ended
    <3>4. CASE ShutdownDone(d)
      <4>1. \A i \in call[c].targets : servers[i].life = "ended"
        BY <3>1, <3>4 DEF ShutdownDone, Ended
      <4>2. CASE call[c].next = NoName
        BY <3>1, <3>4, <4>1, <4>2 DEF ShutdownDone, Proceed, Ended
      <4>3. CASE call[c].next # NoName
        <5>1. Enable(c, call[c].next, call[c].settings) /\ UNCHANGED <<tools, struck>>
          BY <3>1, <3>4, <4>3 DEF ShutdownDone, Proceed
        <5>2. call[c].next \in Names /\ call[c].settings \in Calls
          BY <1>a, <3>1, <3>4, <4>3 DEF CallRec, CallInv, Knows, ShutdownDone
        <5>3. Keeps
          BY <1>a, <5>1, <5>2, EnableTable
        <5> QED BY <1>a, <4>1, <5>3 DEF Keeps, Ended
      <4> QED BY <4>2, <4>3
    <3> QED BY <2>3, <3>2, <3>3, <3>4
  <2>4. ASSUME BootStarts \/ BootEnds PROVE FALSE
    BY <1>a, <2>0, <2>4 DEF BootStarts, BootEnds, CallsOK
  <2>5. ASSUME QuitBegins \/ QuitDisables PROVE FALSE
    <3>1. c # Quit
      BY <1>2, <2>5 DEF QuitBegins, QuitDisables
    <3> QED BY <1>a, <2>0, <2>5, <3>1 DEF QuitBegins, QuitDisables, CallsOK
  <2>6. ASSUME NEW d \in Requests,
               \/ \E n \in Names : Add(d, n) \/ Delete(d, n)
               \/ AddTested(d) \/ AddRefused(d)
               \/ \E old, new \in Names, active, full \in BOOLEAN : Update(d, old, new, active, full)
        PROVE  FALSE
    <3>1. call[d].pc \in {"idle", "testing"}
      BY <2>6 DEF Add, Delete, Update, Request, AddTested, AddRefused
    <3>2. d # c
      BY <1>2, <3>1
    <3>3. ASSUME NEW n, NEW set, Enable(d, n, set) PROVE call'[c] = call[c]
      BY <1>a, <3>2, <3>3 DEF Enable, CallsOK
    <3>4. ASSUME NEW D, NEW next, NEW set, Shutdown(d, D, next, set) PROVE call'[c] = call[c]
      <4>1. CASE Proceed(d, next, set)
        BY <1>a, <3>2, <3>3, <4>1 DEF Proceed, CallsOK
      <4>2. CASE call' = [call EXCEPT ![d].pc = "shutting", ![d].next = next,
                                      ![d].settings = set, ![d].targets = D]
        BY <1>a, <3>2, <4>2 DEF CallsOK
      <4> QED BY <3>4, <4>1, <4>2 DEF Shutdown
    <3>5. ASSUME NEW n \in Names, Add(d, n) \/ Delete(d, n) PROVE call'[c] = call[c]
      <4>1. CASE Add(d, n)
        BY <1>a, <3>2, <4>1 DEF Add, CallsOK
      <4>2. CASE Delete(d, n)
        BY <3>4, <4>2 DEF Delete
      <4> QED BY <3>5, <4>1, <4>2
    <3>6. ASSUME NEW old \in Names, NEW new \in Names, NEW active \in BOOLEAN,
                 NEW full \in BOOLEAN, Update(d, old, new, active, full)
          PROVE  call'[c] = call[c]
      BY <3>4, <3>6 DEF Update
    <3>7. ASSUME AddTested(d) \/ AddRefused(d) PROVE call'[c] = call[c]
      <4>1. CASE AddTested(d)
        BY <3>3, <4>1 DEF AddTested
      <4>2. CASE AddRefused(d)
        BY <1>a, <3>2, <4>2 DEF AddRefused, CallsOK
      <4> QED BY <3>7, <4>1, <4>2
    <3> QED BY <2>0, <2>6, <3>5, <3>6, <3>7
  <2> QED BY <2>1, <2>2, <2>3, <2>4, <2>5, <2>6, NextCases
<1> QED BY <1>1, <1>2

\* A request or the shutdown is over only when the tasks of the servers it had to
\* shut down are, even if it ran out of time.
THEOREM Disabled == Spec => DisabledIsDown
<1>1. Parts /\ [Next]_vars =>
        [\A c \in Calls : ~Over(c) /\ Over(c)' => \A i \in call[c].targets : Ended(i)']_vars
  <2> SUFFICES ASSUME Parts, Next
               PROVE  \A c \in Calls : ~Over(c) /\ Over(c)' => \A i \in call[c].targets : Ended(i)'
    OBVIOUS
  <2> QED BY DownStep
<1>2. Inv <=> Parts
  BY PartsFact
<1> QED BY <1>1, <1>2, Invariance, PTL DEF Spec, DisabledIsDown

=============================================================================
