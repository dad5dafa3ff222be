-------------------------- MODULE ProviderManager --------------------------
(***************************************************************************)
(* The provider manager and the requests of the dashboard that create,     *)
(* update, switch and delete model providers and the source some of them   *)
(* take their settings from, while messages ask for a provider.            *)
(*                                                                         *)
(* An instance goes by who made it and by the id of its provider: nobody   *)
(* loads the same provider twice. The order of the configuration is one    *)
(* fixed order of the ids. Left out: which provider a session has chosen,  *)
(* any id here, and the lists of embedding and rerank providers.           *)
(***************************************************************************)
EXTENDS Integers, Sequences, FiniteSets, SequencesExt

CONSTANTS
    Ids,            \* of providers
    Sourced,        \* those that belong to the source
    Default,        \* default_provider_id
    Requests,       \* bounds the requests of the dashboard
    None

Boot == "boot"      \* initialize(), before the dashboard is up

Writers == Requests \cup {Boot}
Settings == [own : Writers, enable : BOOLEAN]
Instances == Writers \X Ids

ASSUME ProviderManagerAssumption ==
    /\ IsFiniteSet(Ids) /\ Sourced \subseteq Ids /\ Default \in Ids
    /\ Boot \notin Requests
    /\ None \notin Writers \cup Ids \cup Settings \cup Instances

Locks == {"resource", "reload"}

VARIABLES
    config,         \* config["provider"], each provider's settings or None
    listed,         \* what the manager's providers_config shows of it
    aliased,        \* it is the same list
    sources,        \* who wrote the source in each list of sources that was made, or None
    current,        \* the list that is config["provider_sources"]
    seen,           \* the one that is provider_sources_config
    inst,           \* each instance: its state, and whose settings it was made from
    instMap,        \* inst_map
    insts,          \* provider_insts
    curr,           \* curr_provider_inst
    at,             \* how far each request is
    req,            \* what it was sent for
    todo,           \* the providers it will reload yet, with their settings
    keys,           \* the ids it has to terminate
    target,         \* the instance it closes
    holder, queue,  \* resource_lock and reload_lock
    running,        \* the request that is not suspended, or None
    booting,        \* what initialize has still to load
    failed,         \* ids that a failed load or close has left behind, until their reload
    leaked,         \* instances whose entry in inst_map another load took
    overlapped      \* an edit of the source met another request

configVars  == <<config, listed, aliased, sources, current, seen>>
instVars    == <<inst, instMap, insts, curr>>
requestVars == <<at, req, todo, keys, target>>
lockVars    == <<holder, queue>>
history     == <<failed, leaked, overlapped>>
vars == <<configVars, instVars, requestVars, lockVars, running, booting, history>>

Lock == INSTANCE FifoLock WITH Tasks <- Requests, Keys <- Locks, NoTask <- None

TypeOK ==
    /\ {config, listed} \subseteq [Ids -> Settings \cup {None}]
    /\ aliased \in BOOLEAN /\ (aliased => listed = config)
    /\ sources \in [Writers -> Writers \cup {None}] /\ {current, seen} \subseteq Writers
    /\ inst \in [Instances ->
                    [at : {"none", "loading", "open", "closing", "closed", "broken"},
                     own : Writers \cup {None}, src : Writers \cup {None}]]
    /\ instMap \in [Ids -> Instances \cup {None}]
    /\ insts \in Seq(Instances) /\ IsInjective(insts)
    /\ curr \in Instances \cup {None}
    /\ at \in [Requests -> {"away", "resource", "reload", "terminate", "closing",
                            "terminated", "load", "loading", "loaded",
                            "sweep", "sweeping", "swept", "done"}]
    /\ req \in [Requests ->
                [op : {"none", "create", "update", "delete", "edit", "unsource"},
                 id : Ids \cup {None}, from : Ids \cup {None}, new : Settings \cup {None}]]
    /\ todo \in [Requests -> Seq(Ids \X Settings)] /\ keys \in [Requests -> Seq(Ids)]
    /\ target \in [Requests -> Instances \cup {None}]
    /\ holder \in [Locks -> Requests \cup {None}] /\ queue \in [Locks -> Seq(Requests)]
    /\ running \in Requests \cup {None}
    /\ booting \in Seq(Ids)
    /\ failed \subseteq Ids /\ leaked \subseteq Instances /\ overlapped \in BOOLEAN

source == sources[current]
merged == sources[seen]

\* A configuration the user has left behind; the source is there.
Init ==
    /\ config \in [Ids -> {[own |-> Boot, enable |-> b] : b \in BOOLEAN} \cup {None}]
    /\ listed = config /\ aliased = TRUE
    /\ sources = [w \in Writers |-> IF w = Boot THEN Boot ELSE None]
    /\ current = Boot /\ seen = Boot
    /\ inst = [i \in Instances |-> [at |-> "none", own |-> None, src |-> None]]
    /\ instMap = [p \in Ids |-> None] /\ insts = <<>> /\ curr = None
    /\ at = [r \in Requests |-> "away"]
    /\ req = [r \in Requests |->
                [op |-> "none", id |-> None, from |-> None, new |-> None]]
    /\ todo = [r \in Requests |-> <<>>] /\ keys = [r \in Requests |-> <<>>]
    /\ target = [r \in Requests |-> None]
    /\ Lock!Init
    /\ running = None
    /\ booting = SetToSeq({p \in Ids : config[p] # None /\ config[p].enable})
    /\ failed = {} /\ leaked = {} /\ overlapped = FALSE

\* Between two suspensions a request has the event loop to itself.
Idle == running = None /\ booting = <<>>
Runs(r, point) == running = r /\ at[r] = point

Continues(r, point) == at' = [at EXCEPT ![r] = point] /\ running' = r
Suspends(r, point) == at' = [at EXCEPT ![r] = point] /\ running' = None

\* async with: a request that finds the lock free goes on.
Acquires(r, k) ==
    /\ Lock!Enter(r, k)
    /\ at' = [at EXCEPT ![r] = k]
    /\ running' = IF holder[k] = None /\ queue[k] = <<>> THEN r ELSE None

\* Variants ending in "Bug" are slips the properties must notice.
EndsLockedBug(r) ==
    /\ Suspends(r, "done")
    /\ holder' = [holder EXCEPT !["resource"] = IF @ = r THEN None ELSE @]
    /\ UNCHANGED queue

\* The locks a request leaves when it returns or raises.
Ends(r) ==
    /\ Suspends(r, "done")
    /\ holder' = [k \in Locks |-> IF holder[k] = r THEN None ELSE holder[k]]
    /\ UNCHANGED queue

----------------------------------------------------------------------------
(* Instances                                                               *)

\* The end of load_provider: the instance is listed, and found by its id.
AddInstance(i) ==
    /\ instMap' = [instMap EXCEPT ![i[2]] = i]
    /\ insts' = Append(insts, i)
    /\ curr' = IF i[2] = Default \/ curr = None THEN i ELSE curr

\* initialize() loads one provider after the other; one that fails is skipped.
BootLoads ==
    /\ booting # <<>>
    /\ LET p == Head(booting)
       IN \/ /\ inst' = [inst EXCEPT ![<<Boot, p>>] =
                            [at |-> "open", own |-> Boot,
                             src |-> IF p \in Sourced THEN merged ELSE None]]
             /\ AddInstance(<<Boot, p>>)
             /\ UNCHANGED failed
          \/ /\ failed' = failed \cup {p}
             /\ UNCHANGED instVars
    /\ booting' = Tail(booting)
    /\ UNCHANGED <<configVars, requestVars, lockVars, running, leaked, overlapped>>

\* get_using_provider for a session that has chosen c
Using(c) ==
    CASE instMap[c] # None -> instMap[c]
      [] instMap[c] = None /\ instMap[Default] # None -> instMap[Default]
      [] OTHER -> IF insts = <<>> THEN None ELSE Head(insts)

----------------------------------------------------------------------------
(* Requests                                                                *)

Active == {r \in Requests : at[r] \notin {"away", "done"}}
EditsSource(r) == req[r].op \in {"edit", "unsource"}

Comes(r, op, id, from, new) ==
    /\ Idle /\ at[r] = "away"
    /\ req' = [req EXCEPT ![r] = [op |-> op, id |-> id, from |-> from, new |-> new]]
    /\ overlapped' = (overlapped \/
          IF op \in {"edit", "unsource"} THEN Active # {}
          ELSE \E s \in Active : EditsSource(s))

\* create_provider, update_provider and delete_provider of the dashboard, which
\* begin with resource_lock
Create(r, p, enable) ==
    /\ Comes(r, "create", p, p, [own |-> r, enable |-> enable])
    /\ Acquires(r, "resource")
    /\ UNCHANGED <<configVars, instVars, todo, keys, target, booting, failed, leaked>>

Update(r, p, q, enable) ==
    /\ Comes(r, "update", q, p, [own |-> r, enable |-> enable])
    /\ Acquires(r, "resource")
    /\ UNCHANGED <<configVars, instVars, todo, keys, target, booting, failed, leaked>>

\* set_provider_enabled copies the settings first.
Switch(r, p) ==
    /\ listed[p] # None
    /\ Comes(r, "update", p, p, [listed[p] EXCEPT !.enable = ~@])
    /\ Acquires(r, "resource")
    /\ UNCHANGED <<configVars, instVars, todo, keys, target, booting, failed, leaked>>

Delete(r, p) ==
    /\ Comes(r, "delete", p, p, None)
    /\ Acquires(r, "resource")
    /\ UNCHANGED <<configVars, instVars, todo, keys, target, booting, failed, leaked>>

\* delete_provider_source makes a new list, without the source.
Unsource(r) ==
    /\ source # None
    /\ Comes(r, "unsource", None, None, None)
    /\ current' = r
    /\ Acquires(r, "resource")
    /\ UNCHANGED <<config, listed, aliased, sources, seen, instVars, todo, keys, target,
                   booting, failed, leaked>>

\* upsert_provider_source: a source that was there has its providers reloaded,
\* with the settings they have now.
EditSource(r) ==
    LET affected == SetToSeq({p \in Sourced : source # None /\ config[p] # None})
        reloads == [n \in 1..Len(affected) |-> <<affected[n], config[affected[n]]>>]
    IN /\ IF reloads = <<>>
          THEN /\ Comes(r, "edit", None, None, None)
               /\ Suspends(r, "done")
               /\ UNCHANGED <<todo, lockVars>>
          ELSE /\ Comes(r, "edit", reloads[1][1], reloads[1][1], reloads[1][2])
               /\ todo' = [todo EXCEPT ![r] = Tail(reloads)]
               /\ Acquires(r, "reload")
       /\ sources' = [sources EXCEPT ![current] = r]
       /\ seen' = current
       /\ failed' = failed \cup {p \in Sourced : source = None /\ config[p] # None}
       /\ UNCHANGED <<config, listed, aliased, current, instVars, keys, target, booting,
                      leaked>>

\* The first in the queue gets a lock that was left.
Granted(k) ==
    /\ Idle
    /\ Lock!Grant(k)
    /\ running' = Head(queue[k])
    /\ UNCHANGED <<configVars, instVars, requestVars, booting, history>>

\* The id is taken, or not there to be updated.
Refuses(r) ==
    /\ Runs(r, "resource")
    /\ \/ req[r].op = "create" /\ config[req[r].id] # None
       \/ /\ req[r].op = "update"
          /\ \/ req[r].id # req[r].from /\ config[req[r].id] # None
             \/ config[req[r].from] = None
    /\ Ends(r)
    /\ UNCHANGED <<configVars, instVars, req, todo, keys, target, booting, history>>

\* The configuration is written before anything is loaded; providers_config
\* shows it if it is the same list.
StoreCreated(r) ==
    /\ Runs(r, "resource") /\ req[r].op = "create" /\ config[req[r].id] = None
    /\ config' = [config EXCEPT ![req[r].id] = req[r].new]
    /\ listed' = IF aliased THEN config' ELSE listed
    /\ Continues(r, "load")
    /\ UNCHANGED <<aliased, sources, current, seen, instVars, req, todo, keys, target,
                   lockVars, booting, history>>

StoreUpdated(r) ==
    LET p == req[r].from
        q == req[r].id
    IN /\ Runs(r, "resource") /\ req[r].op = "update"
       /\ config[p] # None /\ (p = q \/ config[q] = None)
       /\ config' = [config EXCEPT ![p] = None, ![q] = req[r].new]
       /\ listed' = IF aliased THEN config' ELSE listed
       /\ Acquires(r, "reload")
       /\ UNCHANGED <<aliased, sources, current, seen, instVars, req, todo, keys, target,
                      booting, history>>

\* delete_provider finds the providers of the source in providers_config.
BeginDelete(r) ==
    /\ Runs(r, "resource") /\ req[r].op \in {"delete", "unsource"}
    /\ keys' = [keys EXCEPT ![r] =
                    IF req[r].op = "delete" THEN <<req[r].id>>
                    ELSE SetToSeq({p \in Sourced : listed[p] # None})]
    /\ Continues(r, "terminate")
    /\ UNCHANGED <<configVars, instVars, req, todo, target, lockVars, booting, history>>

\* reload begins by terminating the provider it loads.
BeginReload(r) ==
    /\ Runs(r, "reload")
    /\ keys' = [keys EXCEPT ![r] = <<req[r].id>>]
    /\ Continues(r, "terminate")
    /\ UNCHANGED <<configVars, instVars, req, todo, target, lockVars, booting, history>>

----------------------------------------------------------------------------
(* terminate_provider and load_provider                                    *)

TerminatesListedBug(r, point, closing, next) ==
    LET k == Head(keys[r])
        i == instMap[k]
    IN /\ Runs(r, point) /\ keys[r] # <<>>
       /\ IF i = None
          THEN /\ Continues(r, next)
               /\ UNCHANGED <<instVars, target>>
          ELSE /\ Suspends(r, closing)
               /\ target' = [target EXCEPT ![r] = i]
               /\ inst' = [inst EXCEPT ![i].at = "closing"]
               /\ curr' = IF curr = i THEN None ELSE curr
               /\ UNCHANGED <<instMap, insts>>
       /\ UNCHANGED <<configVars, req, todo, keys, lockVars, booting, history>>

\* The next id; the instance leaves the list before it is closed. One that is
\* not loaded is passed over.
Terminates(r, point, closing, next) ==
    LET k == Head(keys[r])
        i == instMap[k]
    IN /\ Runs(r, point) /\ keys[r] # <<>>
       /\ IF i = None
          THEN /\ Continues(r, next)
               /\ UNCHANGED <<instVars, target>>
          ELSE /\ Suspends(r, closing)
               /\ target' = [target EXCEPT ![r] = i]
               /\ inst' = [inst EXCEPT ![i].at = "closing"]
               /\ insts' = RemoveFirst(insts, i)
               /\ curr' = IF curr = i THEN None ELSE curr
               /\ UNCHANGED instMap
       /\ UNCHANGED <<configVars, req, todo, keys, lockVars, booting, history>>

\* What a request that raises leaves undone.
Spoils(r) == ((IF at[r] = "sweeping" THEN {} ELSE {req[r].id, req[r].from})
                \cup Range(keys[r]) \cup {todo[r][n][1] : n \in DOMAIN todo[r]}) \ {None}

\* It is closed, and the entry is deleted, whatever instance it is now.
CloseEnds(r, closing, next) ==
    LET k == Head(keys[r])
    IN /\ Idle /\ at[r] = closing
       /\ inst' = [inst EXCEPT ![target[r]].at = "closed"]
       /\ target' = [target EXCEPT ![r] = None]
       /\ IF instMap[k] # None
          THEN /\ instMap' = [instMap EXCEPT ![k] = None]
               /\ Continues(r, next)
               /\ UNCHANGED <<lockVars, failed>>
          ELSE /\ Ends(r)
               /\ failed' = failed \cup Spoils(r)
               /\ UNCHANGED instMap
       /\ UNCHANGED <<configVars, insts, curr, req, todo, keys, booting, leaked,
                      overlapped>>

CloseFails(r) ==
    /\ Idle /\ at[r] \in {"closing", "sweeping"}
    /\ inst' = [inst EXCEPT ![target[r]].at = "broken"]
    /\ target' = [target EXCEPT ![r] = None]
    /\ failed' = failed \cup Spoils(r)
    /\ Ends(r)
    /\ UNCHANGED <<configVars, instMap, insts, curr, req, todo, keys, booting, leaked,
                   overlapped>>

\* The settings are merged with those of the source when the load begins. A
\* source's provider has its type from there and cannot be loaded without it; one
\* whose adapter cannot be imported is passed over.
Loads(r) ==
    LET p == req[r].id
    IN /\ Runs(r, "load")
       /\ \/ /\ ~req[r].new.enable
             /\ Continues(r, "loaded")
             /\ UNCHANGED <<inst, lockVars, failed>>
          \/ /\ req[r].new.enable /\ (p \notin Sourced \/ merged # None)
             /\ Continues(r, "loaded")
             /\ failed' = failed \cup {p}
             /\ UNCHANGED <<inst, lockVars>>
          \/ /\ req[r].new.enable /\ p \in Sourced /\ merged = None
             /\ Ends(r)
             /\ failed' = failed \cup Spoils(r)
             /\ UNCHANGED inst
          \/ /\ req[r].new.enable /\ (p \notin Sourced \/ merged # None)
             /\ Suspends(r, "loading")
             /\ inst' = [inst EXCEPT ![<<r, p>>] =
                            [at |-> "loading", own |-> req[r].new.own,
                             src |-> IF p \in Sourced THEN merged ELSE None]]
             /\ UNCHANGED <<lockVars, failed>>
       /\ UNCHANGED <<configVars, instMap, insts, curr, req, todo, keys, target, booting,
                      leaked, overlapped>>

LoadEnds(r) ==
    LET i == <<r, req[r].id>>
    IN /\ Idle /\ at[r] = "loading"
       /\ inst' = [inst EXCEPT ![i].at = "open"]
       /\ AddInstance(i)
       /\ leaked' = leaked \cup ({instMap[i[2]]} \ {None})
       /\ Continues(r, "loaded")
       /\ UNCHANGED <<configVars, req, todo, keys, target, lockVars, booting, failed,
                      overlapped>>

LoadFails(r) ==
    /\ Idle /\ at[r] = "loading"
    /\ inst' = [inst EXCEPT ![<<r, req[r].id>>].at = "broken"]
    /\ failed' = failed \cup Spoils(r)
    /\ Ends(r)
    /\ UNCHANGED <<configVars, instMap, insts, curr, req, todo, keys, target, booting,
                   leaked, overlapped>>

----------------------------------------------------------------------------
(* What follows                                                            *)

\* delete_provider removes each provider from a new list.
Deleted(r) ==
    /\ Runs(r, "terminated") /\ req[r].op \in {"delete", "unsource"}
    /\ config' = [config EXCEPT ![Head(keys[r])] = None]
    /\ aliased' = FALSE
    /\ failed' = failed \ {Head(keys[r])}
    /\ keys' = [keys EXCEPT ![r] = Tail(@)]
    /\ Continues(r, "terminate")
    /\ UNCHANGED <<listed, sources, current, seen, instVars, req, todo, target, lockVars,
                   booting, leaked, overlapped>>

\* delete_provider_source then has the manager look at the list it has made: the
\* source may have been added to it since, or the list replaced.
DeleteEnds(r) ==
    /\ Runs(r, "terminate") /\ keys[r] = <<>>
    /\ seen' = IF req[r].op = "unsource" THEN r ELSE seen
    /\ Ends(r)
    /\ UNCHANGED <<config, listed, aliased, sources, current, instVars, req, todo, keys,
                   target, booting, history>>

CreateEnds(r) ==
    /\ Runs(r, "loaded") /\ req[r].op = "create"
    /\ listed' = config /\ aliased' = TRUE
    /\ Ends(r)
    /\ UNCHANGED <<config, sources, current, seen, instVars, req, todo, keys, target,
                   booting, history>>

\* reload goes on: the provider it has terminated is loaded.
Reloads(r) ==
    /\ Runs(r, "terminated") /\ req[r].op \in {"update", "edit"}
    /\ keys' = [keys EXCEPT ![r] = <<>>]
    /\ Continues(r, "load")
    /\ UNCHANGED <<configVars, instVars, req, todo, target, lockVars, booting, history>>

SynchronizesOwnBug(r) ==
    /\ Runs(r, "loaded") /\ req[r].op \in {"update", "edit"}
    /\ listed' = config /\ aliased' = TRUE /\ seen' = current
    /\ keys' = [keys EXCEPT ![r] =
                    SetToSeq({p \in {req[r].id} : instMap[p] # None /\ config[p] = None})]
    /\ Continues(r, "sweep")
    /\ UNCHANGED <<config, sources, current, instVars, req, todo, target, lockVars,
                   booting, history>>

\* Then the manager looks at the configuration again, and terminates what is
\* not in it.
Synchronizes(r) ==
    /\ Runs(r, "loaded") /\ req[r].op \in {"update", "edit"}
    /\ listed' = config /\ aliased' = TRUE /\ seen' = current
    /\ keys' = [keys EXCEPT ![r] =
                    SetToSeq({p \in Ids : instMap[p] # None /\ config[p] = None})]
    /\ Continues(r, "sweep")
    /\ UNCHANGED <<config, sources, current, instVars, req, todo, target, lockVars,
                   booting, history>>

SweepsOn(r) ==
    /\ Runs(r, "swept")
    /\ keys' = [keys EXCEPT ![r] = Tail(@)]
    /\ Continues(r, "sweep")
    /\ UNCHANGED <<configVars, instVars, req, todo, target, lockVars, booting, history>>

NextReload(r) ==
    /\ req' = [req EXCEPT ![r].id = todo[r][1][1], ![r].from = todo[r][1][1],
                          ![r].new = todo[r][1][2]]
    /\ todo' = [todo EXCEPT ![r] = Tail(@)]

\* The end of reload; an edit of the source goes on with the next provider, and
\* lets those that wait for the lock go first.
ReloadEnds(r) ==
    /\ Runs(r, "sweep") /\ keys[r] = <<>>
    /\ curr' = IF insts = <<>> THEN None ELSE IF curr = None THEN Head(insts) ELSE curr
    /\ failed' = failed \
           ({p \in {req[r].id} : req[r].new.enable => inst[<<r, p>>].at = "open"}
                \cup {p \in Ids : config[p] = None /\ instMap[p] = None})
    /\ \/ /\ todo[r] = <<>>
          /\ Ends(r)
          /\ UNCHANGED <<req, todo>>
       \/ /\ todo[r] # <<>> /\ queue["reload"] = <<>>
          /\ Continues(r, "reload")
          /\ NextReload(r)
          /\ UNCHANGED lockVars
       \/ /\ todo[r] # <<>> /\ queue["reload"] # <<>>
          /\ Suspends(r, "reload")
          /\ holder' = [holder EXCEPT !["reload"] = None]
          /\ queue' = [queue EXCEPT !["reload"] = Append(@, r)]
          /\ NextReload(r)
    /\ UNCHANGED <<configVars, inst, instMap, insts, keys, target, booting, leaked,
                   overlapped>>

----------------------------------------------------------------------------

Request(r) ==
    \/ \E p \in Ids, enable \in BOOLEAN : Create(r, p, enable)
    \/ \E p, q \in Ids, enable \in BOOLEAN : Update(r, p, q, enable)
    \/ \E p \in Ids : Switch(r, p) \/ Delete(r, p)
    \/ EditSource(r) \/ Unsource(r)

\* What a request does by itself, and the ends of what it waits for
Progress(r) ==
    \/ Refuses(r) \/ StoreCreated(r) \/ StoreUpdated(r)
    \/ BeginDelete(r) \/ BeginReload(r)
    \/ Terminates(r, "terminate", "closing", "terminated")
    \/ Terminates(r, "sweep", "sweeping", "swept")
    \/ CloseEnds(r, "closing", "terminated") \/ CloseEnds(r, "sweeping", "swept")
    \/ CloseFails(r)
    \/ Loads(r) \/ LoadEnds(r) \/ LoadFails(r)
    \/ Deleted(r) \/ DeleteEnds(r) \/ CreateEnds(r)
    \/ Reloads(r) \/ Synchronizes(r) \/ SweepsOn(r) \/ ReloadEnds(r)

Next ==
    \/ BootLoads
    \/ \E r \in Requests : Request(r) \/ Progress(r)
    \/ \E k \in Locks : Granted(k)

Spec == Init /\ [][Next]_vars

FairSpec ==
    /\ Spec
    /\ WF_vars(BootLoads)
    /\ \A r \in Requests : WF_vars(Progress(r))
    /\ \A k \in Locks : WF_vars(Granted(k))

----------------------------------------------------------------------------

AtRest == Idle /\ Active = {}

\* When no request is at work, each provider runs as it is configured, in one instance
\* that messages can be given, and nothing else is left open: whatever creations,
\* updates, deletions and switches overlapped, and of whatever requests before have
\* failed (manager.py:748-804, 834-935). Three things are left out: ids that a failed load
\* or close has left behind, until a reload of theirs gets through; an instance whose
\* entry a load took, which nobody closes any more; and everything, once an edit of the
\* source met another request, because it reloads with settings it has read before.
RunsAsConfigured ==
    AtRest /\ ~overlapped =>
        \A p \in Ids \ failed :
            LET i == instMap[p]
                open == {j \in Instances : j[2] = p /\ inst[j].at \in {"open", "loading"}}
            IN IF config[p] # None /\ config[p].enable
               THEN /\ i # None /\ open \ leaked = {i} /\ i \in Range(insts)
                    /\ inst[i].own = config[p].own
                    /\ p \in Sourced /\ source # None => inst[i].src = source
               ELSE i = None /\ open \subseteq leaked

\* A message is never given a provider that has been closed, however its choice,
\* the default and the list changed meanwhile (manager.py:210), unless closing it
\* has failed.
GivenIsOpen ==
    \A i \in {Using(c) : c \in Ids} \cup {curr} :
        i # None => inst[i].at \in {"open", "closing", "broken"}

\* Every request ends, though requests of the one kind take reload_lock inside of
\* resource_lock and those of the other take it alone, and any of them may raise
\* with both (manager.py:748, :859).
RequestsEnd == \A r \in Requests : at[r] # "away" ~> at[r] = "done"

\* The rest is not guaranteed by the code.

\* Only what is configured is loaded, as the comment at manager.py:755 has it. Not so
\* after an update that renames the provider and fails to load it.
LoadedIsConfigured ==
    AtRest /\ ~overlapped => \A p \in Ids : instMap[p] # None => config[p] # None

\* An instance that is open is found by its id, so that it can be closed. Not so when a
\* provider is created again that an update has renamed and failed to load: the entry
\* of the old instance is taken by the new one.
OpenIsFound ==
    AtRest /\ ~overlapped =>
        \A j \in Instances : inst[j].at = "open" => instMap[j[2]] = j
=============================================================================
