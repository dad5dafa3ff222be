-------------------------------- MODULE Cron --------------------------------
(***************************************************************************)
(* CronJobManager and one of its jobs: the row in the database, the timer  *)
(* the scheduler holds for it, the calls that change them, the runs, and   *)
(* restarts of the process. Jobs are told apart by their ids and share     *)
(* nothing but _started, so one job stands for all.                        *)
(*                                                                         *)
(* A database call is one step of its own, and what follows it up to the   *)
(* next one is another: the caller is suspended in between. Left out:      *)
(* status, last_run_at and next_run_time, which nothing reads to decide.   *)
(***************************************************************************)
EXTENDS Integers, FiniteSets

CONSTANTS
    Calls,          \* bounds the calls that change the job
    Runs,           \* bounds the runs of the job at one time
    MaxRestarts,    \* bounds the restarts of the process
    None

\* A schedule is named by the call that set it; None set the first one. A bad one
\* is stored like any other but does not parse.
Plans == Calls \cup {None}
Rows == [plan : Plans, once : BOOLEAN, valid : BOOLEAN, enabled : BOOLEAN]
Timers == [plan : Plans, once : BOOLEAN]

ASSUME CronAssumption ==
    /\ MaxRestarts \in Nat
    /\ None \notin Calls /\ None \notin Rows /\ None \notin Timers

VARIABLES
    row,        \* the job's row, or None
    timer,      \* the job's entry in the scheduler, or None
    started,    \* _started
    starting,   \* how far start() is
    listed,     \* the row sync_from_db has read
    restarts,
    op, pc,     \* what each call is and how far it is
    seen,       \* the row a call has read or written
    run,        \* how far each run is
    byTimer,    \* the run was started by the scheduler
    job,        \* the row a run has read
    worked,     \* how often the scheduler did a one-time schedule since the start;
                \* counted up to 2
    spent,      \* one-time schedules that have gone off
    alone,      \* a call that has met no other change so far
    tangled     \* changes have met, and none was alone since

startVars == <<started, starting, listed, restarts>>
callVars == <<op, pc, seen>>
runVars == <<run, byTimer, job, worked>>
vars == <<row, timer, startVars, callVars, runVars, spent, alone, tangled>>

TypeOK ==
    /\ row \in Rows \cup {None}
    /\ timer \in Timers \cup {None}
    /\ started \in BOOLEAN
    /\ starting \in {"booting", "listing", "scheduling", "up"}
    /\ listed \in Rows \cup {None}
    /\ restarts \in 0..MaxRestarts
    /\ op \in [Calls -> {"none", "create", "update", "toggle", "delete"}]
    /\ pc \in [Calls -> {"idle", "write", "apply", "over"}]
    /\ seen \in [Calls -> Rows \cup {None}]
    /\ run \in [Runs -> {"idle", "reading", "working", "deleting"}]
    /\ byTimer \in [Runs -> BOOLEAN]
    /\ job \in [Runs -> Rows \cup {None}]
    /\ \A r \in Runs : run[r] \in {"working", "deleting"} => job[r] # None
    /\ worked \in [Plans -> 0..2]
    /\ spent \subseteq Plans
    /\ alone \in [Calls -> BOOLEAN]
    /\ tangled \in BOOLEAN

Init ==
    /\ row \in {None} \cup [plan : {None}, once : BOOLEAN,
                            valid : {TRUE}, enabled : BOOLEAN]
    /\ timer = None
    /\ started = FALSE /\ starting = "booting" /\ listed = None /\ restarts = 0
    /\ op = [c \in Calls |-> "none"] /\ pc = [c \in Calls |-> "idle"]
    /\ seen = [c \in Calls |-> None]
    /\ run = [r \in Runs |-> "idle"] /\ byTimer = [r \in Runs |-> FALSE]
    /\ job = [r \in Runs |-> None]
    /\ worked = [p \in Plans |-> 0] /\ spent = {}
    /\ alone = [c \in Calls |-> FALSE] /\ tangled = FALSE

----------------------------------------------------------------------------
(* Which changes of the job meet                                           *)

Syncing == starting \in {"listing", "scheduling"}

Changing ==
    \/ Syncing
    \/ \E c \in Calls : pc[c] \in {"write", "apply"}
    \/ \E r \in Runs : run[r] = "deleting"

\* A change begins: none of those in progress is alone any more.
Meet ==
    /\ tangled' = (tangled \/ Changing)
    /\ alone' = [c \in Calls |-> FALSE]

Begin(c, what, at) ==
    /\ pc[c] = "idle"
    /\ op' = [op EXCEPT ![c] = what]
    /\ pc' = [pc EXCEPT ![c] = at]
    /\ tangled' = (tangled \/ Changing)
    /\ alone' = [d \in Calls |-> d = c /\ ~Changing]

\* A change that was alone from beginning to end puts the job in order.
End(c) ==
    /\ op' = [op EXCEPT ![c] = "none"] /\ pc' = [pc EXCEPT ![c] = "over"]
    /\ seen' = [seen EXCEPT ![c] = None]
    /\ tangled' = (tangled /\ ~alone[c]) /\ UNCHANGED alone

----------------------------------------------------------------------------
(* The scheduler                                                           *)

\* _remove_scheduled
Unschedule == timer' = None /\ UNCHANGED <<started, spent>>

\* _schedule_job, for a job with or without an entry: it starts the scheduler if
\* need be, and raises CronJobSchedulingError for a bad schedule before add_job,
\* which replaces the entry.
Schedule(r, entry) ==
    /\ started' = TRUE
    /\ timer' = IF r.valid THEN [plan |-> r.plan, once |-> r.once] ELSE entry
    /\ spent' = IF r.valid THEN spent \ {r.plan} ELSE spent

\* The scheduler does not start a second run of a job (max_instances).
Occupied == \E r \in Runs : byTimer[r] /\ run[r] # "idle"

\* A date goes off once, a cron expression again and again.
GoesOff ==
    /\ started /\ timer # None
    /\ IF timer.once
       THEN timer' = None /\ spent' = spent \cup {timer.plan}
       ELSE UNCHANGED <<timer, spent>>

Fire(r) ==
    /\ run[r] = "idle"
    /\ ~Occupied
    /\ GoesOff
    /\ run' = [run EXCEPT ![r] = "reading"]
    /\ byTimer' = [byTimer EXCEPT ![r] = TRUE]
    /\ UNCHANGED <<row, startVars, callVars, job, worked, alone, tangled>>

\* It goes off without a run: the job has one already, or more than
\* misfire_grace_time has passed, as after a restart.
Miss ==
    /\ GoesOff
    /\ timer.once
    /\ UNCHANGED <<row, startVars, callVars, runVars, alone, tangled>>

----------------------------------------------------------------------------
(* add_active_job, update_job, delete_job and their callers                *)

CreateWrite(c) ==
    /\ row = None
    /\ \A d \in Calls : pc[d] = "idle"
    /\ Begin(c, "create", "apply")
    /\ \E once, valid, enabled \in BOOLEAN :
        row' = [plan |-> c, once |-> once, valid |-> valid, enabled |-> enabled]
    /\ seen' = [seen EXCEPT ![c] = row']
    /\ UNCHANGED <<timer, startVars, runVars, spent>>

CreateApply(c) ==
    /\ op[c] = "create" /\ pc[c] = "apply"
    /\ IF seen[c].enabled THEN Schedule(seen[c], timer)
                          ELSE UNCHANGED <<timer, started, spent>>
    /\ End(c)
    /\ UNCHANGED <<row, starting, listed, restarts, runVars>>

\* CronService.update_job and the tool's "edit" read the row first.
UpdateRead(c, what) ==
    /\ row # None
    /\ Begin(c, what, "write")
    /\ seen' = [seen EXCEPT ![c] = row]
    /\ UNCHANGED <<row, timer, startVars, runVars, spent>>

\* A new schedule leaves `enabled` alone; enabling or disabling the job writes the
\* schedule that was read before.
Updated(c) ==
    IF op[c] = "update"
    THEN [plan : {c}, once : BOOLEAN, valid : BOOLEAN, enabled : {row.enabled}]
    ELSE {[seen[c] EXCEPT !.enabled = on] : on \in BOOLEAN}

UpdateWrite(c) ==
    /\ op[c] \in {"update", "toggle"} /\ pc[c] = "write"
    /\ row # None
    /\ row' \in Updated(c)
    /\ seen' = [seen EXCEPT ![c] = row']
    /\ pc' = [pc EXCEPT ![c] = "apply"]
    /\ UNCHANGED <<timer, startVars, op, runVars, spent, alone, tangled>>

UpdateNotFound(c) ==
    /\ op[c] \in {"update", "toggle"} /\ pc[c] = "write"
    /\ row = None
    /\ End(c)
    /\ UNCHANGED <<row, timer, startVars, runVars, spent>>

\* Variants ending in "Bug" are slips the properties must notice.
UpdateApplyKeepingTimerBug(c) ==
    /\ op[c] \in {"update", "toggle"} /\ pc[c] = "apply"
    /\ IF seen[c].enabled THEN Schedule(seen[c], timer)
                          ELSE UNCHANGED <<timer, started, spent>>
    /\ End(c)
    /\ UNCHANGED <<row, starting, listed, restarts, runVars>>

UpdateApply(c) ==
    /\ op[c] \in {"update", "toggle"} /\ pc[c] = "apply"
    /\ IF seen[c].enabled THEN Schedule(seen[c], None) ELSE Unschedule
    /\ End(c)
    /\ UNCHANGED <<row, starting, listed, restarts, runVars>>

DeleteBegin(c) ==
    /\ row # None
    /\ Begin(c, "delete", "write")
    /\ Unschedule
    /\ UNCHANGED <<row, starting, listed, restarts, seen, runVars>>

DeleteWrite(c) ==
    /\ op[c] = "delete" /\ pc[c] = "write"
    /\ row' = None
    /\ End(c)
    /\ UNCHANGED <<timer, startVars, runVars, spent>>

----------------------------------------------------------------------------
(* _run_job                                                                *)

Leave(r) ==
    /\ run' = [run EXCEPT ![r] = "idle"]
    /\ byTimer' = [byTimer EXCEPT ![r] = FALSE]
    /\ job' = [job EXCEPT ![r] = None]

\* CronService.run_job_now
RunNow(r) ==
    /\ row # None
    /\ run[r] = "idle"
    /\ run' = [run EXCEPT ![r] = "reading"]
    /\ UNCHANGED <<row, timer, startVars, callVars, byTimer, job, worked, spent,
                   alone, tangled>>

\* ignore_enabled is set for run_job_now only.
RunRead(r) ==
    /\ run[r] = "reading"
    /\ row # None /\ (row.enabled \/ ~byTimer[r])
    /\ run' = [run EXCEPT ![r] = "working"]
    /\ job' = [job EXCEPT ![r] = row]
    /\ worked' = IF row.once /\ byTimer[r]
                 THEN [worked EXCEPT ![row.plan] = IF @ < 2 THEN @ + 1 ELSE @]
                 ELSE worked
    /\ UNCHANGED <<row, timer, startVars, callVars, byTimer, spent, alone, tangled>>

RunSkipped(r) ==
    /\ run[r] = "reading"
    /\ ~(row # None /\ (row.enabled \/ ~byTimer[r]))
    /\ Leave(r)
    /\ UNCHANGED <<row, timer, startVars, callVars, worked, spent, alone, tangled>>

RunEndsKeepingBug(r) ==
    /\ run[r] = "working"
    /\ Leave(r)
    /\ UNCHANGED <<row, timer, startVars, callVars, worked, spent, alone, tangled>>

\* The job has succeeded or failed. A one-time job of the scheduler is deleted,
\* as it was when it was read.
RunEnds(r) ==
    /\ run[r] = "working"
    /\ IF job[r].once /\ byTimer[r]
       THEN /\ run' = [run EXCEPT ![r] = "deleting"]
            /\ Unschedule
            /\ Meet
            /\ UNCHANGED <<byTimer, job>>
       ELSE Leave(r) /\ UNCHANGED <<timer, started, spent, alone, tangled>>
    /\ UNCHANGED <<row, starting, listed, restarts, callVars, worked>>

RunDeletes(r) ==
    /\ run[r] = "deleting"
    /\ row' = None
    /\ Leave(r)
    /\ UNCHANGED <<timer, startVars, callVars, worked, spent, alone, tangled>>

----------------------------------------------------------------------------
(* start, and restarts                                                     *)

\* Another job is scheduled before start() runs, say by a plugin that is loaded:
\* _schedule_job starts the scheduler.
OtherScheduled ==
    /\ starting = "booting" /\ ~started
    /\ started' = TRUE
    /\ UNCHANGED <<row, timer, starting, listed, restarts, callVars, runVars, spent,
                   alone, tangled>>

Start ==
    /\ starting = "booting" /\ ~started
    /\ started' = TRUE
    /\ starting' = "listing"
    /\ Meet
    /\ UNCHANGED <<row, timer, listed, restarts, callVars, runVars, spent>>

\* start() returns at once if something was scheduled: nothing is loaded.
StartTooLate ==
    /\ starting = "booting" /\ started
    /\ starting' = "up"
    /\ tangled' = TRUE /\ alone' = [c \in Calls |-> FALSE]
    /\ UNCHANGED <<row, timer, started, listed, restarts, callVars, runVars, spent>>

\* sync_from_db
SyncRead ==
    /\ starting = "listing"
    /\ starting' = "scheduling"
    /\ listed' = row
    /\ UNCHANGED <<row, timer, started, restarts, callVars, runVars, spent, alone,
                   tangled>>

SyncApply ==
    /\ starting = "scheduling"
    /\ starting' = "up"
    /\ IF listed # None /\ listed.enabled THEN Schedule(listed, timer)
                                        ELSE UNCHANGED <<timer, started, spent>>
    /\ UNCHANGED <<row, listed, restarts, callVars, runVars, alone, tangled>>

\* The process ends at any point and is started again: the database is all that
\* is left, and a one-time schedule may be in the past by then.
Restart ==
    /\ restarts < MaxRestarts
    /\ restarts' = restarts + 1
    /\ timer' = None
    /\ started' = FALSE /\ starting' = "booting" /\ listed' = None
    /\ pc' = [c \in Calls |-> IF pc[c] = "idle" THEN "idle" ELSE "over"]
    /\ op' = [c \in Calls |-> "none"] /\ seen' = [c \in Calls |-> None]
    /\ run' = [r \in Runs |-> "idle"] /\ byTimer' = [r \in Runs |-> FALSE]
    /\ job' = [r \in Runs |-> None]
    /\ worked' = [p \in Plans |-> 0] /\ spent' = {}
    /\ alone' = [c \in Calls |-> FALSE] /\ tangled' = FALSE
    /\ UNCHANGED row

Next ==
    \/ OtherScheduled \/ Start \/ StartTooLate \/ SyncRead \/ SyncApply
    \/ Miss \/ Restart
    \/ \E c \in Calls :
        \/ CreateWrite(c) \/ CreateApply(c)
        \/ UpdateRead(c, "update") \/ UpdateRead(c, "toggle")
        \/ UpdateWrite(c) \/ UpdateNotFound(c) \/ UpdateApply(c)
        \/ DeleteBegin(c) \/ DeleteWrite(c)
    \/ \E r \in Runs :
        \/ Fire(r) \/ RunNow(r)
        \/ RunRead(r) \/ RunSkipped(r) \/ RunEnds(r) \/ RunDeletes(r)

Spec == Init /\ [][Next]_vars

----------------------------------------------------------------------------
(* Properties                                                              *)

Wanted ==
    IF row # None /\ row.enabled /\ row.valid
    THEN [plan |-> row.plan, once |-> row.once] ELSE None

InOrder ==
    \/ timer = Wanted
    \/ Wanted # None /\ row.once /\ row.plan \in spent /\ timer = None

Settled == starting = "up" /\ ~Changing

\* The scheduler and the database agree on the job when nothing is changing it:
\* it has an entry if and only if there is an enabled row for it with a schedule
\* that parses, the entry is for that very schedule, and only a one-time schedule
\* that has gone off has none (manager.py:123-137, 193-216). This holds after
\* any restart and any sequence of calls of which the last met no other change,
\* unless start() found the scheduler running and loaded nothing.
ScheduledAsStored == Settled /\ ~tangled => InOrder

\* The same without the exceptions, which the code does not guarantee: neither
\* update_job nor delete_job takes a lock, and start() may come too late.
AlwaysScheduledAsStored == Settled => InOrder

\* The scheduler does the work of a one-time job at most once before the process is
\* restarted, however often the job is edited, disabled, enabled, started by hand
\* or deleted meanwhile: it is deleted before the next run could start
\* (manager.py:322-324).
OneShotRunsOnce == \A p \in Plans : worked[p] <= 1
=============================================================================
