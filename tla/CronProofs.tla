----------------------------- MODULE CronProofs -----------------------------
(***************************************************************************)
(* Safety of Cron for any number of calls, runs and restarts. Inv says     *)
(* what a change of the job may rely on while it meets no other, and which *)
(* schedules can still come back once they were done.                      *)
(***************************************************************************)
EXTENDS Cron, TLAPS

Busy(c) == pc[c] \in {"write", "apply"}
Deleting(r) == run[r] = "deleting"

CallInv == \A c \in Calls : Busy(c) /\ op[c] # "delete" => seen[c] # None

\* The scheduler runs the job once at a time, and only after it was started.
TimerInv ==
    /\ ~started => timer = None
    /\ \A r \in Runs : byTimer[r] => started /\ run[r] # "idle"
    /\ \A r \in Runs : Deleting(r) => byTimer[r]
    /\ \A r, s \in Runs : byTimer[r] /\ byTimer[s] => r = s

\* The schedules that were written so far
Known == {None} \cup {c \in Calls : pc[c] \in {"apply", "over"}}

PlanInv ==
    /\ row # None => row.plan \in Known
    /\ \A c \in Calls : seen[c] # None => seen[c].plan \in Known
    /\ \A r \in Runs : job[r] # None => job[r].plan \in Known
    /\ \A p \in Plans : worked[p] > 0 => p \in Known

AtWork(p) ==
    \E r \in Runs : /\ byTimer[r] /\ run[r] \in {"working", "deleting"}
                    /\ job[r].once /\ job[r].plan = p

\* No call can bring the schedule back into the row.
Gone(p) ==
    row # None =>
        /\ row.plan # p
        /\ \A c \in Calls : op[c] = "toggle" /\ pc[c] = "write" => seen[c].plan # p

WorkInv == \A p \in Plans : worked[p] > 0 => worked[p] = 1 /\ (AtWork(p) \/ Gone(p))

\* Before the first call there is only what start() has loaded.
FreshInv ==
    (\A c \in Calls : pc[c] = "idle") =>
        /\ starting # "up" => timer = None /\ \A r \in Runs : ~byTimer[r]
        /\ starting = "scheduling" => listed = row
        /\ row = None => timer = None
        /\ \A r \in Runs : Deleting(r) => timer = None

Only(c) ==
    /\ ~Syncing
    /\ \A d \in Calls : Busy(d) => d = c
    /\ \A r \in Runs : ~Deleting(r)

\* While nothing is tangled one change is in progress at most.
AloneInv ==
    /\ \A c \in Calls : Busy(c) /\ alone[c] => Only(c)
    /\ ~tangled => \A c \in Calls : Busy(c) => alone[c]
    /\ ~tangled => \A r \in Runs : Deleting(r) => ~Syncing /\ \A c \in Calls : ~Busy(c)

\* What a change that is alone finds when it comes to its end.
OrderInv ==
    /\ \A c \in Calls : Busy(c) /\ alone[c] =>
        /\ pc[c] = "apply" => seen[c] = row
        /\ op[c] \in {"create", "delete"} => timer = None
        /\ op[c] \in {"update", "toggle"} => row # None
    /\ ~tangled /\ Syncing => timer = None /\ (starting = "scheduling" => listed = row)
    /\ ~tangled => \A r \in Runs : Deleting(r) => timer = None
    /\ ScheduledAsStored

Inv ==
    /\ TypeOK /\ CallInv /\ TimerInv /\ PlanInv /\ WorkInv
    /\ FreshInv /\ AloneInv /\ OrderInv

USE CronAssumption

----------------------------------------------------------------------------
(* Types, calls, the scheduler                                             *)

\* What is set off in the scheduler is an entry of the scheduler.
LEMMA ScheduleType ==
    ASSUME TypeOK, NEW r \in Rows, NEW entry \in Timers \cup {None}, Schedule(r, entry)
    PROVE  timer' \in Timers \cup {None} /\ started' = TRUE /\ spent' \subseteq Plans
BY DEF Schedule, TypeOK, Rows, Timers

RowOK ==
    /\ row \in Rows \cup {None} /\ listed \in Rows \cup {None}
    /\ seen \in [Calls -> Rows \cup {None}]
    /\ job \in [Runs -> Rows \cup {None}]
    /\ \A r \in Runs : run[r] \in {"working", "deleting"} => job[r] # None

SchedOK == timer \in Timers \cup {None} /\ started \in BOOLEAN /\ spent \subseteq Plans

StartOK ==
    /\ starting \in {"booting", "listing", "scheduling", "up"}
    /\ restarts \in 0..MaxRestarts

StepOK ==
    /\ op \in [Calls -> {"none", "create", "update", "toggle", "delete"}]
    /\ pc \in [Calls -> {"idle", "write", "apply", "over"}]
    /\ alone \in [Calls -> BOOLEAN]
    /\ tangled \in BOOLEAN

RunOK ==
    /\ run \in [Runs -> {"idle", "reading", "working", "deleting"}]
    /\ byTimer \in [Runs -> BOOLEAN]
    /\ worked \in [Plans -> 0..2]

\* The type invariant by components, so that a step need show only what it touches.
LEMMA TypeParts == TypeOK <=> RowOK /\ SchedOK /\ StartOK /\ StepOK /\ RunOK
  BY DEF TypeOK, RowOK, SchedOK, StartOK, StepOK, RunOK

\* An updated row is a row, under a schedule of the call or of the row it read.
LEMMA UpdatedFact ==
    ASSUME NEW c \in Calls, row \in Rows, seen[c] \in Rows, NEW r \in Updated(c)
    PROVE  /\ r \in Rows
           /\ r.plan = IF op[c] = "update" THEN c ELSE seen[c].plan
BY DEF Updated, Rows, Plans

LEMMA InitInv == Init => Inv
<1> SUFFICES ASSUME Init PROVE Inv
  OBVIOUS
<1>1. TypeOK
  <2>1. None \in Plans /\ row \in Rows \cup {None}
    BY DEF Init, Rows, Plans
  <2>2. RowOK /\ SchedOK
    BY <2>1 DEF Init, RowOK, SchedOK
  <2>3. StartOK
    <3>1. 0 \in 0..MaxRestarts
      OBVIOUS
    <3> QED BY <3>1 DEF Init, StartOK
  <2>4. StepOK
    BY DEF Init, StepOK
  <2>5. RunOK
    BY DEF Init, RunOK
  <2> QED BY <2>2, <2>3, <2>4, <2>5, TypeParts
<1>2. CallInv /\ TimerInv /\ FreshInv
  BY DEF Init, CallInv, Busy, TimerInv, Deleting, FreshInv
<1>3. PlanInv
  <2>1. row # None => row.plan = None
    BY DEF Init
  <2>2. \A p \in Plans : worked[p] = 0
    BY DEF Init
  <2> QED BY <2>1, <2>2 DEF Init, PlanInv, Known
<1>4. WorkInv
  BY DEF Init, WorkInv
<1>5. AloneInv /\ OrderInv
  BY DEF Init, AloneInv, OrderInv, Busy, Deleting, Syncing, ScheduledAsStored, Settled
<1> QED BY <1>1, <1>2, <1>3, <1>4, <1>5 DEF Inv

CallAction(c) ==
    \/ CreateWrite(c) \/ CreateApply(c)
    \/ UpdateRead(c, "update") \/ UpdateRead(c, "toggle")
    \/ UpdateWrite(c) \/ UpdateNotFound(c) \/ UpdateApply(c)
    \/ DeleteBegin(c) \/ DeleteWrite(c)

RunAction(r) ==
    \/ Fire(r) \/ RunNow(r)
    \/ RunRead(r) \/ RunSkipped(r) \/ RunEnds(r) \/ RunDeletes(r)

StartAction == OtherScheduled \/ Start \/ StartTooLate \/ SyncRead \/ SyncApply

\* The steps, by who takes them.
LEMMA NextCases ==
    [Next]_vars <=> \/ StartAction \/ Miss \/ Restart \/ UNCHANGED vars
                    \/ \E c \in Calls : CallAction(c)
                    \/ \E r \in Runs : RunAction(r)
  BY DEF Next, StartAction, CallAction, RunAction

\* Types, and rows of calls.
LEMMA CallType ==
    ASSUME TypeOK, CallInv, NEW c \in Calls, CallAction(c)
    PROVE  TypeOK' /\ CallInv'
<1>a. RowOK /\ SchedOK /\ StartOK /\ StepOK /\ RunOK
  BY TypeParts
<1>b. row # None => row \in Rows
  BY <1>a DEF RowOK
<1>c. Busy(c) /\ op[c] # "delete" => seen[c] \in Rows
  BY <1>a DEF CallInv, RowOK
<1>1. CASE CreateWrite(c)
  <2>1. row' \in Rows /\ row' # None
    <3>1. row' \in Rows
      BY <1>1 DEF CreateWrite, Rows, Plans
    <3> QED BY <3>1
  <2>2. StepOK'
    BY <1>1, <1>a DEF CreateWrite, Begin, StepOK
  <2>3. RowOK'
    BY <1>1, <1>a, <2>1 DEF CreateWrite, RowOK, startVars, runVars
  <2>4. SchedOK' /\ StartOK' /\ RunOK'
    BY <1>1, <1>a DEF CreateWrite, SchedOK, StartOK, RunOK, startVars, runVars
  <2>5. CallInv'
    BY <1>1, <1>a, <2>1 DEF CreateWrite, Begin, CallInv, Busy, RowOK, StepOK
  <2> QED BY <2>2, <2>3, <2>4, <2>5, TypeParts DEF TypeOK, RowOK, SchedOK, StartOK, StepOK, RunOK
<1>2. CASE CreateApply(c) \/ UpdateApply(c)
  <2>1. seen[c] \in Rows
    BY <1>2, <1>c DEF CreateApply, UpdateApply, Busy
  <2>2. SchedOK'
    <3>1. CASE UNCHANGED <<timer, started, spent>> \/ Unschedule
      BY <1>a, <3>1 DEF SchedOK, Unschedule
    <3>2. CASE \E e \in {timer, None} : Schedule(seen[c], e)
      BY <1>a, <2>1, <3>2, ScheduleType DEF SchedOK
    <3> QED BY <1>2, <3>1, <3>2 DEF CreateApply, UpdateApply
  <2>3. RowOK' /\ StepOK'
    BY <1>2, <1>a DEF CreateApply, UpdateApply, End, RowOK, StepOK, runVars
  <2>4. StartOK' /\ RunOK'
    BY <1>2, <1>a DEF CreateApply, UpdateApply, StartOK, RunOK, runVars
  <2>5. CallInv'
    BY <1>2, <1>a DEF CreateApply, UpdateApply, End, CallInv, Busy, RowOK, StepOK
  <2> QED BY <2>2, <2>3, <2>4, <2>5 DEF TypeOK, RowOK, SchedOK, StartOK, StepOK, RunOK
<1>3. CASE UpdateRead(c, "update") \/ UpdateRead(c, "toggle")
  <2>1. RowOK' /\ StepOK'
    <3>1. RowOK'
      BY <1>3, <1>a DEF UpdateRead, RowOK, startVars, runVars
    <3>2. StepOK'
      BY <1>3, <1>a DEF UpdateRead, Begin, StepOK
    <3> QED BY <3>1, <3>2
  <2>2. SchedOK' /\ StartOK' /\ RunOK'
    BY <1>3, <1>a DEF UpdateRead, SchedOK, StartOK, RunOK, startVars, runVars
  <2>3. CallInv'
    BY <1>3, <1>a DEF UpdateRead, Begin, CallInv, Busy, RowOK, StepOK
  <2> QED BY <2>1, <2>2, <2>3 DEF TypeOK, RowOK, SchedOK, StartOK, StepOK, RunOK
<1>4. CASE UpdateWrite(c)
  <2>1. row \in Rows /\ seen[c] \in Rows
    BY <1>4, <1>b, <1>c DEF UpdateWrite, Busy
  <2>2. row' \in Rows /\ row' # None
    <3>1. row' \in Rows
      BY <1>4, <2>1, UpdatedFact DEF UpdateWrite
    <3> QED BY <3>1
  <2>3. RowOK' /\ StepOK'
    BY <1>4, <1>a, <2>2 DEF UpdateWrite, RowOK, StepOK, startVars, runVars
  <2>4. SchedOK' /\ StartOK' /\ RunOK'
    BY <1>4, <1>a DEF UpdateWrite, SchedOK, StartOK, RunOK, startVars, runVars
  <2>5. CallInv'
    BY <1>4, <1>a, <2>2 DEF UpdateWrite, CallInv, Busy, RowOK, StepOK
  <2> QED BY <2>3, <2>4, <2>5 DEF TypeOK, RowOK, SchedOK, StartOK, StepOK, RunOK
<1>5. CASE UpdateNotFound(c) \/ DeleteWrite(c)
  <2>1. RowOK' /\ StepOK'
    BY <1>5, <1>a DEF UpdateNotFound, DeleteWrite, End, RowOK, StepOK, startVars, runVars
  <2>2. SchedOK' /\ StartOK' /\ RunOK'
    BY <1>5, <1>a DEF UpdateNotFound, DeleteWrite, SchedOK, StartOK, RunOK, startVars, runVars
  <2>3. CallInv'
    BY <1>5, <1>a DEF UpdateNotFound, DeleteWrite, End, CallInv, Busy, RowOK, StepOK
  <2> QED BY <2>1, <2>2, <2>3 DEF TypeOK, RowOK, SchedOK, StartOK, StepOK, RunOK
<1>6. CASE DeleteBegin(c)
  <2>1. RowOK' /\ StepOK'
    BY <1>6, <1>a DEF DeleteBegin, Begin, RowOK, StepOK, startVars, runVars
  <2>2. SchedOK' /\ StartOK' /\ RunOK'
    BY <1>6, <1>a DEF DeleteBegin, Unschedule, SchedOK, StartOK, RunOK, runVars
  <2>3. CallInv'
    BY <1>6, <1>a DEF DeleteBegin, Begin, CallInv, Busy, RowOK, StepOK
  <2> QED BY <2>1, <2>2, <2>3 DEF TypeOK, RowOK, SchedOK, StartOK, StepOK, RunOK
<1> QED BY <1>1, <1>2, <1>3, <1>4, <1>5, <1>6 DEF CallAction

\* Every step keeps the types, and a call that writes has read the row.
LEMMA TypeStep == Inv /\ [Next]_vars => TypeOK' /\ CallInv'
<1> SUFFICES ASSUME Inv, [Next]_vars PROVE TypeOK' /\ CallInv'
  OBVIOUS
<1>a. RowOK /\ SchedOK /\ StartOK /\ StepOK /\ RunOK /\ CallInv /\ TypeOK
  BY TypeParts DEF Inv
<1>1. ASSUME NEW c \in Calls, CallAction(c) PROVE TypeOK' /\ CallInv'
  BY <1>1, <1>a, CallType
<1>2. ASSUME UNCHANGED callVars PROVE CallInv'
  BY <1>2, <1>a DEF callVars, CallInv, Busy
<1>3. ASSUME GoesOff, started' = started PROVE SchedOK'
  <2>1. timer \in Timers /\ timer.plan \in Plans
    BY <1>3, <1>a DEF GoesOff, SchedOK, Timers
  <2>2. /\ timer' = None \/ timer' = timer
        /\ spent' = spent \cup {timer.plan} \/ spent' = spent
    BY <1>3 DEF GoesOff
  <2> QED BY <1>3, <1>a, <2>1, <2>2 DEF SchedOK
<1>4. ASSUME NEW r \in Runs, RunAction(r) PROVE TypeOK' /\ CallInv'
  <2>1. StepOK'
    BY <1>4, <1>a DEF RunAction, Fire, RunNow, RunRead, RunSkipped, RunEnds, RunDeletes,
       Meet, StepOK, callVars
  <2>2. RowOK'
    BY <1>4, <1>a DEF RunAction, Fire, RunNow, RunRead, RunSkipped, RunEnds, RunDeletes,
       Leave, RowOK, RunOK, startVars, callVars
  <2>3. StartOK'
    BY <1>4, <1>a DEF RunAction, Fire, RunNow, RunRead, RunSkipped, RunEnds, RunDeletes,
       StartOK, startVars
  <2>4. SchedOK'
    <3>1. CASE Fire(r)
      BY <3>1, <1>3 DEF Fire, startVars
    <3> QED BY <1>4, <1>a, <3>1 DEF RunAction, RunNow, RunRead, RunSkipped, RunEnds,
            RunDeletes, Unschedule, SchedOK, startVars
  <2>5. RunOK'
    <3>1. run' \in [Runs -> {"idle", "reading", "working", "deleting"}]
          /\ byTimer' \in [Runs -> BOOLEAN]
      BY <1>4, <1>a DEF RunAction, Fire, RunNow, RunRead, RunSkipped, RunEnds, RunDeletes,
         Leave, RunOK
    <3>2. worked' = worked \/ worked' = [worked EXCEPT ![row.plan] = IF @ < 2 THEN @ + 1 ELSE @]
      BY <1>4 DEF RunAction, Fire, RunNow, RunRead, RunSkipped, RunEnds, RunDeletes
    <3>3. worked' \in [Plans -> 0..2]
      BY <1>a, <3>2 DEF RunOK
    <3> QED BY <3>1, <3>3 DEF RunOK
  <2>6. UNCHANGED callVars
    BY <1>4 DEF RunAction, Fire, RunNow, RunRead, RunSkipped, RunEnds, RunDeletes
  <2> QED BY <1>2, <2>1, <2>2, <2>3, <2>4, <2>5, <2>6
          DEF TypeOK, RowOK, SchedOK, StartOK, StepOK, RunOK
<1>5. CASE StartAction
  <2>1. StepOK'
    BY <1>5, <1>a DEF StartAction, OtherScheduled, Start, StartTooLate, SyncRead, SyncApply,
       Meet, StepOK, callVars
  <2>2. RowOK' /\ StartOK' /\ RunOK'
    BY <1>5, <1>a DEF StartAction, OtherScheduled, Start, StartTooLate, SyncRead, SyncApply,
       RowOK, StartOK, RunOK, callVars, runVars
  <2>3. SchedOK'
    <3>1. CASE SyncApply /\ listed # None
      <4>1. listed \in Rows
        BY <1>a, <3>1 DEF RowOK
      <4>2. Schedule(listed, timer) \/ UNCHANGED <<timer, started, spent>>
        BY <3>1 DEF SyncApply
      <4> QED BY <1>a, <4>1, <4>2, ScheduleType DEF SchedOK
    <3> QED BY <1>5, <1>a, <3>1 DEF StartAction, OtherScheduled, Start, StartTooLate, SyncRead,
            SyncApply, SchedOK
  <2>4. UNCHANGED callVars
    BY <1>5 DEF StartAction, OtherScheduled, Start, StartTooLate, SyncRead, SyncApply
  <2> QED BY <1>2, <2>1, <2>2, <2>3, <2>4
          DEF TypeOK, RowOK, SchedOK, StartOK, StepOK, RunOK
<1>6. CASE Miss
  <2>1. SchedOK'
    BY <1>3, <1>6 DEF Miss, startVars
  <2>2. RowOK' /\ StartOK' /\ StepOK' /\ RunOK'
    BY <1>6, <1>a DEF Miss, RowOK, StartOK, StepOK, RunOK, startVars, callVars, runVars
  <2>3. UNCHANGED callVars
    BY <1>6 DEF Miss
  <2> QED BY <1>2, <2>1, <2>2, <2>3 DEF TypeOK, RowOK, SchedOK, StartOK, StepOK, RunOK
<1>7. CASE Restart
  <2>1. RowOK' /\ SchedOK'
    BY <1>7, <1>a DEF Restart, RowOK, SchedOK
  <2>2. StartOK'
    <3>1. restarts' \in 0..MaxRestarts
      BY <1>7, <1>a DEF Restart, StartOK
    <3> QED BY <1>7, <3>1 DEF Restart, StartOK
  <2>4. StepOK'
    BY <1>7, <1>a DEF Restart, StepOK
  <2>5. RunOK'
    BY <1>7 DEF Restart, RunOK
  <2>3. CallInv'
    BY <1>7, <1>a DEF Restart, CallInv, Busy, StepOK
  <2> QED BY <2>1, <2>2, <2>3, <2>4, <2>5 DEF TypeOK, RowOK, SchedOK, StartOK, StepOK, RunOK
<1>8. CASE UNCHANGED vars
  <2>1. RowOK' /\ SchedOK' /\ StartOK' /\ StepOK' /\ RunOK'
    BY <1>8, <1>a DEF vars, startVars, callVars, runVars, RowOK, SchedOK, StartOK, StepOK, RunOK
  <2>2. UNCHANGED callVars
    BY <1>8 DEF vars
  <2> QED BY <1>2, <2>1, <2>2 DEF TypeOK, RowOK, SchedOK, StartOK, StepOK, RunOK
<1> QED BY <1>1, <1>4, <1>5, <1>6, <1>7, <1>8, NextCases

----------------------------------------------------------------------------
(* The scheduler, and which schedules are known                            *)

\* The scheduler is never stopped, but by a restart.
LEMMA TimerStep == Inv /\ [Next]_vars => TimerInv'
<1> SUFFICES ASSUME Inv, [Next]_vars PROVE TimerInv'
  OBVIOUS
<1>a. TimerInv /\ SchedOK /\ RunOK
  BY TypeParts DEF Inv
<1>1. ASSUME started' \in {started, TRUE}, started' = started => timer' \in {timer, None},
             UNCHANGED <<run, byTimer>>
      PROVE  TimerInv'
  BY <1>1, <1>a DEF TimerInv, Deleting, SchedOK
<1>2. ASSUME NEW r \in Rows, NEW entry, Schedule(r, entry) PROVE started' = TRUE
  BY <1>2 DEF Schedule
<1>3. ASSUME NEW c \in Calls, CallAction(c) PROVE TimerInv'
  <2>1. UNCHANGED <<run, byTimer>>
    BY <1>3 DEF CallAction, CreateWrite, CreateApply, UpdateRead, UpdateWrite, UpdateNotFound,
       UpdateApply, DeleteBegin, DeleteWrite, runVars
  <2>2. started' = TRUE \/ (started' = started /\ timer' \in {timer, None})
    BY <1>3 DEF CallAction, CreateWrite, CreateApply, UpdateRead, UpdateWrite, UpdateNotFound,
       UpdateApply, DeleteBegin, DeleteWrite, Schedule, Unschedule, startVars
  <2> QED BY <2>1, <2>2, <1>a DEF TimerInv, Deleting
<1>4. CASE StartAction
  <2>1. UNCHANGED <<run, byTimer>>
    BY <1>4 DEF StartAction, OtherScheduled, Start, StartTooLate, SyncRead, SyncApply, runVars
  <2>2. started' = TRUE \/ (started' = started /\ timer' = timer)
    BY <1>4 DEF StartAction, OtherScheduled, Start, StartTooLate, SyncRead, SyncApply, Schedule
  <2> QED BY <2>1, <2>2, <1>a DEF TimerInv, Deleting
<1>5. CASE Miss
  BY <1>1, <1>5 DEF Miss, GoesOff, startVars, runVars
<1>6. CASE Restart
  BY <1>6, <1>a DEF Restart, TimerInv, Deleting
<1>7. ASSUME NEW r \in Runs, RunAction(r) PROVE TimerInv'
  <2>1. CASE Fire(r)
    <3>1. /\ started /\ started' = started /\ \A s \in Runs : ~byTimer[s] \/ run[s] = "idle"
          /\ run' = [run EXCEPT ![r] = "reading"] /\ byTimer' = [byTimer EXCEPT ![r] = TRUE]
      BY <2>1 DEF Fire, GoesOff, Occupied, startVars
    <3> QED BY <3>1, <1>a DEF TimerInv, Deleting, RunOK
  <2>2. CASE RunNow(r) \/ RunRead(r)
    <3>1. /\ UNCHANGED <<started, timer, byTimer>> /\ run[r] \in {"idle", "reading"}
          /\ \E x \in {"reading", "working"} : run' = [run EXCEPT ![r] = x]
      BY <2>2 DEF RunNow, RunRead, startVars
    <3> QED BY <3>1, <1>a DEF TimerInv, Deleting, RunOK
  <2>3. CASE RunSkipped(r) \/ RunDeletes(r)
    BY <2>3, <1>a DEF RunSkipped, RunDeletes, Leave, TimerInv, Deleting, RunOK, startVars
  <2>4. CASE RunEnds(r)
    <3>1. CASE job[r].once /\ byTimer[r]
      <4>1. /\ started' = started /\ timer' = None /\ byTimer' = byTimer
            /\ run' = [run EXCEPT ![r] = "deleting"]
        BY <2>4, <3>1 DEF RunEnds, Unschedule
      <4> QED BY <3>1, <4>1, <1>a DEF TimerInv, Deleting, RunOK
    <3>2. CASE ~(job[r].once /\ byTimer[r])
      BY <2>4, <3>2, <1>a DEF RunEnds, Leave, TimerInv, Deleting, RunOK
    <3> QED BY <3>1, <3>2
  <2> QED BY <1>7, <2>1, <2>2, <2>3, <2>4 DEF RunAction
<1>8. CASE UNCHANGED vars
  BY <1>1, <1>8 DEF vars, startVars, runVars
<1> QED BY <1>3, <1>4, <1>5, <1>6, <1>7, <1>8, NextCases

\* A call that has written its schedule does not start anew.
LEMMA KnownStep ==
    ASSUME Inv, [Next]_vars
    PROVE  Known \subseteq Known'
<1>a. StepOK
  BY TypeParts DEF Inv
<1> SUFFICES ASSUME NEW p \in Calls, pc[p] \in {"apply", "over"}
             PROVE  pc'[p] \in {"apply", "over"}
  BY DEF Known
<1>1. ASSUME NEW c \in Calls, CallAction(c) PROVE pc'[p] \in {"apply", "over"}
  <2>1. /\ pc[c] = "idle" \/ pc' = [pc EXCEPT ![c] = "over"] \/ pc' = [pc EXCEPT ![c] = "apply"]
        /\ \E x \in {"write", "apply", "over"} : pc' = [pc EXCEPT ![c] = x]
    BY <1>1 DEF CallAction, CreateWrite, CreateApply, UpdateRead, UpdateWrite, UpdateNotFound,
       UpdateApply, DeleteBegin, DeleteWrite, Begin, End
  <2> QED BY <2>1, <1>a DEF StepOK
<1>2. CASE Restart
  BY <1>2, <1>a DEF Restart, StepOK
<1>3. ASSUME NEW r \in Runs, RunAction(r) PROVE pc' = pc
  BY <1>3 DEF RunAction, Fire, RunNow, RunRead, RunSkipped, RunEnds, RunDeletes, callVars
<1>4. CASE StartAction \/ Miss \/ UNCHANGED vars
  BY <1>4 DEF StartAction, OtherScheduled, Start, StartTooLate, SyncRead, SyncApply, Miss,
     vars, callVars
<1> QED BY <1>1, <1>2, <1>3, <1>4, NextCases

\* What is in the row, was read from it or done, is known.
LEMMA PlanStep == Inv /\ [Next]_vars => PlanInv'
<1> SUFFICES ASSUME Inv, [Next]_vars PROVE PlanInv'
  OBVIOUS
<1>a. PlanInv /\ RowOK /\ StepOK /\ RunOK /\ CallInv
  BY TypeParts DEF Inv
<1>b. Known \subseteq Known'
  BY KnownStep
<1>c. \A x \in Rows : x # None
  OBVIOUS
<1>1. ASSUME row' = row \/ row' = None, \A p \in Plans : worked'[p] > 0 => p \in Known,
             \A r \in Runs : job'[r] \in {job[r], row, None},
             \A c \in Calls : seen'[c] \in {seen[c], row, None}
      PROVE  PlanInv'
  <2>1. \A c \in Calls : seen'[c] # None => seen'[c].plan \in Known
    BY <1>1, <1>a DEF PlanInv
  <2>2. \A r \in Runs : job'[r] # None => job'[r].plan \in Known
    BY <1>1, <1>a DEF PlanInv
  <2>3. row' # None => row'.plan \in Known
    BY <1>1, <1>a DEF PlanInv
  <2> QED BY <1>1, <1>b, <2>1, <2>2, <2>3 DEF PlanInv
<1>2. ASSUME NEW c \in Calls, CallAction(c) PROVE PlanInv'
  <2>a. UNCHANGED <<job, worked>>
    BY <1>2 DEF CallAction, CreateWrite, CreateApply, UpdateRead, UpdateWrite, UpdateNotFound,
       UpdateApply, DeleteBegin, DeleteWrite, runVars
  <2>1. CASE CreateWrite(c) \/ UpdateWrite(c)
    <3>1. seen' = [seen EXCEPT ![c] = row'] /\ pc'[c] = "apply"
      BY <2>1, <1>a DEF CreateWrite, UpdateWrite, Begin, StepOK
    <3>2. c \in Known'
      BY <3>1 DEF Known
    <3>3. row'.plan \in Known'
      <4>1. CASE CreateWrite(c)
        BY <4>1, <3>2 DEF CreateWrite
      <4>2. CASE UpdateWrite(c)
        <5>1. row \in Rows /\ seen[c] \in Rows /\ seen[c].plan \in Known
          BY <4>2, <1>a DEF UpdateWrite, RowOK, CallInv, Busy, PlanInv
        <5>2. row'.plan \in {c, seen[c].plan}
          BY <4>2, <5>1, UpdatedFact DEF UpdateWrite
        <5> QED BY <5>1, <5>2, <3>2, <1>b
      <4> QED BY <2>1, <4>1, <4>2
    <3>4. \A d \in Calls : seen'[d] # None => seen'[d].plan \in Known'
      BY <3>1, <3>3, <1>a, <1>b DEF PlanInv, RowOK
    <3> QED BY <2>a, <3>3, <3>4, <1>a, <1>b DEF PlanInv
  <2>2. CASE ~(CreateWrite(c) \/ UpdateWrite(c))
    <3>1. /\ row' \in {row, None}
          /\ \E x \in {seen[c], row, None} : seen' = [seen EXCEPT ![c] = x]
      BY <1>2, <2>2, <1>a DEF CallAction, CreateApply, UpdateRead, UpdateNotFound, UpdateApply,
         DeleteBegin, DeleteWrite, End, RowOK
    <3> QED BY <3>1, <2>a, <1>1, <1>a DEF RowOK, PlanInv
  <2> QED BY <2>1, <2>2
<1>3. ASSUME NEW r \in Runs, RunAction(r) PROVE PlanInv'
  <2>1. /\ row' \in {row, None} /\ seen' = seen
        /\ job' = job \/ \E x \in {row, None} : job' = [job EXCEPT ![r] = x]
        /\ \/ worked' = worked
           \/ row # None /\ worked' = [worked EXCEPT ![row.plan] = IF @ < 2 THEN @ + 1 ELSE @]
    BY <1>3 DEF RunAction, Fire, RunNow, RunRead, RunSkipped, RunEnds, RunDeletes, Leave, callVars
  <2>2. \A s \in Runs : job'[s] \in {job[s], row, None}
    BY <2>1, <1>a DEF RowOK
  <2>3. \A p \in Plans : worked'[p] > 0 => p \in Known
    BY <2>1, <1>a DEF PlanInv, RunOK
  <2> QED BY <2>1, <2>2, <2>3, <1>1
<1>4. CASE StartAction \/ Miss \/ UNCHANGED vars
  <2>1. UNCHANGED <<row, seen, job, worked>>
    BY <1>4 DEF StartAction, OtherScheduled, Start, StartTooLate, SyncRead, SyncApply, Miss,
       vars, callVars, runVars
  <2> QED BY <2>1, <1>1, <1>a DEF PlanInv
<1>5. CASE Restart
  BY <1>5, <1>1, <1>a DEF Restart, PlanInv
<1> QED BY <1>2, <1>3, <1>4, <1>5, NextCases

----------------------------------------------------------------------------
(* One-time schedules                                                      *)

\* A schedule that is gone and was written stays gone.
LEMMA GoneStep ==
    ASSUME Inv, [Next]_vars, NEW p \in Plans, p \in Known, Gone(p)
    PROVE  Gone(p)'
<1>a. RowOK /\ StepOK /\ CallInv /\ PlanInv
  BY TypeParts DEF Inv
<1>1. ASSUME UNCHANGED <<row, op, pc, seen>> PROVE Gone(p)'
  BY <1>1 DEF Gone
<1>2. ASSUME NEW c \in Calls, CallAction(c) PROVE Gone(p)'
  <2>1. CASE CreateWrite(c)
    <3>1. row'.plan = c /\ p # c /\ \A d \in Calls : pc'[d] # "write"
      BY <2>1, <1>a DEF CreateWrite, Begin, Known, StepOK
    <3> QED BY <3>1 DEF Gone
  <2>2. CASE CreateApply(c) \/ UpdateApply(c) \/ UpdateNotFound(c)
    <3>1. /\ row' = row
          /\ op' = [op EXCEPT ![c] = "none"] /\ pc' = [pc EXCEPT ![c] = "over"]
          /\ seen' = [seen EXCEPT ![c] = None]
      BY <2>2 DEF CreateApply, UpdateApply, UpdateNotFound, End
    <3> QED BY <3>1, <1>a DEF Gone, StepOK, RowOK
  <2>3. CASE \E what \in {"update", "toggle"} : UpdateRead(c, what)
    <3>1. /\ row' = row /\ row # None
          /\ seen' = [seen EXCEPT ![c] = row]
          /\ \E what \in {"update", "toggle"} : op' = [op EXCEPT ![c] = what]
          /\ pc' = [pc EXCEPT ![c] = "write"]
      BY <2>3 DEF UpdateRead, Begin
    <3> QED BY <3>1, <1>a DEF Gone, StepOK, RowOK
  <2>4. CASE UpdateWrite(c)
    <3>1. row \in Rows /\ seen[c] \in Rows /\ row' \in Updated(c)
      BY <2>4, <1>a DEF UpdateWrite, RowOK, CallInv, Busy
    <3>2. /\ pc[c] = "write" /\ op[c] \in {"update", "toggle"} /\ op' = op
          /\ pc' = [pc EXCEPT ![c] = "apply"] /\ seen' = [seen EXCEPT ![c] = row']
      BY <2>4 DEF UpdateWrite
    <3>3. row'.plan # p
      BY <3>1, <3>2, UpdatedFact DEF Gone, Known
    <3> QED BY <3>1, <3>2, <3>3, <1>a DEF Gone, StepOK, RowOK
  <2>5. CASE DeleteBegin(c)
    BY <2>5, <1>a DEF DeleteBegin, Begin, Gone, StepOK
  <2>6. CASE DeleteWrite(c)
    BY <2>6 DEF DeleteWrite, Gone
  <2> QED BY <1>2, <2>1, <2>2, <2>3, <2>4, <2>5, <2>6 DEF CallAction
<1>3. ASSUME NEW r \in Runs, RunAction(r) PROVE Gone(p)'
  <2>1. CASE RunDeletes(r)
    BY <2>1 DEF RunDeletes, Gone
  <2>2. CASE ~RunDeletes(r)
    BY <1>1, <1>3, <2>2 DEF RunAction, Fire, RunNow, RunRead, RunSkipped, RunEnds, callVars
  <2> QED BY <2>1, <2>2
<1>4. CASE StartAction \/ Miss \/ UNCHANGED vars
  BY <1>1, <1>4 DEF StartAction, OtherScheduled, Start, StartTooLate, SyncRead, SyncApply, Miss,
     vars, callVars
<1>5. CASE Restart
  BY <1>5 DEF Restart, Gone
<1> QED BY <1>2, <1>3, <1>4, <1>5, NextCases

\* The run that did a one-time schedule is the last one, and ends by deleting the job.
LEMMA WorkStep == Inv /\ [Next]_vars => WorkInv'
<1> SUFFICES ASSUME Inv, [Next]_vars, NEW p \in Plans, worked'[p] > 0
             PROVE  worked'[p] = 1 /\ (AtWork(p)' \/ Gone(p)')
  BY DEF WorkInv
<1>a. /\ RowOK /\ RunOK /\ TimerInv
      /\ worked[p] > 0 => worked[p] = 1 /\ p \in Known /\ (AtWork(p) \/ Gone(p))
  BY TypeParts DEF Inv, WorkInv, PlanInv
<1>1. ASSUME UNCHANGED <<run, byTimer, job, worked>>
      PROVE  worked'[p] = 1 /\ (AtWork(p)' \/ Gone(p)')
  <2>1. CASE Gone(p)
    BY <1>1, <1>a, <2>1, GoneStep
  <2>2. CASE AtWork(p)
    BY <1>1, <1>a, <2>2 DEF AtWork
  <2> QED BY <1>1, <1>a, <2>1, <2>2
<1>2. ASSUME NEW c \in Calls, CallAction(c) PROVE UNCHANGED <<run, byTimer, job, worked>>
  BY <1>2 DEF CallAction, CreateWrite, CreateApply, UpdateRead, UpdateWrite, UpdateNotFound,
     UpdateApply, DeleteBegin, DeleteWrite, runVars
<1>3. CASE StartAction \/ Miss \/ UNCHANGED vars
  BY <1>1, <1>3 DEF StartAction, OtherScheduled, Start, StartTooLate, SyncRead, SyncApply, Miss,
     vars, runVars
<1>4. CASE Restart
  BY <1>4 DEF Restart
<1>5. ASSUME NEW r \in Runs, Fire(r) \/ RunNow(r) \/ RunSkipped(r)
      PROVE  worked'[p] = 1 /\ (AtWork(p)' \/ Gone(p)')
  <2>1. /\ worked' = worked /\ run[r] \in {"idle", "reading"}
        /\ \A s \in Runs \ {r} : run'[s] = run[s] /\ byTimer'[s] = byTimer[s] /\ job'[s] = job[s]
    BY <1>5, <1>a DEF Fire, RunNow, RunSkipped, Leave, RunOK, RowOK
  <2>2. CASE AtWork(p)
    BY <2>1, <2>2, <1>a DEF AtWork
  <2> QED BY <2>1, <2>2, <1>a, GoneStep
<1>6. ASSUME NEW r \in Runs, RunRead(r)
      PROVE  worked'[p] = 1 /\ (AtWork(p)' \/ Gone(p)')
  <2>1. /\ row # None /\ row \in Rows /\ row.plan \in Plans /\ run[r] = "reading"
        /\ row' = row /\ UNCHANGED <<byTimer, callVars>>
        /\ run' = [run EXCEPT ![r] = "working"] /\ job' = [job EXCEPT ![r] = row]
    BY <1>6, <1>a DEF RunRead, RowOK, Rows
  <2>2. CASE row.once /\ byTimer[r] /\ row.plan = p
    <3>1. worked[p] = 0
      <4>1. ~Gone(p)
        BY <2>1, <2>2 DEF Gone
      <4>2. ~AtWork(p)
        BY <2>1, <2>2, <1>a DEF AtWork, TimerInv
      <4> QED BY <4>1, <4>2, <1>a DEF RunOK
    <3>2. worked'[p] = 1
      BY <1>6, <1>a, <2>2, <3>1 DEF RunRead, RunOK
    <3>3. AtWork(p)'
      BY <2>1, <2>2, <1>a DEF AtWork, RunOK, RowOK
    <3> QED BY <3>2, <3>3
  <2>3. CASE ~(row.once /\ byTimer[r] /\ row.plan = p)
    <3>1. worked'[p] = worked[p]
      BY <1>6, <1>a, <2>1, <2>3 DEF RunRead, RunOK
    <3>2. CASE AtWork(p)
      <4>1. PICK s \in Runs : /\ byTimer[s] /\ run[s] \in {"working", "deleting"}
                              /\ job[s].once /\ job[s].plan = p
        BY <3>2 DEF AtWork
      <4>2. s # r
        BY <2>1, <4>1
      <4> QED BY <2>1, <3>1, <4>1, <4>2, <1>a DEF AtWork, RunOK, RowOK
    <3> QED BY <3>1, <3>2, <1>a, GoneStep
  <2> QED BY <2>2, <2>3
<1>7. ASSUME NEW r \in Runs, RunEnds(r) \/ RunDeletes(r)
      PROVE  worked'[p] = 1 /\ (AtWork(p)' \/ Gone(p)')
  <2>1. worked' = worked
    BY <1>7 DEF RunEnds, RunDeletes
  <2>2. CASE RunDeletes(r)
    BY <2>1, <2>2, <1>a DEF RunDeletes, Gone
  <2>3. CASE RunEnds(r) /\ AtWork(p)
    <3>1. PICK s \in Runs : /\ byTimer[s] /\ run[s] \in {"working", "deleting"}
                            /\ job[s].once /\ job[s].plan = p
      BY <2>3 DEF AtWork
    <3>2. CASE job[r].once /\ byTimer[r]
      <4>1. run' = [run EXCEPT ![r] = "deleting"] /\ UNCHANGED <<byTimer, job>>
        BY <2>3, <3>2 DEF RunEnds
      <4> QED BY <2>1, <3>1, <4>1, <1>a DEF AtWork, RunOK
    <3>3. CASE ~(job[r].once /\ byTimer[r])
      <4>1. s # r
        BY <3>1, <3>3
      <4>2. run'[s] = run[s] /\ byTimer'[s] = byTimer[s] /\ job'[s] = job[s]
        BY <2>3, <3>3, <4>1, <1>a DEF RunEnds, Leave, RunOK, RowOK
      <4> QED BY <2>1, <3>1, <4>2, <1>a DEF AtWork
    <3> QED BY <3>2, <3>3
  <2> QED BY <1>7, <2>1, <2>2, <2>3, <1>a, GoneStep
<1> QED BY <1>1, <1>2, <1>3, <1>4, <1>5, <1>6, <1>7, NextCases DEF RunAction

----------------------------------------------------------------------------
(* Changes that meet no other                                              *)

\* Every call is busy or over after its first step.
LEMMA FreshStep == Inv /\ [Next]_vars => FreshInv'
<1> SUFFICES ASSUME Inv, [Next]_vars, \A c \in Calls : pc'[c] = "idle"
             PROVE  /\ starting' # "up" => timer' = None /\ \A r \in Runs : ~byTimer'[r]
                    /\ starting' = "scheduling" => listed' = row'
                    /\ row' = None => timer' = None
                    /\ \A r \in Runs : Deleting(r)' => timer' = None
  BY DEF FreshInv
<1>a. FreshInv /\ TimerInv /\ RowOK /\ SchedOK /\ StartOK /\ StepOK /\ RunOK
  BY TypeParts DEF Inv
<1> USE DEF Deleting
<1>1. ASSUME NEW c \in Calls, CallAction(c) PROVE FALSE
  BY <1>1, <1>a DEF CallAction, CreateWrite, CreateApply, UpdateRead, UpdateWrite,
     UpdateNotFound, UpdateApply, DeleteBegin, DeleteWrite, Begin, End, StepOK
<1>2. CASE StartAction
  <2>1. \A c \in Calls : pc[c] = "idle"
    BY <1>2 DEF StartAction, OtherScheduled, Start, StartTooLate, SyncRead, SyncApply, callVars
  <2>2. /\ starting # "up" => timer = None /\ \A r \in Runs : ~byTimer[r]
        /\ starting = "scheduling" => listed = row
    BY <2>1, <1>a DEF FreshInv
  <2>3. starting # "up" /\ row' = row /\ run' = run /\ byTimer' = byTimer
    BY <1>2 DEF StartAction, OtherScheduled, Start, StartTooLate, SyncRead, SyncApply, runVars
  <2>4. \A r \in Runs : ~Deleting(r)
    BY <2>2, <2>3, <1>a DEF TimerInv
  <2>5. CASE SyncApply
    <3>1. starting' = "up" /\ (row = None => timer' = timer)
      BY <2>2, <2>5 DEF SyncApply
    <3> QED BY <2>2, <2>3, <2>4, <3>1
  <2>6. CASE ~SyncApply
    <3>1. timer' = timer /\ (starting' = "scheduling" => listed' = row)
      BY <1>2, <2>1, <2>2, <2>6, <1>a DEF StartAction, OtherScheduled, Start, StartTooLate,
         SyncRead
    <3> QED BY <2>2, <2>3, <2>4, <3>1
  <2> QED BY <2>5, <2>6
<1>3. CASE Miss \/ UNCHANGED vars
  <2>1. UNCHANGED <<row, starting, listed, pc, run, byTimer>> /\ timer' \in {None, timer}
    BY <1>3 DEF Miss, GoesOff, vars, startVars, callVars, runVars
  <2> QED BY <2>1, <1>a DEF FreshInv
<1>4. CASE Restart
  BY <1>4 DEF Restart
<1>5. ASSUME NEW r \in Runs, RunAction(r)
      PROVE  /\ starting' # "up" => timer' = None /\ \A s \in Runs : ~byTimer'[s]
             /\ starting' = "scheduling" => listed' = row'
             /\ row' = None => timer' = None
             /\ \A s \in Runs : Deleting(s)' => timer' = None
  <2>1. UNCHANGED <<starting, listed, pc>> /\ timer' \in {None, timer}
    BY <1>5 DEF RunAction, Fire, RunNow, RunRead, RunSkipped, RunEnds, RunDeletes, GoesOff,
       Unschedule, startVars, callVars
  <2>2. /\ starting # "up" => timer = None /\ \A s \in Runs : ~byTimer[s]
        /\ starting = "scheduling" => listed = row
        /\ row = None => timer = None
        /\ \A s \in Runs : Deleting(s) => timer = None
    BY <2>1, <1>a DEF FreshInv
  <2>3. CASE Fire(r)
    <3>1. row' = row /\ timer # None /\ run' = [run EXCEPT ![r] = "reading"]
      BY <2>3 DEF Fire, GoesOff
    <3> QED BY <2>1, <2>2, <3>1, <1>a DEF RunOK
  <2>4. CASE RunNow(r) \/ RunRead(r)
    <3>1. /\ UNCHANGED <<row, timer, byTimer>>
          /\ \E x \in {"reading", "working"} : run' = [run EXCEPT ![r] = x]
      BY <2>4 DEF RunNow, RunRead
    <3> QED BY <2>1, <2>2, <3>1, <1>a DEF RunOK
  <2>5. CASE RunSkipped(r)
    <3>1. /\ UNCHANGED <<row, timer>>
          /\ run' = [run EXCEPT ![r] = "idle"] /\ byTimer' = [byTimer EXCEPT ![r] = FALSE]
      BY <2>5 DEF RunSkipped, Leave
    <3> QED BY <2>1, <2>2, <3>1, <1>a DEF RunOK
  <2>6. CASE RunEnds(r)
    <3>1. CASE job[r].once /\ byTimer[r]
      <4>1. row' = row /\ timer' = None /\ byTimer' = byTimer
        BY <2>6, <3>1 DEF RunEnds, Unschedule
      <4> QED BY <2>1, <2>2, <4>1
    <3>2. CASE ~(job[r].once /\ byTimer[r])
      <4>1. /\ UNCHANGED <<row, timer>>
            /\ run' = [run EXCEPT ![r] = "idle"] /\ byTimer' = [byTimer EXCEPT ![r] = FALSE]
        BY <2>6, <3>2 DEF RunEnds, Leave
      <4> QED BY <2>1, <2>2, <4>1, <1>a DEF RunOK
    <3> QED BY <3>1, <3>2
  <2>7. CASE RunDeletes(r)
    <3>1. /\ Deleting(r) /\ timer' = timer /\ byTimer[r]
      BY <2>7, <1>a DEF RunDeletes, TimerInv
    <3> QED BY <2>1, <2>2, <3>1
  <2> QED BY <1>5, <2>3, <2>4, <2>5, <2>6, <2>7 DEF RunAction
<1> QED BY <1>1, <1>2, <1>3, <1>4, <1>5, NextCases

\* A change that begins while another is in progress tangles the two.
LEMMA AloneStep == Inv /\ [Next]_vars => AloneInv'
<1> SUFFICES ASSUME Inv, [Next]_vars PROVE AloneInv'
  OBVIOUS
<1>a. AloneInv /\ TimerInv /\ StartOK /\ StepOK /\ RunOK
  BY TypeParts DEF Inv
<1> USE DEF Busy, Deleting, Only, Syncing
<1>1. ASSUME UNCHANGED <<pc, alone, tangled>>, Syncing' => Syncing,
             \A r \in Runs : Deleting(r)' => Deleting(r)
      PROVE  AloneInv'
  BY <1>1, <1>a DEF AloneInv
<1>2. ASSUME NEW c \in Calls, \E what, at : Begin(c, what, at),
             UNCHANGED <<starting, run>>
      PROVE  AloneInv'
  <2>1. /\ pc[c] = "idle" /\ tangled' = (tangled \/ Changing)
        /\ alone' = [d \in Calls |-> d = c /\ ~Changing]
        /\ \A d \in Calls : pc'[d] = pc[d] \/ d = c
    BY <1>2, <1>a DEF Begin, StepOK
  <2>2. CASE Changing
    BY <2>1, <2>2 DEF AloneInv
  <2>3. CASE ~Changing
    <3>1. ~Syncing /\ (\A d \in Calls : ~Busy(d)) /\ \A r \in Runs : ~Deleting(r)
      BY <2>3 DEF Changing
    <3> QED BY <1>2, <2>1, <2>3, <3>1 DEF AloneInv
  <2> QED BY <2>2, <2>3
<1>3. ASSUME NEW c \in Calls, End(c), Busy(c), UNCHANGED <<starting, run>>
      PROVE  AloneInv'
  <2>1. /\ pc'[c] = "over" /\ \A d \in Calls \ {c} : pc'[d] = pc[d]
        /\ tangled' = (tangled /\ ~alone[c]) /\ alone' = alone
    BY <1>3, <1>a DEF End, StepOK
  <2>2. CASE alone[c]
    <3>1. ~Syncing /\ (\A d \in Calls : Busy(d) => d = c) /\ \A r \in Runs : ~Deleting(r)
      BY <1>3, <2>2, <1>a DEF AloneInv
    <3> QED BY <1>3, <2>1, <3>1 DEF AloneInv
  <2>3. CASE ~alone[c]
    BY <1>3, <2>1, <2>3, <1>a DEF AloneInv, StepOK
  <2> QED BY <2>2, <2>3
<1>4. ASSUME NEW c \in Calls, CallAction(c) PROVE AloneInv'
  <2>1. UNCHANGED <<starting, run>>
    BY <1>4 DEF CallAction, CreateWrite, CreateApply, UpdateRead, UpdateWrite, UpdateNotFound,
       UpdateApply, DeleteBegin, DeleteWrite, startVars, runVars
  <2>2. CASE CreateWrite(c) \/ UpdateRead(c, "update") \/ UpdateRead(c, "toggle")
             \/ DeleteBegin(c)
    BY <1>2, <2>1, <2>2 DEF CreateWrite, UpdateRead, DeleteBegin
  <2>3. CASE CreateApply(c) \/ UpdateNotFound(c) \/ UpdateApply(c) \/ DeleteWrite(c)
    BY <1>3, <2>1, <2>3 DEF CreateApply, UpdateNotFound, UpdateApply, DeleteWrite
  <2>4. CASE UpdateWrite(c)
    <3>1. /\ pc[c] = "write" /\ pc' = [pc EXCEPT ![c] = "apply"]
          /\ UNCHANGED <<alone, tangled>>
      BY <2>4 DEF UpdateWrite
    <3>2. \A d \in Calls : Busy(d)' <=> Busy(d)
      BY <3>1, <1>a DEF StepOK
    <3> QED BY <2>1, <3>1, <3>2, <1>a DEF AloneInv
  <2> QED BY <1>4, <2>2, <2>3, <2>4 DEF CallAction
<1>5. ASSUME NEW r \in Runs, RunAction(r) PROVE AloneInv'
  <2>1. UNCHANGED <<starting, pc>>
    BY <1>5 DEF RunAction, Fire, RunNow, RunRead, RunSkipped, RunEnds, RunDeletes, startVars,
       callVars
  <2>2. CASE RunEnds(r) /\ job[r].once /\ byTimer[r]
    <3>1. /\ tangled' = (tangled \/ Changing) /\ \A c \in Calls : ~alone'[c]
          /\ \A s \in Runs : s # r => run'[s] = run[s]
      BY <2>2, <1>a DEF RunEnds, Meet, RunOK
    <3>2. CASE Changing
      BY <3>1, <3>2 DEF AloneInv
    <3>3. CASE ~Changing
      BY <2>1, <3>1, <3>3 DEF AloneInv, Changing
    <3> QED BY <3>2, <3>3
  <2>3. CASE ~(RunEnds(r) /\ job[r].once /\ byTimer[r])
    <3>1. /\ UNCHANGED <<alone, tangled>>
          /\ \E x \in {"reading", "working", "idle"} : run' = [run EXCEPT ![r] = x]
      BY <1>5, <2>3 DEF RunAction, Fire, RunNow, RunRead, RunSkipped, RunEnds, RunDeletes, Leave
    <3>2. \A s \in Runs : Deleting(s)' => Deleting(s)
      BY <3>1, <1>a DEF RunOK
    <3> QED BY <1>1, <2>1, <3>1, <3>2
  <2> QED BY <2>2, <2>3
<1>6. CASE Start
  <2>1. /\ tangled' = (tangled \/ Changing) /\ \A c \in Calls : ~alone'[c]
        /\ UNCHANGED <<pc, run>>
    BY <1>6 DEF Start, Meet, callVars, runVars
  <2>2. CASE Changing
    BY <2>1, <2>2 DEF AloneInv
  <2>3. CASE ~Changing
    BY <2>1, <2>3 DEF AloneInv, Changing
  <2> QED BY <2>2, <2>3
<1>7. CASE StartTooLate
  BY <1>7 DEF StartTooLate, AloneInv
<1>8. CASE OtherScheduled \/ SyncRead \/ SyncApply \/ Miss \/ UNCHANGED vars
  BY <1>1, <1>8 DEF OtherScheduled, SyncRead, SyncApply, Miss, vars, startVars, callVars, runVars
<1>9. CASE Restart
  BY <1>9 DEF Restart, AloneInv
<1> QED BY <1>4, <1>5, <1>6, <1>7, <1>8, <1>9, NextCases DEF StartAction

\* What is scheduled alone, for the row as it is, is what is wanted.
LEMMA ScheduleFact ==
    ASSUME NEW r, r \in Rows, row' = r, NEW entry, entry = None,
           IF r.enabled THEN Schedule(r, entry) ELSE timer' = None
    PROVE  timer' = Wanted'
BY DEF Schedule, Wanted, Rows

\* Going off leaves the job in order, and no entry where there was none.
LEMMA GoesOffFact ==
    ASSUME GoesOff, row' = row, timer \in Timers
    PROVE  timer # None /\ (InOrder => InOrder')
<1>1. timer # None
  BY DEF GoesOff
<1>2. CASE timer.once
  BY <1>1, <1>2 DEF GoesOff, InOrder, Wanted
<1>3. CASE ~timer.once
  BY <1>1, <1>3 DEF GoesOff, InOrder, Wanted
<1> QED BY <1>1, <1>2, <1>3

\* A change that was alone has put the job in order when it ends.
LEMMA OrderStep == Inv /\ [Next]_vars => OrderInv'
<1> SUFFICES ASSUME Inv, [Next]_vars PROVE OrderInv'
  OBVIOUS
<1>a. /\ OrderInv /\ AloneInv /\ TimerInv /\ CallInv /\ FreshInv
      /\ RowOK /\ SchedOK /\ StepOK /\ RunOK
  BY TypeParts DEF Inv
<1> USE DEF Busy, Deleting, Syncing
<1>b. ASSUME NEW c \in Calls, Busy(c), alone[c] \/ ~tangled
      PROVE  /\ alone[c] /\ ~Syncing /\ (\A r \in Runs : ~Deleting(r))
             /\ \A d \in Calls : Busy(d) => d = c
  BY <1>b, <1>a DEF AloneInv, Only
<1>1. ASSUME UNCHANGED <<row, starting, listed, op, pc, seen, alone, tangled>>,
             timer = None => timer' = None, InOrder => InOrder',
             \A r \in Runs : Deleting(r)' <=> Deleting(r)
      PROVE  OrderInv'
  <2>1. Changing' <=> Changing
    BY <1>1 DEF Changing
  <2>2. ScheduledAsStored'
    BY <1>1, <1>a, <2>1 DEF OrderInv, ScheduledAsStored, Settled
  <2> QED BY <1>1, <1>a, <2>2 DEF OrderInv
<1>2. ASSUME UNCHANGED <<row, timer, spent>> PROVE InOrder => InOrder'
  BY <1>2 DEF InOrder, Wanted
<1>3. ASSUME NEW c \in Calls, \E what, at : Begin(c, what, at), UNCHANGED <<starting, run>>,
             pc'[c] = "apply" => seen'[c] = row',
             op'[c] \in {"create", "delete"} => timer' = None,
             op'[c] \in {"update", "toggle"} => row' # None,
             pc'[c] \in {"write", "apply"}
      PROVE  OrderInv'
  <2>1. /\ tangled' = (tangled \/ Changing)
        /\ \A d \in Calls : alone'[d] => d = c
    BY <1>3 DEF Begin
  <2>2. Changing'
    BY <1>3 DEF Changing
  <2>3. ~Changing => ~Syncing /\ \A r \in Runs : ~Deleting(r)
    BY DEF Changing
  <2>4. ScheduledAsStored'
    BY <2>2 DEF ScheduledAsStored, Settled
  <2> QED BY <1>3, <2>1, <2>3, <2>4 DEF OrderInv
<1>4. ASSUME NEW c \in Calls, Busy(c), End(c), UNCHANGED <<starting, run>>,
             alone[c] => InOrder'
      PROVE  OrderInv'
  <2>1. /\ pc'[c] = "over" /\ \A d \in Calls \ {c} : pc'[d] = pc[d]
        /\ tangled' = (tangled /\ ~alone[c]) /\ alone' = alone
    BY <1>4, <1>a DEF End, StepOK
  <2>2. ~tangled' => alone[c] /\ ~Syncing /\ \A r \in Runs : ~Deleting(r)
    BY <1>b, <1>4, <2>1
  <2>3. \A d \in Calls : Busy(d)' => ~alone'[d]
    BY <1>b, <1>4, <2>1
  <2>4. ScheduledAsStored'
    BY <1>4, <2>2 DEF ScheduledAsStored
  <2> QED BY <1>4, <2>2, <2>3, <2>4 DEF OrderInv
<1>5. ASSUME NEW c \in Calls, CallAction(c) PROVE OrderInv'
  <2>a. UNCHANGED <<starting, run>>
    BY <1>5 DEF CallAction, CreateWrite, CreateApply, UpdateRead, UpdateWrite, UpdateNotFound,
       UpdateApply, DeleteBegin, DeleteWrite, startVars, runVars
  <2>b. /\ Busy(c) /\ op[c] # "delete" => seen[c] \in Rows
        /\ Busy(c) /\ alone[c] =>
            /\ pc[c] = "apply" => seen[c] = row
            /\ op[c] \in {"create", "delete"} => timer = None
            /\ op[c] \in {"update", "toggle"} => row # None
    BY <1>a DEF CallInv, RowOK, OrderInv
  <2>1. CASE CreateWrite(c)
    <3>1. timer = None
      BY <2>1, <1>a DEF CreateWrite, FreshInv
    <3>2. /\ Begin(c, "create", "apply") /\ timer' = None /\ seen'[c] = row'
          /\ op'[c] = "create" /\ pc'[c] = "apply"
      BY <2>1, <3>1, <1>a DEF CreateWrite, Begin, StepOK, RowOK
    <3> QED BY <1>3, <2>a, <3>2
  <2>2. CASE UpdateRead(c, "update") \/ UpdateRead(c, "toggle")
    <3>1. /\ \E what \in {"update", "toggle"} : Begin(c, what, "write")
          /\ row' = row /\ row # None
      BY <2>2 DEF UpdateRead
    <3>2. op'[c] \in {"update", "toggle"} /\ pc'[c] = "write"
      BY <3>1, <1>a DEF Begin, StepOK
    <3> QED BY <1>3, <2>a, <3>1, <3>2
  <2>3. CASE DeleteBegin(c)
    <3>1. Begin(c, "delete", "write") /\ timer' = None
      BY <2>3 DEF DeleteBegin, Unschedule
    <3>2. op'[c] = "delete" /\ pc'[c] = "write"
      BY <3>1, <1>a DEF Begin, StepOK
    <3> QED BY <1>3, <2>a, <3>1, <3>2
  <2>4. CASE CreateApply(c) \/ UpdateApply(c)
    <3>1. /\ Busy(c) /\ pc[c] = "apply" /\ End(c) /\ row' = row
          /\ op[c] \in {"create", "update", "toggle"}
      BY <2>4 DEF CreateApply, UpdateApply
    <3>2. ASSUME alone[c] PROVE InOrder'
      <4>1. seen[c] = row /\ row \in Rows
        BY <2>b, <3>1, <3>2
      <4>2. \E entry \in {None} :
                IF row.enabled THEN Schedule(row, entry) ELSE timer' = None
        BY <2>b, <2>4, <3>1, <3>2, <4>1 DEF CreateApply, UpdateApply, Unschedule
      <4>3. timer' = Wanted'
        BY <3>1, <4>1, <4>2, ScheduleFact
      <4> QED BY <4>3 DEF InOrder
    <3> QED BY <1>4, <2>a, <3>1, <3>2
  <2>5. CASE UpdateNotFound(c)
    <3>1. Busy(c) /\ End(c) /\ ~alone[c]
      BY <2>5, <2>b DEF UpdateNotFound
    <3> QED BY <1>4, <2>a, <3>1
  <2>6. CASE DeleteWrite(c)
    <3>1. Busy(c) /\ End(c) /\ op[c] = "delete" /\ timer' = timer /\ row' = None
      BY <2>6 DEF DeleteWrite
    <3>2. alone[c] => InOrder'
      BY <2>b, <3>1 DEF InOrder, Wanted
    <3> QED BY <1>4, <2>a, <3>1, <3>2
  <2>7. CASE UpdateWrite(c)
    <3>1. /\ Busy(c) /\ op[c] \in {"update", "toggle"} /\ seen[c] \in Rows
          /\ row \in Rows /\ row' \in Updated(c)
          /\ pc' = [pc EXCEPT ![c] = "apply"] /\ seen' = [seen EXCEPT ![c] = row']
          /\ UNCHANGED <<op, alone, tangled>>
      BY <2>7, <2>b, <1>a DEF UpdateWrite, RowOK
    <3>2. row' # None /\ seen'[c] = row'
      BY <3>1, <1>a, UpdatedFact DEF RowOK
    <3>3. \A d \in Calls : Busy(d)' => Busy(d)
      BY <3>1, <1>a DEF StepOK
    <3>4. \A d \in Calls : Busy(d)' /\ alone'[d] => d = c
      BY <1>b, <3>1, <3>3
    <3>5. ~tangled' => ~Syncing' /\ \A r \in Runs : ~Deleting(r)'
      BY <1>b, <2>a, <3>1
    <3>6. ScheduledAsStored'
      BY <3>1, <1>a DEF ScheduledAsStored, Settled, Changing, StepOK
    <3> QED BY <3>1, <3>2, <3>4, <3>5, <3>6 DEF OrderInv
  <2> QED BY <1>5, <2>1, <2>2, <2>3, <2>4, <2>5, <2>6, <2>7 DEF CallAction
<1>6. ASSUME NEW r \in Runs, RunAction(r) PROVE OrderInv'
  <2>1. CASE Fire(r)
    <3>1. /\ GoesOff /\ run[r] = "idle" /\ run' = [run EXCEPT ![r] = "reading"]
          /\ UNCHANGED <<row, startVars, callVars, alone, tangled>>
      BY <2>1 DEF Fire
    <3>2. timer # None /\ (InOrder => InOrder')
      <4>1. timer \in Timers
        BY <3>1, <1>a DEF GoesOff, SchedOK
      <4> QED BY <3>1, <4>1, GoesOffFact
    <3>3. \A s \in Runs : Deleting(s)' <=> Deleting(s)
      BY <3>1, <1>a DEF RunOK
    <3> QED BY <1>1, <3>1, <3>2, <3>3 DEF startVars, callVars
  <2>2. CASE RunEnds(r) /\ job[r].once /\ byTimer[r]
    <3>1. /\ tangled' = (tangled \/ Changing) /\ (\A c \in Calls : ~alone'[c])
          /\ timer' = None /\ UNCHANGED <<starting, listed, row>>
          /\ Deleting(r)'
      BY <2>2, <1>a DEF RunEnds, Meet, Unschedule, RunOK
    <3>2. ScheduledAsStored'
      BY <3>1 DEF ScheduledAsStored, Settled, Changing
    <3>3. ~tangled' => ~Syncing'
      BY <3>1 DEF Changing
    <3> QED BY <3>1, <3>2, <3>3 DEF OrderInv
  <2>3. CASE RunDeletes(r)
    <3>1. /\ Deleting(r) /\ row' = None /\ run' = [run EXCEPT ![r] = "idle"]
          /\ UNCHANGED <<timer, startVars, callVars, alone, tangled>>
      BY <2>3 DEF RunDeletes, Leave
    <3>2. \A c \in Calls : Busy(c) => ~alone[c]
      BY <1>b, <3>1
    <3>3. ~tangled => ~Syncing /\ timer = None
      BY <3>1, <1>a DEF AloneInv, OrderInv
    <3>4. ~tangled => InOrder'
      BY <3>1, <3>3 DEF InOrder, Wanted
    <3> QED BY <3>1, <3>2, <3>3, <3>4 DEF OrderInv, ScheduledAsStored, startVars, callVars
  <2>4. CASE ~(Fire(r) \/ RunDeletes(r) \/ (RunEnds(r) /\ job[r].once /\ byTimer[r]))
    <3>1. /\ UNCHANGED <<row, timer, spent, starting, listed, op, pc, seen, alone, tangled>>
          /\ run[r] \in {"idle", "reading", "working"}
          /\ \E x \in {"reading", "working", "idle"} : run' = [run EXCEPT ![r] = x]
      BY <1>6, <2>4 DEF RunAction, RunNow, RunRead, RunSkipped, RunEnds, Leave, startVars,
         callVars
    <3>2. \A s \in Runs : Deleting(s)' <=> Deleting(s)
      BY <3>1, <1>a DEF RunOK
    <3> QED BY <1>1, <1>2, <3>1, <3>2
  <2> QED BY <2>1, <2>2, <2>3, <2>4
<1>7. CASE Start
  <2>1. /\ tangled' = (tangled \/ Changing) /\ (\A c \in Calls : ~alone'[c])
        /\ timer' = None /\ starting' = "listing" /\ run' = run
    BY <1>7, <1>a DEF Start, Meet, runVars, TimerInv
  <2>2. ScheduledAsStored'
    BY <2>1 DEF ScheduledAsStored, Settled
  <2> QED BY <2>1, <2>2 DEF OrderInv
<1>8. CASE StartTooLate
  <2>1. tangled' /\ \A c \in Calls : ~alone'[c]
    BY <1>8 DEF StartTooLate
  <2> QED BY <2>1 DEF OrderInv, ScheduledAsStored
<1>9. CASE SyncRead \/ SyncApply
  <2>1. Syncing /\ UNCHANGED <<row, callVars, run, alone, tangled>>
    BY <1>9 DEF SyncRead, SyncApply, runVars
  <2>2. \A c \in Calls : Busy(c) => ~alone[c]
    BY <1>b, <2>1
  <2>3. /\ ~tangled => timer = None /\ \A r \in Runs : ~Deleting(r)
        /\ ~tangled /\ starting = "scheduling" => listed = row
    BY <2>1, <1>a DEF AloneInv, OrderInv
  <2>4. CASE SyncRead
    <3>1. starting' = "scheduling" /\ listed' = row' /\ timer' = timer
      BY <2>4 DEF SyncRead
    <3>2. ScheduledAsStored'
      BY <3>1 DEF ScheduledAsStored, Settled
    <3> QED BY <2>1, <2>2, <2>3, <3>1, <3>2 DEF OrderInv, callVars
  <2>5. CASE SyncApply
    <3>1. starting' = "up"
      BY <2>5 DEF SyncApply
    <3>2. ASSUME ~tangled PROVE InOrder'
      <4>1. CASE row = None
        BY <2>1, <2>3, <2>5, <3>2, <4>1 DEF SyncApply, InOrder, Wanted
      <4>2. CASE row # None
        <5>1. \E entry \in {None} :
                  IF row.enabled THEN Schedule(row, entry) ELSE timer' = None
          BY <2>3, <2>5, <3>2, <4>2 DEF SyncApply
        <5>2. row \in Rows
          BY <4>2, <1>a DEF RowOK
        <5>3. timer' = Wanted'
          BY <2>1, <5>1, <5>2, ScheduleFact
        <5> QED BY <5>3 DEF InOrder
      <4> QED BY <4>1, <4>2
    <3> QED BY <2>1, <2>2, <2>3, <3>1, <3>2 DEF OrderInv, ScheduledAsStored, callVars
  <2> QED BY <1>9, <2>4, <2>5
<1>10. CASE Miss
  <2>1. GoesOff /\ UNCHANGED <<row, startVars, callVars, run, alone, tangled>>
    BY <1>10 DEF Miss, runVars
  <2>2. timer # None /\ (InOrder => InOrder')
    <3>1. timer \in Timers
      BY <2>1, <1>a DEF GoesOff, SchedOK
    <3> QED BY <2>1, <3>1, GoesOffFact
  <2> QED BY <1>1, <2>1, <2>2 DEF startVars, callVars
<1>11. CASE OtherScheduled \/ UNCHANGED vars
  BY <1>1, <1>2, <1>11 DEF OtherScheduled, vars, startVars, callVars, runVars
<1>12. CASE Restart
  <2>1. starting' = "booting" /\ ~tangled' /\ (\A c \in Calls : ~alone'[c])
        /\ \A r \in Runs : run'[r] = "idle"
    BY <1>12 DEF Restart
  <2>2. ScheduledAsStored'
    BY <2>1 DEF ScheduledAsStored, Settled
  <2> QED BY <2>1, <2>2 DEF OrderInv
<1> QED
  BY <1>5, <1>6, <1>7, <1>8, <1>9, <1>10, <1>11, <1>12, NextCases DEF StartAction

----------------------------------------------------------------------------
(* Theorems                                                                *)

\* Inv is an invariant of Cron.
THEOREM Invariance == Spec => []Inv
<1>1. Inv /\ [Next]_vars => Inv'
  BY TypeStep, TimerStep, PlanStep, WorkStep, FreshStep, AloneStep, OrderStep DEF Inv
<1> QED BY <1>1, InitInv, PTL DEF Spec

\* The scheduler and the database agree on the job when nothing is changing it and
\* the last change of it met no other (manager.py:123-137, 193-216).
THEOREM InAgreement == Spec => []ScheduledAsStored
<1>1. Inv => ScheduledAsStored
  BY DEF Inv, OrderInv
<1> QED BY <1>1, Invariance, PTL

\* The work of a one-time job is done by the scheduler at most once before the
\* process is restarted, whatever calls come in between (manager.py:322-324).
THEOREM RunsOnce == Spec => []OneShotRunsOnce
<1>1. Inv => OneShotRunsOnce
  BY TypeParts DEF Inv, WorkInv, OneShotRunsOnce, RunOK
<1> QED BY <1>1, Invariance, PTL
=============================================================================
