---------------------------- MODULE SessionLock ----------------------------
(***************************************************************************)
(* utils/session_lock.py: the reference-counted table of per-session       *)
(* asyncio locks. A lock object is made when a session is first wanted and *)
(* thrown away when the last task that wanted it has left.                 *)
(*                                                                         *)
(* A key is a (event loop, session id) pair: every loop has a table of its *)
(* own. The critical sections of _access_lock hold no await, so a task     *)
(* never suspends on it; with asyncio.Lock's first-come order this makes   *)
(* entering, and leaving, one step each.                                   *)
(***************************************************************************)
EXTENDS Integers, Sequences, FiniteSets, SequencesExt

CONSTANTS
    Tasks, Keys,
    Locks,              \* asyncio.Lock objects
    NoTask, NoLock, NoKey

ASSUME SessionLockAssumption ==
    /\ NoTask \notin Tasks
    /\ NoLock \notin Locks
    /\ NoKey \notin Keys
    /\ IsFiniteSet(Tasks)

VARIABLES
    pc,             \* "idle", "waiting" or "inside"
    want,           \* the key a task is in acquire_lock for
    lockOf,         \* its local variable lock
    table,          \* _locks
    count,          \* _lock_count
    owner,          \* the task that has each lock object,
    waiters         \* and those queued on it

taskVars == <<pc, want, lockOf>>
vars == <<taskVars, table, count, owner, waiters>>

TypeOK ==
    /\ pc \in [Tasks -> {"idle", "waiting", "inside"}]
    /\ want \in [Tasks -> Keys \cup {NoKey}]
    /\ lockOf \in [Tasks -> Locks \cup {NoLock}]
    /\ table \in [Keys -> Locks \cup {NoLock}]
    /\ count \in [Keys -> Nat]
    /\ owner \in [Locks -> Tasks \cup {NoTask}]
    /\ waiters \in [Locks -> Seq(Tasks)]

Init ==
    /\ pc = [t \in Tasks |-> "idle"]
    /\ want = [t \in Tasks |-> NoKey]
    /\ lockOf = [t \in Tasks |-> NoLock]
    /\ table = [k \in Keys |-> NoLock]
    /\ count = [k \in Keys |-> 0]
    /\ owner = [l \in Locks |-> NoTask]
    /\ waiters = [l \in Locks |-> <<>>]

\* A new asyncio.Lock() is an object nobody refers to.
NewLocks == {l \in Locks : (\A t \in Tasks : lockOf[t] # l) /\ (\A k \in Keys : table[k] # l)}

Goes(t, place) == pc' = [pc EXCEPT ![t] = place]

\* Variants ending in "Bug" are slips the properties must notice.
EnterBargingBug(t, k, l) ==
    /\ pc[t] = "idle"
    /\ l \in IF table[k] = NoLock THEN NewLocks ELSE {table[k]}
    /\ table' = [table EXCEPT ![k] = l]
    /\ count' = [count EXCEPT ![k] = count[k] + 1]
    /\ want' = [want EXCEPT ![t] = k]
    /\ lockOf' = [lockOf EXCEPT ![t] = l]
    /\ IF owner[l] = NoTask
       THEN Goes(t, "inside") /\ owner' = [owner EXCEPT ![l] = t] /\ UNCHANGED waiters
       ELSE /\ Goes(t, "waiting")
            /\ waiters' = [waiters EXCEPT ![l] = Append(waiters[l], t)]
            /\ UNCHANGED owner

\* The task looks its lock up, counts itself in, and takes the lock if it is
\* free and nobody queues.
Enter(t, k, l) ==
    /\ pc[t] = "idle"
    /\ l \in IF table[k] = NoLock THEN NewLocks ELSE {table[k]}
    /\ table' = [table EXCEPT ![k] = l]
    /\ count' = [count EXCEPT ![k] = count[k] + 1]
    /\ want' = [want EXCEPT ![t] = k]
    /\ lockOf' = [lockOf EXCEPT ![t] = l]
    /\ IF owner[l] = NoTask /\ waiters[l] = <<>>
       THEN Goes(t, "inside") /\ owner' = [owner EXCEPT ![l] = t] /\ UNCHANGED waiters
       ELSE /\ Goes(t, "waiting")
            /\ waiters' = [waiters EXCEPT ![l] = Append(waiters[l], t)]
            /\ UNCHANGED owner

\* The first waiter resumes once the lock is free.
Grant(t) ==
    /\ pc[t] = "waiting"
    /\ owner[lockOf[t]] = NoTask
    /\ waiters[lockOf[t]] # <<>> /\ Head(waiters[lockOf[t]]) = t
    /\ Goes(t, "inside")
    /\ owner' = [owner EXCEPT ![lockOf[t]] = t]
    /\ waiters' = [waiters EXCEPT ![lockOf[t]] = Tail(waiters[lockOf[t]])]
    /\ UNCHANGED <<want, lockOf, table, count>>

ForgetAlwaysBug(k) ==
    /\ count' = [count EXCEPT ![k] = 0]
    /\ table' = [table EXCEPT ![k] = NoLock]

ForgetUncountedBug(k) == UNCHANGED <<count, table>>

\* The finally clause: count out, and drop the lock with the last one.
Forget(k) ==
    /\ count' = [count EXCEPT ![k] = count[k] - 1]
    /\ table' = [table EXCEPT ![k] = IF count[k] = 1 THEN NoLock ELSE table[k]]

Leave(t) ==
    /\ Goes(t, "idle")
    /\ want' = [want EXCEPT ![t] = NoKey]
    /\ lockOf' = [lockOf EXCEPT ![t] = NoLock]
    /\ Forget(want[t])

\* The body is over, by return, exception or cancellation.
Exit(t) ==
    /\ pc[t] = "inside"
    /\ owner' = [owner EXCEPT ![lockOf[t]] = NoTask]
    /\ Leave(t)
    /\ UNCHANGED waiters

CancelStaysQueuedBug(t) ==
    /\ pc[t] = "waiting"
    /\ Leave(t)
    /\ UNCHANGED <<owner, waiters>>

\* A waiting task is cancelled.
Cancel(t) ==
    /\ pc[t] = "waiting"
    /\ \E i \in 1..Len(waiters[lockOf[t]]) :
          /\ waiters[lockOf[t]][i] = t
          /\ waiters' = [waiters EXCEPT ![lockOf[t]] = RemoveAt(waiters[lockOf[t]], i)]
    /\ Leave(t)
    /\ UNCHANGED owner

Next ==
    \E t \in Tasks :
        \/ \E k \in Keys, l \in Locks : Enter(t, k, l)
        \/ Grant(t) \/ Exit(t) \/ Cancel(t)

Spec == Init /\ [][Next]_vars

\* The event loop resumes the first waiter of a free lock, and the body of a
\* lock holder ends.
FairSpec == Spec /\ \A t \in Tasks : WF_vars(Grant(t)) /\ WF_vars(Exit(t))

----------------------------------------------------------------------------
(* Properties                                                              *)

\* Two tasks are never both inside for one session, although its lock object
\* comes and goes (session_lock.py:17).
MutualExclusion ==
    \A t, u \in Tasks :
        pc[t] = "inside" /\ pc[u] = "inside" /\ want[t] = want[u] => t = u

\* A lock object is in the table exactly as long as a task has come for it,
\* and then it is the one they all hold or wait on: nothing leaks, nothing in
\* use is dropped (session_lock.py:25).
TableInUse ==
    \A k \in Keys :
        LET users == {t \in Tasks : want[t] = k} IN
        /\ count[k] = Cardinality(users)
        /\ table[k] # NoLock <=> users # {}
        /\ \A t \in users : lockOf[t] = table[k]

\* Whoever waits for a session gets it or gives up (session_lock.py:23).
NobodyStarves == \A t \in Tasks : pc[t] = "waiting" ~> pc[t] # "waiting"

\* The lock the users see: FifoLock, with no objects, counts or tables.
Holder == [k \in Keys |-> IF table[k] = NoLock THEN NoTask ELSE owner[table[k]]]
Queue  == [k \in Keys |-> IF table[k] = NoLock THEN <<>> ELSE waiters[table[k]]]
Fifo == INSTANCE FifoLock WITH holder <- Holder, queue <- Queue

IsFifoLock == Fifo!Spec
=============================================================================
