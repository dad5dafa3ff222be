------------------------- MODULE SessionLockProofs -------------------------
(***************************************************************************)
(* Safety of SessionLock for every finite set of tasks and any sessions    *)
(* and lock objects. Inv ties the three places a lock object is known from *)
(* (the table, the tasks, its own state) to one another. At the end safety *)
(* of SessionWaiter, whose lock is FifoLock as well: WaiterInv.            *)
(***************************************************************************)
EXTENDS SessionLock, SessionWaiter, FiniteSetTheorems, SequenceTheorems, TLAPS

USE SessionLockAssumption

Users(k) == {t \in Tasks : want[t] = k}

\* The tasks that came for a key, and only they, know its current lock.
UseInv ==
    \A t \in Tasks :
        /\ pc[t] = "idle" <=> want[t] = NoKey
        /\ want[t] = NoKey => lockOf[t] = NoLock
        /\ want[t] # NoKey => lockOf[t] = table[want[t]] /\ lockOf[t] \in Locks

TableInv ==
    \A k \in Keys :
        /\ count[k] = Cardinality(Users(k))
        /\ table[k] # NoLock => Users(k) # {}
        /\ \A m \in Keys : table[k] = table[m] /\ table[k] # NoLock => k = m

OwnerInv ==
    /\ \A t \in Tasks : pc[t] = "inside" => owner[lockOf[t]] = t
    /\ \A l \in Locks : owner[l] # NoTask =>
          pc[owner[l]] = "inside" /\ lockOf[owner[l]] = l

\* The queue w of lock l, with pc and lockOf as p and o: tasks that wait for
\* it, each once.
Queued(w, l, p, o) ==
    /\ \A i \in 1..Len(w) : p[w[i]] = "waiting" /\ o[w[i]] = l
    /\ \A i, j \in 1..Len(w) : w[i] = w[j] => i = j

QueueInv == \A l \in Locks : Queued(waiters[l], l, pc, lockOf)

Inv == TypeOK /\ UseInv /\ TableInv /\ OwnerInv /\ QueueInv

----------------------------------------------------------------------------
(* Sequences and counting                                                  *)

LEMMA RemoveAtFact ==
    ASSUME NEW S, NEW s \in Seq(S), NEW i \in 1..Len(s)
    PROVE  /\ RemoveAt(s, i) \in Seq(S)
           /\ Len(RemoveAt(s, i)) = Len(s) - 1
           /\ \A j \in 1..(Len(s) - 1) :
                 RemoveAt(s, i)[j] = IF j < i THEN s[j] ELSE s[j + 1]
<1> DEFINE a == SubSeq(s, 1, i - 1)
           b == SubSeq(s, i + 1, Len(s))
<1>1. /\ a \in Seq(S) /\ Len(a) = i - 1
      /\ \A j \in 1..(i - 1) : a[j] = s[j]
  OBVIOUS
<1>2. /\ b \in Seq(S) /\ Len(b) = Len(s) - i
      /\ \A j \in 1..(Len(s) - i) : b[j] = s[i + j]
  OBVIOUS
<1> HIDE DEF a, b
<1>3. /\ a \o b \in Seq(S) /\ Len(a \o b) = Len(a) + Len(b)
      /\ \A j \in 1..(Len(a) + Len(b)) :
            (a \o b)[j] = IF j <= Len(a) THEN a[j] ELSE b[j - Len(a)]
  BY <1>1, <1>2, ConcatProperties
<1>4. RemoveAt(s, i) = a \o b
  BY DEF RemoveAt, a, b
<1>5. Len(s) \in Nat /\ i \in Int /\ Len(a) + Len(b) = Len(s) - 1
  BY <1>1, <1>2
<1>6. ASSUME NEW j \in 1..(Len(s) - 1)
      PROVE  (a \o b)[j] = IF j < i THEN s[j] ELSE s[j + 1]
  <2>1. (a \o b)[j] = IF j <= Len(a) THEN a[j] ELSE b[j - Len(a)]
    BY <1>3, <1>5
  <2>2. CASE j < i
    BY <1>1, <1>5, <2>1, <2>2
  <2>3. CASE ~(j < i)
    <3>1. j - Len(a) \in 1..(Len(s) - i) /\ i + (j - Len(a)) = j + 1
      BY <1>1, <1>5, <2>3
    <3> QED BY <1>1, <1>2, <1>5, <2>1, <2>3, <3>1
  <2> QED BY <2>2, <2>3
<1> QED BY <1>3, <1>4, <1>5, <1>6

LEMMA EmptyQueue == ASSUME NEW S, NEW s \in Seq(S) PROVE s = <<>> <=> Len(s) = 0
  OBVIOUS

LEMMA TailFact ==
    ASSUME NEW S, NEW s \in Seq(S), s # <<>>
    PROVE  /\ Tail(s) \in Seq(S) /\ Head(s) \in S /\ Head(s) = s[1]
           /\ Len(Tail(s)) = Len(s) - 1 /\ Len(s) \in Nat \ {0}
           /\ \A j \in 1..Len(Tail(s)) : Tail(s)[j] = s[j + 1]
    OBVIOUS

\* pc and lockOf change for task t only
Differ(t, p, q, o, r) == \A u \in Tasks \ {t} : q[u] = p[u] /\ r[u] = o[u]

\* A queue is right as long as only tasks outside it change,
LEMMA OtherQueued ==
    ASSUME NEW w \in Seq(Tasks), NEW l, NEW p, NEW o, NEW q, NEW r, NEW t,
           Queued(w, l, p, o), Differ(t, p, q, o, r), p[t] # "waiting" \/ o[t] # l
    PROVE  Queued(w, l, q, r)
<1>1. \A i \in 1..Len(w) : w[i] \in Tasks \ {t}
  BY DEF Queued
<1> QED BY <1>1 DEF Queued, Differ

\* one task joins at its end,
LEMMA AppendQueued ==
    ASSUME NEW w \in Seq(Tasks), NEW l, NEW p, NEW o, NEW q, NEW r, NEW t \in Tasks,
           Queued(w, l, p, o), Differ(t, p, q, o, r), p[t] # "waiting",
           q[t] = "waiting", r[t] = l
    PROVE  Queued(Append(w, t), l, q, r)
<1>0. Queued(w, l, q, r)
  BY OtherQueued
<1>1. \A i \in 1..Len(w) : w[i] # t
  BY DEF Queued
<1>2. /\ Len(w) \in Nat /\ Len(Append(w, t)) = Len(w) + 1
      /\ Append(w, t)[Len(w) + 1] = t
      /\ \A i \in 1..Len(w) : Append(w, t)[i] = w[i]
  OBVIOUS
<1>3. \A i \in 1..Len(Append(w, t)) : i \in 1..Len(w) \/ i = Len(w) + 1
  BY <1>2
<1> QED BY <1>0, <1>1, <1>2, <1>3 DEF Queued

\* the first leaves it,
LEMMA TailQueued ==
    ASSUME NEW w \in Seq(Tasks), NEW l, NEW p, NEW o, NEW q, NEW r, NEW t \in Tasks,
           Queued(w, l, p, o), Differ(t, p, q, o, r), w # <<>>, Head(w) = t
    PROVE  Queued(Tail(w), l, q, r)
<1>1. /\ w[1] = t /\ Len(Tail(w)) = Len(w) - 1 /\ Len(w) \in Nat \ {0}
      /\ \A j \in 1..Len(Tail(w)) : Tail(w)[j] = w[j + 1] /\ w[j + 1] \in Tasks
      /\ \A j \in 1..Len(Tail(w)) : j + 1 \in 1..Len(w) /\ j + 1 # 1
      /\ 1 \in 1..Len(w)
  BY TailFact
<1>2. \A j \in 1..Len(Tail(w)) : w[j + 1] \in Tasks \ {t}
  BY <1>1 DEF Queued
<1>3. ASSUME NEW j \in 1..Len(Tail(w)), NEW k \in 1..Len(Tail(w)), Tail(w)[j] = Tail(w)[k]
      PROVE  j = k
  <2>1. j + 1 = k + 1
    BY <1>1, <1>3 DEF Queued
  <2> QED BY <2>1
<1> QED BY <1>1, <1>2, <1>3 DEF Queued, Differ

\* or any other gives up.
LEMMA RemoveQueued ==
    ASSUME NEW w \in Seq(Tasks), NEW l, NEW p, NEW o, NEW q, NEW r, NEW t \in Tasks,
           Queued(w, l, p, o), Differ(t, p, q, o, r), NEW i \in 1..Len(w), w[i] = t
    PROVE  Queued(RemoveAt(w, i), l, q, r)
<1> DEFINE x == RemoveAt(w, i)
           At(j) == IF j < i THEN j ELSE j + 1
<1>1. /\ Len(x) = Len(w) - 1 /\ Len(w) \in Nat /\ i \in Int
      /\ \A j \in 1..Len(x) : x[j] = IF j < i THEN w[j] ELSE w[j + 1]
  BY RemoveAtFact
<1> HIDE DEF x
<1>2. \A j \in 1..Len(x) : At(j) \in 1..Len(w) /\ At(j) # i /\ x[j] = w[At(j)]
  BY <1>1
<1>3. \A j, k \in 1..Len(x) : At(j) = At(k) => j = k
  BY <1>1
<1> HIDE DEF At
<1>4. \A j \in 1..Len(x) : w[At(j)] \in Tasks \ {t}
  BY <1>2 DEF Queued
<1>5. \A j \in 1..Len(x) : q[x[j]] = "waiting" /\ r[x[j]] = l
  BY <1>2, <1>4 DEF Queued, Differ
<1>6. ASSUME NEW j \in 1..Len(x), NEW k \in 1..Len(x), x[j] = x[k]
      PROVE  j = k
  <2>1. w[At(j)] = w[At(k)] /\ At(j) \in 1..Len(w) /\ At(k) \in 1..Len(w)
    BY <1>2, <1>6
  <2>2. At(j) = At(k)
    BY <2>1 DEF Queued
  <2> QED BY <1>3, <2>2
<1>7. Queued(x, l, q, r)
  BY <1>5, <1>6 DEF Queued
<1> QED BY <1>7 DEF x

\* The users of a key, and how a task that comes or goes changes their number.
LEMMA UsersFinite ==
    ASSUME NEW k
    PROVE  IsFiniteSet(Users(k)) /\ Cardinality(Users(k)) \in Nat
<1>1. Users(k) \in SUBSET Tasks
  BY DEF Users
<1> QED BY <1>1, FS_Subset, FS_CardinalityType

LEMMA EnterUsers ==
    ASSUME Inv, NEW t \in Tasks, NEW k \in Keys, pc[t] = "idle",
           want' = [want EXCEPT ![t] = k]
    PROVE  /\ Users(k)' = Users(k) \cup {t}
           /\ t \notin Users(k)
           /\ \A m \in Keys \ {k} : Users(m)' = Users(m)
           /\ Cardinality(Users(k)') = Cardinality(Users(k)) + 1
<1>1. want[t] = NoKey
  BY DEF Inv, UseInv
<1>2. /\ Users(k)' = Users(k) \cup {t} /\ t \notin Users(k)
      /\ \A m \in Keys \ {k} : Users(m)' = Users(m)
  BY <1>1 DEF Users, Inv, TypeOK
<1> QED BY <1>2, UsersFinite, FS_AddElement

LEMMA LeaveUsers ==
    ASSUME Inv, NEW t \in Tasks, pc[t] # "idle", want' = [want EXCEPT ![t] = NoKey]
    PROVE  /\ want[t] \in Keys
           /\ \A m \in Keys : m = want[t] => Users(m)' = Users(m) \ {t}
           /\ t \in Users(want[t])
           /\ \A m \in Keys \ {want[t]} : Users(m)' = Users(m)
           /\ Cardinality(Users(want[t]) \ {t}) = Cardinality(Users(want[t])) - 1
           /\ count[want[t]] = 1 <=> Users(want[t]) = {t}
<1>1. want[t] \in Keys
  BY DEF Inv, UseInv, TypeOK
<1>2. /\ \A m \in Keys : Users(m)' = Users(m) \ {t}
      /\ t \in Users(want[t])
      /\ \A m \in Keys \ {want[t]} : Users(m)' = Users(m)
  BY <1>1 DEF Users, Inv, TypeOK
<1>3. Cardinality(Users(want[t]) \ {t}) = Cardinality(Users(want[t])) - 1
  BY <1>2, UsersFinite, FS_RemoveElement
<1>4. IsFiniteSet(Users(want[t]) \ {t})
  BY UsersFinite, FS_RemoveElement
<1>5. Cardinality(Users(want[t]) \ {t}) = 0 <=> Users(want[t]) \ {t} = {}
  BY <1>4, FS_EmptySet
<1>6. count[want[t]] = Cardinality(Users(want[t])) /\ Cardinality(Users(want[t])) \in Nat
  BY <1>1, UsersFinite DEF Inv, TableInv
<1>7. Users(want[t]) \ {t} = {} <=> Users(want[t]) = {t}
  BY <1>2
<1>8. count[want[t]] = 1 <=> Users(want[t]) = {t}
  BY <1>3, <1>5, <1>6, <1>7
<1> QED BY <1>1, <1>2, <1>3, <1>8

----------------------------------------------------------------------------
(* The invariant is inductive                                              *)

LEMMA InitInv == Init => Inv
<1> SUFFICES ASSUME Init PROVE Inv
  OBVIOUS
<1>1. \A k \in Keys : Users(k) = {}
  BY DEF Init, Users
<1>2. TypeOK /\ UseInv /\ OwnerInv /\ QueueInv
  <2>1. \A l : Queued(<<>>, l, pc, lockOf)
    BY DEF Queued
  <2> QED BY <2>1 DEF Init, TypeOK, UseInv, OwnerInv, QueueInv
<1>3. TableInv
  BY <1>1, FS_EmptySet DEF Init, TableInv
<1> QED BY <1>2, <1>3 DEF Inv

\* Each operation keeps the invariant.
LEMMA EnterStep ==
    ASSUME Inv, NEW t \in Tasks, NEW k \in Keys, NEW l \in Locks, Enter(t, k, l)
    PROVE  Inv'
<1> USE DEF Inv, TypeOK, UseInv, Goes
<1>1. /\ pc[t] = "idle" /\ want[t] = NoKey /\ lockOf[t] = NoLock
      /\ l \in IF table[k] = NoLock THEN NewLocks ELSE {table[k]}
      /\ table' = [table EXCEPT ![k] = l] /\ count' = [count EXCEPT ![k] = count[k] + 1]
      /\ want' = [want EXCEPT ![t] = k] /\ lockOf' = [lockOf EXCEPT ![t] = l]
  BY DEF Enter
<1>2. \/ /\ owner[l] = NoTask /\ pc' = [pc EXCEPT ![t] = "inside"]
         /\ owner' = [owner EXCEPT ![l] = t] /\ waiters' = waiters
      \/ /\ pc' = [pc EXCEPT ![t] = "waiting"] /\ owner' = owner
         /\ waiters' = [waiters EXCEPT ![l] = Append(waiters[l], t)]
  BY DEF Enter
<1>3. TypeOK'
  <2>1. Append(waiters[l], t) \in Seq(Tasks)
    OBVIOUS
  <2>2. waiters' \in [Locks -> Seq(Tasks)]
    BY <1>2, <2>1
  <2>3. count' \in [Keys -> Nat] /\ table' \in [Keys -> Locks \cup {NoLock}]
    BY <1>1
  <2>4. owner' \in [Locks -> Tasks \cup {NoTask}]
    BY <1>2
  <2>5. pc' \in [Tasks -> {"idle", "waiting", "inside"}]
    BY <1>2
  <2>6. want' \in [Tasks -> Keys \cup {NoKey}] /\ lockOf' \in [Tasks -> Locks \cup {NoLock}]
    BY <1>1
  <2> QED BY <2>2, <2>3, <2>4, <2>5, <2>6
<1>4. table[k] = NoLock => Users(k) = {}
  BY DEF Users
<1>5. UseInv'
  BY <1>1, <1>2, <1>4 DEF Users
<1>6. TableInv'
  <2>1. /\ Users(k)' = Users(k) \cup {t}
        /\ \A m \in Keys \ {k} : Users(m)' = Users(m)
        /\ Cardinality(Users(k)') = Cardinality(Users(k)) + 1
    BY <1>1, EnterUsers
  <2>2. \A m \in Keys \ {k} : table[m] = l => FALSE
    BY <1>1 DEF NewLocks, TableInv
  <2> QED BY <1>1, <2>1, <2>2 DEF TableInv
<1>7. OwnerInv'
  BY <1>1, <1>2 DEF OwnerInv
<1>8. QueueInv'
  <2>1. Differ(t, pc, pc', lockOf, lockOf') /\ pc[t] # "waiting"
    BY <1>1, <1>2 DEF Differ
  <2>2. \A m \in Locks : Queued(waiters[m], m, pc', lockOf')
    BY <2>1, OtherQueued DEF QueueInv
  <2>3. pc'[t] = "waiting" /\ lockOf'[t] = l => Queued(Append(waiters[l], t), l, pc', lockOf')
    BY <2>1, AppendQueued DEF QueueInv
  <2> QED BY <1>1, <1>2, <2>2, <2>3 DEF QueueInv
<1> QED BY <1>3, <1>5, <1>6, <1>7, <1>8

LEMMA GrantStep ==
    ASSUME Inv, NEW t \in Tasks, Grant(t)
    PROVE  Inv'
<1> USE DEF Inv, TypeOK, UseInv, Goes
<1> DEFINE l == lockOf[t]
<1>1. /\ l \in Locks /\ waiters[l] \in Seq(Tasks) /\ waiters[l] # <<>>
      /\ owner[l] = NoTask /\ Head(waiters[l]) = t /\ pc[t] = "waiting"
      /\ pc' = [pc EXCEPT ![t] = "inside"] /\ owner' = [owner EXCEPT ![l] = t]
      /\ waiters' = [waiters EXCEPT ![l] = Tail(waiters[l])]
      /\ want' = want /\ lockOf' = lockOf /\ table' = table /\ count' = count
  BY DEF Grant
<1> HIDE DEF l
<1>2. Tail(waiters[l]) \in Seq(Tasks)
  BY <1>1, TailFact
<1>3. TypeOK' /\ UseInv'
  BY <1>1, <1>2
<1>4. TableInv'
  <2>1. \A k : Users(k)' = Users(k)
    BY <1>1 DEF Users
  <2> QED BY <1>1, <2>1 DEF TableInv
<1>5. OwnerInv'
  BY <1>1 DEF OwnerInv, l
<1>6. QueueInv'
  <2>1. Differ(t, pc, pc', lockOf, lockOf')
    BY <1>1 DEF Differ
  <2>2. \A m \in Locks \ {l} : Queued(waiters[m], m, pc', lockOf')
    BY <2>1, OtherQueued DEF QueueInv, l
  <2>3. Queued(Tail(waiters[l]), l, pc', lockOf')
    BY <1>1, <2>1, TailQueued DEF QueueInv
  <2> QED BY <1>1, <2>2, <2>3 DEF QueueInv
<1> QED BY <1>3, <1>4, <1>5, <1>6

\* What leaving does to the table, for Exit and Cancel alike.
LEMMA LeaveFact ==
    ASSUME Inv, NEW t \in Tasks, pc[t] # "idle", Leave(t)
    PROVE  /\ UseInv' /\ TableInv'
           /\ pc' = [pc EXCEPT ![t] = "idle"]
           /\ want' = [want EXCEPT ![t] = NoKey]
           /\ lockOf' = [lockOf EXCEPT ![t] = NoLock]
           /\ pc' \in [Tasks -> {"idle", "waiting", "inside"}]
           /\ want' \in [Tasks -> Keys \cup {NoKey}]
           /\ lockOf' \in [Tasks -> Locks \cup {NoLock}]
           /\ table' \in [Keys -> Locks \cup {NoLock}] /\ count' \in [Keys -> Nat]
           /\ \A m \in Keys : m # want[t] => table'[m] = table[m]
           /\ table'[want[t]] = IF Users(want[t]) = {t} THEN NoLock ELSE table[want[t]]
<1> DEFINE k == want[t]
<1>1. /\ pc' = [pc EXCEPT ![t] = "idle"] /\ want' = [want EXCEPT ![t] = NoKey]
      /\ lockOf' = [lockOf EXCEPT ![t] = NoLock]
      /\ count' = [count EXCEPT ![k] = count[k] - 1]
      /\ table' = [table EXCEPT ![k] = IF count[k] = 1 THEN NoLock ELSE table[k]]
  BY DEF Leave, Goes, Forget
<1>2. /\ k \in Keys
      /\ \A m \in Keys : m = want[t] => Users(m)' = Users(m) \ {t}
      /\ t \in Users(k)
      /\ \A m \in Keys \ {k} : Users(m)' = Users(m)
      /\ Cardinality(Users(k) \ {t}) = Cardinality(Users(k)) - 1
      /\ count[k] = 1 <=> Users(k) = {t}
  BY <1>1, LeaveUsers
<1>3. /\ count[k] = Cardinality(Users(k)) /\ count[k] \in Nat
      /\ count[k] - 1 = Cardinality(Users(k) \ {t})
      /\ Cardinality(Users(k) \ {t}) \in Nat
  <2>1. IsFiniteSet(Users(k) \ {t})
    BY UsersFinite, FS_RemoveElement
  <2> QED BY <1>2, <2>1, FS_CardinalityType DEF Inv, TypeOK, TableInv
<1>4. /\ pc' \in [Tasks -> {"idle", "waiting", "inside"}]
      /\ want' \in [Tasks -> Keys \cup {NoKey}]
      /\ lockOf' \in [Tasks -> Locks \cup {NoLock}]
      /\ table' \in [Keys -> Locks \cup {NoLock}] /\ count' \in [Keys -> Nat]
  BY <1>1, <1>2, <1>3 DEF Inv, TypeOK
<1>5. /\ \A m \in Keys : m # k => table'[m] = table[m] /\ count'[m] = count[m]
      /\ table'[k] = IF Users(k) = {t} THEN NoLock ELSE table[k]
      /\ count'[k] = count[k] - 1
  BY <1>1, <1>2 DEF Inv, TypeOK
<1>6. UseInv'
  <2>1. \A u \in Tasks : u # t => want'[u] = want[u] /\ lockOf'[u] = lockOf[u] /\ pc'[u] = pc[u]
    BY <1>1 DEF Inv, TypeOK
  <2>2. \A u \in Tasks : u # t /\ want[u] = k => Users(k) # {t}
    BY DEF Users
  <2>3. want'[t] = NoKey /\ lockOf'[t] = NoLock /\ pc'[t] = "idle"
    BY <1>1 DEF Inv, TypeOK
  <2>4. \A u \in Tasks : u # t /\ want[u] # NoKey => want[u] \in Keys
    BY DEF Inv, TypeOK
  <2> QED BY <1>5, <2>1, <2>2, <2>3, <2>4 DEF Inv, UseInv
<1>7. TableInv'
  <2>1. ASSUME NEW m \in Keys
        PROVE  /\ count'[m] = Cardinality(Users(m)')
               /\ table'[m] # NoLock => Users(m)' # {}
    <3>1. CASE m = k
      BY <1>2, <1>3, <1>5, <3>1
    <3>2. CASE m # k
      BY <1>2, <1>5, <3>2 DEF Inv, TableInv
    <3> QED BY <3>1, <3>2
  <2>2. \A m, n \in Keys : table'[m] = table'[n] /\ table'[m] # NoLock => m = n
    BY <1>5 DEF Inv, TableInv
  <2> QED BY <2>1, <2>2 DEF TableInv
<1> QED BY <1>1, <1>4, <1>5, <1>6, <1>7

LEMMA ExitStep ==
    ASSUME Inv, NEW t \in Tasks, Exit(t)
    PROVE  Inv'
<1>1. /\ pc[t] = "inside" /\ Leave(t) /\ waiters' = waiters
      /\ owner' = [owner EXCEPT ![lockOf[t]] = NoTask]
  BY DEF Exit
<1>2. /\ UseInv' /\ TableInv'
      /\ pc' = [pc EXCEPT ![t] = "idle"] /\ lockOf' = [lockOf EXCEPT ![t] = NoLock]
      /\ pc' \in [Tasks -> {"idle", "waiting", "inside"}]
      /\ want' \in [Tasks -> Keys \cup {NoKey}]
      /\ lockOf' \in [Tasks -> Locks \cup {NoLock}]
      /\ table' \in [Keys -> Locks \cup {NoLock}] /\ count' \in [Keys -> Nat]
  BY <1>1, LeaveFact
<1>3. TypeOK'
  BY <1>1, <1>2 DEF Inv, TypeOK
<1>4. OwnerInv'
  <2>1. /\ owner[lockOf[t]] = t /\ lockOf[t] \in Locks
        /\ \A l \in Locks : l # lockOf[t] => owner[l] # t
    BY <1>1 DEF Inv, UseInv, OwnerInv, TypeOK
  <2>2. \A u \in Tasks : u # t => pc'[u] = pc[u] /\ lockOf'[u] = lockOf[u]
    BY <1>2 DEF Inv, TypeOK
  <2>3. \A l \in Locks : owner'[l] = IF l = lockOf[t] THEN NoTask ELSE owner[l]
    BY <1>1, <2>1 DEF Inv, TypeOK
  <2>4. \A u \in Tasks : u # t /\ pc[u] = "inside" =>
           lockOf[u] \in Locks /\ lockOf[u] # lockOf[t] /\ owner[lockOf[u]] = u
    BY <2>1 DEF Inv, OwnerInv, UseInv, TypeOK
  <2>5. pc'[t] = "idle"
    BY <1>2 DEF Inv, TypeOK
  <2>6. \A l \in Locks : owner[l] # NoTask => owner[l] \in Tasks
    BY DEF Inv, TypeOK
  <2> QED BY <2>1, <2>2, <2>3, <2>4, <2>5, <2>6 DEF Inv, OwnerInv
<1>5. QueueInv'
  <2>1. Differ(t, pc, pc', lockOf, lockOf') /\ pc[t] # "waiting"
    BY <1>1, <1>2 DEF Differ, Inv, TypeOK
  <2>2. \A m \in Locks : Queued(waiters[m], m, pc', lockOf')
    BY <2>1, OtherQueued DEF QueueInv, Inv, TypeOK
  <2> QED BY <1>1, <2>2 DEF QueueInv
<1> QED BY <1>2, <1>3, <1>4, <1>5 DEF Inv

LEMMA CancelStep ==
    ASSUME Inv, NEW t \in Tasks, Cancel(t)
    PROVE  Inv'
<1> DEFINE l == lockOf[t]
<1>1. PICK i \in 1..Len(waiters[l]) :
         /\ waiters[l][i] = t
         /\ waiters' = [waiters EXCEPT ![l] = RemoveAt(waiters[l], i)]
  BY DEF Cancel
<1>2. pc[t] = "waiting" /\ Leave(t) /\ owner' = owner
  BY DEF Cancel
<1>3. /\ UseInv' /\ TableInv'
      /\ pc' = [pc EXCEPT ![t] = "idle"] /\ lockOf' = [lockOf EXCEPT ![t] = NoLock]
      /\ pc' \in [Tasks -> {"idle", "waiting", "inside"}]
      /\ want' \in [Tasks -> Keys \cup {NoKey}]
      /\ lockOf' \in [Tasks -> Locks \cup {NoLock}]
      /\ table' \in [Keys -> Locks \cup {NoLock}] /\ count' \in [Keys -> Nat]
  BY <1>2, LeaveFact
<1>4. l \in Locks /\ waiters[l] \in Seq(Tasks)
  BY <1>2 DEF Inv, UseInv, TypeOK
<1> HIDE DEF l
<1>5. RemoveAt(waiters[l], i) \in Seq(Tasks)
  BY <1>4, RemoveAtFact
<1>6. TypeOK'
  BY <1>1, <1>2, <1>3, <1>5 DEF Inv, TypeOK
<1>7. OwnerInv'
  BY <1>2, <1>3 DEF Inv, TypeOK, OwnerInv
<1>8. QueueInv'
  <2>1. Differ(t, pc, pc', lockOf, lockOf')
    BY <1>3 DEF Differ, Inv, TypeOK
  <2>2. \A m \in Locks \ {l} : Queued(waiters[m], m, pc', lockOf')
    BY <2>1, OtherQueued DEF QueueInv, Inv, TypeOK, l
  <2>3. Queued(RemoveAt(waiters[l], i), l, pc', lockOf')
    BY <1>1, <1>4, <2>1, RemoveQueued DEF QueueInv, Inv
  <2>4. /\ waiters'[l] = RemoveAt(waiters[l], i)
        /\ \A m \in Locks \ {l} : waiters'[m] = waiters[m]
    BY <1>1, <1>4 DEF Inv, TypeOK
  <2> QED BY <2>2, <2>3, <2>4 DEF QueueInv
<1> QED BY <1>3, <1>6, <1>7, <1>8 DEF Inv

\* Inv is an invariant of SessionLock.
THEOREM Invariance == Spec => []Inv
<1>1. ASSUME Inv, UNCHANGED vars PROVE Inv'
  <2>1. \A k : Users(k)' = Users(k)
    BY <1>1 DEF Users, vars, taskVars
  <2> QED BY <1>1, <2>1
      DEF Inv, TypeOK, UseInv, TableInv, OwnerInv, QueueInv, Queued, vars, taskVars
<1>2. Inv /\ [Next]_vars => Inv'
  BY <1>1, EnterStep, GrantStep, ExitStep, CancelStep DEF Next
<1> QED BY <1>2, InitInv, PTL DEF Spec

----------------------------------------------------------------------------
(* What follows from the invariant                                         *)

\* Two tasks are never both inside for one session (session_lock.py:17).
THEOREM Exclusive == Spec => []MutualExclusion
<1>1. Inv => MutualExclusion
  BY DEF Inv, TypeOK, UseInv, OwnerInv, MutualExclusion
<1> QED BY <1>1, Invariance, PTL

\* Nothing leaks from the table and nothing in use leaves it
\* (session_lock.py:25).
THEOREM NothingLeaks == Spec => []TableInUse
<1>1. Inv => TableInUse
  <2> SUFFICES ASSUME Inv, NEW k \in Keys
               PROVE  /\ count[k] = Cardinality(Users(k))
                      /\ table[k] # NoLock <=> Users(k) # {}
                      /\ \A t \in Users(k) : lockOf[t] = table[k]
    BY DEF TableInUse, Users
  <2>1. \A t \in Users(k) : lockOf[t] = table[k] /\ lockOf[t] # NoLock
    BY DEF Inv, UseInv, Users
  <2> QED BY <2>1 DEF Inv, TableInv
<1> QED BY <1>1, Invariance, PTL

\* A lock object outside the table has no owner and no waiters.
LEMMA NewLockFact ==
    ASSUME Inv, NEW l \in NewLocks
    PROVE  l \in Locks /\ owner[l] = NoTask /\ waiters[l] = <<>>
<1>1. l \in Locks /\ \A t \in Tasks : lockOf[t] # l
  BY DEF NewLocks
<1>2. owner[l] = NoTask
  BY <1>1 DEF Inv, OwnerInv, TypeOK
<1>3. waiters[l] \in Seq(Tasks) /\ Len(waiters[l]) = 0
  <2>1. waiters[l] \in Seq(Tasks)
    BY <1>1 DEF Inv, TypeOK
  <2>2. 1 \notin 1..Len(waiters[l])
    BY <1>1, <2>1 DEF Inv, QueueInv, Queued
  <2> QED BY <2>1, <2>2
<1> QED BY <1>1, <1>2, <1>3

\* The lock object of the last user has nobody else on it.
LEMMA LastUserFact ==
    ASSUME Inv, NEW t \in Tasks, pc[t] # "idle", Users(want[t]) = {t}
    PROVE  /\ pc[t] = "inside" => waiters[lockOf[t]] = <<>>
           /\ pc[t] = "waiting" => /\ owner[lockOf[t]] = NoTask
                                   /\ \A i \in 1..Len(waiters[lockOf[t]]) : i = 1
<1> DEFINE l == lockOf[t]
<1>1. want[t] \in Keys /\ l \in Locks /\ l = table[want[t]]
  BY DEF Inv, UseInv, TypeOK
<1>2. \A u \in Tasks : lockOf[u] = l => u = t
  <2>1. \A u \in Tasks : lockOf[u] = l => want[u] \in Keys /\ table[want[u]] = l
    BY <1>1 DEF Inv, UseInv, TypeOK
  <2>2. \A u \in Tasks : lockOf[u] = l => want[u] = want[t]
    BY <1>1, <2>1 DEF Inv, TableInv
  <2> QED BY <2>2 DEF Users
<1>3. waiters[l] \in Seq(Tasks) /\ Len(waiters[l]) \in Nat
  BY <1>1 DEF Inv, TypeOK
<1>4. Queued(waiters[l], l, pc, lockOf)
  BY <1>1 DEF Inv, QueueInv
<1> HIDE DEF l
<1>5. \A i \in 1..Len(waiters[l]) : waiters[l][i] = t /\ pc[t] = "waiting"
  BY <1>2, <1>3, <1>4 DEF Queued
<1>6. pc[t] = "inside" => waiters[l] = <<>>
  <2>1. pc[t] = "inside" => 1 \notin 1..Len(waiters[l])
    BY <1>5
  <2> QED BY <1>3, <2>1
<1>7. \A i, j \in 1..Len(waiters[l]) : i = j
  BY <1>4, <1>5 DEF Queued
<1>8. \A i \in 1..Len(waiters[l]) : i = 1
  <2>1. \A i \in 1..Len(waiters[l]) : 1 \in 1..Len(waiters[l])
    BY <1>3
  <2> QED BY <1>7, <2>1
<1>9. pc[t] = "waiting" => owner[l] = NoTask
  BY <1>1, <1>2 DEF Inv, OwnerInv, TypeOK
<1> QED BY <1>6, <1>8, <1>9 DEF l

----------------------------------------------------------------------------
(* SessionLock implements FifoLock                                         *)

LEMMA InitFifo == Init => Fifo!Init
  BY DEF Init, Fifo!Init, Holder, Queue

\* The abstract lock of one key, now and after a step.
LEMMA EnterFifo ==
    ASSUME Inv, NEW t \in Tasks, NEW k \in Keys, NEW l \in Locks, Enter(t, k, l)
    PROVE  Fifo!Enter(t, k)
<1>1. /\ l \in IF table[k] = NoLock THEN NewLocks ELSE {table[k]}
      /\ table' = [table EXCEPT ![k] = l]
  BY DEF Enter
<1>2. /\ Holder[k] = owner[l] /\ Queue[k] = waiters[l]
  BY <1>1, NewLockFact DEF Holder, Queue
<1>3. /\ table'[k] = l /\ l # NoLock
      /\ \A m \in Keys \ {k} : table'[m] = table[m] /\ table[m] # l
  <2>1. \A m \in Keys \ {k} : table[m] # l
    BY <1>1 DEF NewLocks, Inv, TableInv
  <2> QED BY <1>1, <2>1 DEF Inv, TypeOK
<1>4. CASE owner[l] = NoTask /\ waiters[l] = <<>>
  <2>1. owner' = [owner EXCEPT ![l] = t] /\ waiters' = waiters
    BY <1>4 DEF Enter
  <2>2. /\ owner'[l] = t
        /\ \A m \in Locks \ {l} : owner'[m] = owner[m]
    BY <2>1 DEF Inv, TypeOK
  <2>3. \A m \in Keys : Holder'[m] = [Holder EXCEPT ![k] = t][m]
    BY <1>3, <2>2 DEF Holder, Inv, TypeOK
  <2>4. \A m \in Keys : Queue'[m] = Queue[m]
    BY <1>2, <1>3, <2>1 DEF Queue
  <2>5. Holder' = [Holder EXCEPT ![k] = t] /\ Queue' = Queue
    BY <2>3, <2>4 DEF Holder, Queue
  <2> QED BY <1>2, <1>4, <2>5 DEF Fifo!Enter
<1>5. CASE ~(owner[l] = NoTask /\ waiters[l] = <<>>)
  <2>1. /\ waiters' = [waiters EXCEPT ![l] = Append(waiters[l], t)]
        /\ owner' = owner
    BY <1>5 DEF Enter
  <2>2. /\ waiters'[l] = Append(waiters[l], t)
        /\ \A m \in Locks \ {l} : waiters'[m] = waiters[m]
    BY <2>1 DEF Inv, TypeOK
  <2>3. \A m \in Keys : Queue'[m] = [Queue EXCEPT ![k] = Append(Queue[k], t)][m]
    BY <1>2, <1>3, <2>2 DEF Queue, Inv, TypeOK
  <2>4. \A m \in Keys : Holder'[m] = Holder[m]
    BY <1>2, <1>3, <2>1 DEF Holder
  <2>5. Queue' = [Queue EXCEPT ![k] = Append(Queue[k], t)] /\ Holder' = Holder
    BY <2>3, <2>4 DEF Holder, Queue
  <2> QED BY <1>2, <1>5, <2>5 DEF Fifo!Enter
<1> QED BY <1>4, <1>5

\* What the lock object of a task says is what its key's lock says.
LEMMA KeyOfTask ==
    ASSUME Inv, NEW t \in Tasks, pc[t] # "idle"
    PROVE  /\ want[t] \in Keys /\ lockOf[t] \in Locks /\ table[want[t]] = lockOf[t]
           /\ lockOf[t] # NoLock
           /\ Holder[want[t]] = owner[lockOf[t]] /\ Queue[want[t]] = waiters[lockOf[t]]
           /\ \A m \in Keys \ {want[t]} : table[m] # lockOf[t]
<1>1. /\ want[t] \in Keys /\ lockOf[t] \in Locks /\ table[want[t]] = lockOf[t]
      /\ lockOf[t] # NoLock
  BY DEF Inv, UseInv, TypeOK
<1>2. \A m \in Keys \ {want[t]} : table[m] # lockOf[t]
  BY <1>1 DEF Inv, TableInv
<1> QED BY <1>1, <1>2 DEF Holder, Queue

\* Each operation is one of FifoLock, on the key of its task.
LEMMA GrantFifo ==
    ASSUME Inv, NEW t \in Tasks, Grant(t)
    PROVE  Fifo!Grant(want[t])
<1> DEFINE l == lockOf[t]
           k == want[t]
<1>1. /\ pc[t] = "waiting" /\ owner[l] = NoTask /\ waiters[l] # <<>>
      /\ Head(waiters[l]) = t /\ table' = table
      /\ owner' = [owner EXCEPT ![l] = t]
      /\ waiters' = [waiters EXCEPT ![l] = Tail(waiters[l])]
  BY DEF Grant
<1>2. /\ k \in Keys /\ l \in Locks /\ table[k] = l /\ l # NoLock
      /\ Holder[k] = owner[l] /\ Queue[k] = waiters[l]
      /\ \A m \in Keys \ {k} : table[m] # l
  BY <1>1, KeyOfTask
<1> HIDE DEF l, k
<1>3. /\ owner'[l] = t /\ waiters'[l] = Tail(waiters[l])
      /\ \A m \in Locks \ {l} : owner'[m] = owner[m] /\ waiters'[m] = waiters[m]
  BY <1>1, <1>2 DEF Inv, TypeOK
<1>4. \A m \in Keys \ {k} : table[m] # NoLock => table[m] \in Locks \ {l}
  BY <1>2 DEF Inv, TypeOK
<1>5. Holder' = [Holder EXCEPT ![k] = t]
  <2>1. \A m \in Keys : Holder'[m] = [Holder EXCEPT ![k] = t][m]
    BY <1>1, <1>2, <1>3, <1>4 DEF Holder
  <2> QED BY <2>1 DEF Holder
<1>6. Queue' = [Queue EXCEPT ![k] = Tail(Queue[k])]
  <2>1. \A m \in Keys : Queue'[m] = [Queue EXCEPT ![k] = Tail(Queue[k])][m]
    BY <1>1, <1>2, <1>3, <1>4 DEF Queue
  <2> QED BY <2>1 DEF Queue
<1> QED BY <1>1, <1>2, <1>5, <1>6 DEF Fifo!Grant, k

LEMMA ExitFifo ==
    ASSUME Inv, NEW t \in Tasks, Exit(t)
    PROVE  Fifo!Exit(want[t])
<1> DEFINE l == lockOf[t]
           k == want[t]
<1>1. /\ pc[t] = "inside" /\ Leave(t) /\ waiters' = waiters
      /\ owner' = [owner EXCEPT ![l] = NoTask]
  BY DEF Exit
<1>2. /\ k \in Keys /\ l \in Locks /\ table[k] = l /\ l # NoLock
      /\ Holder[k] = owner[l] /\ Queue[k] = waiters[l]
      /\ \A m \in Keys \ {k} : table[m] # l
  BY <1>1, KeyOfTask
<1>3. /\ \A m \in Keys : m # k => table'[m] = table[m]
      /\ table'[k] = IF Users(k) = {t} THEN NoLock ELSE table[k]
      /\ Users(k) = {t} => waiters[l] = <<>>
  BY <1>1, LeaveFact, LastUserFact
<1>4. owner[l] = t
  BY <1>1 DEF Inv, OwnerInv
<1> HIDE DEF l, k
<1>5. /\ owner'[l] = NoTask
      /\ \A m \in Locks \ {l} : owner'[m] = owner[m]
  BY <1>1, <1>2 DEF Inv, TypeOK
<1>6. \A m \in Keys \ {k} : table[m] # NoLock => table[m] \in Locks \ {l}
  BY <1>2 DEF Inv, TypeOK
<1>7. Holder' = [Holder EXCEPT ![k] = NoTask]
  <2>1. \A m \in Keys : Holder'[m] = [Holder EXCEPT ![k] = NoTask][m]
    BY <1>2, <1>3, <1>5, <1>6 DEF Holder
  <2> QED BY <2>1 DEF Holder
<1>8. Queue' = Queue
  <2>1. \A m \in Keys : Queue'[m] = Queue[m]
    BY <1>1, <1>2, <1>3 DEF Queue
  <2> QED BY <2>1 DEF Queue
<1>9. Holder[k] # NoTask
  BY <1>2, <1>4
<1> QED BY <1>7, <1>8, <1>9 DEF Fifo!Exit, k

LEMMA CancelFifo ==
    ASSUME Inv, NEW t \in Tasks, Cancel(t)
    PROVE  \E i \in 1..Len(Queue[want[t]]) : Fifo!Cancel(want[t], i)
<1> DEFINE l == lockOf[t]
           k == want[t]
<1>1. PICK i \in 1..Len(waiters[l]) :
         waiters' = [waiters EXCEPT ![l] = RemoveAt(waiters[l], i)]
  BY DEF Cancel
<1>2. pc[t] = "waiting" /\ Leave(t) /\ owner' = owner
  BY DEF Cancel
<1>3. /\ k \in Keys /\ l \in Locks /\ table[k] = l /\ l # NoLock
      /\ Holder[k] = owner[l] /\ Queue[k] = waiters[l]
      /\ \A m \in Keys \ {k} : table[m] # l
  BY <1>2, KeyOfTask
<1>4. /\ \A m \in Keys : m # k => table'[m] = table[m]
      /\ table'[k] = IF Users(k) = {t} THEN NoLock ELSE table[k]
      /\ Users(k) = {t} => /\ owner[l] = NoTask
                           /\ \A j \in 1..Len(waiters[l]) : j = 1
  BY <1>2, LeaveFact, LastUserFact
<1> HIDE DEF l, k
<1>5. /\ waiters[l] \in Seq(Tasks)
      /\ waiters'[l] = RemoveAt(waiters[l], i)
      /\ \A m \in Locks \ {l} : waiters'[m] = waiters[m]
  BY <1>1, <1>3 DEF Inv, TypeOK
<1>6. \A m \in Keys \ {k} : table[m] # NoLock => table[m] \in Locks \ {l}
  BY <1>3 DEF Inv, TypeOK
<1>7. Users(k) = {t} => RemoveAt(waiters[l], i) = <<>>
  <2>0. /\ RemoveAt(waiters[l], i) \in Seq(Tasks)
        /\ Len(RemoveAt(waiters[l], i)) = Len(waiters[l]) - 1
    BY <1>5, RemoveAtFact
  <2>1. SUFFICES ASSUME Users(k) = {t} PROVE Len(RemoveAt(waiters[l], i)) = 0
    BY <2>0, EmptyQueue
  <2>2. Len(waiters[l]) \in Nat /\ Len(waiters[l]) \in 1..Len(waiters[l])
    <3>1. i \in 1..Len(waiters[l])
      OBVIOUS
    <3> QED BY <1>5, <3>1
  <2>3. Len(waiters[l]) = 1
    BY <1>4, <2>1, <2>2
  <2> QED BY <2>0, <2>3
<1>8. Queue' = [Queue EXCEPT ![k] = RemoveAt(Queue[k], i)]
  <2>1. \A m \in Keys : Queue'[m] = [Queue EXCEPT ![k] = RemoveAt(Queue[k], i)][m]
    BY <1>3, <1>4, <1>5, <1>6, <1>7 DEF Queue
  <2> QED BY <2>1 DEF Queue
<1>9. Holder' = Holder
  <2>1. \A m \in Keys : Holder'[m] = Holder[m]
    BY <1>2, <1>3, <1>4 DEF Holder
  <2> QED BY <2>1 DEF Holder
<1>10. i \in 1..Len(Queue[k]) /\ Fifo!Cancel(k, i)
  BY <1>3, <1>8, <1>9 DEF Fifo!Cancel, Fifo!RemoveAt, RemoveAt
<1> QED BY <1>10 DEF k

\* Whatever objects are made and dropped, the users see one first-come,
\* first-served lock per session (session_lock.py:17).
THEOREM Implements == Spec => IsFifoLock
<1>1. Inv /\ [Next]_vars => [Fifo!Next]_(Fifo!vars)
  <2> SUFFICES ASSUME Inv, [Next]_vars PROVE [Fifo!Next]_(Fifo!vars)
    OBVIOUS
  <2>1. ASSUME NEW t \in Tasks, NEW k \in Keys, NEW l \in Locks, Enter(t, k, l)
        PROVE  Fifo!Next
    BY <2>1, EnterFifo DEF Fifo!Next
  <2>2. ASSUME NEW t \in Tasks, Grant(t) PROVE Fifo!Next
    BY <2>2, GrantFifo, KeyOfTask DEF Fifo!Next, Grant
  <2>3. ASSUME NEW t \in Tasks, Exit(t) PROVE Fifo!Next
    BY <2>3, ExitFifo, KeyOfTask DEF Fifo!Next, Exit
  <2>4. ASSUME NEW t \in Tasks, Cancel(t) PROVE Fifo!Next
    BY <2>4, CancelFifo, KeyOfTask DEF Fifo!Next, Cancel
  <2>5. CASE UNCHANGED vars
    BY <2>5 DEF vars, taskVars, Fifo!vars, Holder, Queue
  <2> QED BY <2>1, <2>2, <2>3, <2>4, <2>5 DEF Next
<1> QED BY <1>1, InitFifo, Invariance, PTL DEF Spec, IsFifoLock, Fifo!Spec

----------------------------------------------------------------------------
(* Nobody waits for a lock that no one will give on                        *)

\* Each task that waits is in the queue of its lock, so none is passed over.
WaitingInv ==
    \A t \in Tasks : pc[t] = "waiting" =>
        \E i \in 1..Len(waiters[lockOf[t]]) : waiters[lockOf[t]][i] = t

\* Who waits in a queue still does after a step of task t that changes only queue l,
\* and takes only t out of it.
LEMMA StillWaiting ==
    ASSUME Inv, WaitingInv, NEW t \in Tasks, NEW l \in Locks, NEW w \in Seq(Tasks),
           Differ(t, pc, pc', lockOf, lockOf'), waiters' = [waiters EXCEPT ![l] = w],
           \A i \in 1..Len(waiters[l]) : waiters[l][i] # t =>
               \E j \in 1..Len(w) : w[j] = waiters[l][i],
           pc'[t] = "waiting" => lockOf'[t] = l /\ \E j \in 1..Len(w) : w[j] = t
    PROVE  WaitingInv'
<1>0. waiters \in [Locks -> Seq(Tasks)] /\ waiters'[l] = w
  BY DEF Inv, TypeOK
<1> SUFFICES ASSUME NEW u \in Tasks, pc'[u] = "waiting"
             PROVE  \E i \in 1..Len(waiters'[lockOf'[u]]) : waiters'[lockOf'[u]][i] = u
  BY DEF WaitingInv
<1>1. CASE u = t
  BY <1>0, <1>1
<1>2. CASE u # t
  <2>1. pc[u] = "waiting" /\ lockOf'[u] = lockOf[u]
    BY <1>2 DEF Differ
  <2>2. PICK i \in 1..Len(waiters[lockOf[u]]) : waiters[lockOf[u]][i] = u
    BY <2>1 DEF WaitingInv
  <2>3. CASE lockOf[u] = l
    BY <1>0, <1>2, <2>1, <2>2, <2>3
  <2>4. CASE lockOf[u] # l
    <3>1. waiters'[lockOf[u]] = waiters[lockOf[u]]
      BY <1>0, <2>4
    <3> QED BY <2>1, <2>2, <3>1
  <2> QED BY <2>3, <2>4
<1> QED BY <1>1, <1>2

LEMMA WaitingStep == Inv /\ WaitingInv /\ [Next]_vars => WaitingInv'
<1> SUFFICES ASSUME Inv, WaitingInv, [Next]_vars PROVE WaitingInv'
  OBVIOUS
<1>0. /\ TypeOK /\ pc \in [Tasks -> {"idle", "waiting", "inside"}]
      /\ lockOf \in [Tasks -> Locks \cup {NoLock}] /\ waiters \in [Locks -> Seq(Tasks)]
  BY DEF Inv, TypeOK
<1>a. \A l \in Locks : [waiters EXCEPT ![l] = waiters[l]] = waiters
  BY <1>0
<1>1. ASSUME NEW t \in Tasks, NEW k \in Keys, NEW l \in Locks, Enter(t, k, l)
      PROVE  WaitingInv'
  <2>1. lockOf' = [lockOf EXCEPT ![t] = l] /\ pc[t] = "idle"
    BY <1>1 DEF Enter
  <2>2. CASE pc' = [pc EXCEPT ![t] = "inside"] /\ waiters' = waiters
    BY <1>0, <1>a, <2>1, <2>2, StillWaiting DEF Differ
  <2>3. CASE /\ pc' = [pc EXCEPT ![t] = "waiting"]
             /\ waiters' = [waiters EXCEPT ![l] = Append(waiters[l], t)]
    <3> DEFINE w == Append(waiters[l], t)
    <3>1. /\ w \in Seq(Tasks) /\ Len(w) = Len(waiters[l]) + 1 /\ Len(waiters[l]) \in Nat
          /\ w[Len(waiters[l]) + 1] = t
          /\ \A i \in 1..Len(waiters[l]) : i \in 1..Len(w) /\ w[i] = waiters[l][i]
      BY <1>0
    <3>2. Len(waiters[l]) + 1 \in 1..Len(w)
      BY <3>1
    <3> HIDE DEF w
    <3>3. Differ(t, pc, pc', lockOf, lockOf') /\ lockOf'[t] = l
      BY <1>0, <2>1, <2>3 DEF Differ
    <3>4. waiters' = [waiters EXCEPT ![l] = w]
      BY <2>3 DEF w
    <3> QED BY <3>1, <3>2, <3>3, <3>4, StillWaiting
  <2> QED BY <1>1, <2>2, <2>3 DEF Enter, Goes
<1>2. ASSUME NEW t \in Tasks, Grant(t) PROVE WaitingInv'
  <2> DEFINE l == lockOf[t]
             w == Tail(waiters[l])
  <2>1. /\ l \in Locks /\ waiters[l] \in Seq(Tasks) /\ waiters[l] # <<>>
        /\ Head(waiters[l]) = t /\ pc' = [pc EXCEPT ![t] = "inside"] /\ lockOf' = lockOf
        /\ waiters' = [waiters EXCEPT ![l] = w]
    BY <1>0, <1>2 DEF Grant, Goes, Inv, UseInv
  <2>2. /\ w \in Seq(Tasks) /\ Len(w) = Len(waiters[l]) - 1 /\ Len(waiters[l]) \in Nat
        /\ waiters[l][1] = t /\ \A j \in 1..Len(w) : w[j] = waiters[l][j + 1]
    BY <2>1, TailFact
  <2>3. Differ(t, pc, pc', lockOf, lockOf') /\ pc'[t] # "waiting"
    BY <1>0, <2>1 DEF Differ
  <2> HIDE DEF l, w
  <2>4. ASSUME NEW i \in 1..Len(waiters[l]), waiters[l][i] # t
        PROVE  \E j \in 1..Len(w) : w[j] = waiters[l][i]
    <3>1. i - 1 \in 1..Len(w) /\ (i - 1) + 1 = i
      BY <2>2, <2>4
    <3> QED BY <2>2, <3>1
  <2> QED BY <2>1, <2>2, <2>3, <2>4, StillWaiting
<1>3. ASSUME NEW t \in Tasks, Exit(t) PROVE WaitingInv'
  <2>1. /\ lockOf[t] \in Locks /\ pc' = [pc EXCEPT ![t] = "idle"]
        /\ lockOf' = [lockOf EXCEPT ![t] = NoLock] /\ waiters' = waiters
    BY <1>0, <1>3 DEF Exit, Leave, Goes, Inv, UseInv
  <2>2. Differ(t, pc, pc', lockOf, lockOf') /\ pc'[t] # "waiting"
    BY <1>0, <2>1 DEF Differ
  <2> QED BY <1>0, <1>a, <2>1, <2>2, StillWaiting
<1>4. ASSUME NEW t \in Tasks, Cancel(t) PROVE WaitingInv'
  <2> DEFINE l == lockOf[t]
  <2>1. PICK i \in 1..Len(waiters[l]) :
           waiters[l][i] = t /\ waiters' = [waiters EXCEPT ![l] = RemoveAt(waiters[l], i)]
    BY <1>4 DEF Cancel
  <2>2. /\ l \in Locks /\ waiters[l] \in Seq(Tasks) /\ pc' = [pc EXCEPT ![t] = "idle"]
        /\ lockOf' = [lockOf EXCEPT ![t] = NoLock]
    BY <1>0, <1>4 DEF Cancel, Leave, Goes, Inv, UseInv
  <2> DEFINE w == RemoveAt(waiters[l], i)
  <2>3. Differ(t, pc, pc', lockOf, lockOf') /\ pc'[t] # "waiting"
    BY <1>0, <2>2 DEF Differ
  <2> HIDE DEF l
  <2>4. /\ w \in Seq(Tasks) /\ Len(w) = Len(waiters[l]) - 1 /\ Len(waiters[l]) \in Nat
        /\ \A j \in 1..(Len(waiters[l]) - 1) :
              w[j] = IF j < i THEN waiters[l][j] ELSE waiters[l][j + 1]
    BY <2>2, RemoveAtFact
  <2> HIDE DEF w
  <2>5. ASSUME NEW j \in 1..Len(waiters[l]), waiters[l][j] # t
        PROVE  \E m \in 1..Len(w) : w[m] = waiters[l][j]
    <3>1. CASE j < i
      BY <2>4, <3>1
    <3>2. CASE j > i
      <4>1. j - 1 \in 1..Len(w) /\ ~(j - 1 < i) /\ (j - 1) + 1 = j
        BY <2>4, <3>2
      <4> QED BY <2>4, <4>1
    <3>3. j # i
      BY <2>1, <2>5
    <3> QED BY <3>1, <3>2, <3>3
  <2>6. waiters' = [waiters EXCEPT ![l] = w]
    BY <2>1 DEF w
  <2> QED BY <2>2, <2>3, <2>4, <2>5, <2>6, StillWaiting
<1>5. CASE UNCHANGED vars
  BY <1>5 DEF vars, taskVars, WaitingInv
<1> QED BY <1>1, <1>2, <1>3, <1>4, <1>5 DEF Next

\* The task has the lock, or is the next to get one that is free.
CanGoOn(t) ==
    \/ pc[t] = "inside"
    \/ /\ pc[t] = "waiting" /\ owner[lockOf[t]] = NoTask
       /\ waiters[lockOf[t]] # <<>> /\ Head(waiters[lockOf[t]]) = t

\* Whoever waits for a session, a task of that very session can go on: no lock object
\* is left locked, or free with tasks that nobody wakes, by the comings, goings and
\* cancellations around it (session_lock.py:17, :25).
THEOREM NeverStuck ==
    Spec => [](\A t \in Tasks : pc[t] = "waiting" =>
                   \E u \in Tasks : want[u] = want[t] /\ CanGoOn(u))
<1>1. Init => WaitingInv
  BY DEF Init, WaitingInv
<1>2. ASSUME Inv, WaitingInv, NEW t \in Tasks, pc[t] = "waiting"
      PROVE  \E u \in Tasks : want[u] = want[t] /\ CanGoOn(u)
  <2> DEFINE l == lockOf[t]
  <2>1. /\ l \in Locks /\ waiters[l] \in Seq(Tasks) /\ want[t] \in Keys /\ l = table[want[t]]
    BY <1>2 DEF Inv, TypeOK, UseInv
  <2>2. ASSUME NEW u \in Tasks, lockOf[u] = l PROVE want[u] = want[t]
    <3>1. want[u] \in Keys /\ table[want[u]] = l /\ l # NoLock
      BY <1>2, <2>1, <2>2 DEF Inv, TypeOK, UseInv
    <3> QED BY <1>2, <2>1, <3>1 DEF Inv, TableInv
  <2>3. CASE owner[l] # NoTask
    <3>1. owner[l] \in Tasks /\ pc[owner[l]] = "inside" /\ lockOf[owner[l]] = l
      BY <1>2, <2>1, <2>3 DEF Inv, TypeOK, OwnerInv
    <3> QED BY <2>2, <3>1 DEF CanGoOn
  <2>4. CASE owner[l] = NoTask
    <3>1. PICK i \in 1..Len(waiters[l]) : waiters[l][i] = t
      BY <1>2 DEF WaitingInv
    <3>2. waiters[l] # <<>> /\ 1 \in 1..Len(waiters[l]) /\ Head(waiters[l]) = waiters[l][1]
      BY <2>1, <3>1
    <3>3. /\ waiters[l][1] \in Tasks /\ pc[waiters[l][1]] = "waiting"
          /\ lockOf[waiters[l][1]] = l
      BY <1>2, <2>1, <3>2 DEF Inv, QueueInv, Queued
    <3> QED BY <2>2, <2>4, <3>2, <3>3 DEF CanGoOn
  <2> QED BY <2>3, <2>4
<1>3. Inv /\ WaitingInv => \A t \in Tasks : pc[t] = "waiting" =>
                                \E u \in Tasks : want[u] = want[t] /\ CanGoOn(u)
  BY <1>2
<1>4. Inv /\ WaitingInv /\ [Next]_vars => WaitingInv'
  BY WaitingStep
<1> QED BY <1>1, <1>3, <1>4, Invariance, PTL DEF Spec

----------------------------------------------------------------------------
(* SessionWaiter, which relies on such a lock: the waiters of one session   *)

USE SessionWaiterAssumption

WaiterTypes ==
    /\ session \in Waiters \cup {NoWaiter}
    /\ filters \in Seq(Waiters)
    /\ waiter \in [Waiters -> {"new", "waiting", "ended"}]
    /\ future \in [Waiters -> {"pending", "result", "error"}]
    /\ at \in [Messages -> {"away", "scanning", "locking", "handling", "nested",
                              "free", "asking", "done"}]
    /\ stopped \in [Messages -> BOOLEAN]
    /\ serving \in [Messages -> Waiters \cup {NoWaiter}]
    /\ asking \in [Messages -> Waiters \cup {NoWaiter}]
    /\ handled \in [Messages -> Nat]

\* A handler that waits does so for a waiter of its own.
AskingInv ==
    /\ \A m \in Messages : at[m] \in {"asking", "nested"} => asking[m] \in Waiting
    /\ \A m, n \in Messages :
        at[m] \in {"asking", "nested"} /\ at[n] \in {"asking", "nested"}
        /\ asking[m] = asking[n] => m = n

\* Of two waiters at the same time neither is alone.
RegistryInv ==
    /\ session \in Waiting \cup {NoWaiter}
    /\ \A i \in 1..Len(filters) : filters[i] \in Waiting
    /\ \A i, j \in 1..Len(filters) : filters[i] = filters[j] => i = j
    /\ \A v, w \in Waiting : v # w => v \in met

\* A message that was kept from the rest of the pipeline had a handler, or is
\* on its way to one, or found its waiter over.
KeptInv ==
    \A m \in Messages :
        /\ at[m] \in {"away", "free", "asking"} => ~stopped[m]
        /\ stopped[m] => serving[m] \in Waiters
        /\ at[m] \in {"handling", "nested"} => handled[m] > 0 /\ stopped[m]
        /\ at[m] = "locking" => stopped[m]
        /\ at[m] \in {"scanning", "done"} /\ stopped[m] /\ handled[m] = 0
              => future[serving[m]] # "pending"

WaiterInv ==
    WaiterTypes /\ AskingInv /\ RegistryInv /\ KeptInv /\ AloneIsReachable

LEMMA WaiterInitial == WaiterInit => WaiterInv
<1> SUFFICES ASSUME WaiterInit PROVE WaiterInv
  OBVIOUS
<1>1. WaiterTypes
  BY DEF WaiterInit, WaiterTypes
<1>2. AskingInv
  BY DEF WaiterInit, AskingInv
<1>3. Waiting = {}
  BY DEF WaiterInit, Waiting
<1>4. RegistryInv
  BY <1>3 DEF WaiterInit, RegistryInv
<1>5. KeptInv
  BY DEF WaiterInit, KeptInv
<1>6. AloneIsReachable
  BY <1>3 DEF AloneIsReachable
<1> QED BY <1>1, <1>2, <1>4, <1>5, <1>6 DEF WaiterInv

\* What a step does to the registry, to who asks, and to the messages is
\* shown one after the other.
LEMMA RegistryKept ==
    ASSUME WaiterInv, UNCHANGED <<session, filters, waiter, met>>
    PROVE  RegistryInv' /\ AloneIsReachable' /\ Waiting' = Waiting
BY DEF WaiterInv, RegistryInv, AloneIsReachable, Waiting

\* As long as nobody registers or resumes, those who ask stay who they are.
LEMMA AskingKept ==
    ASSUME WaiterInv, UNCHANGED <<waiter, asking>>,
           \A m \in Messages :
              at'[m] \in {"asking", "nested"} => at[m] \in {"asking", "nested"}
    PROVE  AskingInv'
BY DEF WaiterInv, AskingInv, Waiting

\* One message moves on, and a waiter that is over stays so.
LEMMA KeptMove ==
    ASSUME WaiterInv, NEW m \in Messages, NEW to,
           at' = [at EXCEPT ![m] = to],
           \A w \in Waiters : future[w] # "pending" => future'[w] # "pending",
           \A n \in Messages \ {m} : /\ stopped'[n] = stopped[n] /\ serving'[n] = serving[n]
                                       /\ handled'[n] = handled[n],
           /\ to \in {"away", "free", "asking"} => ~stopped'[m]
           /\ stopped'[m] => serving'[m] \in Waiters
           /\ to \in {"handling", "nested"} => handled'[m] > 0 /\ stopped'[m]
           /\ to = "locking" => stopped'[m]
           /\ to \in {"scanning", "done"} /\ stopped'[m] /\ handled'[m] = 0
                 => future'[serving'[m]] # "pending"
    PROVE  KeptInv'
<1> SUFFICES ASSUME NEW n \in Messages
             PROVE  /\ at'[n] \in {"away", "free", "asking"} => ~stopped'[n]
                    /\ stopped'[n] => serving'[n] \in Waiters
                    /\ at'[n] \in {"handling", "nested"} => handled'[n] > 0 /\ stopped'[n]
                    /\ at'[n] = "locking" => stopped'[n]
                    /\ at'[n] \in {"scanning", "done"} /\ stopped'[n] /\ handled'[n] = 0
                          => future'[serving'[n]] # "pending"
  BY DEF KeptInv
<1>1. CASE n = m
  BY <1>1 DEF WaiterInv, WaiterTypes
<1>2. CASE n # m
  <2>1. /\ at'[n] = at[n] /\ stopped'[n] = stopped[n] /\ serving'[n] = serving[n]
        /\ handled'[n] = handled[n]
    BY <1>2 DEF WaiterInv, WaiterTypes
  <2>2. /\ at[n] \in {"away", "free", "asking"} => ~stopped[n]
        /\ stopped[n] => serving[n] \in Waiters
        /\ at[n] \in {"handling", "nested"} => handled[n] > 0 /\ stopped[n]
        /\ at[n] = "locking" => stopped[n]
        /\ at[n] \in {"scanning", "done"} /\ stopped[n] /\ handled[n] = 0
              => future[serving[n]] # "pending"
    BY DEF WaiterInv, KeptInv
  <2>3. stopped[n] /\ future[serving[n]] # "pending" => future'[serving[n]] # "pending"
    BY <2>2
  <2> QED BY <2>1, <2>2, <2>3
<1> QED BY <1>1, <1>2

\* The other steps do not touch what the invariant is about, but that one more
\* waiter may be over.
LEMMA FutureKept ==
    ASSUME WaiterInv, UNCHANGED <<session, filters, waiter, met, at, stopped, serving, asking,
                                  handled>>,
           future' \in [Waiters -> {"pending", "result", "error"}],
           \A w \in Waiters : future[w] # "pending" => future'[w] # "pending"
    PROVE  WaiterInv'
<1>1. WaiterTypes'
  BY DEF WaiterInv, WaiterTypes
<1>2. AskingInv' /\ RegistryInv' /\ AloneIsReachable'
  BY RegistryKept, AskingKept
<1>3. KeptInv'
  BY DEF WaiterInv, KeptInv
<1> QED BY <1>1, <1>2, <1>3 DEF WaiterInv

\* A waiter that is over stays so.
LEMMA StopFact ==
    ASSUME WaiterTypes, NEW w \in Waiters, NEW outcome \in {"result", "error"},
           Stop(w, outcome)
    PROVE  /\ future' \in [Waiters -> {"pending", "result", "error"}]
           /\ \A v \in Waiters : future[v] # "pending" => future'[v] # "pending"
BY DEF WaiterTypes, Stop, Done

\* A waiter registers, over any other of the session,
LEMMA RegisterStep ==
    ASSUME WaiterInv, NEW m \in Messages, NEW w \in Waiters, RegisterWait(m, w)
    PROVE  WaiterInv'
<1>0. WaiterTypes /\ AskingInv /\ RegistryInv /\ KeptInv /\ AloneIsReachable
  BY DEF WaiterInv
<1>1. /\ waiter[w] = "new" /\ waiter' = [waiter EXCEPT ![w] = "waiting"]
      /\ asking' = [asking EXCEPT ![m] = w] /\ session' = w /\ filters' = Append(filters, w)
      /\ met' = IF Waiting = {} THEN met ELSE met \cup Waiting \cup {w}
      /\ UNCHANGED <<future, stopped, serving, handled>>
  BY DEF RegisterWait
<1>2. PICK from \in {"free", "handling"}, to \in {"asking", "nested"} :
        /\ at[m] = from /\ at' = [at EXCEPT ![m] = to]
        /\ to = IF from = "free" THEN "asking" ELSE "nested"
  BY DEF RegisterWait, MessageGoes
<1>3. Waiting' = Waiting \cup {w} /\ w \notin Waiting
  BY <1>0, <1>1 DEF WaiterTypes, Waiting
<1>4. /\ filters' \in Seq(Waiters) /\ Len(filters') = Len(filters) + 1
      /\ Len(filters) \in Nat /\ filters'[Len(filters) + 1] = w
      /\ \A i \in 1..Len(filters) : filters'[i] = filters[i]
  BY <1>0, <1>1 DEF WaiterTypes
<1>5. WaiterTypes'
  BY <1>0, <1>1, <1>2, <1>4 DEF WaiterTypes
<1>6. AskingInv'
  <2>1. \A n \in Messages : n # m => at'[n] = at[n] /\ asking'[n] = asking[n]
    BY <1>0, <1>1, <1>2 DEF WaiterTypes
  <2>2. asking'[m] = w
    BY <1>0, <1>1 DEF WaiterTypes
  <2> QED BY <1>0, <1>3, <2>1, <2>2 DEF AskingInv
<1>7. RegistryInv'
  <2>1. \A i \in 1..Len(filters') : filters'[i] \in Waiting \cup {w}
    BY <1>0, <1>4 DEF RegistryInv
  <2>2. \A i, j \in 1..Len(filters') : filters'[i] = filters'[j] => i = j
    BY <1>0, <1>3, <1>4 DEF RegistryInv
  <2>3. \A v, u \in Waiting \cup {w} : v # u => v \in met'
    BY <1>0, <1>1 DEF RegistryInv
  <2> QED BY <1>1, <1>3, <2>1, <2>2, <2>3 DEF RegistryInv
<1>8. AloneIsReachable'
  <2>1. CASE Waiting = {}
    <3>1. filters = <<>>
      <4>1. Len(filters) = 0
        BY <1>0, <1>4, <2>1 DEF RegistryInv
      <4> QED BY <1>0, <4>1 DEF WaiterTypes
    <3>2. filters' = <<w>>
      BY <1>1, <3>1
    <3> QED BY <1>1, <1>3, <2>1, <3>2 DEF AloneIsReachable
  <2>2. CASE Waiting # {}
    BY <1>1, <1>3, <2>2 DEF AloneIsReachable
  <2> QED BY <2>1, <2>2
<1>9. KeptInv'
  BY <1>0, <1>1, <1>2, KeptMove DEF KeptInv
<1> QED BY <1>5, <1>6, <1>7, <1>8, <1>9 DEF WaiterInv

\* and cleans up, whoever has the session by then.
LEMMA CleanupStep ==
    ASSUME WaiterInv, NEW m \in Messages, Cleanup(m)
    PROVE  WaiterInv'
<1>0. WaiterTypes /\ AskingInv /\ RegistryInv /\ KeptInv /\ AloneIsReachable
  BY DEF WaiterInv
<1> DEFINE w == asking[m]
<1>1. /\ waiter' = [waiter EXCEPT ![w] = "ended"] /\ asking' = [asking EXCEPT ![m] = NoWaiter]
      /\ session' = NoWaiter /\ LeavesFilters(w)
      /\ UNCHANGED <<future, stopped, serving, handled, met>>
  BY DEF Cleanup
<1>2. PICK from \in {"asking", "nested"}, to \in {"free", "handling"} :
        /\ at[m] = from /\ at' = [at EXCEPT ![m] = to]
        /\ to = IF from = "asking" THEN "free" ELSE "handling"
  BY DEF Cleanup, MessageGoes
<1>3. w \in Waiting /\ w \in Waiters
  BY <1>0, <1>2 DEF AskingInv, Waiting
<1> HIDE DEF w
<1>4. Waiting' = Waiting \ {w}
  BY <1>0, <1>1, <1>3 DEF WaiterTypes, Waiting
<1>5. PICK i \in 1..Len(filters) : filters[i] = w /\ filters' = RemoveAt(filters, i)
  <2>1. DOMAIN filters = 1..Len(filters)
    BY <1>0 DEF WaiterTypes
  <2> QED BY <1>1, <2>1 DEF LeavesFilters
<1>6. /\ filters' \in Seq(Waiters) /\ Len(filters') = Len(filters) - 1
      /\ Len(filters) \in Nat
      /\ \A j \in 1..(Len(filters) - 1) :
            filters'[j] = IF j < i THEN filters[j] ELSE filters[j + 1]
  <2>1. filters \in Seq(Waiters)
    BY <1>0 DEF WaiterTypes
  <2>2. /\ RemoveAt(filters, i) \in Seq(Waiters)
        /\ Len(RemoveAt(filters, i)) = Len(filters) - 1
        /\ \A j \in 1..(Len(filters) - 1) :
              RemoveAt(filters, i)[j] = IF j < i THEN filters[j] ELSE filters[j + 1]
    BY <2>1, RemoveAtFact
  <2>3. Len(filters) \in Nat
    BY <2>1
  <2> QED BY <1>5, <2>2, <2>3
<1>7. WaiterTypes'
  BY <1>0, <1>1, <1>2, <1>6 DEF WaiterTypes
<1>8. AskingInv'
  <2>1. \A n \in Messages : n # m => at'[n] = at[n] /\ asking'[n] = asking[n]
    BY <1>0, <1>1, <1>2 DEF WaiterTypes
  <2>2. at'[m] \notin {"asking", "nested"}
    BY <1>0, <1>2 DEF WaiterTypes
  <2>3. \A n \in Messages : n # m /\ at[n] \in {"asking", "nested"} => asking[n] # w
    BY <1>0, <1>2 DEF AskingInv, w
  <2> QED BY <1>0, <1>4, <2>1, <2>2, <2>3 DEF AskingInv
<1>9. RegistryInv'
  <2> DEFINE Old(j) == IF j < i THEN j ELSE j + 1
  <2>1. \A j \in 1..Len(filters') : Old(j) \in 1..Len(filters) /\ Old(j) # i
                                    /\ filters'[j] = filters[Old(j)]
    BY <1>6
  <2>2. \A j, k \in 1..Len(filters') : Old(j) = Old(k) => j = k
    BY <1>6
  <2> HIDE DEF Old
  <2>3. \A j \in 1..Len(filters') : filters'[j] \in Waiting \ {w}
    BY <1>0, <1>5, <2>1 DEF RegistryInv
  <2>4. \A j, k \in 1..Len(filters') : filters'[j] = filters'[k] => j = k
    BY <1>0, <2>1, <2>2 DEF RegistryInv
  <2> QED BY <1>0, <1>1, <1>4, <2>3, <2>4 DEF RegistryInv
<1>10. AloneIsReachable'
  <2>1. \A v \in Waiting \ {w} : v \in met
    BY <1>0, <1>3 DEF RegistryInv
  <2> QED BY <1>1, <1>4, <2>1 DEF AloneIsReachable
<1>11. KeptInv'
  BY <1>0, <1>1, <1>2, KeptMove DEF KeptInv
<1> QED BY <1>7, <1>8, <1>9, <1>10, <1>11 DEF WaiterInv

\* Every step of a message keeps the invariant.
LEMMA MessageMoves ==
    ASSUME WaiterInv, NEW m \in Messages, MessageStep(m)
    PROVE  WaiterInv'
<1>0. WaiterTypes /\ AskingInv /\ RegistryInv /\ KeptInv /\ AloneIsReachable
  BY DEF WaiterInv
<1>1. ASSUME NEW to \in {"scanning", "free", "done", "locking", "handling"},
             at' = [at EXCEPT ![m] = to], KeptInv',
             UNCHANGED <<session, filters, waiter, met, asking>>,
             future' \in [Waiters -> {"pending", "result", "error"}],
             stopped' \in [Messages -> BOOLEAN],
             serving' \in [Messages -> Waiters \cup {NoWaiter}],
             handled' \in [Messages -> Nat]
      PROVE  WaiterInv'
  <2>1. WaiterTypes'
    BY <1>0, <1>1 DEF WaiterTypes
  <2>2. \A n \in Messages : at'[n] \in {"asking", "nested"} => at[n] \in {"asking", "nested"}
    BY <1>0, <1>1 DEF WaiterTypes
  <2> QED BY <1>1, <2>1, <2>2, RegistryKept, AskingKept DEF WaiterInv
<1>2. ASSUME Arrive(m) PROVE WaiterInv'
  <2>1. /\ at[m] = "away" /\ at' = [at EXCEPT ![m] = "scanning"]
        /\ UNCHANGED <<session, filters, waiter, met, asking, future, stopped, serving, handled>>
    BY <1>2 DEF Arrive, MessageGoes, registry
  <2>2. KeptInv'
    BY <1>0, <2>1, KeptMove DEF KeptInv
  <2> QED BY <1>0, <1>1, <2>1, <2>2 DEF WaiterTypes
<1>3. ASSUME ScanEnds(m) PROVE WaiterInv'
  <2>1. PICK to \in {"done", "free"} :
          /\ at[m] = "scanning" /\ at' = [at EXCEPT ![m] = to]
          /\ to = IF stopped[m] THEN "done" ELSE "free"
    BY <1>3 DEF ScanEnds, MessageGoes
  <2>2. UNCHANGED <<session, filters, waiter, met, asking, future, stopped, serving, handled>>
    BY <1>3 DEF ScanEnds, registry
  <2>3. KeptInv'
    BY <1>0, <2>1, <2>2, KeptMove DEF KeptInv
  <2> QED BY <1>0, <1>1, <2>1, <2>2, <2>3 DEF WaiterTypes
<1>4. ASSUME ScanFinds(m) PROVE WaiterInv'
  <2>1. /\ at[m] = "scanning" /\ session # NoWaiter
        /\ stopped' = [stopped EXCEPT ![m] = TRUE] /\ serving' = [serving EXCEPT ![m] = session]
        /\ UNCHANGED <<session, filters, waiter, met, asking, future>>
    BY <1>4 DEF ScanFinds, registry
  <2>2. /\ stopped'[m] = TRUE /\ serving'[m] = session /\ session \in Waiters
        /\ \A n \in Messages \ {m} : stopped'[n] = stopped[n] /\ serving'[n] = serving[n]
        /\ stopped' \in [Messages -> BOOLEAN]
        /\ serving' \in [Messages -> Waiters \cup {NoWaiter}]
    BY <1>0, <2>1 DEF WaiterTypes
  <2>3. PICK to \in {"scanning", "handling", "locking"} :
          /\ at' = [at EXCEPT ![m] = to]
          /\ handled' = IF to = "handling" THEN [handled EXCEPT ![m] = @ + 1] ELSE handled
          /\ to = "scanning" => future[session] # "pending"
    <3>1. CASE Done(session)
      <4>1. at' = [at EXCEPT ![m] = "scanning"]
        BY <1>0, <1>4, <2>1, <3>1 DEF ScanFinds, WaiterTypes
      <4> QED BY <1>4, <3>1, <4>1 DEF ScanFinds, Done
    <3>2. CASE ~Done(session)
      BY <1>4, <3>2 DEF ScanFinds, Trigger
    <3> QED BY <3>1, <3>2
  <2>4. /\ handled' \in [Messages -> Nat] /\ \A n \in Messages \ {m} : handled'[n] = handled[n]
        /\ to = "handling" => handled'[m] > 0
    BY <1>0, <2>3 DEF WaiterTypes
  <2>5. KeptInv'
    BY <1>0, <2>1, <2>2, <2>3, <2>4, KeptMove
  <2> QED BY <1>0, <1>1, <2>1, <2>2, <2>3, <2>4, <2>5 DEF WaiterTypes
<1>5. ASSUME MessageLeaves(m) PROVE WaiterInv'
  <2>1. /\ at[m] = "free" /\ at' = [at EXCEPT ![m] = "done"]
        /\ UNCHANGED <<session, filters, waiter, met, asking, future, stopped, serving, handled>>
    BY <1>5 DEF MessageLeaves, MessageGoes, registry
  <2>2. KeptInv'
    BY <1>0, <2>1, KeptMove DEF KeptInv
  <2> QED BY <1>0, <1>1, <2>1, <2>2 DEF WaiterTypes
<1>6. ASSUME Locked(m) PROVE WaiterInv'
  <2>1. /\ at[m] = "locking"
        /\ UNCHANGED <<session, filters, waiter, met, asking, future, stopped, serving>>
    BY <1>6 DEF Locked, registry
  <2>2. PICK to \in {"scanning", "handling"} :
          /\ at' = [at EXCEPT ![m] = to]
          /\ handled' = IF to = "handling" THEN [handled EXCEPT ![m] = @ + 1] ELSE handled
          /\ to = "scanning" => future[serving[m]] # "pending"
    BY <1>6 DEF Locked, Done
  <2>3. /\ handled' \in [Messages -> Nat] /\ \A n \in Messages \ {m} : handled'[n] = handled[n]
        /\ to = "handling" => handled'[m] > 0
    BY <1>0, <2>2 DEF WaiterTypes
  <2>4. stopped[m] /\ serving[m] \in Waiters
    BY <1>0, <2>1 DEF KeptInv
  <2>5. KeptInv'
    BY <1>0, <2>1, <2>2, <2>3, <2>4, KeptMove
  <2> QED BY <1>0, <1>1, <2>1, <2>2, <2>3, <2>5 DEF WaiterTypes
<1>7. ASSUME HandlerKeeps(m) PROVE WaiterInv'
  BY <1>0, <1>7, FutureKept DEF HandlerKeeps, registry, messageVars, WaiterTypes
<1>8. ASSUME HandlerStops(m) PROVE WaiterInv'
  <2>1. serving[m] \in Waiters
    BY <1>0, <1>8 DEF HandlerStops, KeptInv
  <2>2. PICK outcome \in {"result", "error"} : Stop(serving[m], outcome)
    BY <1>8 DEF HandlerStops
  <2> QED BY <1>0, <1>8, <2>1, <2>2, StopFact, FutureKept
          DEF HandlerStops, registry, messageVars
<1>9. ASSUME HandlerEnds(m) PROVE WaiterInv'
  <2>1. /\ at[m] = "handling" /\ at' = [at EXCEPT ![m] = "scanning"]
        /\ UNCHANGED <<session, filters, waiter, met, asking, stopped, serving, handled>>
    BY <1>9 DEF HandlerEnds, Return, MessageGoes, registry
  <2>2. handled[m] > 0 /\ stopped[m] /\ serving[m] \in Waiters
    BY <1>0, <2>1 DEF KeptInv
  <2>3. /\ future' \in [Waiters -> {"pending", "result", "error"}]
        /\ \A v \in Waiters : future[v] # "pending" => future'[v] # "pending"
    <3>1. UNCHANGED future \/ Stop(serving[m], "error")
      BY <1>9 DEF HandlerEnds, Return
    <3> QED BY <1>0, <2>2, <3>1, StopFact DEF WaiterTypes
  <2>4. KeptInv'
    <3>1. handled[m] # 0
      BY <1>0, <2>2 DEF WaiterTypes
    <3> QED BY <2>1, <2>2, <2>3, <3>1, KeptMove
  <2> QED BY <1>0, <1>1, <2>1, <2>3, <2>4 DEF WaiterTypes
<1>10. ASSUME NEW w \in Waiters, RegisterWait(m, w) PROVE WaiterInv'
  BY <1>10, RegisterStep
<1>11. ASSUME Cleanup(m) PROVE WaiterInv'
  BY <1>11, CleanupStep
<1> QED BY <1>2, <1>3, <1>4, <1>5, <1>6, <1>7, <1>8, <1>9, <1>10, <1>11 DEF MessageStep

\* WaiterInv is an invariant of SessionWaiter.
THEOREM WaiterInvariance == WaiterSpec => []WaiterInv
<1>1. WaiterInv /\ [WaiterNext]_waiterVars => WaiterInv'
  <2> SUFFICES ASSUME WaiterInv, [WaiterNext]_waiterVars PROVE WaiterInv'
    OBVIOUS
  <2>0. WaiterTypes
    BY DEF WaiterInv
  <2>1. CASE UNCHANGED waiterVars
    BY <2>0, <2>1, FutureKept DEF waiterVars, registry, messageVars, WaiterTypes
  <2>2. ASSUME NEW m \in Messages, MessageStep(m) PROVE WaiterInv'
    BY <2>2, MessageMoves
  <2>3. ASSUME NEW w \in Waiters, NEW k \in DOMAIN holds[w], Timer(w, k) PROVE WaiterInv'
    <3>1. ASSUME Expire(w, k) PROVE WaiterInv'
      BY <2>0, <3>1, FutureKept DEF Expire, registry, messageVars, WaiterTypes
    <3>2. ASSUME HoldingEnds(w, k) PROVE WaiterInv'
      <4>1. UNCHANGED future \/ Stop(w, "error")
        BY <3>2 DEF HoldingEnds
      <4>2. /\ future' \in [Waiters -> {"pending", "result", "error"}]
            /\ \A v \in Waiters : future[v] # "pending" => future'[v] # "pending"
        BY <2>0, <4>1, StopFact DEF WaiterTypes
      <4> QED BY <3>2, <4>2, FutureKept DEF HoldingEnds, registry, messageVars
    <3> QED BY <2>3, <3>1, <3>2 DEF Timer
  <2> QED BY <2>1, <2>2, <2>3 DEF WaiterNext, Over
<1> QED BY WaiterInitial, <1>1, PTL DEF WaiterSpec

\* A waiter that never shared the session with another one is found by every
\* message until it is over (session_waiter.py:131, 146).
THEOREM Reachable == WaiterSpec => []AloneIsReachable
<1>1. WaiterInv => AloneIsReachable
  BY DEF WaiterInv
<1> QED BY <1>1, WaiterInvariance, PTL

\* A message that no handler saw is kept from the rest of the pipeline only if
\* the waiter it found was over (session_waiter.py:154, 158).
THEOREM DroppedAtEnd == WaiterSpec => []DroppedOnlyAtEnd
<1>1. WaiterInv => DroppedOnlyAtEnd
  BY DEF WaiterInv, KeptInv, DroppedOnlyAtEnd, Done
<1> QED BY <1>1, WaiterInvariance, PTL

----------------------------------------------------------------------------
(* The lock of a waiter, and the type invariant                            *)

\* Who waits for a lock is in its queue, and who handles a message has it.
TurnInv ==
    /\ holder \in [Waiters -> Messages \cup {NoMessage}]
    /\ queue \in [Waiters -> Seq(Messages)]
    /\ \A m \in Messages :
        /\ at[m] = "locking" =>
              \E i \in 1..Len(queue[serving[m]]) : queue[serving[m]][i] = m
        /\ at[m] \in {"handling", "nested"} => holder[serving[m]] = m

Periods == {"on", "released", "expired", "over"}

\* Before it is registered a waiter has no period and is found by no message.
PeriodInv ==
    /\ holds \in [Waiters -> Seq(Periods)]
    /\ \A w \in Waiters :
        /\ Len(holds[w]) <= MaxKeeps + 1
        /\ waiter[w] = "new" => holds[w] = <<>>
    /\ \A m \in Messages : serving[m] # NoWaiter => waiter[serving[m]] # "new"
    /\ pos \in [Messages -> Nat \ {0}]
    /\ met \subseteq Waiters

LEMMA NobodyFact == NoMessage \notin Messages
BY DEF NoMessage, Messages

\* Most steps leave the locks alone, and nobody begins to wait for one or to use it.
LEMMA TurnKept ==
    ASSUME WaiterInv, TurnInv, UNCHANGED <<holder, queue, serving>>,
           \A n \in Messages :
              /\ at'[n] = "locking" => at[n] = "locking"
              /\ at'[n] \in {"handling", "nested"} => at[n] \in {"handling", "nested"}
    PROVE  TurnInv' /\ UNCHANGED Lock!vars
<1>1. \A n \in Messages :
        /\ at'[n] = "locking" =>
              \E i \in 1..Len(queue[serving[n]]) : queue[serving[n]][i] = n
        /\ at'[n] \in {"handling", "nested"} => holder[serving[n]] = n
  BY DEF TurnInv
<1> QED BY <1>1 DEF TurnInv, Lock!vars

\* A message that has found a waiter takes its lock, or queues behind the others,
LEMMA FindTurn ==
    ASSUME WaiterInv, TurnInv, NEW m \in Messages, ScanFinds(m)
    PROVE  TurnInv' /\ [Lock!Next]_(Lock!vars)
<1>0. WaiterTypes
  BY DEF WaiterInv
<1>1. /\ at[m] = "scanning" /\ session \in Waiters
      /\ serving' = [serving EXCEPT ![m] = session]
  BY <1>0 DEF ScanFinds, WaiterTypes
<1>2. \A n \in Messages \ {m} : serving'[n] = serving[n]
  BY <1>0, <1>1 DEF WaiterTypes
<1>3. serving'[m] = session
  BY <1>0, <1>1 DEF WaiterTypes
<1>4. CASE Done(session)
  <2>1. UNCHANGED <<holder, queue, at>>
    BY <1>4 DEF ScanFinds, lockVars
  <2>2. ASSUME NEW n \in Messages
        PROVE  /\ at'[n] = "locking" =>
                     \E i \in 1..Len(queue'[serving'[n]]) : queue'[serving'[n]][i] = n
               /\ at'[n] \in {"handling", "nested"} => holder'[serving'[n]] = n
    BY <1>1, <1>2, <2>1 DEF TurnInv
  <2> QED BY <2>1, <2>2 DEF TurnInv, Lock!vars
<1>5. CASE ~Done(session)
  <2>1. Lock!Enter(m, session)
    BY <1>5 DEF ScanFinds, Trigger
  <2>2. at' = [at EXCEPT ![m] = IF holder'[session] = m THEN "handling" ELSE "locking"]
    BY <1>5 DEF ScanFinds, Trigger
  <2>3. /\ at'[m] = IF holder'[session] = m THEN "handling" ELSE "locking"
        /\ \A n \in Messages \ {m} : at'[n] = at[n]
    BY <1>0, <2>2 DEF WaiterTypes
  <2>4. Lock!Next
    BY <1>1, <2>1 DEF Lock!Next
  <2>5. CASE holder[session] = NoMessage /\ queue[session] = <<>>
    <3>1. holder' = [holder EXCEPT ![session] = m] /\ queue' = queue
      BY <2>1, <2>5 DEF Lock!Enter
    <3>2. /\ holder' \in [Waiters -> Messages \cup {NoMessage}] /\ holder'[session] = m
          /\ \A w \in Waiters : w # session => holder'[w] = holder[w]
      BY <1>1, <3>1 DEF TurnInv
    <3>3. ASSUME NEW n \in Messages
          PROVE  /\ at'[n] = "locking" =>
                       \E i \in 1..Len(queue'[serving'[n]]) : queue'[serving'[n]][i] = n
                 /\ at'[n] \in {"handling", "nested"} => holder'[serving'[n]] = n
      <4>1. CASE n = m
        BY <1>3, <2>3, <3>2, <4>1
      <4>2. CASE n # m
        <5>1. at'[n] = at[n] /\ serving'[n] = serving[n]
          BY <1>2, <2>3, <4>2
        <5>2. ASSUME at[n] \in {"handling", "nested"} PROVE holder'[serving[n]] = n
          <6>1. serving[n] \in Waiters
            BY <5>2 DEF WaiterInv, KeptInv
          <6>2. holder[serving[n]] = n
            BY <5>2 DEF TurnInv
          <6>3. serving[n] # session
            BY <2>5, <6>2, NobodyFact
          <6> QED BY <3>2, <6>1, <6>2, <6>3
        <5> QED BY <3>1, <5>1, <5>2 DEF TurnInv
      <4> QED BY <4>1, <4>2
    <3> QED BY <2>4, <3>1, <3>2, <3>3 DEF TurnInv
  <2>6. CASE ~(holder[session] = NoMessage /\ queue[session] = <<>>)
    <3>1. holder' = holder /\ queue' = [queue EXCEPT ![session] = Append(queue[session], m)]
      BY <2>1, <2>6 DEF Lock!Enter
    <3>2. /\ queue' \in [Waiters -> Seq(Messages)]
          /\ queue'[session] = Append(queue[session], m)
          /\ \A w \in Waiters : w # session => queue'[w] = queue[w]
      BY <1>1, <3>1 DEF TurnInv
    <3>3. /\ Len(queue'[session]) = Len(queue[session]) + 1 /\ Len(queue[session]) \in Nat
          /\ queue'[session][Len(queue[session]) + 1] = m
          /\ \A i \in 1..Len(queue[session]) : queue'[session][i] = queue[session][i]
      BY <1>1, <3>2 DEF TurnInv
    <3>4. ASSUME NEW n \in Messages
          PROVE  /\ at'[n] = "locking" =>
                       \E i \in 1..Len(queue'[serving'[n]]) : queue'[serving'[n]][i] = n
                 /\ at'[n] \in {"handling", "nested"} => holder'[serving'[n]] = n
      <4>1. CASE n = m
        <5>1. Len(queue[session]) + 1 \in 1..Len(queue'[session])
          BY <3>3
        <5> QED BY <1>3, <2>3, <3>3, <4>1, <5>1
      <4>2. CASE n # m
        <5>1. at'[n] = at[n] /\ serving'[n] = serving[n]
          BY <1>2, <2>3, <4>2
        <5>2. ASSUME at[n] = "locking"
              PROVE  \E i \in 1..Len(queue'[serving[n]]) : queue'[serving[n]][i] = n
          <6>1. serving[n] \in Waiters
            BY <5>2 DEF WaiterInv, KeptInv
          <6>2. PICK i \in 1..Len(queue[serving[n]]) : queue[serving[n]][i] = n
            BY <5>2 DEF TurnInv
          <6>3. CASE serving[n] = session
            <7>1. i \in 1..Len(queue'[session]) /\ queue'[session][i] = n
              BY <3>3, <6>2, <6>3
            <7> QED BY <6>3, <7>1
          <6>4. CASE serving[n] # session
            BY <3>2, <6>1, <6>2, <6>4
          <6> QED BY <6>3, <6>4
        <5> QED BY <3>1, <5>1, <5>2 DEF TurnInv
      <4> QED BY <4>1, <4>2
    <3> QED BY <2>4, <3>1, <3>2, <3>4 DEF TurnInv
  <2> QED BY <2>5, <2>6
<1> QED BY <1>4, <1>5

\* the first of them gets it when it is free, or gives it up,
LEMMA LockedTurn ==
    ASSUME WaiterInv, TurnInv, NEW m \in Messages, Locked(m)
    PROVE  TurnInv' /\ Lock!Next
<1>0. WaiterTypes
  BY DEF WaiterInv
<1> DEFINE w == serving[m]
<1>1. at[m] = "locking" /\ holder[w] = NoMessage /\ Head(queue[w]) = m /\ serving' = serving
  BY DEF Locked
<1>2. w \in Waiters
  BY <1>1 DEF WaiterInv, KeptInv
<1>3. queue[w] \in Seq(Messages) /\ queue[w] # <<>>
  <2>1. \E i \in 1..Len(queue[w]) : queue[w][i] = m
    BY <1>1 DEF TurnInv
  <2> QED BY <1>2, <2>1 DEF TurnInv
<1>4. /\ Lock!Grant(w) /\ at' = [at EXCEPT ![m] = "handling"]
      \/ /\ queue' = [queue EXCEPT ![w] = Tail(queue[w])] /\ holder' = holder
         /\ at' = [at EXCEPT ![m] = "scanning"]
  BY DEF Locked
<1> HIDE DEF w
<1>5. queue' = [queue EXCEPT ![w] = Tail(queue[w])]
  BY <1>1, <1>4 DEF Lock!Grant
<1>6. Lock!Next
  <2>1. CASE Lock!Grant(w)
    BY <1>2, <2>1 DEF Lock!Next
  <2>2. CASE holder' = holder
    <3>1. Tail(queue[w]) = RemoveAt(queue[w], 1) /\ 1 \in 1..Len(queue[w])
      <4>1. Len(queue[w]) \in Nat \ {0} /\ Tail(queue[w]) \in Seq(Messages)
        BY <1>3, TailFact
      <4>2. /\ RemoveAt(queue[w], 1) \in Seq(Messages)
            /\ Len(RemoveAt(queue[w], 1)) = Len(Tail(queue[w]))
            /\ \A j \in 1..Len(Tail(queue[w])) :
                  RemoveAt(queue[w], 1)[j] = Tail(queue[w])[j]
        BY <1>3, <4>1, TailFact, RemoveAtFact
      <4>3. Tail(queue[w]) = RemoveAt(queue[w], 1)
        BY <4>1, <4>2, SeqEqual
      <4> QED BY <4>1, <4>3
    <3>2. Lock!RemoveAt(queue[w], 1) = RemoveAt(queue[w], 1)
      BY Zenon DEF Lock!RemoveAt, RemoveAt
    <3>3. Lock!Cancel(w, 1)
      BY <1>5, <2>2, <3>1, <3>2 DEF Lock!Cancel
    <3> QED BY <1>2, <3>1, <3>3 DEF Lock!Next
  <2> QED BY <1>4, <2>1, <2>2
<1>7. /\ queue' \in [Waiters -> Seq(Messages)] /\ queue'[w] = Tail(queue[w])
      /\ \A v \in Waiters : v # w => queue'[v] = queue[v]
  BY <1>2, <1>3, <1>5 DEF TurnInv
<1>8. /\ Len(queue[w]) \in Nat /\ Len(queue'[w]) = Len(queue[w]) - 1 /\ queue[w][1] = m
      /\ \A i \in 1..Len(queue'[w]) : queue'[w][i] = queue[w][i + 1]
  BY <1>1, <1>3, <1>7
<1>9. \A n \in Messages \ {m} : at'[n] = at[n]
  BY <1>0, <1>4 DEF WaiterTypes
<1>10. /\ holder' \in [Waiters -> Messages \cup {NoMessage}]
       /\ \A v \in Waiters : v # w => holder'[v] = holder[v]
       /\ at'[m] = "handling" => holder'[w] = m
       /\ at'[m] \in {"scanning", "handling"}
  <2>1. CASE Lock!Grant(w) /\ at' = [at EXCEPT ![m] = "handling"]
    <3>1. holder' = [holder EXCEPT ![w] = m]
      BY <1>1, <2>1 DEF Lock!Grant
    <3> QED BY <1>0, <1>2, <2>1, <3>1 DEF TurnInv, WaiterTypes
  <2>2. CASE holder' = holder /\ at' = [at EXCEPT ![m] = "scanning"]
    BY <1>0, <2>2 DEF TurnInv, WaiterTypes
  <2> QED BY <1>4, <2>1, <2>2
<1>11. ASSUME NEW n \in Messages
       PROVE  /\ at'[n] = "locking" =>
                    \E i \in 1..Len(queue'[serving'[n]]) : queue'[serving'[n]][i] = n
              /\ at'[n] \in {"handling", "nested"} => holder'[serving'[n]] = n
  <2>1. CASE n = m
    BY <1>1, <1>10, <2>1 DEF w
  <2>2. CASE n # m
    <3>1. ASSUME at[n] = "locking"
          PROVE  \E i \in 1..Len(queue'[serving[n]]) : queue'[serving[n]][i] = n
      <4>1. serving[n] \in Waiters
        BY <3>1 DEF WaiterInv, KeptInv
      <4>2. PICK i \in 1..Len(queue[serving[n]]) : queue[serving[n]][i] = n
        BY <3>1 DEF TurnInv
      <4>3. CASE serving[n] = w
        <5>1. i # 1
          BY <1>8, <2>2, <4>2, <4>3
        <5>2. i - 1 \in 1..Len(queue'[w]) /\ queue'[w][i - 1] = n
          <6>1. i - 1 \in 1..Len(queue'[w]) /\ (i - 1) + 1 = i
            BY <1>8, <4>2, <4>3, <5>1
          <6> QED BY <1>8, <4>2, <4>3, <6>1
        <5> QED BY <4>3, <5>2
      <4>4. CASE serving[n] # w
        BY <1>7, <4>1, <4>2, <4>4
      <4> QED BY <4>3, <4>4
    <3>2. ASSUME at[n] \in {"handling", "nested"} PROVE holder'[serving[n]] = n
      <4>1. serving[n] \in Waiters /\ holder[serving[n]] = n
        BY <3>2 DEF WaiterInv, KeptInv, TurnInv
      <4>2. CASE holder' = holder
        BY <4>1, <4>2
      <4>3. CASE serving[n] # w
        BY <1>10, <4>1, <4>3
      <4>4. CASE serving[n] = w
        BY <1>1, <2>2, <4>1, <4>4, NobodyFact
      <4> QED BY <4>2, <4>3, <4>4
    <3> QED BY <1>1, <1>9, <2>2, <3>1, <3>2
  <2> QED BY <2>1, <2>2
<1> QED BY <1>6, <1>7, <1>10, <1>11 DEF TurnInv

\* and whoever has it gives it back.
LEMMA EndTurn ==
    ASSUME WaiterInv, TurnInv, NEW m \in Messages,
           HandlerEnds(m)
    PROVE  TurnInv' /\ Lock!Next
<1>0. WaiterTypes
  BY DEF WaiterInv
<1> DEFINE w == serving[m]
<1>1. /\ at[m] = "handling" /\ at' = [at EXCEPT ![m] = "scanning"] /\ Lock!Exit(w)
      /\ serving' = serving
  BY DEF HandlerEnds, MessageGoes, Return
<1>2. w \in Waiters /\ holder[w] = m
  BY <1>1 DEF WaiterInv, KeptInv, TurnInv
<1> HIDE DEF w
<1>3. holder' = [holder EXCEPT ![w] = NoMessage] /\ queue' = queue
  BY <1>1 DEF Lock!Exit
<1>4. Lock!Next
  BY <1>1, <1>2 DEF Lock!Next
<1>5. ASSUME NEW n \in Messages
      PROVE  /\ at'[n] = "locking" =>
                   \E i \in 1..Len(queue'[serving'[n]]) : queue'[serving'[n]][i] = n
             /\ at'[n] \in {"handling", "nested"} => holder'[serving'[n]] = n
  <2>1. CASE n = m
    BY <1>0, <1>1, <2>1 DEF WaiterTypes
  <2>2. CASE n # m
    <3>1. at'[n] = at[n]
      BY <1>0, <1>1, <2>2 DEF WaiterTypes
    <3>2. ASSUME at[n] \in {"handling", "nested"} PROVE holder'[serving[n]] = n
      <4>1. serving[n] \in Waiters /\ holder[serving[n]] = n
        BY <3>2 DEF WaiterInv, KeptInv, TurnInv
      <4>2. serving[n] # w
        BY <1>2, <2>2, <4>1
      <4> QED BY <1>3, <4>1, <4>2 DEF TurnInv
    <3> QED BY <1>1, <1>3, <3>1, <3>2 DEF TurnInv
  <2> QED BY <2>1, <2>2
<1>6. holder' \in [Waiters -> Messages \cup {NoMessage}]
  BY <1>3 DEF TurnInv
<1> QED BY <1>3, <1>4, <1>5, <1>6 DEF TurnInv

\* Every step is one of the locks, or leaves them alone, and keeps TurnInv.
LEMMA TurnStep ==
    ASSUME WaiterInv, TurnInv, [WaiterNext]_waiterVars
    PROVE  TurnInv' /\ [Lock!Next]_(Lock!vars)
<1>0. WaiterTypes
  BY DEF WaiterInv
<1>1. ASSUME NEW m \in Messages, MessageStep(m)
      PROVE  TurnInv' /\ [Lock!Next]_(Lock!vars)
  <2>1. ASSUME NEW to, at' = [at EXCEPT ![m] = to], to # "locking",
               to \in {"handling", "nested"} => at[m] \in {"handling", "nested"},
               UNCHANGED <<holder, queue, serving>>
        PROVE  TurnInv' /\ [Lock!Next]_(Lock!vars)
    <3>1. \A n \in Messages :
            /\ at'[n] = "locking" => at[n] = "locking"
            /\ at'[n] \in {"handling", "nested"} => at[n] \in {"handling", "nested"}
      BY <1>0, <2>1 DEF WaiterTypes
    <3> QED BY <2>1, <3>1, TurnKept
  <2>2. CASE Arrive(m)
    BY <2>1, <2>2 DEF Arrive, MessageGoes, lockVars
  <2>3. CASE ScanEnds(m)
    <3>1. PICK to \in {"done", "free"} : at' = [at EXCEPT ![m] = to]
      BY <2>3 DEF ScanEnds, MessageGoes
    <3> QED BY <2>1, <2>3, <3>1 DEF ScanEnds, lockVars
  <2>4. CASE MessageLeaves(m)
    BY <2>1, <2>4 DEF MessageLeaves, MessageGoes, lockVars
  <2>5. CASE ScanFinds(m)
    BY <2>5, FindTurn
  <2>6. CASE Locked(m)
    BY <2>6, LockedTurn
  <2>7. CASE HandlerEnds(m)
    BY <2>7, EndTurn
  <2>8. CASE HandlerKeeps(m)
    BY <2>8, TurnKept DEF HandlerKeeps, lockVars, messageVars
  <2>9. CASE HandlerStops(m)
    BY <2>9, TurnKept DEF HandlerStops, lockVars, messageVars
  <2>10. ASSUME NEW w \in Waiters, RegisterWait(m, w)
         PROVE  TurnInv' /\ [Lock!Next]_(Lock!vars)
    <3>1. UNCHANGED <<holder, queue, serving>>
      BY <2>10 DEF RegisterWait, lockVars
    <3>2. CASE MessageGoes(m, "free", "asking")
      BY <2>1, <3>1, <3>2 DEF MessageGoes
    <3>3. CASE MessageGoes(m, "handling", "nested")
      BY <2>1, <3>1, <3>3 DEF MessageGoes
    <3> QED BY <2>10, <3>2, <3>3 DEF RegisterWait
  <2>11. CASE Cleanup(m)
    <3>1. UNCHANGED <<holder, queue, serving>>
      BY <2>11 DEF Cleanup, lockVars
    <3>2. CASE MessageGoes(m, "asking", "free")
      BY <2>1, <3>1, <3>2 DEF MessageGoes
    <3>3. CASE MessageGoes(m, "nested", "handling")
      BY <2>1, <3>1, <3>3 DEF MessageGoes
    <3> QED BY <2>11, <3>2, <3>3 DEF Cleanup
  <2> QED BY <1>1, <2>2, <2>3, <2>4, <2>5, <2>6, <2>7, <2>8, <2>9, <2>10, <2>11
          DEF MessageStep
<1>2. CASE UNCHANGED <<holder, queue, serving, at>>
  BY <1>2, TurnKept
<1>3. ASSUME NEW w \in Waiters, NEW k \in DOMAIN holds[w], Timer(w, k)
      PROVE  UNCHANGED <<holder, queue, serving, at>>
  BY <1>3 DEF Timer, Expire, HoldingEnds, lockVars, messageVars
<1> QED BY <1>1, <1>2, <1>3 DEF WaiterNext, Over, waiterVars, lockVars, messageVars

LEMMA TurnInit == WaiterInit => TurnInv /\ Lock!Init
BY DEF WaiterInit, Lock!Init, TurnInv

\* keep() releases the periods so far and adds one.
LEMMA KeepFact ==
    ASSUME PeriodInv, NEW w \in Waiters, Keep(w)
    PROVE  /\ holds' \in [Waiters -> Seq(Periods)]
           /\ Len(holds'[w]) = Len(holds[w]) + 1 /\ Len(holds[w]) \in Nat
           /\ \A v \in Waiters : v # w => holds'[v] = holds[v]
<1> DEFINE s == holds[w]
           released == [k \in DOMAIN s |-> Release(s[k])]
<1>1. s \in Seq(Periods) /\ DOMAIN s = 1..Len(s) /\ Len(s) \in Nat
  BY DEF PeriodInv, Periods
<1>2. \A k \in DOMAIN s : Release(s[k]) \in Periods
  BY <1>1 DEF Release, Periods
<1>3. released \in Seq(Periods) /\ Len(released) = Len(s)
  BY <1>1, <1>2
<1>4. holds' = [holds EXCEPT ![w] = Append(released, "on")]
  BY DEF Keep
<1> HIDE DEF released
<1>5. Append(released, "on") \in Seq(Periods) /\ Len(Append(released, "on")) = Len(s) + 1
  BY <1>3 DEF Periods
<1> QED BY <1>1, <1>4, <1>5 DEF PeriodInv, Periods

\* A period that ends or is released is still one of its waiter's.
LEMMA TimerFact ==
    ASSUME PeriodInv, NEW w \in Waiters, NEW k \in DOMAIN holds[w], NEW p \in Periods,
           holds' = [holds EXCEPT ![w][k] = p]
    PROVE  /\ holds' \in [Waiters -> Seq(Periods)]
           /\ \A v \in Waiters : Len(holds'[v]) = Len(holds[v])
           /\ waiter[w] # "new"
<1> DEFINE s == holds[w]
<1>1. s \in Seq(Periods) /\ DOMAIN s = 1..Len(s) /\ Len(s) \in Nat
  BY DEF PeriodInv, Periods
<1>2. [s EXCEPT ![k] = p] \in Seq(Periods) /\ Len([s EXCEPT ![k] = p]) = Len(s)
  BY <1>1
<1>3. holds' = [holds EXCEPT ![w] = [s EXCEPT ![k] = p]]
  OBVIOUS
<1>4. s # <<>>
  BY <1>1
<1> HIDE DEF s
<1>5. holds \in [Waiters -> Seq(Periods)]
  BY DEF PeriodInv, Periods
<1>6. waiter[w] # "new"
  BY <1>4 DEF PeriodInv, s
<1>7. \A v \in Waiters : Len(holds'[v]) = Len(holds[v])
  BY <1>2, <1>3, <1>5 DEF s
<1> QED BY <1>2, <1>3, <1>5, <1>6, <1>7

\* Every step keeps PeriodInv.
LEMMA PeriodStep ==
    ASSUME WaiterInv, PeriodInv, [WaiterNext]_waiterVars
    PROVE  PeriodInv'
<1>0. WaiterTypes
  BY DEF WaiterInv
<1>1. CASE UNCHANGED <<holds, waiter, serving, pos, met>>
  BY <1>1 DEF PeriodInv
<1>2. ASSUME NEW m \in Messages, MessageStep(m) PROVE PeriodInv'
  <2>1. CASE Arrive(m)
    BY <1>1, <2>1 DEF Arrive, registry
  <2>2. CASE ScanEnds(m)
    BY <1>1, <2>2 DEF ScanEnds, registry
  <2>3. CASE MessageLeaves(m)
    BY <1>1, <2>3 DEF MessageLeaves, registry
  <2>4. CASE Locked(m)
    BY <1>1, <2>4 DEF Locked, registry
  <2>5. CASE HandlerStops(m)
    BY <1>1, <2>5 DEF HandlerStops, registry, messageVars
  <2>6. CASE HandlerEnds(m)
    BY <1>1, <2>6 DEF HandlerEnds, Return, registry
  <2>7. CASE ScanFinds(m)
    <3>1. /\ pos' = [pos EXCEPT ![m] = @ + 1] /\ serving' = [serving EXCEPT ![m] = session]
          /\ UNCHANGED <<waiter, met, holds>>
      BY <2>7 DEF ScanFinds, registry
    <3>2. waiter[session] # "new"
      BY <2>7 DEF ScanFinds, WaiterInv, RegistryInv, Waiting
    <3>3. \A n \in Messages : serving'[n] # NoWaiter => waiter[serving'[n]] # "new"
      BY <1>0, <3>1, <3>2 DEF PeriodInv, WaiterTypes
    <3>4. pos' \in [Messages -> Nat \ {0}]
      BY <3>1 DEF PeriodInv
    <3> QED BY <3>1, <3>3, <3>4 DEF PeriodInv
  <2>8. CASE HandlerKeeps(m)
    <3>1. /\ Len(holds[serving[m]]) <= MaxKeeps /\ Keep(serving[m])
          /\ serving[m] \in Waiters
          /\ UNCHANGED <<waiter, serving, pos, met>>
      BY <2>8 DEF HandlerKeeps, registry, messageVars, WaiterInv, KeptInv
    <3>2. waiter[serving[m]] # "new"
      <4>1. serving[m] # NoWaiter
        BY <3>1 DEF Waiters, NoWaiter
      <4> QED BY <4>1 DEF PeriodInv
    <3>3. /\ holds' \in [Waiters -> Seq(Periods)]
          /\ Len(holds'[serving[m]]) = Len(holds[serving[m]]) + 1
          /\ Len(holds[serving[m]]) \in Nat
          /\ \A v \in Waiters : v # serving[m] => holds'[v] = holds[v]
      BY <3>1, KeepFact
    <3>4. ASSUME NEW v \in Waiters PROVE Len(holds'[v]) <= MaxKeeps + 1
      <4>1. CASE v = serving[m]
        BY <3>1, <3>3, <4>1
      <4>2. CASE v # serving[m]
        BY <3>3, <4>2 DEF PeriodInv
      <4> QED BY <4>1, <4>2
    <3>5. \A v \in Waiters : waiter[v] = "new" => holds'[v] = <<>>
      BY <3>2, <3>3 DEF PeriodInv
    <3> QED BY <3>1, <3>3, <3>4, <3>5 DEF PeriodInv, Periods
  <2>9. ASSUME NEW w \in Waiters, RegisterWait(m, w) PROVE PeriodInv'
    <3>1. /\ Keep(w) /\ waiter[w] = "new" /\ waiter' = [waiter EXCEPT ![w] = "waiting"]
          /\ met' = IF Waiting = {} THEN met ELSE met \cup Waiting \cup {w}
          /\ UNCHANGED <<serving, pos>>
      BY <2>9 DEF RegisterWait
    <3>2. /\ holds' \in [Waiters -> Seq(Periods)]
          /\ Len(holds'[w]) = Len(holds[w]) + 1
          /\ \A v \in Waiters : v # w => holds'[v] = holds[v]
      BY <3>1, KeepFact
    <3>3. Len(holds[w]) = 0
      BY <3>1 DEF PeriodInv
    <3>4. ASSUME NEW v \in Waiters PROVE Len(holds'[v]) <= MaxKeeps + 1
      <4>1. CASE v = w
        <5>1. Len(holds'[w]) = 1
          BY <3>2, <3>3
        <5>2. 1 <= MaxKeeps + 1
          OBVIOUS
        <5> QED BY <4>1, <5>1, <5>2
      <4>2. CASE v # w
        BY <3>2, <4>2 DEF PeriodInv
      <4> QED BY <4>1, <4>2
    <3>5. waiter'[w] = "waiting" /\ \A v \in Waiters : v # w => waiter'[v] = waiter[v]
      BY <1>0, <3>1 DEF WaiterTypes
    <3>6. \A v \in Waiters : waiter'[v] = "new" => holds'[v] = <<>>
      BY <3>2, <3>5 DEF PeriodInv
    <3>7. \A n \in Messages : serving'[n] # NoWaiter => waiter'[serving'[n]] # "new"
      BY <1>0, <3>1, <3>5 DEF PeriodInv, WaiterTypes
    <3>8. met' \subseteq Waiters
      BY <3>1 DEF PeriodInv, Waiting
    <3> QED BY <3>1, <3>2, <3>4, <3>6, <3>7, <3>8 DEF PeriodInv, Periods
  <2>10. CASE Cleanup(m)
    <3>1. /\ waiter' = [waiter EXCEPT ![asking[m]] = "ended"]
          /\ UNCHANGED <<holds, serving, pos, met>>
      BY <2>10 DEF Cleanup
    <3>2. \A v \in Waiters : waiter'[v] = "new" => waiter[v] = "new"
      BY <1>0, <3>1 DEF WaiterTypes
    <3>3. \A n \in Messages : serving'[n] # NoWaiter => waiter'[serving'[n]] # "new"
      BY <1>0, <3>1, <3>2 DEF PeriodInv, WaiterTypes
    <3> QED BY <3>1, <3>2, <3>3 DEF PeriodInv
  <2> QED BY <1>2, <2>1, <2>2, <2>3, <2>4, <2>5, <2>6, <2>7, <2>8, <2>9, <2>10
          DEF MessageStep
<1>3. ASSUME NEW w \in Waiters, NEW k \in DOMAIN holds[w], Timer(w, k)
      PROVE  PeriodInv'
  <2>1. UNCHANGED <<waiter, serving, pos, met>>
    BY <1>3 DEF Timer, Expire, HoldingEnds, registry, messageVars
  <2>2. PICK p \in Periods : holds' = [holds EXCEPT ![w][k] = p]
    BY <1>3 DEF Timer, Expire, HoldingEnds, Periods
  <2>3. /\ holds' \in [Waiters -> Seq(Periods)]
        /\ \A v \in Waiters : Len(holds'[v]) = Len(holds[v])
        /\ waiter[w] # "new"
    BY <2>2, TimerFact
  <2>4. \A v \in Waiters : v # w => holds'[v] = holds[v]
    BY <2>2 DEF PeriodInv
  <2> QED BY <2>1, <2>3, <2>4 DEF PeriodInv, Periods
<1> QED BY <1>1, <1>2, <1>3 DEF WaiterNext, Over, waiterVars, registry, messageVars

LEMMA PeriodInit ==
    ASSUME WaiterInit
    PROVE  PeriodInv
<1>1. Len(<<>>) <= MaxKeeps + 1
  OBVIOUS
<1> QED BY <1>1 DEF WaiterInit, PeriodInv

\* Type correctness of SessionWaiter, for any number of messages, waiters and periods.
THEOREM WaiterTypesHold == WaiterSpec => []WaiterTypeOK
<1>1. WaiterInv /\ TurnInv /\ PeriodInv => WaiterTypeOK
  <2> SUFFICES ASSUME WaiterInv, TurnInv, PeriodInv PROVE WaiterTypeOK
    OBVIOUS
  <2>1. IsInjective(filters)
    BY DEF WaiterInv, WaiterTypes, RegistryInv, IsInjective
  <2> QED BY <2>1 DEF WaiterInv, WaiterTypes, TurnInv, PeriodInv, Periods, WaiterTypeOK
<1>2. WaiterInit => TurnInv /\ PeriodInv
  BY TurnInit, PeriodInit
<1>3. WaiterInv /\ TurnInv /\ PeriodInv /\ [WaiterNext]_waiterVars => TurnInv' /\ PeriodInv'
  BY TurnStep, PeriodStep
<1> QED BY <1>1, <1>2, <1>3, WaiterInvariance, PTL DEF WaiterSpec

\* One handler of a waiter at a time: two messages are never both with it, whatever
\* ends in the meantime ("a session must have only one trigger at a time",
\* session_waiter.py:122, which is true of each waiter).
THEOREM OneHandlerEach == WaiterSpec => [](\A m, n \in Messages :
               at[m] \in {"handling", "nested"} /\ at[n] \in {"handling", "nested"}
               /\ serving[m] = serving[n] => m = n)
<1>1. TurnInv => \A m, n \in Messages :
               at[m] \in {"handling", "nested"} /\ at[n] \in {"handling", "nested"}
               /\ serving[m] = serving[n] => m = n
  BY DEF TurnInv
<1>2. WaiterInv /\ TurnInv /\ [WaiterNext]_waiterVars => TurnInv'
  BY TurnStep
<1> QED BY <1>1, <1>2, TurnInit, WaiterInvariance, PTL DEF WaiterSpec

\* The locks of the waiters are taken, left and given up the way FifoLock says
\* (session_waiter.py:119-128).
THEOREM WaiterTakesLocks == WaiterSpec => Lock!Spec
<1>1. WaiterInv /\ TurnInv /\ [WaiterNext]_waiterVars => TurnInv' /\ [Lock!Next]_(Lock!vars)
  BY TurnStep
<1> QED BY <1>1, TurnInit, WaiterInvariance, PTL DEF WaiterSpec, Lock!Spec

----------------------------------------------------------------------------
(* A period is always running                                              *)

LastPeriod(w) == holds[w][Len(holds[w])]

\* The period a waiter began last is not released: keep() releases the others,
\* and when it has expired its task ends the session as it ends itself.
Timed(w) ==
    Done(w) \/ (holds[w] # <<>> /\ LastPeriod(w) \in {"on", "expired"})

\* Somebody waits for every waiter that is registered.
Asked(w) == \E m \in Messages : at[m] \in {"asking", "nested"} /\ asking[m] = w

TimedInv == \A w \in Waiters : waiter[w] # "new" => Timed(w)
AskedInv == \A w \in Waiting : Asked(w)

\* keep() begins a period.
LEMMA KeepTimed ==
    ASSUME PeriodInv, NEW w \in Waiters, Keep(w)
    PROVE  holds'[w] # <<>> /\ LastPeriod(w)' = "on"
<1> DEFINE s == holds[w]
           released == [k \in DOMAIN s |-> Release(s[k])]
<1>1. s \in Seq(Periods) /\ DOMAIN s = 1..Len(s) /\ Len(s) \in Nat
  BY DEF PeriodInv, Periods
<1>2. \A k \in DOMAIN s : Release(s[k]) \in Periods
  BY <1>1 DEF Release, Periods
<1>3. released \in Seq(Periods)
  BY <1>1, <1>2
<1>4. holds'[w] = Append(released, "on")
  BY DEF Keep, PeriodInv
<1> HIDE DEF released
<1>5. LET t == Append(released, "on") IN t # <<>> /\ t[Len(t)] = "on"
  BY <1>3
<1> QED BY <1>4, <1>5 DEF LastPeriod

\* A timer that fires or ends is no reason to wait for ever.
LEMMA TimerTimed ==
    ASSUME WaiterTypes, PeriodInv, TimedInv,
           NEW w \in Waiters, NEW k \in DOMAIN holds[w], Timer(w, k)
    PROVE  TimedInv'
<1>1. PICK p \in Periods : holds' = [holds EXCEPT ![w][k] = p]
  BY DEF Timer, Expire, HoldingEnds, Periods
<1>2. /\ \A v \in Waiters : Len(holds'[v]) = Len(holds[v])
      /\ holds' \in [Waiters -> Seq(Periods)]
  BY <1>1, TimerFact
<1>3. \A v \in Waiters : future[v] # "pending" => future'[v] # "pending"
  BY StopFact DEF Timer, Expire, HoldingEnds
<1>4. UNCHANGED waiter
  BY DEF Timer, Expire, HoldingEnds, registry
<1>5. /\ holds \in [Waiters -> Seq(Periods)] /\ DOMAIN holds[w] = 1..Len(holds[w])
      /\ Len(holds[w]) \in Nat
  BY DEF PeriodInv, Periods
<1> SUFFICES ASSUME NEW v \in Waiters, waiter[v] # "new", ~Done(v)' PROVE Timed(v)'
  BY <1>4 DEF TimedInv, Timed
<1>6. ~Done(v) /\ holds[v] # <<>> /\ LastPeriod(v) \in {"on", "expired"}
  BY <1>3 DEF TimedInv, Timed, Done
<1>7. holds'[v] # <<>>
  <2>1. Len(holds[v]) # 0 /\ Len(holds'[v]) # 0
    BY <1>2, <1>5, <1>6, EmptyQueue
  <2> QED BY <2>1
<1>8. CASE v # w \/ k # Len(holds[w])
  <2>1. holds'[v][Len(holds[v])] = holds[v][Len(holds[v])]
    BY <1>1, <1>5, <1>8
  <2> QED BY <1>2, <1>6, <1>7, <2>1 DEF Timed, LastPeriod
<1>9. CASE v = w /\ k = Len(holds[w])
  <2>1. CASE Expire(w, k)
    <3>1. holds'[w][k] = "expired"
      BY <1>5, <2>1 DEF Expire
    <3> QED BY <1>2, <1>7, <1>9, <3>1 DEF Timed, LastPeriod
  <2>2. CASE HoldingEnds(w, k)
    <3>1. holds[w][k] = "expired"
      BY <1>6, <1>9, <2>2 DEF HoldingEnds, LastPeriod
    <3>2. future'[w] # "pending"
      BY <2>2, <3>1 DEF HoldingEnds, Stop, Done, WaiterTypes
    <3> QED BY <1>9, <3>2 DEF Timed, Done
  <2> QED BY <2>1, <2>2 DEF Timer
<1> QED BY <1>8, <1>9

LEMMA TimedStep ==
    ASSUME WaiterInv, PeriodInv, TimedInv, [WaiterNext]_waiterVars
    PROVE  TimedInv'
<1>0. WaiterTypes
  BY DEF WaiterInv
<1>1. ASSUME UNCHANGED <<holds, waiter>>,
             \A v \in Waiters : future[v] # "pending" => future'[v] # "pending"
      PROVE  TimedInv'
  BY <1>1 DEF TimedInv, Timed, LastPeriod, Done
<1>2. ASSUME NEW m \in Messages, MessageStep(m) PROVE TimedInv'
  <2>0. at[m] = "handling" => serving[m] \in Waiters
    BY DEF WaiterInv, KeptInv
  <2>1. CASE Arrive(m) \/ ScanEnds(m) \/ ScanFinds(m) \/ MessageLeaves(m) \/ Locked(m)
    BY <1>1, <2>1 DEF Arrive, ScanEnds, ScanFinds, MessageLeaves, Locked, registry
  <2>2. CASE HandlerStops(m)
    <3>1. PICK outcome \in {"result", "error"} : Stop(serving[m], outcome)
      BY <2>2 DEF HandlerStops
    <3>2. serving[m] \in Waiters
      BY <2>0, <2>2 DEF HandlerStops
    <3>3. \A v \in Waiters : future[v] # "pending" => future'[v] # "pending"
      BY <1>0, <3>1, <3>2, StopFact
    <3> QED BY <1>1, <2>2, <3>3 DEF HandlerStops, registry
  <2>3. CASE HandlerEnds(m)
    <3>1. serving[m] \in Waiters
      BY <2>0, <2>3 DEF HandlerEnds, MessageGoes
    <3>2. UNCHANGED future \/ Stop(serving[m], "error")
      BY <2>3 DEF HandlerEnds, Return
    <3>3. \A v \in Waiters : future[v] # "pending" => future'[v] # "pending"
      BY <1>0, <3>1, <3>2, StopFact
    <3> QED BY <1>1, <2>3, <3>3 DEF HandlerEnds, Return, registry
  <2>4. CASE HandlerKeeps(m)
    <3>1. PICK w \in Waiters : Keep(w) /\ UNCHANGED <<waiter, future>>
      BY <2>0, <2>4 DEF HandlerKeeps, registry
    <3>2. /\ holds'[w] # <<>> /\ LastPeriod(w)' = "on"
          /\ \A v \in Waiters : v # w => holds'[v] = holds[v]
      BY <3>1, KeepFact, KeepTimed
    <3> QED BY <3>1, <3>2 DEF TimedInv, Timed, LastPeriod, Done
  <2>5. ASSUME NEW w \in Waiters, RegisterWait(m, w) PROVE TimedInv'
    <3>1. /\ Keep(w) /\ waiter' = [waiter EXCEPT ![w] = "waiting"] /\ UNCHANGED future
      BY <2>5 DEF RegisterWait
    <3>2. /\ holds'[w] # <<>> /\ LastPeriod(w)' = "on"
          /\ \A v \in Waiters : v # w => holds'[v] = holds[v]
      BY <3>1, KeepFact, KeepTimed
    <3> QED BY <1>0, <3>1, <3>2 DEF TimedInv, Timed, LastPeriod, Done, WaiterTypes
  <2>6. CASE Cleanup(m)
    <3>1. /\ waiter' = [waiter EXCEPT ![asking[m]] = "ended"]
          /\ UNCHANGED <<holds, future>>
          /\ Done(asking[m])
      BY <2>6 DEF Cleanup
    <3> QED BY <1>0, <3>1 DEF TimedInv, Timed, LastPeriod, Done, WaiterTypes
  <2> QED BY <1>2, <2>1, <2>2, <2>3, <2>4, <2>5, <2>6 DEF MessageStep
<1>3. ASSUME NEW w \in Waiters, NEW k \in DOMAIN holds[w], Timer(w, k) PROVE TimedInv'
  BY <1>0, <1>3, TimerTimed
<1>4. CASE Over \/ UNCHANGED waiterVars
  BY <1>1, <1>4 DEF Over, waiterVars, registry
<1> QED BY <1>2, <1>3, <1>4 DEF WaiterNext

LEMMA AskedStep ==
    ASSUME WaiterInv, AskedInv, [WaiterNext]_waiterVars
    PROVE  AskedInv'
<1>0. WaiterTypes
  BY DEF WaiterInv
<1>1. ASSUME UNCHANGED <<waiter, asking>>,
             \A m \in Messages :
                at[m] \in {"asking", "nested"} => at'[m] \in {"asking", "nested"}
      PROVE  AskedInv'
  BY <1>1 DEF AskedInv, Asked, Waiting
<1>2. ASSUME NEW m \in Messages, MessageStep(m) PROVE AskedInv'
  <2>1. CASE Arrive(m) \/ ScanEnds(m) \/ MessageLeaves(m) \/ HandlerEnds(m)
    <3>1. /\ UNCHANGED <<waiter, asking>>
          /\ at[m] \notin {"asking", "nested"}
          /\ \A n \in Messages : n # m => at'[n] = at[n]
      BY <1>0, <2>1 DEF Arrive, ScanEnds, MessageLeaves, HandlerEnds, Return, MessageGoes,
         registry, WaiterTypes
    <3> QED BY <1>1, <3>1
  <2>2. CASE ScanFinds(m)
    <3>1. /\ UNCHANGED <<waiter, asking>>
          /\ at[m] \notin {"asking", "nested"}
          /\ \A n \in Messages : n # m => at'[n] = at[n]
      BY <1>0, <2>2 DEF ScanFinds, Trigger, registry, WaiterTypes
    <3> QED BY <1>1, <3>1
  <2>3. CASE Locked(m)
    <3>1. /\ UNCHANGED <<waiter, asking>>
          /\ at[m] \notin {"asking", "nested"}
          /\ \A n \in Messages : n # m => at'[n] = at[n]
      BY <1>0, <2>3 DEF Locked, registry, WaiterTypes
    <3> QED BY <1>1, <3>1
  <2>4. CASE HandlerKeeps(m) \/ HandlerStops(m)
    BY <1>1, <2>4 DEF HandlerKeeps, HandlerStops, registry, messageVars
  <2>5. ASSUME NEW w \in Waiters, RegisterWait(m, w) PROVE AskedInv'
    <3>1. /\ at'[m] \in {"asking", "nested"} /\ asking'[m] = w
          /\ at[m] \notin {"asking", "nested"}
          /\ \A n \in Messages : n # m => at'[n] = at[n] /\ asking'[n] = asking[n]
      BY <1>0, <2>5 DEF RegisterWait, MessageGoes, WaiterTypes
    <3>2. \A v \in Waiting' : v = w \/ v \in Waiting
      BY <1>0, <2>5 DEF RegisterWait, Waiting, WaiterTypes
    <3> QED BY <3>1, <3>2 DEF AskedInv, Asked
  <2>6. CASE Cleanup(m)
    <3>1. \A n \in Messages : n # m => at'[n] = at[n] /\ asking'[n] = asking[n]
      BY <1>0, <2>6 DEF Cleanup, MessageGoes, WaiterTypes
    <3>2. \A v \in Waiting' : v \in Waiting /\ v # asking[m]
      BY <1>0, <2>6 DEF Cleanup, Waiting, WaiterTypes
    <3> QED BY <3>1, <3>2 DEF AskedInv, Asked
  <2> QED BY <1>2, <2>1, <2>2, <2>3, <2>4, <2>5, <2>6 DEF MessageStep
<1>3. ASSUME NEW w \in Waiters, NEW k \in DOMAIN holds[w], Timer(w, k) PROVE AskedInv'
  BY <1>1, <1>3 DEF Timer, Expire, HoldingEnds, registry, messageVars
<1>4. CASE Over \/ UNCHANGED waiterVars
  BY <1>1, <1>4 DEF Over, waiterVars, registry, messageVars
<1> QED BY <1>2, <1>3, <1>4 DEF WaiterNext

\* For every waiter that is registered somebody waits, and until it is over a
\* period of it is running or has run out, which will end it: keep() releases no
\* period but those before the one it begins (session_waiter.py:65, 74).
THEOREM AlwaysTimed == WaiterSpec => [](\A w \in Waiting :
               /\ \E m \in Messages : at[m] \in {"asking", "nested"} /\ asking[m] = w
               /\ Done(w) \/ (holds[w] # <<>> /\ LastPeriod(w) \in {"on", "expired"}))
<1>1. TimedInv /\ AskedInv => \A w \in Waiting :
               /\ \E m \in Messages : at[m] \in {"asking", "nested"} /\ asking[m] = w
               /\ Done(w) \/ (holds[w] # <<>> /\ LastPeriod(w) \in {"on", "expired"})
  BY DEF TimedInv, AskedInv, Asked, Timed, Waiting
<1>2. WaiterInit => PeriodInv /\ TimedInv /\ AskedInv
  BY PeriodInit DEF WaiterInit, TimedInv, AskedInv, Waiting
<1>3. WaiterInv /\ PeriodInv /\ TimedInv /\ AskedInv /\ [WaiterNext]_waiterVars
         => PeriodInv' /\ TimedInv' /\ AskedInv'
  BY PeriodStep, TimedStep, AskedStep
<1> QED BY <1>1, <1>2, <1>3, WaiterInvariance, PTL DEF WaiterSpec
=============================================================================
