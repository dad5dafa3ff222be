------------------------------ MODULE FifoLock ------------------------------
(***************************************************************************)
(* One first-come, first-served lock per key, always there. This is what   *)
(* the users of session_lock_manager rely on; SessionLock implements it.   *)
(***************************************************************************)
EXTENDS Integers, Sequences, SequencesExt

CONSTANTS Tasks, Keys, NoTask

VARIABLES
    holder,         \* the task that holds the lock of each key
    queue           \* the tasks that wait for it

vars == <<holder, queue>>

Init ==
    /\ holder = [k \in Keys |-> NoTask]
    /\ queue = [k \in Keys |-> <<>>]

\* Nobody passes a task that waits already.
Enter(t, k) ==
    IF holder[k] = NoTask /\ queue[k] = <<>>
    THEN /\ holder' = [holder EXCEPT ![k] = t]
         /\ UNCHANGED queue
    ELSE /\ queue' = [queue EXCEPT ![k] = Append(queue[k], t)]
         /\ UNCHANGED holder

Grant(k) ==
    /\ holder[k] = NoTask
    /\ queue[k] # <<>>
    /\ holder' = [holder EXCEPT ![k] = Head(queue[k])]
    /\ queue' = [queue EXCEPT ![k] = Tail(queue[k])]

Exit(k) ==
    /\ holder[k] # NoTask
    /\ holder' = [holder EXCEPT ![k] = NoTask]
    /\ UNCHANGED queue

\* A waiting task gives up.
Cancel(k, i) ==
    /\ queue' = [queue EXCEPT ![k] = RemoveAt(queue[k], i)]
    /\ UNCHANGED holder

Next ==
    \E k \in Keys :
        \/ \E t \in Tasks : Enter(t, k)
        \/ Grant(k)
        \/ Exit(k)
        \/ \E i \in 1..Len(queue[k]) : Cancel(k, i)

Spec == Init /\ [][Next]_vars
=============================================================================
