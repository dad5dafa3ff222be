------------------------- MODULE WebChatQueuesProofs -------------------------
(***************************************************************************)
(* Order and late messages in WebChatQueues, for any number of messages,   *)
(* queues and any size. Inv says where a message that was put can be: ahead*)
(* of its queue's content are the one in its listener's hand and those     *)
(* handled, in the order in which they were put; and that the manager      *)
(* knows, has cancelled or has lost every listener still at work.          *)
(***************************************************************************)
EXTENDS WebChatQueues, WebChatRun, SequenceTheorems, TLAPS

Active(q) == task[q] \in {"starting", "waiting", "took", "calling"}
Holds(q) == task[q] \in {"took", "calling"}
In(x, seq) == \E i \in DOMAIN seq : seq[i] = x

\* Only the last queue can be open.
QueueInv ==
    /\ queue # None => queue = made
    /\ \A q \in 1..made : q # queue => q \in closed
    /\ closeEvent \in {queue, None}
    /\ closeEvent = None /\ queue # None => queue \in closed

\* Each listener at work is the registered one, or cancelled, or lost.
TaskInv ==
    /\ registered \in {queue, None}
    /\ \A q \in Queues : q > made => task[q] = "none" /\ content[q] = <<>>
    /\ adapter = "new" => registered = None /\ \A q \in Queues : task[q] = "none"
    /\ adapter \in {"clearing", "off"} => registered \in cancelled \cup {None}
    /\ \A q \in Queues : Active(q) => q \in cancelled \cup forgotten \/ registered = q

SentInv ==
    /\ IsInjective(sent)
    /\ \A m \in Messages : In(m, sent) => sender[m] = "done"
    /\ \A m \in Messages : sender[m] # "idle" => target[m] \in 1..made

\* A queue's content was put into it, in this order.
ContentInv ==
    \A q \in Queues :
        /\ \A m \in Messages : In(m, content[q]) => In(m, sent) /\ target[m] = q
        /\ \A m, n \in Messages : Before(m, n, content[q]) => Before(m, n, sent)

HandInv ==
    \A q \in Queues : Holds(q) =>
        /\ In(hand[q], sent) /\ target[hand[q]] = q
        /\ \A m \in Messages : In(m, content[q]) => Before(hand[q], m, sent)

HandledInv ==
    \A m \in Messages : In(m, handled) =>
        /\ In(m, sent)
        /\ \A q \in Queues : target[m] = q =>
            /\ Holds(q) => Before(m, hand[q], sent)
            /\ \A n \in Messages : In(n, content[q]) => Before(m, n, sent)

\* What was taken off a queue was put before anything was put into a later one.
TakenInv ==
    \A n \in Messages : In(n, sent) =>
        /\ \A m \in Messages : In(m, handled) /\ target[m] < target[n] => Before(m, n, sent)
        /\ \A q \in Queues : Holds(q) /\ q < target[n] => Before(hand[q], n, sent)

HandledInOrder ==
    /\ IsInjective(handled)
    /\ \A m, n \in Messages :
        Before(m, n, handled) => Before(m, n, sent) \/ target[n] \in forgotten

LateInv == \A q \in Queues : late[q] > 0 => late[q] = 1 /\ q \in closed /\ ~Holds(q)

Control == QueueInv /\ TaskInv
Data == /\ SentInv /\ ContentInv /\ HandInv /\ HandledInv /\ TakenInv /\ HandledInOrder
Inv == TypeOK /\ Control /\ Data /\ LateInv

USE WebChatQueuesAssumption

----------------------------------------------------------------------------
(* Members of sequences, and their order                                   *)

LEMMA DomainFact ==
    ASSUME NEW S, NEW s \in Seq(S)
    PROVE  DOMAIN s = 1..Len(s) /\ Len(s) \in Nat
OBVIOUS

\* Elements of a sequence and their order, as the sequence grows and shrinks.
LEMMA InFact ==
    ASSUME NEW S, NEW s \in Seq(S), NEW x, In(x, s)
    PROVE  x \in S
BY DEF In

LEMMA BeforeIn ==
    ASSUME NEW s, NEW x, NEW y, Before(x, y, s)
    PROVE  In(x, s) /\ In(y, s)
BY DEF Before, In

LEMMA InAppend ==
    ASSUME NEW S, NEW s \in Seq(S), NEW z \in S, NEW x
    PROVE  In(x, Append(s, z)) <=> In(x, s) \/ x = z
<1>1. /\ Append(s, z) \in Seq(S) /\ Len(Append(s, z)) = Len(s) + 1
      /\ \A i \in 1..Len(s) : Append(s, z)[i] = s[i]
      /\ Append(s, z)[Len(s) + 1] = z
  OBVIOUS
<1>2. DOMAIN s = 1..Len(s) /\ DOMAIN Append(s, z) = 1..(Len(s) + 1) /\ Len(s) \in Nat
  BY <1>1
<1> QED BY <1>1, <1>2 DEF In

LEMMA BeforeAppend ==
    ASSUME NEW S, NEW s \in Seq(S), NEW z \in S, NEW x, NEW y
    PROVE  Before(x, y, Append(s, z)) <=> Before(x, y, s) \/ (In(x, s) /\ y = z)
<1>1. /\ Append(s, z) \in Seq(S) /\ Len(Append(s, z)) = Len(s) + 1
      /\ \A i \in 1..Len(s) : Append(s, z)[i] = s[i]
      /\ Append(s, z)[Len(s) + 1] = z
  OBVIOUS
<1>2. DOMAIN s = 1..Len(s) /\ DOMAIN Append(s, z) = 1..(Len(s) + 1) /\ Len(s) \in Nat
  BY <1>1
<1>3. ASSUME Before(x, y, Append(s, z))
      PROVE  Before(x, y, s) \/ (In(x, s) /\ y = z)
  <2>1. PICK i, j \in 1..(Len(s) + 1) :
          i < j /\ Append(s, z)[i] = x /\ Append(s, z)[j] = y
    BY <1>2, <1>3 DEF Before
  <2>2. i \in 1..Len(s) /\ s[i] = x
    BY <1>1, <1>2, <2>1
  <2>3. CASE j = Len(s) + 1
    BY <1>1, <1>2, <2>1, <2>2, <2>3 DEF In
  <2>4. CASE j # Len(s) + 1
    <3>1. j \in 1..Len(s) /\ s[j] = y
      BY <1>1, <1>2, <2>1, <2>4
    <3> QED BY <1>2, <2>1, <2>2, <3>1 DEF Before
  <2> QED BY <2>3, <2>4
<1>4. Before(x, y, s) => Before(x, y, Append(s, z))
  BY <1>1, <1>2 DEF Before
<1>5. In(x, s) /\ y = z => Before(x, y, Append(s, z))
  BY <1>1, <1>2 DEF Before, In
<1> QED BY <1>3, <1>4, <1>5

LEMMA InjectiveAppend ==
    ASSUME NEW S, NEW s \in Seq(S), NEW z \in S, IsInjective(s), ~In(z, s)
    PROVE  IsInjective(Append(s, z))
<1>1. /\ Append(s, z) \in Seq(S) /\ Len(Append(s, z)) = Len(s) + 1
      /\ \A i \in 1..Len(s) : Append(s, z)[i] = s[i]
      /\ Append(s, z)[Len(s) + 1] = z
  OBVIOUS
<1>2. DOMAIN s = 1..Len(s) /\ DOMAIN Append(s, z) = 1..(Len(s) + 1) /\ Len(s) \in Nat
  BY <1>1
<1> QED BY <1>1, <1>2 DEF IsInjective, In

\* In a sequence without repetitions nothing comes before itself.
LEMMA NotBeforeItself ==
    ASSUME NEW S, NEW s \in Seq(S), NEW x, IsInjective(s)
    PROVE  ~Before(x, x, s)
BY DEF IsInjective, Before

\* Taking the first leaves the others in order behind it.
LEMMA TailFact ==
    ASSUME NEW S, NEW s \in Seq(S), s # <<>>
    PROVE  /\ Head(s) \in S /\ In(Head(s), s)
           /\ Tail(s) \in Seq(S) /\ Len(Tail(s)) = Len(s) - 1
           /\ \A x : In(x, Tail(s)) => In(x, s) /\ Before(Head(s), x, s)
           /\ \A x, y : Before(x, y, Tail(s)) => Before(x, y, s)
<1>1. /\ Tail(s) \in Seq(S) /\ Len(Tail(s)) = Len(s) - 1 /\ Len(s) \in Nat \ {0}
      /\ \A i \in 1..(Len(s) - 1) : Tail(s)[i] = s[i + 1]
      /\ Head(s) \in S /\ Head(s) = s[1]
  OBVIOUS
<1>2. DOMAIN s = 1..Len(s) /\ DOMAIN Tail(s) = 1..(Len(s) - 1)
  BY <1>1
<1>3. In(Head(s), s)
  BY <1>1, <1>2 DEF In
<1>4. ASSUME NEW x, In(x, Tail(s)) PROVE In(x, s) /\ Before(Head(s), x, s)
  <2>1. PICK i \in 1..(Len(s) - 1) : Tail(s)[i] = x
    BY <1>2, <1>4 DEF In
  <2>2. i + 1 \in 1..Len(s) /\ s[i + 1] = x /\ 1 < i + 1 /\ 1 \in 1..Len(s)
    BY <1>1, <2>1
  <2> QED BY <1>1, <1>2, <2>2 DEF In, Before
<1>5. ASSUME NEW x, NEW y, Before(x, y, Tail(s)) PROVE Before(x, y, s)
  <2>1. PICK i, j \in 1..(Len(s) - 1) : i < j /\ Tail(s)[i] = x /\ Tail(s)[j] = y
    BY <1>2, <1>5 DEF Before
  <2>2. i + 1 \in 1..Len(s) /\ j + 1 \in 1..Len(s) /\ i + 1 < j + 1
        /\ s[i + 1] = x /\ s[j + 1] = y
    BY <1>1, <2>1
  <2> QED BY <1>2, <2>2 DEF Before
<1> QED BY <1>1, <1>3, <1>4, <1>5

LEMMA EmptyFact ==
    ASSUME NEW x, NEW y
    PROVE  ~In(x, <<>>) /\ ~Before(x, y, <<>>) /\ IsInjective(<<>>)
BY DEF In, Before, IsInjective

----------------------------------------------------------------------------
(* Types                                                                   *)

LEMMA InitInv == Init => Inv
<1> SUFFICES ASSUME Init PROVE Inv
  OBVIOUS
<1>1. TypeOK
  BY DEF Init, TypeOK, Queues, None
<1>2. Control
  BY DEF Init, Control, QueueInv, TaskInv, Queues, None, Active
<1>3. Data
  BY EmptyFact DEF Init, Data, SentInv, ContentInv, HandInv, HandledInv, TakenInv,
     HandledInOrder, Queues, None, Holds
<1>4. LateInv
  BY DEF Init, LateInv, Queues
<1> QED BY <1>1, <1>2, <1>3, <1>4 DEF Inv

\* A new queue is one of Queues, and its number is used once.
LEMMA SendQueue ==
    ASSUME TypeOK, QueueInv, GetOrCreate
    PROVE  /\ queue' \in 1..made' /\ queue' = made' /\ made' \in 0..MaxQueues /\ made <= made'
           /\ made' \in Queues /\ queue' \in Queues
           /\ queue # None => queue' = queue /\ made' = made
<1>1. CASE queue # None
  <2>1. queue = made /\ made' = made /\ queue' = queue
    BY <1>1 DEF QueueInv, GetOrCreate, managerVars
  <2> QED BY <1>1, <2>1 DEF TypeOK, Queues, None
<1>2. CASE queue = None
  <2>1. made < MaxQueues /\ made' = made + 1 /\ queue' = made + 1
    BY <1>2 DEF GetOrCreate
  <2> QED BY <1>2, <2>1 DEF TypeOK, Queues, None
<1> QED BY <1>1, <1>2

\* What a put and a listener's step leave of the right type.
LEMMA PutTypes ==
    ASSUME TypeOK, NEW m \in Messages, NEW q \in Queues, Put(m, q)
    PROVE  /\ content' \in [Queues -> Seq(Messages)]
           /\ \A p \in Queues : Len(content'[p]) <= Maxsize
           /\ sender' \in [Messages -> {"idle", "blocked", "done"}]
           /\ sent' \in Seq(Messages)
<1>1. content[q] \in Seq(Messages) /\ Len(Append(content[q], m)) = Len(content[q]) + 1
      /\ Append(content[q], m) \in Seq(Messages) /\ Append(sent, m) \in Seq(Messages)
  BY DEF TypeOK
<1>2. CASE Len(content[q]) < Maxsize
  <2>1. /\ content' = [content EXCEPT ![q] = Append(@, m)] /\ sent' = Append(sent, m)
        /\ sender' = [sender EXCEPT ![m] = "done"]
    BY <1>2 DEF Put
  <2>2. Len(content[q]) + 1 <= Maxsize
    BY <1>1, <1>2 DEF TypeOK
  <2> QED BY <1>1, <2>1, <2>2 DEF TypeOK
<1>3. CASE ~(Len(content[q]) < Maxsize)
  BY <1>3 DEF TypeOK, Put
<1> QED BY <1>2, <1>3

LEMMA HandsTypes ==
    ASSUME TypeOK, NEW q \in Queues, NEW from,
           NEW to \in {"waiting", "took", "calling", "ended", "over"},
           NEW m \in IF to \in {"took", "calling"} THEN Messages ELSE {None},
           Hands(q, from, to, m)
    PROVE  /\ task' \in [Queues -> {"none", "starting", "waiting", "took", "calling",
                                    "ended", "over"}]
           /\ hand' \in [Queues -> Messages \cup {None}]
           /\ \A p \in Queues :
                hand'[p] \in IF task'[p] \in {"took", "calling"} THEN Messages ELSE {None}
           /\ task' = [task EXCEPT ![q] = to] /\ hand' = [hand EXCEPT ![q] = m]
           /\ task[q] = from
BY DEF TypeOK, Hands

LEMMA TypeStep == TypeOK /\ Control /\ SentInv /\ Next => TypeOK'
<1> SUFFICES ASSUME TypeOK, Control, SentInv, Next PROVE TypeOK'
  OBVIOUS
<1> USE DEF Control
<1>1. ASSUME NEW m \in Messages, Send(m) PROVE TypeOK'
  <2>1. GetOrCreate /\ Put(m, queue') /\ target' = [target EXCEPT ![m] = queue']
    BY <1>1 DEF Send
  <2>2. /\ queue' \in 1..made' /\ made' \in 0..MaxQueues /\ made <= made' /\ queue' \in Queues
    BY <2>1, SendQueue
  <2>3. target' \in [Messages -> 0..made']
    BY <2>1, <2>2 DEF TypeOK
  <2>4. closeEvent' \in 0..made' /\ registered' \in 0..made'
    BY <2>1, <2>2 DEF TypeOK, GetOrCreate, StartListener, managerVars
  <2>5. /\ task' \in [Queues -> {"none", "starting", "waiting", "took", "calling",
                                 "ended", "over"}]
        /\ \A q \in Queues :
              hand[q] \in IF task'[q] \in {"took", "calling"} THEN Messages ELSE {None}
    <3>1. CASE UNCHANGED task
      BY <3>1 DEF TypeOK
    <3>2. CASE queue = None /\ task' = [task EXCEPT ![made + 1] = "starting"]
      <4>1. made + 1 = queue' /\ made + 1 \in Queues /\ made + 1 > made
        BY <2>1, <2>2, <3>2 DEF GetOrCreate, TypeOK
      <4>2. hand[made + 1] = None
        BY <4>1 DEF TypeOK, TaskInv
      <4> QED BY <2>2, <3>2, <4>1, <4>2 DEF TypeOK
    <3> QED BY <2>1, <3>1, <3>2 DEF GetOrCreate, StartListener, managerVars
  <2>6. closed' = closed /\ UNCHANGED <<adapterVars, hand, cancelled, handled, late, forgotten>>
    BY <1>1, <2>1 DEF Send, GetOrCreate, managerVars
  <2>7. /\ content' \in [Queues -> Seq(Messages)]
        /\ \A p \in Queues : Len(content'[p]) <= Maxsize
        /\ sender' \in [Messages -> {"idle", "blocked", "done"}]
        /\ sent' \in Seq(Messages)
    <3> HIDE DEF Control
    <3> QED BY <2>1, <2>2, PutTypes
  <2>8. /\ closed' \subseteq 1..made' /\ cancelled' \subseteq 1..made'
        /\ awaited' \subseteq 1..made' /\ forgotten' \subseteq 1..made'
    BY <2>2, <2>6 DEF TypeOK, adapterVars
  <2>9. /\ adapter' = adapter /\ hand' = hand /\ handled' = handled /\ late' = late
        /\ made' \in 0..MaxQueues /\ queue' \in 0..made'
    BY <2>2, <2>6 DEF adapterVars
  <2> QED BY <2>3, <2>4, <2>5, <2>7, <2>8, <2>9 DEF TypeOK
<1>2. ASSUME NEW m \in Messages, Unblock(m) PROVE TypeOK'
  <2>1. target[m] \in Queues
    <3>1. target[m] \in 1..made /\ made \in Nat /\ made <= MaxQueues /\ MaxQueues \in Nat
      BY <1>2 DEF Unblock, SentInv, TypeOK
    <3> QED BY <3>1 DEF Queues
  <2>2. /\ content' \in [Queues -> Seq(Messages)]
        /\ \A p \in Queues : Len(content'[p]) <= Maxsize
        /\ sender' \in [Messages -> {"idle", "blocked", "done"}]
        /\ sent' \in Seq(Messages)
    BY <1>2, <2>1, PutTypes DEF Unblock
  <2> QED BY <1>2, <2>2 DEF Unblock, TypeOK, managerVars, adapterVars, listenerVars
<1>3. ASSUME RemoveQueue PROVE TypeOK'
  BY <1>3 DEF RemoveQueue, TypeOK, None, adapterVars, senderVars
<1>4. ASSUME SetListener PROVE TypeOK'
  <2>1. CASE queue = None
    BY <1>4, <2>1 DEF SetListener, TypeOK, senderVars
  <2>2. CASE queue # None
    <3>1. /\ task' = [task EXCEPT ![queue] = "starting"] /\ registered' = queue
          /\ adapter' = "on"
          /\ UNCHANGED <<made, queue, closeEvent, closed, content, awaited, hand, cancelled,
                         senderVars, sent, handled, late, forgotten>>
      BY <1>4, <2>2 DEF SetListener
    <3>2. queue \in Queues
      BY <2>2 DEF TypeOK, Queues, None
    <3>3. hand[queue] = None
      BY <1>4, <3>2 DEF SetListener, TaskInv, TypeOK
    <3>4. \A p \in Queues :
            hand[p] \in IF task'[p] \in {"took", "calling"} THEN Messages ELSE {None}
      BY <3>1, <3>2, <3>3 DEF TypeOK
    <3>5. task' \in [Queues -> {"none", "starting", "waiting", "took", "calling",
                                "ended", "over"}]
      BY <3>1, <3>2 DEF TypeOK
    <3> QED BY <3>1, <3>4, <3>5 DEF TypeOK, senderVars
  <2> QED BY <2>1, <2>2
<1>5. ASSUME ClearListener PROVE TypeOK'
  BY <1>5 DEF ClearListener, TypeOK, None, senderVars
<1>6. ASSUME Cleared PROVE TypeOK'
  BY <1>6 DEF Cleared, TypeOK, None, senderVars, listenerVars
<1>7. ASSUME NEW q \in Queues, Listener(q) PROVE TypeOK'
  <2>1. ASSUME Start(q) PROVE TypeOK'
    <3>1. PICK to \in {"ended", "waiting"} : Hands(q, "starting", to, None)
      BY <2>1 DEF Start
    <3> QED BY <2>1, <3>1, HandsTypes DEF Start, TypeOK, managerVars, adapterVars, senderVars
  <2>2. ASSUME Take(q) PROVE TypeOK'
    <3>1. /\ content[q] \in Seq(Messages) /\ content[q] # <<>>
          /\ Len(content[q]) <= Maxsize
      BY <2>2 DEF Take, TypeOK
    <3>2. /\ Head(content[q]) \in Messages /\ Tail(content[q]) \in Seq(Messages)
          /\ Len(Tail(content[q])) <= Maxsize
      BY <3>1, TailFact, LenProperties
    <3>3. Hands(q, "waiting", "took", Head(content[q]))
      BY <2>2 DEF Take
    <3>4. /\ content' \in [Queues -> Seq(Messages)]
          /\ \A p \in Queues : Len(content'[p]) <= Maxsize
      BY <2>2, <3>2 DEF Take, TypeOK
    <3> QED BY <2>2, <3>2, <3>3, <3>4, HandsTypes
            DEF Take, TypeOK, managerVars, adapterVars, senderVars
  <2>3. ASSUME Break(q) PROVE TypeOK'
    <3>1. PICK from : Hands(q, from, "ended", None)
      BY <2>3 DEF Break
    <3>2. /\ content' \in [Queues -> Seq(Messages)]
          /\ \A p \in Queues : Len(content'[p]) <= Maxsize
      <4>1. CASE UNCHANGED content
        BY <4>1 DEF TypeOK
      <4>2. CASE content[q] # <<>> /\ content' = [content EXCEPT ![q] = Tail(@)]
        <5>1. /\ content[q] \in Seq(Messages) /\ content[q] # <<>>
              /\ Len(content[q]) <= Maxsize
          BY <4>2 DEF TypeOK
        <5>2. Tail(content[q]) \in Seq(Messages) /\ Len(Tail(content[q])) <= Maxsize
          BY <5>1, TailFact, LenProperties
        <5> QED BY <4>2, <5>2 DEF TypeOK
      <4> QED BY <2>3, <4>1, <4>2 DEF Break
    <3> QED BY <2>3, <3>1, <3>2, HandsTypes
            DEF Break, TypeOK, managerVars, adapterVars, senderVars
  <2>4. ASSUME Call(q) PROVE TypeOK'
    <3>1. CASE adapter = "on"
      <4>1. Hands(q, "took", "calling", hand[q])
        BY <2>4, <3>1 DEF Call
      <4>2. hand[q] \in Messages
        BY <4>1 DEF Hands, TypeOK
      <4> QED BY <2>4, <4>1, <4>2, HandsTypes
              DEF Call, TypeOK, managerVars, adapterVars, senderVars
    <3>2. CASE adapter # "on"
      <4>1. Hands(q, "took", "waiting", None)
        BY <2>4, <3>2 DEF Call
      <4> QED BY <2>4, <4>1, HandsTypes
              DEF Call, TypeOK, managerVars, adapterVars, senderVars
    <3> QED BY <3>1, <3>2
  <2>5. ASSUME CallEnds(q) PROVE TypeOK'
    <3>1. Hands(q, "calling", "waiting", None)
      BY <2>5 DEF CallEnds
    <3>2. hand[q] \in Messages
      BY <3>1 DEF Hands, TypeOK
    <3>3. handled' \in Seq(Messages)
      BY <2>5, <3>2 DEF CallEnds, TypeOK
    <3>4. late' \in [Queues -> Nat]
      BY <2>5 DEF CallEnds, TypeOK
    <3> QED BY <2>5, <3>1, <3>3, <3>4, HandsTypes
            DEF CallEnds, TypeOK, managerVars, adapterVars, senderVars
  <2>6. ASSUME DoneCallback(q) PROVE TypeOK'
    <3>1. Hands(q, "ended", "over", None)
      BY <2>6 DEF DoneCallback
    <3>2. registered' \in 0..made /\ forgotten' \subseteq 1..made
      <4>1. made \in Nat /\ registered \in 0..made /\ forgotten \subseteq 1..made
        BY DEF TypeOK
      <4>2. {registered} \ {0, q} \subseteq 1..made
        BY <4>1
      <4>3. registered' = None /\ forgotten' = forgotten \cup ({registered} \ {None, q})
        BY <2>6 DEF DoneCallback
      <4>4. {registered} \ {None, q} \subseteq 1..made /\ None \in 0..made
        BY <4>1, <4>2 DEF None
      <4> QED BY <4>1, <4>3, <4>4
    <3> QED BY <2>6, <3>1, <3>2, HandsTypes DEF DoneCallback, TypeOK, adapterVars, senderVars
  <2> QED BY <1>7, <2>1, <2>2, <2>3, <2>4, <2>5, <2>6 DEF Listener
<1> HIDE DEF Control
<1> QED BY <1>1, <1>2, <1>3, <1>4, <1>5, <1>6, <1>7 DEF Next

----------------------------------------------------------------------------
(* Queues, close events and listeners                                      *)

\* A step of listener q changes no other task, and q was at work or is now
\* over with its callback.
LEMMA HandsControl ==
    ASSUME TypeOK, Control, NEW q \in Queues, NEW from, NEW to, NEW m,
           Hands(q, from, to, m), from # "none", to \in {"waiting", "took", "calling", "ended"},
           from \in {"starting", "waiting", "took", "calling"},
           \A p \in Queues : content[p] = <<>> => content'[p] = <<>>,
           UNCHANGED <<managerVars, adapter, cancelled, forgotten>>
    PROVE  Control'
<1>1. /\ task' = [task EXCEPT ![q] = to] /\ task[q] = from
      /\ \A p \in Queues : p # q => task'[p] = task[p]
      /\ task'[q] = to
  BY DEF Hands, TypeOK
<1>2. QueueInv'
  BY DEF Control, QueueInv, managerVars
<1>3. /\ (registered \in {queue, None})'
      /\ (adapter \in {"clearing", "off"} => registered \in cancelled \cup {None})'
  BY DEF Control, TaskInv, managerVars
<1>4. adapter # "new"
  BY <1>1 DEF Control, TaskInv
<1>5. (\A p \in Queues : p > made => task[p] = "none" /\ content[p] = <<>>)'
  BY <1>1 DEF Control, TaskInv, managerVars
<1>6. (\A p \in Queues : Active(p) => p \in cancelled \cup forgotten \/ registered = p)'
  <2> SUFFICES ASSUME NEW p \in Queues, Active(p)'
               PROVE  p \in cancelled \cup forgotten \/ registered = p
    BY DEF managerVars
  <2>1. Active(p)
    BY <1>1 DEF Active
  <2> QED BY <2>1 DEF Control, TaskInv
<1> QED BY <1>2, <1>3, <1>4, <1>5, <1>6 DEF Control, TaskInv

\* Every step keeps what is said of queues and listeners,
LEMMA ControlStep == Inv /\ Next => Control'
<1> SUFFICES ASSUME Inv, Next PROVE Control'
  OBVIOUS
<1>0. TypeOK /\ Control /\ QueueInv /\ TaskInv
  BY DEF Inv, Control
<1>1. ASSUME NEW m \in Messages, Send(m) PROVE Control'
  <2>1. GetOrCreate /\ Put(m, queue') /\ UNCHANGED <<adapterVars, hand, cancelled, forgotten>>
    BY <1>1 DEF Send
  <2>2. /\ queue' \in 1..made' /\ queue' = made' /\ made' \in 0..MaxQueues /\ made <= made'
        /\ queue' \in Queues
    BY <1>0, <2>1, SendQueue
  <2>3. \A q \in Queues : q # queue' => content'[q] = content[q]
    BY <1>0, <2>1, <2>2 DEF Put, TypeOK
  <2>4. CASE queue # None
    <3>1. UNCHANGED <<managerVars, task>>
      BY <2>1, <2>4 DEF GetOrCreate
    <3>2. QueueInv'
      BY <1>0, <3>1 DEF QueueInv, managerVars
    <3>3. \A q \in Queues : q > made' => q # queue'
      BY <2>2 DEF Queues
    <3>4. TaskInv'
      BY <1>0, <2>1, <2>3, <3>1, <3>3 DEF TaskInv, managerVars, adapterVars, Active
    <3> QED BY <3>2, <3>4 DEF Control
  <2>5. CASE queue = None
    <3>1. /\ made' = made + 1 /\ queue' = made + 1 /\ closeEvent' = made + 1
          /\ closed' = closed /\ StartListener(made + 1)
      BY <2>1, <2>5 DEF GetOrCreate
    <3>2. QueueInv'
      <4>1. \A q \in 1..made : q \in closed
        BY <1>0, <2>5 DEF QueueInv, None, TypeOK
      <4>2. \A q \in 1..(made + 1) : q # made + 1 => q \in 1..made
        BY <1>0 DEF TypeOK
      <4> QED BY <2>2, <3>1, <4>1, <4>2 DEF QueueInv, None
    <3>3. registered = None
      BY <1>0, <2>5 DEF TaskInv
    <3>4. made + 1 \in Queues /\ task[made + 1] = "none"
      BY <1>0, <2>2, <3>1 DEF TaskInv, TypeOK
    <3>5. \A q \in Queues : q > made + 1 => q > made /\ q # made + 1
      BY <1>0 DEF TypeOK, Queues
    <3>6. CASE adapter # "on"
      <4>1. task' = task /\ registered' = registered
        BY <3>1, <3>6 DEF StartListener
      <4> QED BY <1>0, <2>1, <2>3, <3>1, <3>2, <3>3, <3>5, <4>1
              DEF Control, TaskInv, adapterVars, Active
    <3>7. CASE adapter = "on"
      <4>1. task' = [task EXCEPT ![made + 1] = "starting"] /\ registered' = made + 1
        BY <3>1, <3>7 DEF StartListener
      <4>2. \A q \in Queues : q # made + 1 => task'[q] = task[q]
        BY <1>0, <4>1 DEF TypeOK
      <4>3. (\A q \in Queues : q > made => task[q] = "none" /\ content[q] = <<>>)'
        BY <1>0, <2>3, <3>1, <3>5, <4>2 DEF TaskInv
      <4>4. (\A q \in Queues : Active(q) => q \in cancelled \cup forgotten \/ registered = q)'
        <5> SUFFICES ASSUME NEW q \in Queues, Active(q)'
                     PROVE  q \in cancelled \cup forgotten \/ registered' = q
          BY <2>1
        <5>1. CASE q = made + 1
          BY <4>1, <5>1
        <5>2. CASE q # made + 1
          <6>1. Active(q)
            BY <4>2, <5>2 DEF Active
          <6> QED BY <1>0, <3>3, <6>1 DEF TaskInv, Queues, None
        <5> QED BY <5>1, <5>2
      <4> QED BY <2>1, <3>1, <3>2, <3>7, <4>1, <4>3, <4>4 DEF Control, TaskInv, adapterVars
    <3> QED BY <3>6, <3>7
  <2> QED BY <2>4, <2>5
<1>2. ASSUME NEW m \in Messages, Unblock(m) PROVE Control'
  <2>1. target[m] \in 1..made
    BY <1>2 DEF Inv, Data, SentInv, Unblock
  <2>2. \A q \in Queues : q > made => q # target[m]
    BY <1>0, <2>1 DEF TypeOK, Queues
  <2>3. \A q \in Queues : q # target[m] => content'[q] = content[q]
    BY <1>0, <1>2 DEF Unblock, Put, TypeOK
  <2> QED BY <1>0, <1>2, <2>2, <2>3 DEF Unblock, Control, QueueInv, TaskInv, Active,
          managerVars, adapterVars, listenerVars
<1>3. ASSUME RemoveQueue PROVE Control'
  BY <1>0, <1>3 DEF RemoveQueue, Control, QueueInv, TaskInv, Active, None, adapterVars
<1>4. ASSUME SetListener PROVE Control'
  <2>1. CASE queue = None
    BY <1>0, <1>4, <2>1 DEF SetListener, Control, QueueInv, TaskInv, Active
  <2>2. CASE queue # None
    <3>1. task' = [task EXCEPT ![queue] = "starting"] /\ registered' = queue
      BY <1>4, <2>2 DEF SetListener
    <3>2. queue = made
      BY <1>0, <2>2 DEF QueueInv
    <3>3. \A q \in Queues : q # queue => task'[q] = "none"
      BY <1>0, <1>4, <3>1 DEF SetListener, TypeOK, TaskInv
    <3>4. \A q \in Queues : q > made => q # queue
      BY <1>0, <3>2 DEF TypeOK, Queues
    <3> QED BY <1>0, <1>4, <3>1, <3>3, <3>4 DEF SetListener, Control, QueueInv, TaskInv, Active
  <2> QED BY <2>1, <2>2
<1>5. ASSUME ClearListener PROVE Control'
  BY <1>0, <1>5 DEF ClearListener, Control, QueueInv, TaskInv, Active, None
<1>6. ASSUME Cleared PROVE Control'
  <2>1. QueueInv'
    BY <1>0, <1>6 DEF Cleared, QueueInv
  <2>2. \A q \in Queues : Active(q) => q \in cancelled \cup forgotten
    BY <1>0, <1>6 DEF Cleared, TaskInv, Queues, None
  <2> QED BY <1>0, <1>6, <2>1, <2>2 DEF Cleared, Control, TaskInv, Active, listenerVars
<1>7. ASSUME NEW q \in Queues, Listener(q) PROVE Control'
  <2>1. ASSUME Start(q) PROVE Control'
    BY <1>0, <2>1, HandsControl DEF Start, adapterVars
  <2>2. ASSUME Take(q) PROVE Control'
    <3>1. \A p \in Queues : content[p] = <<>> => content'[p] = <<>>
      BY <1>0, <2>2 DEF Take, TypeOK
    <3> QED BY <1>0, <2>2, <3>1, HandsControl DEF Take, adapterVars
  <2>3. ASSUME Break(q) PROVE Control'
    <3>1. \A p \in Queues : content[p] = <<>> => content'[p] = <<>>
      BY <1>0, <2>3 DEF Break, TypeOK
    <3>2. PICK from \in {"waiting", "took", "calling"} : Hands(q, from, "ended", None)
      BY <2>3 DEF Break
    <3> QED BY <1>0, <2>3, <3>1, <3>2, HandsControl DEF Break, adapterVars
  <2>4. ASSUME Call(q) PROVE Control'
    BY <1>0, <2>4, HandsControl DEF Call, adapterVars
  <2>5. ASSUME CallEnds(q) PROVE Control'
    BY <1>0, <2>5, HandsControl DEF CallEnds, adapterVars
  <2>6. ASSUME DoneCallback(q) PROVE Control'
    <3>1. /\ task[q] = "ended" /\ task' = [task EXCEPT ![q] = "over"] /\ task'[q] = "over"
          /\ \A p \in Queues : p # q => task'[p] = task[p]
      BY <1>0, <2>6 DEF DoneCallback, Hands, TypeOK
    <3>2. QueueInv'
      BY <1>0, <2>6 DEF DoneCallback, QueueInv
    <3>3. adapter # "new"
      BY <1>0, <3>1 DEF TaskInv
    <3>4. (\A p \in Queues : Active(p) => p \in cancelled \cup forgotten \/ registered = p)'
      <4> SUFFICES ASSUME NEW p \in Queues, Active(p)' PROVE p \in cancelled \cup forgotten'
        BY <2>6 DEF DoneCallback
      <4>1. p # q /\ Active(p)
        BY <3>1 DEF Active
      <4>2. p # None
        BY DEF Queues, None
      <4> QED BY <1>0, <2>6, <4>1, <4>2 DEF DoneCallback, TaskInv
    <3> QED BY <1>0, <2>6, <3>1, <3>2, <3>3, <3>4 DEF DoneCallback, Control, TaskInv, adapterVars
  <2> QED BY <1>7, <2>1, <2>2, <2>3, <2>4, <2>5, <2>6 DEF Listener
<1> QED BY <1>1, <1>2, <1>3, <1>4, <1>5, <1>6, <1>7 DEF Next

\* Only a queue that is closed has a message handled late, and its listener
\* takes no other one.
LEMMA LateStep == Inv /\ Next => LateInv'
<1> SUFFICES ASSUME Inv, Next PROVE LateInv'
  OBVIOUS
<1>0. TypeOK /\ QueueInv /\ TaskInv /\ LateInv
  BY DEF Inv, Control
<1>1. ASSUME late' = late, closed \subseteq closed',
             \A q \in Queues : late[q] > 0 /\ Holds(q)' => Holds(q)
      PROVE  LateInv'
  BY <1>0, <1>1 DEF LateInv
<1>2. ASSUME NEW m \in Messages, Send(m) PROVE LateInv'
  <2>1. closed' = closed /\ late' = late
    BY <1>2 DEF Send, GetOrCreate, managerVars
  <2>2. \A q \in Queues : Holds(q)' => Holds(q)
    BY <1>0, <1>2 DEF Send, GetOrCreate, StartListener, Holds, TypeOK
  <2> QED BY <1>1, <2>1, <2>2
<1>3. ASSUME NEW m \in Messages, Unblock(m) PROVE LateInv'
  BY <1>1, <1>3 DEF Unblock, managerVars, listenerVars, Holds
<1>4. ASSUME RemoveQueue PROVE LateInv'
  BY <1>1, <1>4 DEF RemoveQueue, Holds
<1>5. ASSUME SetListener PROVE LateInv'
  <2>1. \A q \in Queues : Holds(q)' => Holds(q)
    BY <1>0, <1>5 DEF SetListener, Holds, TypeOK
  <2> QED BY <1>1, <1>5, <2>1 DEF SetListener
<1>6. ASSUME ClearListener PROVE LateInv'
  BY <1>1, <1>6 DEF ClearListener, Holds
<1>7. ASSUME Cleared PROVE LateInv'
  BY <1>1, <1>7 DEF Cleared, listenerVars, Holds
<1>8. ASSUME NEW q \in Queues, Listener(q) PROVE LateInv'
  <2>1. ASSUME Start(q) PROVE LateInv'
    <3>1. \A p \in Queues : Holds(p)' => Holds(p)
      BY <1>0, <2>1 DEF Start, Hands, Holds, TypeOK
    <3> QED BY <1>1, <2>1, <3>1 DEF Start, managerVars
  <2>2. ASSUME Take(q) PROVE LateInv'
    <3>1. \A p \in Queues : Holds(p)' => p = q \/ Holds(p)
      BY <1>0, <2>2 DEF Take, Hands, Holds, TypeOK
    <3>2. ~(late[q] > 0)
      BY <1>0, <2>2 DEF Take, LateInv
    <3> QED BY <1>1, <2>2, <3>1, <3>2 DEF Take, managerVars
  <2>3. ASSUME Break(q) PROVE LateInv'
    <3>1. \A p \in Queues : Holds(p)' => Holds(p)
      BY <1>0, <2>3 DEF Break, Hands, Holds, TypeOK
    <3> QED BY <1>1, <2>3, <3>1 DEF Break, managerVars
  <2>4. ASSUME Call(q) PROVE LateInv'
    <3>1. \A p \in Queues : Holds(p)' => Holds(p)
      BY <1>0, <2>4 DEF Call, Hands, Holds, TypeOK
    <3> QED BY <1>1, <2>4, <3>1 DEF Call, managerVars
  <2>5. ASSUME CallEnds(q) PROVE LateInv'
    <3>1. /\ task[q] = "calling" /\ task'[q] = "waiting" /\ closed' = closed
          /\ \A p \in Queues : p # q => task'[p] = task[p]
      BY <1>0, <2>5 DEF CallEnds, Hands, TypeOK, managerVars
    <3>2. late[q] = 0
      BY <1>0, <3>1 DEF LateInv, Holds, TypeOK
    <3>3. q \in 1..made
      BY <1>0, <3>1 DEF TaskInv, TypeOK, Queues
    <3>4. late'[q] > 0 => late'[q] = 1 /\ q \in closed
      BY <1>0, <2>5, <3>2, <3>3 DEF CallEnds, QueueInv, TypeOK
    <3>5. \A p \in Queues : p # q => late'[p] = late[p]
      BY <1>0, <2>5 DEF CallEnds, TypeOK
    <3> QED BY <1>0, <3>1, <3>4, <3>5 DEF LateInv, Holds
  <2>6. ASSUME DoneCallback(q) PROVE LateInv'
    <3>1. \A p \in Queues : Holds(p)' => Holds(p)
      BY <1>0, <2>6 DEF DoneCallback, Hands, Holds, TypeOK
    <3> QED BY <1>1, <2>6, <3>1 DEF DoneCallback
  <2> QED BY <1>8, <2>1, <2>2, <2>3, <2>4, <2>5, <2>6 DEF Listener
<1> QED BY <1>2, <1>3, <1>4, <1>5, <1>6, <1>7, <1>8 DEF Next

----------------------------------------------------------------------------
(* Messages and their order                                                *)

\* A message is put that was not put before: it comes behind all others.
LEMMA PutData ==
    ASSUME Inv, NEW m \in Messages, NEW q \in Queues, Put(m, q), sender[m] # "done",
           q \in 1..made', made <= made', made' \in Nat,
           target' \in [Messages -> 0..made'], target'[m] = q,
           \A n \in Messages : n # m => target'[n] = target[n],
           \A p \in Queues : Holds(p)' <=> Holds(p),
           UNCHANGED <<hand, handled, forgotten>>
    PROVE  Data'
<1>0. TypeOK /\ SentInv /\ ContentInv /\ HandInv /\ HandledInv /\ TakenInv /\ HandledInOrder
  BY DEF Inv, Data
<1>1. ~In(m, sent)
  BY <1>0 DEF SentInv
<1>2. \A p \in Queues : Holds(p) => hand[p] \in Messages /\ In(hand[p], sent)
  BY <1>0 DEF TypeOK, Holds, HandInv
<1>3. \A n \in Messages : In(n, sent) => n # m /\ target'[n] = target[n]
  BY <1>1
<1>4. /\ sent \in Seq(Messages) /\ handled \in Seq(Messages)
      /\ \A p \in Queues : content[p] \in Seq(Messages)
  BY <1>0 DEF TypeOK
<1>5. CASE ~(Len(content[q]) < Maxsize)
  <2>1. content' = content /\ sent' = sent /\ sender' = [sender EXCEPT ![m] = "blocked"]
    BY <1>5 DEF Put
  <2>2. SentInv'
    <3>1. \A n \in Messages : In(n, sent) => sender'[n] = "done"
      BY <1>0, <1>1, <2>1 DEF SentInv, TypeOK
    <3>2. \A n \in Messages : sender'[n] # "idle" => target'[n] \in 1..made'
      BY <1>0, <2>1 DEF SentInv, TypeOK
    <3> QED BY <1>0, <2>1, <3>1, <3>2 DEF SentInv
  <2>3. ContentInv'
    BY <1>0, <1>3, <2>1 DEF ContentInv
  <2>4. HandInv'
    BY <1>0, <1>2, <1>3, <2>1 DEF HandInv
  <2>5. HandledInv'
    BY <1>0, <1>3, <2>1 DEF HandledInv
  <2>6. TakenInv'
    BY <1>0, <1>3, <2>1 DEF TakenInv, HandledInv
  <2>7. HandledInOrder'
    BY <1>0, <1>3, <1>4, <2>1, BeforeIn DEF HandledInOrder, HandledInv
  <2> QED BY <2>2, <2>3, <2>4, <2>5, <2>6, <2>7 DEF Data
<1>6. CASE Len(content[q]) < Maxsize
  <2>1. /\ content' = [content EXCEPT ![q] = Append(@, m)] /\ sent' = Append(sent, m)
        /\ sender' = [sender EXCEPT ![m] = "done"]
    BY <1>6 DEF Put
  <2>2. \A x : In(x, sent') <=> In(x, sent) \/ x = m
    BY <1>4, <2>1, InAppend
  <2>3. \A x, y : Before(x, y, sent') <=> Before(x, y, sent) \/ (In(x, sent) /\ y = m)
    BY <1>4, <2>1, BeforeAppend
  <2>4. content'[q] = Append(content[q], m) /\ \A p \in Queues : p # q => content'[p] = content[p]
    BY <1>0, <2>1 DEF TypeOK
  <2>5. \A x : In(x, content'[q]) <=> In(x, content[q]) \/ x = m
    BY <1>4, <2>4, InAppend
  <2>6. \A x, y : Before(x, y, content'[q])
                    <=> Before(x, y, content[q]) \/ (In(x, content[q]) /\ y = m)
    BY <1>4, <2>4, BeforeAppend
  <2>7. \A p \in Queues : \A n \in Messages :
          In(n, content'[p]) => In(n, content[p]) \/ (p = q /\ n = m)
    BY <2>4, <2>5
  <2>8. SentInv'
    <3>1. IsInjective(sent')
      BY <1>0, <1>1, <1>4, <2>1, InjectiveAppend DEF SentInv
    <3>2. \A n \in Messages : In(n, sent') => sender'[n] = "done"
      BY <1>0, <2>1, <2>2 DEF SentInv, TypeOK
    <3>3. \A n \in Messages : sender'[n] # "idle" => target'[n] \in 1..made'
      BY <1>0, <2>1 DEF SentInv, TypeOK
    <3> QED BY <3>1, <3>2, <3>3 DEF SentInv
  <2>9. ContentInv'
    <3>1. ASSUME NEW p \in Queues, NEW n \in Messages, In(n, content'[p])
          PROVE  In(n, sent') /\ target'[n] = p
      BY <1>0, <1>3, <2>2, <2>7, <3>1 DEF ContentInv
    <3>2. ASSUME NEW p \in Queues, NEW l \in Messages, NEW n \in Messages,
                 Before(l, n, content'[p])
          PROVE  Before(l, n, sent')
      BY <1>0, <2>3, <2>4, <2>6, <3>2 DEF ContentInv
    <3> QED BY <3>1, <3>2 DEF ContentInv
  <2>10. HandInv'
    <3> SUFFICES ASSUME NEW p \in Queues, Holds(p)
                 PROVE  /\ In(hand[p], sent') /\ target'[hand[p]] = p
                        /\ \A n \in Messages : In(n, content'[p]) => Before(hand[p], n, sent')
      BY DEF HandInv
    <3>1. In(hand[p], sent') /\ target'[hand[p]] = p
      BY <1>0, <1>2, <1>3, <2>2 DEF HandInv
    <3>2. ASSUME NEW n \in Messages, In(n, content'[p]) PROVE Before(hand[p], n, sent')
      BY <1>0, <1>2, <2>3, <2>7, <3>2 DEF HandInv
    <3> QED BY <3>1, <3>2
  <2>11. HandledInv'
    <3> SUFFICES ASSUME NEW l \in Messages, In(l, handled)
                 PROVE  /\ In(l, sent')
                        /\ \A p \in Queues : target'[l] = p =>
                            /\ Holds(p) => Before(l, hand[p], sent')
                            /\ \A n \in Messages : In(n, content'[p]) => Before(l, n, sent')
      BY DEF HandledInv
    <3>1. In(l, sent) /\ In(l, sent') /\ target'[l] = target[l]
      BY <1>0, <1>3, <2>2 DEF HandledInv
    <3>2. ASSUME NEW p \in Queues, target[l] = p, Holds(p) PROVE Before(l, hand[p], sent')
      BY <1>0, <2>3, <3>2 DEF HandledInv
    <3>3. ASSUME NEW p \in Queues, target[l] = p, NEW n \in Messages, In(n, content'[p])
          PROVE  Before(l, n, sent')
      BY <1>0, <2>3, <2>7, <3>1, <3>3 DEF HandledInv
    <3> QED BY <3>1, <3>2, <3>3
  <2>12. TakenInv'
    <3> SUFFICES ASSUME NEW n \in Messages, In(n, sent')
                 PROVE  /\ \A l \in Messages : In(l, handled) /\ target'[l] < target'[n]
                              => Before(l, n, sent')
                        /\ \A p \in Queues : Holds(p) /\ p < target'[n]
                              => Before(hand[p], n, sent')
      BY DEF TakenInv
    <3>1. CASE n = m
      BY <1>0, <1>2, <2>3, <3>1 DEF HandledInv
    <3>2. CASE n # m
      <4>1. In(n, sent) /\ target'[n] = target[n]
        BY <1>3, <2>2, <3>2
      <4>2. \A l \in Messages : In(l, handled) => target'[l] = target[l]
        BY <1>0, <1>3 DEF HandledInv
      <4> QED BY <1>0, <2>3, <4>1, <4>2 DEF TakenInv
    <3> QED BY <3>1, <3>2
  <2>13. HandledInOrder'
    <3>1. \A n \in Messages : In(n, handled) => target'[n] = target[n]
      BY <1>0, <1>3 DEF HandledInv
    <3>2. \A l, n : Before(l, n, handled) => In(n, handled)
      BY BeforeIn
    <3> QED BY <1>0, <2>3, <3>1, <3>2 DEF HandledInOrder
  <2> QED BY <2>8, <2>9, <2>10, <2>11, <2>12, <2>13 DEF Data
<1> QED BY <1>5, <1>6

\* Queues may lose what is in front, and hands may let go.
LEMMA QuietData ==
    ASSUME Inv, made' = made, UNCHANGED <<sent, sender, target, handled>>,
           forgotten \subseteq forgotten',
           \A p \in Queues : \/ content'[p] = content[p]
                             \/ content[p] # <<>> /\ content'[p] = Tail(content[p]),
           \A p \in Queues : Holds(p)' => Holds(p) /\ hand'[p] = hand[p]
    PROVE  Data'
<1>0. TypeOK /\ SentInv /\ ContentInv /\ HandInv /\ HandledInv /\ TakenInv /\ HandledInOrder
  BY DEF Inv, Data
<1>1. ASSUME NEW p \in Queues
      PROVE  /\ \A x : In(x, content'[p]) => In(x, content[p])
             /\ \A x, y : Before(x, y, content'[p]) => Before(x, y, content[p])
  <2>1. content[p] \in Seq(Messages)
    BY <1>0 DEF TypeOK
  <2> QED BY <2>1, TailFact
<1>2. SentInv'
  BY <1>0 DEF SentInv
<1>3. ContentInv'
  BY <1>0, <1>1 DEF ContentInv
<1>4. HandInv'
  BY <1>0, <1>1 DEF HandInv
<1>5. HandledInv'
  BY <1>0, <1>1 DEF HandledInv
<1>6. TakenInv'
  BY <1>0 DEF TakenInv
<1>7. HandledInOrder'
  BY <1>0 DEF HandledInOrder
<1> QED BY <1>2, <1>3, <1>4, <1>5, <1>6, <1>7 DEF Data

\* Only the last queue is open: nothing was put into a later one when a
\* message is taken.
LEMMA TakeData ==
    ASSUME Inv, NEW q \in Queues, Take(q)
    PROVE  Data'
<1>0. /\ TypeOK /\ SentInv /\ ContentInv /\ HandInv /\ HandledInv /\ TakenInv /\ HandledInOrder
      /\ QueueInv /\ TaskInv
  BY DEF Inv, Data, Control
<1> DEFINE h == Head(content[q])
<1>1. /\ task[q] = "waiting" /\ task'[q] = "took" /\ hand'[q] = h
      /\ \A p \in Queues : p # q => task'[p] = task[p] /\ hand'[p] = hand[p]
      /\ content'[q] = Tail(content[q])
      /\ \A p \in Queues : p # q => content'[p] = content[p]
      /\ content[q] # <<>> /\ q \notin closed
      /\ UNCHANGED <<sent, sender, target, handled, forgotten, made>>
  BY <1>0 DEF Take, Hands, TypeOK, managerVars, senderVars
<1>2. content[q] \in Seq(Messages)
  BY <1>0 DEF TypeOK
<1>3. /\ h \in Messages /\ In(h, content[q])
      /\ \A x : In(x, Tail(content[q])) => In(x, content[q]) /\ Before(h, x, content[q])
      /\ \A x, y : Before(x, y, Tail(content[q])) => Before(x, y, content[q])
  BY <1>1, <1>2, TailFact
<1>4. In(h, sent) /\ target[h] = q
  BY <1>0, <1>3 DEF ContentInv
<1>5. Holds(q)' /\ \A p \in Queues : p # q => (Holds(p)' <=> Holds(p))
  BY <1>1 DEF Holds
<1>6. \A p \in Queues : \A x : In(x, content'[p]) => In(x, content[p])
  BY <1>1, <1>3
<1> HIDE DEF h
<1>7. SentInv'
  BY <1>0, <1>1 DEF SentInv
<1>8. ContentInv'
  <2>1. \A p \in Queues : \A x, y : Before(x, y, content'[p]) => Before(x, y, content[p])
    BY <1>1, <1>3
  <2> QED BY <1>0, <1>1, <1>6, <2>1 DEF ContentInv
<1>9. HandInv'
  <2> SUFFICES ASSUME NEW p \in Queues, Holds(p)'
               PROVE  /\ In(hand'[p], sent) /\ target[hand'[p]] = p
                      /\ \A n \in Messages : In(n, content'[p]) => Before(hand'[p], n, sent)
    BY <1>1 DEF HandInv
  <2>1. CASE p = q
    <3>1. \A n \in Messages : In(n, content'[q]) => Before(h, n, sent)
      BY <1>0, <1>1, <1>3 DEF ContentInv
    <3> QED BY <1>1, <1>4, <2>1, <3>1
  <2>2. CASE p # q
    BY <1>0, <1>1, <1>5, <2>2 DEF HandInv
  <2> QED BY <2>1, <2>2
<1>10. HandledInv'
  <2> SUFFICES ASSUME NEW l \in Messages, In(l, handled)
               PROVE  /\ In(l, sent)
                      /\ \A p \in Queues : target[l] = p =>
                          /\ Holds(p)' => Before(l, hand'[p], sent)
                          /\ \A n \in Messages : In(n, content'[p]) => Before(l, n, sent)
    BY <1>1 DEF HandledInv
  <2>1. target[l] = q => Before(l, h, sent)
    BY <1>0, <1>3 DEF HandledInv
  <2>2. ASSUME NEW p \in Queues, target[l] = p, Holds(p)' PROVE Before(l, hand'[p], sent)
    BY <1>0, <1>1, <1>5, <2>1, <2>2 DEF HandledInv
  <2> QED BY <1>0, <1>6, <2>2 DEF HandledInv
<1>11. TakenInv'
  <2> SUFFICES ASSUME NEW n \in Messages, In(n, sent), NEW p \in Queues, Holds(p)', p < target[n]
               PROVE  Before(hand'[p], n, sent)
    BY <1>0, <1>1 DEF TakenInv
  <2>1. CASE p = q
    <3>1. target[n] \in 1..made
      BY <1>0 DEF SentInv
    <3>2. q \in 1..made
      BY <1>0, <1>1 DEF TaskInv, TypeOK, Queues
    <3>3. q = queue /\ q = made
      BY <1>0, <1>1, <3>2 DEF QueueInv, None
    <3> QED BY <1>0, <2>1, <3>1, <3>3 DEF TypeOK
  <2>2. CASE p # q
    BY <1>0, <1>1, <1>5, <2>2 DEF TakenInv
  <2> QED BY <2>1, <2>2
<1>12. HandledInOrder'
  BY <1>0, <1>1 DEF HandledInOrder
<1> QED BY <1>7, <1>8, <1>9, <1>10, <1>11, <1>12 DEF Data

\* What is handled now was put after all that was handled before, unless that
\* was put into a later queue: then its listener is one the manager has lost.
LEMMA CallEndsData ==
    ASSUME Inv, NEW q \in Queues, CallEnds(q)
    PROVE  Data'
<1>0. /\ TypeOK /\ SentInv /\ ContentInv /\ HandInv /\ HandledInv /\ TakenInv /\ HandledInOrder
      /\ QueueInv /\ TaskInv
  BY DEF Inv, Data, Control
<1> DEFINE h == hand[q]
<1>1. /\ task[q] = "calling" /\ task'[q] = "waiting" /\ q \notin cancelled
      /\ \A p \in Queues : p # q => task'[p] = task[p] /\ hand'[p] = hand[p]
      /\ handled' = Append(handled, h)
      /\ UNCHANGED <<sent, sender, target, content, forgotten, made>>
  BY <1>0 DEF CallEnds, Hands, TypeOK, managerVars, senderVars
<1>2. h \in Messages /\ handled \in Seq(Messages) /\ sent \in Seq(Messages)
  BY <1>0, <1>1 DEF TypeOK
<1>3. Holds(q) /\ ~Holds(q)' /\ \A p \in Queues : p # q => (Holds(p)' <=> Holds(p))
  BY <1>1 DEF Holds
<1>4. /\ In(h, sent) /\ target[h] = q
      /\ \A n \in Messages : In(n, content[q]) => Before(h, n, sent)
  BY <1>0, <1>3 DEF HandInv
<1> HIDE DEF h
<1>5. \A x : In(x, handled') <=> In(x, handled) \/ x = h
  BY <1>1, <1>2, InAppend
<1>6. \A x, y : Before(x, y, handled')
                  <=> Before(x, y, handled) \/ (In(x, handled) /\ y = h)
  BY <1>1, <1>2, BeforeAppend
<1>7. SentInv'
  BY <1>0, <1>1 DEF SentInv
<1>8. ContentInv'
  BY <1>0, <1>1 DEF ContentInv
<1>9. HandInv'
  BY <1>0, <1>1, <1>3 DEF HandInv
<1>10. \A p \in Queues : Holds(p)' => Holds(p) /\ hand'[p] = hand[p] /\ p # q
  BY <1>1, <1>3
<1>11. HandledInv'
  BY <1>0, <1>1, <1>4, <1>5, <1>10 DEF HandledInv
<1>12. TakenInv'
  <2>1. ASSUME NEW n \in Messages, In(n, sent), q < target[n] PROVE Before(h, n, sent)
    BY <1>0, <1>3, <2>1 DEF TakenInv, h
  <2> QED BY <1>0, <1>1, <1>4, <1>5, <1>10, <2>1 DEF TakenInv
<1>13. HandledInOrder'
  <2>1. ~In(h, handled)
    <3>1. In(h, handled) => Before(h, h, sent)
      BY <1>0, <1>2, <1>3, <1>4 DEF HandledInv, h
    <3> QED BY <1>0, <1>2, <3>1, NotBeforeItself DEF SentInv
  <2>2. IsInjective(handled')
    BY <1>0, <1>1, <1>2, <2>1, InjectiveAppend DEF HandledInOrder
  <2>3. ASSUME NEW l \in Messages, In(l, handled)
        PROVE  Before(l, h, sent) \/ target[h] \in forgotten
    <3>1. In(l, sent)
      BY <1>0, <2>3 DEF HandledInv
    <3>2. target[l] \in 1..made /\ made \in Nat /\ made <= MaxQueues /\ MaxQueues \in Nat
      BY <1>0, <3>1 DEF SentInv, TypeOK
    <3>3. target[l] \in Queues
      BY <3>2 DEF Queues
    <3>4. CASE target[l] = q
      BY <1>0, <1>3, <2>3, <3>4 DEF HandledInv, h
    <3>5. CASE target[l] < q
      BY <1>0, <1>2, <1>4, <2>3, <3>5 DEF TakenInv
    <3>6. CASE q < target[l]
      <4>1. q < made
        BY <3>2, <3>6 DEF Queues
      <4>2. registered # q
        BY <1>0, <4>1 DEF TaskInv, QueueInv, Queues, None
      <4> QED BY <1>0, <1>1, <1>4, <4>2 DEF TaskInv, Active
    <3> QED BY <3>2, <3>3, <3>4, <3>5, <3>6 DEF Queues
  <2> QED BY <1>0, <1>1, <1>6, <2>2, <2>3 DEF HandledInOrder
<1> QED BY <1>7, <1>8, <1>9, <1>11, <1>12, <1>13 DEF Data

\* and of the messages in them.
LEMMA DataStep == Inv /\ Next => Data'
<1> SUFFICES ASSUME Inv, Next PROVE Data'
  OBVIOUS
<1>0. TypeOK /\ QueueInv /\ TaskInv /\ SentInv
  BY DEF Inv, Control, Data
<1>1. ASSUME NEW m \in Messages, Send(m) PROVE Data'
  <2>1. /\ GetOrCreate /\ Put(m, queue') /\ target' = [target EXCEPT ![m] = queue']
        /\ sender[m] = "idle" /\ UNCHANGED <<hand, handled, forgotten>>
    BY <1>1 DEF Send
  <2>2. /\ queue' \in 1..made' /\ made' \in 0..MaxQueues /\ made <= made' /\ queue' \in Queues
    BY <1>0, <2>1, SendQueue
  <2>3. /\ target' \in [Messages -> 0..made'] /\ target'[m] = queue' /\ made' \in Nat
        /\ \A n \in Messages : n # m => target'[n] = target[n]
    BY <1>0, <2>1, <2>2 DEF TypeOK
  <2>4. \A p \in Queues : Holds(p)' <=> Holds(p)
    <3>1. CASE UNCHANGED task
      BY <3>1 DEF Holds
    <3>2. CASE queue = None /\ task' = [task EXCEPT ![made + 1] = "starting"]
      <4>1. task[made + 1] = "none" /\ made + 1 \in Queues
        BY <1>0, <2>1, <2>2, <3>2 DEF GetOrCreate, TaskInv, TypeOK
      <4> QED BY <1>0, <3>2, <4>1 DEF Holds, TypeOK
    <3> QED BY <2>1, <3>1, <3>2 DEF GetOrCreate, StartListener
  <2> QED BY <2>1, <2>2, <2>3, <2>4, PutData
<1>2. ASSUME NEW m \in Messages, Unblock(m) PROVE Data'
  <2>1. target[m] \in 1..made /\ made \in Nat /\ made <= MaxQueues /\ MaxQueues \in Nat
    BY <1>0, <1>2 DEF Unblock, SentInv, TypeOK
  <2>2. target[m] \in Queues
    BY <2>1 DEF Queues
  <2>3. /\ Put(m, target[m]) /\ sender[m] # "done" /\ made' = made
        /\ UNCHANGED <<hand, handled, forgotten, target, task>>
    BY <1>2 DEF Unblock, listenerVars, managerVars
  <2>4. target' \in [Messages -> 0..made']
    BY <1>0, <2>3 DEF TypeOK
  <2>5. \A p \in Queues : Holds(p)' <=> Holds(p)
    BY <2>3 DEF Holds
  <2> QED BY <2>1, <2>2, <2>3, <2>4, <2>5, PutData
<1>3. ASSUME RemoveQueue PROVE Data'
  BY <1>3, QuietData DEF RemoveQueue, senderVars, Holds
<1>4. ASSUME SetListener PROVE Data'
  <2>1. \A p \in Queues : Holds(p)' => Holds(p)
    BY <1>0, <1>4 DEF SetListener, Holds, TypeOK
  <2> QED BY <1>4, <2>1, QuietData DEF SetListener, senderVars
<1>5. ASSUME ClearListener PROVE Data'
  BY <1>5, QuietData DEF ClearListener, senderVars, Holds
<1>6. ASSUME Cleared PROVE Data'
  BY <1>6, QuietData DEF Cleared, senderVars, listenerVars, Holds
<1>7. ASSUME NEW q \in Queues, Listener(q) PROVE Data'
  <2>1. ASSUME Start(q) PROVE Data'
    <3>1. \A p \in Queues : Holds(p)' => Holds(p) /\ hand'[p] = hand[p]
      BY <1>0, <2>1 DEF Start, Hands, Holds, TypeOK
    <3> QED BY <2>1, <3>1, QuietData DEF Start, senderVars, managerVars
  <2>2. ASSUME Break(q) PROVE Data'
    <3>1. \A p \in Queues : Holds(p)' => Holds(p) /\ hand'[p] = hand[p]
      BY <1>0, <2>2 DEF Break, Hands, Holds, TypeOK
    <3>2. \A p \in Queues : \/ content'[p] = content[p]
                            \/ content[p] # <<>> /\ content'[p] = Tail(content[p])
      BY <1>0, <2>2 DEF Break, TypeOK
    <3> QED BY <2>2, <3>1, <3>2, QuietData DEF Break, senderVars, managerVars
  <2>3. ASSUME Call(q) PROVE Data'
    <3>1. \A p \in Queues : Holds(p)' => Holds(p) /\ hand'[p] = hand[p]
      BY <1>0, <2>3 DEF Call, Hands, Holds, TypeOK
    <3> QED BY <2>3, <3>1, QuietData DEF Call, senderVars, managerVars
  <2>4. ASSUME DoneCallback(q) PROVE Data'
    <3>1. \A p \in Queues : Holds(p)' => Holds(p) /\ hand'[p] = hand[p]
      BY <1>0, <2>4 DEF DoneCallback, Hands, Holds, TypeOK
    <3> QED BY <2>4, <3>1, QuietData DEF DoneCallback, senderVars
  <2> QED BY <1>7, <2>1, <2>2, <2>3, <2>4, TakeData, CallEndsData DEF Listener
<1> QED BY <1>1, <1>2, <1>3, <1>4, <1>5, <1>6, <1>7 DEF Next

----------------------------------------------------------------------------
(* The theorems                                                            *)

\* The inductive invariant: where the messages that were put are and in which
\* order, and whom of its listeners the manager knows.
THEOREM Invariance == Spec => []Inv
<1>1. Inv /\ [Next]_vars => Inv'
  <2> SUFFICES ASSUME Inv, [Next]_vars PROVE Inv'
    OBVIOUS
  <2>1. CASE Next
    BY <2>1, TypeStep, ControlStep, DataStep, LateStep DEF Inv, Data
  <2>2. CASE UNCHANGED vars
    BY <2>2 DEF vars, managerVars, adapterVars, listenerVars, senderVars, Inv, TypeOK,
       Control, QueueInv, TaskInv, Data, SentInv, ContentInv, HandInv, HandledInv, TakenInv,
       HandledInOrder, LateInv, Active, Holds, In
  <2> QED BY <2>1, <2>2
<1> QED BY InitInv, <1>1, PTL DEF Spec

\* Messages are handled in the order in which they were put, and none twice,
\* but for listeners the manager has lost (webchat_queue_mgr.py:109, 150).
THEOREM HandlesInOrder == Spec => []InOrder
<1>1. Inv => InOrder
  <2> SUFFICES ASSUME Inv PROVE InOrder
    OBVIOUS
  <2>1. handled \in Seq(Messages) /\ HandledInOrder
    BY DEF Inv, Data, TypeOK
  <2>2. ASSUME NEW i \in DOMAIN handled, NEW j \in DOMAIN handled, i < j
        PROVE  Before(handled[i], handled[j], sent) \/ target[handled[j]] \in forgotten
    <3>1. Before(handled[i], handled[j], handled)
      BY <2>2 DEF Before
    <3>2. handled[i] \in Messages /\ handled[j] \in Messages
      BY <2>1, DomainFact
    <3> QED BY <2>1, <3>1, <3>2 DEF HandledInOrder
  <2> QED BY <2>1, <2>2 DEF InOrder, HandledInOrder
<1> QED BY <1>1, Invariance, PTL

\* After the conversation is deleted at most one message of its queue is
\* handled (webchat_queue_mgr.py:117, 167).
THEOREM AtMostOneLate == Spec => []OneLateAtMost
<1>1. Inv => OneLateAtMost
  <2> SUFFICES ASSUME Inv, NEW q \in Queues PROVE late[q] <= 1
    BY DEF OneLateAtMost
  <2>1. late[q] \in Nat /\ (late[q] > 0 => late[q] = 1)
    BY DEF Inv, TypeOK, LateInv
  <2> QED BY <2>1
<1> QED BY <1>1, Invariance, PTL

----------------------------------------------------------------------------
(* Nothing strays                                                          *)

\* An open queue has its listener at work, which nobody has cancelled, while the
\* adapter is there.
ListenInv ==
    /\ cancelled \subseteq closed
    /\ adapter = "on" => \A q \in 1..made : q \in closed \/ Active(q)

\* Where a message that was put is, if its queue is open.
Found(m) ==
    \/ In(m, handled) \/ In(m, content[target[m]])
    \/ Holds(target[m]) /\ hand[target[m]] = m

FoundInv ==
    /\ \A m \in Messages : sender[m] = "done" => In(m, sent)
    /\ adapter \in {"new", "on"} =>
        \A m \in Messages : In(m, sent) /\ target[m] \notin closed => Found(m)

LEMMA HeadOrTail ==
    ASSUME NEW S, NEW s \in Seq(S), s # <<>>, NEW x, In(x, s)
    PROVE  x = Head(s) \/ In(x, Tail(s))
<1>1. /\ Len(Tail(s)) = Len(s) - 1 /\ Len(s) \in Nat \ {0} /\ Head(s) = s[1]
      /\ \A i \in 1..(Len(s) - 1) : Tail(s)[i] = s[i + 1]
      /\ DOMAIN s = 1..Len(s) /\ DOMAIN Tail(s) = 1..(Len(s) - 1)
  OBVIOUS
<1>2. PICK i \in 1..Len(s) : s[i] = x
  BY <1>1 DEF In
<1>3. CASE i = 1
  BY <1>1, <1>2, <1>3
<1>4. CASE i # 1
  <2>1. i - 1 \in 1..(Len(s) - 1) /\ (i - 1) + 1 = i
    BY <1>1, <1>4
  <2> QED BY <1>1, <1>2, <2>1 DEF In
<1> QED BY <1>3, <1>4

\* A queue is not open with a listener that has ended.
LEMMA ListenStep == Inv /\ ListenInv /\ Next => ListenInv'
<1> SUFFICES ASSUME Inv, ListenInv, Next PROVE ListenInv'
  OBVIOUS
<1>0. TypeOK /\ QueueInv /\ TaskInv
  BY DEF Inv, Control
<1>a. 1..made \subseteq Queues /\ made \in Nat
  BY <1>0 DEF TypeOK, Queues
<1>1. ASSUME NEW m \in Messages, Send(m) PROVE ListenInv'
  <2>1. GetOrCreate /\ UNCHANGED <<adapterVars, cancelled>>
    BY <1>1 DEF Send
  <2>2. CASE queue # None
    BY <2>1, <2>2 DEF GetOrCreate, managerVars, adapterVars, ListenInv, Active
  <2>3. CASE queue = None
    <3>1. /\ made' = made + 1 /\ closed' = closed /\ made + 1 \in Queues
          /\ StartListener(made + 1)
      BY <1>0, <2>1, <2>3, SendQueue DEF GetOrCreate
    <3>2. ASSUME adapter = "on", NEW q \in 1..(made + 1) PROVE q \in closed \/ Active(q)'
      <4>1. task' = [task EXCEPT ![made + 1] = "starting"]
        BY <3>1, <3>2 DEF StartListener
      <4>2. CASE q = made + 1
        BY <1>0, <3>1, <4>1, <4>2 DEF TypeOK, Active
      <4>3. CASE q # made + 1
        <5>1. q \in 1..made
          BY <1>a, <4>3
        <5>2. task'[q] = task[q]
          BY <1>0, <1>a, <4>1, <4>3, <5>1 DEF TypeOK
        <5> QED BY <3>2, <5>1, <5>2 DEF ListenInv, Active
      <4> QED BY <4>2, <4>3
    <3> QED BY <2>1, <3>1, <3>2 DEF ListenInv, adapterVars
  <2> QED BY <2>2, <2>3
<1>2. ASSUME NEW m \in Messages, Unblock(m) PROVE ListenInv'
  BY <1>2 DEF Unblock, ListenInv, managerVars, adapterVars, listenerVars, Active
<1>3. CASE RemoveQueue
  BY <1>0, <1>3 DEF RemoveQueue, QueueInv, TaskInv, ListenInv, adapterVars, Active
<1>4. CASE SetListener
  <2>1. /\ \A q \in 1..made : q # queue => q \in closed
        /\ UNCHANGED <<made, closed, cancelled>>
    BY <1>0, <1>4 DEF SetListener, QueueInv
  <2>2. queue \in 1..made => Active(queue)'
    BY <1>0, <1>a, <1>4 DEF SetListener, Active, TypeOK, None
  <2>3. \A q \in 1..made : q \in closed \/ Active(q)'
    <3> SUFFICES ASSUME NEW q \in 1..made, q \notin closed PROVE Active(q)'
      OBVIOUS
    <3>1. q = queue
      BY <2>1
    <3>2. queue' = queue
      BY <1>4 DEF SetListener
    <3> QED BY <2>2, <3>1, <3>2 DEF Active
  <2> QED BY <2>1, <2>3 DEF ListenInv
<1>5. CASE ClearListener
  BY <1>0, <1>5 DEF ClearListener, QueueInv, TaskInv, ListenInv
<1>6. CASE Cleared
  BY <1>6 DEF Cleared, ListenInv, listenerVars
<1>7. ASSUME NEW q \in Queues, Listener(q) PROVE ListenInv'
  <2>1. UNCHANGED <<made, closed, cancelled, adapter>>
    BY <1>7 DEF Listener, Start, Take, Break, Call, CallEnds, DoneCallback, managerVars,
                adapterVars
  <2>2. \A p \in 1..made : p # q => task'[p] = task[p]
    BY <1>0, <1>a, <1>7 DEF Listener, Start, Take, Break, Call, CallEnds, DoneCallback, Hands,
                            TypeOK
  <2>3. q \in closed \/ (Active(q) => Active(q)')
    <3>1. CASE Start(q)
      BY <1>0, <3>1 DEF Start, Hands, Active, TypeOK, ListenInv
    <3>2. CASE Take(q) \/ Call(q) \/ CallEnds(q)
      BY <1>0, <3>2 DEF Take, Call, CallEnds, Hands, Active, TypeOK
    <3>3. CASE Break(q)
      BY <3>3 DEF Break, ListenInv
    <3>4. CASE DoneCallback(q)
      BY <3>4 DEF DoneCallback, Hands, Active
    <3> QED BY <1>7, <3>1, <3>2, <3>3, <3>4 DEF Listener
  <2>4. \A p \in 1..made : p # q => (Active(p)' <=> Active(p))
    BY <2>2 DEF Active
  <2> QED BY <2>1, <2>3, <2>4 DEF ListenInv
<1> QED BY <1>1, <1>2, <1>3, <1>4, <1>5, <1>6, <1>7 DEF Next

\* A message that is put joins the content of its queue.
LEMMA PutFound ==
    ASSUME Inv, FoundInv, NEW m \in Messages, NEW q \in Queues, Put(m, q),
           sender[m] # "done", target'[m] = q,
           \A n \in Messages : n # m => target'[n] = target[n],
           \A p \in Queues : Holds(p) => Holds(p)',
           UNCHANGED <<hand, handled, closed, adapter>>
    PROVE  FoundInv'
<1>0. TypeOK /\ SentInv /\ \A n \in Messages : In(n, sent) => n # m /\ target[n] \in Queues
  <2>1. TypeOK /\ SentInv
    BY DEF Inv, Data
  <2>2. made \in Nat /\ made <= MaxQueues /\ MaxQueues \in Nat
    BY <2>1 DEF TypeOK
  <2> QED BY <2>1, <2>2 DEF SentInv, Queues
<1>1. /\ sent \in Seq(Messages) /\ \A p \in Queues : content[p] \in Seq(Messages)
      /\ sender \in [Messages -> {"idle", "blocked", "done"}]
  BY <1>0 DEF TypeOK
<1>2. CASE Len(content[q]) < Maxsize
  <2>1. /\ content' = [content EXCEPT ![q] = Append(content[q], m)]
        /\ sent' = Append(sent, m) /\ sender' = [sender EXCEPT ![m] = "done"]
    BY <1>2 DEF Put
  <2>2. \A x : In(x, sent') <=> In(x, sent) \/ x = m
    BY <1>1, <2>1, InAppend
  <2>3. content'[q] = Append(content[q], m) /\ \A p \in Queues \ {q} : content'[p] = content[p]
    BY <1>0, <2>1 DEF TypeOK
  <2>4. \A x : In(x, content'[q]) <=> In(x, content[q]) \/ x = m
    BY <1>1, <2>3, InAppend
  <2>5. \A n \in Messages : sender'[n] = "done" => In(n, sent')
    BY <1>1, <2>1, <2>2 DEF FoundInv
  <2>6. ASSUME adapter \in {"new", "on"}, NEW n \in Messages, In(n, sent'),
               target'[n] \notin closed
        PROVE  Found(n)'
    <3>1. CASE n = m
      BY <2>4, <3>1 DEF Found
    <3>2. CASE n # m
      <4>1. Found(n) /\ target'[n] = target[n] /\ target[n] \in Queues
        BY <1>0, <2>2, <2>6, <3>2 DEF FoundInv
      <4> QED BY <2>3, <2>4, <4>1 DEF Found
    <3> QED BY <3>1, <3>2
  <2> QED BY <2>5, <2>6 DEF FoundInv
<1>3. CASE ~(Len(content[q]) < Maxsize)
  <2>1. content' = content /\ sent' = sent /\ sender' = [sender EXCEPT ![m] = "blocked"]
    BY <1>3 DEF Put
  <2>2. \A n \in Messages : sender'[n] = "done" => In(n, sent')
    BY <1>1, <2>1 DEF FoundInv
  <2>3. ASSUME adapter \in {"new", "on"}, NEW n \in Messages, In(n, sent'),
               target'[n] \notin closed
        PROVE  Found(n)'
    <3>1. In(n, sent) /\ target'[n] = target[n] /\ target[n] \in Queues
      BY <1>0, <2>1, <2>3
    <3> QED BY <2>1, <2>3, <3>1 DEF Found, FoundInv
  <2> QED BY <2>2, <2>3 DEF FoundInv
<1> QED BY <1>2, <1>3

\* The other steps may move it, or close its queue.
LEMMA QuietFound ==
    ASSUME Inv, FoundInv, UNCHANGED <<sent, sender, target>>, closed \subseteq closed',
           adapter' \in {"new", "on"} =>
              /\ adapter \in {"new", "on"}
              /\ \A m \in Messages : target[m] \in Queues \ closed' /\ Found(m) => Found(m)'
    PROVE  FoundInv'
<1>1. \A m \in Messages : In(m, sent) => target[m] \in Queues
  <2>1. SentInv /\ made \in Nat /\ made <= MaxQueues /\ MaxQueues \in Nat
    BY DEF Inv, Data, TypeOK
  <2> QED BY <2>1 DEF SentInv, Queues
<1> QED BY <1>1 DEF FoundInv

LEMMA FoundStep == Inv /\ ListenInv /\ FoundInv /\ Next => FoundInv'
<1> SUFFICES ASSUME Inv, ListenInv, FoundInv, Next PROVE FoundInv'
  OBVIOUS
<1>0. TypeOK /\ QueueInv /\ TaskInv /\ SentInv
  BY DEF Inv, Control, Data
<1>1. ASSUME NEW m \in Messages, Send(m) PROVE FoundInv'
  <2>1. /\ GetOrCreate /\ Put(m, queue') /\ target' = [target EXCEPT ![m] = queue']
        /\ sender[m] = "idle" /\ UNCHANGED <<adapterVars, hand, handled>>
    BY <1>1 DEF Send
  <2>2. queue' \in Queues /\ closed' = closed
    BY <1>0, <2>1, SendQueue DEF GetOrCreate, managerVars
  <2>3. target'[m] = queue' /\ \A n \in Messages : n # m => target'[n] = target[n]
    BY <1>0, <2>1 DEF TypeOK
  <2>4. \A p \in Queues : Holds(p) => Holds(p)'
    <3>1. CASE UNCHANGED task
      BY <3>1 DEF Holds
    <3>2. CASE queue = None /\ task' = [task EXCEPT ![made + 1] = "starting"]
      <4>1. made + 1 \in Queues /\ made \in Nat
        BY <1>0, <2>1, <2>2, <3>2 DEF GetOrCreate, TypeOK
      <4>2. task[made + 1] = "none"
        BY <1>0, <4>1 DEF TaskInv
      <4> QED BY <1>0, <3>2, <4>2 DEF Holds, TypeOK
    <3> QED BY <2>1, <3>1, <3>2 DEF GetOrCreate, StartListener
  <2> QED BY <2>1, <2>2, <2>3, <2>4, PutFound DEF adapterVars
<1>2. ASSUME NEW m \in Messages, Unblock(m) PROVE FoundInv'
  <2>1. target[m] \in Queues
    <3>1. target[m] \in 1..made /\ made \in Nat /\ made <= MaxQueues /\ MaxQueues \in Nat
      BY <1>0, <1>2 DEF Unblock, SentInv, TypeOK
    <3> QED BY <3>1 DEF Queues
  <2>2. /\ Put(m, target[m]) /\ sender[m] # "done"
        /\ UNCHANGED <<hand, handled, closed, adapter, target, task>>
    BY <1>2 DEF Unblock, listenerVars, managerVars, adapterVars
  <2> QED BY <2>1, <2>2, PutFound DEF Holds
<1>3. CASE RemoveQueue
  BY <1>3, QuietFound DEF RemoveQueue, senderVars, adapterVars, Found, Holds
<1>4. CASE SetListener
  <2>1. \A p \in Queues : Holds(p) => Holds(p)'
    BY <1>0, <1>4 DEF SetListener, TaskInv, Holds
  <2> QED BY <1>4, <2>1, QuietFound DEF SetListener, senderVars, Found
<1>5. CASE ClearListener
  BY <1>5, QuietFound DEF ClearListener, senderVars
<1>6. CASE Cleared
  BY <1>6, QuietFound DEF Cleared, senderVars
<1>7. ASSUME NEW q \in Queues, Listener(q) PROVE FoundInv'
  <2>0. UNCHANGED <<sent, sender, target, closed, adapter>>
    BY <1>7 DEF Listener, Start, Take, Break, Call, CallEnds, DoneCallback, managerVars,
                adapterVars, senderVars
  <2> DEFINE Kept(m) == target[m] \in Queues \ closed /\ Found(m) => Found(m)'
  <2>a. ASSUME adapter \in {"new", "on"} => \A m \in Messages : Kept(m) PROVE FoundInv'
    BY <2>0, <2>a, QuietFound
  <2>b. /\ \A p \in Queues : p # q => task'[p] = task[p] /\ hand'[p] = hand[p]
        /\ \A p \in Queues : p # q => content'[p] = content[p]
    BY <1>0, <1>7 DEF Listener, Start, Take, Break, Call, CallEnds, DoneCallback, Hands, TypeOK
  <2>1. CASE Start(q) \/ DoneCallback(q)
    <3>1. content' = content /\ handled' = handled /\ ~Holds(q)
      BY <2>1 DEF Start, DoneCallback, Hands, Holds
    <3> QED BY <2>0, <2>a, <2>b, <3>1 DEF Found, Holds
  <2>2. CASE Take(q)
    <3>1. /\ content[q] # <<>> /\ content'[q] = Tail(content[q]) /\ handled' = handled
          /\ ~Holds(q) /\ Holds(q)' /\ hand'[q] = Head(content[q])
      BY <1>0, <2>2 DEF Take, Hands, Holds, TypeOK
    <3>2. content[q] \in Seq(Messages)
      BY <1>0 DEF TypeOK
    <3>3. \A x : In(x, content[q]) => x = Head(content[q]) \/ In(x, content'[q])
      BY <3>1, <3>2, HeadOrTail
    <3> QED BY <2>0, <2>a, <2>b, <3>1, <3>3 DEF Found, Holds
  <2>3. CASE Break(q)
    <3>1. q \in closed /\ handled' = handled
      BY <2>3 DEF Break, ListenInv
    <3> QED BY <2>0, <2>a, <2>b, <3>1 DEF Found, Holds
  <2>4. CASE Call(q)
    <3>1. adapter # "new" /\ content' = content /\ handled' = handled /\ task[q] = "took"
      BY <1>0, <2>4 DEF Call, Hands, TaskInv
    <3>2. adapter = "on" => hand'[q] = hand[q] /\ Holds(q)'
      BY <1>0, <2>4 DEF Call, Hands, Holds, TypeOK
    <3> QED BY <2>0, <2>a, <2>b, <3>1, <3>2 DEF Found, Holds
  <2>5. CASE CallEnds(q)
    <3>1. content' = content /\ handled' = Append(handled, hand[q]) /\ hand[q] \in Messages
      BY <1>0, <2>5 DEF CallEnds, Hands, TypeOK
    <3>2. handled \in Seq(Messages)
      BY <1>0 DEF TypeOK
    <3>3. \A x : In(x, handled') <=> In(x, handled) \/ x = hand[q]
      BY <3>1, <3>2, InAppend
    <3> QED BY <2>0, <2>a, <2>b, <3>1, <3>3 DEF Found, Holds
  <2> QED BY <1>7, <2>1, <2>2, <2>3, <2>4, <2>5 DEF Listener
<1> QED BY <1>1, <1>2, <1>3, <1>4, <1>5, <1>6, <1>7 DEF Next

\* While the adapter is there, a message that was sent has been handled, or its queue
\* was closed; or the listener of that queue is at work and has it in its hand or in
\* the queue, or will make room for it: no listener ends and leaves an open queue, and
\* a put that is not seen by it is none that was lost (webchat_queue_mgr.py:26, 129).
THEOREM NothingStrays ==
    Spec => [](adapter = "on" =>
                 \A m \in Messages : sender[m] # "idle" /\ target[m] \notin closed =>
                    /\ Active(target[m]) /\ target[m] \notin cancelled
                    /\ \/ In(m, handled) \/ In(m, content[target[m]])
                       \/ Holds(target[m]) /\ hand[target[m]] = m
                       \/ sender[m] = "blocked")
<1>1. Init => ListenInv /\ FoundInv
  BY EmptyFact DEF Init, ListenInv, FoundInv
<1>2. Inv /\ ListenInv /\ FoundInv /\ [Next]_vars => ListenInv' /\ FoundInv'
  <2>1. CASE UNCHANGED vars
    BY <2>1 DEF vars, managerVars, adapterVars, listenerVars, senderVars, ListenInv, FoundInv,
                Found, Active, Holds
  <2> QED BY <2>1, ListenStep, FoundStep
<1>3. Inv /\ ListenInv /\ FoundInv /\ adapter = "on" =>
        \A m \in Messages : sender[m] # "idle" /\ target[m] \notin closed =>
            /\ Active(target[m]) /\ target[m] \notin cancelled
            /\ \/ In(m, handled) \/ In(m, content[target[m]])
               \/ Holds(target[m]) /\ hand[target[m]] = m
               \/ sender[m] = "blocked"
  <2> SUFFICES ASSUME Inv, ListenInv, FoundInv, adapter = "on", NEW m \in Messages,
                      sender[m] # "idle", target[m] \notin closed
               PROVE  /\ Active(target[m]) /\ target[m] \notin cancelled
                      /\ Found(m) \/ sender[m] = "blocked"
    BY DEF Found
  <2>1. target[m] \in 1..made /\ sender[m] \in {"idle", "blocked", "done"}
    BY DEF Inv, Data, SentInv, TypeOK
  <2> QED BY <2>1 DEF ListenInv, FoundInv
<1> QED BY <1>1, <1>2, <1>3, Invariance, PTL DEF Spec

----------------------------------------------------------------------------
(* WebChatRun, the other end of a conversation: one run of the dashboard,  *)
(* for all payloads, streams and queue sizes. RunInv ties each buffer to   *)
(* what was published since its stream's snapshot, and each payload to the *)
(* one place it is in: not yet put, in the back queue, at work, pending or *)
(* stored.                                                                 *)

\* The revisions after a, up to b
Window(a, b) == [i \in 1..b - a |-> a + i]

StreamInv ==
    /\ \A s \in subscribers :
        stream[s] = "open" /\ buffer[s] = Window(seen[s], revision)
    /\ \A s \in Streams \ subscribers :
        buffer[s] = IF stream[s] = "open" THEN <<Last>> ELSE <<>>

\* A payload is put once and taken once.
BackInv ==
    /\ \A i \in 1..Len(back) : call[back[i]] = "accepted" /\ back[i] \notin consumed
    /\ \A i, j \in 1..Len(back) : back[i] = back[j] => i = j
    /\ \A p \in consumed : call[p] = "accepted"
    /\ pc = "attaching" =>
        /\ atWork \in Payloads /\ call[atWork] = "accepted" /\ atWork \notin consumed
        /\ \A i \in 1..Len(back) : back[i] # atWork

\* Only a save that was cut short leaves what it stored pending.
StoreInv ==
    /\ pc \in {"starting", "getting", "attaching", "saving"} => status = "running"
    /\ \A p \in Payloads \ consumed : stored[p] = 0
    /\ \A p \in pending : stored[p] = 0 \/ (status = "stopped" /\ stored[p] = 1)

RunInv == RunTypeOK /\ StreamInv /\ BackInv /\ StoreInv /\ AccountedFor

USE WebChatRunAssumption

----------------------------------------------------------------------------
(* Windows of revisions                                                    *)

LEMMA WindowFact ==
    ASSUME NEW a \in Nat, NEW b \in Nat, a <= b
    PROVE  /\ Window(a, b) \in Seq(Nat) /\ Len(Window(a, b)) = b - a
           /\ \A i \in 1..(b - a) : Window(a, b)[i] = a + i
           /\ a = b <=> Window(a, b) = <<>>
<1>1. b - a \in Nat /\ \A i \in 1..(b - a) : a + i \in Nat
  OBVIOUS
<1>2. Window(a, b) \in [1..(b - a) -> Nat]
  BY <1>1 DEF Window
<1>3. Window(a, b) \in Seq(Nat)
  BY <1>1, <1>2, SeqDef
<1>4. Len(Window(a, b)) = b - a
  BY <1>1, <1>2, <1>3, LenProperties
<1>5. Window(a, b) = <<>> <=> Len(Window(a, b)) = 0
  BY <1>3
<1> QED BY <1>1, <1>3, <1>4, <1>5 DEF Window

\* One more event is published.
LEMMA WindowGrows ==
    ASSUME NEW a \in Nat, NEW b \in Nat, a <= b
    PROVE  Append(Window(a, b), b + 1) = Window(a, b + 1)
<1> DEFINE w == Window(a, b)
           v == Append(w, b + 1)
           u == Window(a, b + 1)
<1>1. /\ w \in Seq(Nat) /\ Len(w) = b - a
      /\ \A i \in 1..(b - a) : w[i] = a + i
  BY WindowFact
<1>2. /\ u \in Seq(Nat) /\ Len(u) = b + 1 - a
      /\ \A i \in 1..(b + 1 - a) : u[i] = a + i
  BY WindowFact
<1> HIDE DEF w, u
<1>3. /\ v \in Seq(Nat) /\ Len(v) = b + 1 - a
      /\ \A i \in 1..(b + 1 - a) : v[i] = IF i = b + 1 - a THEN b + 1 ELSE w[i]
  BY <1>1
<1> HIDE DEF v
<1>4. ASSUME NEW i \in 1..(b + 1 - a) PROVE v[i] = u[i]
  <2>1. u[i] = a + i
    BY <1>2
  <2>2. CASE i = b + 1 - a
    BY <1>3, <2>1, <2>2
  <2>3. CASE i # b + 1 - a
    <3>1. i \in 1..(b - a)
      BY <2>3
    <3> QED BY <1>1, <1>3, <2>1, <2>3, <3>1
  <2> QED BY <2>2, <2>3
<1>5. v = u
  BY <1>2, <1>3, <1>4, SeqEqual
<1> QED BY <1>5 DEF u, v, w

\* One event is read.
LEMMA WindowShrinks ==
    ASSUME NEW a \in Nat, NEW b \in Nat, a < b
    PROVE  /\ Head(Window(a, b)) = a + 1
           /\ Tail(Window(a, b)) = Window(a + 1, b)
<1> DEFINE w == Window(a, b)
           v == Tail(w)
           u == Window(a + 1, b)
<1>1. /\ w \in Seq(Nat) /\ Len(w) = b - a /\ w # <<>>
      /\ \A i \in 1..(b - a) : w[i] = a + i
  BY WindowFact
<1>2. /\ u \in Seq(Nat) /\ Len(u) = b - (a + 1)
      /\ \A i \in 1..(b - (a + 1)) : u[i] = a + 1 + i
  BY WindowFact
<1> HIDE DEF w, u
<1>3. /\ v \in Seq(Nat) /\ Len(v) = Len(w) - 1 /\ Head(w) = w[1]
      /\ \A i \in 1..Len(v) : v[i] = w[i + 1]
  BY <1>1
<1> HIDE DEF v
<1>4. \A i \in 1..Len(v) : v[i] = u[i]
  BY <1>1, <1>2, <1>3
<1>5. v = u
  BY <1>1, <1>2, <1>3, <1>4, SeqEqual
<1>6. Head(w) = a + 1
  BY <1>1, <1>3
<1> QED BY <1>5, <1>6 DEF u, v, w

----------------------------------------------------------------------------
(* Publishing, storing, taking in                                          *)

BufferOK ==
    /\ buffer \in [Streams -> Seq(Nat)]
    /\ \A s \in Streams : Len(buffer[s]) <= BufferSize

\* A stream is given the next revision, or is ended.
LEMMA PublishFact ==
    ASSUME RunInv, Publish, seen' = seen, stream' = stream
    PROVE  /\ revision' = revision + 1 /\ subscribers' \subseteq subscribers
           /\ BufferOK' /\ StreamInv'
<1>a. /\ revision \in Nat /\ subscribers \subseteq Streams
      /\ seen \in [Streams -> 0..revision] /\ BufferOK
  BY DEF RunInv, RunTypeOK, BufferOK
<1>b. StreamInv
  BY DEF RunInv
<1>c. Last \in Nat /\ <<Last>> \in Seq(Nat) /\ Len(<<Last>>) = 1 /\ BufferSize >= 1
  BY DEF Last
<1>1. /\ revision' = revision + 1 /\ subscribers' = subscribers \ Slow
      /\ Slow \subseteq subscribers
  BY DEF Publish, Slow
<1>2. ASSUME NEW s \in Slow PROVE buffer'[s] = <<Last>> /\ s \in Streams /\ s \notin subscribers'
  BY <1>1, <1>2, <1>a DEF Publish
<1>3. ASSUME NEW s \in subscribers \ Slow
      PROVE  /\ buffer'[s] \in Seq(Nat) /\ Len(buffer'[s]) <= BufferSize
             /\ buffer'[s] = Window(seen[s], revision + 1)
  <2>1. buffer'[s] = Append(buffer[s], revision + 1) /\ s \in Streams
    BY <1>3, <1>a DEF Publish
  <2>2. buffer[s] = Window(seen[s], revision) /\ seen[s] \in Nat /\ seen[s] <= revision
    BY <1>a, <1>b DEF StreamInv
  <2>3. Len(buffer[s]) < BufferSize /\ buffer[s] \in Seq(Nat)
    BY <1>3, <1>a, <2>1 DEF Slow, BufferOK
  <2>4. /\ Append(buffer[s], revision + 1) \in Seq(Nat)
        /\ Len(Append(buffer[s], revision + 1)) = Len(buffer[s]) + 1
    BY <1>a, <2>3
  <2>5. Len(buffer[s]) \in Nat
    BY <2>3
  <2>6. Append(Window(seen[s], revision), revision + 1) = Window(seen[s], revision + 1)
    BY <1>a, <2>2, WindowGrows
  <2>7. Len(buffer[s]) + 1 <= BufferSize
    BY <2>3, <2>5
  <2> QED BY <2>1, <2>2, <2>4, <2>6, <2>7
<1>4. ASSUME NEW s \in Streams \ subscribers PROVE buffer'[s] = buffer[s] /\ s \notin subscribers'
  BY <1>1, <1>4 DEF Publish, Slow
<1>5. DOMAIN buffer' = Streams /\ buffer' = [s \in Streams |-> buffer'[s]]
  BY DEF Publish
<1>6. BufferOK'
  <2>1. \A s \in Streams : buffer'[s] \in Seq(Nat) /\ Len(buffer'[s]) <= BufferSize
    BY <1>a, <1>c, <1>2, <1>3, <1>4 DEF BufferOK
  <2> QED BY <1>5, <2>1 DEF BufferOK
<1>7. StreamInv'
  <2>1. \A s \in subscribers' : stream[s] = "open" /\ buffer'[s] = Window(seen[s], revision + 1)
    BY <1>1, <1>3, <1>b DEF StreamInv
  <2>2. \A s \in Streams \ subscribers' :
            buffer'[s] = IF stream[s] = "open" THEN <<Last>> ELSE <<>>
    BY <1>1, <1>2, <1>4, <1>b DEF StreamInv
  <2> QED BY <1>1, <2>1, <2>2 DEF StreamInv
<1> QED BY <1>1, <1>6, <1>7

ContentOK ==
    /\ pending \subseteq consumed /\ consumed \subseteq Texts
    /\ stored \in [Payloads -> 0..2]

\* What is pending is stored, whenever that is.
LEMMA StoredFact ==
    ASSUME RunInv, Store, pending' = {}, consumed' = consumed,
           status' \in {status, "completed"}, pc' \in {"getting", "flushing", "over"},
           pc' = "getting" => status' = "running",
           status' = "completed" => status \in {"running", "completed"}
    PROVE  ContentOK' /\ StoreInv' /\ AccountedFor'
<1>a. /\ pending \subseteq consumed /\ consumed \subseteq Texts /\ Texts \subseteq Payloads
      /\ stored \in [Payloads -> 0..2]
  BY DEF RunInv, RunTypeOK
<1>b. StoreInv /\ AccountedFor
  BY DEF RunInv
<1>1. /\ \A p \in pending : stored'[p] = stored[p] + 1
      /\ \A p \in Payloads \ pending : stored'[p] = stored[p]
  BY <1>a DEF Store
<1>2. \A p \in pending : stored[p] \in 0..1
  BY <1>a, <1>b DEF StoreInv
<1>3. ContentOK'
  <2>1. \A p \in Payloads : stored'[p] \in 0..2
    BY <1>a, <1>1, <1>2
  <2>2. stored' \in [Payloads -> 0..2]
    BY <2>1 DEF Store
  <2> QED BY <1>a, <2>2 DEF ContentOK
<1>4. StoreInv'
  BY <1>a, <1>b, <1>1 DEF StoreInv
<1>5. AccountedFor'
  BY <1>a, <1>b, <1>1, <1>2 DEF AccountedFor
<1> QED BY <1>3, <1>4, <1>5

\* The content of a payload that was not taken before is pending.
LEMMA TakeInFact ==
    ASSUME RunInv, NEW p \in Payloads, p \notin consumed, TakeIn(p), status = "running",
           stored' = stored
    PROVE  /\ ContentOK' /\ StoreInv' /\ AccountedFor'
           /\ pc' \in {"getting", "saving", "flushing"}
           /\ status' \in {"running", "completed"}
           /\ consumed' = consumed \cup ({p} \cap Texts)
           /\ Publish
<1>a. /\ pending \subseteq consumed /\ consumed \subseteq Texts
      /\ stored \in [Payloads -> 0..2]
  BY DEF RunInv, RunTypeOK
<1>b. StoreInv /\ AccountedFor
  BY DEF RunInv
<1>1. /\ consumed' = consumed \cup ({p} \cap Texts)
      /\ pending' = pending \cup ({p} \cap Texts)
      /\ Publish
  BY DEF TakeIn
<1>2. /\ pc' \in {"getting", "saving", "flushing"}
      /\ status' \in {"running", "completed"}
      /\ pc' # "flushing" => status' = "running"
  BY DEF TakeIn, AfterPayload, StatusAfter
<1>3. stored[p] = 0 /\ p \notin pending
  BY <1>a, <1>b DEF StoreInv
<1>4. ContentOK'
  BY <1>a, <1>1 DEF ContentOK
<1>5. StoreInv'
  BY <1>a, <1>b, <1>1, <1>2, <1>3 DEF StoreInv
<1>6. AccountedFor'
  BY <1>a, <1>b, <1>1, <1>2, <1>3 DEF AccountedFor
<1> QED BY <1>1, <1>2, <1>4, <1>5, <1>6

----------------------------------------------------------------------------
(* The invariant is inductive                                              *)

QueueOK ==
    /\ call \in [Payloads -> {"idle", "blocked", "accepted", "refused"}]
    /\ back \in Seq(Payloads) /\ Len(back) <= BackMaxsize

TaskOK ==
    /\ {open, known, cancelling, detached, deleting} \subseteq BOOLEAN
    /\ pc \in {"starting", "getting", "attaching", "saving", "flushing", "over"}
    /\ atWork \in Payloads \cup {Last}
    /\ status \in {"running", "completed", "failed", "stopped"}
    /\ deletes \in 0..MaxDeletes

PublishOK ==
    /\ revision \in Nat
    /\ subscribers \subseteq Streams
    /\ stream \in [Streams -> {"none", "open", "over"}]
    /\ BufferOK
    /\ seen \in [Streams -> 0..revision]

\* The type invariant by components.
LEMMA RunParts == RunTypeOK <=> QueueOK /\ TaskOK /\ ContentOK /\ PublishOK
  BY DEF RunTypeOK, QueueOK, TaskOK, ContentOK, PublishOK, BufferOK

LEMMA RunInitial == RunInit => RunInv
<1> SUFFICES ASSUME RunInit PROVE RunInv
  OBVIOUS
<1>1. QueueOK /\ TaskOK /\ ContentOK
  <2>1. QueueOK
    <3>1. <<>> \in Seq(Payloads) /\ Len(<<>>) <= BackMaxsize
      OBVIOUS
    <3> QED BY <3>1 DEF RunInit, QueueOK
  <2>2. TaskOK
    <3>1. deletes \in 0..MaxDeletes
      BY DEF RunInit
    <3>2. {open, known, cancelling, detached, deleting} \subseteq BOOLEAN
      BY DEF RunInit
    <3> QED BY <3>1, <3>2 DEF RunInit, TaskOK
  <2>3. ContentOK
    BY DEF RunInit, ContentOK
  <2> QED BY <2>1, <2>2, <2>3
<1>2. PublishOK
  <2>1. <<>> \in Seq(Nat) /\ Len(<<>>) = 0 /\ 0 <= BufferSize
    OBVIOUS
  <2> QED BY <2>1 DEF RunInit, PublishOK, BufferOK
<1>3. StreamInv
  <2>1. Window(0, 0) = <<>>
    BY WindowFact
  <2> QED BY <2>1 DEF RunInit, StreamInv
<1>4. BackInv /\ StoreInv /\ AccountedFor
  BY DEF RunInit, BackInv, StoreInv, AccountedFor
<1> QED BY <1>1, <1>2, <1>3, <1>4, RunParts DEF RunInv

\* Every step keeps the types of the task and its flags.
LEMMA TaskStep == RunInv /\ [RunNext]_runVars => TaskOK'
<1> SUFFICES ASSUME RunInv, [RunNext]_runVars PROVE TaskOK'
  OBVIOUS
<1>a. TaskOK /\ back \in Seq(Payloads)
  BY RunParts DEF RunInv, QueueOK
<1> USE <1>a DEF TaskOK
<1>1. ASSUME NEW p \in Payloads, PutCall(p) \/ PutWakes(p) PROVE TaskOK'
  BY <1>1 DEF PutCall, PutWakes, taskVars, deleteVars
<1>2. ASSUME NEW s \in Streams, Subscribe(s) \/ Read(s) \/ Disconnect(s) PROVE TaskOK'
  BY <1>2 DEF Subscribe, Read, Disconnect, queueVars, taskVars, deleteVars
<1>3. CASE Get
  <2>1. Head(back) \in Payloads
    BY <1>3 DEF Get
  <2> QED BY <1>3, <2>1 DEF Get, TakeIn, AfterPayload, StatusAfter, deleteVars
<1>4. CASE Attached \/ Save \/ Fail
  BY <1>4 DEF Attached, Save, Fail, TakeIn, AfterPayload, StatusAfter, queueVars, deleteVars
<1>5. CASE Begin \/ Stopped \/ Flush \/ FlushCancelled \/ DetachedFlush
  BY <1>5 DEF Begin, Stopped, Flush, Forget, FlushCancelled, DetachedFlush, queueVars,
     deleteVars
<1>6. CASE Delete \/ DeleteEnds
  <2>1. CASE Delete
    <3>1. deletes' \in 0..MaxDeletes
      BY <2>1 DEF Delete
    <3>2. cancelling' \in BOOLEAN /\ deleting' \in BOOLEAN
      BY <2>1 DEF Delete
    <3> QED BY <2>1, <3>1, <3>2 DEF Delete, queueVars
  <2>2. CASE DeleteEnds
    BY <2>2 DEF DeleteEnds, taskVars
  <2> QED BY <1>6, <2>1, <2>2
<1>7. CASE UNCHANGED runVars
  BY <1>7 DEF runVars, queueVars, taskVars, deleteVars
<1> QED BY <1>1, <1>2, <1>3, <1>4, <1>5, <1>6, <1>7 DEF RunNext, Run

\* A payload is accepted by one call, so it is in the back queue once.
LEMMA QueueStep == RunInv /\ [RunNext]_runVars => QueueOK' /\ BackInv'
<1> SUFFICES ASSUME RunInv, [RunNext]_runVars PROVE QueueOK' /\ BackInv'
  OBVIOUS
<1>a. QueueOK /\ BackInv /\ atWork \in Payloads \cup {Last} /\ consumed \subseteq Payloads
  BY RunParts DEF RunInv, TaskOK, ContentOK
<1>b. Len(back) \in Nat /\ \A i \in 1..Len(back) : back[i] \in Payloads
  BY <1>a DEF QueueOK
<1>1. ASSUME UNCHANGED <<call, back, consumed, atWork>>, pc' = "attaching" => pc = "attaching"
      PROVE  QueueOK' /\ BackInv'
  BY <1>1, <1>a DEF QueueOK, BackInv
<1>2. ASSUME NEW p \in Payloads, PutCall(p) \/ PutWakes(p) PROVE QueueOK' /\ BackInv'
  <2>1. /\ pc' = pc /\ atWork' = atWork /\ consumed' = consumed /\ call[p] # "accepted"
    BY <1>2 DEF PutCall, PutWakes, taskVars, contentVars
  <2>2. CASE back' = back /\ \E w \in {"blocked", "refused"} : call' = [call EXCEPT ![p] = w]
    BY <1>a, <1>b, <2>1, <2>2 DEF QueueOK, BackInv
  <2>3. CASE Len(back) < BackMaxsize /\ Accept(p)
    <3>1. back' = Append(back, p) /\ call' = [call EXCEPT ![p] = "accepted"]
      BY <2>3 DEF Accept
    <3>2. /\ back' \in Seq(Payloads) /\ Len(back') = Len(back) + 1
          /\ \A i \in 1..Len(back) : back'[i] = back[i]
          /\ back'[Len(back) + 1] = p
      BY <1>a, <3>1 DEF QueueOK
    <3>3. QueueOK'
      BY <1>a, <1>b, <2>3, <3>1, <3>2 DEF QueueOK
    <3>4. \A i \in 1..Len(back') : i = Len(back) + 1 \/ i \in 1..Len(back)
      BY <1>b, <3>2
    <3>5. p \notin consumed /\ \A i \in 1..Len(back) : back[i] # p
      BY <1>a, <2>1 DEF BackInv
    <3>6. \A q \in Payloads : call[q] = "accepted" => call'[q] = "accepted"
      BY <1>a, <3>1 DEF QueueOK
    <3>7. call'[p] = "accepted"
      BY <1>a, <3>1 DEF QueueOK
    <3>8. pc = "attaching" => atWork # p
      BY <1>a, <2>1 DEF BackInv
    <3> QED BY <1>a, <1>b, <2>1, <3>2, <3>3, <3>4, <3>5, <3>6, <3>7, <3>8 DEF BackInv
  <2>4. \/ back' = back /\ \E w \in {"blocked", "refused"} : call' = [call EXCEPT ![p] = w]
        \/ Len(back) < BackMaxsize /\ Accept(p)
    BY <1>2 DEF PutCall, PutWakes, Refuse
  <2> QED BY <2>2, <2>3, <2>4
<1>3. CASE Get
  <2>1. /\ back # <<>> /\ back' = Tail(back) /\ call' = call /\ atWork' = Head(back)
        /\ consumed' = consumed \/ (consumed' \subseteq consumed \cup {Head(back)}
                                    /\ pc' # "attaching")
    BY <1>3 DEF Get, TakeIn, AfterPayload
  <2>2. /\ Len(back) >= 1 /\ Head(back) = back[1]
        /\ back' \in Seq(Payloads) /\ Len(back') = Len(back) - 1
        /\ \A i \in 1..Len(back') : back'[i] = back[i + 1]
    BY <1>a, <2>1 DEF QueueOK
  <2>3. QueueOK'
    BY <1>a, <1>b, <2>1, <2>2 DEF QueueOK
  <2>4. \A i \in 1..Len(back') : i + 1 \in 1..Len(back) /\ i + 1 # 1
    BY <1>b, <2>2
  <2>5. 1 \in 1..Len(back)
    BY <1>b, <2>2
  <2>6. \A i \in 1..Len(back') : /\ call[back'[i]] = "accepted" /\ back'[i] # Head(back)
                                 /\ back'[i] \notin consumed
    BY <1>a, <2>2, <2>4, <2>5 DEF BackInv
  <2>7. \A i, j \in 1..Len(back') : back'[i] = back'[j] => i = j
    <3> TAKE i, j \in 1..Len(back')
    <3>1. /\ i + 1 \in 1..Len(back) /\ j + 1 \in 1..Len(back)
          /\ back'[i] = back[i + 1] /\ back'[j] = back[j + 1]
      BY <2>2, <2>4
    <3>2. \A k, l \in 1..Len(back) : back[k] = back[l] => k = l
      BY <1>a DEF BackInv
    <3>3. back'[i] = back'[j] => i + 1 = j + 1
      BY <3>1, <3>2
    <3> QED BY <3>3
  <2>8. Head(back) \in Payloads /\ call[Head(back)] = "accepted" /\ Head(back) \notin consumed
    BY <1>a, <1>b, <2>2, <2>5 DEF BackInv
  <2> QED BY <1>a, <2>1, <2>3, <2>6, <2>7, <2>8 DEF BackInv
<1>4. CASE Attached
  <2>1. /\ pc = "attaching" /\ UNCHANGED <<call, back, atWork>> /\ pc' # "attaching"
        /\ consumed' \subseteq consumed \cup {atWork}
    BY <1>4 DEF Attached, TakeIn, AfterPayload, queueVars
  <2> QED BY <1>a, <2>1 DEF QueueOK, BackInv
<1>5. CASE Begin \/ Save \/ Fail \/ Stopped \/ Flush \/ FlushCancelled \/ DetachedFlush
  BY <1>1, <1>5 DEF Begin, Save, Fail, AfterPayload, Stopped, Flush, Forget, FlushCancelled,
     DetachedFlush, queueVars, contentVars
<1>6. ASSUME NEW s \in Streams, Subscribe(s) \/ Read(s) \/ Disconnect(s)
      PROVE  QueueOK' /\ BackInv'
  BY <1>1, <1>6 DEF Subscribe, Read, Disconnect, queueVars, taskVars, contentVars
<1>7. CASE Delete \/ DeleteEnds \/ UNCHANGED runVars
  BY <1>1, <1>7 DEF Delete, DeleteEnds, runVars, queueVars, taskVars, contentVars
<1> QED BY <1>2, <1>3, <1>4, <1>5, <1>6, <1>7 DEF RunNext, Run

\* What is taken goes from pending to stored.
LEMMA ContentStep == RunInv /\ [RunNext]_runVars => ContentOK' /\ StoreInv' /\ AccountedFor'
<1> SUFFICES ASSUME RunInv, [RunNext]_runVars PROVE ContentOK' /\ StoreInv' /\ AccountedFor'
  OBVIOUS
<1>a. ContentOK /\ StoreInv /\ AccountedFor /\ BackInv /\ Texts \subseteq Payloads
  BY RunParts DEF RunInv
<1>1. ASSUME UNCHANGED contentVars,
             \/ status' = status
             \/ status' \in {"failed", "stopped"} /\ status \in {"running", "completed"}
             \/ status' = "stopped",
             \/ pc' \in {"flushing", "over"}
             \/ pc \in {"starting", "getting", "attaching", "saving"} /\ status' = status
      PROVE  ContentOK' /\ StoreInv' /\ AccountedFor'
  <2>1. UNCHANGED <<consumed, pending, stored>>
    BY <1>1 DEF contentVars
  <2> QED BY <1>1, <1>a, <2>1 DEF ContentOK, StoreInv, AccountedFor
<1>2. CASE UNCHANGED <<contentVars, status, pc>>
  <2>1. UNCHANGED <<consumed, pending, stored>>
    BY <1>2 DEF contentVars
  <2> QED BY <1>2, <1>a, <2>1 DEF ContentOK, StoreInv, AccountedFor
<1>3. CASE Get
  <2>1. CASE Head(back) \in Files
    BY <1>1, <1>3, <2>1 DEF Get, contentVars
  <2>2. CASE Head(back) \notin Files
    <3>1. TakeIn(Head(back)) /\ stored' = stored /\ status = "running" /\ back # <<>>
      BY <1>3, <1>a, <2>2 DEF Get, StoreInv
    <3>2. back \in Seq(Payloads)
      BY RunParts DEF RunInv, QueueOK
    <3>3. Head(back) = back[1] /\ 1 \in 1..Len(back) /\ Head(back) \in Payloads
      BY <3>1, <3>2
    <3>4. Head(back) \notin consumed
      BY <1>a, <3>3 DEF BackInv
    <3> QED BY <3>1, <3>3, <3>4, TakeInFact
  <2> QED BY <2>1, <2>2
<1>4. CASE Attached
  <2>1. TakeIn(atWork) /\ stored' = stored /\ status = "running"
    BY <1>4, <1>a DEF Attached, StoreInv
  <2>2. atWork \in Payloads /\ atWork \notin consumed
    BY <1>4, <1>a DEF Attached, BackInv
  <2> QED BY <2>1, <2>2, TakeInFact
<1>5. CASE Save
  <2>1. /\ Store /\ pending' = {} /\ consumed' = consumed /\ status = "running"
        /\ pc' \in {"getting", "flushing"} /\ status' \in {status, "completed"}
        /\ pc' = "getting" => status' = "running"
    BY <1>5, <1>a DEF Save, AfterPayload, StatusAfter, StoreInv
  <2> QED BY <2>1, StoredFact
<1>6. CASE Fail
  <2>1. UNCHANGED contentVars /\ status' = "failed" /\ pc' = "flushing" /\ status = "running"
    BY <1>6, <1>a DEF Fail, StoreInv
  <2> QED BY <1>1, <2>1
<1>7. CASE Stopped
  <2>1. /\ UNCHANGED <<consumed, pending>> /\ status' = "stopped" /\ pc' = "flushing"
        /\ status = "running"
        /\ UNCHANGED stored \/ Store
    BY <1>7, <1>a DEF Stopped, StoreInv
  <2>2. CASE UNCHANGED stored
    BY <1>1, <2>1, <2>2 DEF contentVars
  <2>3. CASE Store
    <3>1. /\ \A p \in pending : stored'[p] = 1 /\ stored[p] = 0
          /\ \A p \in Payloads \ pending : stored'[p] = stored[p]
      BY <1>a, <2>1, <2>3 DEF Store, StoreInv, ContentOK
    <3>2. stored' \in [Payloads -> 0..2]
      <4>1. \A p \in Payloads : stored'[p] \in 0..2
        BY <1>a, <3>1 DEF ContentOK
      <4> QED BY <2>3, <4>1 DEF Store
    <3> QED BY <1>a, <2>1, <3>1, <3>2 DEF ContentOK, StoreInv, AccountedFor
  <2> QED BY <2>1, <2>2, <2>3
<1>8. CASE Flush \/ DetachedFlush
  <2>1. CASE Store /\ pending' = {} /\ consumed' = consumed /\ status' = status
             /\ pc' \in {"flushing", "over"}
    BY <2>1, StoredFact
  <2>2. CASE UNCHANGED <<stored, pending, consumed, status>> /\ pc' \in {pc, "over"}
    BY <1>a, <2>2 DEF ContentOK, StoreInv, AccountedFor
  <2>3. CASE DetachedFlush /\ Store /\ pending' = {}
    <3>1. consumed' = consumed /\ status' = status /\ pc' = pc
      BY <2>3 DEF DetachedFlush
    <3>2. /\ \A p \in pending : stored'[p] = stored[p] + 1 /\ stored[p] \in 0..1
          /\ \A p \in Payloads \ pending : stored'[p] = stored[p]
      BY <1>a, <2>3 DEF Store, StoreInv, ContentOK
    <3>3. stored' \in [Payloads -> 0..2]
      <4>1. \A p \in Payloads : stored'[p] \in 0..2
        BY <1>a, <3>2 DEF ContentOK
      <4> QED BY <2>3, <4>1 DEF Store
    <3> QED BY <1>a, <2>3, <3>1, <3>2, <3>3 DEF ContentOK, StoreInv, AccountedFor
  <2> QED BY <1>8, <2>1, <2>2, <2>3 DEF Flush, Forget, DetachedFlush
<1>9. CASE Begin \/ FlushCancelled
  <2>1. UNCHANGED contentVars /\ status' = status
    BY <1>9 DEF Begin, FlushCancelled
  <2>2. pc' = "over" \/ pc = "starting"
    BY <1>9 DEF Begin, FlushCancelled
  <2> QED BY <1>1, <2>1, <2>2
<1>10. ASSUME NEW p \in Payloads, PutCall(p) \/ PutWakes(p)
       PROVE  ContentOK' /\ StoreInv' /\ AccountedFor'
  BY <1>2, <1>10 DEF PutCall, PutWakes, taskVars
<1>11. ASSUME NEW s \in Streams, Subscribe(s) \/ Read(s) \/ Disconnect(s)
       PROVE  ContentOK' /\ StoreInv' /\ AccountedFor'
  BY <1>2, <1>11 DEF Subscribe, Read, Disconnect, taskVars
<1>12. CASE Delete \/ DeleteEnds \/ UNCHANGED runVars
  BY <1>2, <1>12 DEF Delete, DeleteEnds, runVars, taskVars
<1> QED
  BY <1>3, <1>4, <1>5, <1>6, <1>7, <1>8, <1>9, <1>10, <1>11, <1>12 DEF RunNext, Run

\* What a stream has seen and what it has yet to read add up to what was published.
LEMMA StreamStep == RunInv /\ [RunNext]_runVars => PublishOK' /\ StreamInv'
<1> SUFFICES ASSUME RunInv, [RunNext]_runVars PROVE PublishOK' /\ StreamInv'
  OBVIOUS
<1>a. PublishOK /\ StreamInv
  BY RunParts DEF RunInv
<1>b. Last = 0 /\ <<Last>> \in Seq(Nat) /\ Len(<<Last>>) = 1 /\ Len(<<>>) = 0
      /\ <<>> \in Seq(Nat) /\ BufferSize >= 1
  BY DEF Last
<1>1. CASE UNCHANGED streamVars
  <2>1. UNCHANGED <<revision, subscribers, buffer, stream, seen>>
    BY <1>1 DEF streamVars, publishVars
  <2> QED BY <1>a, <2>1 DEF PublishOK, BufferOK, StreamInv
<1>2. ASSUME Publish, stream' = stream, seen' = seen PROVE PublishOK' /\ StreamInv'
  <2>1. /\ revision' = revision + 1 /\ subscribers' \subseteq subscribers
        /\ BufferOK' /\ StreamInv'
    BY <1>2, PublishFact
  <2>2. seen' \in [Streams -> 0..revision']
    BY <1>a, <1>2, <2>1 DEF PublishOK
  <2> QED BY <1>a, <1>2, <2>1, <2>2 DEF PublishOK
<1>3. ASSUME NEW s \in Streams, Subscribe(s) PROVE PublishOK' /\ StreamInv'
  <2>1. /\ stream[s] = "none" /\ stream' = [stream EXCEPT ![s] = "open"]
        /\ subscribers' = subscribers \cup {s} /\ seen' = [seen EXCEPT ![s] = revision]
        /\ revision' = revision /\ buffer' = buffer
    BY <1>3 DEF Subscribe
  <2>2. buffer[s] = <<>> /\ Window(revision, revision) = <<>>
    <3>1. s \notin subscribers /\ revision \in Nat
      BY <1>a, <2>1 DEF StreamInv, PublishOK
    <3>2. Window(revision, revision) = <<>>
      BY <3>1, WindowFact
    <3> QED BY <1>a, <2>1, <3>1, <3>2 DEF StreamInv
  <2>3. PublishOK'
    BY <1>a, <2>1 DEF PublishOK, BufferOK
  <2>4. StreamInv'
    BY <1>a, <2>1, <2>2 DEF StreamInv, PublishOK
  <2> QED BY <2>3, <2>4
<1>4. ASSUME NEW s \in Streams, EndStream(s), revision' = revision
      PROVE  PublishOK' /\ StreamInv'
  <2>1. /\ stream' = [stream EXCEPT ![s] = "over"]
        /\ subscribers' = subscribers \ {s}
        /\ buffer' = [buffer EXCEPT ![s] = <<>>]
        /\ seen' = [seen EXCEPT ![s] = 0]
    BY <1>4 DEF EndStream
  <2>2. BufferOK'
    BY <1>a, <1>b, <2>1 DEF PublishOK, BufferOK
  <2>3. PublishOK'
    BY <1>4, <1>a, <2>1, <2>2 DEF PublishOK
  <2>4. StreamInv'
    BY <1>4, <1>a, <2>1 DEF StreamInv, PublishOK, BufferOK
  <2> QED BY <2>3, <2>4
<1>5. ASSUME NEW s \in Streams, Read(s) PROVE PublishOK' /\ StreamInv'
  <2>1. stream[s] = "open" /\ buffer[s] # <<>> /\ revision' = revision
    BY <1>5 DEF Read
  <2>2. CASE s \in subscribers
    <3>1. /\ seen[s] \in Nat /\ revision \in Nat /\ seen[s] <= revision
          /\ buffer[s] = Window(seen[s], revision)
      BY <1>a, <2>2 DEF PublishOK, StreamInv
    <3>2. seen[s] < revision
      <4>1. seen[s] # revision
        BY <2>1, <3>1, WindowFact
      <4> QED BY <3>1, <4>1
    <3>3. /\ Head(buffer[s]) = seen[s] + 1
          /\ Tail(buffer[s]) = Window(seen[s] + 1, revision)
      BY <3>1, <3>2, WindowShrinks
    <3>4. /\ Tail(buffer[s]) \in Seq(Nat) /\ Len(Tail(buffer[s])) <= BufferSize
      <4>1. buffer[s] \in Seq(Nat) /\ Len(buffer[s]) <= BufferSize
        BY <1>a DEF PublishOK, BufferOK
      <4>2. Len(Tail(buffer[s])) = Len(buffer[s]) - 1 /\ Len(buffer[s]) \in Nat
        BY <2>1, <4>1
      <4> QED BY <2>1, <4>1, <4>2
    <3>5. /\ seen' = [seen EXCEPT ![s] = seen[s] + 1]
          /\ buffer' = [buffer EXCEPT ![s] = Tail(buffer[s])]
          /\ UNCHANGED <<stream, subscribers>>
      BY <1>5, <1>b, <3>1, <3>3 DEF Read
    <3>6. BufferOK'
      BY <1>a, <3>4, <3>5 DEF PublishOK, BufferOK
    <3>7. seen' \in [Streams -> 0..revision]
      BY <1>a, <3>1, <3>2, <3>5 DEF PublishOK
    <3>8. PublishOK'
      BY <1>a, <2>1, <3>5, <3>6, <3>7 DEF PublishOK
    <3>9. StreamInv'
      <4>1. seen'[s] = seen[s] + 1 /\ buffer'[s] = Window(seen'[s], revision)
        BY <1>a, <2>2, <3>3, <3>5 DEF PublishOK, BufferOK
      <4>2. \A x \in Streams \ {s} : buffer'[x] = buffer[x] /\ seen'[x] = seen[x]
        BY <1>a, <3>5 DEF PublishOK, BufferOK
      <4>3. subscribers \subseteq Streams
        BY <1>a DEF PublishOK
      <4> QED BY <1>a, <2>1, <2>2, <3>5, <4>1, <4>2, <4>3 DEF StreamInv
    <3> QED BY <3>8, <3>9
  <2>3. CASE s \notin subscribers
    <3>1. Head(buffer[s]) = Last
      BY <1>a, <2>1, <2>3 DEF StreamInv
    <3> QED BY <1>4, <1>5, <2>1, <3>1 DEF Read
  <2> QED BY <2>2, <2>3
<1>6. ASSUME NEW s \in Streams, Disconnect(s) PROVE PublishOK' /\ StreamInv'
  BY <1>4, <1>6 DEF Disconnect
<1>7. CASE Get
  <2>1. CASE Head(back) \in Files
    BY <1>1, <1>7, <2>1 DEF Get, streamVars
  <2>2. CASE Head(back) \notin Files
    BY <1>2, <1>7, <2>2 DEF Get, TakeIn
  <2> QED BY <2>1, <2>2
<1>8. CASE Attached \/ Save \/ Fail
  BY <1>2, <1>8 DEF Attached, Save, Fail, TakeIn
<1>9. CASE Flush
  <2>1. /\ revision' \in {revision, revision + 1} /\ subscribers' = {}
        /\ buffer' = [s \in Streams |-> IF s \in subscribers THEN <<Last>> ELSE buffer[s]]
        /\ stream' = stream /\ seen' = seen
    BY <1>9 DEF Flush, Forget, EndStreams
  <2>2. BufferOK'
    BY <1>a, <1>b, <2>1 DEF PublishOK, BufferOK
  <2>3. revision' \in Nat /\ seen' \in [Streams -> 0..revision']
    BY <1>a, <2>1 DEF PublishOK
  <2>4. PublishOK'
    BY <1>a, <2>1, <2>2, <2>3 DEF PublishOK
  <2>5. StreamInv'
    BY <1>a, <2>1 DEF StreamInv
  <2> QED BY <2>4, <2>5
<1>10. CASE Begin \/ Stopped \/ FlushCancelled \/ DetachedFlush \/ Delete \/ DeleteEnds
  BY <1>1, <1>10 DEF Begin, Stopped, FlushCancelled, DetachedFlush, Delete, DeleteEnds
<1>11. ASSUME NEW p \in Payloads, PutCall(p) \/ PutWakes(p) PROVE PublishOK' /\ StreamInv'
  BY <1>1, <1>11 DEF PutCall, PutWakes
<1>12. CASE UNCHANGED runVars
  BY <1>1, <1>12 DEF runVars
<1> QED
  BY <1>3, <1>5, <1>6, <1>7, <1>8, <1>9, <1>10, <1>11, <1>12 DEF RunNext, Run

\* RunInv is an invariant of WebChatRun.
THEOREM RunInvariance == RunSpec => []RunInv
<1>1. RunInv /\ [RunNext]_runVars => RunInv'
  <2> SUFFICES ASSUME RunInv, [RunNext]_runVars PROVE RunInv'
    OBVIOUS
  <2>1. QueueOK' /\ TaskOK' /\ ContentOK' /\ PublishOK'
    BY QueueStep, TaskStep, ContentStep, StreamStep
  <2>2. RunTypeOK'
    BY <2>1 DEF RunTypeOK, QueueOK, TaskOK, ContentOK, PublishOK, BufferOK
  <2> QED BY <2>2, QueueStep, ContentStep, StreamStep DEF RunInv
<1> QED BY <1>1, RunInitial, PTL DEF RunSpec

----------------------------------------------------------------------------
(* What follows from the invariant                                         *)

\* A stream shows every event since its snapshot, in order, or is ended, however
\* many streams there are and however slow they are (chat_service.py:768, 787).
THEOREM NoGaps == RunSpec => []Gapless
<1>1. RunInv => Gapless
  BY DEF RunInv, StreamInv, Gapless, Window
<1> QED BY <1>1, RunInvariance, PTL

\* What was taken off the back queue is stored or pending, and stored once in a
\* run that was not cut short (chat_service.py:901, 1047).
THEOREM NothingLost == RunSpec => []AccountedFor
<1>1. RunInv => AccountedFor
  BY DEF RunInv
<1> QED BY <1>1, RunInvariance, PTL

----------------------------------------------------------------------------
(* What a run that is over leaves                                          *)

\* A run is forgotten together with its queue and its streams, at its end; only
\* one that is cancelled on behalf of a request is not.
EndInv ==
    /\ cancelling => deletes > 0
    /\ known \/ pc = "over"
    /\ pc = "over" => \/ known /\ deletes > 0
                      \/ ~known /\ ~open /\ subscribers = {}

LEMMA EndStep == RunInv /\ EndInv /\ [RunNext]_runVars => EndInv'
<1> SUFFICES ASSUME RunInv, EndInv, [RunNext]_runVars PROVE EndInv'
  OBVIOUS
<1>0. TaskOK /\ PublishOK
  BY RunParts DEF RunInv
<1>1. ASSUME NEW p \in Payloads, PutCall(p) \/ PutWakes(p) PROVE EndInv'
  BY <1>1 DEF PutCall, PutWakes, taskVars, streamVars, publishVars, deleteVars, EndInv
<1>2. ASSUME NEW s \in Streams, Subscribe(s) \/ Read(s) \/ Disconnect(s) PROVE EndInv'
  <2>1. UNCHANGED <<open, pc, known, cancelling, deletes>>
    BY <1>2 DEF Subscribe, Read, Disconnect, queueVars, taskVars, deleteVars
  <2>2. ~known /\ subscribers = {} => subscribers' = {}
    BY <1>2 DEF Subscribe, Read, Disconnect, EndStream
  <2> QED BY <2>1, <2>2 DEF EndInv
<1>3. CASE Get \/ Attached \/ Save
  <2>1. /\ pc # "over" /\ pc' # "over" /\ ~cancelling
        /\ UNCHANGED <<known, cancelling>>
    BY <1>3 DEF Get, Attached, Save, TakeIn, AfterPayload
  <2> QED BY <2>1 DEF EndInv
<1>4. CASE Begin \/ Fail \/ Stopped
  BY <1>0, <1>4 DEF Begin, Fail, Stopped, EndInv, TaskOK, queueVars, streamVars, deleteVars
<1>5. CASE Flush
  BY <1>0, <1>5 DEF Flush, Forget, EndStreams, EndInv
<1>6. CASE FlushCancelled \/ DetachedFlush
  BY <1>6 DEF FlushCancelled, DetachedFlush, EndInv, queueVars, streamVars, publishVars,
     deleteVars
<1>7. CASE Delete
  <2>1. /\ deletes' = deletes + 1 /\ deletes \in Nat /\ known
        /\ UNCHANGED <<known, pc>>
    BY <1>0, <1>7 DEF Delete, TaskOK
  <2>2. deletes' > 0
    BY <2>1
  <2> QED BY <2>1, <2>2 DEF EndInv
<1>8. CASE DeleteEnds
  BY <1>8 DEF DeleteEnds, EndInv, taskVars, streamVars, publishVars
<1>9. CASE UNCHANGED runVars
  BY <1>9 DEF runVars, queueVars, taskVars, streamVars, publishVars, deleteVars, EndInv
<1> QED BY <1>1, <1>2, <1>3, <1>4, <1>5, <1>6, <1>7, <1>8, <1>9 DEF RunNext, Run

\* When a run is over its queue is closed, so that no writer waits on, and every
\* stream has its end ahead of it, unless the run is left behind, which takes a
\* request to delete its session (chat_service.py:1047, 1068, 1077).
THEOREM EndsForAll == RunSpec => [](pc = "over" =>
               \/ /\ ~known /\ ~open
                  /\ \A s \in Streams : stream[s] = "open" => buffer[s] = <<Last>>
               \/ LeftBehind /\ deletes > 0)
<1>1. RunInit => EndInv
  BY DEF RunInit, EndInv
<1>2. RunInv /\ EndInv => (pc = "over" =>
               \/ /\ ~known /\ ~open
                  /\ \A s \in Streams : stream[s] = "open" => buffer[s] = <<Last>>
               \/ LeftBehind /\ deletes > 0)
  BY DEF RunInv, StreamInv, EndInv, LeftBehind
<1>3. RunInv /\ EndInv /\ [RunNext]_runVars => EndInv'
  BY EndStep
<1> QED BY <1>1, <1>2, <1>3, RunInvariance, PTL DEF RunSpec
=============================================================================
