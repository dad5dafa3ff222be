------------------------ MODULE SessionHistoryProofs ------------------------
(***************************************************************************)
(* Safety of SessionHistory for every set of messages and woken agents,    *)
(* with or without unique sessions. Inv says which kind of event stands    *)
(* where, who holds the lock, and that the history a run has read is of    *)
(* its own conversation. It is complete for a run that has read it under   *)
(* the lock, unless a woken agent works on the conversation too; and a     *)
(* saved turn stays until somebody has read the history without it.        *)
(***************************************************************************)
EXTENDS SessionHistory, TLAPS, FiniteSetTheorems

\* The unified_msg_origin of a message at work.
Home == IF UniqueSession THEN "member" ELSE "chat"

Read  == {"loaded", "running", "saving"}
Ended == {"leaving", "done"}

KindInv ==
    /\ \A e \in Messages :
        /\ pc[e] \in {"waiting", "locked"} \cup Read => kind[e] \in {"chat", "asked"}
        /\ pc[e] = "creating" => kind[e] \in {"chat", "asked", "new"}
        /\ pc[e] = "picked" => kind[e] \in {"chat", "asked", "reset"}
        /\ pc[e] = "clearing" => kind[e] = "reset"
        /\ umo[e] = IF pc[e] = "idle" THEN "chat" ELSE Home
        /\ aborted[e] => pc[e] \in {"saving"} \cup Ended
    /\ \A w \in Wakeups : pc[w] \in {"idle", "creating", "picked", "loaded", "saving", "done"}

\* A chat looks up, reads, runs and writes with the session lock; a message that a
\* handler asks about only runs and writes with it.
InLock(e) ==
    \/ e \in Chats /\ pc[e] \in {"locked", "creating", "picked"} \cup Read
    \/ e \in Asked /\ pc[e] \in {"locked", "running", "saving"}

LockInv == \A e \in Requests : InLock(e) => holder[Home] = e

\* An event looks up or makes its conversation once: before that, it has none.
Before(e) ==
    \/ pc[e] \in {"idle", "woken", "creating"}
    \/ e \in Chats /\ pc[e] \in {"waiting", "locked"}

Past == {e \in Events : ~Before(e)}

ConvInv ==
    /\ \A e \in Events : Before(e) => conv[e] = 0
    /\ \A e \in Events : conv[e] = 0 => seen[e] = {} /\ pc[e] \notin {"picked", "clearing"}
    /\ \A e \in Events : pc[e] \in Read /\ conv[e] = 0 => e \in Asked
    /\ made <= Cardinality(Past)

\* The turns e stands for are over, and of conversation c.
TurnsOf(turns, c) == \A e \in turns : pc[e] \in Ended /\ conv[e] = c

TurnInv ==
    /\ \A c \in Convs : TurnsOf(hist[c], c)
    /\ \A e \in Events : TurnsOf(seen[e], conv[e])

\* No woken agent has come to work on the conversation of e.
Undisturbed(e) == \A w \in Wakeups : conv[w] # conv[e]

KeptInv ==
    \A e \in Chats :
        pc[e] \in Read /\ Undisturbed(e) => hist[conv[e]] \subseteq seen[e]

\* The turn of e is stored, and whoever has read the history under the lock has it.
Stays(e) ==
    /\ e \in hist[conv[e]]
    /\ \A f \in Chats : pc[f] \in Read /\ conv[f] = conv[e] => e \in seen[f]

\* A run that was cut short, and not because the message was stopped, is saved.
SavedInv ==
    \A e \in Messages :
        aborted[e] /\ conv[e] # 0 /\ ~stopped[e] /\ pc[e] \in Ended =>
            \/ Stays(e)
            \/ \E r \in Resets : conv[r] = conv[e]
            \/ \E r \in Events : Overwrites(r, e)

Inv == TypeOK /\ KindInv /\ LockInv /\ ConvInv /\ TurnInv /\ KeptInv /\ SavedInv

USE SessionHistoryAssumption

\* A message is no woken agent.
LEMMA EventsFact ==
    /\ Messages \subseteq Events /\ Wakeups \subseteq Events
    /\ \A e \in Events : e \in Messages \/ e \in Wakeups
    /\ \A e \in Messages : e \notin Wakeups
    BY DEF Events

----------------------------------------------------------------------------
(* Conversations are numbered within Convs                                 *)

LEMMA ConvsFact ==
    /\ IsFiniteSet(Past) /\ Cardinality(Past) \in Nat
    /\ Cardinality(Events) \in Nat /\ Cardinality(Past) <= Cardinality(Events)
    /\ \A e \in Events : Before(e) =>
          /\ Cardinality(Past) < Cardinality(Events)
          /\ Cardinality(Past \cup {e}) = Cardinality(Past) + 1
<1>1. Past \subseteq Events
  BY DEF Past
<1>2. IsFiniteSet(Past) /\ Cardinality(Past) \in Nat /\ Cardinality(Events) \in Nat
  BY <1>1, FS_Subset, FS_CardinalityType
<1>3. ASSUME NEW S, S \subseteq Events PROVE Cardinality(S) <= Cardinality(Events)
  BY <1>3, FS_Subset
<1>4. ASSUME NEW e \in Events, Before(e)
      PROVE  /\ Cardinality(Past) < Cardinality(Events)
             /\ Cardinality(Past \cup {e}) = Cardinality(Past) + 1
  <2>1. e \notin Past
    BY <1>4 DEF Past
  <2>2. Cardinality(Past \cup {e}) = Cardinality(Past) + 1
    BY <1>2, <2>1, FS_AddElement
  <2>3. Cardinality(Past \cup {e}) <= Cardinality(Events)
    BY <1>1, <1>3
  <2> QED BY <1>2, <2>2, <2>3
<1> QED BY <1>1, <1>2, <1>3, <1>4

----------------------------------------------------------------------------
(* The invariant is inductive                                              *)

LEMMA InitInv == Init => Inv
<1> SUFFICES ASSUME Init PROVE Inv
  OBVIOUS
<1>1. TypeOK
  BY DEF Init, TypeOK, Pcs, Umos, Lock!Init
<1>2. KindInv /\ LockInv
  BY EventsFact DEF Init, KindInv, LockInv, InLock, Requests, Chats, Asked, Asks, Read, Ended
<1>3. ConvInv
  <2>1. Cardinality(Past) \in Nat
    BY ConvsFact
  <2> QED BY <2>1 DEF Init, ConvInv, Read
<1>4. TurnInv /\ KeptInv /\ SavedInv
  BY EventsFact DEF Init, TurnInv, TurnsOf, KeptInv, SavedInv, Chats, Asks, Read, Ended
<1> QED BY <1>1, <1>2, <1>3, <1>4 DEF Inv

\* Every step keeps the types.
LEMMA TypeStep == Inv /\ [Next]_vars => TypeOK'
<1> SUFFICES ASSUME Inv, [Next]_vars PROVE TypeOK'
  OBVIOUS
<1> USE DEF Pcs, Goes
<1>a. TypeOK
  BY DEF Inv
<1>b. /\ Umos = {"chat", "member"} /\ made \in Nat /\ Messages \subseteq Events
      /\ \A c \in 0..made : c # 0 => c \in Convs
  BY <1>a, ConvsFact, EventsFact DEF Umos, TypeOK, Convs
<1> USE DEF TypeOK
<1>1. ASSUME NEW e \in Events, Execute(e) \/ Leave(e) PROVE TypeOK'
  <2>1. active[umo[e]] \subseteq Messages /\ "member" \in Umos
    BY <1>a, <1>b
  <2>2. active' \in [Umos -> SUBSET Messages]
    <3>1. \E S \in SUBSET Messages : active' = [active EXCEPT ![umo[e]] = S]
      BY <1>1, <2>1 DEF Execute, Leave
    <3> QED BY <1>a, <3>1
  <2>3. umo' \in [Events -> Umos]
    BY <1>a, <1>1, <2>1 DEF Execute, Leave
  <2> QED BY <1>a, <1>1, <2>2, <2>3 DEF Execute, Leave, stopVars, lockVars, convVars
<1>2. ASSUME NEW e \in Events,
             \/ GiveUp(e) \/ MissConv(e) \/ StartRun(e) \/ RunEnds(e) \/ RunAborts(e)
             \/ WakeupRuns(e)
      PROVE  TypeOK'
  BY <1>a, <1>2 DEF GiveUp, MissConv, StartRun, RunEnds, RunAborts, WakeupRuns,
     stopVars, lockVars, convVars
<1>3. ASSUME NEW e \in Events, PickConv(e) PROVE TypeOK'
  BY <1>a, <1>3 DEF PickConv, stopVars, lockVars, convVars
<1>4. ASSUME NEW e \in Events, CreateConv(e) PROVE TypeOK'
  <2>1. Before(e) /\ made <= Cardinality(Past)
    BY <1>4 DEF CreateConv, Inv, ConvInv, Before
  <2>2. Cardinality(Past) < Cardinality(Events)
        /\ Cardinality(Past) \in Nat /\ Cardinality(Events) \in Nat
    BY <2>1, ConvsFact
  <2>3. made + 1 \in Convs
    BY <1>b, <2>1, <2>2 DEF Convs
  <2> QED BY <1>a, <1>b, <1>4, <2>3 DEF CreateConv, AfterCreation, stopVars, lockVars, convVars
<1>5. ASSUME NEW e \in Events, LoadConv(e) PROVE TypeOK'
  <2>1. conv[e] \in Convs
    BY <1>a, <1>b, <1>5 DEF LoadConv, Inv, ConvInv
  <2> QED BY <1>a, <1>5, <2>1 DEF LoadConv, stopVars, lockVars, convVars
<1>6. ASSUME NEW e \in Events, RequestLLM(e) PROVE TypeOK'
  <2>1. Append(queue[umo[e]], e) \in Seq(Events)
    BY <1>a
  <2>2. holder' \in [Umos -> Events \cup {NoEvent}] /\ queue' \in [Umos -> Seq(Events)]
    <3>1. \/ holder' = [holder EXCEPT ![umo[e]] = e] /\ queue' = queue
          \/ queue' = [queue EXCEPT ![umo[e]] = Append(queue[umo[e]], e)] /\ holder' = holder
      BY <1>6 DEF RequestLLM, Lock!Enter
    <3>2. queue' \in [Umos -> Seq(Events)]
      BY <1>a, <2>1, <3>1
    <3>3. holder' \in [Umos -> Events \cup {NoEvent}]
      BY <1>a, <3>1
    <3> QED BY <3>2, <3>3
  <2> QED BY <1>a, <1>6, <2>2 DEF RequestLLM, stopVars, convVars
<1>7. ASSUME NEW e \in Events, Granted(e) PROVE TypeOK'
  <2>1. queue[umo[e]] # <<>> => Tail(queue[umo[e]]) \in Seq(Events) /\ Head(queue[umo[e]]) \in Events
    BY <1>a
  <2> QED BY <1>a, <1>7, <2>1 DEF Granted, Lock!Grant, stopVars, convVars
<1>8. ASSUME NEW e \in Events, Refuse(e) \/ RunDiscarded(e) PROVE TypeOK'
  <2>1. aborted' \in [Events -> BOOLEAN]
    BY <1>a, <1>8 DEF Refuse, RunDiscarded
  <2>2. holder' \in [Umos -> Events \cup {NoEvent}] /\ queue' = queue
    BY <1>a, <1>8 DEF Refuse, RunDiscarded, Unlock, Lock!Exit
  <2>3. pc' \in [Events -> Pcs]
    BY <1>a, <1>8 DEF Refuse, RunDiscarded
  <2> QED BY <1>a, <1>8, <2>1, <2>2, <2>3 DEF Refuse, RunDiscarded, stopVars, convVars
<1>9. ASSUME NEW e \in Events, Commit(e) PROVE TypeOK'
  BY <1>a, <1>9 DEF Commit, Store, Unlock, Lock!Exit, stopVars, lockVars, convVars
<1>10. ASSUME NEW e \in Events, Command(e) PROVE TypeOK'
  BY <1>a, <1>10 DEF Command, ResetStops, Clear, NewStops, AskStop, StopAll,
     stopVars, lockVars, convVars
<1>11. CASE UNCHANGED vars
  BY <1>a, <1>11 DEF vars, stopVars, lockVars, convVars
<1> QED
  BY <1>1, <1>2, <1>3, <1>4, <1>5, <1>6, <1>7, <1>8, <1>9, <1>10, <1>11
  DEF Next, Step, Run, Over

\* What each kind of event asks for decides where it goes.
LEMMA KindStep == Inv /\ [Next]_vars => KindInv'
<1> SUFFICES ASSUME Inv, [Next]_vars PROVE KindInv'
  OBVIOUS
<1>a. /\ pc \in [Events -> Pcs] /\ umo \in [Events -> Umos] /\ Home \in Umos
      /\ aborted \in [Events -> BOOLEAN] /\ UniqueSession \in BOOLEAN
      /\ KindInv
  BY DEF Inv, TypeOK, Home, Umos
<1>b. /\ Messages \subseteq Events /\ Wakeups \subseteq Events
      /\ \A e \in Events : e \in Messages \/ e \in Wakeups
      /\ \A e \in Messages : e \notin Wakeups
  BY EventsFact
<1>c. \A k : \A e : e \in Asks(k) <=> e \in Messages /\ kind[e] = k
  BY DEF Asks
<1> USE <1>a, <1>b, <1>c DEF KindInv, Goes, Read, Ended, Chats, Asked, Requests, Resets, Stops, News
<1>1. ASSUME NEW e \in Events, Execute(e) PROVE KindInv'
  <2>1. e \in Messages /\ umo'[e] = Home /\ \A f \in Events : f # e => umo'[f] = umo[f]
    BY <1>1 DEF Execute, Home, Umos
  <2> QED BY <1>1, <2>1 DEF Execute
<1>2. ASSUME NEW e \in Events, GiveUp(e) \/ Leave(e) \/ StartRun(e) \/ RunEnds(e)
      PROVE KindInv'
  BY <1>2 DEF GiveUp, Leave, StartRun, RunEnds, Built
<1>3. ASSUME NEW e \in Events, PickConv(e) \/ MissConv(e) \/ CreateConv(e) \/ LoadConv(e)
      PROVE KindInv'
  BY <1>3 DEF PickConv, MissConv, CreateConv, AfterCreation, LoadConv, LooksUp, HandlerLooksUp
<1>4. ASSUME NEW e \in Events, RequestLLM(e) \/ Granted(e) \/ Refuse(e) \/ WakeupRuns(e)
      PROVE KindInv'
  BY <1>4 DEF RequestLLM, ComesToRun, Granted, Refuse, Built, WakeupRuns
<1>5. ASSUME NEW e \in Events, RunAborts(e) \/ RunDiscarded(e) PROVE KindInv'
  BY <1>5 DEF RunAborts, RunDiscarded
<1>6. ASSUME NEW e \in Events, Commit(e) PROVE KindInv'
  BY <1>6 DEF Commit, Store
<1>7. ASSUME NEW e \in Events, Command(e) PROVE KindInv'
  BY <1>7 DEF Command, ResetStops, Clear, NewStops, AskStop
<1>8. CASE UNCHANGED vars
  BY <1>8 DEF vars
<1> QED BY <1>1, <1>2, <1>3, <1>4, <1>5, <1>6, <1>7, <1>8 DEF Next, Step, Run, Over

\* What a message asks for does not change.
LEMMA KindKept == [Next]_vars => kind' = kind
  BY DEF Next, Step, Run, Command, Over, Execute, GiveUp, Leave, PickConv, MissConv,
     CreateConv, LoadConv, RequestLLM, Granted, StartRun, Refuse, RunEnds, RunAborts,
     RunDiscarded, Commit, WakeupRuns, ResetStops, Clear, NewStops, AskStop, vars

\* The lock is taken when it is free, and given back by the one that has it.
LEMMA LockStep == Inv /\ [Next]_vars => LockInv'
<1> SUFFICES ASSUME Inv, [Next]_vars PROVE LockInv'
  OBVIOUS
<1>a. /\ pc \in [Events -> Pcs] /\ umo \in [Events -> Umos] /\ Home \in Umos
      /\ holder \in [Umos -> Events \cup {NoEvent}]
      /\ KindInv /\ LockInv
  BY DEF Inv, TypeOK, Home, Umos
<1>b. /\ Messages \subseteq Events /\ NoEvent \notin Messages
      /\ \A e \in Events : e \in Messages \/ e \in Wakeups
      /\ \A e \in Messages : e \notin Wakeups
  BY EventsFact
<1>c. \A k : \A e : e \in Asks(k) <=> e \in Messages /\ kind[e] = k
  BY DEF Asks
<1>d. kind' = kind /\ Chats' = Chats /\ Asked' = Asked /\ Requests' = Requests
  BY KindKept DEF Chats, Asked, Asks, Requests
<1>e. /\ \A e : e \in Chats <=> e \in Messages /\ kind[e] = "chat"
      /\ \A e : e \in Asked <=> e \in Messages /\ kind[e] = "asked"
      /\ \A e : e \in Resets <=> e \in Messages /\ kind[e] = "reset"
      /\ \A e : e \in News <=> e \in Messages /\ kind[e] = "new"
  BY <1>c DEF Chats, Asked, Resets, News
<1>f. \A e : InLock(e)' <=> \/ e \in Chats /\ pc'[e] \in {"locked", "creating", "picked"} \cup Read
                            \/ e \in Asked /\ pc'[e] \in {"locked", "running", "saving"}
  BY <1>d DEF InLock
<1>g. ASSUME holder' = holder, \A e \in Requests : InLock(e)' => InLock(e) PROVE LockInv'
  BY <1>a, <1>d, <1>g DEF LockInv, Home
<1> USE <1>a, <1>b, <1>d, <1>e, <1>f
    DEF KindInv, InLock, Goes, Read, Requests
<1>1. ASSUME NEW e \in Events,
             \/ Execute(e) \/ GiveUp(e) \/ Leave(e) \/ StartRun(e) \/ RunEnds(e)
             \/ RunAborts(e) \/ WakeupRuns(e)
      PROVE  LockInv'
  BY <1>1, <1>g DEF Execute, GiveUp, Leave, StartRun, Built, RunEnds, RunAborts, WakeupRuns, lockVars
<1>2. ASSUME NEW e \in Events, PickConv(e) \/ MissConv(e) \/ CreateConv(e) \/ LoadConv(e)
      PROVE  LockInv'
  BY <1>2, <1>g DEF PickConv, MissConv, CreateConv, AfterCreation, LoadConv, LooksUp,
     HandlerLooksUp, lockVars
<1>3. ASSUME NEW e \in Events, RequestLLM(e) \/ Granted(e) PROVE LockInv'
  <2>1. /\ e \in Messages /\ umo[e] = Home
        /\ \A f \in Events : f # e => pc'[f] = pc[f]
        /\ pc'[e] = "waiting" \/ holder'[Home] = e
    BY <1>3 DEF RequestLLM, ComesToRun, Granted
  <2>2. holder[Home] # NoEvent => holder'[Home] = holder[Home]
    BY <1>3, <2>1 DEF RequestLLM, Granted, Lock!Enter, Lock!Grant
  <2> QED BY <2>1, <2>2 DEF LockInv
<1>4. ASSUME NEW e \in Events, Refuse(e) \/ RunDiscarded(e) PROVE LockInv'
  <2>1. /\ e \in Requests /\ InLock(e)
        /\ pc' = [pc EXCEPT ![e] = "leaving"]
    BY <1>4 DEF Refuse, Built, RunDiscarded
  <2> QED BY <2>1 DEF LockInv
<1>5. ASSUME NEW e \in Events, Commit(e) PROVE LockInv'
  <2>1. CASE e \in Wakeups
    BY <1>5, <1>g, <2>1 DEF Commit, Store, lockVars
  <2>2. CASE e \in Messages
    <3>1. e \in Requests /\ InLock(e) /\ pc' = [pc EXCEPT ![e] = "leaving"]
      BY <1>5, <2>2 DEF Commit, Store
    <3> QED BY <2>2, <3>1 DEF LockInv
  <2> QED BY <2>1, <2>2
<1>6. ASSUME NEW e \in Events, Command(e) PROVE LockInv'
  BY <1>6, <1>g DEF Command, ResetStops, Clear, NewStops, AskStop, lockVars
<1>7. CASE UNCHANGED vars
  BY <1>7, <1>g DEF vars, lockVars
<1> QED BY <1>1, <1>2, <1>3, <1>4, <1>5, <1>6, <1>7 DEF Next, Step, Run, Over

\* An event has its conversation from the moment it has looked for it.
LEMMA ConvStep == Inv /\ [Next]_vars => ConvInv'
<1> SUFFICES ASSUME Inv, [Next]_vars PROVE ConvInv'
  OBVIOUS
<1>a. /\ pc \in [Events -> Pcs] /\ conv \in [Events -> 0..made] /\ seen \in [Events -> SUBSET Events]
      /\ cur \in 0..made /\ made \in Nat
  BY ConvsFact DEF Inv, TypeOK, Convs
<1>b. ConvInv /\ KindInv
  BY DEF Inv
<1>c. \A e \in Events : e \in Messages \/ e \in Wakeups
  BY EventsFact
<1>d. \A k : \A e : e \in Asks(k) <=> e \in Messages /\ kind[e] = k
  BY DEF Asks
<1>e. Chats' = Chats /\ Asked' = Asked
  BY KindKept DEF Chats, Asked, Asks
<1>f. \A e : Before(e)' <=> \/ pc'[e] \in {"idle", "woken", "creating"}
                            \/ e \in Chats /\ pc'[e] \in {"waiting", "locked"}
  BY <1>e DEF Before
<1> USE <1>a, <1>b, <1>c, <1>d, <1>e, <1>f
    DEF ConvInv, KindInv, Goes, Before, Read, Chats, Asked, Requests, Resets, News, Stops
<1>1. ASSUME UNCHANGED <<conv, made>>,
             \A e \in Events : Before(e)' => Before(e),
             \A e \in Events : conv[e] = 0 =>
                /\ seen'[e] = seen[e] /\ pc'[e] \notin {"picked", "clearing"}
                /\ pc'[e] \in Read => e \in Asked
      PROVE  ConvInv'
  <2>1. Past \subseteq Past' /\ Past' \subseteq Events
    BY <1>1 DEF Past
  <2>2. IsFiniteSet(Past') /\ Cardinality(Past) <= Cardinality(Past')
    BY <2>1, FS_Subset
  <2>3. made' <= Cardinality(Past')
    <3>1. Cardinality(Past) \in Nat /\ Cardinality(Past') \in Nat
      BY <2>2, ConvsFact, FS_CardinalityType
    <3> QED BY <1>1, <2>2, <3>1
  <2> QED BY <1>1, <2>3
<1>2. ASSUME NEW e \in Events,
             \/ Execute(e) \/ GiveUp(e) \/ Leave(e) \/ MissConv(e)
      PROVE  ConvInv'
  BY <1>1, <1>2 DEF Execute, GiveUp, Leave, MissConv, LooksUp, HandlerLooksUp, convVars
<1>3. ASSUME NEW e \in Events, LoadConv(e) PROVE ConvInv'
  BY <1>1, <1>3 DEF LoadConv, convVars
<1>4. ASSUME NEW e \in Events, RequestLLM(e) \/ Granted(e) \/ StartRun(e) \/ Refuse(e)
      PROVE ConvInv'
  BY <1>1, <1>4 DEF RequestLLM, ComesToRun, Granted, StartRun, Refuse, Built, convVars
<1>5. ASSUME NEW e \in Events,
             RunEnds(e) \/ RunAborts(e) \/ RunDiscarded(e) \/ Commit(e) \/ WakeupRuns(e)
      PROVE ConvInv'
  BY <1>1, <1>5 DEF RunEnds, RunAborts, RunDiscarded, Commit, Store, WakeupRuns, convVars
<1>6. ASSUME NEW e \in Events, Command(e) PROVE ConvInv'
  BY <1>1, <1>6 DEF Command, ResetStops, Clear, NewStops, AskStop, convVars
<1>7. ASSUME NEW e \in Events, PickConv(e) \/ CreateConv(e) PROVE ConvInv'
  <2>1. /\ Before(e) /\ ~Before(e)' /\ seen' = seen
        /\ \A f \in Events : f # e => pc'[f] = pc[f] /\ conv'[f] = conv[f]
        /\ made' \in {made, made + 1}
        /\ conv'[e] = 0 => e \in Asked /\ pc'[e] = "loaded"
        /\ pc'[e] \in Read => e \in Asked
    BY <1>7 DEF PickConv, CreateConv, AfterCreation, LooksUp, HandlerLooksUp
  <2>2. Past' = Past \cup {e}
    BY <2>1 DEF Past
  <2>3. Cardinality(Past \cup {e}) = Cardinality(Past) + 1 /\ Cardinality(Past) \in Nat
    BY <2>1, ConvsFact
  <2>4. made' <= Cardinality(Past')
    BY <2>1, <2>2, <2>3
  <2>5. \A f \in Events : f # e => (Before(f)' <=> Before(f))
    BY <2>1
  <2> QED BY <2>1, <2>4, <2>5
<1>8. CASE UNCHANGED vars
  BY <1>1, <1>8 DEF vars, convVars
<1> QED BY <1>2, <1>3, <1>4, <1>5, <1>6, <1>7, <1>8 DEF Next, Step, Run, Over

\* An event keeps its conversation, and what is over stays over.
LEMMA SettledFact ==
    ASSUME Inv, [Next]_vars
    PROVE  \A e \in Events : /\ conv[e] # 0 => conv'[e] = conv[e]
                             /\ pc[e] \in Ended => pc'[e] \in Ended /\ conv'[e] = conv[e]
<1>a. pc \in [Events -> Pcs] /\ conv \in [Events -> 0..made]
  BY DEF Inv, TypeOK
<1>b. ConvInv
  BY DEF Inv
<1> USE <1>a, <1>b DEF ConvInv, Goes, Before, Ended
<1> DEFINE Goal == \A f \in Events : /\ conv[f] # 0 => conv'[f] = conv[f]
                                     /\ pc[f] \in Ended => pc'[f] \in Ended /\ conv'[f] = conv[f]
<1>1. ASSUME NEW e \in Events,
             \/ Execute(e) \/ GiveUp(e) \/ Leave(e) \/ MissConv(e) \/ LoadConv(e)
      PROVE  Goal
  BY <1>1 DEF Execute, GiveUp, Leave, MissConv, LoadConv, LooksUp, HandlerLooksUp, convVars
<1>2. ASSUME NEW e \in Events, Run(e) PROVE Goal
  BY <1>2 DEF Run, RequestLLM, ComesToRun, Granted, StartRun, Refuse, Built, RunEnds,
     RunAborts, RunDiscarded, Commit, Store, WakeupRuns, convVars
<1>3. ASSUME NEW e \in Events, Command(e) PROVE Goal
  BY <1>3 DEF Command, ResetStops, Clear, NewStops, AskStop, convVars
<1>4. ASSUME NEW e \in Events, PickConv(e) \/ CreateConv(e) PROVE Goal
  BY <1>4 DEF PickConv, CreateConv, LooksUp, HandlerLooksUp
<1>5. CASE UNCHANGED vars
  BY <1>5 DEF vars, convVars
<1> QED BY <1>1, <1>2, <1>3, <1>4, <1>5 DEF Next, Step, Over

\* Three actions touch what is stored or what a run has read of it.
LEMMA QuietFact ==
    ASSUME Inv, [Next]_vars
    PROVE  \/ /\ seen' = seen /\ hist' = hist
              /\ \A e \in Chats : pc'[e] \in Read => pc[e] \in Read
           \/ \E e \in Events : LoadConv(e) \/ Commit(e) \/ Clear(e)
<1>a. pc \in [Events -> Pcs] /\ Chats \subseteq Events /\ Chats \cap Asked = {}
  BY EventsFact DEF Inv, TypeOK, Chats, Asked, Asks
<1> USE <1>a DEF Goes, Read
<1> DEFINE Quiet == /\ seen' = seen /\ hist' = hist
                    /\ \A e \in Chats : pc'[e] \in Read => pc[e] \in Read
<1>1. ASSUME NEW e \in Events,
             \/ Execute(e) \/ GiveUp(e) \/ Leave(e) \/ PickConv(e) \/ MissConv(e)
             \/ CreateConv(e)
      PROVE  Quiet
  BY <1>1 DEF Execute, GiveUp, Leave, PickConv, MissConv, CreateConv, AfterCreation
<1>2. ASSUME NEW e \in Events, Run(e), ~Commit(e) PROVE Quiet
  BY <1>2 DEF Run, RequestLLM, ComesToRun, Granted, StartRun, Built, Refuse, RunEnds,
     RunAborts, RunDiscarded, WakeupRuns
<1>3. ASSUME NEW e \in Events, ResetStops(e) \/ NewStops(e) \/ AskStop(e) PROVE Quiet
  BY <1>3 DEF ResetStops, NewStops, AskStop
<1>4. CASE UNCHANGED vars
  BY <1>4 DEF vars
<1> QED BY <1>1, <1>2, <1>3, <1>4 DEF Next, Step, Over, Command

\* Everybody but the woken agents writes with the lock, so not while a chat works.
LEMMA SoleWriter ==
    ASSUME Inv, NEW e \in Events, Commit(e)
    PROVE  /\ pc[e] = "saving" /\ pc' = [pc EXCEPT ![e] = IF e \in Wakeups THEN "done" ELSE "leaving"]
           /\ hist' = IF conv[e] = 0 THEN hist ELSE [hist EXCEPT ![conv[e]] = seen[e] \cup {e}]
           /\ seen' = seen /\ conv' = conv
           /\ conv[e] # 0 => conv[e] \in Convs
           /\ e \in Chats => conv[e] # 0
           /\ \A f \in Chats : e \in Messages /\ pc[f] \in Read => f = e
<1>a. /\ pc \in [Events -> Pcs] /\ conv \in [Events -> 0..made] /\ made \in Convs \cup {0}
      /\ Chats \subseteq Events /\ Chats \cap Asked = {}
  BY EventsFact DEF Inv, TypeOK, Chats, Asked, Asks
<1>1. /\ pc[e] = "saving" /\ pc' = [pc EXCEPT ![e] = IF e \in Wakeups THEN "done" ELSE "leaving"]
      /\ hist' = IF conv[e] = 0 THEN hist ELSE [hist EXCEPT ![conv[e]] = seen[e] \cup {e}]
      /\ seen' = seen /\ conv' = conv
  BY DEF Commit, Store, Goes, convVars
<1>2. e \in Chats => conv[e] # 0
  BY <1>a, <1>1 DEF Inv, ConvInv, Read
<1>3. conv[e] # 0 => conv[e] \in Convs
  <2>1. Cardinality(Events) \in Nat
    BY ConvsFact
  <2> QED BY <1>a, <2>1 DEF Convs
<1>4. \A f \in Chats : e \in Messages /\ pc[f] \in Read => f = e
  <2>1. e \in Messages => e \in Requests /\ InLock(e)
    BY <1>1 DEF Inv, KindInv, InLock, Requests, Chats, Asked, Asks, Read
  <2> QED BY <2>1 DEF Inv, LockInv, InLock, Requests
<1> QED BY <1>1, <1>2, <1>3, <1>4

\* A turn is read and stored with those of its own conversation.
LEMMA TurnStep == Inv /\ [Next]_vars => TurnInv'
<1> SUFFICES ASSUME Inv, [Next]_vars PROVE TurnInv'
  OBVIOUS
<1>a. /\ pc \in [Events -> Pcs] /\ conv \in [Events -> 0..made] /\ made \in Convs \cup {0}
      /\ seen \in [Events -> SUBSET Events] /\ hist \in [Convs -> SUBSET Events]
  BY DEF Inv, TypeOK
<1>b. TurnInv /\ ConvInv
  BY DEF Inv
<1>c. ASSUME NEW S, S \subseteq Events, NEW c, TurnsOf(S, c)
      PROVE  \A e \in S : pc'[e] \in Ended /\ conv'[e] = c
  BY <1>c, SettledFact DEF TurnsOf
<1>d. \A e \in Events : \A f \in seen[e] : pc'[f] \in Ended /\ conv'[f] = conv'[e]
  <2> SUFFICES ASSUME NEW e \in Events, NEW f \in seen[e]
               PROVE  pc'[f] \in Ended /\ conv'[f] = conv'[e]
    OBVIOUS
  <2>1. conv[e] # 0
    BY <1>b DEF ConvInv
  <2>2. conv'[e] = conv[e]
    BY <2>1, SettledFact
  <2> QED BY <1>a, <1>b, <1>c, <2>2 DEF TurnInv
<1>e. \A c \in Convs : \A e \in hist[c] : pc'[e] \in Ended /\ conv'[e] = c
  BY <1>a, <1>b, <1>c DEF TurnInv
<1>1. CASE seen' = seen /\ hist' = hist
  BY <1>1, <1>d, <1>e DEF TurnInv, TurnsOf
<1>2. ASSUME NEW e \in Events, LoadConv(e) PROVE TurnInv'
  <2>1. /\ seen' = [seen EXCEPT ![e] = hist[conv[e]]] /\ hist' = hist
        /\ conv[e] # 0 /\ conv' = conv
    BY <1>2, <1>a, <1>b DEF LoadConv, Goes, convVars, ConvInv
  <2>2. conv[e] \in Convs
    <3>1. Cardinality(Events) \in Nat
      BY ConvsFact
    <3> QED BY <1>a, <2>1, <3>1 DEF Convs
  <2> QED BY <1>a, <1>d, <1>e, <2>1, <2>2 DEF TurnInv, TurnsOf
<1>3. ASSUME NEW e \in Events, Commit(e) PROVE TurnInv'
  <2>1. /\ pc[e] = "saving" /\ pc' = [pc EXCEPT ![e] = IF e \in Wakeups THEN "done" ELSE "leaving"]
        /\ hist' = IF conv[e] = 0 THEN hist ELSE [hist EXCEPT ![conv[e]] = seen[e] \cup {e}]
        /\ seen' = seen /\ conv' = conv
    BY <1>3, SoleWriter
  <2>2. pc'[e] \in Ended
    BY <1>a, <2>1 DEF Ended
  <2> QED BY <1>a, <1>d, <1>e, <2>1, <2>2 DEF TurnInv, TurnsOf
<1>4. ASSUME NEW e \in Events, Clear(e) PROVE TurnInv'
  <2>1. hist' = [hist EXCEPT ![conv[e]] = {}] /\ seen' = seen /\ conv' = conv
    BY <1>4 DEF Clear, Goes, convVars
  <2> QED BY <1>a, <1>d, <1>e, <2>1 DEF TurnInv, TurnsOf
<1> QED BY <1>1, <1>2, <1>3, <1>4, QuietFact

\* A chat's run has read all that is stored, as nobody else stores anything.
LEMMA KeptStep == Inv /\ [Next]_vars => KeptInv'
<1>0. Chats' = Chats \/ ~[Next]_vars
  BY KindKept DEF Chats, Asks
<1> SUFFICES ASSUME Inv, [Next]_vars, NEW e \in Chats, pc'[e] \in Read, Undisturbed(e)'
             PROVE  hist'[conv'[e]] \subseteq seen'[e]
  BY <1>0 DEF KeptInv
<1>a. /\ pc \in [Events -> Pcs] /\ conv \in [Events -> 0..made]
      /\ seen \in [Events -> SUBSET Events] /\ hist \in [Convs -> SUBSET Events]
      /\ e \in Events /\ e \notin Wakeups /\ e \notin Asked /\ Wakeups \subseteq Events
  BY EventsFact DEF Inv, TypeOK, Chats, Asked, Asks
<1>b. KeptInv /\ ConvInv
  BY DEF Inv
<1>1. pc[e] \in Read => conv'[e] = conv[e] /\ Undisturbed(e)
  <2> SUFFICES ASSUME pc[e] \in Read PROVE conv'[e] = conv[e] /\ Undisturbed(e)
    OBVIOUS
  <2>1. conv[e] # 0 /\ conv'[e] = conv[e]
    BY <1>a, <1>b, SettledFact DEF ConvInv
  <2>2. \A w \in Wakeups : conv[w] # conv[e]
    BY <1>a, <2>1, SettledFact DEF Undisturbed
  <2> QED BY <2>1, <2>2 DEF Undisturbed
<1>2. CASE /\ seen' = seen /\ hist' = hist
           /\ \A f \in Chats : pc'[f] \in Read => pc[f] \in Read
  BY <1>1, <1>2, <1>a, <1>b DEF KeptInv
<1>3. ASSUME NEW f \in Events, LoadConv(f)
      PROVE  hist'[conv'[e]] \subseteq seen'[e]
  <2>1. /\ seen' = [seen EXCEPT ![f] = hist[conv[f]]] /\ hist' = hist /\ conv' = conv
        /\ f # e => pc[e] \in Read
    BY <1>3, <1>a DEF LoadConv, Goes, convVars
  <2> QED BY <1>1, <1>a, <1>b, <2>1 DEF KeptInv
<1>4. ASSUME NEW f \in Events, Commit(f)
      PROVE  hist'[conv'[e]] \subseteq seen'[e]
  <2>1. /\ pc' = [pc EXCEPT ![f] = IF f \in Wakeups THEN "done" ELSE "leaving"]
        /\ hist' = IF conv[f] = 0 THEN hist ELSE [hist EXCEPT ![conv[f]] = seen[f] \cup {f}]
        /\ seen' = seen /\ conv' = conv
        /\ f \in Messages /\ pc[e] \in Read => e = f
    BY <1>4, SoleWriter
  <2>2. f # e /\ pc[e] \in Read
    BY <1>a, <2>1 DEF Read
  <2>3. f \in Wakeups /\ conv[f] # conv[e]
    BY <1>1, <2>1, <2>2, EventsFact DEF Undisturbed
  <2> QED BY <1>1, <1>a, <1>b, <2>1, <2>2, <2>3 DEF KeptInv
<1>5. ASSUME NEW f \in Events, Clear(f)
      PROVE  hist'[conv'[e]] \subseteq seen'[e]
  <2>1. /\ hist' = [hist EXCEPT ![conv[f]] = {}] /\ seen' = seen /\ conv' = conv
        /\ pc[e] \in Read
    BY <1>5, <1>a DEF Clear, Goes, convVars, Read
  <2> QED BY <1>1, <1>a, <1>b, <2>1 DEF KeptInv
<1> QED BY <1>2, <1>3, <1>4, <1>5, QuietFact

\* Only a commit ends a run that was cut short without stopping its message.
LEMMA CutFact ==
    ASSUME Inv, [Next]_vars, NEW e \in Messages,
           aborted'[e], ~stopped'[e], pc'[e] \in Ended
    PROVE  Commit(e) \/ (aborted[e] /\ ~stopped[e] /\ pc[e] \in Ended)
<1>a. /\ pc \in [Events -> Pcs] /\ aborted \in [Events -> BOOLEAN]
      /\ stopped \in [Events -> BOOLEAN] /\ e \in Events /\ e \notin Wakeups
  BY EventsFact DEF Inv, TypeOK
<1>b. aborted[e] => pc[e] \in {"saving"} \cup Ended
  BY DEF Inv, KindInv
<1> USE <1>a, <1>b DEF Goes, Ended
<1> DEFINE Goal == Commit(e) \/ (aborted[e] /\ ~stopped[e] /\ pc[e] \in Ended)
<1>1. ASSUME NEW f \in Events,
             \/ Execute(f) \/ GiveUp(f) \/ Leave(f) \/ PickConv(f) \/ MissConv(f)
             \/ CreateConv(f) \/ LoadConv(f)
      PROVE  Goal
  <2>1. CASE f = e
    BY <1>1, <2>1 DEF Execute, GiveUp, Leave, PickConv, MissConv, CreateConv, LoadConv,
       LooksUp, HandlerLooksUp, stopVars
  <2>2. CASE f # e
    BY <1>1, <2>2 DEF Execute, GiveUp, Leave, PickConv, MissConv, CreateConv, LoadConv, stopVars
  <2> QED BY <2>1, <2>2
<1>2. ASSUME NEW f \in Events,
             \/ RequestLLM(f) \/ Granted(f) \/ StartRun(f) \/ Refuse(f) \/ RunEnds(f)
             \/ WakeupRuns(f)
      PROVE  Goal
  BY <1>2 DEF RequestLLM, ComesToRun, Granted, StartRun, Refuse, Built, RunEnds, WakeupRuns,
     stopVars
<1>3. ASSUME NEW f \in Events, RunAborts(f) PROVE Goal
  BY <1>3 DEF RunAborts
<1>4. ASSUME NEW f \in Events, RunDiscarded(f) PROVE Goal
  BY <1>4 DEF RunDiscarded, stopVars
<1>5. ASSUME NEW f \in Events, Commit(f) PROVE Goal
  <2>1. CASE f = e
    BY <1>5, <2>1
  <2>2. CASE f # e
    BY <1>5, <2>2 DEF Commit, Store, stopVars
  <2> QED BY <2>1, <2>2
<1>6. ASSUME NEW f \in Events, Command(f) PROVE Goal
  BY <1>6 DEF Command, ResetStops, Clear, NewStops, AskStop, StopAll, stopVars
<1>7. CASE UNCHANGED vars
  BY <1>7 DEF vars, stopVars
<1> QED BY <1>1, <1>2, <1>3, <1>4, <1>5, <1>6, <1>7 DEF Next, Step, Run, Over

\* Who has read the history without a turn stays one who has.
LEMMA OverwritesKept ==
    ASSUME Inv, [Next]_vars, NEW e \in Events, conv[e] # 0
    PROVE  /\ \A r \in Resets : conv[r] = conv[e] => conv'[r] = conv'[e]
           /\ \A r \in Events : Overwrites(r, e) => Overwrites(r, e)'
           /\ Resets' = Resets /\ Chats' = Chats
<1>a. /\ pc \in [Events -> Pcs] /\ conv \in [Events -> 0..made]
      /\ seen \in [Events -> SUBSET Events] /\ Resets \subseteq Events
  BY EventsFact DEF Inv, TypeOK, Resets, Asks
<1>b. ConvInv
  BY DEF Inv
<1>c. Resets' = Resets /\ Chats' = Chats /\ Asked' = Asked
  BY KindKept DEF Resets, Chats, Asked, Asks
<1>1. \A r \in Events : conv[r] = conv[e] => conv'[r] = conv'[e]
  BY SettledFact
<1>2. ASSUME NEW r \in Events, conv[r] # 0, pc[r] # "picked"
      PROVE  pc'[r] # "picked" /\ seen'[r] = seen[r]
  <2>a. ~Before(r)
    BY <1>b, <1>2 DEF ConvInv
  <2> USE <1>a, <1>2, <2>a DEF Goes
  <2>1. ASSUME NEW f \in Events,
               \/ Execute(f) \/ GiveUp(f) \/ Leave(f) \/ PickConv(f) \/ MissConv(f)
               \/ CreateConv(f) \/ LoadConv(f)
        PROVE  pc'[r] # "picked" /\ seen'[r] = seen[r]
    BY <2>1 DEF Execute, GiveUp, Leave, PickConv, MissConv, CreateConv, AfterCreation,
       LoadConv, LooksUp, HandlerLooksUp, Before
  <2>2. ASSUME NEW f \in Events, Run(f)
        PROVE  pc'[r] # "picked" /\ seen'[r] = seen[r]
    BY <2>2 DEF Run, RequestLLM, Granted, StartRun, Refuse, RunEnds, RunAborts,
       RunDiscarded, Commit, Store, WakeupRuns
  <2>3. ASSUME NEW f \in Events, Command(f)
        PROVE  pc'[r] # "picked" /\ seen'[r] = seen[r]
    BY <2>3 DEF Command, ResetStops, Clear, NewStops, AskStop
  <2>4. CASE UNCHANGED vars
    BY <2>4 DEF vars
  <2> QED BY <2>1, <2>2, <2>3, <2>4 DEF Next, Step, Over
<1>3. \A r \in Events : Overwrites(r, e) => Overwrites(r, e)'
  <2> SUFFICES ASSUME NEW r \in Events, Overwrites(r, e) PROVE Overwrites(r, e)'
    OBVIOUS
  <2>1. pc'[r] # "picked" /\ seen'[r] = seen[r] /\ conv'[r] = conv'[e]
    BY <1>1, <1>2 DEF Overwrites
  <2> QED BY <1>c, <2>1 DEF Overwrites
<1> QED BY <1>a, <1>c, <1>1, <1>3

\* A stored turn stays, unless it is cleared or written over by who has not read it.
LEMMA StaysStep ==
    ASSUME Inv, [Next]_vars, NEW e \in Events, conv[e] # 0, pc[e] \in Ended, Stays(e),
           \A r \in Resets : conv[r] # conv[e],
           \A r \in Events : ~Overwrites(r, e)
    PROVE  Stays(e)'
<1>a. /\ pc \in [Events -> Pcs] /\ conv \in [Events -> 0..made]
      /\ seen \in [Events -> SUBSET Events] /\ hist \in [Convs -> SUBSET Events]
      /\ Chats \subseteq Events /\ Wakeups \subseteq Events /\ Chats' = Chats
      /\ \A f \in Events : f \in Messages \/ f \in Wakeups
  BY EventsFact, KindKept DEF Inv, TypeOK, Chats, Asks
<1>b. ConvInv
  BY DEF Inv
<1>c. conv'[e] = conv[e]
  BY SettledFact
<1>d. \A f \in Chats : pc[f] \in Read => conv'[f] = conv[f]
  <2> SUFFICES ASSUME NEW f \in Chats, pc[f] \in Read PROVE conv'[f] = conv[f]
    OBVIOUS
  <2>1. f \notin Asked
    BY DEF Chats, Asked, Asks
  <2> QED BY <1>a, <1>b, <2>1, SettledFact DEF ConvInv
<1>1. CASE /\ seen' = seen /\ hist' = hist
           /\ \A f \in Chats : pc'[f] \in Read => pc[f] \in Read
  BY <1>1, <1>a, <1>c, <1>d DEF Stays
<1>2. ASSUME NEW f \in Events, LoadConv(f) PROVE Stays(e)'
  <2>1. /\ seen' = [seen EXCEPT ![f] = hist[conv[f]]] /\ hist' = hist /\ conv' = conv
        /\ \A g \in Chats : g # f /\ pc'[g] \in Read => pc[g] \in Read
    BY <1>2, <1>a DEF LoadConv, Goes, convVars
  <2> QED BY <1>a, <2>1 DEF Stays
<1>3. ASSUME NEW f \in Events, Commit(f) PROVE Stays(e)'
  <2>1. /\ pc[f] = "saving"
        /\ pc' = [pc EXCEPT ![f] = IF f \in Wakeups THEN "done" ELSE "leaving"]
        /\ hist' = IF conv[f] = 0 THEN hist ELSE [hist EXCEPT ![conv[f]] = seen[f] \cup {f}]
        /\ seen' = seen /\ conv' = conv
    BY <1>3, SoleWriter
  <2>2. \A g \in Chats : pc'[g] \in Read => pc[g] \in Read
    BY <1>a, <2>1 DEF Read
  <2>3. conv[f] = conv[e] => e \in seen[f]
    <3> SUFFICES ASSUME conv[f] = conv[e] PROVE e \in seen[f]
      OBVIOUS
    <3>1. CASE f \in Chats
      BY <2>1, <3>1 DEF Stays, Read
    <3>2. CASE f \notin Chats
      <4>1. f \in Asked \cup Wakeups
        BY <1>a, <2>1, <3>2 DEF Inv, KindInv, Chats, Asked, Asks, Read
      <4>2. f # e
        BY <2>1 DEF Ended
      <4> QED BY <2>1, <4>1, <4>2 DEF Overwrites
    <3> QED BY <3>1, <3>2
  <2>4. e \in hist'[conv[e]]
    <3>1. CASE conv[f] = conv[e]
      <4>1. hist'[conv[e]] = seen[f] \cup {f} \/ hist'[conv[e]] = hist[conv[e]]
        BY <1>a, <2>1, <3>1
      <4> QED BY <2>3, <3>1, <4>1 DEF Stays
    <3>2. CASE conv[f] # conv[e]
      BY <1>a, <2>1, <3>2 DEF Stays
    <3> QED BY <3>1, <3>2
  <2> QED BY <1>a, <2>1, <2>2, <2>4 DEF Stays
<1>4. ASSUME NEW f \in Events, Clear(f) PROVE Stays(e)'
  <2>1. /\ pc[f] = "clearing" /\ hist' = [hist EXCEPT ![conv[f]] = {}]
        /\ seen' = seen /\ conv' = conv
        /\ \A g \in Chats : pc'[g] \in Read => pc[g] \in Read
    BY <1>4, <1>a DEF Clear, Goes, convVars, Read
  <2>2. f \in Resets
    BY <1>a, <2>1 DEF Inv, KindInv, Resets, Asks
  <2> QED BY <1>a, <2>1, <2>2 DEF Stays
<1> QED BY <1>1, <1>2, <1>3, <1>4, QuietFact

\* A run that is cut short saves its turn, and there it stays.
LEMMA SavedStep == Inv /\ [Next]_vars => SavedInv'
<1> SUFFICES ASSUME Inv, [Next]_vars, NEW e \in Messages,
                    aborted'[e], conv'[e] # 0, ~stopped'[e], pc'[e] \in Ended
             PROVE  \/ Stays(e)'
                    \/ \E r \in Resets' : conv'[r] = conv'[e]
                    \/ \E r \in Events : Overwrites(r, e)'
  BY DEF SavedInv
<1>a. /\ pc \in [Events -> Pcs] /\ conv \in [Events -> 0..made]
      /\ seen \in [Events -> SUBSET Events] /\ hist \in [Convs -> SUBSET Events]
      /\ e \in Events /\ e \notin Wakeups /\ Chats \subseteq Events /\ Chats' = Chats
  BY EventsFact, KindKept DEF Inv, TypeOK, Chats, Asks
<1>1. CASE Commit(e)
  <2>1. /\ pc[e] = "saving" /\ pc' = [pc EXCEPT ![e] = "leaving"]
        /\ hist' = IF conv[e] = 0 THEN hist ELSE [hist EXCEPT ![conv[e]] = seen[e] \cup {e}]
        /\ seen' = seen /\ conv' = conv
        /\ conv[e] # 0 => conv[e] \in Convs
        /\ \A f \in Chats : pc[f] \in Read => f = e
    BY <1>1, <1>a, SoleWriter
  <2>2. e \in hist'[conv'[e]]
    BY <1>a, <2>1
  <2>3. \A f \in Chats : pc'[f] \notin Read
    BY <1>a, <2>1 DEF Read
  <2>4. Stays(e)'
    BY <1>a, <2>2, <2>3 DEF Stays
  <2> QED BY <2>4
<1>2. CASE ~Commit(e)
  <2>1. aborted[e] /\ ~stopped[e] /\ pc[e] \in Ended
    BY <1>2, CutFact
  <2>2. conv'[e] = conv[e] /\ conv[e] # 0
    BY <1>a, <2>1, SettledFact
  <2>3. \/ Stays(e)
        \/ \E r \in Resets : conv[r] = conv[e]
        \/ \E r \in Events : Overwrites(r, e)
    BY <2>1, <2>2 DEF Inv, SavedInv
  <2> QED BY <1>a, <2>1, <2>2, <2>3, OverwritesKept, StaysStep
<1> QED BY <1>1, <1>2

\* Inv is an invariant of SessionHistory.
THEOREM Invariance == Spec => []Inv
<1>1. Inv /\ [Next]_vars => Inv'
  BY TypeStep, KindStep, LockStep, ConvStep, TurnStep, KeptStep, SavedStep DEF Inv
<1> QED BY <1>1, InitInv, PTL DEF Spec

----------------------------------------------------------------------------
(* What follows from the invariant                                         *)

\* The history of a conversation holds no turn of another one, whatever /new
\* does meanwhile (internal.py:531).
THEOREM InConversation == Spec => []TurnsStayInConversation
<1>1. Inv => TurnsStayInConversation
  BY DEF Inv, TurnInv, TurnsOf, TurnsStayInConversation
<1> QED BY <1>1, Invariance, PTL

\* A run that only /stop cut short keeps its turn, unless /reset came to its
\* conversation or somebody works on it who read it, without the lock, before the
\* turn was there (internal.py:409).
THEOREM AbortedSaved == Spec => []AbortedIsSaved
<1>1. Inv => AbortedIsSaved
  BY DEF Inv, SavedInv, Stays, AbortedIsSaved, Ended
<1> QED BY <1>1, Invariance, PTL

\* A chat's run rewrites the history without losing a turn, whichever message stored
\* it and with whatever history of its own (internal.py:220, astr_main_agent.py:1522).
THEOREM TurnsKept == Spec => ChatTurnsKept
<1>1. Inv /\ [Next]_vars =>
        [\A e \in Chats :
            Commit(e) /\ (\A w \in Wakeups : conv[w] # conv[e]) =>
                hist[conv[e]] \subseteq hist'[conv[e]]]_vars
  <2> SUFFICES ASSUME Inv, [Next]_vars, NEW e \in Chats, Commit(e), Undisturbed(e)
               PROVE  hist[conv[e]] \subseteq hist'[conv[e]]
    BY DEF Undisturbed
  <2>1. e \in Events /\ hist \in [Convs -> SUBSET Events]
    BY EventsFact DEF Inv, TypeOK, Chats, Asks
  <2>2. /\ pc[e] = "saving" /\ conv[e] \in Convs
        /\ hist' = [hist EXCEPT ![conv[e]] = seen[e] \cup {e}]
    BY <2>1, SoleWriter
  <2>3. hist[conv[e]] \subseteq seen[e]
    BY <2>2 DEF Inv, KeptInv, Read
  <2> QED BY <2>1, <2>2, <2>3
<1> QED BY <1>1, Invariance, PTL DEF Spec, ChatTurnsKept

\* A turn is removed by /reset, or written over by a run whose history was read
\* without the lock: a handler's request (astr_main_agent.py:1385) or, once one works
\* on the conversation, what a woken agent leads to. Everything else keeps "persist
\* agent interaction into conversation history" (history_saver.py:16).
THEOREM WhoForgets ==
    Spec => [][\/ \A c \in Convs : hist[c] \subseteq hist'[c]
               \/ \E e \in Messages : Clear(e)
               \/ \E e \in Asked : Commit(e)
               \/ \E e \in Events, w \in Wakeups : Commit(e) /\ conv[w] = conv[e]]_vars
<1>1. Inv /\ [Next]_vars =>
        [\/ \A c \in Convs : hist[c] \subseteq hist'[c]
         \/ \E e \in Messages : Clear(e)
         \/ \E e \in Asked : Commit(e)
         \/ \E e \in Events, w \in Wakeups : Commit(e) /\ conv[w] = conv[e]]_vars
  <2> SUFFICES ASSUME Inv, [Next]_vars,
                      ~ \E e \in Messages : Clear(e), ~ \E e \in Asked : Commit(e),
                      ~ \E e \in Events, w \in Wakeups : Commit(e) /\ conv[w] = conv[e],
                      NEW c \in Convs
               PROVE  hist[c] \subseteq hist'[c]
    OBVIOUS
  <2>1. /\ hist \in [Convs -> SUBSET Events] /\ pc \in [Events -> Pcs]
        /\ \A e \in Events : e \in Messages \/ e \in Wakeups
    BY EventsFact DEF Inv, TypeOK
  <2>2. ASSUME NEW e \in Events, Commit(e) PROVE hist[c] \subseteq hist'[c]
    <3>1. /\ pc[e] = "saving"
          /\ hist' = IF conv[e] = 0 THEN hist ELSE [hist EXCEPT ![conv[e]] = seen[e] \cup {e}]
      BY <2>2, SoleWriter
    <3>2. e \in Chats
      BY <2>1, <2>2, <3>1 DEF Inv, KindInv, Chats, Asked, Asks, Read
    <3>3. hist[conv[e]] \subseteq seen[e]
      BY <2>2, <3>1, <3>2 DEF Inv, KeptInv, Undisturbed, Read
    <3> QED BY <2>1, <3>1, <3>3
  <2>3. ASSUME NEW e \in Events, LoadConv(e) PROVE hist[c] \subseteq hist'[c]
    BY <2>3 DEF LoadConv
  <2>4. ASSUME NEW e \in Events, Clear(e) PROVE FALSE
    <3>1. pc[e] = "clearing"
      BY <2>4 DEF Clear, Goes
    <3> QED BY <2>1, <2>4, <3>1 DEF Inv, KindInv
  <2> QED BY <2>2, <2>3, <2>4, QuietFact
<1> QED BY <1>1, Invariance, PTL DEF Spec

----------------------------------------------------------------------------
(* The registry, where members share the session of their chat             *)

LEMMA RegistryStep ==
    ASSUME ~UniqueSession, TypeOK, KindInv, ActiveIsRegistered, [Next]_vars
    PROVE  ActiveIsRegistered'
<1>a. /\ pc \in [Events -> Pcs] /\ umo \in [Events -> Umos]
      /\ active \in [Umos -> SUBSET Messages]
      /\ Messages \subseteq Events
      /\ \A e \in Messages : umo[e] = "chat" /\ e \notin Wakeups
      /\ \A w \in Wakeups : pc[w] # "leaving"
  BY EventsFact DEF TypeOK, KindInv, Home
<1> USE <1>a DEF ActiveIsRegistered, Goes
<1>1. ASSUME UNCHANGED <<umo, active>>,
             \A e \in Messages : pc'[e] \in {"idle", "done"} <=> pc[e] \in {"idle", "done"}
      PROVE  ActiveIsRegistered'
  BY <1>1
<1>2. ASSUME NEW e \in Events, Execute(e) PROVE ActiveIsRegistered'
  <2>1. /\ e \in Messages /\ umo' = umo /\ pc' = [pc EXCEPT ![e] = "woken"]
        /\ active' = [active EXCEPT ![umo[e]] = active[umo[e]] \cup {e}]
    BY <1>2 DEF Execute
  <2> QED BY <2>1
<1>3. ASSUME NEW e \in Events, Leave(e) PROVE ActiveIsRegistered'
  <2>1. /\ umo' = umo /\ pc' = [pc EXCEPT ![e] = "done"] /\ pc[e] = "leaving"
        /\ active' = [active EXCEPT ![umo[e]] = active[umo[e]] \ {e}]
    BY <1>3 DEF Leave
  <2>2. e \in Messages
    BY <2>1, EventsFact
  <2> QED BY <2>1, <2>2
<1>4. ASSUME NEW e \in Events,
             GiveUp(e) \/ PickConv(e) \/ MissConv(e) \/ CreateConv(e) \/ LoadConv(e)
      PROVE  ActiveIsRegistered'
  <2>1. e \in Messages => pc[e] \notin {"idle", "done"} /\ pc'[e] \notin {"idle", "done"}
    BY <1>4 DEF GiveUp, PickConv, MissConv, CreateConv, AfterCreation, LoadConv, LooksUp,
       HandlerLooksUp, Chats, Asked, Resets, Asks
  <2> QED BY <1>1, <1>4, <2>1 DEF GiveUp, PickConv, MissConv, CreateConv, LoadConv
<1>5. ASSUME NEW e \in Events, Run(e) PROVE ActiveIsRegistered'
  BY <1>1, <1>5 DEF Run, RequestLLM, ComesToRun, Granted, StartRun, Refuse, Built, RunEnds,
     RunAborts, RunDiscarded, Commit, Store, WakeupRuns
<1>6. ASSUME NEW e \in Events, Command(e) PROVE ActiveIsRegistered'
  BY <1>1, <1>6 DEF Command, ResetStops, Clear, NewStops, AskStop
<1>7. CASE UNCHANGED vars
  BY <1>1, <1>7 DEF vars
<1> QED BY <1>2, <1>3, <1>4, <1>5, <1>6, <1>7 DEF Next, Step, Over

\* Unless members have sessions of their own, the registry holds exactly the
\* messages at work, under their session (active_event_registry.py:19).
THEOREM Registered ==
    ASSUME ~UniqueSession
    PROVE  Spec => []ActiveIsRegistered
<1>1. Init => ActiveIsRegistered
  BY EventsFact DEF Init, ActiveIsRegistered
<1>2. Inv /\ ActiveIsRegistered /\ [Next]_vars => ActiveIsRegistered'
  BY RegistryStep DEF Inv
<1> QED BY <1>1, <1>2, Invariance, PTL DEF Spec

\* ... and then /stop reaches every run of the session ("stop the Agent tasks
\* currently running in the current session", active_event_registry.py:60).
THEOREM StopReaches ==
    ASSUME ~UniqueSession
    PROVE  Spec => StopReachesRuns
<1>1. Inv /\ ActiveIsRegistered /\ [Next]_vars =>
        [\A s \in Messages : AskStop(s) =>
            \A e \in Messages :
                pc[e] = "running" /\ umo[e] = umo[s] => askedStop'[e]]_vars
  <2> SUFFICES ASSUME Inv, ActiveIsRegistered, NEW s \in Messages, AskStop(s),
                      NEW e \in Messages, pc[e] = "running", umo[e] = umo[s]
               PROVE  askedStop'[e]
    OBVIOUS
  <2>1. umo[s] \in Umos /\ e \in Events
    BY EventsFact DEF Inv, TypeOK
  <2>2. e \in active[umo[s]]
    BY <2>1 DEF ActiveIsRegistered
  <2>3. e # s
    BY DEF AskStop, Goes
  <2> QED BY <2>1, <2>2, <2>3 DEF AskStop, Others
<1> QED BY <1>1, Registered, Invariance, PTL DEF Spec, StopReachesRuns

----------------------------------------------------------------------------
(* The session lock                                                        *)

\* A message enters the lock, is granted it, or leaves it as its holder; no other
\* step touches it.
LEMMA LockMoves == Inv /\ [Next]_vars => [Lock!Next]_(Lock!vars)
<1> SUFFICES ASSUME Inv, [Next]_vars PROVE [Lock!Next]_(Lock!vars)
  OBVIOUS
<1>a. umo \in [Events -> Umos]
  BY DEF Inv, TypeOK
<1>1. ASSUME NEW e \in Events, Unlock(e) PROVE Lock!Next
  BY <1>a, <1>1 DEF Unlock, Lock!Next
<1>2. ASSUME NEW e \in Events, RequestLLM(e) \/ Granted(e) PROVE Lock!Next
  <2>1. umo[e] \in Umos
    BY <1>a
  <2> QED BY <1>2, <2>1 DEF RequestLLM, Granted, Lock!Next
<1>3. ASSUME NEW e \in Events, Refuse(e) \/ RunDiscarded(e) PROVE Lock!Next
  BY <1>1, <1>3 DEF Refuse, RunDiscarded
<1>4. ASSUME NEW e \in Events, Commit(e) PROVE Lock!Next \/ UNCHANGED Lock!vars
  BY <1>1, <1>4 DEF Commit, Store, lockVars, Lock!vars
<1>5. ASSUME NEW e \in Events, Step(e),
             ~(\/ RequestLLM(e) \/ Granted(e) \/ Refuse(e) \/ RunDiscarded(e) \/ Commit(e))
      PROVE  UNCHANGED lockVars
  BY <1>5 DEF Step, Run, Command, Execute, GiveUp, Leave, PickConv, MissConv, CreateConv,
       LoadConv, StartRun, RunEnds, RunAborts, WakeupRuns, ResetStops, Clear, NewStops, AskStop
<1>6. UNCHANGED lockVars => UNCHANGED Lock!vars
  BY DEF lockVars, Lock!vars
<1> QED BY <1>2, <1>3, <1>4, <1>5, <1>6 DEF Next, Over, vars

\* SessionHistory takes, hands on and leaves the session lock the way FifoLock says
\* (internal.py:220, agent_session_lock of session_lock.py).
THEOREM TakesLocks == Spec => Lock!Spec
<1>1. Init => Lock!Init
  BY DEF Init
<1> QED BY <1>1, LockMoves, Invariance, PTL DEF Spec, Lock!Spec

\* One message of the session works with the lock at a time, from taking it to leaving
\* it (internal.py:220). That covers reading the history as well as writing it for a
\* chat, but only writing it for a message that a handler asks about.
THEOREM OneAtWork ==
    Spec => [](\A e, f \in Requests : InLock(e) /\ InLock(f) => e = f)
<1>1. Inv => \A e, f \in Requests : InLock(e) /\ InLock(f) => e = f
  BY DEF Inv, LockInv
<1> QED BY <1>1, Invariance, PTL
=============================================================================
