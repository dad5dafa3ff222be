--------------------------- MODULE PipelineProofs ---------------------------
(***************************************************************************)
(* Safety of Pipeline for any number of handlers and replies. Inv says how *)
(* the activations of _process_stages are nested, that ProcessStage is     *)
(* begun before any handler has run, and where the reply that is on its    *)
(* way is to be found. A stop that is undone needs more: StopInv and Halted*)
(* say where the pipeline can stand by then.                               *)
(***************************************************************************)
EXTENDS Pipeline, SequenceTheorems, TLAPS

\* The stage of the activation below the top one, which waits for it, or 0
Under == IF Len(frames) > 1 THEN frames[Len(frames) - 1].stage ELSE 0

\* Only a generator waits for another activation, which is at a later stage.
StackInv ==
    /\ \A i \in 1..Len(frames) - 1 :
        /\ frames[i].at = "inner" /\ frames[i].stage \in Generators
        /\ frames[i].stage < frames[i + 1].stage
    /\ frames # <<>> =>
        /\ Top.at # "inner"
        /\ Top.at \in {"yielded", "returned", "resumed"} => Top.stage \in Generators

NoneRun == \A h \in 1..Handlers : runs[h] = 0
NoneAfter(h) == \A g \in 1..Handlers : g > h => runs[g] = 0

\* A message that comes back to the stages before ProcessStage is stopped there.
FirstInv ==
    frames # <<>> =>
        /\ \/ Top.stage < ContentSafety
           \/ Top.stage = ContentSafety /\ Top.at \in {"start", "yielded"}
           \/ In(Process, "start")
           => NoneRun
        /\ In(ContentSafety, "finished") \/ Top.stage = PreProcess => NoneRun \/ IsStopped

\* Whether the message is stopped is asked before a generator is resumed.
ResumedInv == frames # <<>> /\ Top.at = "resumed" => ~IsStopped

\* The handlers that are still to come have not run.
HandInv ==
    /\ \A h \in 1..Handlers : runs[h] <= 1
    /\ place = "between" => In(Process, "working")
    /\ place = "between" /\ ~IsStopped => NoneAfter(hand - 1)
    /\ place \in {"handler", "error"} \/ (place \in {"asked", "agent", "stream"} /\ nested) =>
        hand <= Handlers /\ NoneAfter(hand)

\* What has a chain has a number, and what is empty was left by stop_event.
ResultInv ==
    /\ result.id <= yields
    /\ result.kind \notin {"none", "bare"} => result.id > 0
    /\ result.kind = "bare" => forced
    /\ last <= yields
    /\ \A r \in 1..MaxYields : r > yields => fate[r] = "unsent"

Carried == result.id = last /\ result.kind \in {"chain", "llm"}
Settled == fate[last] # "unsent"

\* The reply ProcessStage has yielded is the result until it is sent or dropped;
\* one that is rejected on the way stops the message.
ReplyInv ==
    frames # <<>> /\ ~forced =>
        /\ Under \in {Process, ResultDecorate} \/ In(ResultDecorate, "yielded")
           \/ In(ResultDecorate, "returned") => ~result.stop
        /\ last # 0 =>
            /\ In(Process, "yielded") /\ ~result.stop => Carried
            /\ In(Process, "returned") \/ In(Process, "resumed") => Settled
            /\ Under = Process =>
                /\ In(ResultDecorate, "start") \/ In(ResultDecorate, "working") => Carried
                /\ In(ResultDecorate, "finished") => Carried \/ Settled
                /\ In(Respond, "start") \/ In(Respond, "working") => Carried \/ Settled
                /\ In(Respond, "finished") => Settled

\* A reply that was sent stays the result only if it has stopped the message.
SentInv ==
    ~forced =>
        /\ \A r \in 1..MaxYields : fate[r] # "resent"
        /\ result.id > 0 /\ fate[result.id] = "sent" =>
            /\ result.stop
            /\ \/ frames = <<>> \/ In(Respond, "finished")
               \/ In(ContentSafety, "returned") \/ Top.stage = PreProcess

Inv ==
    /\ TypeOK /\ StackInv /\ FirstInv /\ ResumedInv /\ HandInv
    /\ ResultInv /\ ReplyInv /\ SentInv

USE PipelineAssumption

----------------------------------------------------------------------------
(* The call stack                                                          *)

Frame == [stage : Stages, at : Ats]
FramesOK == frames \in Seq(Frame) /\ StackInv
Halfway == {"yielded", "returned", "resumed"}

\* Arithmetic the provers should not have to find each time.
LEMMA OneOrMore ==
    \A n \in Nat \ {0} :
        /\ n = 1 \/ n > 1
        /\ n # 1 => n > 1 /\ n - 1 \in Nat \ {0} /\ n - 1 < n /\ n - 1 \in 1..n /\ n - 1 + 1 = n
        /\ n # 1 => n - 1 \in 1..n - 1
  OBVIOUS

\* The activation on top of the stack, and the stage of the one below.
LEMMA TopFact ==
    ASSUME FramesOK, frames # <<>>
    PROVE  /\ Len(frames) \in Nat \ {0} /\ Top = frames[Len(frames)] /\ Top \in Frame
           /\ Under \in {0} \cup Generators /\ Under < Top.stage
<1>1. Len(frames) \in Nat \ {0}
  BY DEF FramesOK
<1>2. Top = frames[Len(frames)] /\ Top \in Frame
  BY <1>1 DEF Top, Last, FramesOK
<1>3. CASE Len(frames) = 1
  BY <1>1, <1>2, <1>3 DEF Under, Frame, Stages
<1>4. CASE Len(frames) > 1
  <2>1. Len(frames) - 1 \in 1..Len(frames) - 1 /\ Len(frames) - 1 + 1 = Len(frames)
    BY <1>1, <1>4
  <2>2. Under = frames[Len(frames) - 1].stage
    BY <1>4 DEF Under
  <2>3. Under \in Generators /\ Under < frames[Len(frames)].stage
    BY <2>1, <2>2 DEF FramesOK, StackInv
  <2> QED BY <1>1, <1>2, <2>3
<1>5. Len(frames) = 1 \/ Len(frames) > 1
  BY <1>1, OneOrMore
<1> QED BY <1>3, <1>4, <1>5

\* The top activation is replaced.
LEMMA ReplaceFact ==
    ASSUME FramesOK, frames # <<>>, NEW f \in Frame, frames' = [frames EXCEPT ![Len(frames)] = f],
           f.at # "inner", f.at \in Halfway => f.stage \in Generators,
           Top.stage <= f.stage
    PROVE  FramesOK' /\ frames' # <<>> /\ Top' = f /\ Under' = Under
<1>a. /\ Len(frames) \in Nat \ {0} /\ Top = frames[Len(frames)] /\ Top \in Frame
      /\ frames \in Seq(Frame)
  BY TopFact DEF FramesOK
<1>1. /\ frames' \in Seq(Frame) /\ Len(frames') = Len(frames) /\ frames' # <<>>
      /\ frames'[Len(frames)] = f
      /\ \A i \in 1..Len(frames) - 1 : frames'[i] = frames[i]
  BY <1>a
<1>2. Top' = f
  BY <1>1 DEF Top, Last
<1>3. Under' = Under
  <2>1. CASE Len(frames) > 1
    <3>1. Len(frames) - 1 \in 1..Len(frames) - 1
      BY <1>a, <2>1
    <3>2. frames'[Len(frames') - 1] = frames[Len(frames) - 1]
      BY <1>1, <3>1
    <3>3. Len(frames') > 1
      BY <1>1, <2>1
    <3> QED BY <2>1, <3>2, <3>3 DEF Under
  <2>2. CASE ~(Len(frames) > 1)
    BY <1>1, <2>2 DEF Under
  <2> QED BY <2>1, <2>2
<1>4. ASSUME NEW i \in 1..Len(frames) - 1
      PROVE  /\ frames'[i].at = "inner" /\ frames'[i].stage \in Generators
             /\ frames'[i].stage < frames'[i + 1].stage
  <2>1. /\ frames[i].at = "inner" /\ frames[i].stage \in Generators
        /\ frames[i].stage < frames[i + 1].stage
    BY DEF FramesOK, StackInv
  <2>2. CASE i = Len(frames) - 1
    <3>0. i + 1 = Len(frames)
      BY <1>a, <2>2
    <3>1. i + 1 = Len(frames) /\ frames'[i] = frames[i] /\ frames'[i + 1] = f
      BY <1>1, <3>0
    <3>2. frames[i].stage < Top.stage
      BY <1>a, <2>1, <3>1
    <3>3. frames[i].stage \in Int /\ Top.stage \in Int /\ f.stage \in Int
      BY <1>a, <2>1 DEF Frame, Stages, Generators, ContentSafety, Process, ResultDecorate
    <3>4. frames[i].stage < f.stage
      BY <3>2, <3>3
    <3> QED BY <2>1, <3>1, <3>4
  <2>3. CASE i # Len(frames) - 1
    <3>1. i + 1 \in 1..Len(frames) - 1
      BY <1>a, <2>3
    <3> QED BY <1>1, <2>1, <3>1
  <2> QED BY <2>2, <2>3
<1> QED BY <1>1, <1>2, <1>3, <1>4 DEF FramesOK, StackInv, Halfway

\* The activation on top moves on within its stage,
LEMMA ToAtFact ==
    ASSUME FramesOK, frames # <<>>, NEW at \in Ats, at # "inner", ToAt(at),
           at \in Halfway => Top.stage \in Generators
    PROVE  /\ FramesOK' /\ frames' # <<>> /\ Under' = Under
           /\ Top' \in Frame /\ Top'.stage = Top.stage /\ Top'.at = at
<1> DEFINE f == [stage |-> Top.stage, at |-> at]
<1>1. Len(frames) \in Nat \ {0} /\ Top = frames[Len(frames)] /\ Top \in Frame
  BY TopFact
<1>2. f \in Frame /\ Top.stage \in Int
  BY <1>1 DEF Frame, Stages
<1>3. frames' = [frames EXCEPT ![Len(frames)] = f]
  <2>1. frames' = [frames EXCEPT ![Len(frames)] = [Top EXCEPT !.at = at]]
    BY <1>1 DEF ToAt
  <2>2. [Top EXCEPT !.at = at] = f
    BY <1>1 DEF Frame
  <2> QED BY <2>1, <2>2
<1>4. FramesOK' /\ frames' # <<>> /\ Top' = f /\ Under' = Under
  <2> HIDE DEF f
  <2>1. f.stage = Top.stage /\ f.at = at
    BY DEF f
  <2>2. Top.stage <= f.stage
    BY <1>2, <2>1
  <2>3. f.at # "inner" /\ (f.at \in Halfway => f.stage \in Generators)
    BY <2>1
  <2> QED BY <1>2, <1>3, <2>2, <2>3, ReplaceFact
<1> QED BY <1>2, <1>4

\* gives way to the next stage,
LEMMA NextStageFact ==
    ASSUME FramesOK, frames # <<>>, Top.stage < Respond, NextStage
    PROVE  /\ FramesOK' /\ frames' # <<>> /\ Under' = Under
           /\ Top' \in Frame /\ Top'.stage = Top.stage + 1 /\ Top'.at = "start"
<1> DEFINE f == [stage |-> Top.stage + 1, at |-> "start"]
<1>1. Top \in Frame
  BY TopFact
<1>2. f \in Frame /\ Top.stage <= f.stage
  BY <1>1 DEF Frame, Stages, Ats, Respond
<1>3. frames' = [frames EXCEPT ![Len(frames)] = f]
  BY DEF NextStage
<1>4. f.stage = Top.stage + 1 /\ f.at = "start"
  OBVIOUS
<1> HIDE DEF f
<1>5. FramesOK' /\ frames' # <<>> /\ Top' = f /\ Under' = Under
  BY <1>2, <1>3, <1>4, ReplaceFact DEF Halfway
<1> QED BY <1>2, <1>4, <1>5

\* The activation below goes on, if there is one.
LEMMA EndLoopFact ==
    ASSUME FramesOK, frames # <<>>, EndLoop
    PROVE  /\ FramesOK'
           /\ frames' # <<>> =>
                /\ Under # 0 /\ Top' \in Frame /\ Top'.stage = Under /\ Top'.at = "returned"
                /\ Under' \in {0} \cup Generators /\ Under' < Under
<1>a. /\ Len(frames) \in Nat \ {0} /\ frames \in Seq(Frame)
      /\ Under \in {0} \cup Generators
  BY TopFact DEF FramesOK
<1>1. CASE Len(frames) = 1
  BY <1>1 DEF EndLoop, FramesOK, StackInv
<1>2. CASE Len(frames) # 1
  <2> DEFINE n == Len(frames) - 1
             g == Front(frames)
             f == [stage |-> frames[n].stage, at |-> "returned"]
  <2>1. n \in Nat \ {0} /\ n < Len(frames)
    BY <1>a, <1>2, OneOrMore
  <2>2. g \in Seq(Frame) /\ Len(g) = n /\ \A i \in 1..n : g[i] = frames[i]
    <3>1. \A i \in 1..n : frames[i] \in Frame
      BY <1>a, <2>1
    <3>2. /\ SubSeq(frames, 1, n) \in Seq(Frame)
          /\ Len(SubSeq(frames, 1, n)) = IF 1 <= n THEN n - 1 + 1 ELSE 0
          /\ \A i \in 1..n - 1 + 1 : SubSeq(frames, 1, n)[i] = frames[1 + i - 1]
      BY <2>1, <3>1, SubSeqProperties
    <3>3. \A i \in 1..n : i \in 1..n - 1 + 1 /\ 1 + i - 1 = i
      BY <2>1
    <3> HIDE DEF n
    <3>4. g = SubSeq(frames, 1, n)
      BY DEF Front, n
    <3> HIDE DEF g
    <3> QED BY <2>1, <3>2, <3>3, <3>4
  <2>3. /\ frames[n] \in Frame /\ frames[n].at = "inner" /\ frames[n].stage \in Generators
        /\ Under = frames[n].stage
    <3>1. n \in 1..Len(frames) - 1 /\ n \in 1..Len(frames) /\ Len(frames) > 1
      BY <1>a, <1>2, OneOrMore
    <3> HIDE DEF f, g
    <3>2. frames[n] \in Frame
      BY <1>a, <3>1
    <3>3. frames[n].at = "inner" /\ frames[n].stage \in Generators
      BY <3>1 DEF FramesOK, StackInv
    <3> QED BY <3>1, <3>2, <3>3 DEF Under
  <2>4. f \in Frame /\ f.stage = frames[n].stage /\ f.at = "returned"
    BY <2>3 DEF Frame, Ats
  <2>5. frames' = [g EXCEPT ![n] = f]
    <3>1. frames' = [g EXCEPT ![n] = [g[n] EXCEPT !.at = "returned"]]
      BY <1>2 DEF EndLoop
    <3>2. g[n] = frames[n]
      BY <2>1, <2>2
    <3>3. [frames[n] EXCEPT !.at = "returned"] = f
      BY <2>3 DEF Frame
    <3> QED BY <3>1, <3>2, <3>3
  <2> HIDE DEF f, g
  <2>6. /\ frames' \in Seq(Frame) /\ Len(frames') = n /\ frames' # <<>>
        /\ frames'[n] = f /\ \A i \in 1..n - 1 : frames'[i] = frames[i]
    BY <2>1, <2>2, <2>4, <2>5
  <2>7. Top' = f
    BY <2>6 DEF Top, Last
  <2>8. ASSUME NEW i \in 1..n - 1
        PROVE  /\ frames'[i].at = "inner" /\ frames'[i].stage \in Generators
               /\ frames'[i].stage < frames'[i + 1].stage
    <3>1. /\ frames[i].at = "inner" /\ frames[i].stage \in Generators
          /\ frames[i].stage < frames[i + 1].stage
      BY <2>1 DEF FramesOK, StackInv
    <3>2. frames'[i + 1].stage = frames[i + 1].stage
      <4>1. i + 1 = n \/ i + 1 \in 1..n - 1
        BY <2>1
      <4> QED BY <2>4, <2>6, <4>1
    <3> QED BY <2>6, <3>1, <3>2
  <2>9. FramesOK'
    BY <2>3, <2>4, <2>6, <2>7, <2>8 DEF FramesOK, StackInv
  <2>10. Under' \in {0} \cup Generators /\ Under' < Under
    <3>1. CASE n = 1
      <4>1. Len(frames') = 1
        BY <2>6, <3>1
      <4>3. Under' = 0
        BY <4>1 DEF Under
      <4>2. 0 < Under
        BY <2>3 DEF Generators, ContentSafety, Process, ResultDecorate
      <4> QED BY <4>2, <4>3
    <3>2. CASE n > 1
      <4>1. n - 1 \in 1..n - 1 /\ n - 1 + 1 = n
        BY <2>1, <3>2
      <4>2. Under' = frames'[n - 1].stage
        BY <2>6, <3>2 DEF Under
      <4> QED BY <2>3, <2>4, <2>6, <2>8, <4>1, <4>2
    <3>3. n = 1 \/ n > 1
      BY <2>1, OneOrMore
    <3> QED BY <3>1, <3>2, <3>3
  <2>11. Under # 0
    BY <2>3 DEF Generators, ContentSafety, Process, ResultDecorate
  <2> QED BY <2>3, <2>4, <2>7, <2>9, <2>10, <2>11
<1> QED BY <1>1, <1>2

\* or, halfway through, starts the later stages from within.
LEMMA DescendFact ==
    ASSUME FramesOK, Descend
    PROVE  /\ FramesOK' /\ frames' # <<>> /\ Under' = Top.stage /\ Top.stage \in Generators
           /\ Top' \in Frame /\ Top'.stage = Top.stage + 1 /\ Top'.at = "start"
<1> DEFINE n == Len(frames)
           g == [frames EXCEPT ![n].at = "inner"]
           f == [stage |-> Top.stage + 1, at |-> "start"]
<1>1. frames # <<>> /\ Top.at = "yielded" /\ frames' = Append(g, f)
  BY DEF Descend
<1>2. n \in Nat \ {0} /\ Top = frames[n] /\ Top \in Frame /\ frames \in Seq(Frame)
  BY <1>1, TopFact DEF FramesOK
<1>3. Top.stage \in Generators
  BY <1>1 DEF FramesOK, StackInv
<1>4. f \in Frame /\ f.stage = Top.stage + 1 /\ f.at = "start"
  BY <1>3 DEF Frame, Stages, Ats, Generators, ContentSafety, Process, ResultDecorate
<1>5. /\ g \in Seq(Frame) /\ Len(g) = n /\ g[n].stage = Top.stage /\ g[n].at = "inner"
      /\ \A i \in 1..n - 1 : g[i] = frames[i]
  BY <1>2 DEF Frame, Ats
<1> HIDE DEF f, g, n
<1>6. /\ frames' \in Seq(Frame) /\ Len(frames') = n + 1 /\ frames' # <<>>
      /\ frames'[n + 1] = f /\ \A i \in 1..n : frames'[i] = g[i]
  BY <1>1, <1>2, <1>4, <1>5
<1>7. Top' = f
  BY <1>6 DEF Top, Last
<1>8. Under' = Top.stage
  BY <1>2, <1>5, <1>6 DEF Under
<1>9. ASSUME NEW i \in 1..n
      PROVE  /\ frames'[i].at = "inner" /\ frames'[i].stage \in Generators
             /\ frames'[i].stage < frames'[i + 1].stage
  <2>1. CASE i = n
    BY <1>2, <1>3, <1>4, <1>5, <1>6, <2>1 DEF Generators, ContentSafety, Process, ResultDecorate
  <2>2. CASE i # n
    <3>1. i \in 1..n - 1 /\ (i + 1 = n \/ i + 1 \in 1..n - 1) /\ i + 1 \in 1..n
      BY <1>2, <2>2
    <3>2. /\ frames[i].at = "inner" /\ frames[i].stage \in Generators
          /\ frames[i].stage < frames[i + 1].stage
      BY <3>1 DEF FramesOK, StackInv, n
    <3> QED BY <1>2, <1>5, <1>6, <3>1, <3>2
  <2> QED BY <2>1, <2>2
<1>10. FramesOK'
  <2>1. Len(frames') - 1 = n
    BY <1>2, <1>6
  <2> QED BY <1>4, <1>6, <1>7, <1>9, <2>1 DEF FramesOK, StackInv
<1> QED BY <1>3, <1>4, <1>6, <1>7, <1>8, <1>10

----------------------------------------------------------------------------
(* What the steps do to the stack                                          *)

MovesAt == \E at \in {"working", "yielded", "finished"} :
    ToAt(at) /\ (at = "yielded" => Top.stage \in Generators)

\* A step moves within the top stage, on to the next one, back to the activation
\* below, into a new activation, or out of all of them.
Moves ==
    \/ frames' \in {frames, <<>>}
    \/ frames # <<>> /\ MovesAt
    \/ frames # <<>> /\ Top.stage \in Generators /\ ToAt("resumed")
    \/ frames # <<>> /\ Top.stage < Respond /\ NextStage
    \/ frames # <<>> /\ EndLoop
    \/ Descend

\* However the stack moves, what is below the top stays.
LEMMA MovesFact ==
    ASSUME FramesOK, Moves
    PROVE  FramesOK'
<1>1. CASE frames' = frames
  BY <1>1 DEF FramesOK, StackInv, Top
<1>2. CASE frames' = <<>>
  BY <1>2 DEF FramesOK, StackInv
<1>3. CASE frames # <<>> /\ MovesAt
  BY <1>3, ToAtFact DEF MovesAt, Ats, Halfway
<1>4. CASE frames # <<>> /\ Top.stage < Respond /\ NextStage
  BY <1>4, NextStageFact
<1>5. CASE frames # <<>> /\ EndLoop
  BY <1>5, EndLoopFact
<1>6. CASE Descend
  BY <1>6, DescendFact
<1>7. CASE frames # <<>> /\ Top.stage \in Generators /\ ToAt("resumed")
  BY <1>7, ToAtFact DEF Ats
<1> QED BY <1>1, <1>2, <1>3, <1>4, <1>5, <1>6, <1>7 DEF Moves

\* The loop goes on with the next stage, or is over.
LEMMA LoopOnFact ==
    ASSUME FramesOK, frames # <<>>, LoopOn
    PROVE  (Top.stage < Respond /\ NextStage) \/ (Top.stage = Respond /\ EndLoop)
<1>1. Top.stage \in Stages
  BY TopFact DEF Frame
<1> QED BY <1>1 DEF LoopOn, Stages, Respond

\* Each step moves the stack in one of these ways.
LEMMA SchedulerMoves == ASSUME FramesOK, Scheduler PROVE Moves
<1>1. CASE Resume
  <2>1. frames # <<>> /\ Top.at = "returned" /\ ToAt("resumed")
    BY <1>1 DEF Resume
  <2>2. Top.stage \in Generators
    BY <2>1 DEF FramesOK, StackInv
  <2> QED BY <2>1, <2>2 DEF Moves
<1>2. CASE BreakOut
  BY <1>2, LoopOnFact DEF BreakOut, Moves
<1>3. CASE Finish
  BY <1>3, LoopOnFact DEF Finish, Moves
<1>4. CASE Descend
  BY <1>4 DEF Moves
<1> QED BY <1>1, <1>2, <1>3, <1>4 DEF Scheduler

LEMMA BeforeMoves == ASSUME BeforeProcess PROVE frames # <<>> /\ MovesAt
<1>1. ContentSafety \in Generators
  BY DEF Generators
<1>2. CASE BeginStage \/ Pass \/ GateStops
  BY <1>2 DEF BeginStage, Pass, GateStops, MovesAt, Ats, Halfway
<1>3. CASE ContentPasses \/ RejectedResumed
  BY <1>3 DEF ContentPasses, RejectedResumed, In, MovesAt, Ats, Halfway
<1>4. CASE ContentRejected
  BY <1>1, <1>4 DEF ContentRejected, In, MovesAt, Ats, Halfway
<1> QED BY <1>2, <1>3, <1>4 DEF BeforeProcess

LEMMA ProcessMoves ==
    ASSUME InProcess
    PROVE  /\ frames # <<>> /\ Top.stage = Process
           /\ MovesAt \/ (frames' = frames /\ Top.at = "working")
<1>1. Process \in Generators
  BY DEF Generators
<1>2. ASSUME NEW g, AgentOver(g), frames # <<>>, Top.stage = Process PROVE MovesAt
  <2>1. ToAt("finished") \/ ToAt("working") \/ ToAt("yielded")
    BY <1>2 DEF AgentOver
  <2> QED BY <1>1, <1>2, <2>1 DEF MovesAt, Ats, Halfway
<1>3. frames # <<>> /\ Top.stage = Process
  BY DEF InProcess, ProcessStart, StartHandler, SkipHandler, HandlersOver, HandlerYields,
     HandlerRequestsLLM, HandlerReturns, HandlerRaises, SendsDirectly, AgentRefuses, AgentStarts,
     AgentYields, AgentStreams, AgentEnds, AgentErrs, AgentFails, ProcessResumed, At, In
<1>4. CASE \E g : AgentOver(g)
  BY <1>2, <1>3, <1>4
<1>5. CASE ToAt("working") \/ ToAt("yielded") \/ ToAt("finished")
  BY <1>1, <1>3, <1>5 DEF MovesAt, Ats, Halfway
<1>6. \/ frames' = frames /\ Top.at = "working"
      \/ \E g : AgentOver(g)
      \/ ToAt("working") \/ ToAt("yielded") \/ ToAt("finished")
  BY DEF InProcess, ProcessStart, StartHandler, SkipHandler, HandlersOver, HandlerYields,
     HandlerRequestsLLM, HandlerReturns, HandlerRaises, SendsDirectly, AgentRefuses, AgentStarts,
     AgentYields, AgentStreams, AgentEnds, AgentErrs, AgentFails, ProcessResumed, At, In
<1> QED BY <1>3, <1>4, <1>5, <1>6

LEMMA AfterMoves == ASSUME AfterProcess PROVE frames # <<>> /\ MovesAt
<1>1. ResultDecorate \in Generators
  BY DEF Generators
<1>2. CASE DecorateStart \/ RejectionResumed \/ HookClears \/ DecorateEnd
  BY <1>2 DEF DecorateStart, RejectionResumed, HookClears, DecorateEnd, In, MovesAt, Ats, Halfway
<1>3. CASE ReplyRejected
  BY <1>1, <1>3 DEF ReplyRejected, In, MovesAt, Ats, Halfway
<1>4. CASE RespondStart \/ RespondSkips \/ RespondSends \/ RespondStreams \/ RespondBare
  BY <1>4 DEF RespondStart, RespondSkips, RespondSends, RespondStreams, RespondBare, In, MovesAt,
     Ats, Halfway
<1> QED BY <1>2, <1>3, <1>4 DEF AfterProcess

\* A stage works on the top of the stack only.
LEMMA StageFact ==
    ASSUME FramesOK, BeforeProcess \/ InProcess \/ AfterProcess
    PROVE  /\ frames # <<>> /\ frames' # <<>> /\ Under' = Under
           /\ Top'.stage = Top.stage /\ Top'.at \in {"working", "yielded", "finished"}
<1>1. CASE frames # <<>> /\ MovesAt
  BY <1>1, ToAtFact DEF MovesAt, Ats, Halfway
<1>2. CASE frames # <<>> /\ frames' = frames /\ Top.at = "working"
  BY <1>2 DEF Top, Under
<1> QED BY <1>1, <1>2, BeforeMoves, ProcessMoves, AfterMoves

LEMMA MovesStep == ASSUME FramesOK, [Next]_vars PROVE Moves
<1>1. CASE Stop \/ Raise \/ Over \/ UNCHANGED vars
  BY <1>1 DEF Stop, Raise, Over, vars, Moves
<1>2. CASE Scheduler
  BY <1>2, SchedulerMoves
<1>3. CASE BeforeProcess \/ InProcess \/ AfterProcess
  BY <1>3, BeforeMoves, ProcessMoves, AfterMoves DEF Moves
<1> QED BY <1>1, <1>2, <1>3 DEF Next

----------------------------------------------------------------------------
(* The invariant is inductive                                              *)

DataOK ==
    /\ result \in Results
    /\ forced \in BOOLEAN /\ wake \in BOOLEAN /\ sentOper \in BOOLEAN
    /\ streamed \in BOOLEAN /\ nested \in BOOLEAN /\ gave \in BOOLEAN
    /\ blocked \in BOOLEAN
    /\ yields \in 0..MaxYields /\ last \in 0..MaxYields
    /\ fate \in [1..MaxYields -> {"unsent", "skipped", "sent", "resent"}]

PlaceOK ==
    /\ place \in Places
    /\ hand \in 1..(Handlers + 1)
    /\ runs \in [1..Handlers -> Nat]
    /\ asked \in Nat

\* The type invariant and that of the stack by components.
LEMMA TypeParts == TypeOK /\ StackInv <=> FramesOK /\ DataOK /\ PlaceOK
  BY DEF TypeOK, FramesOK, DataOK, PlaceOK, Frame

LEMMA InitInv == Init => Inv
<1> SUFFICES ASSUME Init PROVE Inv
  OBVIOUS
<1> USE DEF Init
<1>1. frames # <<>> /\ Len(frames) = 1 /\ frames \in Seq(Frame)
  BY DEF Frame, Stages, Ats
<1>2. Top.stage = 1 /\ Top.at = "start" /\ Under = 0
  BY <1>1 DEF Top, Last, Under
<1>3. FramesOK
  BY <1>1, <1>2 DEF FramesOK, StackInv
<1>4. NoResult \in Results /\ yields \in 0..MaxYields /\ last \in 0..MaxYields
  BY DEF NoResult, Results, Kinds
<1>5. DataOK
  BY <1>4 DEF DataOK
<1>6. PlaceOK
  BY DEF PlaceOK, Places
<1>7. FirstInv
  BY <1>2 DEF FirstInv, NoneRun, PreProcess, ContentSafety, Process, In
<1>8. HandInv
  BY DEF HandInv
<1>9. ResultInv
  BY <1>4, <1>5 DEF ResultInv, NoResult, DataOK
<1>10. ReplyInv
  BY <1>2 DEF ReplyInv, In, ResultDecorate, Process
<1>11. SentInv
  BY DEF SentInv, NoResult
<1>12. ResumedInv
  BY <1>2 DEF ResumedInv
<1> QED BY <1>3, <1>5, <1>6, <1>7, <1>8, <1>9, <1>10, <1>11, <1>12, TypeParts DEF Inv

\* What a step does to the result, to the fates of replies, and to the rest
ResultMoves ==
    \/ UNCHANGED <<result, yields, forced>>
    \/ StopEvent /\ yields' = yields
    \/ \E kind \in {"chain", "llm", "stream", "finish"}, stop \in BOOLEAN :
            SetResult(kind, stop) /\ forced' = forced
    \/ result' = NoResult /\ UNCHANGED <<yields, forced>>
    \/ result' = Stopped(NoResult) /\ forced' = TRUE /\ yields' = yields
    \/ UNCHANGED <<result, forced>> /\ yields < MaxYields /\ yields' = yields + 1

FateMoves == fate' = fate \/ \E f \in {"skipped", "sent", "resent"} : result.id > 0 /\ Fate(f)

LastMoves == last' \in {last, 0, yields'}

FlagMoves ==
    /\ sentOper' \in {sentOper, TRUE} /\ wake' = wake /\ blocked' \in {blocked, TRUE}
    /\ streamed' = streamed \/ streamed' = (streamed \/ result.kind = "finish")
    /\ nested' = nested \/ nested' = TRUE \/ nested' = FALSE
    /\ gave' = gave \/ gave' = TRUE \/ gave' = FALSE

\* What may happen to the result, to the fate of replies and to the flags.
LEMMA QuietMoves ==
    ASSUME Unchanged
    PROVE  ResultMoves /\ FateMoves /\ LastMoves /\ FlagMoves
BY DEF Unchanged, plugin, flags, ResultMoves, FateMoves, LastMoves, FlagMoves

LEMMA InProcessMoves ==
    ASSUME InProcess
    PROVE  ResultMoves /\ FateMoves /\ LastMoves /\ FlagMoves
<1> USE DEF ResultMoves, FateMoves, LastMoves, FlagMoves, flags
<1>1. CASE ProcessStart \/ StartHandler \/ SkipHandler \/ HandlersOver \/ HandlerRequestsLLM
  BY <1>1 DEF ProcessStart, StartHandler, SkipHandler, HandlersOver, HandlerRequestsLLM
<1>2. CASE HandlerYields
  BY <1>2 DEF HandlerYields, SetResult
<1>3. CASE HandlerReturns
  BY <1>3 DEF HandlerReturns
<1>4. CASE HandlerRaises
  BY <1>4 DEF HandlerRaises, SetResult, StopEvent
<1>5. CASE SendsDirectly
  BY <1>5 DEF SendsDirectly, plugin
<1>6. ASSUME NEW g, AgentOver(g) PROVE last' \in {last, 0}
  BY <1>6 DEF AgentOver
<1>7. CASE AgentRefuses \/ AgentEnds \/ AgentFails
  BY <1>6, <1>7 DEF AgentRefuses, AgentEnds, AgentFails
<1>8. CASE AgentStarts \/ AgentYields \/ AgentStreams
  BY <1>8 DEF AgentStarts, AgentYields, AgentStreams, SetResult
<1>9. CASE AgentErrs
  BY <1>6, <1>9 DEF AgentErrs
<1>10. CASE ProcessResumed
  BY <1>6, <1>10 DEF ProcessResumed
<1> QED
  BY <1>1, <1>2, <1>3, <1>4, <1>5, <1>7, <1>8, <1>9, <1>10 DEF InProcess

LEMMA DataMoves ==
    ASSUME ResultInv, [Next]_vars
    PROVE  ResultMoves /\ FateMoves /\ LastMoves /\ FlagMoves
<1>a. HasChain => result.id > 0
  BY DEF ResultInv, HasChain
<1> USE DEF ResultMoves, FateMoves, LastMoves, FlagMoves, plugin, flags
<1>1. CASE Scheduler \/ Raise \/ Over \/ UNCHANGED vars
  BY <1>1, QuietMoves DEF Scheduler, Descend, BreakOut, Resume, Finish, Raise, Over, vars, Unchanged
<1>2. CASE Stop
  BY <1>2 DEF Stop
<1>3. CASE BeforeProcess
  <2>1. CASE BeginStage \/ Pass \/ ContentPasses
    BY <2>1, QuietMoves DEF BeginStage, Pass, ContentPasses
  <2>2. CASE GateStops \/ RejectedResumed
    BY <2>2 DEF GateStops, RejectedResumed
  <2>3. CASE ContentRejected
    BY <2>3 DEF ContentRejected, StopEvent
  <2> QED BY <1>3, <2>1, <2>2, <2>3 DEF BeforeProcess
<1>4. CASE InProcess
  BY <1>4, InProcessMoves
<1>5. CASE AfterProcess
  <2>1. CASE DecorateStart \/ DecorateEnd \/ RespondStart \/ RespondBare
    BY <2>1, QuietMoves DEF DecorateStart, DecorateEnd, RespondStart, RespondBare
  <2>2. CASE ReplyRejected
    BY <2>2 DEF ReplyRejected, StopEvent
  <2>3. CASE RejectionResumed
    BY <2>3 DEF RejectionResumed
  <2>4. CASE HookClears
    BY <1>a, <2>4 DEF HookClears
  <2>5. CASE RespondSkips
    BY <1>a, <2>5 DEF RespondSkips
  <2>6. CASE RespondSends
    <3>1. result.id > 0
      BY <1>a, <2>6 DEF RespondSends, HasChain
    <3> QED BY <2>6, <3>1 DEF RespondSends
  <2>7. CASE RespondStreams
    BY <2>7 DEF RespondStreams
  <2> QED BY <1>5, <2>1, <2>2, <2>3, <2>4, <2>5, <2>6, <2>7 DEF AfterProcess
<1> QED BY <1>1, <1>2, <1>3, <1>4, <1>5 DEF Next

\* stop_event() makes a result if there is none.
LEMMA StoppedFact ==
    ASSUME NEW r \in Results
    PROVE  /\ Stopped(r) \in Results /\ Stopped(r).id = r.id /\ Stopped(r).stop
           /\ Stopped(r).kind = IF r.kind = "none" THEN "bare" ELSE r.kind
BY DEF Stopped, Results, Kinds

LEMMA NoResultFact ==
    /\ NoResult \in Results /\ NoResult.id = 0 /\ NoResult.kind = "none" /\ ~NoResult.stop
  BY DEF NoResult, Results, Kinds

\* A reply made for the message
LEMMA SetResultFact ==
    ASSUME DataOK, NEW kind \in Kinds, NEW stop \in BOOLEAN, SetResult(kind, stop)
    PROVE  /\ yields' = yields + 1 /\ yields' \in 0..MaxYields
           /\ result' \in Results /\ result'.id = yields + 1
           /\ result'.kind = kind /\ result'.stop = stop
<1>1. yields + 1 \in 0..MaxYields
  BY DEF DataOK, SetResult
<1> QED BY <1>1 DEF SetResult, Results

\* Every step keeps the types, and what is said of the result.
LEMMA DataStep == Inv /\ [Next]_vars => DataOK' /\ ResultInv'
<1> SUFFICES ASSUME Inv, [Next]_vars PROVE DataOK' /\ ResultInv'
  OBVIOUS
<1>a. DataOK /\ ResultInv
  BY TypeParts DEF Inv
<1>b. ResultMoves /\ FateMoves /\ LastMoves /\ FlagMoves
  BY <1>a, DataMoves
<1>c. result \in Results /\ result.id \in 0..MaxYields /\ result.kind \in Kinds
  BY <1>a DEF DataOK, Results
<1>1. result' \in Results /\ yields' \in 0..MaxYields /\ forced' \in BOOLEAN /\ yields <= yields'
      /\ result'.id <= yields' /\ (result'.kind \notin {"none", "bare"} => result'.id > 0)
      /\ (result'.kind = "bare" => forced')
  <2>a. /\ yields \in 0..MaxYields /\ forced \in BOOLEAN /\ result.id <= yields
        /\ result.kind \notin {"none", "bare"} => result.id > 0
        /\ result.kind = "bare" => forced
    BY <1>a DEF DataOK, ResultInv
  <2>1. CASE UNCHANGED <<result, yields, forced>>
    BY <1>c, <2>a, <2>1
  <2>2. CASE StopEvent /\ yields' = yields
    BY <1>c, <2>a, <2>2, StoppedFact DEF StopEvent
  <2>3. ASSUME NEW kind \in {"chain", "llm", "stream", "finish"}, NEW stop \in BOOLEAN,
               SetResult(kind, stop), forced' = forced
        PROVE  /\ result' \in Results /\ yields' \in 0..MaxYields /\ forced' \in BOOLEAN
               /\ yields <= yields' /\ result'.id <= yields'
               /\ result'.kind \notin {"none", "bare"} => result'.id > 0
               /\ result'.kind = "bare" => forced'
    <3>1. kind \in Kinds
      BY DEF Kinds
    <3> QED BY <1>a, <2>a, <2>3, <3>1, SetResultFact
  <2>4. CASE result' = NoResult /\ UNCHANGED <<yields, forced>>
    BY <2>a, <2>4, NoResultFact
  <2>5. CASE result' = Stopped(NoResult) /\ forced' = TRUE /\ yields' = yields
    BY <2>a, <2>5, NoResultFact, StoppedFact
  <2>6. CASE UNCHANGED <<result, forced>> /\ yields < MaxYields /\ yields' = yields + 1
    BY <1>c, <2>a, <2>6
  <2> QED BY <1>b, <2>1, <2>2, <2>3, <2>4, <2>5, <2>6 DEF ResultMoves
<1>2. /\ fate' \in [1..MaxYields -> {"unsent", "skipped", "sent", "resent"}]
      /\ \A r \in 1..MaxYields : r > yields => fate'[r] = "unsent"
  BY <1>a, <1>b, <1>c DEF DataOK, ResultInv, FateMoves, Fate
<1>3. last' \in 0..MaxYields /\ last' <= yields'
  BY <1>a, <1>b, <1>1 DEF DataOK, ResultInv, LastMoves
<1>4. /\ wake' \in BOOLEAN /\ sentOper' \in BOOLEAN /\ streamed' \in BOOLEAN
      /\ nested' \in BOOLEAN /\ gave' \in BOOLEAN /\ blocked' \in BOOLEAN
  BY <1>a, <1>b DEF DataOK, FlagMoves
<1>5. \A r \in 1..MaxYields : r > yields' => fate'[r] = "unsent"
  BY <1>a, <1>1, <1>2 DEF DataOK
<1> QED BY <1>1, <1>2, <1>3, <1>4, <1>5 DEF DataOK, ResultInv

\* No other code runs between two handlers.
LEMMA BetweenFact ==
    ASSUME HandInv, [Next]_vars, ~InProcess
    PROVE  UNCHANGED plugin /\ (place = "between" => UNCHANGED <<frames, result, forced>>)
<1>a. place = "between" => frames # <<>> /\ Top.stage = Process /\ Top.at = "working"
  BY DEF HandInv, In
<1> USE DEF Process
<1>1. CASE Scheduler
  BY <1>1, <1>a DEF Scheduler, Descend, BreakOut, Resume, Finish, Unchanged
<1>2. CASE Stop \/ Raise
  BY <1>2, <1>a DEF Stop, Raise, Awaiting, Unchanged, Gates, PreProcess, ResultDecorate, Respond
<1>3. CASE BeforeProcess
  <2>0. frames # <<>> /\ (Top.stage \in Gates \cup {PreProcess} \/ Top.stage = ContentSafety)
    BY <1>3 DEF BeforeProcess, BeginStage, Pass, GateStops, ContentPasses, ContentRejected,
       RejectedResumed, In
  <2>1. frames # <<>> /\ Top.stage \in 1..6
    BY <2>0 DEF Gates, PreProcess, ContentSafety
  <2>2. UNCHANGED plugin
    BY <1>3 DEF BeforeProcess, BeginStage, Pass, GateStops, ContentPasses, ContentRejected,
       RejectedResumed, Unchanged
  <2> QED BY <1>a, <2>1, <2>2
<1>4. CASE AfterProcess
  <2>0. frames # <<>> /\ Top.stage \in {ResultDecorate, Respond}
    BY <1>4 DEF AfterProcess, DecorateStart, ReplyRejected, RejectionResumed, HookClears,
       DecorateEnd, RespondStart, RespondSkips, RespondSends, RespondStreams, RespondBare, In
  <2>1. frames # <<>> /\ Top.stage \in 8..9
    BY <2>0 DEF ResultDecorate, Respond
  <2>2. UNCHANGED plugin
    BY <1>4 DEF AfterProcess, DecorateStart, ReplyRejected, RejectionResumed, HookClears,
       DecorateEnd, RespondStart, RespondSkips, RespondSends, RespondStreams, RespondBare, Unchanged
  <2> QED BY <1>a, <2>1, <2>2
<1>5. CASE Over \/ UNCHANGED vars
  BY <1>5 DEF Over, vars
<1> QED BY <1>1, <1>2, <1>3, <1>4, <1>5 DEF Next

\* The handlers that are still to come do not run out of turn.
LEMMA HandStep == Inv /\ [Next]_vars => PlaceOK' /\ HandInv'
<1> SUFFICES ASSUME Inv, [Next]_vars PROVE PlaceOK' /\ HandInv'
  OBVIOUS
<1>a. FramesOK /\ PlaceOK /\ HandInv /\ FirstInv
  BY TypeParts DEF Inv
<1>b. ASSUME frames # <<>>, Top.stage = Process, ToAt("working")
      PROVE  In(Process, "working")'
  <2>1. frames' # <<>> /\ Top'.stage = Top.stage /\ Top'.at = "working"
    BY <1>a, <1>b, ToAtFact DEF Ats, Halfway
  <2> QED BY <1>b, <2>1 DEF In
<1>c. frames' = frames => (In(Process, "working") => In(Process, "working")')
  BY DEF In, Top
<1>1. CASE ~InProcess
  <2>1. UNCHANGED plugin /\ (place = "between" => UNCHANGED <<frames, result, forced>>)
    BY <1>1, <1>a, BetweenFact
  <2> QED BY <2>1, <1>a, <1>c DEF plugin, PlaceOK, HandInv, NoneAfter, IsStopped
<1>2. CASE ProcessStart
  <2>1. /\ In(Process, "start") /\ ToAt("working") /\ place' = "between" /\ hand' = 1
        /\ runs' = runs /\ asked' = asked
    BY <1>2 DEF ProcessStart, Goes
  <2>2. NoneRun
    BY <1>a, <2>1 DEF FirstInv, In
  <2>3. In(Process, "working")'
    BY <1>b, <2>1 DEF In
  <2>4. PlaceOK'
    BY <1>a, <2>1 DEF PlaceOK, Places
  <2> QED BY <1>a, <2>1, <2>2, <2>3, <2>4 DEF HandInv, NoneRun, NoneAfter
<1>3. CASE StartHandler
  <2>1. /\ hand \in 1..Handlers /\ NoneAfter(hand - 1) /\ place' = "handler" /\ hand' = hand
        /\ runs' = [runs EXCEPT ![hand] = runs[hand] + 1] /\ asked' = asked
    BY <1>3, <1>a DEF StartHandler, At, Goes, HandInv, PlaceOK
  <2>2. runs[hand] = 0 /\ \A g \in 1..Handlers : g > hand => runs[g] = 0
    BY <2>1, <1>a DEF NoneAfter, PlaceOK
  <2>3. PlaceOK'
    BY <2>1, <1>a DEF PlaceOK, Places
  <2>4. \A h \in 1..Handlers : runs'[h] = IF h = hand THEN 1 ELSE runs[h]
    BY <2>1, <2>2, <1>a DEF PlaceOK
  <2> QED BY <2>1, <2>2, <2>3, <2>4, <1>a DEF HandInv, NoneAfter
<1>4. CASE SkipHandler
  <2>1. /\ In(Process, "working") /\ hand \in 1..Handlers /\ NoneAfter(hand - 1)
        /\ place = "between"
        /\ hand' = hand + 1 /\ UNCHANGED <<frames, result, forced, place, nested, runs, asked>>
    BY <1>4, <1>a DEF SkipHandler, At, HandInv, PlaceOK
  <2>2. PlaceOK'
    BY <2>1, <1>a DEF PlaceOK
  <2>3. \A g \in 1..Handlers : g > hand' - 1 => runs'[g] = 0
    BY <2>1 DEF NoneAfter
  <2> QED BY <1>a, <1>c, <2>1, <2>2, <2>3 DEF HandInv, NoneAfter
<1>5. ASSUME place \in {"handler", "error"} \/ (place \in {"asked", "agent", "stream"} /\ nested),
             place' \in Places \ {"between"}, UNCHANGED <<hand, runs>>, asked' \in Nat
      PROVE  PlaceOK' /\ HandInv'
  BY <1>5, <1>a DEF PlaceOK, HandInv, NoneAfter
<1>6. CASE HandlerYields \/ HandlerRequestsLLM
  BY <1>5, <1>6, <1>a DEF HandlerYields, HandlerRequestsLLM, At, Goes, PlaceOK, Places
<1>7. CASE SendsDirectly
  <2>1. place \in {"handler", "agent"} /\ UNCHANGED <<place, hand, nested, runs, asked>>
    BY <1>7 DEF SendsDirectly, At, plugin
  <2> QED BY <2>1, <1>a DEF PlaceOK, HandInv, NoneAfter
<1>8. CASE HandlerReturns
  <2>1. /\ In(Process, "working") /\ place = "handler" /\ place' = "between" /\ frames' = frames
        /\ UNCHANGED <<runs, asked, forced>>
        /\ (IsStopped /\ UNCHANGED <<result, hand>>) \/ hand' = hand + 1
    BY <1>8 DEF HandlerReturns, At, Goes
  <2>2. hand \in 1..Handlers /\ NoneAfter(hand)
    BY <2>1, <1>a DEF HandInv, PlaceOK
  <2>3. PlaceOK'
    BY <2>1, <2>2, <1>a DEF PlaceOK, Places
  <2>4. IsStopped' \/ \A g \in 1..Handlers : g > hand' - 1 => runs'[g] = 0
    <3>1. CASE hand' = hand + 1
      BY <2>1, <2>2, <3>1 DEF NoneAfter
    <3>2. CASE IsStopped /\ UNCHANGED <<result, hand>>
      BY <2>1, <3>2 DEF IsStopped
    <3> QED BY <2>1, <3>1, <3>2
  <2> QED BY <1>a, <1>c, <2>1, <2>3, <2>4 DEF HandInv, NoneAfter
<1>9. CASE HandlerRaises
  <2>1. /\ In(Process, "working") /\ place = "handler" /\ UNCHANGED <<hand, runs, asked>>
        /\ \/ place' = "error"
           \/ place' = "between" /\ frames' = frames /\ forced'
    BY <1>9 DEF HandlerRaises, At, Goes, StopEvent
  <2>2. IsStopped' \/ place' = "error"
    BY <2>1 DEF IsStopped
  <2> QED BY <1>a, <1>c, <2>1, <2>2 DEF PlaceOK, Places, HandInv, NoneAfter
<1>10. CASE HandlersOver
  <2>1. /\ \/ place' = "outside" /\ nested' = nested
           \/ place' = "asked" /\ ~nested'
        /\ UNCHANGED <<hand, runs, asked>>
    BY <1>10 DEF HandlersOver, Goes
  <2> QED BY <1>a, <2>1 DEF PlaceOK, Places, HandInv
<1>11. ASSUME NEW g, AgentOver(g), place \in {"asked", "agent", "stream"},
              UNCHANGED <<hand, nested, runs, asked>>
       PROVE  PlaceOK' /\ HandInv'
  <2>1. place' = "outside" \/ (nested /\ place' = "handler")
    BY <1>11 DEF AgentOver, Goes
  <2> QED BY <1>11, <2>1, <1>a DEF PlaceOK, Places, HandInv, NoneAfter
<1>12. CASE AgentRefuses \/ AgentEnds \/ AgentErrs \/ AgentFails
  BY <1>11, <1>12 DEF AgentRefuses, AgentEnds, AgentErrs, AgentFails, At
<1>13. CASE AgentStarts \/ AgentYields \/ AgentStreams
  <2>0. /\ place \in {"asked", "agent"} /\ place' \in {place, "agent", "stream"}
        /\ place' # "between" /\ UNCHANGED <<hand, nested, runs>> /\ asked' \in {asked, asked + 1}
    BY <1>13 DEF AgentStarts, AgentYields, AgentStreams, At, Goes
  <2>1. place' \in {"asked", "agent", "stream"} /\ asked' \in Nat
    BY <2>0, <1>a DEF PlaceOK
  <2> QED BY <2>0, <2>1, <1>a DEF PlaceOK, Places, HandInv, NoneAfter
<1>14. CASE ProcessResumed
  <2>1. frames # <<>> /\ Top.stage = Process /\ UNCHANGED <<nested, runs, asked>>
    BY <1>14 DEF ProcessResumed, In
  <2>2. CASE place \in {"handler", "agent"} /\ place' = place /\ hand' = hand
    BY <2>1, <2>2, <1>a DEF PlaceOK, HandInv, NoneAfter
  <2>3. CASE place = "error" /\ ToAt("working") /\ forced' /\ place' = "between" /\ hand' = hand + 1
    <3>1. hand \in 1..Handlers
      BY <2>3, <1>a DEF HandInv, PlaceOK
    <3>2. In(Process, "working")' /\ IsStopped'
      BY <1>b, <2>1, <2>3 DEF IsStopped
    <3> QED BY <2>1, <2>3, <3>1, <3>2, <1>a DEF PlaceOK, Places, HandInv
  <2>4. CASE place = "stream" /\ AgentOver(TRUE) /\ hand' = hand
    BY <1>11, <2>1, <2>4
  <2> QED BY <1>14, <2>2, <2>3, <2>4 DEF ProcessResumed, Goes
<1> QED
  BY <1>1, <1>2, <1>3, <1>4, <1>6, <1>7, <1>8, <1>9, <1>10, <1>12, <1>13, <1>14 DEF InProcess

\* Only stages that come back stopped were there after ProcessStage.
LEMMA FirstStep == Inv /\ [Next]_vars => FirstInv'
<1> SUFFICES ASSUME Inv, [Next]_vars PROVE FirstInv'
  OBVIOUS
<1>a. FramesOK /\ FirstInv /\ ResultInv
  BY TypeParts DEF Inv
<1>b. frames # <<>> => Top.stage \in Stages /\ Top.at \in Ats
  BY <1>a, TopFact DEF Frame
<1> USE DEF ContentSafety, PreProcess, Process, In
<1>1. ASSUME frames # <<>>, frames' # <<>>, Top.stage \in Stages, Top'.stage = Top.stage,
             Top.stage \in 1..6, NoneRun => NoneRun',
             \/ Top.stage < 5 \/ (Top.stage = 5 /\ Top.at = "start")
             \/ (Top.stage = 5 /\ Top'.at = "finished" /\ IsStopped')
             \/ (Top.stage = 6 /\ (IsStopped => IsStopped'))
             \/ (Top.stage = 5 /\ Top'.at = "resumed")
      PROVE  FirstInv'
  BY <1>1, <1>a DEF FirstInv
<1>2. ASSUME frames' # <<>> => Top'.stage \in 7..9 /\ (Top'.stage = 7 => Top'.at # "start")
      PROVE  FirstInv'
  BY <1>2 DEF FirstInv
<1>3. CASE Scheduler
  <2>a. frames # <<>> /\ Unchanged /\ (NoneRun => NoneRun') /\ (IsStopped <=> IsStopped')
    BY <1>3 DEF Scheduler, Descend, BreakOut, Resume, Finish, Unchanged, plugin, NoneRun, IsStopped
  <2>1. CASE Descend
    <3>1. Top'.stage = Top.stage + 1 /\ Top'.at = "start" /\ Top.stage \in {5, 7, 8}
          /\ Top.at = "yielded"
      BY <1>a, <2>1, DescendFact DEF Generators, ResultDecorate, Descend
    <3>2. CASE Top.stage = 5
      BY <1>a, <2>a, <3>1, <3>2 DEF FirstInv
    <3> QED BY <1>2, <3>1, <3>2
  <2>2. CASE Resume
    <3>1. frames' # <<>> /\ Top'.stage = Top.stage /\ Top'.at = "resumed"
          /\ Top.stage \in {5, 7, 8}
      BY <1>a, <2>2, ToAtFact DEF Resume, FramesOK, StackInv, Generators, ResultDecorate, Ats
    <3> QED BY <1>1, <1>2, <1>b, <2>a, <3>1
  <2>3. CASE frames # <<>> /\ EndLoop
    <3>1. frames' # <<>> => Top'.stage \in {5, 7, 8} /\ Top'.at = "returned"
      BY <1>a, <2>3, EndLoopFact, TopFact DEF Generators, ResultDecorate
    <3> QED BY <3>1 DEF FirstInv
  <2>4. CASE BreakOut /\ ~EndLoop
    <3>1. Top.stage < Respond /\ NextStage /\ IsStopped /\ Top.stage \in {5, 7, 8}
      BY <1>a, <2>4, LoopOnFact DEF BreakOut, FramesOK, StackInv, Generators, ResultDecorate
    <3>2. frames' # <<>> /\ Top'.stage = Top.stage + 1 /\ Top'.at = "start"
      BY <1>a, <2>a, <3>1, NextStageFact
    <3>3. CASE Top.stage = 5
      BY <2>a, <3>1, <3>2, <3>3 DEF FirstInv
    <3> QED BY <1>2, <3>1, <3>2, <3>3
  <2>5. CASE Finish /\ ~EndLoop
    <3>1. /\ Top.stage < Respond /\ NextStage /\ Top.at = "finished"
          /\ Top.stage \in {5, 7, 8} \/ ~IsStopped
      BY <1>a, <2>5, LoopOnFact DEF Finish, Generators, ResultDecorate
    <3>2. frames' # <<>> /\ Top'.stage = Top.stage + 1 /\ Top'.at = "start"
      BY <1>a, <2>a, <3>1, NextStageFact
    <3>3. Top.stage \in 1..8
      BY <1>b, <2>a, <3>1 DEF Stages, Respond
    <3>4. CASE Top.stage \in 1..4
      <4>1. NoneRun
        BY <1>a, <2>a, <3>4 DEF FirstInv
      <4> QED BY <2>a, <3>2, <3>4, <4>1 DEF FirstInv
    <3>5. CASE Top.stage = 5
      BY <1>a, <2>a, <3>1, <3>2, <3>5 DEF FirstInv
    <3>6. CASE Top.stage = 6
      BY <1>a, <2>a, <3>1, <3>2, <3>6 DEF FirstInv
    <3>7. CASE Top.stage \in {7, 8}
      BY <1>2, <3>2, <3>7
    <3> QED BY <3>3, <3>4, <3>5, <3>6, <3>7
  <2> QED BY <1>3, <2>1, <2>2, <2>3, <2>4, <2>5, <2>a DEF Scheduler
<1>4. CASE Stop
  <2>1. /\ frames' = frames /\ Top' = Top /\ IsStopped' /\ (NoneRun => NoneRun')
        /\ Top.at = "working"
    BY <1>4 DEF Stop, StopEvent, IsStopped, plugin, NoneRun, Top, Awaiting
  <2> QED BY <1>a, <2>1 DEF FirstInv
<1>5. CASE Raise \/ Over
  BY <1>5 DEF Raise, Over, vars, FirstInv
<1>6. CASE BeforeProcess
  <2>1. /\ UNCHANGED plugin /\ frames # <<>>
        /\ Top.stage \in Gates \cup {PreProcess} \/ Top.stage = ContentSafety
    BY <1>6 DEF BeforeProcess, BeginStage, Pass, GateStops, ContentPasses, ContentRejected,
       RejectedResumed, Unchanged
  <2>2. NoneRun => NoneRun'
    BY <2>1 DEF plugin, NoneRun
  <2>3. frames' # <<>> /\ Top'.stage = Top.stage
    BY <1>6, <1>a, BeforeMoves, ToAtFact DEF MovesAt, Ats, Halfway
  <2>4. Top.stage \in 1..6
    BY <2>1 DEF Gates
  <2>5. CASE RejectedResumed
    <3>1. Top'.at = "finished" /\ IsStopped' /\ Top.stage = 5
      BY <1>a, <2>5, ToAtFact DEF RejectedResumed, StopEvent, IsStopped, Ats, Halfway
    <3> QED BY <1>1, <1>b, <2>1, <2>2, <2>3, <3>1
  <2>6. CASE Top.stage = 6
    <3>1. IsStopped => IsStopped'
      BY <1>6, <2>6 DEF BeforeProcess, BeginStage, Pass, GateStops, ContentPasses,
         ContentRejected, RejectedResumed, Unchanged, IsStopped, Gates
    <3> QED BY <1>1, <1>b, <2>1, <2>2, <2>3, <2>6, <3>1
  <2>7. CASE ContentPasses \/ ContentRejected
    BY <1>1, <1>b, <2>1, <2>2, <2>3, <2>4, <2>7 DEF ContentPasses, ContentRejected
  <2>8. CASE Top.stage < 5
    BY <1>1, <1>b, <2>1, <2>2, <2>3, <2>4, <2>8
  <2>9. CASE BeginStage \/ Pass \/ GateStops
    <3>1. Top.stage < 5 \/ Top.stage = 6
      BY <2>9 DEF BeginStage, Pass, GateStops, Gates
    <3> QED BY <2>6, <2>8, <3>1
  <2> QED BY <1>6, <2>5, <2>7, <2>9 DEF BeforeProcess
<1>7. CASE InProcess
  <2>1. /\ frames # <<>> /\ Top.stage = 7
        /\ MovesAt \/ (frames' = frames /\ Top.at = "working")
    BY <1>7, ProcessMoves
  <2>2. CASE frames' = frames /\ Top.at = "working"
    BY <1>2, <2>1, <2>2 DEF Top
  <2>3. CASE MovesAt
    <3>1. frames' # <<>> /\ Top'.stage = 7 /\ Top'.at # "start"
      BY <1>a, <2>1, <2>3, ToAtFact DEF MovesAt, Ats, Halfway
    <3> QED BY <1>2, <3>1
  <2> QED BY <2>1, <2>2, <2>3
<1>8. CASE AfterProcess
  <2>1. frames' # <<>> /\ Top'.stage = Top.stage
    BY <1>8, <1>a, AfterMoves, ToAtFact DEF MovesAt, Ats, Halfway
  <2>2. Top.stage \in {ResultDecorate, Respond}
    BY <1>8 DEF AfterProcess, DecorateStart, ReplyRejected, RejectionResumed, HookClears,
       DecorateEnd, RespondStart, RespondSkips, RespondSends, RespondStreams, RespondBare
  <2> QED BY <1>2, <2>1, <2>2 DEF ResultDecorate, Respond
<1>9. CASE UNCHANGED vars
  BY <1>9, <1>a DEF vars, plugin, FirstInv, NoneRun, IsStopped, Top
<1> QED BY <1>3, <1>4, <1>5, <1>6, <1>7, <1>8, <1>9 DEF Next

\* A generator is resumed only while its message is not stopped.
LEMMA ResumedStep == Inv /\ [Next]_vars => ResumedInv'
<1> SUFFICES ASSUME Inv, [Next]_vars PROVE ResumedInv'
  OBVIOUS
<1>a. FramesOK /\ ResumedInv
  BY TypeParts DEF Inv
<1>1. CASE Scheduler
  <2>1. UNCHANGED <<result, forced>>
    BY <1>1 DEF Scheduler, Descend, BreakOut, Resume, Finish, Unchanged
  <2>2. CASE Resume
    BY <2>1, <2>2 DEF Resume, ResumedInv, IsStopped
  <2>3. CASE Descend
    BY <1>a, <2>3, DescendFact DEF ResumedInv
  <2>4. CASE BreakOut \/ Finish
    <3>1. frames # <<>>
      BY <2>4 DEF BreakOut, Finish
    <3>2. LoopOn \/ EndLoop
      BY <2>4 DEF BreakOut, Finish
    <3> QED BY <1>a, <3>1, <3>2, LoopOnFact, NextStageFact, EndLoopFact DEF ResumedInv
  <2> QED BY <1>1, <2>2, <2>3, <2>4 DEF Scheduler
<1>2. CASE Stop
  BY <1>2 DEF Stop, Awaiting, ResumedInv, Top
<1>3. CASE Raise \/ Over
  BY <1>3 DEF Raise, Over, vars, ResumedInv
<1>4. CASE BeforeProcess \/ InProcess \/ AfterProcess
  BY <1>a, <1>4, StageFact DEF ResumedInv
<1>5. CASE UNCHANGED vars
  BY <1>5, <1>a DEF vars, ResumedInv, IsStopped, Top
<1> QED BY <1>1, <1>2, <1>3, <1>4, <1>5 DEF Next

\* What ProcessStage yields is its result, unless it yields for no reply.
LEMMA YieldFact ==
    ASSUME FramesOK, DataOK, InProcess, Top'.at = "yielded", last' # 0
    PROVE  Carried'
<1>a. frames # <<>> /\ frames' # frames
  <2>1. Top.at \in {"start", "working", "resumed"}
    BY DEF InProcess, ProcessStart, StartHandler, SkipHandler, HandlersOver, HandlerYields,
       HandlerRequestsLLM, HandlerReturns, HandlerRaises, SendsDirectly, AgentRefuses, AgentStarts,
       AgentYields, AgentStreams, AgentEnds, AgentErrs, AgentFails, ProcessResumed, At, In
  <2> QED BY <2>1, ProcessMoves DEF Top
<1>b. ~ToAt("working") /\ ~ToAt("finished")
  BY <1>a, ToAtFact DEF Ats, Halfway
<1>c. ASSUME NEW g, AgentOver(g) PROVE FALSE
  BY <1>b, <1>c DEF AgentOver
<1>1. frames' # frames
  BY <1>a
<1>2. CASE HandlerYields
  <2>1. PICK stop \in BOOLEAN : SetResult("chain", stop) /\ last' = yields + 1
    BY <1>2 DEF HandlerYields
  <2> QED BY <2>1, SetResultFact DEF Carried, Kinds
<1>3. CASE HandlerRaises
  <2>1. SetResult("chain", FALSE) /\ last' = yields + 1
    BY <1>1, <1>3 DEF HandlerRaises
  <2> QED BY <2>1, SetResultFact DEF Carried, Kinds
<1>4. CASE AgentYields
  <2>1. PICK kind \in {"chain", "llm"} : SetResult(kind, FALSE)
    BY <1>4 DEF AgentYields
  <2>2. last' = yields + 1
    BY <1>4 DEF AgentYields
  <2> QED BY <2>1, <2>2, SetResultFact DEF Carried, Kinds
<1>5. CASE AgentStreams
  BY <1>5 DEF AgentStreams
<1>6. CASE AgentRefuses \/ AgentEnds \/ AgentErrs \/ AgentFails
  BY <1>c, <1>6 DEF AgentRefuses, AgentEnds, AgentErrs, AgentFails
<1>7. CASE ProcessResumed
  BY <1>b, <1>c, <1>7 DEF ProcessResumed
<1>8. CASE ProcessStart \/ HandlersOver
  BY <1>1, <1>b, <1>8 DEF ProcessStart, HandlersOver
<1>9. CASE StartHandler \/ SkipHandler \/ HandlerRequestsLLM \/ HandlerReturns \/ SendsDirectly
           \/ AgentStarts
  BY <1>1, <1>9 DEF StartHandler, SkipHandler, HandlerRequestsLLM, HandlerReturns, SendsDirectly,
     AgentStarts
<1> QED BY <1>2, <1>3, <1>4, <1>5, <1>6, <1>7, <1>8, <1>9 DEF InProcess

\* What the stages after ProcessStage do to the result of a message nobody stops.
LEMMA AfterFact ==
    ASSUME DataOK, AfterProcess, ~forced'
    PROVE  /\ Top.stage \in {8, 9} /\ Top.at \in {"start", "working"} /\ ~forced /\ last' = last
           /\ result'.stop => result.stop
           /\ result' = result \/ result' = NoResult \/ (result'.id = yields + 1 /\ fate' = fate)
<1>1. (Top.stage \in {8, 9} /\ Top.at \in {"start", "working"}) \/ RejectionResumed
  BY DEF AfterProcess, DecorateStart, ReplyRejected, HookClears, DecorateEnd, RespondStart,
     RespondSkips, RespondSends, RespondStreams, RespondBare, In, ResultDecorate, Respond
<1>2. ~RejectionResumed
  BY DEF RejectionResumed, StopEvent
<1>3. last' = last
  BY DEF AfterProcess, DecorateStart, ReplyRejected, RejectionResumed, HookClears, DecorateEnd,
     RespondStart, RespondSkips, RespondSends, RespondStreams, RespondBare, Unchanged, plugin
<1>4. CASE DecorateStart \/ DecorateEnd \/ RespondStart \/ RespondBare \/ RespondStreams
           \/ RespondSkips
  <2>1. UNCHANGED <<result, forced>>
    BY <1>4 DEF DecorateStart, DecorateEnd, RespondStart, RespondBare, RespondStreams, RespondSkips,
       Unchanged
  <2> QED BY <1>1, <1>2, <1>3, <2>1
<1>5. CASE HookClears \/ RespondSends
  <2>1. result' \in {result, NoResult} /\ forced' = forced
    BY <1>5 DEF HookClears, RespondSends
  <2> QED BY <1>1, <1>2, <1>3, <2>1, NoResultFact
<1>6. CASE ReplyRejected
  <2>1. SetResult("chain", FALSE) /\ forced' = forced /\ fate' = fate
    BY <1>6 DEF ReplyRejected, StopEvent
  <2>2. result'.id = yields + 1 /\ ~result'.stop
    BY <2>1, SetResultFact DEF Kinds
  <2> QED BY <1>1, <1>2, <1>3, <2>1, <2>2
<1> QED BY <1>2, <1>4, <1>5, <1>6 DEF AfterProcess

\* The reply on its way is found where ReplyInv says.
LEMMA ReplyStep == Inv /\ [Next]_vars => ReplyInv'
<1> SUFFICES ASSUME Inv, [Next]_vars, ~forced', frames' # <<>> PROVE ReplyInv'
  BY DEF ReplyInv
<1>a. FramesOK /\ DataOK /\ ResultInv /\ ReplyInv
  BY TypeParts DEF Inv
<1>b. ~forced
  BY <1>a, DataMoves DEF ResultMoves, StopEvent
<1>c. frames # <<>> => Top.stage \in 1..9 /\ Under < Top.stage /\ Under \in {0, 5, 7, 8}
  BY <1>a, TopFact DEF Frame, Stages, Generators, ContentSafety, Process, ResultDecorate
<1>d. frames # <<>> =>
        /\ (Under \in {7, 8} \/ (Top.stage = 8 /\ Top.at \in {"yielded", "returned"}))
             => ~result.stop
        /\ last # 0 =>
             /\ Top.stage = 7 /\ Top.at = "yielded" /\ ~result.stop => Carried
             /\ Top.stage = 7 /\ Top.at \in {"returned", "resumed"} => Settled
             /\ Under = 7 /\ Top.stage = 8 /\ Top.at \in {"start", "working"} => Carried
             /\ Under = 7 /\ Top.stage = 8 /\ Top.at = "finished" => Carried \/ Settled
             /\ Under = 7 /\ Top.stage = 9 /\ Top.at \in {"start", "working"} =>
                    Carried \/ Settled
             /\ Under = 7 /\ Top.stage = 9 /\ Top.at = "finished" => Settled
  BY <1>a, <1>b DEF ReplyInv, In, Process, ResultDecorate, Respond
<1>e. ASSUME /\ (Under' \in {7, 8} \/ (Top'.stage = 8 /\ Top'.at \in {"yielded", "returned"}))
                  => ~result'.stop,
             last' # 0 =>
               /\ Top'.stage = 7 /\ Top'.at = "yielded" /\ ~result'.stop => Carried'
               /\ Top'.stage = 7 /\ Top'.at \in {"returned", "resumed"} => Settled'
               /\ Under' = 7 /\ Top'.stage = 8 /\ Top'.at \in {"start", "working"} => Carried'
               /\ Under' = 7 /\ Top'.stage = 8 /\ Top'.at = "finished" => Carried' \/ Settled'
               /\ Under' = 7 /\ Top'.stage = 9 /\ Top'.at \in {"start", "working"} =>
                      Carried' \/ Settled'
               /\ Under' = 7 /\ Top'.stage = 9 /\ Top'.at = "finished" => Settled'
      PROVE  ReplyInv'
  BY <1>e DEF ReplyInv, In, Process, ResultDecorate, Respond
<1>1. CASE Scheduler
  <2>a. /\ frames # <<>> /\ UNCHANGED <<result, fate, last>>
        /\ IsStopped <=> result.stop
        /\ (Carried <=> Carried') /\ (Settled <=> Settled')
    BY <1>1, <1>b DEF Scheduler, Descend, BreakOut, Resume, Finish, Unchanged, plugin, IsStopped,
       Carried, Settled
  <2>1. CASE Descend
    <3>1. /\ Under' = Top.stage /\ Top'.stage = Top.stage + 1 /\ Top'.at = "start"
          /\ Top.at = "yielded" /\ ~result.stop
      BY <1>a, <2>a, <2>1, DescendFact DEF Descend
    <3> QED BY <1>c, <1>d, <1>e, <2>a, <3>1
  <2>2. CASE Resume
    <3>1. Top.at = "returned" /\ ~result.stop /\ ToAt("resumed") /\ Top.stage \in Generators
      BY <1>a, <2>a, <2>2 DEF Resume, FramesOK, StackInv
    <3>2. Top'.stage = Top.stage /\ Top'.at = "resumed" /\ Under' = Under
      BY <1>a, <2>a, <3>1, ToAtFact DEF Ats
    <3> QED BY <1>c, <1>d, <1>e, <2>a, <3>1, <3>2
  <2>3. CASE BreakOut
    <3>1. Top.at \in {"yielded", "returned"} /\ result.stop /\ LoopOn /\ Top.stage \in Generators
      BY <1>a, <2>a, <2>3 DEF BreakOut, FramesOK, StackInv
    <3>2. Top.stage \in {5, 7, 8}
      BY <3>1 DEF Generators, ContentSafety, Process, ResultDecorate
    <3>3. Top.stage < Respond /\ NextStage
      BY <1>a, <2>a, <3>1, <3>2, LoopOnFact DEF Respond
    <3>4. Top'.stage = Top.stage + 1 /\ Top'.at = "start" /\ Under' = Under
      BY <1>a, <2>a, <3>3, NextStageFact
    <3> QED BY <1>c, <1>d, <1>e, <2>a, <3>1, <3>2, <3>4
  <2>4. CASE Finish /\ Top.stage < Respond /\ NextStage
    <3>1. Top.at = "finished" /\ Top'.stage = Top.stage + 1 /\ Top'.at = "start" /\ Under' = Under
      BY <1>a, <2>a, <2>4, NextStageFact DEF Finish
    <3> QED BY <1>c, <1>d, <1>e, <2>a, <3>1
  <2>5. CASE Finish /\ EndLoop /\ Top.stage # 8
    <3>1. /\ Top.at = "finished" /\ Top'.stage = Under /\ Top'.at = "returned"
          /\ Under' < Under /\ Under' \in {0} \cup Generators
      BY <1>a, <2>a, <2>5, EndLoopFact DEF Finish
    <3>2. Under' \in {0, 5, 7, 8}
      BY <3>1 DEF Generators, ContentSafety, Process, ResultDecorate
    <3>3. CASE Under = 7
      <4>1. Top.stage = 9
        BY <1>c, <2>a, <2>5, <3>3
      <4> QED BY <1>c, <1>d, <1>e, <2>a, <3>1, <3>2, <3>3, <4>1
    <3>4. CASE Under # 7
      <4>1. Under' \in {7, 8} => Under = 8
        BY <1>c, <2>a, <3>1, <3>2, <3>4
      <4> QED BY <1>c, <1>d, <1>e, <2>a, <3>1, <3>2, <3>4, <4>1
    <3> QED BY <3>3, <3>4
  <2>6. CASE Finish
    <3>1. CASE Top.stage \notin Generators /\ IsStopped
      <4>1. EndLoop /\ Top.stage # 8
        BY <2>6, <3>1 DEF Finish, Generators, ResultDecorate
      <4> QED BY <2>5, <2>6, <4>1
    <3>2. CASE ~(Top.stage \notin Generators /\ IsStopped)
      <4>1. LoopOn
        BY <2>6, <3>2 DEF Finish
      <4> QED BY <1>a, <2>a, <2>4, <2>5, <2>6, <4>1, LoopOnFact DEF Respond
    <3> QED BY <3>1, <3>2
  <2> QED BY <1>1, <2>1, <2>2, <2>3, <2>6 DEF Scheduler
<1>2. CASE Stop \/ Raise \/ Over
  BY <1>2 DEF Stop, StopEvent, Raise, Over, vars
<1>3. CASE BeforeProcess
  <2>1. Top.stage \in Gates \cup {PreProcess} \/ Top.stage = ContentSafety
    BY <1>3 DEF BeforeProcess, BeginStage, Pass, GateStops, ContentPasses, ContentRejected,
       RejectedResumed, In
  <2>2. Top.stage \in 1..6
    BY <2>1 DEF Gates, PreProcess, ContentSafety
  <2>3. frames # <<>> /\ Top'.stage \in 1..6 /\ Under' = Under
    BY <1>a, <1>3, <2>2, StageFact
  <2> QED BY <1>c, <1>e, <2>2, <2>3
<1>4. CASE InProcess
  <2>1. /\ frames # <<>> /\ Top.stage = 7 /\ Top'.stage = 7 /\ Under' = Under
        /\ Top'.at \in {"working", "yielded", "finished"}
    BY <1>a, <1>4, StageFact, ProcessMoves DEF Process
  <2>2. Top'.at = "yielded" /\ last' # 0 => Carried'
    BY <1>a, <1>4, YieldFact
  <2> QED BY <1>c, <1>e, <2>1, <2>2
<1>5. CASE AfterProcess
  <2>1. /\ frames # <<>> /\ Top'.stage = Top.stage /\ Under' = Under
        /\ Top'.at \in {"working", "yielded", "finished"}
    BY <1>a, <1>5, StageFact
  <2>2. /\ Top.stage \in {8, 9} /\ Top.at \in {"start", "working"} /\ last' = last
        /\ result'.stop => result.stop
    BY <1>a, <1>5, AfterFact
  <2>3. Top'.stage = 8 /\ Top'.at = "yielded" => ~result'.stop
    <3>1. ASSUME Top'.stage = 8, Top'.at = "yielded" PROVE ~result'.stop
      <4>1. CASE ReplyRejected
        <5>1. SetResult("chain", FALSE)
          BY <4>1 DEF ReplyRejected, StopEvent
        <5> QED BY <1>a, <5>1, SetResultFact DEF Kinds
      <4>2. CASE ~ReplyRejected
        <5>1. ToAt("working") \/ ToAt("finished")
          BY <1>5, <4>2 DEF AfterProcess, DecorateStart, RejectionResumed, HookClears, DecorateEnd,
             RespondStart, RespondSkips, RespondSends, RespondStreams, RespondBare
        <5> QED BY <1>a, <2>1, <3>1, <5>1, ToAtFact DEF Ats, Halfway
      <4> QED BY <4>1, <4>2
    <3> QED BY <3>1
  <2>4. ASSUME last # 0, Under = 7
        PROVE  /\ Top.stage = 8 /\ Top'.at = "working" => Carried'
               /\ Top.stage = 8 /\ Top'.at = "finished" => Carried' \/ Settled'
               /\ Top.stage = 9 /\ Top'.at = "working" => Carried' \/ Settled'
               /\ Top.stage = 9 /\ Top'.at = "finished" => Settled'
    <3>a. Top.stage = 8 => Carried
      BY <1>d, <2>1, <2>2, <2>4
    <3>b. Top.stage = 9 => Carried \/ Settled
      BY <1>d, <2>1, <2>2, <2>4
    <3>c. last \in 1..MaxYields /\ fate \in [1..MaxYields -> {"unsent", "skipped", "sent", "resent"}]
      BY <1>a, <2>4 DEF DataOK
    <3>1. CASE DecorateStart \/ DecorateEnd \/ RespondStart
      <4>1. /\ UNCHANGED <<result, fate>>
            /\ Top.stage = 9 => ToAt("working")
        BY <1>5, <3>1, <2>1 DEF DecorateStart, DecorateEnd, RespondStart, Unchanged, In,
           ResultDecorate, Respond
      <4>2. Top.stage = 9 => Top'.at = "working"
        BY <1>a, <2>1, <4>1, ToAtFact DEF Ats, Halfway
      <4>3. (Carried <=> Carried') /\ (Settled <=> Settled')
        BY <2>2, <4>1 DEF Carried, Settled
      <4> QED BY <3>a, <3>b, <4>2, <4>3
    <3>2. CASE RespondStreams \/ RespondBare
      <4>1. Top.stage = 9 /\ ~Carried /\ UNCHANGED fate
        BY <3>2 DEF RespondStreams, RespondBare, Unchanged, In, Respond, Carried
      <4>2. Settled'
        BY <2>2, <3>b, <4>1 DEF Settled
      <4> QED BY <4>1, <4>2
    <3>3. CASE HookClears
      <4>1. Top.stage = 8 /\ fate' = [fate EXCEPT ![result.id] = "skipped"] /\ ToAt("finished")
        BY <3>3 DEF HookClears, In, ResultDecorate, Fate
      <4>2. Settled'
        BY <2>2, <3>a, <3>c, <4>1 DEF Carried, Settled
      <4>3. Top'.at = "finished"
        BY <1>a, <2>1, <4>1, ToAtFact DEF Ats, Halfway
      <4> QED BY <4>1, <4>2, <4>3
    <3>4. CASE RespondSkips
      <4>1. /\ Top.stage = 9
            /\ IF HasChain /\ fate[result.id] = "unsent"
               THEN fate' = [fate EXCEPT ![result.id] = "skipped"] ELSE fate' = fate
        BY <3>4 DEF RespondSkips, In, Respond, Fate
      <4>2. Carried => HasChain /\ result.id = last
        BY DEF Carried, HasChain
      <4>3. fate'[last] # "unsent"
        BY <3>b, <3>c, <4>1, <4>2 DEF Settled
      <4> QED BY <2>2, <4>1, <4>3 DEF Settled
    <3>5. CASE RespondSends
      <4>1. /\ Top.stage = 9
            /\ \E f \in {"sent", "resent"} : fate' = [fate EXCEPT ![result.id] = f]
        BY <3>5 DEF RespondSends, In, Respond, Fate
      <4>2. fate'[last] # "unsent"
        BY <3>b, <3>c, <4>1 DEF Settled, Carried
      <4> QED BY <2>2, <4>1, <4>2 DEF Settled
    <3>6. CASE ReplyRejected
      <4>1. ToAt("yielded") /\ Top.stage = 8
        BY <3>6 DEF ReplyRejected, StopEvent, In, ResultDecorate
      <4>2. Top'.at = "yielded"
        BY <1>a, <2>1, <4>1, ToAtFact DEF Ats, Halfway, Generators, ResultDecorate
      <4> QED BY <4>1, <4>2
    <3>7. CASE RejectionResumed
      BY <3>7 DEF RejectionResumed, StopEvent
    <3> QED BY <1>5, <3>1, <3>2, <3>3, <3>4, <3>5, <3>6, <3>7 DEF AfterProcess
  <2> QED BY <1>c, <1>d, <1>e, <2>1, <2>2, <2>3, <2>4
<1>6. CASE UNCHANGED vars
  BY <1>6, <1>a DEF vars, plugin, ReplyInv, Under, Top, In, Carried, Settled
<1> QED BY <1>1, <1>2, <1>3, <1>4, <1>5, <1>6 DEF Next

\* A reply that was sent stays the result only if it has stopped the message.
LEMMA SentStep == Inv /\ [Next]_vars => SentInv'
<1> SUFFICES ASSUME Inv, [Next]_vars, ~forced' PROVE SentInv'
  BY DEF SentInv
<1> DEFINE SentResult == result.id > 0 /\ fate[result.id] = "sent"
           Rest == \/ frames = <<>> \/ In(Respond, "finished")
                   \/ In(ContentSafety, "returned") \/ Top.stage = PreProcess
<1>a. FramesOK /\ DataOK /\ ResultInv /\ ReplyInv /\ SentInv
  BY TypeParts DEF Inv
<1>m. ResultMoves
  BY <1>a, DataMoves
<1>b. ~forced
  BY <1>m DEF ResultMoves, StopEvent
<1>c. (\A r \in 1..MaxYields : fate[r] # "resent") /\ (SentResult => result.stop /\ Rest)
  BY <1>a, <1>b DEF SentInv
<1>d. ASSUME \A r \in 1..MaxYields : fate'[r] # "resent",
             SentResult' => result'.stop /\ Rest'
      PROVE  SentInv'
  BY <1>d DEF SentInv
<1> HIDE DEF SentResult
<1>e. ASSUME UNCHANGED <<result, fate>>, SentResult => Rest' PROVE SentInv'
  BY <1>c, <1>d, <1>e DEF SentResult
<1>f. ASSUME ~SentResult, fate' = fate PROVE SentInv'
  <2>1. CASE UNCHANGED result
    BY <1>e, <1>f, <2>1
  <2>2. ASSUME NEW kind \in {"chain", "llm", "stream", "finish"}, NEW stop \in BOOLEAN,
               SetResult(kind, stop)
        PROVE  SentInv'
    <3>1. result'.id = yields + 1 /\ yields + 1 \in 1..MaxYields /\ yields + 1 > yields
      BY <1>a, <2>2, SetResultFact DEF Kinds, DataOK
    <3>2. fate[yields + 1] = "unsent"
      BY <1>a, <3>1 DEF ResultInv
    <3> QED BY <1>c, <1>d, <1>f, <3>1, <3>2 DEF SentResult
  <2>3. CASE result' = NoResult
    BY <1>c, <1>d, <1>f, <2>3, NoResultFact DEF SentResult
  <2> QED BY <1>m, <2>1, <2>2, <2>3 DEF ResultMoves, StopEvent
<1>1. CASE Scheduler
  <2>a. frames # <<>> /\ UNCHANGED <<result, fate>> /\ (IsStopped <=> result.stop)
    BY <1>1, <1>b DEF Scheduler, Descend, BreakOut, Resume, Finish, Unchanged, IsStopped
  <2>1. CASE ~result.stop
    BY <1>c, <1>f, <2>1, <2>a
  <2>2. CASE ~SentResult
    BY <1>f, <2>2, <2>a
  <2>3. CASE result.stop /\ SentResult /\ BreakOut
    <3>1. Top.at \in {"yielded", "returned"} /\ LoopOn /\ Top.stage \in Generators
      BY <1>a, <2>3 DEF BreakOut, FramesOK, StackInv
    <3>2. Top.stage = 5
      BY <1>c, <2>3, <2>a, <3>1 DEF In, Generators, ContentSafety, PreProcess, Process,
         ResultDecorate
    <3>3. Top.stage < Respond /\ NextStage
      BY <1>a, <2>a, <3>1, <3>2, LoopOnFact DEF Respond
    <3>4. Top'.stage = 6
      BY <1>a, <2>a, <3>2, <3>3, NextStageFact
    <3> QED BY <1>e, <2>a, <3>4 DEF PreProcess
  <2>4. CASE result.stop /\ SentResult /\ Finish
    <3>1. Top.at = "finished" /\ Top.stage \in {6, 9}
      BY <1>c, <2>a, <2>4 DEF Finish, In, ContentSafety, PreProcess, Respond
    <3>2. Top.stage \notin Generators
      BY <3>1 DEF Generators, ContentSafety, Process, ResultDecorate
    <3>3. EndLoop
      BY <2>a, <2>4, <3>2 DEF Finish
    <3>4. Under \notin {7, 8}
      BY <1>a, <1>b, <2>a, <2>4 DEF ReplyInv, Process, ResultDecorate
    <3>5. CASE frames' # <<>>
      <4>1. Top'.stage = Under /\ Top'.at = "returned" /\ Under # 0
        BY <1>a, <2>a, <3>3, <3>5, EndLoopFact
      <4>2. Under = 5
        BY <1>a, <2>a, <3>4, <4>1, TopFact DEF Generators, ContentSafety, Process, ResultDecorate
      <4> QED BY <1>e, <2>a, <3>5, <4>1, <4>2 DEF In, ContentSafety
    <3>6. CASE frames' = <<>>
      BY <1>e, <2>a, <3>6
    <3> QED BY <3>5, <3>6
  <2>5. CASE result.stop /\ (Descend \/ Resume)
    BY <2>a, <2>5 DEF Descend, Resume
  <2> QED BY <1>1, <2>1, <2>2, <2>3, <2>4, <2>5 DEF Scheduler
<1>2. CASE Stop
  BY <1>2 DEF Stop, StopEvent
<1>3. CASE Raise \/ Over
  <2>1. frames' = <<>> /\ UNCHANGED <<result, fate>>
    BY <1>3 DEF Raise, Over, vars, Unchanged
  <2> QED BY <1>e, <2>1
<1>4. CASE BeforeProcess
  <2>1. /\ Top.stage \in Gates \cup {PreProcess} \/ In(ContentSafety, "start")
           \/ In(ContentSafety, "resumed")
        /\ fate' = fate
    BY <1>4 DEF BeforeProcess, BeginStage, Pass, GateStops, ContentPasses, ContentRejected,
       RejectedResumed, Unchanged
  <2>2. frames # <<>> /\ frames' # <<>> /\ Top'.stage = Top.stage
    BY <1>a, <1>4, StageFact
  <2>3. CASE ~SentResult
    BY <1>f, <2>1, <2>3
  <2>4. CASE SentResult
    <3>1. Top.stage = 6
      BY <1>c, <2>1, <2>2, <2>4 DEF In, Gates, ContentSafety, PreProcess, Respond
    <3>2. result' = result
      BY <1>4, <3>1 DEF BeforeProcess, BeginStage, Pass, GateStops, ContentPasses, ContentRejected,
         RejectedResumed, Unchanged, StopEvent, Gates, ContentSafety, In
    <3> QED BY <1>e, <2>1, <2>2, <3>1, <3>2 DEF PreProcess
  <2> QED BY <2>3, <2>4
<1>5. CASE InProcess
  <2>1. frames # <<>> /\ Top.stage = 7
    BY <1>5, ProcessMoves DEF Process
  <2>2. ~SentResult
    BY <1>c, <2>1 DEF In, ContentSafety, PreProcess, Respond
  <2>3. fate' = fate
    BY <1>5 DEF InProcess, ProcessStart, StartHandler, SkipHandler, HandlersOver, HandlerYields,
     HandlerRequestsLLM, HandlerReturns, HandlerRaises, SendsDirectly, AgentRefuses, AgentStarts,
     AgentYields, AgentStreams, AgentEnds, AgentErrs, AgentFails, ProcessResumed
  <2> QED BY <1>f, <2>2, <2>3
<1>6. CASE AfterProcess
  <2>1. frames # <<>> /\ Top.stage \in {8, 9} /\ Top.at \in {"start", "working"}
    BY <1>a, <1>6, AfterFact, StageFact
  <2>2. ~SentResult
    BY <1>c, <2>1 DEF In, ContentSafety, PreProcess, Respond
  <2>3. CASE fate' = fate
    BY <1>f, <2>2, <2>3
  <2>4. CASE HookClears
    <3>1. result' = NoResult /\ fate' = [fate EXCEPT ![result.id] = "skipped"]
      BY <2>4 DEF HookClears, Fate
    <3>2. ~SentResult'
      BY <3>1, NoResultFact DEF SentResult
    <3>3. \A r \in 1..MaxYields : fate'[r] # "resent"
      BY <1>a, <1>c, <3>1 DEF DataOK
    <3> QED BY <1>d, <3>2, <3>3
  <2>5. CASE RespondSkips /\ fate' # fate
    <3>1. result' = result /\ fate' = [fate EXCEPT ![result.id] = "skipped"]
      BY <2>5 DEF RespondSkips, Fate
    <3>2. result.id \in 0..MaxYields
      BY <1>a DEF DataOK, Results
    <3>3. ~SentResult'
      BY <1>a, <3>1, <3>2 DEF SentResult, DataOK
    <3>4. \A r \in 1..MaxYields : fate'[r] # "resent"
      BY <1>a, <1>c, <3>1 DEF DataOK
    <3> QED BY <1>d, <3>3, <3>4
  <2>6. CASE RespondSends
    <3>1. /\ result.kind \in {"chain", "llm"} /\ ToAt("finished") /\ Top.stage = 9
          /\ fate' = [fate EXCEPT ![result.id] =
                        IF fate[result.id] \in {"sent", "resent"} THEN "resent" ELSE "sent"]
          /\ (result' = result /\ result.stop) \/ result' = NoResult
      BY <1>b, <2>6 DEF RespondSends, Fate, In, IsStopped, Respond
    <3>2. result.id \in 1..MaxYields
      BY <1>a, <3>1 DEF DataOK, Results, ResultInv
    <3>3. fate[result.id] \notin {"sent", "resent"}
      BY <1>c, <2>2, <3>2 DEF SentResult
    <3>4. \A r \in 1..MaxYields : fate'[r] # "resent"
      BY <1>a, <1>c, <3>1, <3>3 DEF DataOK
    <3>5. In(Respond, "finished")'
      BY <1>a, <2>1, <3>1, ToAtFact DEF In, Ats, Halfway, Respond
    <3> QED BY <1>d, <3>1, <3>4, <3>5, NoResultFact DEF SentResult
  <2>7. HookClears \/ RespondSkips \/ RespondSends \/ fate' = fate
    BY <1>6 DEF AfterProcess, DecorateStart, ReplyRejected, RejectionResumed, DecorateEnd,
       RespondStart, RespondStreams, RespondBare, Unchanged
  <2> QED BY <2>3, <2>4, <2>5, <2>6, <2>7
<1>7. CASE UNCHANGED vars
  BY <1>7, <1>c, <1>e DEF vars, SentResult, Top, In
<1> QED BY <1>1, <1>2, <1>3, <1>4, <1>5, <1>6, <1>7 DEF Next

\* Inv holds however many handlers and replies there are: of the stack of
\* PipelineScheduler._process_stages, of the generators that wait in it, and of the
\* reply that is on its way (scheduler.py:46).
THEOREM Invariance == Spec => []Inv
<1>1. Init => Inv
  BY InitInv
<1>2. Inv /\ [Next]_vars => Inv'
  <2> SUFFICES ASSUME Inv, [Next]_vars PROVE Inv'
    OBVIOUS
  <2>1. FramesOK'
    BY TypeParts, MovesStep, MovesFact DEF Inv
  <2>2. DataOK' /\ ResultInv' /\ PlaceOK' /\ HandInv'
    BY DataStep, HandStep
  <2>3. TypeOK' /\ StackInv'
    <3>1. (FramesOK /\ DataOK /\ PlaceOK)' => (TypeOK /\ StackInv)'
      BY DEF TypeOK, FramesOK, DataOK, PlaceOK, Frame
    <3> QED BY <2>1, <2>2, <3>1
  <2> QED BY <2>2, <2>3, FirstStep, ResumedStep, ReplyStep, SentStep DEF Inv
<1> QED BY <1>1, <1>2, PTL DEF Spec

\* However the stages are nested, left early and repeated, ProcessStage starts no
\* plugin handler twice for a message (scheduler.py:46, star_request.py:38).
THEOREM OnceEach == Spec => []HandlersOnce
<1>1. Inv => HandlersOnce
  BY DEF Inv, HandInv, HandlersOnce
<1> QED BY <1>1, Invariance, PTL

\* When the generator of ProcessStage is resumed, what it yielded last has been
\* sent or dropped on purpose: replies keep their order (scheduler.py:46).
THEOREM InOrder == Spec => []RepliesInOrder
<1>1. Inv => RepliesInOrder
  BY DEF Inv, ResumedInv, ReplyInv, RepliesInOrder, IsStopped, In, Settled
<1> QED BY <1>1, Invariance, PTL

\* RespondStage sends a reply again only for a message that another task or a
\* handler stopped for good (respond/stage.py:321).
THEOREM ResentWhenStopped == Spec => []ResentOnlyIfStopped
<1>1. Inv => ResentOnlyIfStopped
  BY DEF Inv, SentInv, ResentOnlyIfStopped
<1> QED BY <1>1, Invariance, PTL

----------------------------------------------------------------------------
(* A stop is final                                                         *)

\* A stage finds the message stopped by its result only after ProcessStage has
\* yielded, or before it begins.
StopInv ==
    frames # <<>> /\ ~forced /\ result.stop =>
        /\ Top.stage >= ContentSafety /\ ~In(ContentSafety, "start")
        /\ In(Process, "working") => place = "between"

\* No activation has ProcessStage to go on with or to begin, the content check to
\* stop the message being all that is left below.
Past ==
    /\ frames # <<>>
    /\ \A i \in 1..Len(frames) : frames[i].stage # Process
    /\ \/ Top.stage \in {ResultDecorate, Respond}
       \/ Top.stage = ContentSafety /\ Top.at \in {"returned", "resumed"}

Halted == IsStopped \/ frames = <<>> \/ Past

LEMMA StopStep == Inv /\ StopInv /\ [Next]_vars => StopInv'
<1> SUFFICES ASSUME Inv, StopInv, [Next]_vars PROVE StopInv'
  OBVIOUS
<1>a. FramesOK /\ DataOK /\ ResumedInv
  BY TypeParts DEF Inv
<1>b. frames # <<>> => Top.stage \in Stages /\ Top.at \in Ats
  BY <1>a, TopFact DEF Frame
<1> USE DEF ContentSafety, PreProcess, Process, In
<1>1. CASE Scheduler
  <2>a. frames # <<>> /\ UNCHANGED <<result, forced>>
    BY <1>1 DEF Scheduler, Descend, BreakOut, Resume, Finish, Unchanged
  <2>1. CASE Descend
    <3>1. Top'.stage = Top.stage + 1 /\ Top'.at = "start" /\ Top.stage \in {5, 7, 8}
      BY <1>a, <2>1, DescendFact DEF Generators, ResultDecorate
    <3> QED BY <3>1 DEF StopInv
  <2>2. CASE Resume
    <3>1. Top'.stage = Top.stage /\ Top'.at = "resumed" /\ Top.stage \in {5, 7, 8}
      BY <1>a, <2>2, ToAtFact DEF Resume, FramesOK, StackInv, Generators, ResultDecorate, Ats
    <3> QED BY <3>1 DEF StopInv
  <2>3. CASE EndLoop
    <3>1. frames' # <<>> => Top'.stage \in {5, 7, 8} /\ Top'.at = "returned"
      BY <1>a, <2>a, <2>3, EndLoopFact, TopFact DEF Generators, ResultDecorate
    <3> QED BY <3>1 DEF StopInv
  <2>4. CASE Top.stage < Respond /\ NextStage
    <3>1. Top'.stage = Top.stage + 1 /\ Top'.at = "start"
      BY <1>a, <2>a, <2>4, NextStageFact
    <3> QED BY <1>b, <2>a, <3>1 DEF StopInv, Stages
  <2> QED BY <1>1, <1>a, <2>a, <2>1, <2>2, <2>3, <2>4, LoopOnFact DEF Scheduler, BreakOut, Finish
<1>2. CASE Stop
  BY <1>2 DEF Stop, StopEvent, StopInv
<1>3. CASE Raise \/ Over
  BY <1>3 DEF Raise, Over, vars, plugin, StopInv, Top
<1>4. CASE BeforeProcess
  <2>1. /\ frames # <<>> /\ frames' # <<>> /\ Top'.stage = Top.stage
        /\ Top'.at \in {"working", "yielded", "finished"}
    BY <1>a, <1>4, StageFact
  <2>2. forced' \/ UNCHANGED <<result, forced>> \/ (Top.stage = 5 /\ Top'.at = "yielded")
    <3>1. CASE ContentRejected
      BY <1>a, <3>1, ToAtFact DEF ContentRejected, StopEvent, Ats, Halfway, Generators
    <3> QED BY <1>4, <3>1 DEF BeforeProcess, BeginStage, Pass, GateStops, ContentPasses,
        RejectedResumed, StopEvent, Unchanged
  <2>3. Top.stage # 7
    <3>1. Top.stage \in Gates \/ Top.stage \in {5, 6}
      BY <1>4 DEF BeforeProcess, BeginStage, Pass, GateStops, ContentPasses, ContentRejected,
         RejectedResumed
    <3> QED BY <3>1 DEF Gates
  <2>4. CASE UNCHANGED <<result, forced>>
    BY <2>1, <2>3, <2>4 DEF StopInv
  <2>5. CASE Top.stage = 5 /\ Top'.at = "yielded"
    BY <2>1, <2>5 DEF StopInv
  <2>6. CASE forced'
    BY <2>6 DEF StopInv
  <2> QED BY <2>2, <2>4, <2>5, <2>6
<1>5. CASE InProcess
  <2>1. frames # <<>> /\ frames' # <<>> /\ Top'.stage = 7 /\ Top.stage = 7
    BY <1>a, <1>5, StageFact, ProcessMoves
  <2> SUFFICES ASSUME ~forced', result'.stop, Top'.at = "working" PROVE place' = "between"
    BY <2>1 DEF StopInv
  <2>2. ~ToAt("yielded") /\ ~ToAt("finished")
    BY <1>a, <2>1, ToAtFact DEF Ats, Halfway, Generators
  <2>3. ASSUME NEW kind \in Kinds, SetResult(kind, FALSE) PROVE FALSE
    BY <1>a, <2>3, SetResultFact
  <2>4. ~NoResult.stop
    BY NoResultFact
  <2>5. place = "between" \/ IsStopped => place = "between" \/ Top.at # "working" \/ forced \/ ~result.stop
    BY <2>1 DEF StopInv
  <2>6. CASE ProcessStart \/ HandlerReturns
    BY <2>6 DEF ProcessStart, HandlerReturns, Goes
  <2>7. CASE StartHandler \/ SkipHandler \/ HandlersOver
    BY <2>2, <2>4, <2>7 DEF StartHandler, SkipHandler, HandlersOver, IsStopped, At
  <2>8. CASE HandlerYields \/ AgentYields \/ AgentStreams
    BY <2>2, <2>8 DEF HandlerYields, AgentYields, AgentStreams
  <2>9. CASE HandlerRequestsLLM \/ SendsDirectly \/ AgentRefuses \/ AgentStarts \/ AgentEnds
             \/ AgentFails
    BY <2>1, <2>9 DEF HandlerRequestsLLM, SendsDirectly, AgentRefuses, AgentStarts, AgentEnds,
       AgentFails, At, StopInv
  <2>10. CASE HandlerRaises
    BY <2>2, <2>10 DEF HandlerRaises, StopEvent, Goes
  <2>11. CASE AgentErrs
    BY <2>3, <2>11 DEF AgentErrs, Kinds
  <2>12. CASE ProcessResumed
    <3>1. ~IsStopped
      BY <1>a, <2>1, <2>12 DEF ProcessResumed, ResumedInv
    <3> QED BY <2>3, <2>4, <2>12, <3>1 DEF ProcessResumed, IsStopped, Kinds
  <2> QED BY <1>5, <2>6, <2>7, <2>8, <2>9, <2>10, <2>11, <2>12 DEF InProcess
<1>6. CASE AfterProcess
  <2>1. Top'.stage = Top.stage
    BY <1>a, <1>6, StageFact
  <2>2. Top.stage \in {8, 9}
    BY <1>6 DEF AfterProcess, DecorateStart, ReplyRejected, RejectionResumed, HookClears,
       DecorateEnd, RespondStart, RespondSkips, RespondSends, RespondStreams, RespondBare,
       ResultDecorate, Respond
  <2> QED BY <2>1, <2>2 DEF StopInv
<1>7. CASE UNCHANGED vars
  BY <1>7 DEF vars, plugin, StopInv, Top
<1> QED BY <1>1, <1>2, <1>3, <1>4, <1>5, <1>6, <1>7 DEF Next

\* The activations are at the stages they were at, but for the top one.
LEMMA StagesFact ==
    ASSUME FramesOK, frames # <<>>, frames' # <<>>, Moves, NEW i \in 1..Len(frames')
    PROVE  frames'[i].stage = Top'.stage \/ \E j \in 1..Len(frames) : frames'[i].stage = frames[j].stage
<1>a. Len(frames) \in Nat \ {0} /\ frames \in Seq(Frame) /\ Top = frames[Len(frames)]
  BY TopFact DEF FramesOK
<1>1. ASSUME NEW f, frames' = [frames EXCEPT ![Len(frames)] = f]
      PROVE  frames'[i].stage = Top'.stage \/ \E j \in 1..Len(frames) : frames'[i].stage = frames[j].stage
  <2>1. Len(frames') = Len(frames) /\ frames'[Len(frames)] = f
        /\ \A j \in 1..Len(frames) : j # Len(frames) => frames'[j] = frames[j]
    BY <1>a, <1>1
  <2>2. Top' = f
    BY <2>1 DEF Top, Last
  <2> QED BY <2>1, <2>2
<1>2. CASE MovesAt \/ ToAt("resumed") \/ NextStage
  BY <1>1, <1>2 DEF MovesAt, ToAt, NextStage
<1>3. CASE EndLoop
  <2>1. /\ Len(frames) - 1 \in Nat \ {0}
        /\ frames' = [Front(frames) EXCEPT ![Len(frames) - 1].at = "returned"]
    BY <1>3, <1>a DEF EndLoop
  <2>2. /\ Len(Front(frames)) = Len(frames) - 1
        /\ \A j \in 1..Len(frames) - 1 : Front(frames)[j] = frames[j] /\ j \in 1..Len(frames)
    BY <1>a, <2>1 DEF Front
  <2>3. Front(frames) \in Seq(Frame)
    BY <1>a, <2>1 DEF Front
  <2> DEFINE n == Len(frames) - 1
             g == Front(frames)
             f == [g[n] EXCEPT !.at = "returned"]
  <2>4. n \in 1..n /\ g[n] \in Frame /\ f.stage = g[n].stage
    <3>1. n \in Nat \ {0} /\ g \in Seq(Frame) /\ Len(g) = n
      BY <2>1, <2>2, <2>3
    <3> HIDE DEF n, g
    <3>2. n \in 1..n /\ g[n] \in Frame
      BY <3>1
    <3> QED BY <3>2 DEF Frame
  <2>5. frames' = [g EXCEPT ![n] = f]
    BY <2>1
  <2> HIDE DEF f
  <2>6. Len(frames') = n /\ \A j \in 1..n : frames'[j].stage = g[j].stage
    BY <2>1, <2>2, <2>3, <2>4, <2>5
  <2> QED BY <2>2, <2>6
<1>4. CASE Descend
  <2>1. PICK f : frames' = Append([frames EXCEPT ![Len(frames)].at = "inner"], f)
    BY <1>4 DEF Descend
  <2>2. /\ Len(frames') = Len(frames) + 1 /\ frames'[Len(frames) + 1] = f
        /\ \A j \in 1..Len(frames) : frames'[j] = [frames EXCEPT ![Len(frames)].at = "inner"][j]
    BY <1>a, <2>1
  <2>3. \A j \in 1..Len(frames) : frames[j] \in Frame
    BY <1>a
  <2>4. \A j \in 1..Len(frames) : frames'[j].stage = frames[j].stage
    BY <1>a, <2>2, <2>3 DEF Frame
  <2>5. Top' = f
    BY <2>2 DEF Top, Last
  <2> QED BY <1>a, <2>2, <2>4, <2>5
<1>5. CASE frames' = frames
  BY <1>5
<1> QED BY <1>2, <1>3, <1>4, <1>5 DEF Moves

\* Once the content check or the stages after ProcessStage are all that is left, it
\* stays so.
LEMMA PastStep ==
    ASSUME Inv, Past, ~IsStopped, [Next]_vars
    PROVE  Halted' /\ UNCHANGED <<runs, asked>>
<1>a. FramesOK /\ FramesOK'
  BY TypeParts, MovesStep, MovesFact DEF Inv
<1>b. Top.stage \in Stages /\ Top.at \in Ats /\ frames # <<>> /\ Top.stage \in {5, 8, 9}
  BY <1>a, TopFact DEF Frame, Past, ContentSafety, ResultDecorate, Respond
<1>c. frames' # <<>> /\ Top'.stage # Process => \A i \in 1..Len(frames') : frames'[i].stage # Process
  BY <1>a, StagesFact, MovesStep DEF Past
<1> USE DEF ContentSafety, PreProcess, Process, ResultDecorate, Respond, In
<1>1. CASE Scheduler
  <2>a. UNCHANGED <<runs, asked>>
    BY <1>1 DEF Scheduler, Descend, BreakOut, Resume, Finish, Unchanged, plugin
  <2>1. CASE Descend
    <3>1. Top'.stage = Top.stage + 1 /\ Top.stage \in {5, 7, 8} /\ frames' # <<>>
          /\ Top.at = "yielded"
      BY <1>a, <2>1, DescendFact DEF Generators, Descend
    <3> QED BY <1>b, <1>c, <2>a, <3>1 DEF Past, Halted
  <2>2. CASE Resume
    <3>1. Top'.stage = Top.stage /\ Top'.at = "resumed" /\ frames' # <<>>
      BY <1>a, <2>2, ToAtFact DEF Resume, FramesOK, StackInv, Generators, Ats
    <3> QED BY <1>b, <1>c, <2>a, <3>1 DEF Past, Halted
  <2>3. CASE EndLoop
    <3>1. frames' # <<>> => Top'.stage = Under /\ Top'.at = "returned" /\ Under \in {5, 7, 8}
      BY <1>a, <1>b, <2>3, EndLoopFact, TopFact DEF Generators
    <3>2. frames' # <<>> => Under # 7
      <4> SUFFICES ASSUME frames' # <<>>, Under = 7 PROVE FALSE
        OBVIOUS
      <4>1. Len(frames) \in Nat \ {0} /\ Len(frames) > 1
        BY <1>a, <1>b, TopFact DEF Under
      <4>2. Len(frames) - 1 \in 1..Len(frames) /\ frames[Len(frames) - 1].stage = 7
        BY <4>1 DEF Under
      <4> QED BY <4>2 DEF Past
    <3> QED BY <1>c, <2>a, <3>1, <3>2 DEF Past, Halted
  <2>4. CASE Finish /\ ~EndLoop
    <3>1. Top.stage < Respond /\ NextStage /\ Top.at = "finished"
      BY <1>a, <1>b, <2>4, LoopOnFact DEF Finish
    <3>2. Top'.stage = Top.stage + 1 /\ frames' # <<>>
      BY <1>a, <1>b, <3>1, NextStageFact
    <3>3. Top.stage = 8
      BY <1>b, <3>1 DEF Past
    <3> QED BY <1>c, <2>a, <3>2, <3>3 DEF Past, Halted
  <2> QED BY <1>1, <2>1, <2>2, <2>3, <2>4 DEF Scheduler, BreakOut
<1>2. CASE Stop
  BY <1>2 DEF Stop, StopEvent, Halted, IsStopped, plugin
<1>3. CASE Raise \/ Over
  BY <1>3 DEF Raise, Over, Unchanged, vars, plugin, Past, Halted
<1>4. CASE BeforeProcess
  <2>1. CASE RejectedResumed
    BY <2>1 DEF RejectedResumed, StopEvent, Halted, IsStopped, plugin
  <2>2. CASE ~RejectedResumed
    <3>1. Top.stage \in 1..4 \cup {6} \/ Top.at = "start"
      BY <1>4, <2>2 DEF BeforeProcess, BeginStage, Pass, GateStops, ContentPasses,
         ContentRejected, Gates
    <3>2. Top.stage \notin {8, 9}
      <4>1. Top.stage \in Gates \/ Top.stage \in {5, 6}
        BY <1>4 DEF BeforeProcess, BeginStage, Pass, GateStops, ContentPasses, ContentRejected,
           RejectedResumed
      <4> QED BY <4>1 DEF Gates
    <3> QED BY <1>b, <3>1, <3>2 DEF Past
  <2> QED BY <2>1, <2>2
<1>5. CASE InProcess
  BY <1>b, <1>5, ProcessMoves
<1>6. CASE AfterProcess
  <2>1. Top'.stage = Top.stage /\ frames' # <<>>
    BY <1>a, <1>6, StageFact
  <2>2. Top.stage \in {8, 9} /\ UNCHANGED <<runs, asked>>
    BY <1>6 DEF AfterProcess, DecorateStart, ReplyRejected, RejectionResumed, HookClears,
       DecorateEnd, RespondStart, RespondSkips, RespondSends, RespondStreams, RespondBare,
       Unchanged, plugin
  <2> QED BY <1>c, <2>1, <2>2 DEF Past, Halted
<1>7. CASE UNCHANGED vars
  <2>1. frames' = frames /\ Top' = Top /\ UNCHANGED <<runs, asked>>
    BY <1>7 DEF vars, plugin, Top
  <2> QED BY <2>1 DEF Past, Halted
<1> QED BY <1>1, <1>2, <1>3, <1>4, <1>5, <1>6, <1>7 DEF Next

\* A stop is undone only where nothing is left to begin.
LEMMA StoppedStep ==
    ASSUME Inv, StopInv, IsStopped, [Next]_vars
    PROVE  Halted' /\ UNCHANGED <<runs, asked>>
<1>a. FramesOK /\ FramesOK' /\ DataOK /\ ResumedInv /\ ReplyInv
  BY TypeParts, MovesStep, MovesFact DEF Inv
<1>b. UNCHANGED <<result, forced>> \/ forced' => Halted'
  BY DEF Halted, IsStopped
<1>c. (result.stop /\ ~forced) \/ forced
  BY DEF IsStopped
<1> USE DEF ContentSafety, PreProcess, Process, ResultDecorate, Respond, In
<1>1. CASE Scheduler \/ Stop \/ Raise \/ Over \/ UNCHANGED vars
  BY <1>1, <1>b DEF Scheduler, Descend, BreakOut, Resume, Finish, Stop, StopEvent, Raise, Over,
     Unchanged, vars, plugin, Halted
<1>2. CASE BeforeProcess
  <2>1. UNCHANGED <<runs, asked>>
    BY <1>2 DEF BeforeProcess, BeginStage, Pass, GateStops, ContentPasses, ContentRejected,
       RejectedResumed, Unchanged, plugin
  <2>2. CASE ContentRejected
    BY <1>b, <1>c, <2>1, <2>2 DEF ContentRejected, StopInv, StopEvent
  <2>3. CASE ~ContentRejected
    BY <1>2, <1>b, <2>1, <2>3 DEF BeforeProcess, BeginStage, Pass, GateStops, ContentPasses,
       RejectedResumed, StopEvent, Unchanged
  <2> QED BY <2>2, <2>3
<1>3. CASE InProcess
  <2>1. ~StartHandler /\ ~AgentStarts
    BY DEF StartHandler, AgentStarts
  <2>2. UNCHANGED <<runs, asked>>
    BY <1>3, <2>1 DEF InProcess, ProcessStart, SkipHandler, HandlersOver, HandlerYields,
       HandlerRequestsLLM, HandlerReturns, HandlerRaises, SendsDirectly, AgentRefuses, AgentYields,
       AgentStreams, AgentEnds, AgentErrs, AgentFails, ProcessResumed, plugin
  <2>3. ASSUME In(Process, "working"), place # "between", forced' = forced PROVE Halted'
    BY <1>b, <1>c, <2>3 DEF StopInv
  <2>4. CASE HandlerYields \/ AgentYields \/ AgentStreams \/ AgentErrs
    BY <2>2, <2>3, <2>4 DEF HandlerYields, AgentYields, AgentStreams, AgentErrs, At
  <2>5. CASE HandlerRaises
    BY <1>b, <2>2, <2>5 DEF HandlerRaises, StopEvent
  <2>6. CASE ProcessResumed
    BY <1>a, <2>6 DEF ProcessResumed, ResumedInv
  <2>7. CASE HandlerReturns
    BY <1>b, <2>2, <2>7 DEF HandlerReturns
  <2> QED BY <1>3, <1>b, <2>1, <2>2, <2>4, <2>5, <2>6, <2>7 DEF InProcess, ProcessStart,
      SkipHandler, HandlersOver, HandlerRequestsLLM, SendsDirectly, AgentRefuses, AgentEnds,
      AgentFails
<1>4. CASE AfterProcess
  <2>1. UNCHANGED <<runs, asked>>
    BY <1>4 DEF AfterProcess, DecorateStart, ReplyRejected, RejectionResumed, HookClears,
       DecorateEnd, RespondStart, RespondSkips, RespondSends, RespondStreams, RespondBare,
       Unchanged, plugin
  <2>2. CASE HookClears \/ ReplyRejected
    <3>1. frames # <<>> /\ Top.stage = 8 /\ frames' # <<>> /\ Top'.stage = 8
      BY <1>a, <1>4, <2>2, StageFact DEF HookClears, ReplyRejected
    <3>2. Len(frames) \in Nat \ {0} /\ Top = frames[Len(frames)] /\ Under \in {0, 5, 7, 8}
      BY <1>a, <3>1, TopFact DEF Generators
    <3>3. CASE forced
      <4>1. forced' = forced \/ forced'
        BY <2>2 DEF HookClears, ReplyRejected, StopEvent
      <4> QED BY <1>b, <2>1, <3>3, <4>1
    <3>4. CASE ~forced
      <4>1. Under \in {0, 5}
        BY <1>a, <1>c, <3>1, <3>2, <3>4 DEF ReplyInv
      <4>2. \A i \in 1..Len(frames) : frames[i].stage # 7
        <5> SUFFICES ASSUME NEW i \in 1..Len(frames), frames[i].stage = 7 PROVE FALSE
          OBVIOUS
        <5>1. i # Len(frames)
          BY <3>1, <3>2
        <5>2. /\ Len(frames) > 1 /\ Len(frames) - 1 \in 1..Len(frames) - 1
              /\ frames[Len(frames) - 1].stage = Under
          BY <3>2, <5>1 DEF Under
        <5>3. Under = 5
          <6>1. frames[Len(frames) - 1].stage \in Generators
            BY <1>a, <5>2 DEF FramesOK, StackInv
          <6> QED BY <4>1, <5>2, <6>1 DEF Generators
        <5>4. i # Len(frames) - 1
          BY <5>2, <5>3
        <5> DEFINE k == Len(frames) - 2
        <5>5. k \in 1..Len(frames) - 1 /\ k + 1 = Len(frames) - 1
          BY <3>2, <5>1, <5>4
        <5> HIDE DEF k
        <5>6. frames[k].stage \in {5, 7, 8} /\ frames[k].stage < frames[k + 1].stage
          BY <1>a, <5>5 DEF FramesOK, StackInv, Generators
        <5>7. frames[k + 1].stage = 5
          BY <5>2, <5>3, <5>5
        <5> QED BY <5>6, <5>7
      <4>3. \A i \in 1..Len(frames') : frames'[i].stage # 7
        BY <1>a, <3>1, <4>2, StagesFact, MovesStep
      <4> QED BY <2>1, <3>1, <4>3 DEF Past, Halted
    <3> QED BY <3>3, <3>4
  <2>3. CASE ~(HookClears \/ ReplyRejected)
    BY <1>4, <1>b, <2>1, <2>3 DEF AfterProcess, DecorateStart, RejectionResumed,
       DecorateEnd, RespondStart, RespondSkips, RespondSends, RespondStreams, RespondBare,
       Unchanged, StopEvent
  <2> QED BY <2>2, <2>3
<1> QED BY <1>1, <1>2, <1>3, <1>4 DEF Next

\* Once a message was stopped no plugin handler and no LLM run is begun for it, though
\* a decorating hook clears the result that carried the stop, and whatever brings the
\* pipeline back to ProcessStage (scheduler.py:46, star_request.py:46).
THEOREM StoppedStartsNothing == Spec => StopIsFinal
<1>1. Spec => [](Inv /\ StopInv)
  <2>1. Init => StopInv
    BY NoResultFact DEF Init, StopInv
  <2>2. Inv /\ StopInv /\ [Next]_vars => StopInv'
    BY StopStep
  <2> QED BY <2>1, <2>2, Invariance, PTL DEF Spec
<1>2. ASSUME NEW CONSTANT n
      PROVE  Spec => [](IsStopped /\ Begun = n => [](Begun = n))
  <2>1. IsStopped /\ Begun = n => Halted /\ Begun = n
    BY DEF Halted
  <2>2. Inv /\ StopInv /\ Halted /\ Begun = n /\ [Next]_vars => (Halted /\ Begun = n)'
    <3> SUFFICES ASSUME Inv, StopInv, Halted, Begun = n, [Next]_vars PROVE Halted' /\ Begun' = n
      OBVIOUS
    <3>1. CASE frames = <<>>
      <4>1. frames' = <<>> /\ UNCHANGED <<runs, asked>>
        BY <3>1, BeforeMoves, ProcessMoves, AfterMoves DEF Next, Over, vars, plugin, Scheduler,
           Descend, BreakOut, Resume, Finish, Stop, Raise, Awaiting
      <4> QED BY <4>1 DEF Halted, Begun
    <3>2. CASE frames # <<>>
      <4>1. Halted' /\ UNCHANGED <<runs, asked>>
        BY <3>2, PastStep, StoppedStep DEF Halted
      <4> QED BY <4>1 DEF Begun
    <3> QED BY <3>1, <3>2
  <2> QED BY <1>1, <2>1, <2>2, PTL DEF Spec
<1> QED BY <1>2 DEF StopIsFinal
=============================================================================
