------------------------------ MODULE Contexts ------------------------------
(***************************************************************************)
(* What happens to the messages of a conversation before they are sent to  *)
(* a model: truncation by turns, compression, and the repair of tool calls *)
(* and their results. Messages are told apart by role and by the ids of    *)
(* tool calls; their text is left out.                                     *)
(***************************************************************************)
EXTENDS Integers, Sequences, FiniteSets, SequencesExt

\* A user message has a name in `id`, a tool message the id of its call.
Message(role, calls, id) == [role |-> role, calls |-> calls, id |-> id]
System == Message("system", {}, 0)
User(n) == Message("user", {}, n)
Assistant(calls) == Message("assistant", calls, 0)
Tool(call) == Message("tool", {}, call)

Summary == User(0)

HasToolCalls(m) == m.role = "assistant" /\ m.calls # {}

FirstUser(ms) == SelectInSeq(ms, LAMBDA m : m.role = "user")

DropFirst(ms, n) == SubSeq(ms, n + 1, Len(ms))

----------------------------------------------------------------------------
(* ContextTruncator                                                        *)

\* _split_system_rest: how many system messages lead. A list of nothing else
\* counts as having none.
Leading(ms) ==
    LET i == SelectInSeq(ms, LAMBDA m : m.role # "system")
    IN IF i = 0 THEN 0 ELSE i - 1

SystemOf(ms) == SubSeq(ms, 1, Leading(ms))
RestOf(ms) == DropFirst(ms, Leading(ms))

\* _ensure_user_message: the first user message of all, not the last one.
EnsureUserMessage(kept, ms) ==
    IF FirstUser(ms) = 0 \/ (kept # <<>> /\ kept[1].role = "user")
    THEN SystemOf(ms) \o kept
    ELSE SystemOf(ms) \o <<ms[FirstUser(ms)]>> \o kept

\* fix_messages: an assistant's tool calls stay only with the results that follow
\* them, and results only with the calls they follow.
Flush(a) == IF Len(a.chain) > 1 THEN a.fixed \o a.chain ELSE a.fixed

FixOne(a, m) ==
    IF m.role = "tool"
    THEN IF a.chain = <<>> THEN a ELSE [a EXCEPT !.chain = Append(@, m)]
    ELSE IF HasToolCalls(m)
    THEN [fixed |-> Flush(a), chain |-> <<m>>]
    ELSE [fixed |-> Append(Flush(a), m), chain |-> <<>>]

FixMessages(ms) == Flush(FoldLeft(FixOne, [fixed |-> <<>>, chain |-> <<>>], ms))

FromFirstUser(ms) == IF FirstUser(ms) = 0 THEN ms ELSE DropFirst(ms, FirstUser(ms) - 1)

\* Variants ending in "Bug" are slips the properties must notice.
TruncatedUnfixedBug(kept, ms) == EnsureUserMessage(FromFirstUser(kept), ms)

\* What all three truncations do with the messages they keep.
Truncated(kept, ms) == FixMessages(EnsureUserMessage(FromFirstUser(kept), ms))

TruncateByTurns(ms, keep, drop) ==
    LET rest == RestOf(ms)
        kept == 2 * (keep - drop + 1)
    IN IF keep = -1 \/ Len(rest) \div 2 <= keep THEN ms
       ELSE IF kept <= 0 THEN Truncated(<<>>, ms)
       ELSE IF kept >= Len(rest) THEN Truncated(rest, ms)
       ELSE Truncated(DropFirst(rest, Len(rest) - kept), ms)

DropOldestTurns(ms, drop) ==
    LET rest == RestOf(ms)
    IN IF drop <= 0 THEN ms
       ELSE IF Len(rest) \div 2 <= drop THEN Truncated(<<>>, ms)
       ELSE Truncated(DropFirst(rest, 2 * drop), ms)

Halve(ms) ==
    LET half == Len(RestOf(ms)) \div 2
    IN IF Len(ms) <= 2 \/ half = 0 THEN ms ELSE Truncated(DropFirst(RestOf(ms), half), ms)

----------------------------------------------------------------------------
(* LLMSummaryCompressor                                                    *)

\* split_into_rounds: a round begins with a user message.
IntoRounds(rounds, m) ==
    IF rounds = <<>> \/ m.role = "user"
    THEN Append(rounds, <<m>>)
    ELSE [rounds EXCEPT ![Len(rounds)] = Append(@, m)]

Rounds(ms) == FoldLeft(IntoRounds, <<>>, ms)

EndsWithUser(ms) == ms # <<>> /\ ms[Len(ms)].role = "user"

\* How many rounds at the end stay as they are, if the budget of tokens is enough
\* for `recent` of them. The last request stays even if none does.
RecentRounds(ms, recent) ==
    IF recent = 0 /\ EndsWithUser(ms) THEN 1 ELSE recent

OnlySystem(ms) == \A i \in DOMAIN ms : ms[i].role = "system"

\* The messages before and after a summary was made of all but recent rounds;
\* if nothing but these is left to summarise, and a request is not pending, the
\* summary is of everything.
Summarised(ms, recent) ==
    LET rounds == Rounds(ms)
        old == Len(rounds) - RecentRounds(ms, recent)
        nothing == OnlySystem(FlattenSeq(SubSeq(rounds, 1, old)))
        kept == IF nothing THEN <<>> ELSE FlattenSeq(DropFirst(rounds, old))
    IN IF OnlySystem(ms) \/ (nothing /\ EndsWithUser(ms)) THEN ms
       ELSE SystemOf(ms) \o <<Summary, Assistant({})>> \o kept

----------------------------------------------------------------------------
(* ProviderOpenAIOfficial._sanitize_assistant_messages                     *)

SanitizeKeepingOpenBug(a, m) ==
    IF m.role = "tool"
    THEN IF m.id \in a.open
         THEN [a EXCEPT !.sent = Append(@, m)]
         ELSE a
    ELSE [sent |-> Append(a.sent, m), open |-> m.calls]

\* A tool message passes if it answers a call that is still open.
SanitizeOne(a, m) ==
    IF m.role = "tool"
    THEN IF m.id \in a.open
         THEN [sent |-> Append(a.sent, m), open |-> a.open \ {m.id}]
         ELSE a
    ELSE [sent |-> Append(a.sent, m), open |-> m.calls]

Sanitize(ms) == FoldLeft(SanitizeOne, [sent |-> <<>>, open |-> {}], ms).sent
=============================================================================
