--------------------------- MODULE ToClaudeProofs ---------------------------
(* The types of ToClaude, and for answers of any length with any number of    *)
(* tools: its clients refuse nothing but what follows from one of the lapses  *)
(* RefusedOnlyAfterLapse lists, the stop reasons they are told are true, and  *)
(* an answer that has come to its end without a lapse is told to its end.     *)
EXTENDS ToClaude, TLAPS

Pair(r) == r.c \in ClientType /\ r.p \in ParamsType
PairO(r) == r.c \in ClientType /\ r.o \in OpenAIType

\* The events keep the type of the client.
LEMMA EventTypes ==
    ASSUME NEW c \in ClientType
    PROVE  /\ MessageStart(c) \in ClientType /\ MessageStop(c) \in ClientType
           /\ \A i \in Nat : BlockStop(c, i) \in ClientType
           /\ \A i \in Nat, type \in BlockTypes : /\ BlockStart(c, i, type) \in ClientType
                                                  /\ BlockDelta(c, i, type) \in ClientType
           /\ \A why \in {"none", "tool_use", "end_turn"} : MessageDelta(c, why) \in ClientType
<1>1. [c EXCEPT !.ok = FALSE] \in ClientType
  BY DEF ClientType
<1>2. MessageStart(c) \in ClientType /\ MessageStop(c) \in ClientType
  BY <1>1 DEF MessageStart, MessageStop, Accept, ClientType
<1>3. ASSUME NEW i \in Nat, NEW type \in BlockTypes PROVE BlockStart(c, i, type) \in ClientType
  <2>1. /\ c.open \cup {<<i, type>>} \in SUBSET (Nat \X BlockTypes)
        /\ c.count + 1 \in Nat /\ c.used + 1 \in Nat /\ c.used \in Nat
    BY DEF ClientType
  <2> QED
    BY <1>1, <2>1 DEF BlockStart, Accept, ClientType
<1>4. ASSUME NEW i \in Nat, NEW type \in BlockTypes PROVE BlockDelta(c, i, type) \in ClientType
  BY <1>1 DEF BlockDelta, Accept
<1>5. ASSUME NEW i \in Nat PROVE BlockStop(c, i) \in ClientType
  BY <1>1 DEF BlockStop, Accept, ClientType
<1>6. ASSUME NEW why \in {"none", "tool_use", "end_turn"} PROVE MessageDelta(c, why) \in ClientType
  BY <1>1 DEF MessageDelta, Accept, ClientType
<1> QED
  BY <1>2, <1>3, <1>4, <1>5, <1>6

\* So do the operations of the Gemini translators.
LEMMA TurnType ==
    ASSUME NEW c \in ClientType, NEW p \in ParamsType, NEW type \in BlockTypes
    PROVE  Pair(Turn(c, p, type)) /\ Pair(Continue(c, p, type))
<1> DEFINE i  == IF p.type # "none" THEN p.index + 1 ELSE p.index
           c1 == When(p.type # "none", c, BlockStop(c, p.index))
<1>1. p.index \in Nat /\ i \in Nat
  BY DEF ParamsType
<1>2. c1 \in ClientType
  BY <1>1, EventTypes DEF When
<1>3. BlockDelta(BlockStart(c1, i, type), i, type) \in ClientType
  BY <1>1, <1>2, EventTypes
<1>4. [p EXCEPT !.type = type, !.index = i, !.content = TRUE] \in ParamsType
  BY <1>1 DEF ParamsType
<1>5. Pair(Turn(c, p, type))
  BY <1>3, <1>4 DEF Turn, Pair
<1>6. BlockDelta(c, p.index, type) \in ClientType /\ [p EXCEPT !.content = TRUE] \in ParamsType
  BY <1>1, EventTypes DEF ParamsType
<1> QED
  BY <1>5, <1>6 DEF Continue, Pair

LEMMA PartType ==
    ASSUME NEW c \in ClientType, NEW p \in ParamsType, NEW part \in Parts,
           NEW finish \in BOOLEAN
    PROVE  Pair(Part(c, p, part, finish))
<1>1. p.index \in Nat /\ p.index + 1 \in Nat
  BY DEF ParamsType
<1>2. /\ [p EXCEPT !.content = TRUE] \in ParamsType
      /\ [p EXCEPT !.index = @ + 1] \in ParamsType
      /\ [p EXCEPT !.tool = translator = "antigravity" \/ @] \in ParamsType
  BY <1>1 DEF ParamsType
<1>3. Pair([c |-> c, p |-> p])
  BY DEF Pair
<1>4. Pair(EmptyText(c, p, finish))
  <2>1. Pair([c |-> BlockDelta(c, p.index, "text"), p |-> [p EXCEPT !.content = TRUE]])
    BY <1>1, <1>2, EventTypes DEF Pair, BlockTypes
  <2>2. Pair([c |-> BlockStop(c, p.index), p |-> [p EXCEPT !.index = @ + 1]])
    BY <1>1, <1>2, EventTypes DEF Pair
  <2> QED
    BY <1>3, <2>1, <2>2 DEF EmptyText
<1>5. ASSUME NEW named \in BOOLEAN PROVE Pair(Call(c, p, named))
  <2>1. Pair([c |-> BlockDelta(c, p.index, "tool_use"), p |-> p])
    BY <1>1, EventTypes DEF Pair, BlockTypes
  <2>2. Pair(Turn(c, [p EXCEPT !.tool = translator = "antigravity" \/ @], "tool_use"))
    BY <1>2, TurnType DEF BlockTypes
  <2> QED
    BY <2>1, <2>2 DEF Call
<1>6. Pair([c |-> BlockDelta(c, p.index, "thinking"), p |-> [p EXCEPT !.content = TRUE]])
  BY <1>1, <1>2, EventTypes DEF Pair, BlockTypes
<1>7. Pair(Continue(c, p, "text")) /\ Pair(Continue(c, p, "thinking"))
  BY TurnType DEF BlockTypes
<1> QED
  BY <1>3, <1>4, <1>5, <1>6, <1>7 DEF Part, Parts

LEMMA FinalType ==
    ASSUME NEW c \in ClientType, NEW p \in ParamsType, NEW force \in BOOLEAN
    PROVE  Pair(FinalEvents(c, p, force))
<1>1. When(p.type # "none", c, BlockStop(c, p.index)) \in ClientType
  BY EventTypes DEF When, ParamsType
<1>2. MessageDelta(When(p.type # "none", c, BlockStop(c, p.index)), Reason(p.tool)) \in ClientType
  BY <1>1, EventTypes DEF Reason
<1>3. [p EXCEPT !.type = "none", !.final = TRUE] \in ParamsType
  BY DEF ParamsType
<1> QED
  BY <1>2, <1>3 DEF FinalEvents, Pair

LEMMA GeminiTypes ==
    ASSUME ClaudeTypeOK, NEW part \in Parts, NEW finish \in BOOLEAN, NEW usage,
           GeminiChunk(part, finish, usage) \/ GeminiDone
    PROVE  client' \in ClientType /\ params' \in ParamsType
<1> USE DEF ClaudeTypeOK
<1>1. CASE GeminiChunk(part, finish, usage)
  <2> DEFINE c0 == Greet(client, params)
             p0 == [params EXCEPT !.first = TRUE]
             a  == Part(c0, p0, part, finish)
             b  == IF translator = "antigravity" THEN EndWhenBoth(a.c, a.p, finish, usage)
                   ELSE EndInChunk(a.c, a.p, part, finish, usage)
  <2>1. c0 \in ClientType /\ p0 \in ParamsType
    BY EventTypes DEF Greet, When, ParamsType
  <2>2. Pair(a)
    BY <2>1, PartType
  <2> HIDE DEF a
  <2>3. Pair(EndInChunk(a.c, a.p, part, finish, usage))
    <3>1. a.p.index \in Nat /\ Reason(part \in {"call", "more args"}) \in {"none", "tool_use", "end_turn"}
      BY <2>2 DEF Pair, ParamsType, Reason
    <3>2. MessageDelta(BlockStop(a.c, a.p.index), Reason(part \in {"call", "more args"})) \in ClientType
      BY <2>2, <3>1, EventTypes DEF Pair
    <3> QED
      BY <2>2, <3>2 DEF Pair, EndInChunk, When
  <2>4. Pair(EndWhenBoth(a.c, a.p, finish, usage))
    <3> DEFINE q == [a.p EXCEPT !.finish = @ \/ finish, !.usage = @ \/ usage # "none"]
    <3>1. q \in ParamsType
      BY <2>2 DEF Pair, ParamsType
    <3>2. Pair(FinalEvents(a.c, q, FALSE))
      BY <2>2, <3>1, FinalType DEF Pair
    <3> QED
      BY <2>2, <3>1, <3>2 DEF Pair, EndWhenBoth
  <2>5. Pair(b)
    BY <2>3, <2>4
  <2>6. client' = b.c /\ params' = b.p
    BY <1>1 DEF GeminiChunk, a
  <2> QED
    BY <2>5, <2>6 DEF Pair
<1>2. CASE GeminiDone
  <2>1. Pair(FinalEvents(client, params, TRUE))
    BY FinalType
  <2>2. MessageStop(FinalEvents(client, params, TRUE).c) \in ClientType /\ MessageStop(client) \in ClientType
    BY <2>1, EventTypes DEF Pair
  <2> QED
    BY <1>2, <2>1, <2>2 DEF GeminiDone, Pair, When
<1> QED
  BY <1>1, <1>2
-----------------------------------------------------------------------------
\* So do those of the OpenAI translator.
LEMMA StopTypes ==
    ASSUME NEW c \in ClientType, NEW o \in OpenAIType
    PROVE  /\ PairO(StopText(c, o)) /\ PairO(StopThinking(c, o)) /\ PairO(StopBoth(c, o))
           /\ PairO(StopTools(c, o)) /\ PairO(StopOnce(c, o))
<1>1. ASSUME NEW d \in ClientType, NEW q \in OpenAIType PROVE PairO(StopText(d, q))
  <2>1. When(q.text # NoBlock, d, BlockStop(d, q.text)) \in ClientType
    BY EventTypes DEF When, OpenAIType
  <2>2. [q EXCEPT !.text = NoBlock] \in OpenAIType
    BY DEF OpenAIType
  <2> QED
    BY <2>1, <2>2 DEF StopText, PairO
<1>2. PairO(StopThinking(c, o))
  <2>1. When(o.thinking # NoBlock, c, BlockStop(c, o.thinking)) \in ClientType
    BY EventTypes DEF When, OpenAIType
  <2>2. [o EXCEPT !.thinking = NoBlock] \in OpenAIType
    BY DEF OpenAIType
  <2> QED
    BY <2>1, <2>2 DEF StopThinking, PairO
<1>3. PairO(StopBoth(c, o))
  BY <1>1, <1>2 DEF StopBoth, PairO
<1>4. PairO(StopTools(c, o))
  <2> DEFINE blocks == {<<o.tools[i].index, "tool_use">> :
                           i \in {i \in ToolIndexes : o.tools[i].index # NoBlock}}
             none == [i \in ToolIndexes |-> [o.tools[i] EXCEPT !.index = NoBlock]]
  <2>1. /\ [c EXCEPT !.ok = FALSE] \in ClientType
        /\ [c EXCEPT !.open = @ \ blocks] \in ClientType
    BY DEF ClientType
  <2>2. \A i \in ToolIndexes : [o.tools[i] EXCEPT !.index = NoBlock] \in ToolType
    BY DEF OpenAIType, ToolType
  <2>3. none \in [ToolIndexes -> ToolType]
    BY <2>2
  <2>4. [o EXCEPT !.stopped = TRUE, !.tools = none] \in OpenAIType
    BY <2>3 DEF OpenAIType
  <2> QED
    BY <2>1, <2>4 DEF StopTools, Accept, PairO
<1>5. PairO(StopOnce(c, o))
  BY EventTypes DEF StopOnce, When, PairO, OpenAIType
<1> QED
  BY <1>1, <1>2, <1>3, <1>4, <1>5

LEMMA BlockTypesOfOpenAI ==
    ASSUME NEW c \in ClientType, NEW o \in OpenAIType
    PROVE  PairO(Reasoning(c, o)) /\ PairO(Content(c, o))
<1>1. o.next \in Nat /\ o.next + 1 \in Nat
  BY DEF OpenAIType
<1>2. ASSUME NEW d \in ClientType, NEW i \in Nat, NEW type \in BlockTypes
      PROVE  BlockDelta(d, i, type) \in ClientType /\ BlockStart(d, i, type) \in ClientType
  BY EventTypes
<1>3. PairO(Reasoning(c, o))
  <2> DEFINE a == StopText(c, o)
  <2>1. PairO(a)
    BY StopTypes
  <2> HIDE DEF a
  <2>2. o.thinking # NoBlock => PairO([a EXCEPT !.c = BlockDelta(@, o.thinking, "thinking")])
    <3>1. a = [c |-> a.c, o |-> a.o]
      BY DEF a, StopText
    <3>2. o.thinking # NoBlock => BlockDelta(a.c, o.thinking, "thinking") \in ClientType
      BY <1>2, <2>1 DEF PairO, OpenAIType, BlockTypes
    <3> QED
      BY <2>1, <3>1, <3>2 DEF PairO
  <2>3. BlockDelta(BlockStart(a.c, o.next, "thinking"), o.next, "thinking") \in ClientType
    BY <1>1, <1>2, <2>1 DEF PairO, BlockTypes
  <2>5. a.o \in OpenAIType /\ a.o.next + 1 \in Nat
    BY <2>1 DEF PairO, OpenAIType
  <2>4. [a.o EXCEPT !.thinking = o.next, !.next = @ + 1] \in OpenAIType
    BY <1>1, <2>5 DEF OpenAIType
  <2> QED
    BY <2>2, <2>3, <2>4 DEF Reasoning, PairO, a
<1>4. PairO(Content(c, o))
  <2> DEFINE a == StopThinking(c, o)
  <2>1. PairO(a)
    BY StopTypes
  <2> HIDE DEF a
  <2>2. o.text # NoBlock => BlockDelta(c, o.text, "text") \in ClientType
    BY <1>2 DEF OpenAIType, BlockTypes
  <2>3. BlockDelta(BlockStart(a.c, o.next, "text"), o.next, "text") \in ClientType
    BY <1>1, <1>2, <2>1 DEF PairO, BlockTypes
  <2>5. a.o \in OpenAIType /\ a.o.next + 1 \in Nat
    BY <2>1 DEF PairO, OpenAIType
  <2>4. [a.o EXCEPT !.text = o.next, !.next = @ + 1] \in OpenAIType
    BY <1>1, <2>5 DEF OpenAIType
  <2> QED
    BY <2>2, <2>3, <2>4 DEF Content, PairO, a
<1> QED
  BY <1>3, <1>4

LEMMA AllotType ==
    ASSUME NEW o \in OpenAIType, NEW i \in ToolIndexes
    PROVE  /\ Allot(o, i) \in OpenAIType
           /\ Allot(o, i).tools[i].index \in Nat
           /\ [Allot(o, i) EXCEPT !.tools[i].args = TRUE] \in OpenAIType
<1> DEFINE q == Allot(o, i)
<1>1. /\ o.tools \in [ToolIndexes -> ToolType] /\ o.tools[i] \in ToolType
      /\ o.next \in Nat /\ o.next + 1 \in Nat
  BY DEF OpenAIType
<1>2. [o.tools[i] EXCEPT !.index = o.next] \in ToolType
  BY <1>1 DEF ToolType
<1>5. ASSUME NEW r \in OpenAIType PROVE [r EXCEPT !.tools[i].args = TRUE] \in OpenAIType
  <2>1. r.tools \in [ToolIndexes -> ToolType] /\ r.tools[i] \in ToolType
    BY DEF OpenAIType
  <2>2. [r.tools[i] EXCEPT !.args = TRUE] \in ToolType
    BY <2>1 DEF ToolType
  <2>3. [r.tools EXCEPT ![i].args = TRUE] \in [ToolIndexes -> ToolType]
    BY <2>1, <2>2
  <2> QED
    BY <2>3 DEF OpenAIType
<1>3. CASE o.tools[i].index # NoBlock
  <2>1. q = o
    BY <1>3 DEF Allot
  <2> QED
    BY <1>1, <1>5, <2>1, <1>3 DEF ToolType
<1>4. CASE o.tools[i].index = NoBlock
  <2> DEFINE t == [o.tools EXCEPT ![i].index = o.next]
  <2>1. q = [o EXCEPT !.tools[i].index = o.next, !.next = @ + 1]
    BY <1>4 DEF Allot
  <2>2. t \in [ToolIndexes -> ToolType] /\ t[i] = [o.tools[i] EXCEPT !.index = o.next]
    BY <1>1, <1>2
  <2>4. q = [o EXCEPT !.tools = t, !.next = o.next + 1]
    BY <2>1, <1>1 DEF OpenAIType
  <2> HIDE DEF t, q
  <2>5. q \in OpenAIType /\ q.tools = t
    BY <1>1, <2>2, <2>4 DEF OpenAIType
  <2>3. q \in OpenAIType /\ q.tools[i].index = o.next
    BY <1>1, <2>2, <2>5 DEF ToolType
  <2> QED
    BY <1>1, <1>5, <2>3 DEF q
<1> QED
  BY <1>3, <1>4

LEMMA ToolCallType ==
    ASSUME NEW c \in ClientType, NEW o \in OpenAIType, NEW i \in ToolIndexes,
           NEW named \in BOOLEAN
    PROVE  PairO(ToolCall(c, o, i, named))
<1> DEFINE b == Allot(o, i)
           a == StopBoth(c, b)
<1>1. /\ b \in OpenAIType /\ b.tools[i].index \in Nat
      /\ [b EXCEPT !.tools[i].args = TRUE] \in OpenAIType
  BY AllotType
<1> HIDE DEF b
<1>2. PairO(a)
  BY <1>1, StopTypes
<1>3. a = [c |-> a.c, o |-> a.o]
  BY DEF StopBoth, StopText
<1> HIDE DEF a
<1>4. BlockStart(a.c, b.tools[i].index, "tool_use") \in ClientType
  BY <1>1, <1>2, EventTypes DEF PairO, BlockTypes
<1>5. PairO([a EXCEPT !.c = BlockStart(@, b.tools[i].index, "tool_use")])
  BY <1>2, <1>3, <1>4 DEF PairO
<1> QED
  BY <1>1, <1>5 DEF ToolCall, PairO, a, b

LEMMA CloseType ==
    ASSUME NEW c \in ClientType, NEW o \in OpenAIType
    PROVE  PairO(CloseBlocks(c, o))
BY StopTypes DEF CloseBlocks, PairO

LEMMA FinishType ==
    ASSUME NEW d, PairO(d), NEW why \in {"none", "tool_use", "end_turn"},
           NEW usage \in BOOLEAN, Finish(d, why, usage)
    PROVE  client' \in ClientType /\ openai' \in OpenAIType
<1> DEFINE q == [d.o EXCEPT !.finish = why]
           f == IF why = "none" THEN d ELSE CloseBlocks(d.c, q)
           r == [f.o EXCEPT !.delta = TRUE]
<1>1. q \in OpenAIType /\ d.c \in ClientType
  BY DEF PairO, OpenAIType
<1>2. PairO(f)
  BY <1>1, CloseType
<1> HIDE DEF f
<1>3. r \in OpenAIType /\ f.o.finish \in {"none", "tool_use", "end_turn"}
  BY <1>2 DEF PairO, OpenAIType
<1>4. MessageDelta(f.c, f.o.finish) \in ClientType
  BY <1>2, <1>3, EventTypes DEF PairO
<1>5. PairO(StopOnce(MessageDelta(f.c, f.o.finish), r))
  BY <1>3, <1>4, StopTypes
<1>6. PairO(Usage(f.c, f.o))
  BY <1>2, <1>5 DEF Usage, PairO
<1> QED
  BY <1>2, <1>6 DEF Finish, PairO, f

LEMMA OpenAIDoneType ==
    ASSUME ClaudeTypeOK, OpenAIDone
    PROVE  client' \in ClientType /\ openai' \in OpenAIType
<1> DEFINE a == CloseBlocks(client, openai)
           tell == a.o.finish # "none" /\ ~a.o.delta
           c1 == When(tell, a.c, MessageDelta(a.c, a.o.finish))
           o1 == [a.o EXCEPT !.delta = @ \/ tell]
<1>1. PairO(a)
  BY CloseType DEF ClaudeTypeOK
<1> HIDE DEF a
<1>2. a.o.finish \in {"none", "tool_use", "end_turn"} /\ o1 \in OpenAIType
  BY <1>1 DEF PairO, OpenAIType
<1>3. c1 \in ClientType
  BY <1>1, <1>2, EventTypes DEF PairO, When
<1>4. PairO(StopOnce(c1, o1))
  BY <1>2, <1>3, StopTypes
<1> QED
  BY <1>4 DEF OpenAIDone, PairO, a

LEMMA StartedType ==
    ASSUME ClaudeTypeOK
    PROVE  PairO(Started(client, openai))
BY EventTypes DEF Started, When, PairO, ClaudeTypeOK, OpenAIType

LEMMA NoteType ==
    ASSUME ClaudeTypeOK, NEW phase \in {"new", "answer", "finished", "over"},
           NEW calls \in Nat, NEW lapses \in SUBSET Lapses, Note(phase, calls, lapses)
    PROVE  upstream' \in UpstreamType
<1>1. /\ upstream \in UpstreamType /\ upstream.calls + calls \in Nat
      /\ upstream.lapses \cup lapses \in SUBSET Lapses
  BY DEF ClaudeTypeOK, UpstreamType
<1> QED
  BY <1>1 DEF Note, UpstreamType

-----------------------------------------------------------------------------
LEMMA TypeStep == ClaudeTypeOK /\ [ClaudeNext]_claudeVars => ClaudeTypeOK'
<1> SUFFICES ASSUME ClaudeTypeOK, [ClaudeNext]_claudeVars PROVE ClaudeTypeOK'
  OBVIOUS
<1>1. ASSUME NEW part \in Parts, NEW finish \in BOOLEAN,
             NEW usage \in {"none", "other", "candidates"}, GeminiSends(part, finish, usage)
      PROVE  ClaudeTypeOK'
  <2>1. client' \in ClientType /\ params' \in ParamsType
    BY <1>1, GeminiTypes DEF GeminiSends
  <2>2. upstream' \in UpstreamType
    BY <1>1, NoteType DEF GeminiSends, PhaseAfter, If, Lapses
  <2> QED
    BY <1>1, <2>1, <2>2 DEF GeminiSends, ClaudeTypeOK
<1>2. CASE GeminiUsage
  <2>1. client' \in ClientType /\ params' \in ParamsType
    BY <1>2, GeminiTypes DEF GeminiUsage, Parts
  <2> QED
    BY <1>2, <2>1 DEF GeminiUsage, ClaudeTypeOK
<1>3. CASE GeminiEnds
  <2>1. client' \in ClientType /\ params' \in ParamsType
    BY <1>3, GeminiTypes DEF GeminiEnds, Parts
  <2>2. upstream' \in UpstreamType
    BY <1>3, NoteType DEF GeminiEnds, If, Lapses
  <2> QED
    BY <1>3, <2>1, <2>2 DEF GeminiEnds, ClaudeTypeOK
<1>4. ASSUME NEW part \in Deltas, NEW finish \in BOOLEAN, NEW usage \in BOOLEAN,
             OpenAISends(part, finish, usage)
      PROVE  ClaudeTypeOK'
  <2> DEFINE s == Started(client, openai)
  <2>1. PairO(s)
    BY StartedType
  <2> HIDE DEF s
  <2>2. PairO(Delta(s.c, s.o, part))
    BY <2>1, BlockTypesOfOpenAI DEF Delta, Deltas, PairO
  <2>3. client' \in ClientType /\ openai' \in OpenAIType
    BY <1>4, <2>2, FinishType DEF OpenAISends, WhyOf, Reason, s
  <2>4. upstream' \in UpstreamType
    BY <1>4, NoteType DEF OpenAISends, PhaseAfter
  <2> QED
    BY <1>4, <2>3, <2>4 DEF OpenAISends, ClaudeTypeOK
<1>5. ASSUME NEW i \in ToolIndexes, NEW named \in BOOLEAN, NEW finish \in BOOLEAN,
             NEW usage \in BOOLEAN, OpenAICalls(i, named, finish, usage)
      PROVE  ClaudeTypeOK'
  <2> DEFINE s == Started(client, openai)
  <2>1. PairO(s)
    BY StartedType
  <2> HIDE DEF s
  <2>2. PairO(ToolCall(s.c, s.o, i, named))
    BY <2>1, ToolCallType DEF PairO
  <2>3. client' \in ClientType /\ openai' \in OpenAIType
    BY <1>5, <2>2, FinishType DEF OpenAICalls, WhyOf, Reason, s
  <2>4. upstream' \in UpstreamType
    BY <1>5, NoteType DEF OpenAICalls, PhaseAfter, If, Lapses
  <2> QED
    BY <1>5, <2>3, <2>4 DEF OpenAICalls, ClaudeTypeOK
<1>6. CASE OpenAIUsage
  <2>1. PairO([c |-> client, o |-> openai])
    BY DEF PairO, ClaudeTypeOK
  <2>2. client' \in ClientType /\ openai' \in OpenAIType
    BY <1>6, <2>1, FinishType DEF OpenAIUsage
  <2>3. upstream' \in UpstreamType
    BY <1>6, NoteType DEF OpenAIUsage, If, Lapses
  <2> QED
    BY <1>6, <2>2, <2>3 DEF OpenAIUsage, ClaudeTypeOK
<1>7. CASE OpenAIEnds
  <2>1. client' \in ClientType /\ openai' \in OpenAIType
    BY <1>7, OpenAIDoneType DEF OpenAIEnds
  <2>2. upstream' \in UpstreamType
    BY <1>7, NoteType DEF OpenAIEnds, If, Lapses
  <2> QED
    BY <1>7, <2>1, <2>2 DEF OpenAIEnds, ClaudeTypeOK
<1>8. CASE OpenAICut
  <2>1. upstream' \in UpstreamType
    BY <1>8, NoteType DEF OpenAICut, If, Lapses
  <2> QED
    BY <1>8, <2>1 DEF OpenAICut, ClaudeTypeOK
<1>9. CASE CodexSends
  <2>1. client' \in ClientType /\ params' \in ParamsType
    BY <1>9, EventTypes DEF CodexSends, CodexCreated, CodexCompleted, Reason, ClaudeTypeOK
  <2>2. upstream' \in UpstreamType
    BY <1>9, NoteType DEF CodexSends, If, Lapses
  <2> QED
    BY <1>9, <2>1, <2>2 DEF CodexSends, ClaudeTypeOK
<1>10. ASSUME NEW type \in BlockTypes, CodexItem(type) PROVE ClaudeTypeOK'
  <2>1. params.index \in Nat /\ params.index + 1 \in Nat
    BY DEF ClaudeTypeOK, ParamsType
  <2>2. params' \in ParamsType
    BY <1>10, <2>1 DEF CodexItem, CodexAdded, CodexDelta, CodexDone, ClaudeTypeOK, ParamsType
  <2>3. client' \in ClientType
    <3>1. CASE CodexAdded(type)
      <4>1. BlockStart(client, params.index, type) \in ClientType
        BY <2>1, EventTypes DEF ClaudeTypeOK
      <4> QED
        BY <2>1, <3>1, <4>1, EventTypes DEF CodexAdded, When
    <3>2. CASE CodexDelta(type) \/ CodexDone
      BY <2>1, <3>2, EventTypes DEF CodexDelta, CodexDone, ClaudeTypeOK
    <3> QED
      BY <1>10, <3>1, <3>2 DEF CodexItem
  <2>4. upstream' \in UpstreamType
    <3>1. upstream \in UpstreamType /\ upstream.calls + 1 \in Nat /\ upstream.calls \in Nat
      BY DEF ClaudeTypeOK, UpstreamType
    <3> QED
      BY <1>10, <3>1 DEF CodexItem, UpstreamType
  <2> QED
    BY <1>10, <2>2, <2>3, <2>4 DEF CodexItem, ClaudeTypeOK
<1>11. CASE UNCHANGED claudeVars
  BY <1>11 DEF claudeVars, ClaudeTypeOK
<1> QED
  BY <1>1, <1>2, <1>3, <1>4, <1>5, <1>6, <1>7, <1>8, <1>9, <1>10, <1>11 DEF ClaudeNext

LEMMA TypeInit == ClaudeInit => ClaudeTypeOK
BY DEF ClaudeInit, ClaudeTypeOK, NewClient, NewParams, NewOpenAI, NewTool, ClientType, ParamsType,
       OpenAIType, ToolType, UpstreamType, NoBlock

\* The client, the parameters of every translator and the upstream keep their types.
THEOREM TypeCorrect == ClaudeSpec => []ClaudeTypeOK
BY TypeInit, TypeStep, PTL DEF ClaudeSpec
-----------------------------------------------------------------------------
(* Without a lapse the client has open what the translator believes it has. *)

Causes == {"empty text", "lone signature", "no tokens", "cut", "name again", "no name", "usage again"}

\* Of the Gemini translators: the block of the parameters, if there is one.
Held(c, p) ==
    /\ c.ok /\ c.message = "open"
    /\ c.open = IF p.type = "none" THEN {} ELSE {<<p.index, p.type>>}
    /\ c.count = IF p.type = "none" THEN p.index ELSE p.index + 1
    /\ p.content = (p.type # "none")
    /\ ~p.final

Ended(c) == c.ok /\ c.message = "told" /\ c.open = {}

Idle == client.ok /\ client.message = "none" /\ client.open = {} /\ client.count = 0

GeminiTracks ==
    /\ Ongoing => /\ ~params.finish
                  /\ IF params.first THEN Held(client, params)
                     ELSE Idle /\ params = NewParams
    /\ upstream.phase = "finished" =>
          IF translator = "antigravity"
          THEN /\ params.first /\ params.finish
               /\ params.final => Ended(client) /\ params.content
               /\ ~params.final => Held(client, params) /\ (params.content => ~params.usage)
          ELSE IF params.content THEN Ended(client) ELSE Held(client, params)

\* Codex has an index, and the upstream an item.
CodexTracks ==
    /\ upstream.phase = "new" => Idle /\ params.index = 0 /\ upstream.item = "none"
    /\ upstream.phase = "answer" =>
          /\ client.ok /\ client.message = "open"
          /\ client.open = IF upstream.item = "none" THEN {} ELSE {<<params.index, upstream.item>>}
          /\ client.count = IF upstream.item = "none" THEN params.index ELSE params.index + 1

\* OpenAI has an index for each of its blocks.
Blocks(o) ==
    {b \in {<<o.text, "text">>, <<o.thinking, "thinking">>} : b[1] # NoBlock}
      \cup {<<o.tools[i].index, "tool_use">> : i \in {i \in ToolIndexes : o.tools[i].index # NoBlock}}

Listed(c, o) ==
    /\ c.ok /\ c.message = "open" /\ c.open = Blocks(o) /\ c.count = o.next
    /\ \A b \in Blocks(o) : b[1] < o.next
    /\ \A b, d \in Blocks(o) : b[1] = d[1] => b = d
    /\ \A i, j \in ToolIndexes : o.tools[i].index = o.tools[j].index /\ o.tools[i].index # NoBlock => i = j

Running(o) == o.finish = "none" /\ ~o.stopped /\ ~o.delta /\ ~o.stop

Finished(c, o) ==
    /\ c.ok /\ c.open = {} /\ o.finish # "none"
    /\ o.stopped /\ o.text = NoBlock /\ o.thinking = NoBlock
    /\ IF o.delta THEN o.stop /\ c.message = "stopped" ELSE ~o.stop /\ c.message = "open"

OpenAITracks ==
    /\ Ongoing => /\ Running(openai)
                  /\ IF openai.started THEN Listed(client, openai)
                     ELSE Idle /\ openai = NewOpenAI
    /\ upstream.phase = "finished" => Finished(client, openai)

Tracks ==
    upstream.lapses \cap Causes = {} =>
       /\ client.ok
       /\ translator \in GeminiKinds => GeminiTracks
       /\ translator = "codex" => CodexTracks
       /\ translator = "openai" => OpenAITracks

IInv == ClaudeTypeOK /\ Tracks

Same(q, p) == q.first = p.first /\ q.finish = p.finish /\ q.usage = p.usage

\* A block is closed and the next one opened in its place.
LEMMA TurnHeld ==
    ASSUME NEW c \in ClientType, NEW p \in ParamsType, NEW type \in BlockTypes, Held(c, p)
    PROVE  LET r == Turn(c, p, type) IN
           Held(r.c, r.p) /\ r.p.type = type /\ Same(r.p, p)
<1> DEFINE i  == IF p.type # "none" THEN p.index + 1 ELSE p.index
           c1 == When(p.type # "none", c, BlockStop(c, p.index))
           c2 == BlockStart(c1, i, type)
           q  == [p EXCEPT !.type = type, !.index = i, !.content = TRUE]
<1>1. p.index \in Nat /\ i \in Nat /\ p.type \in {"none"} \cup BlockTypes
  BY DEF ParamsType
<1>2. c1.ok /\ c1.message = "open" /\ c1.open = {} /\ c1.count = i /\ c1 \in ClientType
  <2>1. CASE p.type = "none"
    BY <1>1, <2>1 DEF Held, When
  <2>2. CASE p.type # "none"
    <3>1. c1 = BlockStop(c, p.index) /\ c.open = {<<p.index, p.type>>}
      BY <2>2 DEF When, Held
    <3>2. c1 = [c EXCEPT !.open = {b \in @ : b[1] # p.index}]
      BY <1>1, <2>2, <3>1 DEF BlockStop, Accept, Held
    <3>3. {b \in c.open : b[1] # p.index} = {}
      BY <3>1
    <3> QED
      BY <1>1, <2>2, <3>2, <3>3 DEF Held, ClientType
  <2> QED
    BY <2>1, <2>2
<1> HIDE DEF c1, i
<1>3. /\ c2.ok /\ c2.message = "open" /\ c2.open = {<<i, type>>} /\ c2.count = i + 1
      /\ BlockDelta(c2, i, type) = c2
  <2>1. c2 = [c1 EXCEPT !.open = @ \cup {<<i, type>>}, !.count = @ + 1,
                        !.used = IF type = "tool_use" THEN @ + 1 ELSE @]
    BY <1>2 DEF BlockStart, Accept
  <2>2. c2.ok /\ c2.message = "open" /\ c2.open = {<<i, type>>} /\ c2.count = i + 1
    BY <1>2, <2>1 DEF ClientType
  <2> QED
    BY <2>2 DEF BlockDelta, Accept
<1>4. Turn(c, p, type) = [c |-> c2, p |-> q]
  BY <1>3 DEF Turn, c1, i
<1>5. q.type = type /\ q.index = i /\ q.content = TRUE /\ q.final = p.final /\ Same(q, p)
  BY DEF ParamsType, Same
<1>6. type # "none"
  BY DEF BlockTypes
<1> HIDE DEF c2, q
<1>7. q.content = (q.type # "none")
  BY <1>5, <1>6
<1>8. ~q.final
  BY <1>5 DEF Held
<1>9. Held(c2, q)
  BY <1>3, <1>5, <1>6, <1>7, <1>8 DEF Held
<1> QED
  BY <1>4, <1>5, <1>9

\* A part that continues the open block leaves it open.
LEMMA MoreHeld ==
    ASSUME NEW c \in ClientType, NEW p \in ParamsType, NEW type \in BlockTypes, Held(c, p),
           p.type = type
    PROVE  /\ BlockDelta(c, p.index, type) = c
           /\ Held(c, [p EXCEPT !.content = TRUE])
           /\ Same([p EXCEPT !.content = TRUE], p)
<1>1. type # "none" /\ <<p.index, type>> \in c.open
  BY DEF Held, BlockTypes
<1>2. BlockDelta(c, p.index, type) = c
  BY <1>1 DEF Held, BlockDelta, Accept
<1> QED
  BY <1>1, <1>2 DEF Held, Same, ParamsType

LEMMA ContinueHeld ==
    ASSUME NEW c \in ClientType, NEW p \in ParamsType, NEW type \in BlockTypes, Held(c, p)
    PROVE  LET r == Continue(c, p, type) IN Held(r.c, r.p) /\ Same(r.p, p)
BY TurnHeld, MoreHeld DEF Continue

LEMMA PartHeld ==
    ASSUME NEW c \in ClientType, NEW p \in ParamsType, NEW part \in Parts,
           NEW finish \in BOOLEAN, Held(c, p),
           ~(translator = "antigravity" /\ part = "signature" /\ p.type # "thinking"),
           ~(translator = "antigravity" /\ part = "empty" /\ ~finish
               /\ p.type \in {"thinking", "tool_use"})
    PROVE  LET r == Part(c, p, part, finish) IN Held(r.c, r.p) /\ Same(r.p, p)
<1>1. {"text", "thinking", "tool_use"} = BlockTypes /\ p.type \in {"none"} \cup BlockTypes
  BY DEF BlockTypes, ParamsType
<1>2. /\ LET r == Continue(c, p, "text") IN Held(r.c, r.p) /\ Same(r.p, p)
      /\ LET r == Continue(c, p, "thinking") IN Held(r.c, r.p) /\ Same(r.p, p)
  BY <1>1, ContinueHeld
<1>3. Same(p, p)
  BY DEF Same
<1>4. CASE part \in {"none", "text", "thought"}
  BY <1>2, <1>3, <1>4 DEF Part
<1>5. CASE part = "empty"
  <2>1. CASE translator # "antigravity"
    BY <1>2, <1>5, <2>1 DEF Part
  <2>2. CASE translator = "antigravity" /\ (finish \/ p.type = "none")
    BY <1>3, <1>5, <2>2 DEF Part, EmptyText
  <2>3. CASE translator = "antigravity" /\ ~finish /\ p.type = "text"
    <3>1. /\ BlockDelta(c, p.index, "text") = c /\ Held(c, [p EXCEPT !.content = TRUE])
          /\ Same([p EXCEPT !.content = TRUE], p)
      BY <1>1, <2>3, MoreHeld
    <3>2. Part(c, p, part, finish) = [c |-> c, p |-> [p EXCEPT !.content = TRUE]]
      BY <1>5, <2>3, <3>1 DEF Part, EmptyText
    <3> QED
      BY <3>1, <3>2
  <2> QED
    BY <1>1, <1>5, <2>1, <2>2, <2>3
<1>6. CASE part = "signature"
  <2>1. translator = "antigravity" =>
           /\ BlockDelta(c, p.index, "thinking") = c /\ Held(c, [p EXCEPT !.content = TRUE])
           /\ Same([p EXCEPT !.content = TRUE], p)
    BY <1>1, <1>6, MoreHeld
  <2> QED
    BY <1>2, <1>6, <2>1 DEF Part
<1>7. ASSUME NEW named \in BOOLEAN
      PROVE  LET r == Call(c, p, named) IN Held(r.c, r.p) /\ Same(r.p, p)
  <2> DEFINE q == [p EXCEPT !.tool = translator = "antigravity" \/ @]
  <2>1. q \in ParamsType /\ Held(c, q) /\ Same(q, p)
    BY DEF ParamsType, Held, Same
  <2> HIDE DEF q
  <2>2. LET r == Turn(c, q, "tool_use") IN Held(r.c, r.p) /\ Same(r.p, p)
    BY <1>1, <2>1, TurnHeld DEF Same
  <2>3. p.type = "tool_use" => BlockDelta(c, p.index, "tool_use") = c
    BY <1>1, MoreHeld
  <2> QED
    BY <1>3, <2>2, <2>3 DEF Call, q
<1> QED
  BY <1>4, <1>5, <1>6, <1>7 DEF Parts, Part

\* The last events close the block that is open and tell the end.
LEMMA EndHeld ==
    ASSUME NEW c \in ClientType, NEW p \in ParamsType, Held(c, p), NEW why
    PROVE  /\ p.content => Ended(MessageDelta(BlockStop(c, p.index), why))
           /\ ~p.content => p.type = "none"
<1>1. ~p.content => p.type = "none"
  BY DEF Held
<1>2. ASSUME p.content PROVE Ended(MessageDelta(BlockStop(c, p.index), why))
  <2> DEFINE d == BlockStop(c, p.index)
  <2>1. p.type \in BlockTypes /\ c.open = {<<p.index, p.type>>}
    BY <1>2 DEF Held, ParamsType
  <2>2. d = [c EXCEPT !.open = {b \in @ : b[1] # p.index}]
    BY <2>1 DEF BlockStop, Accept, Held
  <2>3. {b \in c.open : b[1] # p.index} = {}
    BY <2>1
  <2>4. d.ok /\ d.message = "open" /\ d.open = {} /\ d \in ClientType
    BY <2>2, <2>3 DEF Held, ClientType
  <2> HIDE DEF d
  <2>5. MessageDelta(d, why) = [d EXCEPT !.message = "told", !.reason = why]
    BY <2>4 DEF MessageDelta, Accept
  <2> QED
    BY <2>4, <2>5 DEF Ended, ClientType, d
<1> QED
  BY <1>1, <1>2

LEMMA NoLapse ==
    ASSUME NEW phase, NEW calls, NEW lapses, Note(phase, calls, lapses), ClaudeTypeOK,
           upstream'.lapses \cap Causes = {}
    PROVE  /\ upstream.lapses \cap Causes = {} /\ lapses \cap Causes = {}
           /\ upstream'.phase = phase
BY DEF Note, ClaudeTypeOK, UpstreamType

\* The first chunk greets the client, and a later one finds it greeted.
LEMMA GreetHeld ==
    ASSUME ClaudeTypeOK,
           IF params.first THEN Held(client, params) ELSE Idle /\ params = NewParams
    PROVE  /\ Greet(client, params) \in ClientType
           /\ [params EXCEPT !.first = TRUE] \in ParamsType
           /\ Held(Greet(client, params), [params EXCEPT !.first = TRUE])
<1> DEFINE p == [params EXCEPT !.first = TRUE]
<1>1. Greet(client, params) \in ClientType /\ p \in ParamsType
  BY EventTypes DEF ClaudeTypeOK, ParamsType, Greet, When
<1>2. CASE params.first
  BY <1>1, <1>2 DEF Greet, When, Held, ClaudeTypeOK, ParamsType
<1>3. CASE ~params.first
  <2>1. Greet(client, params) = [client EXCEPT !.message = "open"]
    BY <1>3 DEF Idle, Greet, When, MessageStart, Accept
  <2>2. LET c == Greet(client, params)
        IN  c.ok /\ c.message = "open" /\ c.open = {} /\ c.count = 0
    BY <1>3, <2>1 DEF Idle, ClaudeTypeOK, ClientType
  <2>3. p.type = "none" /\ p.index = 0 /\ p.content = FALSE /\ p.final = FALSE
    BY <1>3 DEF NewParams
  <2> HIDE DEF p
  <2>4. p.content = (p.type # "none")
    BY <2>3
  <2>5. ~p.final
    BY <2>3
  <2>6. Held(Greet(client, params), p)
    BY <2>2, <2>3, <2>4, <2>5 DEF Held
  <2> QED
    BY <1>1, <2>6 DEF p
<1> QED
  BY <1>1, <1>2, <1>3

LEMMA ChunkTracks ==
    ASSUME IInv, upstream.lapses \cap Causes = {}, NEW part \in Parts,
           NEW finish \in BOOLEAN, NEW usage \in {"none", "other", "candidates"},
           translator \in GeminiKinds, Ongoing, GeminiChunk(part, finish, usage),
           ~(translator = "antigravity" /\ part = "signature" /\ params.type # "thinking"),
           ~(translator = "antigravity" /\ part = "empty" /\ ~finish
               /\ params.type \in {"thinking", "tool_use"}),
           ~(translator # "antigravity" /\ finish /\ usage # "candidates")
    PROVE  /\ ~finish => params'.first /\ Held(client', params') /\ ~params'.finish
           /\ finish /\ translator # "antigravity" =>
                 IF params'.content THEN Ended(client') ELSE Held(client', params')
           /\ finish /\ translator = "antigravity" =>
                 /\ params'.first /\ params'.finish
                 /\ params'.final => Ended(client') /\ params'.content
                 /\ ~params'.final => /\ Held(client', params')
                                      /\ params'.content => ~params'.usage
<1> DEFINE c0 == Greet(client, params)
           p0 == [params EXCEPT !.first = TRUE]
           a  == Part(c0, p0, part, finish)
<1>1. /\ ~params.finish
      /\ IF params.first THEN Held(client, params) ELSE Idle /\ params = NewParams
  BY DEF IInv, Tracks, GeminiTracks
<1>2. c0 \in ClientType /\ p0 \in ParamsType /\ Held(c0, p0)
  BY <1>1, GreetHeld DEF IInv
<1>3. p0.type = params.type /\ p0.first /\ ~p0.finish
  BY <1>1 DEF IInv, ClaudeTypeOK, ParamsType
<1>4. Held(a.c, a.p) /\ Same(a.p, p0)
  BY <1>2, <1>3, PartHeld
<1>5. a.c \in ClientType /\ a.p \in ParamsType
  BY <1>2, PartType DEF Pair
<1>6. IF translator = "antigravity"
      THEN /\ client' = EndWhenBoth(a.c, a.p, finish, usage).c
           /\ params' = EndWhenBoth(a.c, a.p, finish, usage).p
      ELSE /\ client' = EndInChunk(a.c, a.p, part, finish, usage).c
           /\ params' = EndInChunk(a.c, a.p, part, finish, usage).p
  BY DEF GeminiChunk
<1> HIDE DEF a
<1>7. a.p.first /\ ~a.p.finish
  BY <1>3, <1>4 DEF Same
<1>8. CASE translator # "antigravity"
  <2>1. params' = a.p
    BY <1>6, <1>8 DEF EndInChunk
  <2>2. CASE ~finish \/ ~a.p.content
    <3>1. client' = a.c
      BY <1>6, <1>8, <2>2 DEF EndInChunk, When
    <3> QED
      BY <1>4, <1>7, <1>8, <2>1, <2>2, <3>1
  <2>3. CASE finish /\ a.p.content
    <3>1. client' = MessageDelta(BlockStop(a.c, a.p.index), Reason(part \in {"call", "more args"}))
      BY <1>6, <1>8, <2>3 DEF EndInChunk, When
    <3>2. Ended(client')
      BY <1>4, <1>5, <2>3, <3>1, EndHeld
    <3> QED
      BY <1>8, <2>1, <2>3, <3>2
  <2> QED
    BY <2>2, <2>3
<1>9. CASE translator = "antigravity"
  <2> DEFINE q == [a.p EXCEPT !.finish = @ \/ finish, !.usage = @ \/ usage # "none"]
  <2>1. /\ q \in ParamsType /\ q.first /\ q.finish = finish /\ q.type = a.p.type
        /\ q.index = a.p.index /\ q.content = a.p.content
    BY <1>5, <1>7 DEF ParamsType
  <2>2. Held(a.c, q)
    BY <1>4, <1>5 DEF Held, ParamsType
  <2>3. ~q.final
    BY <2>2 DEF Held
  <2> DEFINE f == FinalEvents(a.c, q, FALSE)
  <2>4. IF q.finish /\ q.usage THEN client' = f.c /\ params' = f.p
                               ELSE client' = a.c /\ params' = q
    BY <1>6, <1>9 DEF EndWhenBoth
  <2> HIDE DEF q
  <2>5. CASE ~(q.finish /\ q.usage)
    BY <1>9, <2>1, <2>2, <2>3, <2>4, <2>5
  <2>6. CASE q.finish /\ q.usage /\ ~q.content
    <3>1. client' = a.c /\ params' = q
      BY <2>4, <2>6 DEF FinalEvents
    <3> QED
      BY <1>9, <2>1, <2>2, <2>3, <2>6, <3>1
  <2>7. CASE q.finish /\ q.usage /\ q.content
    <3>1. q.type # "none"
      BY <2>2, <2>7 DEF Held
    <3>2. /\ f.c = MessageDelta(BlockStop(a.c, q.index), Reason(q.tool))
          /\ f.p = [q EXCEPT !.type = "none", !.final = TRUE]
      BY <2>3, <2>7, <3>1 DEF FinalEvents, When
    <3>5. /\ client' = MessageDelta(BlockStop(a.c, q.index), Reason(q.tool))
          /\ params' = [q EXCEPT !.type = "none", !.final = TRUE]
      BY <2>4, <2>7, <3>2
    <3>3. Ended(client') /\ params' = [q EXCEPT !.type = "none", !.final = TRUE]
      BY <1>5, <2>1, <2>2, <2>7, <3>5, EndHeld
    <3>4. params'.first /\ params'.finish /\ params'.content /\ params'.final
      BY <2>1, <2>7, <3>3 DEF ParamsType
    <3> QED
      BY <1>9, <2>1, <2>7, <3>3, <3>4
  <2> QED
    BY <2>5, <2>6, <2>7
<1> QED
  BY <1>8, <1>9

LEMMA GeminiStep ==
    ASSUME IInv, upstream'.lapses \cap Causes = {}, translator \in GeminiKinds,
           NEW part \in Parts, NEW finish \in BOOLEAN,
           NEW usage \in {"none", "other", "candidates"},
           GeminiSends(part, finish, usage) \/ GeminiUsage \/ GeminiEnds
    PROVE  client'.ok /\ GeminiTracks'
<1>1. CASE GeminiSends(part, finish, usage)
  <2> DEFINE S == If(translator = "antigravity" /\ part = "empty" /\ ~finish
                       /\ params.type \in {"thinking", "tool_use"}, "empty text")
                  \cup If(translator = "antigravity" /\ part = "signature"
                            /\ params.type # "thinking", "lone signature")
                  \cup If(translator # "gemini" /\ part = "more args", "split call")
                  \cup If(translator # "antigravity" /\ finish /\ usage # "candidates", "no tokens")
                  \cup If(translator # "antigravity" /\ finish /\ client.used > 0
                            /\ part \notin {"call", "more args"}, "earlier call")
  <2>1. \E n : Note(PhaseAfter(finish), n, S)
    BY <1>1 DEF GeminiSends
  <2> HIDE DEF S
  <2>2. /\ upstream.lapses \cap Causes = {} /\ S \cap Causes = {}
        /\ upstream'.phase = PhaseAfter(finish)
    BY <2>1, NoLapse DEF IInv
  <2>3. /\ ~(translator = "antigravity" /\ part = "empty" /\ ~finish
              /\ params.type \in {"thinking", "tool_use"})
        /\ ~(translator = "antigravity" /\ part = "signature" /\ params.type # "thinking")
        /\ ~(translator # "antigravity" /\ finish /\ usage # "candidates")
    BY <2>2 DEF S, If, Causes
  <2>4. /\ ~finish => params'.first /\ Held(client', params') /\ ~params'.finish
        /\ finish /\ translator # "antigravity" =>
              IF params'.content THEN Ended(client') ELSE Held(client', params')
        /\ finish /\ translator = "antigravity" =>
              /\ params'.first /\ params'.finish
              /\ params'.final => Ended(client') /\ params'.content
              /\ ~params'.final => /\ Held(client', params')
                                   /\ params'.content => ~params'.usage
    BY <1>1, <2>2, <2>3, ChunkTracks DEF GeminiSends
  <2>5. translator' = translator
    BY <1>1 DEF GeminiSends
  <2>6. CASE finish
    <3>1. upstream'.phase = "finished"
      BY <2>2, <2>6 DEF PhaseAfter
    <3>2. client'.ok
      BY <2>4, <2>6 DEF Held, Ended
    <3> QED
      BY <2>4, <2>5, <2>6, <3>1, <3>2 DEF GeminiTracks, Ongoing
  <2>7. CASE ~finish
    <3>1. upstream'.phase = "answer"
      BY <2>2, <2>7 DEF PhaseAfter
    <3>2. client'.ok
      BY <2>4, <2>7 DEF Held
    <3> QED
      BY <2>4, <2>7, <3>1, <3>2 DEF GeminiTracks, Ongoing
  <2> QED
    BY <2>6, <2>7
<1>2. CASE GeminiUsage
  <2> DEFINE q == [params EXCEPT !.finish = @ \/ FALSE, !.usage = @ \/ "candidates" # "none"]
             f == FinalEvents(client, q, FALSE)
  <2>1. /\ translator = "antigravity" /\ upstream.phase = "finished" /\ ~params.usage
        /\ upstream' = upstream /\ translator' = translator
    BY <1>2 DEF GeminiUsage
  <2>2. /\ params.first /\ params.finish
        /\ params.final => Ended(client) /\ params.content
        /\ ~params.final => Held(client, params)
    BY <2>1 DEF IInv, Tracks, GeminiTracks
  <2>3. [params EXCEPT !.first = TRUE] = params
    BY <2>2 DEF IInv, ClaudeTypeOK, ParamsType
  <2> DEFINE a == Part(Greet(client, params), [params EXCEPT !.first = TRUE], "none", FALSE)
  <2>4. a.c = client /\ a.p = params
    BY <2>2, <2>3 DEF Part, Greet, When
  <2>5. q.finish /\ q.usage
    BY <2>2 DEF IInv, ClaudeTypeOK, ParamsType
  <2>6. EndWhenBoth(client, params, FALSE, "candidates") = f
    BY <2>5 DEF EndWhenBoth
  <2>7. client' = f.c /\ params' = f.p
    <3>2. /\ client' = EndWhenBoth(a.c, a.p, FALSE, "candidates").c
          /\ params' = EndWhenBoth(a.c, a.p, FALSE, "candidates").p
      BY <1>2, <2>1 DEF GeminiUsage, GeminiChunk, a
    <3> QED
      BY <2>4, <2>6, <3>2
  <2>8. /\ q \in ParamsType /\ q.first /\ q.type = params.type /\ q.index = params.index
        /\ q.content = params.content /\ q.final = params.final
    BY <2>2 DEF IInv, ClaudeTypeOK, ParamsType
  <2>9. ~params.final => Held(client, q)
    BY <2>2, <2>8 DEF Held, IInv, ClaudeTypeOK, ParamsType
  <2> HIDE DEF a, q
  <2>10. CASE q.final \/ ~q.content
    <3>1. client' = client /\ params' = q
      BY <2>7, <2>10 DEF FinalEvents
    <3>2. client'.ok /\ (q.final => Ended(client) /\ q.content)
      BY <2>2, <2>8, <3>1 DEF Held, Ended
    <3> QED
      BY <2>1, <2>5, <2>8, <2>9, <2>10, <3>1, <3>2 DEF GeminiTracks, Ongoing
  <2>11. CASE ~q.final /\ q.content
    <3>1. client \in ClientType /\ Held(client, q) /\ q.type # "none"
      BY <2>8, <2>9, <2>11 DEF IInv, ClaudeTypeOK, Held
    <3>2. /\ f.c = MessageDelta(BlockStop(client, q.index), Reason(q.tool))
          /\ f.p = [q EXCEPT !.type = "none", !.final = TRUE]
      BY <2>5, <2>11, <3>1 DEF FinalEvents, When
    <3>3. Ended(client')
      BY <2>7, <2>8, <2>11, <3>1, <3>2, EndHeld
    <3>4. params'.first /\ params'.finish /\ params'.content /\ params'.final
      BY <2>5, <2>7, <2>8, <2>11, <3>2 DEF ParamsType
    <3>5. client'.ok
      BY <3>3 DEF Ended
    <3> QED
      BY <2>1, <3>3, <3>4, <3>5 DEF GeminiTracks, Ongoing
  <2> QED
    BY <2>10, <2>11
<1>3. CASE GeminiEnds
  <2>1. /\ upstream.lapses \cap Causes = {} /\ upstream'.phase = "over"
        /\ If(upstream.phase # "finished", "cut") \cap Causes = {}
    <3>1. Note("over", 0, If(upstream.phase # "finished", "cut"))
      BY <1>3 DEF GeminiEnds
    <3> QED
      BY <3>1, NoLapse DEF IInv
  <2>2. upstream.phase = "finished"
    BY <2>1 DEF If, Causes
  <2>3. client \in ClientType /\ params \in ParamsType /\ client.ok
    BY <2>1 DEF IInv, ClaudeTypeOK, Tracks
  <2>4. GeminiTracks
    BY <2>1 DEF IInv, Tracks
  <2>5. ASSUME NEW c \in ClientType, Ended(c) PROVE MessageStop(c).ok
    BY <2>5 DEF MessageStop, Accept, Ended, ClientType
  <2>9. client'.ok
    <3>1. CASE ~params.content
      <4>1. client' = client
        BY <1>3, <3>1 DEF GeminiEnds, GeminiDone, When
      <4> QED
        BY <2>3, <4>1
    <3>2. CASE params.content /\ translator # "antigravity"
      <4>1. client' = MessageStop(client)
        BY <1>3, <3>2 DEF GeminiEnds, GeminiDone, When
      <4>2. Ended(client)
        BY <2>2, <2>4, <3>2 DEF GeminiTracks
      <4>3. MessageStop(client).ok
        BY <2>3, <2>5, <4>2
      <4> QED
        BY <4>1, <4>3
    <3>3. CASE params.content /\ translator = "antigravity"
      <4> DEFINE f == FinalEvents(client, params, TRUE)
      <4>1. client' = MessageStop(f.c)
        BY <1>3, <3>3 DEF GeminiEnds, GeminiDone, When
      <4>2. f.c \in ClientType
        BY <2>3, FinalType DEF Pair
      <4>3. Ended(f.c)
        <5>1. CASE params.final
          <6>1. f.c = client
            BY <5>1 DEF FinalEvents
          <6> QED
            BY <2>2, <2>4, <3>3, <5>1, <6>1 DEF GeminiTracks
        <5>2. CASE ~params.final
          <6>1. Held(client, params)
            BY <2>2, <2>4, <3>3, <5>2 DEF GeminiTracks
          <6>2. f.c = MessageDelta(BlockStop(client, params.index), Reason(params.tool))
            BY <3>3, <5>2, <6>1 DEF FinalEvents, When, Held
          <6> QED
            BY <2>3, <3>3, <6>1, <6>2, EndHeld
        <5> QED
          BY <5>1, <5>2
      <4> HIDE DEF f
      <4>4. MessageStop(f.c).ok
        BY <2>5, <4>2, <4>3
      <4> QED
        BY <4>1, <4>4
    <3> QED
      BY <3>1, <3>2, <3>3
  <2> QED
    BY <2>1, <2>9 DEF GeminiTracks, Ongoing
<1> QED
  BY <1>1, <1>2, <1>3

-----------------------------------------------------------------------------
LEMMA CodexStep ==
    ASSUME IInv, upstream'.lapses \cap Causes = {}, translator = "codex", NEW type \in BlockTypes,
           CodexSends \/ CodexItem(type)
    PROVE  client'.ok /\ CodexTracks'
<1>1. /\ client \in ClientType /\ params \in ParamsType /\ upstream \in UpstreamType
      /\ params.index \in Nat /\ params.index + 1 \in Nat /\ type # "none"
  BY DEF IInv, ClaudeTypeOK, ParamsType, BlockTypes
<1>2. upstream.lapses \cap Causes = {} => client.ok /\ CodexTracks
  BY DEF IInv, Tracks
<1>3. CASE CodexSends
  <2>1. CASE upstream.phase = "new" /\ CodexCreated /\ Note("answer", 0, {})
    <3>1. /\ upstream.lapses \cap Causes = {} /\ upstream'.phase = "answer"
          /\ upstream'.item = upstream.item
      BY <1>1, <2>1, NoLapse DEF IInv, Note, UpstreamType
    <3>2. Idle /\ params.index = 0 /\ upstream.item = "none"
      BY <1>2, <2>1, <3>1 DEF CodexTracks
    <3>3. client' = [client EXCEPT !.message = "open"] /\ params' = params
      BY <2>1, <3>2 DEF CodexCreated, MessageStart, Accept, Idle
    <3> QED
      BY <1>1, <3>1, <3>2, <3>3 DEF CodexTracks, Idle, ClientType
  <2>2. CASE /\ upstream.phase = "answer" /\ upstream.item = "none" /\ CodexCompleted
             /\ Note("finished", 0, {})
    <3>1. upstream.lapses \cap Causes = {} /\ upstream'.phase = "finished"
      BY <2>2, NoLapse DEF IInv
    <3>2. client.ok /\ client.message = "open" /\ client.open = {}
      BY <1>2, <2>2, <3>1 DEF CodexTracks
    <3> DEFINE d == MessageDelta(client, Reason(params.tool))
    <3>3. d = [client EXCEPT !.message = "told", !.reason = Reason(params.tool)]
      BY <3>2 DEF MessageDelta, Accept
    <3>4. d.ok /\ d.message = "told" /\ d.open = {}
      BY <1>1, <3>2, <3>3 DEF ClientType
    <3>6. d \in ClientType
      BY <1>1, EventTypes DEF Reason
    <3> HIDE DEF d
    <3>5. client'.ok
      <4>1. client' = MessageStop(d)
        BY <2>2 DEF CodexCompleted, d
      <4> QED
        BY <3>4, <3>6, <4>1 DEF MessageStop, Accept, ClientType
    <3> QED
      BY <3>1, <3>5 DEF CodexTracks
  <2>3. CASE /\ upstream.phase # "over" /\ UNCHANGED <<client, params>>
             /\ Note("over", 0, If(upstream.phase # "finished", "cut"))
    <3>1. upstream.lapses \cap Causes = {} /\ upstream'.phase = "over"
      BY <2>3, NoLapse DEF IInv
    <3> QED
      BY <1>2, <2>3, <3>1 DEF CodexTracks
  <2> QED
    BY <1>3, <2>1, <2>2, <2>3 DEF CodexSends
<1>4. CASE CodexItem(type)
  <2>1. /\ upstream.phase = "answer" /\ upstream'.phase = "answer"
        /\ upstream.lapses \cap Causes = {}
    BY <1>1, <1>4 DEF CodexItem, UpstreamType
  <2>2. /\ client.ok /\ client.message = "open"
        /\ client.open = IF upstream.item = "none" THEN {} ELSE {<<params.index, upstream.item>>}
        /\ client.count = IF upstream.item = "none" THEN params.index ELSE params.index + 1
    BY <1>2, <2>1 DEF CodexTracks
  <2>3. CASE upstream.item = "none" /\ CodexAdded(type) /\ upstream'.item = type
    <3> DEFINE c == BlockStart(client, params.index, type)
    <3>1. c = [client EXCEPT !.open = @ \cup {<<params.index, type>>}, !.count = @ + 1,
                             !.used = IF type = "tool_use" THEN @ + 1 ELSE @]
      BY <2>2, <2>3 DEF BlockStart, Accept
    <3>2. /\ c.ok /\ c.message = "open" /\ c.open = {<<params.index, type>>}
          /\ c.count = params.index + 1
      BY <1>1, <2>2, <2>3, <3>1 DEF ClientType
    <3> HIDE DEF c
    <3>3. BlockDelta(c, params.index, type) = c
      BY <3>2 DEF BlockDelta, Accept
    <3>4. client' = c /\ params'.index = params.index
      BY <1>1, <2>3, <3>3 DEF CodexAdded, When, c, ParamsType
    <3> QED
      BY <1>1, <2>1, <2>3, <3>2, <3>4 DEF CodexTracks
  <2>4. CASE upstream.item = type /\ CodexDelta(type) /\ UNCHANGED upstream
    <3>1. client' = client /\ params' = params
      BY <1>1, <2>2, <2>4 DEF CodexDelta, BlockDelta, Accept
    <3> QED
      BY <2>1, <2>2, <2>4, <3>1 DEF CodexTracks
  <2>5. CASE upstream.item = type /\ CodexDone /\ upstream'.item = "none"
    <3>1. client' = [client EXCEPT !.open = {b \in @ : b[1] # params.index}]
      BY <1>1, <2>2, <2>5 DEF CodexDone, BlockStop, Accept
    <3>2. {b \in client.open : b[1] # params.index} = {}
      BY <1>1, <2>2, <2>5
    <3>3. /\ client'.ok /\ client'.message = "open" /\ client'.open = {}
          /\ client'.count = params.index + 1
      BY <1>1, <2>2, <2>5, <3>1, <3>2 DEF ClientType
    <3>4. params'.index = params.index + 1
      BY <1>1, <2>5 DEF CodexDone, ParamsType
    <3> QED
      BY <2>1, <2>5, <3>3, <3>4 DEF CodexTracks
  <2> QED
    BY <1>1, <1>4, <2>3, <2>4, <2>5 DEF CodexItem, UpstreamType
<1> QED
  BY <1>3, <1>4

-----------------------------------------------------------------------------
LEMMA InBlocks ==
    ASSUME NEW o \in OpenAIType, NEW b
    PROVE  b \in Blocks(o) <=>
              \/ o.text # NoBlock /\ b = <<o.text, "text">>
              \/ o.thinking # NoBlock /\ b = <<o.thinking, "thinking">>
              \/ \E i \in ToolIndexes : /\ o.tools[i].index # NoBlock
                                        /\ b = <<o.tools[i].index, "tool_use">>
<1>1. b \in {b1 \in {<<o.text, "text">>, <<o.thinking, "thinking">>} : b1[1] # NoBlock} <=>
         \/ o.text # NoBlock /\ b = <<o.text, "text">>
         \/ o.thinking # NoBlock /\ b = <<o.thinking, "thinking">>
  OBVIOUS
<1>2. b \in {<<o.tools[i].index, "tool_use">> : i \in {i \in ToolIndexes : o.tools[i].index # NoBlock}}
        <=> \E i \in ToolIndexes : /\ o.tools[i].index # NoBlock
                                   /\ b = <<o.tools[i].index, "tool_use">>
  OBVIOUS
<1> QED
  BY <1>1, <1>2 DEF Blocks

\* q is o but for the blocks of text and reasoning that it has closed.
Kept(q, o) ==
    /\ q.next = o.next /\ q.tools = o.tools /\ q.finish = o.finish /\ q.stopped = o.stopped
    /\ q.delta = o.delta /\ q.stop = o.stop /\ q.started = o.started

\* A stop leaves all blocks but its own, which no other shares its index with.
LEMMA StopListed ==
    ASSUME NEW c \in ClientType, NEW o \in OpenAIType, NEW q \in OpenAIType,
           NEW i \in Nat, NEW type \in BlockTypes,
           Listed(c, o), <<i, type>> \in Blocks(o), Kept(q, o),
           Blocks(q) = Blocks(o) \ {<<i, type>>}
    PROVE  Listed(BlockStop(c, i), q)
<1> DEFINE d == BlockStop(c, i)
<1>1. d = [c EXCEPT !.open = {b \in @ : b[1] # i}]
  BY DEF BlockStop, Accept, Listed
<1>2. {b \in c.open : b[1] # i} = Blocks(q)
  <2>1. \A b \in Blocks(o) : b[1] = i <=> b = <<i, type>>
    BY DEF Listed
  <2> QED
    BY <2>1 DEF Listed
<1>3. d.ok /\ d.message = "open" /\ d.open = Blocks(q) /\ d.count = c.count
  BY <1>1, <1>2 DEF Listed, ClientType
<1> HIDE DEF d
<1> QED
  BY <1>3 DEF Listed, Kept, d

LEMMA StopTextListed ==
    ASSUME NEW c \in ClientType, NEW o \in OpenAIType, Listed(c, o)
    PROVE  LET r == StopText(c, o) IN
           Listed(r.c, r.o) /\ Kept(r.o, o) /\ r.o.text = NoBlock /\ r.o.thinking = o.thinking
<1> DEFINE q == [o EXCEPT !.text = NoBlock]
<1>1. q \in OpenAIType /\ Kept(q, o) /\ q.text = NoBlock /\ q.thinking = o.thinking
  BY DEF OpenAIType, Kept
<1> HIDE DEF q
<1>2. CASE o.text = NoBlock
  <2>1. q = o
    BY <1>2 DEF q, OpenAIType
  <2>2. StopText(c, o) = [c |-> c, o |-> q]
    BY <1>2 DEF StopText, When, q
  <2> QED
    BY <1>1, <2>1, <2>2
<1>3. CASE o.text # NoBlock
  <2>1. o.text \in Nat /\ "text" \in BlockTypes /\ <<o.text, "text">> \in Blocks(o)
    BY <1>3, InBlocks DEF OpenAIType, BlockTypes
  <2>2. Blocks(q) = Blocks(o) \ {<<o.text, "text">>}
    <3>1. ASSUME NEW b PROVE b \in Blocks(q) <=> b \in Blocks(o) /\ b # <<o.text, "text">>
      <4>1. b \in Blocks(q) <=>
              \/ o.thinking # NoBlock /\ b = <<o.thinking, "thinking">>
              \/ \E i \in ToolIndexes : /\ o.tools[i].index # NoBlock
                                        /\ b = <<o.tools[i].index, "tool_use">>
        BY <1>1, InBlocks DEF Kept
      <4>2. b \in Blocks(o) <=>
              \/ b = <<o.text, "text">>
              \/ o.thinking # NoBlock /\ b = <<o.thinking, "thinking">>
              \/ \E i \in ToolIndexes : /\ o.tools[i].index # NoBlock
                                        /\ b = <<o.tools[i].index, "tool_use">>
        BY <1>3, InBlocks
      <4> QED
        BY <4>1, <4>2
    <3> QED
      BY <3>1
  <2>3. Listed(BlockStop(c, o.text), q)
    BY <1>1, <2>1, <2>2, StopListed
  <2>4. StopText(c, o) = [c |-> BlockStop(c, o.text), o |-> q]
    BY <1>3 DEF StopText, When, q
  <2> QED
    BY <1>1, <2>3, <2>4
<1> QED
  BY <1>2, <1>3

LEMMA StopThinkingListed ==
    ASSUME NEW c \in ClientType, NEW o \in OpenAIType, Listed(c, o)
    PROVE  LET r == StopThinking(c, o) IN
           Listed(r.c, r.o) /\ Kept(r.o, o) /\ r.o.thinking = NoBlock /\ r.o.text = o.text
<1> DEFINE q == [o EXCEPT !.thinking = NoBlock]
<1>1. q \in OpenAIType /\ Kept(q, o) /\ q.thinking = NoBlock /\ q.text = o.text
  BY DEF OpenAIType, Kept
<1> HIDE DEF q
<1>2. CASE o.thinking = NoBlock
  <2>1. q = o
    BY <1>2 DEF q, OpenAIType
  <2>2. StopThinking(c, o) = [c |-> c, o |-> q]
    BY <1>2 DEF StopThinking, When, q
  <2> QED
    BY <1>1, <2>1, <2>2
<1>3. CASE o.thinking # NoBlock
  <2>1. o.thinking \in Nat /\ "thinking" \in BlockTypes /\ <<o.thinking, "thinking">> \in Blocks(o)
    BY <1>3, InBlocks DEF OpenAIType, BlockTypes
  <2>2. Blocks(q) = Blocks(o) \ {<<o.thinking, "thinking">>}
    <3>1. ASSUME NEW b PROVE b \in Blocks(q) <=> b \in Blocks(o) /\ b # <<o.thinking, "thinking">>
      <4>1. b \in Blocks(q) <=>
              \/ o.text # NoBlock /\ b = <<o.text, "text">>
              \/ \E i \in ToolIndexes : /\ o.tools[i].index # NoBlock
                                        /\ b = <<o.tools[i].index, "tool_use">>
        BY <1>1, InBlocks DEF Kept
      <4>2. b \in Blocks(o) <=>
              \/ b = <<o.thinking, "thinking">>
              \/ o.text # NoBlock /\ b = <<o.text, "text">>
              \/ \E i \in ToolIndexes : /\ o.tools[i].index # NoBlock
                                        /\ b = <<o.tools[i].index, "tool_use">>
        BY <1>3, InBlocks
      <4> QED
        BY <4>1, <4>2
    <3> QED
      BY <3>1
  <2>3. Listed(BlockStop(c, o.thinking), q)
    BY <1>1, <2>1, <2>2, StopListed
  <2>4. StopThinking(c, o) = [c |-> BlockStop(c, o.thinking), o |-> q]
    BY <1>3 DEF StopThinking, When, q
  <2> QED
    BY <1>1, <2>3, <2>4
<1> QED
  BY <1>2, <1>3

LEMMA StopBothListed ==
    ASSUME NEW c \in ClientType, NEW o \in OpenAIType, Listed(c, o)
    PROVE  LET r == StopBoth(c, o) IN
           /\ Listed(r.c, r.o) /\ Kept(r.o, o)
           /\ r.o.thinking = NoBlock /\ r.o.text = NoBlock
<1> DEFINE a == StopThinking(c, o)
<1>1. a.c \in ClientType /\ a.o \in OpenAIType
  BY StopTypes DEF PairO
<1>2. Listed(a.c, a.o) /\ Kept(a.o, o) /\ a.o.thinking = NoBlock
  BY StopThinkingListed
<1> HIDE DEF a
<1>3. LET r == StopText(a.c, a.o) IN
      Listed(r.c, r.o) /\ Kept(r.o, a.o) /\ r.o.text = NoBlock /\ r.o.thinking = NoBlock
  BY <1>1, <1>2, StopTextListed
<1> QED
  BY <1>2, <1>3 DEF StopBoth, Kept, a

\* A block that starts gets the next index.
LEMMA StartListed ==
    ASSUME NEW c \in ClientType, NEW o \in OpenAIType, NEW q \in OpenAIType,
           NEW type \in BlockTypes, Listed(c, o), q.next = o.next + 1,
           Blocks(q) = Blocks(o) \cup {<<o.next, type>>},
           \A i, j \in ToolIndexes : q.tools[i].index = q.tools[j].index
                                       /\ q.tools[i].index # NoBlock => i = j
    PROVE  /\ Listed(BlockStart(c, o.next, type), q)
           /\ BlockDelta(BlockStart(c, o.next, type), o.next, type) = BlockStart(c, o.next, type)
<1> DEFINE d == BlockStart(c, o.next, type)
<1>1. o.next \in Nat /\ c.open = Blocks(o) /\ c.count = o.next
  BY DEF OpenAIType, Listed
<1>2. d = [c EXCEPT !.open = @ \cup {<<o.next, type>>}, !.count = @ + 1,
                    !.used = IF type = "tool_use" THEN @ + 1 ELSE @]
  BY <1>1 DEF BlockStart, Accept, Listed
<1>3. d.ok /\ d.message = "open" /\ d.open = Blocks(q) /\ d.count = q.next
  BY <1>1, <1>2 DEF Listed, ClientType
<1> HIDE DEF d
<1>4. \A b \in Blocks(o) : b[1] < o.next /\ b[1] \in Nat
  <2>1. Blocks(o) \subseteq Nat \X BlockTypes
    BY <1>1 DEF ClientType
  <2> QED
    BY <2>1 DEF Listed
<1>5. \A b \in Blocks(q) : b[1] < q.next
  BY <1>1, <1>4
<1>6. \A b, e \in Blocks(q) : b[1] = e[1] => b = e
  <2>1. \A b, e \in Blocks(o) : b[1] = e[1] => b = e
    BY DEF Listed
  <2> QED
    BY <1>1, <1>4, <2>1
<1>7. Listed(d, q)
  BY <1>3, <1>5, <1>6 DEF Listed
<1>8. <<o.next, type>> \in d.open
  BY <1>3
<1> QED
  BY <1>3, <1>7, <1>8 DEF BlockDelta, Accept, d

\* The fields that no part of an answer touches.
Alike(q, o) ==
    /\ q.finish = o.finish /\ q.stopped = o.stopped /\ q.delta = o.delta /\ q.stop = o.stop
    /\ q.started = o.started

\* A delta of a block that is open leaves the client as it is.
LEMMA DeltaListed ==
    ASSUME NEW c, NEW o, NEW i, NEW type, Listed(c, o), <<i, type>> \in Blocks(o)
    PROVE  BlockDelta(c, i, type) = c
BY DEF Listed, BlockDelta, Accept

LEMMA ContentListed ==
    ASSUME NEW c \in ClientType, NEW o \in OpenAIType, Listed(c, o)
    PROVE  LET r == Content(c, o) IN Listed(r.c, r.o) /\ Alike(r.o, o)
<1>1. CASE o.text # NoBlock
  <2>1. <<o.text, "text">> \in Blocks(o)
    BY <1>1, InBlocks
  <2>2. Content(c, o) = [c |-> c, o |-> o]
    BY <1>1, <2>1, DeltaListed DEF Content
  <2> QED
    BY <2>2 DEF Alike
<1>2. CASE o.text = NoBlock
  <2> DEFINE a == StopThinking(c, o)
             d == a.c
             e == a.o
  <2>1. Listed(d, e) /\ Kept(e, o) /\ e.text = NoBlock /\ d \in ClientType /\ e \in OpenAIType
    BY <1>2, StopThinkingListed, StopTypes DEF PairO
  <2>2. Content(c, o) =
          [c |-> BlockDelta(BlockStart(d, o.next, "text"), o.next, "text"),
           o |-> [e EXCEPT !.text = o.next, !.next = @ + 1]]
    BY <1>2 DEF Content
  <2> HIDE DEF a, d, e
  <2> DEFINE q == [e EXCEPT !.text = o.next, !.next = @ + 1]
  <2>3. e.next = o.next /\ o.next \in Nat /\ o.next + 1 \in Nat /\ o.next # NoBlock
    BY <2>1 DEF Kept, OpenAIType, NoBlock
  <2>4. /\ q \in OpenAIType /\ q.text = o.next /\ q.next = e.next + 1 /\ q.tools = e.tools
        /\ q.thinking = e.thinking /\ Alike(q, o)
    BY <2>1, <2>3 DEF OpenAIType, Kept, Alike
  <2> HIDE DEF q
  <2>5. Blocks(q) = Blocks(e) \cup {<<o.next, "text">>}
    <3>1. ASSUME NEW b PROVE b \in Blocks(q) <=> b \in Blocks(e) \/ b = <<o.next, "text">>
      BY <2>1, <2>3, <2>4, InBlocks
    <3> QED
      BY <3>1
  <2>6. \A i, j \in ToolIndexes : q.tools[i].index = q.tools[j].index
                                    /\ q.tools[i].index # NoBlock => i = j
    BY <2>1, <2>4 DEF Listed
  <2>7. /\ Listed(BlockStart(d, o.next, "text"), q)
        /\ BlockDelta(BlockStart(d, o.next, "text"), o.next, "text") = BlockStart(d, o.next, "text")
    BY <2>1, <2>3, <2>4, <2>5, <2>6, StartListed DEF BlockTypes
  <2> QED
    BY <2>2, <2>4, <2>7 DEF q
<1> QED
  BY <1>1, <1>2

LEMMA ReasoningListed ==
    ASSUME NEW c \in ClientType, NEW o \in OpenAIType, Listed(c, o)
    PROVE  LET r == Reasoning(c, o) IN Listed(r.c, r.o) /\ Alike(r.o, o)
<1> DEFINE a == StopText(c, o)
           d == a.c
           e == a.o
<1>1. /\ Listed(d, e) /\ Kept(e, o) /\ e.text = NoBlock /\ e.thinking = o.thinking
      /\ d \in ClientType /\ e \in OpenAIType
  BY StopTextListed, StopTypes DEF PairO
<1>2. a = [c |-> d, o |-> e]
  BY DEF StopText
<1>3. CASE o.thinking # NoBlock
  <2>1. Reasoning(c, o) = [a EXCEPT !.c = BlockDelta(@, o.thinking, "thinking")]
    BY <1>3 DEF Reasoning
  <2> HIDE DEF a, d, e
  <2>2. <<o.thinking, "thinking">> \in Blocks(e)
    BY <1>1, <1>3, InBlocks
  <2>3. Reasoning(c, o) = [c |-> d, o |-> e]
    BY <1>1, <1>2, <2>1, <2>2, DeltaListed
  <2> QED
    BY <1>1, <2>3 DEF Alike, Kept
<1>4. CASE o.thinking = NoBlock
  <2>2. Reasoning(c, o) =
          [c |-> BlockDelta(BlockStart(d, o.next, "thinking"), o.next, "thinking"),
           o |-> [e EXCEPT !.thinking = o.next, !.next = @ + 1]]
    BY <1>4 DEF Reasoning
  <2> HIDE DEF a, d, e
  <2> DEFINE q == [e EXCEPT !.thinking = o.next, !.next = @ + 1]
  <2>3. e.next = o.next /\ o.next \in Nat /\ o.next + 1 \in Nat /\ o.next # NoBlock
    BY <1>1 DEF Kept, OpenAIType, NoBlock
  <2>4. /\ q \in OpenAIType /\ q.thinking = o.next /\ q.next = e.next + 1 /\ q.tools = e.tools
        /\ q.text = e.text /\ Alike(q, o)
    BY <1>1, <2>3 DEF OpenAIType, Kept, Alike
  <2> HIDE DEF q
  <2>5. Blocks(q) = Blocks(e) \cup {<<o.next, "thinking">>}
    <3>1. ASSUME NEW b PROVE b \in Blocks(q) <=> b \in Blocks(e) \/ b = <<o.next, "thinking">>
      BY <1>1, <1>4, <2>3, <2>4, InBlocks
    <3> QED
      BY <3>1
  <2>6. \A i, j \in ToolIndexes : q.tools[i].index = q.tools[j].index
                                    /\ q.tools[i].index # NoBlock => i = j
    BY <1>1, <2>4 DEF Listed
  <2>7. /\ Listed(BlockStart(d, o.next, "thinking"), q)
        /\ BlockDelta(BlockStart(d, o.next, "thinking"), o.next, "thinking")
             = BlockStart(d, o.next, "thinking")
    BY <1>1, <2>3, <2>4, <2>5, <2>6, StartListed DEF BlockTypes
  <2> QED
    BY <2>2, <2>4, <2>7 DEF q
<1> QED
  BY <1>3, <1>4

\* The arguments of a tool are no block.
LEMMA ArgsListed ==
    ASSUME NEW c \in ClientType, NEW o \in OpenAIType, NEW i \in ToolIndexes, Listed(c, o)
    PROVE  LET q == [o EXCEPT !.tools[i].args = TRUE] IN Listed(c, q) /\ Alike(q, o)
<1> DEFINE t == [o.tools EXCEPT ![i].args = TRUE]
           q == [o EXCEPT !.tools = t]
<1>1. o.tools \in [ToolIndexes -> ToolType] /\ o.tools[i] \in ToolType
  BY DEF OpenAIType
<1>2. \A j \in ToolIndexes : t[j].index = o.tools[j].index
  BY <1>1 DEF ToolType
<1>3. t \in [ToolIndexes -> ToolType]
  BY <1>1 DEF ToolType
<1>4. q = [o EXCEPT !.tools[i].args = TRUE]
  BY <1>1 DEF OpenAIType
<1> HIDE DEF t
<1>5. /\ q \in OpenAIType /\ q.tools = t /\ q.text = o.text /\ q.thinking = o.thinking
      /\ q.next = o.next /\ Alike(q, o)
  BY <1>3 DEF OpenAIType, Alike
<1> HIDE DEF q
<1>6. Blocks(q) = Blocks(o)
  <2>1. ASSUME NEW b PROVE b \in Blocks(q) <=> b \in Blocks(o)
    BY <1>2, <1>5, InBlocks
  <2> QED
    BY <2>1
<1>7. Listed(c, q)
  BY <1>2, <1>5, <1>6 DEF Listed
<1> QED
  BY <1>4, <1>5, <1>7

\* A call that begins closes text and reasoning and gets the next index.
LEMMA BeginListed ==
    ASSUME NEW c \in ClientType, NEW o \in OpenAIType, NEW i \in ToolIndexes, Listed(c, o),
           o.tools[i].index = NoBlock
    PROVE  LET r == ToolCall(c, o, i, TRUE) IN Listed(r.c, r.o) /\ Alike(r.o, o)
<1> DEFINE b == Allot(o, i)
           a == StopBoth(c, b)
           u == StopBoth(c, o)
           t == [o.tools EXCEPT ![i].index = o.next]
<1>1. /\ o.tools \in [ToolIndexes -> ToolType] /\ o.tools[i] \in ToolType
      /\ o.next \in Nat /\ o.next + 1 \in Nat /\ o.next # NoBlock
  BY DEF OpenAIType, NoBlock
<1>2. /\ \A j \in ToolIndexes : t[j].index = IF j = i THEN o.next ELSE o.tools[j].index
      /\ t \in [ToolIndexes -> ToolType]
  BY <1>1 DEF ToolType
<1>3. b = [o EXCEPT !.tools = t, !.next = o.next + 1]
  BY <1>1 DEF Allot, OpenAIType
<1> HIDE DEF t
<1>4. /\ b \in OpenAIType /\ b.tools = t /\ b.next = o.next + 1 /\ b.text = o.text
      /\ b.thinking = o.thinking /\ Alike(b, o)
  BY <1>1, <1>2, <1>3 DEF OpenAIType, Alike
<1>5. Listed(u.c, u.o) /\ Kept(u.o, o) /\ u.o.text = NoBlock /\ u.o.thinking = NoBlock
  BY StopBothListed
<1>6. u.c \in ClientType /\ u.o \in OpenAIType
  BY StopTypes DEF PairO
<1> HIDE DEF b
<1>7. a.c = u.c
  BY <1>4 DEF StopBoth, StopText, StopThinking, OpenAIType
<1>8. /\ a.o \in OpenAIType /\ a.o.text = NoBlock /\ a.o.thinking = NoBlock
      /\ a.o.tools = t /\ a.o.next = o.next + 1 /\ Alike(a.o, o)
  BY <1>4 DEF StopBoth, StopText, StopThinking, OpenAIType, Alike
<1>9. /\ ToolCall(c, o, i, TRUE) = [a EXCEPT !.c = BlockStart(@, t[i].index, "tool_use")]
      /\ a = [c |-> a.c, o |-> a.o]
  BY <1>4 DEF ToolCall, b, StopBoth, StopText
<1> HIDE DEF a, u
<1>10. /\ ToolCall(c, o, i, TRUE).c = BlockStart(u.c, o.next, "tool_use")
       /\ ToolCall(c, o, i, TRUE).o = a.o
  BY <1>2, <1>7, <1>9
<1>11. u.o.next = o.next /\ u.o.tools = o.tools
  BY <1>5 DEF Kept
<1>12. Blocks(a.o) = Blocks(u.o) \cup {<<o.next, "tool_use">>}
  <2>1. ASSUME NEW x PROVE x \in Blocks(a.o) <=> x \in Blocks(u.o) \/ x = <<o.next, "tool_use">>
    <3>1. x \in Blocks(a.o) <=> \E j \in ToolIndexes : /\ t[j].index # NoBlock
                                                       /\ x = <<t[j].index, "tool_use">>
      BY <1>8, InBlocks
    <3>2. x \in Blocks(u.o) <=> \E j \in ToolIndexes : /\ o.tools[j].index # NoBlock
                                                       /\ x = <<o.tools[j].index, "tool_use">>
      BY <1>5, <1>6, <1>11, InBlocks
    <3> QED
      BY <1>1, <1>2, <3>1, <3>2
  <2> QED
    BY <2>1
<1>13. \A j, k \in ToolIndexes : a.o.tools[j].index = a.o.tools[k].index
                                   /\ a.o.tools[j].index # NoBlock => j = k
  <2>1. \A j \in ToolIndexes : o.tools[j].index # NoBlock => o.tools[j].index # o.next
    <3>1. ASSUME NEW j \in ToolIndexes, o.tools[j].index # NoBlock PROVE o.tools[j].index # o.next
      <4>1. <<o.tools[j].index, "tool_use">> \in Blocks(o)
        BY <3>1, InBlocks
      <4>2. <<o.tools[j].index, "tool_use">>[1] < o.next
        BY <4>1 DEF Listed
      <4> QED
        BY <1>1, <4>2
    <3> QED
      BY <3>1
  <2>2. \A j, k \in ToolIndexes : o.tools[j].index = o.tools[k].index
                                    /\ o.tools[j].index # NoBlock => j = k
    BY DEF Listed
  <2> QED
    BY <1>1, <1>2, <1>8, <2>1, <2>2
<1>14. Listed(BlockStart(u.c, o.next, "tool_use"), a.o)
  BY <1>5, <1>6, <1>8, <1>11, <1>12, <1>13, StartListed DEF BlockTypes
<1> QED
  BY <1>8, <1>10, <1>14

\* Without a lapse a call begins with its name and goes on without one.
LEMMA CallListed ==
    ASSUME NEW c \in ClientType, NEW o \in OpenAIType, NEW i \in ToolIndexes,
           NEW named \in BOOLEAN, Listed(c, o), named <=> o.tools[i].index = NoBlock
    PROVE  LET r == ToolCall(c, o, i, named) IN Listed(r.c, r.o) /\ Alike(r.o, o)
<1>1. CASE named
  <2>1. named = TRUE /\ o.tools[i].index = NoBlock
    BY <1>1
  <2> QED
    BY <2>1, BeginListed
<1>2. CASE ~named
  <2>1. Allot(o, i) = o
    BY <1>2 DEF Allot
  <2>2. ToolCall(c, o, i, named) = [c |-> c, o |-> [o EXCEPT !.tools[i].args = TRUE]]
    BY <1>2, <2>1 DEF ToolCall
  <2> QED
    BY <2>2, ArgsListed
<1> QED
  BY <1>1, <1>2

\* The end of an answer closes every block.
LEMMA CloseFinished ==
    ASSUME NEW c \in ClientType, NEW o \in OpenAIType, Listed(c, o), ~o.stopped, ~o.delta,
           ~o.stop, o.finish # "none"
    PROVE  LET r == CloseBlocks(c, o) IN
           Finished(r.c, r.o) /\ ~r.o.delta /\ r.o.finish = o.finish
<1> DEFINE a == StopBoth(c, o)
           d == a.c
           e == a.o
           begun == {i \in ToolIndexes : e.tools[i].index # NoBlock}
           blocks == {<<e.tools[i].index, "tool_use">> : i \in begun}
           t == [i \in ToolIndexes |-> [e.tools[i] EXCEPT !.index = NoBlock]]
<1>1. Listed(d, e) /\ Kept(e, o) /\ e.text = NoBlock /\ e.thinking = NoBlock
  BY StopBothListed
<1>2. d \in ClientType /\ e \in OpenAIType
  BY StopTypes DEF PairO
<1>3. CloseBlocks(c, o) = StopTools(d, e)
  BY DEF CloseBlocks
<1> HIDE DEF a, d, e
<1>4. blocks = Blocks(e)
  <2>1. ASSUME NEW b PROVE b \in blocks <=> b \in Blocks(e)
    BY <1>1, <1>2, InBlocks
  <2> QED
    BY <2>1
<1>5. StopTools(d, e) = [c |-> Accept(d, begun = {} \/ (d.message = "open" /\ blocks \subseteq d.open),
                                      [d EXCEPT !.open = @ \ blocks]),
                         o |-> [e EXCEPT !.stopped = TRUE, !.tools = t]]
  <2>1. ~e.stopped
    BY <1>1 DEF Kept
  <2> QED
    BY <2>1 DEF StopTools
<1> HIDE DEF begun, blocks, t
<1>6. Accept(d, begun = {} \/ (d.message = "open" /\ blocks \subseteq d.open),
             [d EXCEPT !.open = @ \ blocks]) = [d EXCEPT !.open = {}]
  <2>1. d.ok /\ d.message = "open" /\ d.open = blocks
    BY <1>1, <1>4 DEF Listed
  <2>2. blocks \ blocks = {}
    OBVIOUS
  <2> QED
    BY <2>1, <2>2 DEF Accept
<1> DEFINE f == [d EXCEPT !.open = {}]
           q == [e EXCEPT !.stopped = TRUE, !.tools = t]
<1>7. f.ok /\ f.message = "open" /\ f.open = {}
  BY <1>1, <1>2 DEF Listed, ClientType
<1>8. /\ q.stopped /\ q.text = NoBlock /\ q.thinking = NoBlock /\ q.finish = o.finish
      /\ ~q.delta /\ ~q.stop
  BY <1>1, <1>2 DEF OpenAIType, Kept
<1>9. CloseBlocks(c, o) = [c |-> f, o |-> q]
  BY <1>3, <1>5, <1>6
<1> HIDE DEF f, q
<1> QED
  BY <1>7, <1>8, <1>9 DEF Finished

\* Usage ends the message, once.
LEMMA UsageFinished ==
    ASSUME NEW c \in ClientType, NEW o \in OpenAIType, Finished(c, o), ~o.delta
    PROVE  LET r == Usage(c, o) IN Finished(r.c, r.o)
<1> DEFINE d == MessageDelta(c, o.finish)
           e == [o EXCEPT !.delta = TRUE]
           q == [e EXCEPT !.stop = TRUE]
<1>1. d = [c EXCEPT !.message = "told", !.reason = o.finish]
  BY DEF Finished, MessageDelta, Accept
<1>2. d.ok /\ d.open = {} /\ d.message = "told" /\ d \in ClientType
  BY <1>1, EventTypes DEF Finished, ClientType, OpenAIType
<1>3. ~e.stop
  BY DEF Finished, OpenAIType
<1>4. /\ q.delta /\ q.stop /\ q.finish # "none" /\ q.stopped
      /\ q.text = NoBlock /\ q.thinking = NoBlock
  BY DEF Finished, OpenAIType
<1> HIDE DEF d
<1>5. MessageStop(d) = [d EXCEPT !.message = "stopped"]
  BY <1>2 DEF MessageStop, Accept
<1>6. MessageStop(d).ok /\ MessageStop(d).open = {} /\ MessageStop(d).message = "stopped"
  BY <1>2, <1>5 DEF ClientType
<1>7. Usage(c, o) = [c |-> MessageStop(d), o |-> q]
  BY <1>3 DEF Usage, StopOnce, When, Finished, d
<1> HIDE DEF e, q
<1> QED
  BY <1>4, <1>6, <1>7 DEF Finished

LEMMA FinishTracks ==
    ASSUME NEW d, PairO(d), Listed(d.c, d.o), Running(d.o),
           NEW why \in {"none", "tool_use", "end_turn"}, NEW usage \in BOOLEAN,
           Finish(d, why, usage)
    PROVE  IF why = "none" THEN client' = d.c /\ openai' = d.o ELSE Finished(client', openai')
<1>1. CASE why = "none"
  <2>1. Usage(d.c, d.o) = [c |-> d.c, o |-> d.o]
    BY DEF Usage, Running
  <2> QED
    BY <1>1, <2>1 DEF Finish
<1>2. CASE why # "none"
  <2> DEFINE q == [d.o EXCEPT !.finish = why]
             f == CloseBlocks(d.c, q)
  <2>1. /\ q \in OpenAIType /\ q.finish = why /\ ~q.stopped /\ ~q.delta /\ ~q.stop
        /\ q.text = d.o.text /\ q.thinking = d.o.thinking /\ q.tools = d.o.tools
        /\ q.next = d.o.next
    BY DEF PairO, OpenAIType, Running
  <2> HIDE DEF q
  <2>2. Listed(d.c, q)
    <3>1. Blocks(q) = Blocks(d.o)
      BY <2>1 DEF Blocks
    <3> QED
      BY <2>1, <3>1 DEF Listed
  <2>3. Finished(f.c, f.o) /\ ~f.o.delta
    BY <1>2, <2>1, <2>2, CloseFinished DEF PairO
  <2>4. f.c \in ClientType /\ f.o \in OpenAIType
    BY <2>1, CloseType DEF PairO
  <2>5. LET u == IF usage THEN Usage(f.c, f.o) ELSE f IN client' = u.c /\ openai' = u.o
    BY <1>2 DEF Finish, q
  <2> HIDE DEF f
  <2>6. LET u == Usage(f.c, f.o) IN Finished(u.c, u.o)
    BY <2>3, <2>4, UsageFinished
  <2> QED
    BY <1>2, <2>3, <2>5, <2>6
<1> QED
  BY <1>1, <1>2

\* Of an answer that has its finish reason nothing is open.
LEMMA FinishedClosed ==
    ASSUME NEW c \in ClientType, NEW o \in OpenAIType, Finished(c, o)
    PROVE  CloseBlocks(c, o) = [c |-> c, o |-> o]
<1>1. o.stopped /\ o.text = NoBlock /\ o.thinking = NoBlock
  BY DEF Finished
<1>2. [o EXCEPT !.text = NoBlock] = o /\ [o EXCEPT !.thinking = NoBlock] = o
  BY <1>1 DEF OpenAIType
<1>3. StopThinking(c, o) = [c |-> c, o |-> o] /\ StopText(c, o) = [c |-> c, o |-> o]
  BY <1>1, <1>2 DEF StopText, StopThinking, When
<1>4. StopBoth(c, o) = [c |-> c, o |-> o]
  BY <1>3 DEF StopBoth
<1>5. StopTools(c, o) = [c |-> c, o |-> o]
  BY <1>1 DEF StopTools
<1> QED
  BY <1>4, <1>5 DEF CloseBlocks

LEMMA OpenAIStep ==
    ASSUME IInv, upstream'.lapses \cap Causes = {}, translator = "openai",
           \/ \E part \in Deltas, finish \in BOOLEAN, usage \in BOOLEAN :
                 OpenAISends(part, finish, usage)
           \/ \E i \in ToolIndexes, named \in BOOLEAN, finish \in BOOLEAN, usage \in BOOLEAN :
                 OpenAICalls(i, named, finish, usage)
           \/ OpenAIUsage \/ OpenAIEnds \/ OpenAICut
    PROVE  client'.ok /\ OpenAITracks'
<1> DEFINE s == Started(client, openai)
<1>1. /\ client \in ClientType /\ openai \in OpenAIType /\ upstream \in UpstreamType
      /\ upstream.lapses \cap Causes = {} => client.ok /\ OpenAITracks
  BY DEF IInv, ClaudeTypeOK, Tracks
<1>2. PairO(s)
  BY StartedType DEF IInv
<1>3. ASSUME Ongoing, upstream.lapses \cap Causes = {}
      PROVE  Listed(s.c, s.o) /\ Running(s.o) /\ s.o.started
  <2>1. CASE openai.started
    <3>1. s.c = client /\ s.o = openai
      BY <1>1, <2>1 DEF Started, When, OpenAIType
    <3> QED
      BY <1>1, <1>3, <2>1, <3>1 DEF OpenAITracks
  <2>2. CASE ~openai.started
    <3>1. Idle /\ openai = NewOpenAI
      BY <1>1, <1>3, <2>2 DEF OpenAITracks
    <3>2. s.c = [client EXCEPT !.message = "open"] /\ s.o = [NewOpenAI EXCEPT !.started = TRUE]
      BY <3>1 DEF Started, When, MessageStart, Accept, Idle, NewOpenAI
    <3>3. s.c.ok /\ s.c.message = "open" /\ s.c.open = {} /\ s.c.count = 0
      BY <1>1, <3>1, <3>2 DEF Idle, ClientType
    <3>4. /\ s.o.text = NoBlock /\ s.o.thinking = NoBlock /\ s.o.next = 0
          /\ \A j \in ToolIndexes : s.o.tools[j].index = NoBlock
      BY <3>2 DEF NewOpenAI, NewTool
    <3>5. Running(s.o) /\ s.o.started
      BY <3>2 DEF NewOpenAI, Running
    <3> HIDE DEF s
    <3>6. Blocks(s.o) = {}
      <4>1. ASSUME NEW b PROVE b \notin Blocks(s.o)
        BY <1>2, <3>4, InBlocks DEF PairO
      <4> QED
        BY <4>1
    <3> QED
      BY <3>3, <3>4, <3>5, <3>6 DEF Listed
  <2> QED
    BY <2>1, <2>2
<1>4. ASSUME NEW d, PairO(d), Listed(d.c, d.o), Alike(d.o, s.o), Running(s.o), s.o.started,
             NEW why \in {"none", "tool_use", "end_turn"}, NEW w \in BOOLEAN,
             Finish(d, why, w),
             upstream'.phase = IF why = "none" THEN "answer" ELSE "finished"
      PROVE  client'.ok /\ OpenAITracks'
  <2>1. Running(d.o) /\ d.o.started
    BY <1>4 DEF Alike, Running
  <2>2. IF why = "none" THEN client' = d.c /\ openai' = d.o ELSE Finished(client', openai')
    BY <1>4, <2>1, FinishTracks
  <2>3. CASE why = "none"
    <3>1. client' = d.c /\ openai' = d.o /\ upstream'.phase = "answer"
      BY <1>4, <2>2, <2>3
    <3>2. Listed(client', openai') /\ Running(openai') /\ openai'.started
      BY <1>4, <2>1, <3>1
    <3> QED
      BY <3>1, <3>2 DEF OpenAITracks, Ongoing, Listed
  <2>4. CASE why # "none"
    <3>1. Finished(client', openai') /\ upstream'.phase = "finished"
      BY <1>4, <2>2, <2>4
    <3> QED
      BY <3>1 DEF OpenAITracks, Ongoing, Finished
  <2> QED
    BY <2>3, <2>4
<1> HIDE DEF s
<1>5. ASSUME NEW part \in Deltas, NEW finish \in BOOLEAN, NEW usage \in BOOLEAN,
             OpenAISends(part, finish, usage)
      PROVE  client'.ok /\ OpenAITracks'
  <2>1. Note(PhaseAfter(finish), 0, {})
    BY <1>5 DEF OpenAISends
  <2>2. upstream.lapses \cap Causes = {} /\ upstream'.phase = PhaseAfter(finish)
    BY <2>1, NoLapse DEF IInv
  <2>3. Listed(s.c, s.o) /\ Running(s.o) /\ s.o.started
    BY <1>3, <1>5, <2>2 DEF OpenAISends
  <2> DEFINE d == Delta(s.c, s.o, part)
  <2>4. PairO(d)
    BY <1>2, BlockTypesOfOpenAI DEF Delta, Deltas, PairO
  <2>5. Listed(d.c, d.o) /\ Alike(d.o, s.o)
    BY <1>2, <2>3, ContentListed, ReasoningListed DEF Delta, Deltas, PairO, Alike
  <2> DEFINE why == WhyOf(finish, upstream.calls)
  <2>6. /\ why \in {"none", "tool_use", "end_turn"}
        /\ upstream'.phase = IF why = "none" THEN "answer" ELSE "finished"
    BY <2>2 DEF WhyOf, Reason, PhaseAfter
  <2>7. Finish(d, why, usage)
    BY <1>5 DEF OpenAISends, s
  <2> HIDE DEF d, why
  <2> QED
    BY <1>4, <2>3, <2>4, <2>5, <2>6, <2>7
<1>6. ASSUME NEW i \in ToolIndexes, NEW named \in BOOLEAN, NEW finish \in BOOLEAN,
             NEW usage \in BOOLEAN, OpenAICalls(i, named, finish, usage)
      PROVE  client'.ok /\ OpenAITracks'
  <2> DEFINE new == <<openai.tools[i].index, "tool_use">> \notin client.open
             S == If(named /\ openai.tools[i].index # NoBlock, "name again")
                    \cup If(~named /\ new, "no name")
  <2>1. \E n : Note(PhaseAfter(finish), n, S)
    BY <1>6 DEF OpenAICalls
  <2> HIDE DEF S, new
  <2>2. /\ upstream.lapses \cap Causes = {} /\ S \cap Causes = {}
        /\ upstream'.phase = PhaseAfter(finish)
    BY <2>1, NoLapse DEF IInv
  <2>3. Listed(s.c, s.o) /\ Running(s.o) /\ s.o.started
    BY <1>3, <1>6, <2>2 DEF OpenAICalls
  <2>4. named <=> openai.tools[i].index = NoBlock
    <3>1. named => openai.tools[i].index = NoBlock
      BY <2>2 DEF S, If, Causes
    <3>2. ASSUME ~named PROVE openai.tools[i].index # NoBlock
      <4>1. <<openai.tools[i].index, "tool_use">> \in client.open
        BY <2>2, <3>2 DEF S, If, Causes, new
      <4>2. client.open \subseteq Nat \X BlockTypes
        BY <1>1 DEF ClientType
      <4>3. openai.tools[i].index \in Nat
        BY <4>1, <4>2
      <4> QED
        BY <4>3 DEF NoBlock
    <3> QED
      BY <3>1, <3>2
  <2>5. s.o.tools = openai.tools
    BY <1>1 DEF s, Started, OpenAIType
  <2> DEFINE d == ToolCall(s.c, s.o, i, named)
  <2>6. PairO(d)
    BY <1>2, ToolCallType DEF PairO
  <2>7. Listed(d.c, d.o) /\ Alike(d.o, s.o)
    BY <1>2, <2>3, <2>4, <2>5, CallListed DEF PairO
  <2> DEFINE why == WhyOf(finish, 1)
  <2>8. /\ why \in {"none", "tool_use", "end_turn"}
        /\ upstream'.phase = IF why = "none" THEN "answer" ELSE "finished"
    BY <2>2 DEF WhyOf, Reason, PhaseAfter
  <2>9. Finish(d, why, usage)
    BY <1>6 DEF OpenAICalls, s
  <2> HIDE DEF d, why
  <2> QED
    BY <1>4, <2>3, <2>6, <2>7, <2>8, <2>9
<1>7. CASE OpenAIUsage
  <2>1. Note("finished", 0, If(openai.delta, "usage again"))
    BY <1>7 DEF OpenAIUsage
  <2>2. /\ upstream.lapses \cap Causes = {} /\ upstream'.phase = "finished"
        /\ If(openai.delta, "usage again") \cap Causes = {}
    BY <2>1, NoLapse DEF IInv
  <2>3. ~openai.delta
    BY <2>2 DEF If, Causes
  <2>4. Finished(client, openai)
    BY <1>1, <1>7, <2>2 DEF OpenAIUsage, OpenAITracks
  <2>5. LET u == Usage(client, openai) IN Finished(u.c, u.o)
    BY <1>1, <2>3, <2>4, UsageFinished
  <2>6. LET u == Usage(client, openai) IN client' = u.c /\ openai' = u.o
    BY <1>7 DEF OpenAIUsage, Finish
  <2>7. Finished(client', openai')
    BY <2>5, <2>6
  <2> QED
    BY <2>2, <2>7 DEF OpenAITracks, Ongoing, Finished
<1>8. CASE OpenAIEnds
  <2>1. Note("over", 0, If(upstream.phase # "finished", "cut"))
    BY <1>8 DEF OpenAIEnds
  <2>2. /\ upstream.lapses \cap Causes = {} /\ upstream'.phase = "over"
        /\ If(upstream.phase # "finished", "cut") \cap Causes = {}
    BY <2>1, NoLapse DEF IInv
  <2>3. upstream.phase = "finished"
    BY <2>2 DEF If, Causes
  <2>4. Finished(client, openai)
    BY <1>1, <2>2, <2>3 DEF OpenAITracks
  <2>5. CloseBlocks(client, openai) = [c |-> client, o |-> openai]
    BY <1>1, <2>4, FinishedClosed
  <2> DEFINE c1 == When(~openai.delta, client, MessageDelta(client, openai.finish))
  <2>6. client' = StopOnce(c1, [openai EXCEPT !.delta = @ \/ ~openai.delta]).c
    BY <1>8, <2>4, <2>5 DEF OpenAIEnds, OpenAIDone, Finished
  <2>7. client' = When(~openai.stop, c1, MessageStop(c1))
    BY <1>1, <2>6 DEF StopOnce, OpenAIType
  <2>8. CASE openai.delta
    <3>1. client' = client
      BY <2>4, <2>7, <2>8 DEF Finished, When
    <3> QED
      BY <2>2, <2>4, <3>1 DEF Finished, OpenAITracks, Ongoing
  <2>9. CASE ~openai.delta
    <3>1. c1 = [client EXCEPT !.message = "told", !.reason = openai.finish]
      BY <2>4, <2>9 DEF When, MessageDelta, Accept, Finished
    <3>2. c1.ok /\ c1.open = {} /\ c1.message = "told"
      BY <1>1, <2>4, <3>1 DEF Finished, ClientType
    <3>3. c1 \in ClientType
      BY <1>1, <3>1 DEF ClientType, OpenAIType
    <3>4. client' = MessageStop(c1)
      BY <2>4, <2>7, <2>9 DEF Finished, When
    <3> HIDE DEF c1
    <3>5. client'.ok
      BY <3>2, <3>3, <3>4 DEF MessageStop, Accept, ClientType
    <3> QED
      BY <2>2, <3>5 DEF OpenAITracks, Ongoing
  <2> QED
    BY <2>8, <2>9
<1>9. CASE OpenAICut
  <2>1. Note("over", 0, If(upstream.phase # "finished" \/ ~openai.stop, "cut"))
    BY <1>9 DEF OpenAICut
  <2>2. upstream.lapses \cap Causes = {} /\ upstream'.phase = "over"
    BY <2>1, NoLapse DEF IInv
  <2>3. client' = client
    BY <1>9 DEF OpenAICut
  <2> QED
    BY <1>1, <2>2, <2>3 DEF OpenAITracks, Ongoing
<1> QED
  BY <1>5, <1>6, <1>7, <1>8, <1>9

-----------------------------------------------------------------------------
LEMMA TrackInit == ClaudeInit => Tracks
BY DEF ClaudeInit, Tracks, GeminiTracks, CodexTracks, OpenAITracks, Ongoing, Idle, Running,
       NewClient, NewParams, NewOpenAI, GeminiKinds

LEMMA TrackStep == IInv /\ [ClaudeNext]_claudeVars => Tracks'
<1> SUFFICES ASSUME IInv, [ClaudeNext]_claudeVars, upstream'.lapses \cap Causes = {}
             PROVE  /\ client'.ok
                    /\ translator' \in GeminiKinds => GeminiTracks'
                    /\ translator' = "codex" => CodexTracks'
                    /\ translator' = "openai" => OpenAITracks'
  BY DEF Tracks
<1>1. "openai" \notin GeminiKinds /\ "codex" \notin GeminiKinds
  BY DEF GeminiKinds
<1> DEFINE G == translator' = translator /\ translator \in GeminiKinds /\ client'.ok /\ GeminiTracks'
           O == translator' = translator /\ translator = "openai" /\ client'.ok /\ OpenAITracks'
           C == translator' = translator /\ translator = "codex" /\ client'.ok /\ CodexTracks'
<1>2. ASSUME NEW part \in Parts, NEW finish \in BOOLEAN,
             NEW usage \in {"none", "other", "candidates"}, GeminiSends(part, finish, usage)
      PROVE  G
  <2>1. translator' = translator /\ translator \in GeminiKinds
    BY <1>2 DEF GeminiSends
  <2> QED
    BY <1>2, <2>1, GeminiStep
<1>3. ASSUME GeminiUsage \/ GeminiEnds PROVE G
  <2>1. translator' = translator /\ translator \in GeminiKinds
    BY <1>3 DEF GeminiUsage, GeminiEnds, GeminiKinds
  <2>2. PICK part \in Parts, finish \in BOOLEAN, usage \in {"none", "other", "candidates"} : TRUE
    BY DEF Parts
  <2>3. client'.ok /\ GeminiTracks'
    BY <1>3, <2>1, GeminiStep
  <2> QED
    BY <2>1, <2>3
<1>4. ASSUME \/ \E part \in Deltas, finish \in BOOLEAN, usage \in BOOLEAN :
                   OpenAISends(part, finish, usage)
             \/ \E i \in ToolIndexes, named \in BOOLEAN, finish \in BOOLEAN, usage \in BOOLEAN :
                   OpenAICalls(i, named, finish, usage)
             \/ OpenAIUsage \/ OpenAIEnds \/ OpenAICut
      PROVE  O
  <2>1. translator' = translator /\ translator = "openai"
    BY <1>4 DEF OpenAISends, OpenAICalls, OpenAIUsage, OpenAIEnds, OpenAICut
  <2> QED
    BY <1>4, <2>1, OpenAIStep
<1>5. ASSUME NEW type \in BlockTypes, CodexSends \/ CodexItem(type) PROVE C
  <2>1. translator' = translator /\ translator = "codex"
    BY <1>5 DEF CodexSends, CodexItem
  <2> QED
    BY <1>5, <2>1, CodexStep
<1>6. ASSUME CodexSends PROVE C
  <2>1. "text" \in BlockTypes
    BY DEF BlockTypes
  <2> QED
    BY <1>5, <1>6, <2>1
<1>7. CASE UNCHANGED claudeVars
  BY <1>7 DEF claudeVars, IInv, Tracks, GeminiTracks, CodexTracks, OpenAITracks, Ongoing, Idle
<1>8. G \/ O \/ C \/ UNCHANGED claudeVars
  BY <1>2, <1>3, <1>4, <1>5, <1>6 DEF ClaudeNext
<1> QED
  BY <1>1, <1>7, <1>8

LEMMA Invariant == ClaudeSpec => []IInv
<1>1. ClaudeInit => IInv
  BY TypeInit, TrackInit DEF IInv
<1>2. IInv /\ [ClaudeNext]_claudeVars => IInv'
  BY TypeStep, TrackStep DEF IInv
<1> QED
  BY <1>1, <1>2, PTL DEF ClaudeSpec

\* Whatever number of parts, calls and chunks an answer has, the client refuses
\* an event of its translation only after one of the upstream's lapses listed in
\* RefusedOnlyAfterLapse.
THEOREM RefusalsExplained == ClaudeSpec => []RefusedOnlyAfterLapse
<1>1. IInv => RefusedOnlyAfterLapse
  BY DEF IInv, Tracks, RefusedOnlyAfterLapse, Causes
<1> QED
  BY <1>1, Invariant, PTL

-----------------------------------------------------------------------------
(* Why an answer has ended: what the client is told, and what it has to call. *)

HasCall(c) == \E b \in c.open : b[2] = "tool_use"

\* From c the client came to d with n more calls, and was told nothing.
Went(c, d, n) ==
    d.ok => /\ c.ok /\ d.used = c.used + n /\ d.reason = c.reason
            /\ HasCall(d) => HasCall(c) \/ n > 0
            /\ d.message = "told" => c.message = "told"

\* It was told why.
Learnt(c, d, why) ==
    d.ok => c.ok /\ d.used = c.used /\ d.reason = why /\ (HasCall(d) => HasCall(c))

LEMMA WentOn ==
    ASSUME NEW c \in ClientType, NEW d \in ClientType, NEW e \in ClientType,
           NEW n \in Nat, NEW m \in Nat, Went(c, d, n)
    PROVE  /\ Went(d, e, m) => Went(c, e, n + m)
           /\ Went(d, e, 0) => Went(c, e, n)
           /\ n = 0 => \A why : Learnt(d, e, why) => Learnt(c, e, why)
<1>1. c.used \in Nat /\ d.used \in Nat /\ e.used \in Nat
  BY DEF ClientType
<1>2. Went(d, e, m) => Went(c, e, n + m)
  BY <1>1 DEF Went
<1>3. Went(d, e, 0) => Went(c, e, n)
  BY <1>1 DEF Went
<1>4. n = 0 => \A why : Learnt(d, e, why) => Learnt(c, e, why)
  BY <1>1 DEF Went, Learnt
<1> QED
  BY <1>2, <1>3, <1>4

LEMMA WentNowhere ==
    ASSUME NEW c \in ClientType
    PROVE  Went(c, c, 0)
BY DEF Went, ClientType

\* An event is refused, or leads to d.
LEMMA EitherWent ==
    ASSUME NEW c \in ClientType, NEW d, NEW e, NEW n,
           e = d \/ e = [c EXCEPT !.ok = FALSE]
    PROVE  /\ Went(c, d, n) => Went(c, e, n)
           /\ \A why : Learnt(c, d, why) => Learnt(c, e, why)
<1>1. ~[c EXCEPT !.ok = FALSE].ok
  BY DEF ClientType
<1>2. CASE e = d
  BY <1>2
<1>3. CASE e = [c EXCEPT !.ok = FALSE]
  BY <1>1, <1>3 DEF Went, Learnt
<1> QED
  BY <1>2, <1>3

LEMMA EventWent ==
    ASSUME NEW c \in ClientType
    PROVE  /\ Went(c, MessageStart(c), 0) /\ Went(c, MessageStop(c), 0)
           /\ \A i \in Nat : Went(c, BlockStop(c, i), 0)
           /\ \A i \in Nat, type \in BlockTypes :
                 /\ Went(c, BlockStart(c, i, type), IF type = "tool_use" THEN 1 ELSE 0)
                 /\ Went(c, BlockDelta(c, i, type), 0)
           /\ \A i \in Nat : BlockDelta(c, i, "tool_use").ok => HasCall(c)
           /\ \A why : Learnt(c, MessageDelta(c, why), why)
<1>1. c.used \in Nat /\ ~[c EXCEPT !.ok = FALSE].ok
  BY DEF ClientType
<1>2. Went(c, MessageStart(c), 0) /\ Went(c, MessageStop(c), 0)
  <2>1. ASSUME NEW m \in {"open", "stopped"} PROVE Went(c, [c EXCEPT !.message = m], 0)
    <3> DEFINE d == [c EXCEPT !.message = m]
    <3>1. /\ d.used = c.used /\ d.open = c.open /\ d.reason = c.reason /\ d.message = m
          /\ d.ok = c.ok
      BY DEF ClientType
    <3> HIDE DEF d
    <3> QED
      BY <1>1, <3>1 DEF Went, HasCall
  <2>2. /\ MessageStart(c) \in {[c EXCEPT !.message = "open"], [c EXCEPT !.ok = FALSE]}
        /\ MessageStop(c) \in {[c EXCEPT !.message = "stopped"], [c EXCEPT !.ok = FALSE]}
    BY DEF MessageStart, MessageStop, Accept
  <2> QED
    BY <2>1, <2>2, EitherWent
<1>3. ASSUME NEW i \in Nat PROVE Went(c, BlockStop(c, i), 0)
  <2> DEFINE d == [c EXCEPT !.open = {b \in @ : b[1] # i}]
  <2>1. /\ d.used = c.used /\ d.open = {b \in c.open : b[1] # i} /\ d.reason = c.reason
        /\ d.message = c.message
    BY DEF ClientType
  <2>2. BlockStop(c, i) = d \/ BlockStop(c, i) = [c EXCEPT !.ok = FALSE]
    BY DEF BlockStop, Accept
  <2>3. d.ok => c.ok
    BY DEF ClientType
  <2> HIDE DEF d
  <2>4. Went(c, d, 0)
    BY <1>1, <2>1, <2>3 DEF Went, HasCall
  <2> QED
    BY <2>2, <2>4, EitherWent
<1>4. ASSUME NEW i \in Nat, NEW type \in BlockTypes
      PROVE  Went(c, BlockStart(c, i, type), IF type = "tool_use" THEN 1 ELSE 0)
  <2> DEFINE d == [c EXCEPT !.open = @ \cup {<<i, type>>}, !.count = @ + 1,
                            !.used = IF type = "tool_use" THEN @ + 1 ELSE @]
  <2>1. /\ d.used = c.used + (IF type = "tool_use" THEN 1 ELSE 0)
        /\ d.open = c.open \cup {<<i, type>>} /\ d.reason = c.reason
        /\ d.message = c.message
    BY <1>1 DEF ClientType
  <2>2. BlockStart(c, i, type) = d \/ BlockStart(c, i, type) = [c EXCEPT !.ok = FALSE]
    BY DEF BlockStart, Accept
  <2>3. d.ok => c.ok
    BY DEF ClientType
  <2> HIDE DEF d
  <2>4. HasCall(d) => HasCall(c) \/ type = "tool_use"
    BY <2>1 DEF HasCall
  <2>5. Went(c, d, IF type = "tool_use" THEN 1 ELSE 0)
    BY <1>1, <2>1, <2>3, <2>4 DEF Went
  <2> QED
    BY <2>2, <2>5, EitherWent
<1>5. ASSUME NEW i \in Nat, NEW type \in BlockTypes
      PROVE  Went(c, BlockDelta(c, i, type), 0) /\ (BlockDelta(c, i, type).ok => <<i, type>> \in c.open)
  <2>1. \/ BlockDelta(c, i, type) = c /\ <<i, type>> \in c.open
        \/ BlockDelta(c, i, type) = [c EXCEPT !.ok = FALSE]
    BY DEF BlockDelta, Accept
  <2>2. Went(c, c, 0)
    BY WentNowhere
  <2> QED
    BY <1>1, <2>1, <2>2, EitherWent
<1>6. ASSUME NEW i \in Nat PROVE BlockDelta(c, i, "tool_use").ok => HasCall(c)
  BY <1>5 DEF HasCall, BlockTypes
<1>7. ASSUME NEW why PROVE Learnt(c, MessageDelta(c, why), why)
  <2> DEFINE d == [c EXCEPT !.message = "told", !.reason = why]
  <2>1. d.used = c.used /\ d.open = c.open /\ d.reason = why /\ (d.ok => c.ok)
    BY DEF ClientType
  <2>2. MessageDelta(c, why) = d \/ MessageDelta(c, why) = [c EXCEPT !.ok = FALSE]
    BY DEF MessageDelta, Accept
  <2> HIDE DEF d
  <2>3. Learnt(c, d, why)
    BY <2>1 DEF Learnt, HasCall
  <2> QED
    BY <2>2, <2>3, EitherWent
<1> QED
  BY <1>2, <1>3, <1>4, <1>5, <1>6, <1>7

LEMMA WhenWent ==
    ASSUME NEW c \in ClientType, NEW d, NEW sent \in BOOLEAN, Went(c, d, 0)
    PROVE  Went(c, When(sent, c, d), 0)
BY WentNowhere DEF When

-----------------------------------------------------------------------------
\* The calls that a part of a Gemini answer makes.
Makes(p, part) ==
    \/ part = "call"
    \/ part = "more args" /\ ~(translator = "gemini" /\ p.type = "tool_use")
Number(b) == IF b THEN 1 ELSE 0

LEMMA TurnWent ==
    ASSUME NEW c \in ClientType, NEW p \in ParamsType, NEW type \in BlockTypes
    PROVE  /\ Went(c, Turn(c, p, type).c, Number(type = "tool_use"))
           /\ type # "tool_use" => Went(c, Continue(c, p, type).c, 0)
           /\ Turn(c, p, type).p.tool = p.tool /\ Continue(c, p, type).p.tool = p.tool
<1> DEFINE i  == IF p.type # "none" THEN p.index + 1 ELSE p.index
           c1 == When(p.type # "none", c, BlockStop(c, p.index))
           c2 == BlockStart(c1, i, type)
           c3 == BlockDelta(c2, i, type)
           n  == Number(type = "tool_use")
<1>1. p.index \in Nat /\ i \in Nat /\ n \in Nat
  BY DEF ParamsType, Number
<1>2. c1 \in ClientType /\ Went(c, c1, 0)
  BY <1>1, EventTypes, EventWent, WhenWent DEF When
<1>3. Turn(c, p, type).c = c3
  BY DEF Turn
<1>4. Turn(c, p, type).p.tool = p.tool /\ Continue(c, p, type).p.tool = p.tool
  BY DEF Turn, Continue, ParamsType
<1> HIDE DEF i, c1
<1>5. c2 \in ClientType /\ Went(c1, c2, n)
  BY <1>1, <1>2, EventTypes, EventWent DEF Number
<1> HIDE DEF c2
<1>6. c3 \in ClientType /\ Went(c2, c3, 0)
  BY <1>1, <1>5, EventTypes, EventWent
<1> HIDE DEF c3, n
<1>7. Went(c, c2, n)
  <2>1. 0 + n = n
    BY <1>1
  <2> QED
    BY <1>1, <1>2, <1>5, <2>1, WentOn
<1>8. Went(c, c3, n)
  BY <1>1, <1>5, <1>6, <1>7, WentOn
<1>9. Went(c, BlockDelta(c, p.index, type), 0)
  BY <1>1, EventWent
<1>10. type # "tool_use" => Went(c, Continue(c, p, type).c, 0)
  BY <1>3, <1>8, <1>9 DEF Continue, n, Number
<1> QED
  BY <1>3, <1>4, <1>8, <1>10 DEF n

LEMMA PartWent ==
    ASSUME NEW c \in ClientType, NEW p \in ParamsType, NEW part \in Parts,
           NEW finish \in BOOLEAN, translator \in GeminiKinds
    PROVE  LET r == Part(c, p, part, finish) IN
           /\ Went(c, r.c, Number(Makes(p, part)))
           /\ part = "more args" /\ ~Makes(p, part) /\ r.c.ok => HasCall(c)
           /\ r.p.tool = (p.tool \/ (translator = "antigravity" /\ part \in {"call", "more args"}))
<1>1. p.index \in Nat /\ p.tool \in BOOLEAN
  BY DEF ParamsType
<1>2. /\ [p EXCEPT !.content = TRUE].tool = p.tool
      /\ [p EXCEPT !.index = @ + 1].tool = p.tool
  BY DEF ParamsType
<1>3. Went(c, c, 0)
  BY WentNowhere
<1>4. /\ Went(c, EmptyText(c, p, finish).c, 0) /\ EmptyText(c, p, finish).p.tool = p.tool
  <2>1. Went(c, BlockDelta(c, p.index, "text"), 0) /\ Went(c, BlockStop(c, p.index), 0)
    BY <1>1, EventWent DEF BlockTypes
  <2> QED
    BY <1>2, <1>3, <2>1 DEF EmptyText
<1>5. ASSUME NEW named \in BOOLEAN
      PROVE  LET r == Call(c, p, named)
                 n == ~(translator = "gemini" /\ ~named /\ p.type = "tool_use")
             IN  /\ Went(c, r.c, Number(n)) /\ (~n /\ r.c.ok => HasCall(c))
                 /\ r.p.tool = (p.tool \/ translator = "antigravity")
  <2> DEFINE q == [p EXCEPT !.tool = translator = "antigravity" \/ @]
  <2>1. q \in ParamsType /\ q.tool = (p.tool \/ translator = "antigravity")
    BY <1>1 DEF ParamsType
  <2> HIDE DEF q
  <2>2. /\ Went(c, Turn(c, q, "tool_use").c, 1) /\ Turn(c, q, "tool_use").p.tool = q.tool
    <3>1. Number("tool_use" = "tool_use") = 1
      BY DEF Number
    <3> QED
      BY <2>1, <3>1, TurnWent DEF BlockTypes
  <2>3. /\ Went(c, BlockDelta(c, p.index, "tool_use"), 0)
        /\ BlockDelta(c, p.index, "tool_use").ok => HasCall(c)
    BY <1>1, EventWent DEF BlockTypes
  <2>4. CASE translator = "gemini" /\ ~named /\ p.type = "tool_use"
    <3>1. Call(c, p, named) = [c |-> BlockDelta(c, p.index, "tool_use"), p |-> p]
      BY <2>4 DEF Call
    <3> QED
      BY <1>1, <2>3, <2>4, <3>1 DEF Number
  <2>5. CASE ~(translator = "gemini" /\ ~named /\ p.type = "tool_use")
    <3>1. Call(c, p, named) = Turn(c, q, "tool_use")
      BY <2>5 DEF Call, q
    <3> QED
      BY <2>1, <2>2, <2>5, <3>1 DEF Number
  <2> QED
    BY <2>4, <2>5
<1>6. Went(c, BlockDelta(c, p.index, "thinking"), 0)
  BY <1>1, EventWent DEF BlockTypes
<1>7. /\ Went(c, Continue(c, p, "text").c, 0) /\ Went(c, Continue(c, p, "thinking").c, 0)
      /\ Continue(c, p, "text").p.tool = p.tool /\ Continue(c, p, "thinking").p.tool = p.tool
  BY TurnWent DEF BlockTypes
<1> DEFINE r == Part(c, p, part, finish)
<1>8. CASE part \in {"none", "text", "empty", "thought", "signature"}
  <2>1. Number(Makes(p, part)) = 0
    BY <1>8 DEF Number, Makes
  <2>2. Went(c, r.c, 0) /\ r.p.tool = p.tool
    <3>1. CASE part = "none"
      BY <1>3, <3>1 DEF Part
    <3>2. CASE part = "text" \/ part = "thought"
      BY <1>7, <3>2 DEF Part
    <3>3. CASE part = "empty"
      BY <1>4, <1>7, <3>3 DEF Part
    <3>4. CASE part = "signature"
      BY <1>2, <1>6, <1>7, <3>4 DEF Part
    <3> QED
      BY <1>8, <3>1, <3>2, <3>3, <3>4
  <2> HIDE DEF r
  <2>3. r.p.tool = (p.tool \/ (translator = "antigravity" /\ part \in {"call", "more args"}))
    BY <1>1, <1>8, <2>2
  <2> QED
    BY <1>8, <2>1, <2>2, <2>3 DEF r
<1>9. CASE part = "call"
  <2>1. r = Call(c, p, TRUE) /\ Makes(p, part)
    BY <1>9 DEF Part, Makes
  <2> HIDE DEF r
  <2>2. Went(c, r.c, Number(Makes(p, part))) /\ r.p.tool = (p.tool \/ translator = "antigravity")
    BY <1>5, <2>1
  <2> QED
    BY <1>9, <2>2 DEF r
<1>10. CASE part = "more args"
  <2>1. /\ r = Call(c, p, FALSE)
        /\ Makes(p, part) = ~(translator = "gemini" /\ ~FALSE /\ p.type = "tool_use")
    BY <1>10 DEF Part, Makes
  <2> HIDE DEF r
  <2>2. /\ Went(c, r.c, Number(Makes(p, part))) /\ r.p.tool = (p.tool \/ translator = "antigravity")
        /\ ~Makes(p, part) /\ r.c.ok => HasCall(c)
    BY <1>5, <2>1
  <2> QED
    BY <1>10, <2>2 DEF r
<1> QED
  BY <1>8, <1>9, <1>10 DEF Parts

LEMMA PartFinish ==
    ASSUME NEW c \in ClientType, NEW p \in ParamsType, NEW part \in Parts,
           NEW finish \in BOOLEAN
    PROVE  Part(c, p, part, finish).p.finish = p.finish
<1>1. /\ [p EXCEPT !.content = TRUE].finish = p.finish
      /\ [p EXCEPT !.index = @ + 1].finish = p.finish
      /\ [p EXCEPT !.tool = translator = "antigravity" \/ @].finish = p.finish
  BY DEF ParamsType
<1>2. ASSUME NEW q \in ParamsType, NEW type \in BlockTypes
      PROVE  Turn(c, q, type).p.finish = q.finish /\ Continue(c, q, type).p.finish = q.finish
  BY DEF Turn, Continue, ParamsType
<1>3. [p EXCEPT !.tool = translator = "antigravity" \/ @] \in ParamsType
  BY DEF ParamsType
<1>4. EmptyText(c, p, finish).p.finish = p.finish
  BY <1>1 DEF EmptyText
<1>5. \A named \in BOOLEAN : Call(c, p, named).p.finish = p.finish
  BY <1>1, <1>2, <1>3 DEF Call, BlockTypes
<1>6. /\ Continue(c, p, "text").p.finish = p.finish
      /\ Continue(c, p, "thinking").p.finish = p.finish
  BY <1>2 DEF BlockTypes
<1> QED
  BY <1>1, <1>4, <1>5, <1>6 DEF Part, Parts

\* The last events tell the client why the answer has ended, or nothing happens.
LEMMA FinalWent ==
    ASSUME NEW c \in ClientType, NEW p \in ParamsType, NEW force \in BOOLEAN
    PROVE  LET r == FinalEvents(c, p, force) IN
           /\ r.p.tool = p.tool
           /\ r = [c |-> c, p |-> p] \/ Learnt(c, r.c, Reason(p.tool))
<1> DEFINE d == When(p.type # "none", c, BlockStop(c, p.index))
<1>1. p.index \in Nat /\ [p EXCEPT !.type = "none", !.final = TRUE].tool = p.tool
  BY DEF ParamsType
<1>2. d \in ClientType /\ Went(c, d, 0)
  BY <1>1, EventTypes, EventWent, WhenWent DEF When
<1>3. MessageDelta(d, Reason(p.tool)) \in ClientType
  BY <1>2, EventTypes DEF Reason
<1>4. Learnt(c, MessageDelta(d, Reason(p.tool)), Reason(p.tool))
  BY <1>2, <1>3, EventWent, WentOn
<1> HIDE DEF d
<1> QED
  BY <1>1, <1>4 DEF FinalEvents, d

LEMMA Agree ==
    ASSUME NEW x, NEW n, x = "tool_use" <=> n > 0
    PROVE  (x = "tool_use") = (n > 0)
OBVIOUS

LEMMA ReasonTrue ==
    ASSUME NEW b, NEW n, b <=> n > 0
    PROVE  (Reason(b) = "tool_use") = (n > 0)
<1>1. CASE n > 0
  <2>1. b
    BY <1>1
  <2>2. Reason(b) = "tool_use"
    BY <2>1 DEF Reason
  <2> QED
    BY <1>1, <2>2
<1>2. CASE ~(n > 0)
  <2>1. ~b
    BY <1>2
  <2>2. Reason(b) # "tool_use"
    BY <2>1 DEF Reason
  <2> QED
    BY <1>2, <2>2
<1> QED
  BY <1>1, <1>2

\* Antigravity remembers calls, the others look at the last part.
WhyTold(part, tool) ==
    Reason(IF translator = "antigravity" THEN tool ELSE part \in {"call", "more args"})

\* A chunk: calls are made, and then the client may be told the reason.
Chunked(part, finish) ==
    /\ params'.tool = (params.tool \/ (translator = "antigravity" /\ part \in {"call", "more args"}))
    /\ params'.finish => params.finish \/ finish
    /\ \E a \in ClientType :
          /\ Went(client, a, Number(Makes(params, part)))
          /\ part = "more args" /\ ~Makes(params, part) /\ a.ok => HasCall(client)
          /\ \/ client' = a
             \/ /\ finish \/ params.finish
                /\ Learnt(a, client', WhyTold(part, params'.tool))

LEMMA ChunkWent ==
    ASSUME ClaudeTypeOK, translator \in GeminiKinds, NEW part \in Parts,
           NEW finish \in BOOLEAN, NEW usage, GeminiChunk(part, finish, usage)
    PROVE  Chunked(part, finish)
<1> DEFINE c0 == Greet(client, params)
           p0 == [params EXCEPT !.first = TRUE]
           a  == Part(c0, p0, part, finish)
           n  == Number(Makes(params, part))
           made == part \in {"call", "more args"}
           q == [a.p EXCEPT !.finish = @ \/ finish, !.usage = @ \/ usage # "none"]
<1>1. c0 \in ClientType /\ Went(client, c0, 0)
  BY EventTypes, EventWent, WhenWent DEF Greet, When, ClaudeTypeOK, ParamsType
<1>2. /\ p0 \in ParamsType /\ p0.tool = params.tool /\ p0.type = params.type
      /\ p0.finish = params.finish
  BY DEF ClaudeTypeOK, ParamsType
<1>3. Makes(p0, part) = Makes(params, part) /\ n \in Nat
  BY <1>2 DEF Makes, Number
<1>4. IF translator = "antigravity"
      THEN /\ client' = EndWhenBoth(a.c, a.p, finish, usage).c
           /\ params' = EndWhenBoth(a.c, a.p, finish, usage).p
      ELSE /\ client' = EndInChunk(a.c, a.p, part, finish, usage).c
           /\ params' = EndInChunk(a.c, a.p, part, finish, usage).p
  BY DEF GeminiChunk
<1> HIDE DEF c0, p0
<1>5. /\ a.c \in ClientType /\ a.p \in ParamsType
      /\ Went(c0, a.c, n)
      /\ part = "more args" /\ ~Makes(params, part) /\ a.c.ok => HasCall(c0)
      /\ a.p.tool = (params.tool \/ (translator = "antigravity" /\ made))
  BY <1>1, <1>2, <1>3, PartType, PartWent DEF Pair
<1>6. a.p.finish = params.finish
  BY <1>1, <1>2, PartFinish
<1> HIDE DEF a
<1>7. Went(client, a.c, n)
  <2>1. 0 + n = n
    BY <1>3
  <2> HIDE DEF n
  <2> QED
    BY <1>1, <1>3, <1>5, <2>1, WentOn DEF ClaudeTypeOK
<1>8. part = "more args" /\ ~Makes(params, part) /\ a.c.ok => HasCall(client)
  <2>1. a.c.ok => c0.ok
    BY <1>5 DEF Went
  <2>2. c0.ok /\ HasCall(c0) => HasCall(client)
    BY <1>1 DEF Went
  <2> QED
    BY <1>5, <2>1, <2>2
<1> HIDE DEF n, made
<1>9. CASE translator # "antigravity"
  <2>1. /\ params' = a.p
        /\ client' = a.c \/ (finish /\ client' = MessageDelta(BlockStop(a.c, a.p.index), Reason(made)))
    BY <1>4, <1>9 DEF EndInChunk, When, made
  <2>2. BlockStop(a.c, a.p.index) \in ClientType /\ Went(a.c, BlockStop(a.c, a.p.index), 0)
    BY <1>5, EventTypes, EventWent DEF ParamsType
  <2>3. MessageDelta(BlockStop(a.c, a.p.index), Reason(made)) \in ClientType
    BY <2>2, EventTypes DEF Reason
  <2>4. Learnt(a.c, MessageDelta(BlockStop(a.c, a.p.index), Reason(made)), Reason(made))
    BY <1>5, <2>2, <2>3, EventWent, WentOn
  <2> QED
    BY <1>5, <1>6, <1>7, <1>8, <1>9, <2>1, <2>4 DEF made, n, Chunked, WhyTold
<1>10. CASE translator = "antigravity"
  <2>1. /\ q \in ParamsType /\ q.tool = a.p.tool /\ q.finish = (params.finish \/ finish)
    BY <1>5, <1>6 DEF ParamsType
  <2>2. IF q.finish /\ q.usage THEN client' = FinalEvents(a.c, q, FALSE).c /\ params' = FinalEvents(a.c, q, FALSE).p
                               ELSE client' = a.c /\ params' = q
    BY <1>4, <1>10 DEF EndWhenBoth
  <2> HIDE DEF q
  <2>3. /\ FinalEvents(a.c, q, FALSE).p.tool = q.tool
        /\ \/ FinalEvents(a.c, q, FALSE) = [c |-> a.c, p |-> q]
           \/ Learnt(a.c, FinalEvents(a.c, q, FALSE).c, Reason(q.tool))
        /\ FinalEvents(a.c, q, FALSE).p.finish = q.finish
    <3>1. FinalEvents(a.c, q, FALSE).p.finish = q.finish
      BY <2>1 DEF FinalEvents, ParamsType
    <3> QED
      BY <1>5, <2>1, <3>1, FinalWent
  <2>4. params'.tool = q.tool /\ params'.finish = q.finish
    BY <2>2, <2>3
  <2>5. client' = a.c \/ (q.finish /\ Learnt(a.c, client', Reason(q.tool)))
    <3> DEFINE f == FinalEvents(a.c, q, FALSE)
    <3>1. f = [c |-> a.c, p |-> q] \/ Learnt(a.c, f.c, Reason(q.tool))
      BY <2>3
    <3>2. IF q.finish /\ q.usage THEN client' = f.c ELSE client' = a.c
      BY <2>2
    <3> HIDE DEF f
    <3>3. f = [c |-> a.c, p |-> q] => f.c = a.c
      OBVIOUS
    <3> QED
      BY <3>1, <3>2, <3>3
  <2>6. params'.tool = (params.tool \/ (translator = "antigravity" /\ part \in {"call", "more args"}))
    <3>1. a.p.tool = (params.tool \/ (translator = "antigravity" /\ part \in {"call", "more args"}))
      BY <1>5 DEF made
    <3>2. params'.tool = a.p.tool
      BY <2>1, <2>4
    <3> QED
      BY <3>1, <3>2
  <2>7. params'.finish => params.finish \/ finish
    BY <2>1, <2>4
  <2>8. \/ client' = a.c
        \/ /\ finish \/ params.finish
           /\ Learnt(a.c, client', WhyTold(part, params'.tool))
    BY <1>10, <2>1, <2>4, <2>5 DEF WhyTold
  <2>9. Went(client, a.c, Number(Makes(params, part))) /\ a.c \in ClientType
    BY <1>5, <1>7 DEF n
  <2> QED
    <3>1. \E b \in ClientType :
             /\ Went(client, b, Number(Makes(params, part)))
             /\ part = "more args" /\ ~Makes(params, part) /\ b.ok => HasCall(client)
             /\ \/ client' = b
                \/ /\ finish \/ params.finish
                   /\ Learnt(b, client', WhyTold(part, params'.tool))
      BY <1>8, <2>8, <2>9
    <3> QED
      BY <2>6, <2>7, <3>1 DEF Chunked
<1> QED
  BY <1>9, <1>10

-----------------------------------------------------------------------------
\* While it goes on, nobody has been told why it ended, and who made calls is
\* known to the upstream, the client and the translator alike.
OpenAIReasoned ==
    /\ Ongoing => (upstream.calls > 0 <=> client.used > 0)
    /\ openai.finish # "none" => (openai.finish = "tool_use" <=> client.used > 0)
    /\ client.reason # "none" => openai.stop
    /\ openai.delta => client.reason # "none"

ReasonKnown ==
    /\ Ongoing => client.reason = "none"
    /\ HasCall(client) => client.used > 0
    /\ client.message = "told" => client.reason # "none"
    /\ client.reason # "none" =>
          /\ "cut" \in upstream.lapses => translator = "antigravity"
          /\ (client.reason = "tool_use") = (client.used > 0)
               \/ "earlier call" \in upstream.lapses
    /\ upstream.lapses \cap {"split call", "name again"} = {} => client.used = upstream.calls
    /\ translator \in {"antigravity", "codex"} => params.tool = (client.used > 0)
    /\ translator = "openai" => OpenAIReasoned

Reasoned ==
    /\ "cut" \in upstream.lapses => upstream.phase = "over"
    /\ translator \in GeminiKinds /\ Ongoing => ~params.finish
    /\ translator = "openai" /\ Ongoing => openai.finish = "none" /\ ~openai.stopped /\ ~openai.delta
    /\ client.ok => ReasonKnown

LEMMA GeminiReasonStep ==
    ASSUME ClaudeTypeOK, Reasoned, translator \in GeminiKinds, NEW part \in Parts,
           NEW finish \in BOOLEAN, NEW usage, GeminiSends(part, finish, usage)
    PROVE  Reasoned'
<1> DEFINE n == Number(Makes(params, part))
           made == part \in {"call", "more args"}
<1>1. /\ Ongoing /\ translator' = translator /\ GeminiChunk(part, finish, usage)
      /\ part = "more args" => params.type = "tool_use"
  BY DEF GeminiSends
<1>2. /\ upstream'.phase = IF finish THEN "finished" ELSE "answer"
      /\ upstream'.calls = upstream.calls + (IF part = "call" THEN 1 ELSE 0)
      /\ upstream.lapses \subseteq upstream'.lapses
      /\ "cut" \in upstream'.lapses => "cut" \in upstream.lapses
      /\ translator # "gemini" /\ part = "more args" => "split call" \in upstream'.lapses
      /\ translator # "antigravity" /\ finish /\ client.used > 0 /\ ~made
           => "earlier call" \in upstream'.lapses
  BY <1>1 DEF GeminiSends, Note, PhaseAfter, If, ClaudeTypeOK, UpstreamType
<1>3. "cut" \notin upstream'.lapses
  BY <1>1, <1>2 DEF Reasoned, Ongoing
<1>4. Chunked(part, finish)
  BY <1>1, ChunkWent
<1>5. ~params.finish /\ (finish \/ ~params'.finish)
  BY <1>1, <1>4 DEF Reasoned, Chunked
<1>6. ASSUME client'.ok PROVE ReasonKnown'
  <2>1. PICK a \in ClientType :
           /\ Went(client, a, n)
           /\ part = "more args" /\ ~Makes(params, part) /\ a.ok => HasCall(client)
           /\ client' = a \/ (finish /\ Learnt(a, client', WhyTold(part, params'.tool)))
    BY <1>4, <1>5 DEF Chunked
  <2>2. a.ok /\ a.used = client'.used /\ (HasCall(client') => HasCall(a))
    BY <1>6, <2>1 DEF Learnt
  <2>3. client.ok
    BY <2>1, <2>2 DEF Went
  <2>4. ReasonKnown
    BY <2>3 DEF Reasoned
  <2>5. /\ client.used \in Nat /\ a.used \in Nat /\ upstream.calls \in Nat
        /\ n = IF Makes(params, part) THEN 1 ELSE 0
    BY DEF ClaudeTypeOK, ClientType, UpstreamType, Number
  <2>6. /\ a.used = client.used + n /\ a.reason = "none" /\ a.message # "told"
        /\ HasCall(a) => HasCall(client) \/ n > 0
    BY <1>1, <2>1, <2>2, <2>4 DEF Went, ReasonKnown
  <2>17. (HasCall(client) => client.used > 0) /\ (Makes(params, part) => n = 1)
    BY <2>4, <2>5 DEF ReasonKnown
  <2>18. made = (part \in {"call", "more args"}) /\ (Makes(params, part) => made)
         /\ (~Makes(params, part) => n = 0) /\ (made => part \in {"call", "more args"})
    BY <2>5 DEF Makes
  <2> HIDE DEF n, made
  <2>19. HasCall(a) => a.used > 0
    BY <2>5, <2>6, <2>17
  <2>7. HasCall(client') => client'.used > 0
    BY <2>2, <2>19
  <2>8. client' = a \/ client'.reason \in {"tool_use", "end_turn"}
    BY <1>6, <2>1 DEF Learnt, WhyTold, Reason
  <2>9. upstream'.lapses \cap {"split call", "name again"} = {} => client'.used = upstream'.calls
    <3> SUFFICES ASSUME upstream'.lapses \cap {"split call", "name again"} = {}
                 PROVE  client'.used = upstream'.calls
      OBVIOUS
    <3>1. client.used = upstream.calls
      BY <1>2, <2>4 DEF ReasonKnown
    <3>2. Makes(params, part) <=> part = "call"
      BY <1>1, <1>2 DEF Makes
    <3> QED
      BY <1>2, <2>2, <2>5, <2>6, <3>1, <3>2
  <2>10. made => client'.used > 0
    <3>1. CASE Makes(params, part)
      <4>1. n = 1
        BY <2>17, <3>1
      <4>2. a.used > 0
        BY <2>5, <2>6, <4>1
      <4> QED
        BY <2>2, <4>2
    <3>2. CASE ~Makes(params, part) /\ made
      <4>1. part = "more args"
        BY <2>18, <3>2 DEF Makes
      <4>2. HasCall(client)
        BY <2>1, <2>2, <3>2, <4>1
      <4>3. a.used > 0
        BY <2>5, <2>6, <2>17, <4>2
      <4> QED
        BY <2>2, <4>3
    <3> QED
      BY <3>1, <3>2
  <2>11. ~made => client'.used = client.used
    <3> SUFFICES ASSUME ~made PROVE client'.used = client.used
      OBVIOUS
    <3>1. n = 0
      BY <2>18
    <3> QED
      BY <2>2, <2>5, <2>6, <3>1
  <2>12. translator = "antigravity" => params'.tool = (client'.used > 0)
    <3> SUFFICES ASSUME translator = "antigravity" PROVE params'.tool = (client'.used > 0)
      OBVIOUS
    <3>1. params.tool = (client.used > 0)
      BY <2>4 DEF ReasonKnown
    <3>2. params'.tool = (params.tool \/ made)
      <4>1. params'.tool = (params.tool \/ (translator = "antigravity" /\ part \in {"call", "more args"}))
        BY <1>4 DEF Chunked
      <4> QED
        BY <4>1 DEF made
    <3>3. CASE made
      <4>1. client'.used > 0
        BY <2>10, <3>3
      <4> QED
        BY <3>2, <3>3, <4>1
    <3>4. CASE ~made
      <4>1. params'.tool = params.tool
        <5>1. params.tool \in BOOLEAN
          BY DEF ClaudeTypeOK, ParamsType
        <5> QED
          BY <3>2, <3>4, <5>1
      <4>2. client'.used = client.used
        BY <2>11, <3>4
      <4> QED
        BY <3>1, <4>1, <4>2
    <3> QED
      BY <3>3, <3>4
  <2>13. client'.reason # "none" => (client'.reason = "tool_use") = (client'.used > 0)
                                    \/ "earlier call" \in upstream'.lapses
    <3> SUFFICES ASSUME client'.reason # "none", "earlier call" \notin upstream'.lapses
                 PROVE  (client'.reason = "tool_use") = (client'.used > 0)
      OBVIOUS
    <3>1. finish /\ client'.reason = WhyTold(part, params'.tool)
      BY <1>6, <2>1, <2>6 DEF Learnt
    <3>2. CASE translator = "antigravity"
      <4>1. client'.reason = Reason(params'.tool)
        BY <3>1, <3>2 DEF WhyTold
      <4>2. params'.tool = (client'.used > 0)
        BY <2>12, <3>2
      <4> QED
        BY <4>1, <4>2, ReasonTrue
    <3>3. CASE translator # "antigravity"
      <4>1. client'.reason = Reason(made)
        BY <3>1, <3>3 DEF WhyTold, made
      <4>2. ~made => ~(client.used > 0)
        BY <1>2, <3>1, <3>3 DEF made
      <4>3. made <=> client'.used > 0
        BY <2>10, <2>11, <4>2
      <4> QED
        BY <4>1, <4>3, ReasonTrue
    <3> QED
      BY <3>2, <3>3
  <2>14. Ongoing' => client'.reason = "none"
    BY <1>2, <2>1, <2>6 DEF Ongoing
  <2>15. client'.message = "told" => client'.reason # "none"
    BY <2>6, <2>8
  <2>16. translator' # "openai" /\ translator' # "codex"
    BY <1>1 DEF GeminiKinds
  <2> QED
    BY <1>1, <1>3, <2>7, <2>9, <2>12, <2>13, <2>14, <2>15, <2>16 DEF ReasonKnown
<1>7. translator' \in GeminiKinds /\ Ongoing' => ~params'.finish
  BY <1>2, <1>5 DEF Ongoing
<1>8. translator' # "openai"
  BY <1>1 DEF GeminiKinds
<1> QED
  BY <1>3, <1>6, <1>7, <1>8 DEF Reasoned

LEMMA GeminiEndReason ==
    ASSUME ClaudeTypeOK, Reasoned, GeminiUsage \/ GeminiEnds
    PROVE  Reasoned'
<1>1. translator \in GeminiKinds /\ translator' = translator /\ upstream.phase # "over"
  BY DEF GeminiUsage, GeminiEnds, GeminiKinds
<1>2. translator # "openai" /\ translator # "codex"
  BY <1>1 DEF GeminiKinds
<1>3. /\ upstream'.calls = upstream.calls /\ upstream.lapses \subseteq upstream'.lapses
      /\ upstream'.phase \in {"finished", "over"}
      /\ "cut" \in upstream'.lapses => upstream'.phase = "over"
      /\ "cut" \in upstream'.lapses => "cut" \in upstream.lapses \/ Ongoing
      /\ upstream'.lapses \subseteq upstream.lapses \cup {"cut"}
  <2>1. CASE GeminiUsage
    BY <2>1 DEF GeminiUsage, Reasoned
  <2>2. CASE GeminiEnds
    BY <1>1, <2>2 DEF GeminiEnds, Note, If, ClaudeTypeOK, UpstreamType, Ongoing
  <2> QED
    BY <2>1, <2>2
<1>4. ~Ongoing'
  BY <1>3 DEF Ongoing
\* The client is told why, or goes on.
<1>5. \E a \in ClientType :
         /\ a = client \/ (translator = "antigravity" /\ Learnt(client, a, Reason(params.tool)))
         /\ Went(a, client', 0) /\ params'.tool = params.tool
  <2>1. CASE GeminiUsage
    <3>1. /\ translator = "antigravity" /\ Chunked("none", FALSE)
      <4>1. GeminiChunk("none", FALSE, "candidates")
        BY <2>1 DEF GeminiUsage
      <4> QED
        BY <1>1, <2>1, <4>1, ChunkWent DEF Parts, GeminiUsage
    <3>2. PICK a \in ClientType :
             /\ Went(client, a, Number(Makes(params, "none")))
             /\ client' = a \/ Learnt(a, client', WhyTold("none", params'.tool))
      BY <3>1 DEF Chunked
    <3>3. Number(Makes(params, "none")) = 0
      BY DEF Number, Makes
    <3>4. params'.tool = params.tool
      <4>1. params'.tool = (params.tool \/ FALSE)
        BY <3>1 DEF Chunked
      <4>2. params.tool \in BOOLEAN
        BY DEF ClaudeTypeOK, ParamsType
      <4> QED
        BY <4>1, <4>2
    <3>5. client' = a \/ Learnt(a, client', Reason(params.tool))
      BY <3>1, <3>2, <3>4 DEF WhyTold
    <3>6. client' \in ClientType /\ client \in ClientType
      BY <2>1, TypeStep DEF ClaudeNext, ClaudeTypeOK
    <3>7. CASE client' = a
      BY <3>2, <3>3, <3>4, <3>6, <3>7
    <3>8. CASE Learnt(a, client', Reason(params.tool))
      <4>1. Learnt(client, client', Reason(params.tool))
        BY <3>2, <3>3, <3>6, <3>8, WentOn
      <4>2. Went(client', client', 0)
        BY <3>6, WentNowhere
      <4> QED
        BY <3>1, <3>4, <3>6, <4>1, <4>2
    <3> QED
      BY <3>5, <3>7, <3>8
  <2>2. CASE GeminiEnds
    <3> DEFINE f == IF translator = "antigravity" THEN FinalEvents(client, params, TRUE)
                    ELSE [c |-> client, p |-> params]
    <3>1. /\ client \in ClientType /\ params \in ParamsType
      BY DEF ClaudeTypeOK
    <3>2. /\ f.c \in ClientType /\ f.p.tool = params.tool
          /\ f.c = client \/ (translator = "antigravity" /\ Learnt(client, f.c, Reason(params.tool)))
      <4>1. Pair(FinalEvents(client, params, TRUE))
        BY <3>1, FinalType
      <4>2. /\ FinalEvents(client, params, TRUE).p.tool = params.tool
            /\ \/ FinalEvents(client, params, TRUE) = [c |-> client, p |-> params]
               \/ Learnt(client, FinalEvents(client, params, TRUE).c, Reason(params.tool))
        BY <3>1, FinalWent
      <4>3. CASE translator = "antigravity"
        <5>1. f = FinalEvents(client, params, TRUE)
          BY <4>3
        <5> HIDE DEF f
        <5>2. f = [c |-> client, p |-> params] => f.c = client
          OBVIOUS
        <5> QED
          BY <4>1, <4>2, <4>3, <5>1, <5>2 DEF Pair
      <4>4. CASE translator # "antigravity"
        BY <3>1, <4>4
      <4> QED
        BY <4>3, <4>4
    <3>3. /\ client' = IF params.content THEN MessageStop(f.c) ELSE client
          /\ params' = IF params.content THEN f.p ELSE params
      BY <2>2 DEF GeminiEnds, GeminiDone, When
    <3> HIDE DEF f
    <3>4. Went(f.c, MessageStop(f.c), 0) /\ Went(client, client, 0)
      BY <3>1, <3>2, EventWent, WentNowhere
    <3> QED
      BY <3>1, <3>2, <3>3, <3>4
  <2> QED
    BY <2>1, <2>2
<1>6. ASSUME client'.ok PROVE ReasonKnown'
  <2>1. PICK a \in ClientType :
           /\ a = client \/ (translator = "antigravity" /\ Learnt(client, a, Reason(params.tool)))
           /\ Went(a, client', 0) /\ params'.tool = params.tool
    BY <1>5
  <2>2. a.used \in Nat
    BY DEF ClientType
  <2>3. /\ a.ok /\ client'.used = a.used /\ client'.reason = a.reason
        /\ HasCall(client') => HasCall(a)
        /\ client'.message = "told" => a.message = "told"
    BY <1>6, <2>1, <2>2 DEF Went
  <2>4. client.ok /\ a.used = client.used /\ (HasCall(a) => HasCall(client))
    BY <2>1, <2>3 DEF Learnt
  <2>5. ReasonKnown
    BY <2>4 DEF Reasoned
  <2>6. a = client \/ (translator = "antigravity" /\ a.reason = Reason(params.tool))
    BY <2>1, <2>3 DEF Learnt
  <2>7. HasCall(client') => client'.used > 0
    BY <2>3, <2>4, <2>5 DEF ReasonKnown
  <2>8. client'.message = "told" => client'.reason # "none"
    BY <2>3, <2>5, <2>6 DEF ReasonKnown, Reason
  <2>9. client'.reason # "none" =>
           /\ "cut" \in upstream'.lapses => translator = "antigravity"
           /\ (client'.reason = "tool_use") = (client'.used > 0)
                \/ "earlier call" \in upstream'.lapses
    <3>1. CASE a = client
      BY <1>3, <2>3, <2>5, <3>1 DEF ReasonKnown
    <3>2. CASE translator = "antigravity" /\ a.reason = Reason(params.tool)
      <4>1. params.tool = (client.used > 0)
        BY <2>5, <3>2 DEF ReasonKnown
      <4>2. client'.reason = Reason(params.tool) /\ client'.used = client.used
        BY <2>3, <2>4, <3>2
      <4>3. (client'.reason = "tool_use") = (client.used > 0)
        BY <4>1, <4>2, ReasonTrue
      <4>4. (client'.reason = "tool_use") = (client'.used > 0)
        BY <4>2, <4>3
      <4> QED
        BY <3>2, <4>4
    <3> QED
      BY <2>6, <3>1, <3>2
  <2>10. upstream'.lapses \cap {"split call", "name again"} = {} => client'.used = upstream'.calls
    BY <1>3, <2>3, <2>4, <2>5 DEF ReasonKnown
  <2>11. translator = "antigravity" => params'.tool = (client'.used > 0)
    BY <2>1, <2>3, <2>4, <2>5 DEF ReasonKnown
  <2> QED
    BY <1>1, <1>2, <1>4, <2>7, <2>8, <2>9, <2>10, <2>11 DEF ReasonKnown
<1> QED
  BY <1>1, <1>2, <1>3, <1>4, <1>6 DEF Reasoned

-----------------------------------------------------------------------------
\* What the OpenAI translator closes, continues and begins.
LEMMA StopWent ==
    ASSUME NEW c \in ClientType, NEW o \in OpenAIType
    PROVE  \A a \in {StopText(c, o), StopThinking(c, o), StopBoth(c, o)} :
              Went(c, a.c, 0) /\ Alike(a.o, o) /\ a.o.tools = o.tools
<1>1. ASSUME NEW d \in ClientType, NEW q \in OpenAIType
      PROVE  /\ Went(d, StopText(d, q).c, 0) /\ Alike(StopText(d, q).o, q)
             /\ StopText(d, q).o.tools = q.tools
  <2>1. Went(d, When(q.text # NoBlock, d, BlockStop(d, q.text)), 0)
    BY EventWent, WentNowhere DEF When, OpenAIType
  <2>2. Alike([q EXCEPT !.text = NoBlock], q) /\ [q EXCEPT !.text = NoBlock].tools = q.tools
    BY DEF Alike, OpenAIType
  <2> QED
    BY <2>1, <2>2 DEF StopText
<1>2. /\ Went(c, StopThinking(c, o).c, 0) /\ Alike(StopThinking(c, o).o, o)
      /\ StopThinking(c, o).o.tools = o.tools
  <2>1. Went(c, When(o.thinking # NoBlock, c, BlockStop(c, o.thinking)), 0)
    BY EventWent, WentNowhere DEF When, OpenAIType
  <2>2. Alike([o EXCEPT !.thinking = NoBlock], o) /\ [o EXCEPT !.thinking = NoBlock].tools = o.tools
    BY DEF Alike, OpenAIType
  <2> QED
    BY <2>1, <2>2 DEF StopThinking
<1>3. /\ Went(c, StopBoth(c, o).c, 0) /\ Alike(StopBoth(c, o).o, o)
      /\ StopBoth(c, o).o.tools = o.tools
  <2> DEFINE a == StopThinking(c, o)
             b == StopText(a.c, a.o)
  <2>1. a.c \in ClientType /\ a.o \in OpenAIType
    BY StopTypes DEF PairO
  <2>2. Went(c, a.c, 0) /\ Alike(a.o, o) /\ a.o.tools = o.tools
    BY <1>2
  <2>3. StopBoth(c, o) = b
    BY DEF StopBoth
  <2> HIDE DEF a
  <2>4. Went(a.c, b.c, 0) /\ Alike(b.o, a.o) /\ b.o.tools = a.o.tools
    BY <1>1, <2>1
  <2>5. b.c \in ClientType
    BY <2>1, StopTypes DEF PairO
  <2> HIDE DEF b
  <2>6. Went(c, b.c, 0)
    BY <2>1, <2>2, <2>4, <2>5, WentOn
  <2> QED
    BY <2>2, <2>3, <2>4, <2>6 DEF Alike
<1> QED
  BY <1>1, <1>2, <1>3

\* Nothing is closed of a call that the client has not been told of.
LEMMA CloseWent ==
    ASSUME NEW c \in ClientType, NEW o \in OpenAIType
    PROVE  LET r == CloseBlocks(c, o) IN
           /\ Went(c, r.c, 0)
           /\ r.o.finish = o.finish /\ r.o.delta = o.delta /\ r.o.stop = o.stop
           /\ ~o.stopped /\ r.c.ok => \A i \in ToolIndexes : o.tools[i].index # NoBlock => HasCall(c)
<1> DEFINE a == StopBoth(c, o)
           r == StopTools(a.c, a.o)
           begun  == {i \in ToolIndexes : a.o.tools[i].index # NoBlock}
           blocks == {<<a.o.tools[i].index, "tool_use">> : i \in begun}
           d == [a.c EXCEPT !.open = @ \ blocks]
           q == [a.o EXCEPT !.stopped = TRUE,
                            !.tools = [i \in ToolIndexes |-> [a.o.tools[i] EXCEPT !.index = NoBlock]]]
           fits == begun = {} \/ (a.c.message = "open" /\ blocks \subseteq a.c.open)
<1>1. CloseBlocks(c, o) = r
  BY DEF CloseBlocks
<1>2. /\ a.c \in ClientType /\ a.o \in OpenAIType
      /\ Went(c, a.c, 0) /\ Alike(a.o, o) /\ a.o.tools = o.tools
  BY StopTypes, StopWent DEF PairO
<1>3. r.c \in ClientType
  BY <1>2, StopTypes DEF PairO
<1> HIDE DEF a
<1>4. r = IF a.o.stopped THEN [c |-> a.c, o |-> a.o] ELSE [c |-> Accept(a.c, fits, d), o |-> q]
  BY DEF StopTools
<1>5. /\ d.used = a.c.used /\ d.open = a.c.open \ blocks /\ d.reason = a.c.reason
      /\ d.message = a.c.message /\ d.ok = a.c.ok
  BY <1>2 DEF ClientType
<1>6. q.finish = a.o.finish /\ q.delta = a.o.delta /\ q.stop = a.o.stop
  BY <1>2 DEF OpenAIType
<1> HIDE DEF d, q
<1>7. Went(a.c, d, 0)
  BY <1>2, <1>5 DEF Went, HasCall, ClientType
<1>8. Accept(a.c, fits, d) \in {d, [a.c EXCEPT !.ok = FALSE]}
  BY DEF Accept
<1>9. Went(a.c, r.c, 0) /\ r.o.finish = o.finish /\ r.o.delta = o.delta /\ r.o.stop = o.stop
  <2>1. CASE a.o.stopped
    <3>1. r.c = a.c /\ r.o = a.o
      BY <1>4, <2>1
    <3> QED
      BY <1>2, <3>1, WentNowhere DEF Alike
  <2>2. CASE ~a.o.stopped
    <3>1. r.c = Accept(a.c, fits, d) /\ r.o = q
      BY <1>4, <2>2
    <3>2. Went(a.c, Accept(a.c, fits, d), 0)
      BY <1>2, <1>7, <1>8, EitherWent
    <3> QED
      BY <1>2, <1>6, <3>1, <3>2 DEF Alike
  <2> QED
    BY <2>1, <2>2
<1>10. ASSUME ~o.stopped, r.c.ok, NEW i \in ToolIndexes, o.tools[i].index # NoBlock PROVE HasCall(c)
  <2>1. ~a.o.stopped
    BY <1>2, <1>10 DEF Alike
  <2>2. r.c = Accept(a.c, fits, d)
    BY <1>4, <2>1
  <2>3. fits /\ a.c.ok
    <3>1. ~[a.c EXCEPT !.ok = FALSE].ok
      BY <1>2 DEF ClientType
    <3> HIDE DEF fits, r
    <3> QED
      BY <1>10, <2>2, <3>1 DEF Accept
  <2>4. i \in begun /\ <<a.o.tools[i].index, "tool_use">> \in blocks
    BY <1>2, <1>10
  <2>5. <<a.o.tools[i].index, "tool_use">> \in a.c.open
    BY <2>3, <2>4
  <2>6. HasCall(a.c)
    BY <2>5 DEF HasCall
  <2> QED
    BY <1>2, <2>3, <2>6 DEF Went
<1> HIDE DEF r
<1>11. Went(c, r.c, 0)
  BY <1>2, <1>3, <1>9, WentOn
<1> QED
  BY <1>1, <1>9, <1>10, <1>11

LEMMA DeltaWent ==
    ASSUME NEW c \in ClientType, NEW o \in OpenAIType, NEW part \in Deltas
    PROVE  LET r == Delta(c, o, part) IN PairO(r) /\ Went(c, r.c, 0) /\ Alike(r.o, o)
<1>1. o.next \in Nat
  BY DEF OpenAIType
<1>2. Went(c, c, 0) /\ Alike(o, o) /\ PairO([c |-> c, o |-> o])
  BY WentNowhere DEF Alike, PairO
\* A block is begun with its first delta.
<1>3. ASSUME NEW d \in ClientType, NEW type \in {"text", "thinking"}, Went(c, d, 0)
      PROVE  Went(c, BlockDelta(BlockStart(d, o.next, type), o.next, type), 0)
  <2> DEFINE e == BlockStart(d, o.next, type)
  <2>1. e \in ClientType /\ Went(d, e, 0)
    BY <1>1, <1>3, EventTypes, EventWent DEF BlockTypes
  <2> HIDE DEF e
  <2>2. BlockDelta(e, o.next, type) \in ClientType /\ Went(e, BlockDelta(e, o.next, type), 0)
    BY <1>1, <2>1, EventTypes, EventWent DEF BlockTypes
  <2>3. Went(c, e, 0)
    BY <1>3, <2>1, WentOn
  <2>4. Went(c, BlockDelta(e, o.next, type), 0)
    BY <2>1, <2>2, <2>3, WentOn
  <2> QED
    BY <2>4 DEF e
<1>4. ASSUME NEW a, a \in {StopText(c, o), StopThinking(c, o)}
      PROVE  /\ PairO(a) /\ Went(c, a.c, 0) /\ Alike(a.o, o)
             /\ Alike([a.o EXCEPT !.thinking = o.next, !.next = @ + 1], o)
             /\ Alike([a.o EXCEPT !.text = o.next, !.next = @ + 1], o)
  <2>1. PairO(a) /\ Went(c, a.c, 0) /\ Alike(a.o, o)
    BY <1>4, StopTypes, StopWent
  <2> QED
    BY <2>1 DEF Alike, PairO, OpenAIType
<1>5. LET r == Content(c, o) IN Went(c, r.c, 0) /\ Alike(r.o, o)
  <2> DEFINE a == StopThinking(c, o)
  <2>1. CASE o.text # NoBlock
    <3>1. Content(c, o) = [c |-> BlockDelta(c, o.text, "text"), o |-> o]
      BY <2>1 DEF Content
    <3>2. Went(c, BlockDelta(c, o.text, "text"), 0)
      BY <2>1, EventWent DEF OpenAIType, BlockTypes
    <3> QED
      BY <1>2, <3>1, <3>2
  <2>2. CASE o.text = NoBlock
    <3>1. Content(c, o) = [c |-> BlockDelta(BlockStart(a.c, o.next, "text"), o.next, "text"),
                           o |-> [a.o EXCEPT !.text = o.next, !.next = @ + 1]]
      BY <2>2 DEF Content
    <3>2. a.c \in ClientType /\ Went(c, a.c, 0)
          /\ Alike([a.o EXCEPT !.text = o.next, !.next = @ + 1], o)
      BY <1>4 DEF PairO
    <3> HIDE DEF a
    <3> QED
      BY <1>3, <3>1, <3>2
  <2> QED
    BY <2>1, <2>2
<1>6. LET r == Reasoning(c, o) IN Went(c, r.c, 0) /\ Alike(r.o, o)
  <2> DEFINE a == StopText(c, o)
  <2>1. a.c \in ClientType /\ Went(c, a.c, 0) /\ Alike(a.o, o)
        /\ Alike([a.o EXCEPT !.thinking = o.next, !.next = @ + 1], o)
    BY <1>4 DEF PairO
  <2>2. a = [c |-> a.c, o |-> a.o]
    BY DEF StopText
  <2>3. CASE o.thinking # NoBlock
    <3>1. Reasoning(c, o) = [a EXCEPT !.c = BlockDelta(@, o.thinking, "thinking")]
      BY <2>3 DEF Reasoning
    <3> HIDE DEF a
    <3>2. Reasoning(c, o) = [c |-> BlockDelta(a.c, o.thinking, "thinking"), o |-> a.o]
      BY <2>2, <3>1
    <3>3. /\ BlockDelta(a.c, o.thinking, "thinking") \in ClientType
          /\ Went(a.c, BlockDelta(a.c, o.thinking, "thinking"), 0)
      BY <2>1, <2>3, EventTypes, EventWent DEF OpenAIType, BlockTypes
    <3>4. Went(c, BlockDelta(a.c, o.thinking, "thinking"), 0)
      BY <2>1, <3>3, WentOn
    <3> QED
      BY <2>1, <3>2, <3>4
  <2>4. CASE o.thinking = NoBlock
    <3>1. Reasoning(c, o) = [c |-> BlockDelta(BlockStart(a.c, o.next, "thinking"), o.next, "thinking"),
                             o |-> [a.o EXCEPT !.thinking = o.next, !.next = @ + 1]]
      BY <2>4 DEF Reasoning
    <3> HIDE DEF a
    <3> QED
      BY <1>3, <2>1, <3>1
  <2> QED
    BY <2>3, <2>4
<1> QED
  BY <1>2, <1>5, <1>6, BlockTypesOfOpenAI DEF Delta, Deltas

LEMMA CallWent ==
    ASSUME NEW c \in ClientType, NEW o \in OpenAIType, NEW i \in ToolIndexes,
           NEW named \in BOOLEAN
    PROVE  LET r == ToolCall(c, o, i, named) IN
           /\ PairO(r) /\ Went(c, r.c, Number(named)) /\ Alike(r.o, o)
           /\ r.o.tools[i].index # NoBlock
<1> DEFINE b == Allot(o, i)
           a == StopBoth(c, b)
<1>1. b \in OpenAIType /\ b.tools[i].index \in Nat /\ b.tools[i].index # NoBlock
  <2>1. b \in OpenAIType /\ b.tools[i].index \in Nat
    BY AllotType, Zenon
  <2> HIDE DEF b
  <2> QED
    BY <2>1 DEF NoBlock
<1>2. Alike(b, o)
  BY DEF Allot, Alike, OpenAIType
<1> HIDE DEF b
<1>3. a.c \in ClientType /\ a.o \in OpenAIType /\ Went(c, a.c, 0) /\ Alike(a.o, b) /\ a.o.tools = b.tools
  BY <1>1, StopTypes, StopWent DEF PairO
<1>4. a = [c |-> a.c, o |-> a.o]
  BY DEF StopBoth, StopText
<1>5. PairO(ToolCall(c, o, i, named))
  BY ToolCallType
<1>6. CASE named
  <2>1. ToolCall(c, o, i, named) = [a EXCEPT !.c = BlockStart(@, b.tools[i].index, "tool_use")]
    BY <1>6 DEF ToolCall, b
  <2> HIDE DEF a
  <2>2. ToolCall(c, o, i, named) = [c |-> BlockStart(a.c, b.tools[i].index, "tool_use"), o |-> a.o]
    BY <1>4, <2>1
  <2>3. Went(a.c, BlockStart(a.c, b.tools[i].index, "tool_use"), 1)
    BY <1>1, <1>3, EventWent DEF BlockTypes
  <2>4. BlockStart(a.c, b.tools[i].index, "tool_use") \in ClientType
    BY <1>1, <1>3, EventTypes DEF BlockTypes
  <2>5. Went(c, BlockStart(a.c, b.tools[i].index, "tool_use"), 0 + 1)
    BY <1>3, <2>3, <2>4, WentOn
  <2>6. Number(named) = 0 + 1
    BY <1>6 DEF Number
  <2>7. Alike(a.o, o)
    BY <1>2, <1>3 DEF Alike
  <2> QED
    BY <1>1, <1>3, <1>5, <2>2, <2>5, <2>6, <2>7
<1>7. CASE ~named
  <2> DEFINE q == [b EXCEPT !.tools[i].args = TRUE]
  <2>1. ToolCall(c, o, i, named) = [c |-> c, o |-> q]
    BY <1>7 DEF ToolCall, b
  <2>2. Alike(q, b) /\ q.tools = [b.tools EXCEPT ![i].args = TRUE]
    BY <1>1 DEF Alike, OpenAIType
  <2> HIDE DEF q
  <2>3. q.tools[i].index = b.tools[i].index
    BY <1>1, <2>2 DEF OpenAIType, ToolType
  <2>4. Alike(q, o)
    BY <1>2, <2>2 DEF Alike
  <2>5. Number(named) = 0 /\ Went(c, c, 0)
    BY <1>7, WentNowhere DEF Number
  <2> QED
    BY <1>1, <1>5, <2>1, <2>3, <2>4, <2>5
<1> QED
  BY <1>6, <1>7

LEMMA UsageWent ==
    ASSUME NEW c \in ClientType, NEW o \in OpenAIType, o.finish # "none"
    PROVE  LET u == Usage(c, o) IN
           /\ Learnt(c, u.c, o.finish)
           /\ u.o.stop /\ u.o.delta /\ u.o.finish = o.finish
<1> DEFINE d == MessageDelta(c, o.finish)
           q == [o EXCEPT !.delta = TRUE]
<1>1. d \in ClientType /\ Learnt(c, d, o.finish)
  BY EventTypes, EventWent DEF OpenAIType
<1>2. q.delta /\ q.finish = o.finish /\ q.stop = o.stop /\ q \in OpenAIType
  BY DEF OpenAIType
<1>3. Usage(c, o) = StopOnce(d, q)
  BY DEF Usage
<1> HIDE DEF d, q
<1> DEFINE u == StopOnce(d, q)
<1>4. u.c = When(~q.stop, d, MessageStop(d)) /\ u.o = [q EXCEPT !.stop = TRUE]
  BY DEF StopOnce
<1>5. u.o.stop /\ u.o.delta /\ u.o.finish = o.finish
  BY <1>2, <1>4 DEF OpenAIType
<1>6. u.c = d \/ u.c = MessageStop(d)
  BY <1>4 DEF When
<1> HIDE DEF u
<1>7. Learnt(c, u.c, o.finish)
  <2>1. Went(d, MessageStop(d), 0)
    BY <1>1, EventWent
  <2> QED
    BY <1>1, <1>6, <2>1 DEF Went, Learnt, ClientType
<1> QED
  BY <1>3, <1>5, <1>7 DEF u

LEMMA FinishWent ==
    ASSUME NEW d, PairO(d), d.o.finish = "none", ~d.o.stopped, ~d.o.delta,
           NEW why \in {"none", "tool_use", "end_turn"}, NEW usage \in BOOLEAN,
           Finish(d, why, usage)
    PROVE  IF why = "none" THEN client' = d.c /\ openai' = d.o
           ELSE /\ openai'.finish = why
                /\ \/ Went(d.c, client', 0) /\ ~openai'.delta
                   \/ Learnt(d.c, client', why) /\ openai'.stop
                /\ client'.ok => \A i \in ToolIndexes : d.o.tools[i].index # NoBlock => HasCall(d.c)
<1> DEFINE q == [d.o EXCEPT !.finish = why]
           f == CloseBlocks(d.c, q)
           u == Usage(f.c, f.o)
<1>1. CASE why = "none"
  <2>1. Usage(d.c, d.o) = [c |-> d.c, o |-> d.o]
    BY DEF Usage
  <2> QED
    BY <1>1, <2>1 DEF Finish
<1>2. CASE why # "none"
  <2>1. /\ d.c \in ClientType /\ q \in OpenAIType /\ q.finish = why /\ q.tools = d.o.tools
        /\ ~q.stopped /\ ~q.delta
    BY DEF PairO, OpenAIType
  <2>2. IF usage THEN client' = u.c /\ openai' = u.o ELSE client' = f.c /\ openai' = f.o
    BY <1>2 DEF Finish
  <2> HIDE DEF q
  <2>3. f.c \in ClientType /\ f.o \in OpenAIType
    BY <2>1, CloseType DEF PairO
  <2>4. /\ Went(d.c, f.c, 0) /\ f.o.finish = why /\ f.o.delta = q.delta
        /\ f.c.ok => \A i \in ToolIndexes : d.o.tools[i].index # NoBlock => HasCall(d.c)
    BY <2>1, CloseWent
  <2> HIDE DEF f
  <2>5. Learnt(f.c, u.c, why) /\ u.o.stop /\ u.o.finish = why
    BY <1>2, <2>3, <2>4, UsageWent
  <2>6. u.c \in ClientType
    <3>1. MessageDelta(f.c, f.o.finish) \in ClientType /\ [f.o EXCEPT !.delta = TRUE] \in OpenAIType
      BY <2>3, EventTypes DEF OpenAIType
    <3> QED
      BY <2>3, <3>1, StopTypes DEF Usage, PairO
  <2> HIDE DEF u
  <2>7. Learnt(d.c, u.c, why)
    BY <2>1, <2>3, <2>4, <2>5, <2>6, WentOn
  <2>8. CASE usage
    <3>1. client' = u.c /\ openai' = u.o
      BY <2>2, <2>8
    <3>2. client'.ok => f.c.ok
      BY <2>5, <3>1 DEF Learnt
    <3> QED
      BY <1>2, <2>4, <2>5, <2>7, <3>1, <3>2
  <2>9. CASE ~usage
    <3>1. client' = f.c /\ openai' = f.o
      BY <2>2, <2>9
    <3>2. ~openai'.delta
      BY <2>1, <2>4, <3>1
    <3> QED
      BY <1>2, <2>4, <3>1, <3>2
  <2> QED
    BY <2>8, <2>9
<1> QED
  BY <1>1, <1>2

\* No call was named twice.
Once(lapses) == "name again" \notin lapses

LEMMA OpenAIChunk ==
    ASSUME ClaudeTypeOK, Reasoned, Ongoing, translator = "openai", translator' = translator,
           NEW d, PairO(d), d.o.finish = "none", ~d.o.stopped, ~d.o.delta,
           NEW n \in Nat, Went(client, d.c, n),
           NEW why \in {"none", "tool_use", "end_turn"}, NEW usage \in BOOLEAN,
           Finish(d, why, usage),
           upstream'.phase = IF why = "none" THEN "answer" ELSE "finished",
           "cut" \notin upstream'.lapses,
           upstream.lapses \subseteq upstream'.lapses,
           Once(upstream'.lapses) => upstream'.calls = upstream.calls + n,
           d.c.ok => (upstream'.calls > 0 <=> d.c.used > 0),
           d.c.ok /\ (\A i \in ToolIndexes : d.o.tools[i].index # NoBlock => HasCall(d.c))
              => why = "none" \/ (why = "tool_use" <=> d.c.used > 0)
    PROVE  Reasoned'
<1>1. /\ d.c \in ClientType /\ d.c.used \in Nat /\ client.used \in Nat /\ upstream.calls \in Nat
      /\ "codex" # "openai" /\ "openai" \notin GeminiKinds
  BY DEF PairO, ClientType, ClaudeTypeOK, UpstreamType, GeminiKinds
<1>2. IF why = "none" THEN client' = d.c /\ openai' = d.o
      ELSE /\ openai'.finish = why
           /\ \/ Went(d.c, client', 0) /\ ~openai'.delta
              \/ Learnt(d.c, client', why) /\ openai'.stop
           /\ client'.ok => \A i \in ToolIndexes : d.o.tools[i].index # NoBlock => HasCall(d.c)
  BY FinishWent
<1>3. Ongoing' => openai'.finish = "none" /\ ~openai'.stopped /\ ~openai'.delta
  BY <1>2 DEF Ongoing
<1>4. ASSUME client'.ok PROVE ReasonKnown'
  <2>1. d.c.ok /\ client'.used = d.c.used /\ (HasCall(client') => HasCall(d.c))
    <3>1. client' = d.c \/ Went(d.c, client', 0) \/ Learnt(d.c, client', why)
      BY <1>2
    <3>2. CASE client' = d.c
      BY <1>4, <3>2, Zenon
    <3>3. CASE Went(d.c, client', 0)
      BY <1>1, <1>4, <3>3 DEF Went
    <3>4. CASE Learnt(d.c, client', why)
      BY <1>4, <3>4 DEF Learnt
    <3> QED
      BY <3>1, <3>2, <3>3, <3>4
  <2>2. client.ok /\ d.c.used = client.used + n /\ d.c.reason = client.reason
        /\ (HasCall(d.c) => HasCall(client) \/ n > 0) /\ (d.c.message = "told" => client.message = "told")
    BY <2>1 DEF Went
  <2>3. ReasonKnown
    BY <2>2 DEF Reasoned
  <2>4. client.reason = "none" /\ client.message # "told" /\ (HasCall(client) => client.used > 0)
    BY <2>3 DEF ReasonKnown
  <2>5. HasCall(client') => client'.used > 0
    <3>1. client.used > 0 \/ n > 0 => d.c.used > 0
      BY <1>1, <2>2
    <3>2. HasCall(d.c) => d.c.used > 0
      BY <2>2, <2>4, <3>1
    <3> QED
      BY <2>1, <3>2
  <2>6. d.c.reason = "none" /\ d.c.message # "told"
    BY <2>2, <2>4
  <2>7. upstream'.lapses \cap {"split call", "name again"} = {} => client'.used = upstream'.calls
    <3> SUFFICES ASSUME upstream'.lapses \cap {"split call", "name again"} = {}
                 PROVE  client'.used = upstream'.calls
      OBVIOUS
    <3>1. client.used = upstream.calls /\ Once(upstream'.lapses)
      BY <2>3 DEF ReasonKnown, Once
    <3> QED
      BY <2>1, <2>2, <3>1, Zenon
  <2>8. upstream'.calls > 0 <=> client'.used > 0
    BY <2>1
  <2>9. CASE why = "none"
    <3>1. client' = d.c /\ openai'.finish = "none" /\ ~openai'.delta
      BY <1>2, <2>9
    <3>2. client'.reason = "none" /\ client'.message # "told"
      BY <2>6, <3>1
    <3>3. OpenAIReasoned'
      BY <2>8, <3>1, <3>2 DEF OpenAIReasoned
    <3> QED
      BY <1>1, <2>5, <2>7, <3>2, <3>3 DEF ReasonKnown, GeminiKinds
  <2>10. CASE why # "none"
    <3>1. /\ openai'.finish = why /\ (why = "tool_use" <=> client'.used > 0)
      BY <1>2, <1>4, <2>1, <2>10
    <3>2. ~Ongoing'
      BY <2>10 DEF Ongoing
    <3>3. CASE Went(d.c, client', 0) /\ ~openai'.delta
      <4>1. client'.reason = "none" /\ client'.message # "told"
        BY <1>4, <2>6, <3>3 DEF Went
      <4>2. OpenAIReasoned'
        BY <3>1, <3>2, <3>3, <4>1 DEF OpenAIReasoned
      <4> QED
        BY <1>1, <2>5, <2>7, <3>2, <4>1, <4>2 DEF ReasonKnown, GeminiKinds
    <3>4. CASE Learnt(d.c, client', why) /\ openai'.stop
      <4>1. client'.reason = why
        BY <1>4, <3>4 DEF Learnt
      <4>2. (client'.reason = "tool_use") = (client'.used > 0)
        BY <3>1, <4>1, Agree
      <4>3. client'.reason # "none"
        BY <2>10, <4>1
      <4>4. OpenAIReasoned'
        BY <3>1, <3>2, <3>4, <4>3 DEF OpenAIReasoned
      <4> QED
        BY <1>1, <2>5, <2>7, <3>2, <4>2, <4>3, <4>4 DEF ReasonKnown, GeminiKinds
    <3> QED
      BY <1>2, <2>10, <3>3, <3>4
  <2> QED
    BY <2>9, <2>10
<1> QED
  BY <1>1, <1>3, <1>4 DEF Reasoned

LEMMA StartedWent ==
    ASSUME ClaudeTypeOK
    PROVE  LET s == Started(client, openai) IN
           /\ PairO(s) /\ Went(client, s.c, 0) /\ s.o.finish = openai.finish
           /\ s.o.stopped = openai.stopped /\ s.o.delta = openai.delta
<1>1. Went(client, When(~openai.started, client, MessageStart(client)), 0)
  BY EventWent, WentNowhere DEF When, ClaudeTypeOK
<1> QED
  BY <1>1, StartedType DEF Started, ClaudeTypeOK, OpenAIType

LEMMA OpenAIReasonStep ==
    ASSUME ClaudeTypeOK, Reasoned, NEW finish \in BOOLEAN, NEW usage \in BOOLEAN,
           \/ \E part \in Deltas : OpenAISends(part, finish, usage)
           \/ \E i \in ToolIndexes, named \in BOOLEAN : OpenAICalls(i, named, finish, usage)
    PROVE  Reasoned'
<1> DEFINE s == Started(client, openai)
<1>1. translator = "openai" /\ translator' = translator /\ Ongoing
  BY DEF OpenAISends, OpenAICalls
<1>2. /\ PairO(s) /\ Went(client, s.c, 0) /\ s.o.finish = "none" /\ ~s.o.stopped /\ ~s.o.delta
  BY <1>1, StartedWent DEF Reasoned
<1>3. /\ client \in ClientType /\ openai \in OpenAIType /\ client.used \in Nat
      /\ upstream.calls \in Nat /\ "cut" \notin upstream.lapses
  BY <1>1 DEF ClaudeTypeOK, ClientType, UpstreamType, Reasoned, Ongoing
<1>4. client.ok => (upstream.calls > 0 <=> client.used > 0) /\ (HasCall(client) => client.used > 0)
  BY <1>1 DEF Reasoned, ReasonKnown, OpenAIReasoned
<1> HIDE DEF s
<1>5. ASSUME NEW part \in Deltas, OpenAISends(part, finish, usage) PROVE Reasoned'
  <2> DEFINE d == Delta(s.c, s.o, part)
             why == WhyOf(finish, upstream.calls)
  <2>1. PairO(d) /\ Went(s.c, d.c, 0) /\ Alike(d.o, s.o)
    BY <1>2, DeltaWent DEF PairO
  <2>2. Finish(d, why, usage) /\ Note(PhaseAfter(finish), 0, {})
    BY <1>5 DEF OpenAISends, s
  <2>3. why \in {"none", "tool_use", "end_turn"}
    BY DEF WhyOf, Reason
  <2>4. why = "none" \/ (why = "tool_use" <=> upstream.calls > 0)
    BY DEF WhyOf, Reason
  <2>5. /\ upstream'.phase = IF why = "none" THEN "answer" ELSE "finished"
        /\ upstream'.calls = upstream.calls /\ upstream'.lapses = upstream.lapses
    <3>1. upstream'.phase = PhaseAfter(finish)
      BY <2>2 DEF Note, ClaudeTypeOK, UpstreamType
    <3>2. upstream'.calls = upstream.calls /\ upstream'.lapses = upstream.lapses
      BY <1>3, <2>2 DEF Note, ClaudeTypeOK, UpstreamType
    <3> QED
      BY <3>1, <3>2 DEF WhyOf, Reason, PhaseAfter
  <2> HIDE DEF d, why
  <2>6. Went(client, d.c, 0)
    BY <1>2, <1>3, <2>1, WentOn DEF PairO
  <2>7. d.c.ok => client.ok /\ d.c.used = client.used
    BY <1>3, <2>6 DEF Went
  <2>8. d.o.finish = "none" /\ ~d.o.stopped /\ ~d.o.delta
    BY <1>2, <2>1 DEF Alike
  <2>9. d.c.ok => (upstream'.calls > 0 <=> d.c.used > 0)
    BY <1>4, <2>5, <2>7
  <2>10. d.c.ok => why = "none" \/ (why = "tool_use" <=> d.c.used > 0)
    BY <1>4, <2>4, <2>7
  <2>11. upstream'.calls = upstream.calls + 0 /\ "cut" \notin upstream'.lapses
         /\ upstream.lapses \subseteq upstream'.lapses
    BY <1>3, <2>5
  <2> QED
    BY <1>1, <2>1, <2>2, <2>3, <2>5, <2>6, <2>8, <2>9, <2>10, <2>11, OpenAIChunk
<1>6. ASSUME NEW i \in ToolIndexes, NEW named \in BOOLEAN, OpenAICalls(i, named, finish, usage)
      PROVE  Reasoned'
  <2> DEFINE new == <<openai.tools[i].index, "tool_use">> \notin client.open
             d == ToolCall(s.c, s.o, i, named)
             why == WhyOf(finish, 1)
             n == Number(named)
  <2>1. /\ PairO(d) /\ Went(s.c, d.c, n) /\ Alike(d.o, s.o) /\ d.o.tools[i].index # NoBlock
    BY <1>2, CallWent DEF PairO
  <2>2. Finish(d, why, usage)
    BY <1>6 DEF OpenAICalls, s
  <2>3. why \in {"none", "tool_use", "end_turn"} /\ (why = "none" \/ why = "tool_use")
    BY DEF WhyOf, Reason
  <2>4. /\ upstream'.phase = PhaseAfter(finish)
        /\ upstream'.calls = upstream.calls + (IF named /\ new THEN 1 ELSE 0)
        /\ upstream.lapses \subseteq upstream'.lapses /\ "cut" \notin upstream'.lapses
        /\ Once(upstream'.lapses) => ~named \/ openai.tools[i].index = NoBlock
    BY <1>3, <1>6 DEF OpenAICalls, Note, If, Once, ClaudeTypeOK, UpstreamType
  <2>5. upstream'.phase = IF why = "none" THEN "answer" ELSE "finished"
    BY <2>4 DEF WhyOf, Reason, PhaseAfter
  <2>6. openai.tools[i].index = NoBlock => new
    BY <1>3 DEF ClientType, NoBlock
  <2>7. ~new => HasCall(client)
    BY DEF HasCall
  <2>8. n \in Nat /\ (named => n = 1) /\ (~named => n = 0)
    BY DEF Number
  <2> HIDE DEF d, why, new, n
  <2>9. Went(client, d.c, n)
    <3>1. 0 + n = n
      BY <2>8
    <3> QED
      BY <1>2, <1>3, <2>1, <2>8, <3>1, WentOn DEF PairO
  <2>10. d.c.ok => client.ok /\ d.c.used = client.used + n /\ (HasCall(d.c) => HasCall(client) \/ n > 0)
    BY <2>9 DEF Went
  <2>11. d.o.finish = "none" /\ ~d.o.stopped /\ ~d.o.delta
    BY <1>2, <2>1 DEF Alike
  <2>12. Once(upstream'.lapses) => upstream'.calls = upstream.calls + n
    BY <1>3, <2>4, <2>6, <2>8
  <2>13. d.c.ok => (upstream'.calls > 0 <=> d.c.used > 0)
    <3> SUFFICES ASSUME d.c.ok PROVE upstream'.calls > 0 <=> d.c.used > 0
      OBVIOUS
    <3>1. CASE ~named
      BY <1>3, <1>4, <2>4, <2>8, <2>10, <3>1
    <3>2. CASE named /\ new
      BY <1>3, <2>4, <2>8, <2>10, <3>2
    <3>3. CASE named /\ ~new
      BY <1>3, <1>4, <2>4, <2>7, <2>8, <2>10, <3>3
    <3> QED
      BY <3>1, <3>2, <3>3
  <2>14. d.c.ok /\ (\A j \in ToolIndexes : d.o.tools[j].index # NoBlock => HasCall(d.c)) => d.c.used > 0
    BY <1>3, <1>4, <2>1, <2>8, <2>10
  <2>15. d.c.ok /\ (\A j \in ToolIndexes : d.o.tools[j].index # NoBlock => HasCall(d.c))
            => why = "none" \/ (why = "tool_use" <=> d.c.used > 0)
    BY <2>3, <2>14
  <2> QED
    BY <1>1, <2>1, <2>2, <2>3, <2>4, <2>5, <2>8, <2>9, <2>11, <2>12, <2>13, <2>15, OpenAIChunk
<1> QED
  BY <1>5, <1>6

LEMMA OpenAIDoneWent ==
    ASSUME ClaudeTypeOK, OpenAIDone
    PROVE  /\ openai'.finish = openai.finish /\ openai'.stop
           /\ \/ Went(client, client', 0) /\ (openai'.delta => openai.delta)
              \/ Learnt(client, client', openai.finish) /\ openai.finish # "none"
<1> DEFINE a == CloseBlocks(client, openai)
           tell == a.o.finish # "none" /\ ~a.o.delta
           d == MessageDelta(a.c, a.o.finish)
           c == When(tell, a.c, d)
           q == [a.o EXCEPT !.delta = @ \/ tell]
           e == StopOnce(c, q)
<1>1. client \in ClientType /\ openai \in OpenAIType
  BY DEF ClaudeTypeOK
<1>2. a.c \in ClientType /\ a.o \in OpenAIType
  BY <1>1, CloseType DEF PairO
<1>3. /\ Went(client, a.c, 0) /\ a.o.finish = openai.finish /\ a.o.delta = openai.delta
      /\ a.o.stop = openai.stop
  BY <1>1, CloseWent
<1>4. client' = e.c /\ openai' = e.o
  BY DEF OpenAIDone
<1> HIDE DEF a
<1>5. /\ q.finish = a.o.finish /\ q.stop = a.o.stop /\ q \in OpenAIType
      /\ q.delta => a.o.delta \/ tell
  BY <1>2 DEF OpenAIType
<1>6. d \in ClientType /\ Learnt(a.c, d, a.o.finish)
  BY <1>2, EventTypes, EventWent DEF OpenAIType
<1>7. c \in ClientType /\ c = IF tell THEN d ELSE a.c
  BY <1>2, <1>6 DEF When
<1> HIDE DEF q, d, c
<1>8. e.c = When(~q.stop, c, MessageStop(c)) /\ e.o = [q EXCEPT !.stop = TRUE]
  BY DEF StopOnce
<1>9. e.o.stop /\ e.o.finish = q.finish /\ e.o.delta = q.delta
  BY <1>5, <1>8 DEF OpenAIType
<1>10. Went(c, e.c, 0)
  <2>1. Went(c, MessageStop(c), 0) /\ Went(c, c, 0)
    BY <1>7, EventWent, WentNowhere
  <2> QED
    BY <1>8, <2>1 DEF When
<1>11. e.c \in ClientType
  BY <1>5, <1>7, StopTypes DEF PairO
<1> HIDE DEF e
<1>12. CASE tell
  <2>1. c = d /\ openai.finish # "none"
    BY <1>3, <1>7, <1>12
  <2>2. Learnt(client, c, openai.finish)
    <3>1. Learnt(a.c, c, openai.finish)
      BY <1>3, <1>6, <2>1
    <3> QED
      BY <1>1, <1>2, <1>3, <1>7, <3>1, WentOn
  <2>3. Learnt(client, e.c, openai.finish)
    BY <1>7, <1>10, <2>2 DEF Went, Learnt, ClientType
  <2> QED
    BY <1>3, <1>4, <1>5, <1>9, <2>1, <2>3
<1>13. CASE ~tell
  <2>1. c = a.c /\ (q.delta => openai.delta)
    BY <1>3, <1>5, <1>7, <1>13
  <2>2. Went(client, e.c, 0)
    BY <1>1, <1>2, <1>3, <1>10, <1>11, <2>1, WentOn
  <2> QED
    BY <1>3, <1>4, <1>5, <1>9, <2>1, <2>2
<1> HIDE DEF tell
<1> QED
  BY <1>12, <1>13

\* The last steps: the reason is told now, or what was known stays.
LEMMA OpenAIEndReason ==
    ASSUME ClaudeTypeOK, Reasoned, OpenAIUsage \/ OpenAIEnds \/ OpenAICut
    PROVE  Reasoned'
<1>1. /\ translator = "openai" /\ translator' = translator /\ upstream.phase # "over"
      /\ "codex" # "openai" /\ "openai" \notin GeminiKinds
  BY DEF OpenAIUsage, OpenAIEnds, OpenAICut, GeminiKinds
<1>2. /\ client \in ClientType /\ openai \in OpenAIType /\ client.used \in Nat
      /\ "cut" \notin upstream.lapses
  BY <1>1 DEF ClaudeTypeOK, ClientType, Reasoned
<1>3. /\ upstream'.calls = upstream.calls /\ upstream.lapses \subseteq upstream'.lapses
      /\ upstream'.phase \in {"finished", "over"}
      /\ "cut" \in upstream'.lapses => /\ upstream'.phase = "over"
                                       /\ Ongoing \/ (OpenAICut /\ ~openai.stop)
  <2>1. CASE OpenAIUsage
    <3> DEFINE S == If(openai.delta, "usage again")
    <3>1. Note("finished", 0, S) /\ "cut" \notin S
      BY <2>1 DEF OpenAIUsage, If
    <3> HIDE DEF S
    <3> QED
      BY <1>2, <3>1 DEF Note, ClaudeTypeOK, UpstreamType
  <2>2. CASE OpenAIEnds
    BY <1>1, <1>2, <2>2 DEF OpenAIEnds, Note, If, ClaudeTypeOK, UpstreamType, Ongoing
  <2>3. CASE OpenAICut
    BY <1>1, <1>2, <2>3 DEF OpenAICut, Note, If, ClaudeTypeOK, UpstreamType, Ongoing
  <2> QED
    BY <2>1, <2>2, <2>3
<1>4. ~Ongoing'
  BY <1>3 DEF Ongoing
<1>5. /\ openai'.finish = openai.finish /\ (openai.stop => openai'.stop)
      /\ \/ Went(client, client', 0) /\ (openai'.delta => openai.delta)
         \/ Learnt(client, client', openai.finish) /\ openai.finish # "none" /\ openai'.stop
      /\ OpenAICut => client' = client /\ openai' = openai
  <2>1. CASE OpenAIUsage
    <3>1. client' = Usage(client, openai).c /\ openai' = Usage(client, openai).o
      BY <2>1 DEF OpenAIUsage, Finish
    <3>2. CASE openai.finish = "none"
      <4>1. Usage(client, openai) = [c |-> client, o |-> openai]
        BY <3>2 DEF Usage
      <4>2. client' = client /\ openai' = openai
        BY <3>1, <4>1
      <4> QED
        BY <1>2, <4>2, WentNowhere
    <3>3. CASE openai.finish # "none"
      <4>1. ~OpenAICut
        BY <1>3, <2>1 DEF OpenAIUsage, OpenAICut, Note, ClaudeTypeOK, UpstreamType
      <4> QED
        BY <1>2, <3>1, <3>3, <4>1, UsageWent
    <3> QED
      BY <3>2, <3>3
  <2>2. CASE OpenAIEnds
    <3>1. OpenAIDone
      BY <2>2 DEF OpenAIEnds
    <3>2. OpenAICut => client' = client /\ openai' = openai
      BY DEF OpenAICut
    <3> QED
      BY <3>1, <3>2, OpenAIDoneWent
  <2>3. CASE OpenAICut
    <3>1. client' = client /\ openai' = openai
      BY <2>3 DEF OpenAICut
    <3> QED
      BY <1>2, <3>1, WentNowhere
  <2> QED
    BY <2>1, <2>2, <2>3
<1>6. ASSUME client'.ok PROVE ReasonKnown'
  <2>1. client.ok /\ client'.used = client.used /\ (HasCall(client') => HasCall(client))
    BY <1>2, <1>5, <1>6 DEF Went, Learnt
  <2>2. ReasonKnown /\ OpenAIReasoned
    BY <1>1, <2>1 DEF Reasoned, ReasonKnown
  <2>3. /\ Ongoing => client.reason = "none" /\ openai.finish = "none"
        /\ HasCall(client) => client.used > 0
        /\ client.message = "told" => client.reason # "none"
        /\ openai.finish # "none" => (openai.finish = "tool_use" <=> client.used > 0)
        /\ client.reason # "none" => openai.stop
        /\ openai.delta => client.reason # "none"
        /\ client.reason # "none" => (client.reason = "tool_use") = (client.used > 0)
                                       \/ "earlier call" \in upstream.lapses
        /\ upstream.lapses \cap {"split call", "name again"} = {} => client.used = upstream.calls
    BY <1>1, <2>2 DEF Reasoned, ReasonKnown, OpenAIReasoned
  <2>4. HasCall(client') => client'.used > 0
    BY <2>1, <2>3
  <2>5. upstream'.lapses \cap {"split call", "name again"} = {} => client'.used = upstream'.calls
    BY <1>3, <2>1, <2>3
  <2>6. openai'.finish # "none" => (openai'.finish = "tool_use" <=> client'.used > 0)
    BY <1>5, <2>1, <2>3
  <2>7. CASE Went(client, client', 0) /\ (openai'.delta => openai.delta)
    <3>1. client'.reason = client.reason /\ (client'.message = "told" => client.message = "told")
      BY <1>6, <2>7 DEF Went
    <3>2. OpenAIReasoned'
      BY <1>4, <1>5, <2>3, <2>6, <2>7, <3>1 DEF OpenAIReasoned
    <3>3. "cut" \in upstream'.lapses => client'.reason = "none"
      BY <1>3, <2>3, <3>1
    <3>4. client'.reason # "none" => (client'.reason = "tool_use") = (client'.used > 0)
                                      \/ "earlier call" \in upstream'.lapses
      BY <1>3, <2>1, <2>3, <3>1
    <3>5. client'.message = "told" => client'.reason # "none"
      BY <2>3, <3>1
    <3> QED
      BY <1>1, <1>4, <2>4, <2>5, <3>2, <3>3, <3>4, <3>5 DEF ReasonKnown, GeminiKinds
  <2>8. CASE Learnt(client, client', openai.finish) /\ openai.finish # "none" /\ openai'.stop
    <3>1. client'.reason = openai.finish
      BY <1>6, <2>8 DEF Learnt
    <3>2. (client'.reason = "tool_use") = (client'.used > 0)
      <4>1. client'.reason = "tool_use" <=> client'.used > 0
        BY <1>5, <2>6, <2>8, <3>1
      <4> QED
        BY <4>1, Agree
    <3>3. OpenAIReasoned'
      BY <1>4, <2>6, <2>8, <3>1 DEF OpenAIReasoned
    <3>4. "cut" \notin upstream'.lapses \/ OpenAICut
      BY <1>3, <2>3, <2>8
    <3>5. "cut" \in upstream'.lapses => client'.reason = "none"
      <4>1. OpenAICut => client' = client
        BY <1>5
      <4> QED
        BY <1>3, <2>3, <3>4, <4>1
    <3> QED
      BY <1>1, <1>4, <2>4, <2>5, <2>8, <3>1, <3>2, <3>3, <3>5 DEF ReasonKnown, GeminiKinds
  <2> QED
    BY <1>5, <2>7, <2>8
<1> QED
  BY <1>1, <1>3, <1>4, <1>6 DEF Reasoned

\* As many calls reach the client as the upstream makes; it may forget some.
Lawful(lapses) == lapses \cap {"split call", "name again"} = {}
Earlier(lapses) == "earlier call" \in lapses

LEMMA CodexReasonStep ==
    ASSUME ClaudeTypeOK, Reasoned, NEW type \in BlockTypes, CodexSends \/ CodexItem(type)
    PROVE  Reasoned'
<1>1. /\ translator = "codex" /\ translator' = translator /\ upstream.phase # "over"
      /\ "codex" # "openai" /\ "codex" # "antigravity" /\ "codex" \notin GeminiKinds
  BY DEF CodexSends, CodexItem, GeminiKinds
<1>2. /\ client \in ClientType /\ params \in ParamsType /\ client.used \in Nat
      /\ params.index \in Nat /\ params.tool \in BOOLEAN /\ upstream.calls \in Nat
      /\ "cut" \notin upstream.lapses /\ upstream \in UpstreamType
  BY <1>1 DEF ClaudeTypeOK, ClientType, ParamsType, UpstreamType, Reasoned
\* A step that tells nothing and makes n calls, of an answer that goes on.
<1>3. ASSUME NEW n \in Nat, Went(client, client', n), Ongoing,
             upstream'.calls = upstream.calls + n, upstream'.lapses = upstream.lapses,
             params'.tool = (params.tool \/ n > 0)
      PROVE  Reasoned'
  <2>1. ASSUME client'.ok PROVE ReasonKnown'
    <3>1. /\ client.ok /\ client'.used = client.used + n /\ client'.reason = client.reason
          /\ HasCall(client') => HasCall(client) \/ n > 0
          /\ client'.message = "told" => client.message = "told"
      BY <1>3, <2>1 DEF Went
    <3>2. ReasonKnown
      BY <3>1 DEF Reasoned
    <3>3. /\ client.reason = "none" /\ client.message # "told" /\ (HasCall(client) => client.used > 0)
          /\ params.tool = (client.used > 0)
          /\ Lawful(upstream.lapses) => client.used = upstream.calls
      BY <1>1, <1>3, <3>2 DEF ReasonKnown, Lawful
    <3>4. HasCall(client') => client'.used > 0
      BY <1>2, <3>1, <3>3
    <3>5. Lawful(upstream'.lapses) => client'.used = upstream'.calls
      BY <1>2, <1>3, <3>1, <3>3
    <3>6. params'.tool = (client'.used > 0)
      <4>1. client'.used > 0 <=> client.used > 0 \/ n > 0
        BY <1>2, <3>1
      <4>2. params'.tool <=> client'.used > 0
        BY <1>3, <3>3, <4>1
      <4>3. params'.tool \in BOOLEAN
        BY <1>2, <1>3
      <4> QED
        BY <4>2, <4>3
    <3>7. client'.reason = "none" /\ client'.message # "told"
      BY <3>1, <3>3
    <3> QED
      BY <1>1, <1>2, <1>3, <3>4, <3>5, <3>6, <3>7 DEF ReasonKnown, Lawful
  <2> QED
    BY <1>1, <1>2, <1>3, <2>1 DEF Reasoned
\* The answer is completed or its connection ends.
<1>4. ASSUME \/ client' = client
             \/ Learnt(client, client', Reason(params.tool)) /\ upstream'.phase = "finished",
             upstream'.phase \in {"finished", "over"}, params' = params,
             upstream'.calls = upstream.calls, upstream.lapses \subseteq upstream'.lapses,
             "cut" \in upstream'.lapses => upstream'.phase = "over" /\ Ongoing
      PROVE  Reasoned'
  <2>1. ASSUME client'.ok PROVE ReasonKnown'
    <3>1. client.ok /\ client'.used = client.used /\ (HasCall(client') => HasCall(client))
      <4>1. CASE client' = client
        BY <2>1, <4>1, Zenon
      <4>2. CASE Learnt(client, client', Reason(params.tool))
        BY <2>1, <4>2 DEF Learnt
      <4> QED
        BY <1>4, <4>1, <4>2
    <3>2. ReasonKnown
      BY <3>1 DEF Reasoned
    <3>3. /\ Ongoing => client.reason = "none"
          /\ HasCall(client) => client.used > 0
          /\ client.message = "told" => client.reason # "none"
          /\ client.reason # "none" => (client.reason = "tool_use") = (client.used > 0)
                                         \/ Earlier(upstream.lapses)
          /\ params.tool = (client.used > 0)
          /\ Lawful(upstream.lapses) => client.used = upstream.calls
      BY <1>1, <3>2 DEF ReasonKnown, Lawful, Earlier
    <3>4. /\ HasCall(client') => client'.used > 0
          /\ params'.tool = (client'.used > 0)
      BY <1>4, <3>1, <3>3
    <3>5. Lawful(upstream'.lapses) => client'.used = upstream'.calls
      <4>1. Lawful(upstream'.lapses) => Lawful(upstream.lapses)
        BY <1>4 DEF Lawful
      <4> QED
        BY <1>4, <3>1, <3>3, <4>1
    <3>6. ~Ongoing' /\ (Earlier(upstream.lapses) => Earlier(upstream'.lapses))
      BY <1>4 DEF Ongoing, Earlier
    <3>7. /\ client'.message = "told" => client'.reason # "none"
          /\ client'.reason # "none" => (client'.reason = "tool_use") = (client'.used > 0)
                                          \/ Earlier(upstream'.lapses)
          /\ "cut" \in upstream'.lapses => client'.reason = "none"
      <4>1. CASE client' = client
        BY <1>4, <3>3, <3>6, <4>1
      <4>2. CASE Learnt(client, client', Reason(params.tool)) /\ upstream'.phase = "finished"
        <5>1. client'.reason = Reason(params.tool) /\ client'.reason # "none"
          BY <2>1, <4>2 DEF Learnt, Reason
        <5>2. (client'.reason = "tool_use") = (client.used > 0)
          BY <3>3, <5>1, ReasonTrue
        <5>3. (client'.reason = "tool_use") = (client'.used > 0)
          BY <3>1, <5>2
        <5>4. "cut" \notin upstream'.lapses
          BY <1>4, <4>2
        <5> QED
          BY <5>1, <5>3, <5>4
      <4> QED
        BY <1>4, <4>1, <4>2
    <3> QED
      BY <1>1, <3>4, <3>5, <3>6, <3>7 DEF ReasonKnown, Lawful, Earlier
  <2>2. "cut" \in upstream'.lapses => upstream'.phase = "over"
    BY <1>4
  <2> QED
    BY <1>1, <2>1, <2>2 DEF Reasoned
<1>5. CASE CodexSends
  <2>1. CASE upstream.phase = "new" /\ CodexCreated /\ Note("answer", 0, {})
    <3>1. Went(client, client', 0) /\ params' = params
      BY <1>2, <2>1, EventWent DEF CodexCreated
    <3>2. upstream'.calls = upstream.calls + 0 /\ upstream'.lapses = upstream.lapses
      BY <1>2, <2>1 DEF Note, UpstreamType
    <3>3. params'.tool = (params.tool \/ 0 > 0)
      BY <1>2, <3>1
    <3> QED
      BY <1>3, <2>1, <3>1, <3>2, <3>3 DEF Ongoing
  <2>2. CASE upstream.phase = "answer" /\ CodexCompleted /\ Note("finished", 0, {})
    <3> DEFINE d == MessageDelta(client, Reason(params.tool))
    <3>1. d \in ClientType /\ Learnt(client, d, Reason(params.tool))
      BY <1>2, EventTypes, EventWent DEF Reason
    <3>2. client' = MessageStop(d) /\ params' = params
      BY <2>2 DEF CodexCompleted
    <3> HIDE DEF d
    <3>3. Went(d, client', 0)
      BY <3>1, <3>2, EventWent
    <3>4. Learnt(client, client', Reason(params.tool))
      BY <3>1, <3>3 DEF Went, Learnt, ClientType
    <3>5. /\ upstream'.phase = "finished" /\ upstream'.calls = upstream.calls
          /\ upstream'.lapses = upstream.lapses
      BY <1>2, <2>2 DEF Note, UpstreamType
    <3> QED
      BY <1>2, <1>4, <3>2, <3>4, <3>5
  <2>3. CASE /\ UNCHANGED <<client, params>>
             /\ Note("over", 0, If(upstream.phase # "finished", "cut"))
    <3>1. /\ upstream'.phase = "over" /\ upstream'.calls = upstream.calls
          /\ upstream.lapses \subseteq upstream'.lapses
          /\ "cut" \in upstream'.lapses => upstream.phase # "finished"
      BY <1>2, <2>3 DEF Note, If, UpstreamType
    <3>2. "cut" \in upstream'.lapses => Ongoing
      BY <1>1, <1>2, <3>1 DEF Ongoing, UpstreamType
    <3> QED
      BY <1>4, <2>3, <3>1, <3>2
  <2> QED
    BY <1>5, <2>1, <2>2, <2>3 DEF CodexSends
<1>6. CASE CodexItem(type)
  <2>1. Ongoing
    BY <1>6 DEF CodexItem, Ongoing
  <2>2. CASE CodexAdded(type) /\ upstream' = [upstream EXCEPT !.item = type,
                                      !.calls = IF type = "tool_use" THEN @ + 1 ELSE @]
    <3> DEFINE c == BlockStart(client, params.index, type)
               n == IF type = "tool_use" THEN 1 ELSE 0
    <3>1. c \in ClientType /\ Went(client, c, n) /\ n \in Nat /\ (n > 0 <=> type = "tool_use")
      BY <1>2, EventTypes, EventWent
    <3>2. client' = When(type = "tool_use", c, BlockDelta(c, params.index, type))
      BY <2>2 DEF CodexAdded
    <3>3. params'.tool = (params.tool \/ n > 0)
      BY <1>2, <2>2, <3>1 DEF CodexAdded, ParamsType
    <3>4. upstream'.calls = upstream.calls + n /\ upstream'.lapses = upstream.lapses
      BY <1>2, <2>2 DEF UpstreamType
    <3> HIDE DEF c, n
    <3>5. BlockDelta(c, params.index, type) \in ClientType /\ Went(c, BlockDelta(c, params.index, type), 0)
      BY <1>2, <3>1, EventTypes, EventWent
    <3>6. Went(client, client', n)
      <4>1. Went(client, BlockDelta(c, params.index, type), n)
        BY <1>2, <3>1, <3>5, WentOn
      <4> QED
        BY <3>1, <3>2, <4>1 DEF When
    <3> QED
      BY <1>3, <2>1, <3>1, <3>3, <3>4, <3>6
  <2>3. CASE (CodexDelta(type) /\ UNCHANGED upstream)
             \/ (CodexDone /\ upstream' = [upstream EXCEPT !.item = "none"])
    <3>1. Went(client, client', 0)
      BY <1>2, <2>3, EventWent DEF CodexDelta, CodexDone
    <3>2. upstream'.calls = upstream.calls + 0 /\ upstream'.lapses = upstream.lapses
      BY <1>2, <2>3 DEF UpstreamType
    <3>3. params'.tool = params.tool
      BY <1>2, <2>3 DEF CodexDelta, CodexDone, ParamsType
    <3>4. params'.tool = (params.tool \/ 0 > 0)
      BY <1>2, <3>3
    <3> QED
      BY <1>3, <2>1, <3>1, <3>2, <3>4
  <2> QED
    BY <1>6, <2>2, <2>3 DEF CodexItem
<1> QED
  BY <1>5, <1>6

LEMMA ReasonStep == ClaudeTypeOK /\ Reasoned /\ [ClaudeNext]_claudeVars => Reasoned'
<1> SUFFICES ASSUME ClaudeTypeOK, Reasoned, [ClaudeNext]_claudeVars PROVE Reasoned'
  OBVIOUS
<1>1. ASSUME NEW part \in Parts, NEW finish \in BOOLEAN,
             NEW usage \in {"none", "other", "candidates"}, GeminiSends(part, finish, usage)
      PROVE  Reasoned'
  <2>1. translator \in GeminiKinds
    BY <1>1 DEF GeminiSends
  <2> QED
    BY <1>1, <2>1, GeminiReasonStep
<1>2. ASSUME CodexSends PROVE Reasoned'
  <2>1. "text" \in BlockTypes
    BY DEF BlockTypes
  <2> QED
    BY <1>2, <2>1, CodexReasonStep
<1>3. CASE UNCHANGED claudeVars
  <2>1. /\ translator' = translator /\ client' = client /\ params' = params /\ openai' = openai
        /\ upstream' = upstream
    BY <1>3 DEF claudeVars
  <2>2. (Ongoing' <=> Ongoing) /\ (OpenAIReasoned' <=> OpenAIReasoned)
    BY <2>1 DEF Ongoing, OpenAIReasoned
  <2>3. HasCall(client)' <=> HasCall(client)
    BY <2>1 DEF HasCall
  <2>4. ReasonKnown' <=> ReasonKnown
    BY <2>1, <2>2, <2>3, Zenon DEF ReasonKnown
  <2> QED
    BY <2>1, <2>2, <2>4, Zenon DEF Reasoned
<1> QED
  BY <1>1, <1>2, <1>3, GeminiEndReason, OpenAIReasonStep, OpenAIEndReason, CodexReasonStep DEF ClaudeNext

LEMMA ReasonInit == ClaudeInit => Reasoned
<1> SUFFICES ASSUME ClaudeInit PROVE Reasoned
  OBVIOUS
<1>1. /\ client.used = 0 /\ client.open = {} /\ client.reason = "none" /\ client.message = "none"
      /\ ~params.tool /\ ~params.finish
      /\ openai.finish = "none" /\ ~openai.stopped /\ ~openai.delta
      /\ upstream.calls = 0 /\ upstream.lapses = {}
  BY DEF ClaudeInit, NewClient, NewParams, NewOpenAI
<1>2. ~HasCall(client) /\ ~(client.used > 0) /\ ~(upstream.calls > 0)
  BY <1>1 DEF HasCall
<1>3. params.tool = (client.used > 0)
  <2>1. params.tool = FALSE
    BY DEF ClaudeInit, NewParams
  <2>2. (client.used > 0) = FALSE
    BY <1>1
  <2> QED
    BY <2>1, <2>2, Zenon
<1>4. OpenAIReasoned
  BY <1>1, <1>2 DEF OpenAIReasoned
<1> QED
  BY <1>1, <1>2, <1>3, <1>4 DEF Reasoned, ReasonKnown

\* To a client that has refused nothing a stop reason is true, for answers of any
\* length: it is told of an answer that has come to its end, or of one of Antigravity's
\* that was cut off, and it says tool_use just when the client has calls to make, unless
\* Gemini has forgotten calls of an earlier chunk.
THEOREM StopReasons == ClaudeSpec => []StopReasonTrue
<1>1. ClaudeInit => ClaudeTypeOK /\ Reasoned
  BY TypeInit, ReasonInit
<1>2. ClaudeTypeOK /\ Reasoned /\ [ClaudeNext]_claudeVars => (ClaudeTypeOK /\ Reasoned)'
  BY TypeStep, ReasonStep
<1>3. ClaudeTypeOK /\ Reasoned => StopReasonTrue
  <2> SUFFICES ASSUME ClaudeTypeOK, Reasoned, client.ok, client.reason # "none" PROVE StopReasonTrue
    BY DEF StopReasonTrue
  <2>1. upstream.phase \in {"finished", "over"}
    BY DEF Reasoned, ReasonKnown, Ongoing, ClaudeTypeOK, UpstreamType
  <2> QED
    BY <2>1 DEF Reasoned, ReasonKnown, StopReasonTrue
<1> QED
  BY <1>1, <1>2, <1>3, PTL DEF ClaudeSpec

-----------------------------------------------------------------------------
(* What has come to its end was delivered to its end. *)

\* A Gemini translator that has opened no block is at the first.
Unopened(p) == p.type = "none" /\ ~p.final => p.index = 0
ToldAll == client.message = "stopped" /\ client.reason # "none"

Delivered ==
    /\ translator \in GeminiKinds => Unopened(params)
    /\ translator = "codex" /\ upstream.phase = "finished" /\ client.ok => ToldAll
    /\ upstream.phase = "over" /\ upstream.lapses = {} /\ client.count > 0 => ToldAll

LEMMA Accepted ==
    ASSUME NEW c \in ClientType
    PROVE  /\ MessageStop(c).ok => /\ MessageStop(c).message = "stopped"
                                   /\ MessageStop(c).reason = c.reason /\ c.ok
           /\ \A why : MessageDelta(c, why).ok => MessageDelta(c, why).reason = why
<1>1. ~[c EXCEPT !.ok = FALSE].ok
  BY DEF ClientType
<1>2. ASSUME MessageStop(c).ok
      PROVE  MessageStop(c).message = "stopped" /\ MessageStop(c).reason = c.reason /\ c.ok
  <2>1. MessageStop(c) = [c EXCEPT !.message = "stopped"] /\ c.ok
    BY <1>1, <1>2 DEF MessageStop, Accept
  <2> QED
    BY <2>1 DEF ClientType
<1>3. ASSUME NEW why, MessageDelta(c, why).ok PROVE MessageDelta(c, why).reason = why
  <2>1. MessageDelta(c, why) = [c EXCEPT !.message = "told", !.reason = why]
    BY <1>1, <1>3 DEF MessageDelta, Accept
  <2> QED
    BY <2>1 DEF ClientType
<1> QED
  BY <1>2, <1>3

LEMMA PartUnopened ==
    ASSUME NEW c, NEW p \in ParamsType, NEW part \in Parts, NEW finish \in BOOLEAN, Unopened(p)
    PROVE  Unopened(Part(c, p, part, finish).p)
<1>1. Unopened([p EXCEPT !.content = TRUE])
  BY DEF Unopened, ParamsType
<1>2. p.type # "none" => Unopened([p EXCEPT !.index = @ + 1])
  BY DEF Unopened, ParamsType
<1>3. ASSUME NEW q \in ParamsType, NEW type \in BlockTypes
      PROVE  Unopened(Turn(c, q, type).p)
  <2>1. Turn(c, q, type).p.type = type
    BY DEF Turn, ParamsType
  <2> QED
    BY <2>1 DEF Unopened, BlockTypes
<1>4. [p EXCEPT !.tool = translator = "antigravity" \/ @] \in ParamsType
  BY DEF ParamsType
<1>5. \A type \in BlockTypes : Unopened(Continue(c, p, type).p)
  BY <1>1, <1>3 DEF Continue
<1>6. Unopened(EmptyText(c, p, finish).p)
  BY <1>1, <1>2 DEF EmptyText
<1>7. \A named \in BOOLEAN : Unopened(Call(c, p, named).p)
  BY <1>3, <1>4 DEF Call, BlockTypes
<1> QED
  BY <1>1, <1>5, <1>6, <1>7 DEF Part, Parts, BlockTypes

LEMMA FinalUnopened ==
    ASSUME NEW c, NEW p \in ParamsType, NEW force \in BOOLEAN, Unopened(p)
    PROVE  Unopened(FinalEvents(c, p, force).p)
<1>1. Unopened([p EXCEPT !.type = "none", !.final = TRUE])
  BY DEF Unopened, ParamsType
<1> QED
  BY <1>1 DEF FinalEvents

LEMMA GeminiUnopened ==
    ASSUME ClaudeTypeOK, Unopened(params), NEW part \in Parts, NEW finish \in BOOLEAN, NEW usage,
           GeminiChunk(part, finish, usage) \/ GeminiDone
    PROVE  Unopened(params')
<1>1. params \in ParamsType
  BY DEF ClaudeTypeOK
<1>2. CASE GeminiChunk(part, finish, usage)
  <2> DEFINE c0 == Greet(client, params)
             p0 == [params EXCEPT !.first = TRUE]
             a  == Part(c0, p0, part, finish)
             q  == [a.p EXCEPT !.finish = @ \/ finish, !.usage = @ \/ usage # "none"]
  <2>1. p0 \in ParamsType /\ Unopened(p0) /\ c0 \in ClientType
    BY <1>1, EventTypes DEF ParamsType, Unopened, ClaudeTypeOK, Greet, When
  <2>2. IF translator = "antigravity" THEN params' = EndWhenBoth(a.c, a.p, finish, usage).p
        ELSE params' = EndInChunk(a.c, a.p, part, finish, usage).p
    BY <1>2 DEF GeminiChunk
  <2> HIDE DEF c0, p0
  <2>3. a.p \in ParamsType /\ Unopened(a.p)
    BY <2>1, PartType, PartUnopened DEF Pair
  <2> HIDE DEF a
  <2>4. q \in ParamsType /\ Unopened(q)
    BY <2>3 DEF ParamsType, Unopened
  <2>5. Unopened(FinalEvents(a.c, q, FALSE).p)
    BY <2>4, FinalUnopened
  <2>6. params' \in {a.p, q, FinalEvents(a.c, q, FALSE).p}
    BY <2>2 DEF EndInChunk, EndWhenBoth
  <2> QED
    BY <2>3, <2>4, <2>5, <2>6
<1>3. CASE GeminiDone
  <2>1. Unopened(FinalEvents(client, params, TRUE).p)
    BY <1>1, FinalUnopened
  <2> QED
    BY <1>3, <2>1 DEF GeminiDone
<1> QED
  BY <1>2, <1>3

LEMMA GeminiEndsTold ==
    ASSUME IInv, IInv', Reasoned, translator \in GeminiKinds, Unopened(params), GeminiEnds,
           upstream'.lapses = {}, client'.count > 0
    PROVE  ToldAll'
<1> DEFINE f == IF translator = "antigravity" THEN FinalEvents(client, params, TRUE)
                ELSE [c |-> client, p |-> params]
<1>1. /\ client \in ClientType /\ params \in ParamsType /\ params.index \in Nat
  BY DEF IInv, ClaudeTypeOK, ParamsType
<1>2. upstream.phase = "finished" /\ upstream.lapses = {}
  BY DEF GeminiEnds, Note, If, IInv, ClaudeTypeOK, UpstreamType
<1>3. client.ok /\ GeminiTracks /\ client'.ok
  BY <1>2 DEF IInv, Tracks, Causes, GeminiEnds
<1>4. client' = IF params.content THEN MessageStop(f.c) ELSE client
  BY DEF GeminiEnds, GeminiDone, When
<1>5. params.content
  <2> SUFFICES ASSUME ~params.content PROVE FALSE
    OBVIOUS
  <2>1. Held(client, params)
    BY <1>2, <1>3 DEF GeminiTracks
  <2>2. params.type = "none" /\ ~params.final /\ client.count = params.index
    BY <2>1 DEF Held
  <2> QED
    BY <1>1, <1>4, <2>2 DEF Unopened
<1>6. client.message = "told" => client.reason # "none"
  BY <1>3 DEF Reasoned, ReasonKnown
<1>7. f.c \in ClientType
  BY <1>1, FinalType DEF Pair
<1>8. client' = MessageStop(f.c)
  BY <1>4, <1>5
<1>9. f.c.ok => f.c.reason # "none"
  <2>1. CASE translator = "antigravity" /\ ~params.final
    <3> DEFINE d == When(params.type # "none", client, BlockStop(client, params.index))
    <3>1. f.c = MessageDelta(d, Reason(params.tool))
      <4>1. FinalEvents(client, params, TRUE).c = MessageDelta(d, Reason(params.tool))
        BY <1>5, <2>1 DEF FinalEvents
      <4> QED
        BY <2>1, <4>1
    <3>2. d \in ClientType
      BY <1>1, EventTypes DEF When
    <3> HIDE DEF d
    <3>3. MessageDelta(d, Reason(params.tool)).ok
            => MessageDelta(d, Reason(params.tool)).reason = Reason(params.tool)
      BY <3>2, Accepted
    <3>4. Reason(params.tool) # "none"
      BY DEF Reason
    <3> HIDE DEF f
    <3> QED
      BY <3>1, <3>3, <3>4
  <2>2. CASE translator = "antigravity" /\ params.final
    <3>1. f.c = client
      BY <2>2 DEF FinalEvents
    <3>2. Ended(client)
      BY <1>2, <1>3, <2>2 DEF GeminiTracks
    <3> QED
      BY <1>6, <3>1, <3>2 DEF Ended
  <2>3. CASE translator # "antigravity"
    <3>1. f.c = client
      BY <2>3
    <3>2. Ended(client)
      BY <1>2, <1>3, <1>5, <2>3 DEF GeminiTracks
    <3> QED
      BY <1>6, <3>1, <3>2 DEF Ended
  <2> QED
    BY <2>1, <2>2, <2>3
<1> HIDE DEF f
<1> QED
  BY <1>3, <1>7, <1>8, <1>9, Accepted DEF ToldAll

LEMMA OpenAIEndsTold ==
    ASSUME IInv, IInv', Reasoned, translator = "openai", OpenAIEnds \/ OpenAICut,
           upstream'.lapses = {}
    PROVE  ToldAll'
<1>1. client \in ClientType /\ openai \in OpenAIType
  BY DEF IInv, ClaudeTypeOK
<1>2. upstream.phase = "finished" /\ upstream.lapses = {} /\ (OpenAICut => openai.stop)
  BY DEF OpenAIEnds, OpenAICut, Note, If, IInv, ClaudeTypeOK, UpstreamType
<1>3. client.ok /\ Finished(client, openai) /\ client'.ok
  BY <1>2 DEF IInv, Tracks, Causes, OpenAITracks, OpenAIEnds, OpenAICut, GeminiKinds
<1>4. openai.delta => ToldAll
  BY <1>3 DEF Reasoned, ReasonKnown, OpenAIReasoned, ToldAll, Finished
<1>5. CASE OpenAICut
  <2>1. client' = client /\ openai.delta
    BY <1>2, <1>3, <1>5 DEF OpenAICut, Finished
  <2> QED
    BY <1>4, <2>1 DEF ToldAll
<1>6. CASE OpenAIEnds
  <2> DEFINE a == CloseBlocks(client, openai)
             c == When(~openai.delta, client, MessageDelta(client, openai.finish))
  <2>1. a = [c |-> client, o |-> openai]
    BY <1>1, <1>3, FinishedClosed
  <2> HIDE DEF a
  <2>2. /\ a.c = client /\ a.o = openai /\ openai.finish # "none"
    BY <1>3, <2>1 DEF Finished
  <2>3. client' = StopOnce(c, [openai EXCEPT !.delta = @ \/ ~openai.delta]).c
    BY <1>6, <2>2 DEF OpenAIEnds, OpenAIDone, a
  <2>4. client' = When(~openai.stop, c, MessageStop(c))
    BY <1>1, <2>3 DEF StopOnce, OpenAIType
  <2>5. CASE openai.delta
    <3>1. client' = client
      BY <1>3, <2>4, <2>5 DEF Finished, When
    <3> QED
      BY <1>4, <2>5, <3>1 DEF ToldAll
  <2>6. CASE ~openai.delta
    <3>1. c = MessageDelta(client, openai.finish) /\ client' = MessageStop(c)
      BY <1>3, <2>4, <2>6 DEF Finished, When
    <3>2. c \in ClientType
      BY <1>1, <3>1, EventTypes DEF OpenAIType
    <3> HIDE DEF c
    <3>3. c.ok => c.reason # "none"
      BY <1>1, <2>2, <3>1, Accepted
    <3> QED
      BY <1>3, <3>1, <3>2, <3>3, Accepted DEF ToldAll
  <2> QED
    BY <2>5, <2>6
<1> QED
  BY <1>5, <1>6

LEMMA CodexDelivered ==
    ASSUME IInv, IInv', Delivered, NEW type \in BlockTypes, CodexSends \/ CodexItem(type)
    PROVE  Delivered'
<1>1. /\ translator = "codex" /\ translator' = translator /\ "codex" \notin GeminiKinds
      /\ client \in ClientType /\ upstream \in UpstreamType
  BY DEF CodexSends, CodexItem, GeminiKinds, IInv, ClaudeTypeOK
<1>2. CASE upstream.phase = "answer" /\ CodexCompleted /\ Note("finished", 0, {})
  <2> DEFINE d == MessageDelta(client, Reason(params.tool))
  <2>1. d \in ClientType /\ client' = MessageStop(d) /\ (d.ok => d.reason # "none")
    <3>1. d \in ClientType
      BY <1>1, EventTypes DEF Reason
    <3>2. d.ok => d.reason = Reason(params.tool)
      BY <1>1, Accepted
    <3>3. Reason(params.tool) # "none"
      BY DEF Reason
    <3> QED
      BY <1>2, <3>1, <3>2, <3>3 DEF CodexCompleted
  <2> HIDE DEF d
  <2>2. client'.ok => ToldAll'
    BY <2>1, Accepted DEF ToldAll
  <2>3. upstream'.phase = "finished"
    BY <1>1, <1>2 DEF Note, UpstreamType
  <2> QED
    BY <1>1, <2>2, <2>3 DEF Delivered
<1>3. CASE /\ UNCHANGED <<client, params>> /\ upstream.phase # "over"
           /\ Note("over", 0, If(upstream.phase # "finished", "cut"))
  <2>1. upstream'.phase = "over" /\ (upstream'.lapses = {} => upstream.phase = "finished")
    BY <1>1, <1>3 DEF Note, If, UpstreamType
  <2>2. client' = client /\ (upstream'.lapses = {} => client.ok)
    BY <1>3 DEF IInv, Tracks, Causes
  <2>3. client.ok /\ upstream.phase = "finished" => ToldAll'
    BY <1>1, <2>2 DEF Delivered, ToldAll
  <2> QED
    BY <1>1, <2>1, <2>2, <2>3 DEF Delivered
<1>4. CASE upstream'.phase = "answer"
  BY <1>1, <1>4 DEF Delivered
<1>5. CASE CodexSends
  <2>1. upstream.phase = "new" /\ CodexCreated /\ Note("answer", 0, {}) => upstream'.phase = "answer"
    BY <1>1 DEF Note, UpstreamType
  <2> QED
    BY <1>2, <1>3, <1>4, <1>5, <2>1 DEF CodexSends
<1>6. CASE CodexItem(type)
  <2>1. upstream'.phase = "answer"
    BY <1>1, <1>6 DEF CodexItem, UpstreamType
  <2> QED
    BY <1>4, <2>1
<1> QED
  BY <1>5, <1>6

LEMMA DeliveredStep ==
    ASSUME IInv, IInv', Reasoned, Delivered, [ClaudeNext]_claudeVars
    PROVE  Delivered'
<1>1. "openai" \notin GeminiKinds /\ "codex" \notin GeminiKinds /\ upstream \in UpstreamType
      /\ ClaudeTypeOK
  BY DEF GeminiKinds, IInv, ClaudeTypeOK
<1>2. ASSUME NEW part \in Parts, NEW finish \in BOOLEAN,
             NEW usage \in {"none", "other", "candidates"}, GeminiSends(part, finish, usage)
      PROVE  Delivered'
  <2>1. /\ translator \in GeminiKinds /\ translator' = translator
        /\ GeminiChunk(part, finish, usage)
    BY <1>2 DEF GeminiSends
  <2>2. upstream'.phase = PhaseAfter(finish)
    <3> DEFINE S == If(translator = "antigravity" /\ part = "empty" /\ ~finish
                         /\ params.type \in {"thinking", "tool_use"}, "empty text")
                    \cup If(translator = "antigravity" /\ part = "signature"
                              /\ params.type # "thinking", "lone signature")
                    \cup If(translator # "gemini" /\ part = "more args", "split call")
                    \cup If(translator # "antigravity" /\ finish /\ usage # "candidates", "no tokens")
                    \cup If(translator # "antigravity" /\ finish /\ client.used > 0
                              /\ part \notin {"call", "more args"}, "earlier call")
               m == IF part = "call" THEN 1 ELSE 0
    <3>1. Note(PhaseAfter(finish), m, S)
      BY <1>2 DEF GeminiSends
    <3> HIDE DEF S, m
    <3> QED
      BY <1>1, <3>1 DEF Note, UpstreamType
  <2>3. upstream'.phase # "over"
    BY <2>2 DEF PhaseAfter
  <2>4. Unopened(params')
    BY <1>1, <2>1, GeminiUnopened DEF Delivered
  <2> QED
    BY <1>1, <2>1, <2>3, <2>4 DEF Delivered, Unopened
<1>3. CASE GeminiUsage
  <2>1. /\ translator \in GeminiKinds /\ translator' = translator /\ upstream'.phase = "finished"
        /\ GeminiChunk("none", FALSE, "candidates")
    BY <1>3 DEF GeminiUsage, GeminiKinds
  <2>2. Unopened(params')
    BY <1>1, <2>1, GeminiUnopened DEF Delivered, Parts
  <2> QED
    BY <1>1, <2>1, <2>2 DEF Delivered, Unopened
<1>4. CASE GeminiEnds
  <2>1. translator \in GeminiKinds /\ translator' = translator /\ GeminiDone /\ Unopened(params)
    BY <1>4 DEF GeminiEnds, Delivered
  <2>2. Unopened(params')
    BY <1>1, <2>1, GeminiUnopened DEF Parts
  <2>3. upstream'.lapses = {} /\ client'.count > 0 => ToldAll'
    BY <1>4, <2>1, GeminiEndsTold
  <2> QED
    BY <1>1, <2>1, <2>2, <2>3 DEF Delivered, Unopened
<1>5. ASSUME translator = "openai", translator' = translator, upstream'.phase # "over" PROVE Delivered'
  BY <1>1, <1>5 DEF Delivered
<1>6. ASSUME NEW part \in Deltas, NEW finish \in BOOLEAN, NEW usage \in BOOLEAN,
             OpenAISends(part, finish, usage)
      PROVE  Delivered'
  <2>1. upstream'.phase = PhaseAfter(finish)
    BY <1>1, <1>6 DEF OpenAISends, Note, UpstreamType
  <2> QED
    BY <1>5, <1>6, <2>1 DEF OpenAISends, PhaseAfter
<1>7. ASSUME NEW i \in ToolIndexes, NEW named \in BOOLEAN, NEW finish \in BOOLEAN,
             NEW usage \in BOOLEAN, OpenAICalls(i, named, finish, usage)
      PROVE  Delivered'
  <2>1. upstream'.phase = PhaseAfter(finish)
    <3>1. \E m, S : Note(PhaseAfter(finish), m, S)
      BY <1>7 DEF OpenAICalls
    <3> QED
      BY <1>1, <3>1 DEF Note, UpstreamType
  <2> QED
    BY <1>5, <1>7, <2>1 DEF OpenAICalls, PhaseAfter
<1>8. CASE OpenAIUsage
  <2>1. upstream'.phase = "finished"
    <3>1. \E S : Note("finished", 0, S)
      BY <1>8 DEF OpenAIUsage
    <3> QED
      BY <1>1, <3>1 DEF Note, UpstreamType
  <2> QED
    BY <1>5, <1>8, <2>1 DEF OpenAIUsage
<1>9. CASE OpenAIEnds \/ OpenAICut
  <2>1. translator = "openai" /\ translator' = translator
    BY <1>9 DEF OpenAIEnds, OpenAICut
  <2>2. upstream'.lapses = {} => ToldAll'
    BY <1>9, <2>1, OpenAIEndsTold
  <2> QED
    BY <1>1, <2>1, <2>2 DEF Delivered
<1>10. ASSUME CodexSends PROVE Delivered'
  <2>1. "text" \in BlockTypes
    BY DEF BlockTypes
  <2> QED
    BY <1>10, <2>1, CodexDelivered
<1>11. CASE UNCHANGED claudeVars
  BY <1>11 DEF claudeVars, Delivered, Unopened, ToldAll
<1> QED
  BY <1>2, <1>3, <1>4, <1>6, <1>7, <1>8, <1>9, <1>10, <1>11, CodexDelivered DEF ClaudeNext

LEMMA DeliveredInit == ClaudeInit => Delivered
BY DEF ClaudeInit, NewParams, NewClient, Delivered, Unopened

\* Every answer that comes to its end without a lapse is told to the client to its
\* end, with as many tool calls as it has, however its parts were cut into chunks.
THEOREM WholeAnswers == ClaudeSpec => []CompleteIsDelivered
<1> DEFINE DInv == IInv /\ Reasoned /\ Delivered
<1>1. ClaudeInit => DInv
  BY TypeInit, TrackInit, ReasonInit, DeliveredInit DEF IInv
<1>2. DInv /\ [ClaudeNext]_claudeVars => DInv'
  <2> SUFFICES ASSUME DInv, [ClaudeNext]_claudeVars PROVE DInv'
    OBVIOUS
  <2>1. IInv'
    BY TypeStep, TrackStep DEF IInv
  <2>2. Reasoned'
    BY ReasonStep DEF IInv
  <2>3. Delivered'
    BY <2>1, DeliveredStep
  <2> QED
    BY <2>1, <2>2, <2>3
<1>3. DInv => CompleteIsDelivered
  <2> SUFFICES ASSUME DInv, upstream.phase = "over", upstream.lapses = {}, client.count > 0
               PROVE  client.message = "stopped" /\ client.reason # "none" /\ client.used = upstream.calls
    BY DEF CompleteIsDelivered
  <2>1. client.ok
    BY DEF IInv, Tracks
  <2>2. client.used = upstream.calls
    BY <2>1 DEF Reasoned, ReasonKnown
  <2> QED
    BY <2>2 DEF Delivered, ToldAll
<1> HIDE DEF DInv
<1> QED
  BY <1>1, <1>2, <1>3, PTL DEF ClaudeSpec
=============================================================================
