------------------------------ MODULE ToClaude ------------------------------
(***************************************************************************)
(* The translators that turn a streamed answer of another provider into    *)
(* the events of Claude's Messages API (internal/translator/.../claude).   *)
(* A translator is called once per chunk of the upstream's stream and      *)
(* keeps its state between calls in a record that the executor hands it;   *)
(* the events it returns are judged by a client that follows the protocol: *)
(* a message starts, content blocks start in the order of their indexes,   *)
(* deltas and stops name a block that is open, the end is told when all of *)
(* them are closed, and nothing comes after it.                            *)
(*                                                                         *)
(* A chunk carries at most one part: chunks with several are translated    *)
(* part by part.  Texts, arguments, identifiers and numbers of tokens are  *)
(* left out; a chunk is what the translators branch on.                    *)
(***************************************************************************)
EXTENDS Integers

CONSTANTS
    Kinds,       \* translators, among "openai", "codex" and GeminiKinds
    ToolIndexes, \* tool_calls[].index of an OpenAI answer
    MaxBlocks    \* bound: an answer has at most so many parts that open a block

GeminiKinds == {"gemini", "gemini-cli", "antigravity"}
BlockTypes == {"text", "thinking", "tool_use"}
NoBlock == -1

VARIABLES
    translator, \* the translator of this stream
    client,     \* what the client has made of the events
    params,     \* Params of the Gemini translators and of codex
    openai,     \* ConvertOpenAIResponseToAnthropicParams
    upstream    \* [phase, item, calls, lapses]: the answer so far; item is the
                \* one codex has open, lapses are its irregularities

claudeVars == <<translator, client, params, openai, upstream>>

NewClient == [ok |-> TRUE, message |-> "none", open |-> {}, count |-> 0,
              reason |-> "none", used |-> 0]
NewParams == [first |-> FALSE, type |-> "none", index |-> 0, content |-> FALSE,
              finish |-> FALSE, usage |-> FALSE, final |-> FALSE, tool |-> FALSE]
NewTool == [index |-> NoBlock, args |-> FALSE]
NewOpenAI == [started |-> FALSE, text |-> NoBlock, thinking |-> NoBlock, next |-> 0,
              tools |-> [i \in ToolIndexes |-> NewTool], finish |-> "none",
              stopped |-> FALSE, delta |-> FALSE, stop |-> FALSE]

ClaudeInit ==
    /\ translator \in Kinds
    /\ client = NewClient /\ params = NewParams /\ openai = NewOpenAI
    /\ upstream = [phase |-> "new", item |-> "none", calls |-> 0, lapses |-> {}]

-----------------------------------------------------------------------------
(* The client, event by event. *)

\* The next event leads to d if it fits, and is an error otherwise.
Accept(c, fits, d) == IF c.ok /\ fits THEN d ELSE [c EXCEPT !.ok = FALSE]

MessageStart(c) == Accept(c, c.message = "none", [c EXCEPT !.message = "open"])

BlockStart(c, i, type) ==
    Accept(c, c.message = "open" /\ i = c.count,
           [c EXCEPT !.open = @ \cup {<<i, type>>}, !.count = @ + 1,
                     !.used = IF type = "tool_use" THEN @ + 1 ELSE @])

BlockDelta(c, i, type) == Accept(c, c.message = "open" /\ <<i, type>> \in c.open, c)

BlockStop(c, i) ==
    Accept(c, \E type \in BlockTypes : <<i, type>> \in c.open,
           [c EXCEPT !.open = {b \in @ : b[1] # i}])

MessageDelta(c, why) ==
    Accept(c, c.message \in {"open", "told"} /\ c.open = {},
           [c EXCEPT !.message = "told", !.reason = why])

MessageStop(c) ==
    Accept(c, c.message \in {"open", "told"} /\ c.open = {},
           [c EXCEPT !.message = "stopped"])

\* The events that d stands for are only sent on a condition.
When(sent, c, d) == IF sent THEN d ELSE c

\* A stop reason, as far as a client acts on it.
Reason(tool) == IF tool THEN "tool_use" ELSE "end_turn"

-----------------------------------------------------------------------------
(* Gemini, Gemini CLI and Antigravity. *)

\* message_start comes with the first chunk, whatever it holds.
Greet(c, p) == When(~p.first, c, MessageStart(c))

\* Mutant of Turn: the open block is left open.
TurnWithoutStop(c, p, type) ==
    LET i == IF p.type # "none" THEN p.index + 1 ELSE p.index
    IN  [c |-> BlockDelta(BlockStart(c, i, type), i, type),
         p |-> [p EXCEPT !.type = type, !.index = i, !.content = TRUE]]

\* Closes the block that is open and begins one with its first delta.
Turn(c, p, type) ==
    LET i  == IF p.type # "none" THEN p.index + 1 ELSE p.index
        c1 == When(p.type # "none", c, BlockStop(c, p.index))
    IN  [c |-> BlockDelta(BlockStart(c1, i, type), i, type),
         p |-> [p EXCEPT !.type = type, !.index = i, !.content = TRUE]]

\* A part continues the block that is open or begins one of its type.
Continue(c, p, type) ==
    IF p.type = type
    THEN [c |-> BlockDelta(c, p.index, type), p |-> [p EXCEPT !.content = TRUE]]
    ELSE Turn(c, p, type)

\* Antigravity: an empty text within an answer closes the block that is open and
\* begins none; the type of the closed one stays.
EmptyText(c, p, finish) ==
    IF finish THEN [c |-> c, p |-> p]
    ELSE IF p.type = "text"
    THEN [c |-> BlockDelta(c, p.index, "text"), p |-> [p EXCEPT !.content = TRUE]]
    ELSE IF p.type = "none" THEN [c |-> c, p |-> p]
    ELSE [c |-> BlockStop(c, p.index), p |-> [p EXCEPT !.index = @ + 1]]

\* A call is a block of its own; Gemini takes one without a name for more of
\* the arguments of the last.
Call(c, p, named) ==
    LET q == [p EXCEPT !.tool = translator = "antigravity" \/ @]
    IN  IF translator = "gemini" /\ ~named /\ p.type = "tool_use"
        THEN [c |-> BlockDelta(c, p.index, "tool_use"), p |-> p]
        ELSE Turn(c, q, "tool_use")

Parts == {"none", "text", "empty", "thought", "signature", "call", "more args"}

\* What becomes of a part; only Antigravity forwards signatures.
Part(c, p, part, finish) ==
    CASE part = "none" -> [c |-> c, p |-> p]
      [] part = "text" -> Continue(c, p, "text")
      [] part = "empty" -> IF translator = "antigravity" THEN EmptyText(c, p, finish)
                           ELSE Continue(c, p, "text")
      [] part = "thought" -> Continue(c, p, "thinking")
      [] part = "signature" ->
            IF translator = "antigravity"
            THEN [c |-> BlockDelta(c, p.index, "thinking"), p |-> [p EXCEPT !.content = TRUE]]
            ELSE Continue(c, p, "thinking")
      [] part = "call" -> Call(c, p, TRUE)
      [] part = "more args" -> Call(c, p, FALSE)

\* Gemini ends the message in the one chunk that has both the finish reason and
\* the candidates' tokens; whether tools were used is known of this chunk only.
EndInChunk(c, p, part, finish, usage) ==
    LET ends == finish /\ usage = "candidates" /\ p.content
        why  == Reason(part \in {"call", "more args"})
    IN  [c |-> When(ends, c, MessageDelta(BlockStop(c, p.index), why)), p |-> p]

\* appendFinalEvents.
FinalEvents(c, p, force) ==
    IF p.final \/ ~p.content \/ (~p.usage /\ ~force) THEN [c |-> c, p |-> p]
    ELSE [c |-> MessageDelta(When(p.type # "none", c, BlockStop(c, p.index)), Reason(p.tool)),
          p |-> [p EXCEPT !.type = "none", !.final = TRUE]]

\* Antigravity remembers both and ends the message once it has seen them.
EndWhenBoth(c, p, finish, usage) ==
    LET q == [p EXCEPT !.finish = @ \/ finish, !.usage = @ \/ usage # "none"]
    IN  IF q.finish /\ q.usage THEN FinalEvents(c, q, FALSE) ELSE [c |-> c, p |-> q]

GeminiChunk(part, finish, usage) ==
    LET a == Part(Greet(client, params), [params EXCEPT !.first = TRUE], part, finish)
        b == IF translator = "antigravity" THEN EndWhenBoth(a.c, a.p, finish, usage)
             ELSE EndInChunk(a.c, a.p, part, finish, usage)
    IN  client' = b.c /\ params' = b.p

\* The "[DONE]" that the executors add to the stream, however it ended.
GeminiDone ==
    LET f == IF translator = "antigravity" THEN FinalEvents(client, params, TRUE)
             ELSE [c |-> client, p |-> params]
    IN  /\ client' = When(params.content, client, MessageStop(f.c))
        /\ params' = IF params.content THEN f.p ELSE params

-----------------------------------------------------------------------------
(* OpenAI chat completions. *)

\* stopTextContentBlock and stopThinkingContentBlock.
StopText(c, o) == [c |-> When(o.text # NoBlock, c, BlockStop(c, o.text)),
                   o |-> [o EXCEPT !.text = NoBlock]]
StopThinking(c, o) == [c |-> When(o.thinking # NoBlock, c, BlockStop(c, o.thinking)),
                       o |-> [o EXCEPT !.thinking = NoBlock]]
StopBoth(c, o) == LET a == StopThinking(c, o) IN StopText(a.c, a.o)

Reasoning(c, o) ==
    LET a == StopText(c, o)
    IN  IF o.thinking # NoBlock
        THEN [a EXCEPT !.c = BlockDelta(@, o.thinking, "thinking")]
        ELSE [c |-> BlockDelta(BlockStart(a.c, o.next, "thinking"), o.next, "thinking"),
              o |-> [a.o EXCEPT !.thinking = o.next, !.next = @ + 1]]

Content(c, o) ==
    LET a == StopThinking(c, o)
    IN  IF o.text # NoBlock
        THEN [c |-> BlockDelta(c, o.text, "text"), o |-> o]
        ELSE [c |-> BlockDelta(BlockStart(a.c, o.next, "text"), o.next, "text"),
              o |-> [a.o EXCEPT !.text = o.next, !.next = @ + 1]]

\* toolContentBlockIndex, for the tool of index i.
Allot(o, i) ==
    IF o.tools[i].index # NoBlock THEN o
    ELSE [o EXCEPT !.tools[i].index = o.next, !.next = @ + 1]

\* A call begins with its name and closes what is open but other calls; its
\* arguments are collected until all of them are there.
ToolCall(c, o, i, named) ==
    LET b == Allot(o, i)
        a == StopBoth(c, b)
    IN  IF named THEN [a EXCEPT !.c = BlockStart(@, b.tools[i].index, "tool_use")]
        ELSE [c |-> c, o |-> [b EXCEPT !.tools[i].args = TRUE]]

\* The arguments and the stop of each tool, once, in any order.
StopTools(c, o) ==
    LET begun  == {i \in ToolIndexes : o.tools[i].index # NoBlock}
        blocks == {<<o.tools[i].index, "tool_use">> : i \in begun}
    IN  IF o.stopped THEN [c |-> c, o |-> o]
        ELSE [c |-> Accept(c, begun = {} \/ (c.message = "open" /\ blocks \subseteq c.open),
                           [c EXCEPT !.open = @ \ blocks]),
              o |-> [o EXCEPT !.stopped = TRUE,
                              !.tools = [i \in ToolIndexes |-> [o.tools[i] EXCEPT !.index = NoBlock]]]]

\* What the finish reason closes, and "[DONE]" if there was none.
CloseBlocks(c, o) == LET a == StopBoth(c, o) IN StopTools(a.c, a.o)

\* emitMessageStopIfNeeded.
StopOnce(c, o) == [c |-> When(~o.stop, c, MessageStop(c)), o |-> [o EXCEPT !.stop = TRUE]]

\* Usage that follows the finish reason or comes with it ends the message.
Usage(c, o) ==
    IF o.finish = "none" THEN [c |-> c, o |-> o]
    ELSE StopOnce(MessageDelta(c, o.finish), [o EXCEPT !.delta = TRUE])

Deltas == {"none", "empty", "text", "thought"}

\* What comes of choices[0].delta; the one chunk without it has usage alone.
Delta(c, o, part) ==
    CASE part \in {"none", "empty"} -> [c |-> c, o |-> o]
      [] part = "text" -> Content(c, o)
      [] part = "thought" -> Reasoning(c, o)

\* A chunk: d is what comes of its delta, why its finish reason.
Finish(d, why, usage) ==
    LET f == IF why = "none" THEN d ELSE CloseBlocks(d.c, [d.o EXCEPT !.finish = why])
        u == IF usage THEN Usage(f.c, f.o) ELSE f
    IN  client' = u.c /\ openai' = u.o

Started(c, o) == [c |-> When(~o.started, c, MessageStart(c)), o |-> [o EXCEPT !.started = TRUE]]

\* Mutant of OpenAIDone: without usage the client is not told the stop reason.
OpenAIDoneUntold ==
    LET a == CloseBlocks(client, openai)
        e == StopOnce(a.c, a.o)
    IN  client' = e.c /\ openai' = e.o

\* convertOpenAIDoneToAnthropic.
OpenAIDone ==
    LET a    == CloseBlocks(client, openai)
        tell == a.o.finish # "none" /\ ~a.o.delta
        e    == StopOnce(When(tell, a.c, MessageDelta(a.c, a.o.finish)),
                         [a.o EXCEPT !.delta = @ \/ tell])
    IN  client' = e.c /\ openai' = e.o

-----------------------------------------------------------------------------
(* Codex: every event of the Responses API that matters has one of Claude's. *)

CodexCreated == client' = MessageStart(client) /\ UNCHANGED params

\* Mutant of CodexAdded: a call is not remembered.
CodexAddedForgotten(type) ==
    /\ client' = BlockStart(client, params.index, type)
    /\ UNCHANGED params

CodexAdded(type) ==
    LET c == BlockStart(client, params.index, type)
    IN  /\ client' = When(type = "tool_use", c, BlockDelta(c, params.index, type))
        /\ params' = [params EXCEPT !.tool = @ \/ type = "tool_use"]

CodexDelta(type) ==
    /\ client' = BlockDelta(client, params.index, type)
    /\ UNCHANGED params

CodexDone ==
    /\ client' = BlockStop(client, params.index)
    /\ params' = [params EXCEPT !.index = @ + 1]

CodexCompleted ==
    /\ client' = MessageStop(MessageDelta(client, Reason(params.tool)))
    /\ UNCHANGED params

-----------------------------------------------------------------------------
(* The upstreams, as their APIs are documented: nothing comes after the finish *)
(* reason but usage.  What else they may do is recorded as a lapse.            *)

Ongoing == upstream.phase \in {"new", "answer"}
Room == \A n \in {client.count, params.index, openai.next, upstream.calls} : n < MaxBlocks

Note(phase, calls, lapses) ==
    upstream' = [upstream EXCEPT !.phase = phase, !.calls = @ + calls,
                                 !.lapses = @ \cup lapses]

If(b, lapse) == IF b THEN {lapse} ELSE {}
PhaseAfter(finish) == IF finish THEN "finished" ELSE "answer"

\* Further arguments follow what they belong to.
GeminiSends(part, finish, usage) ==
    /\ translator \in GeminiKinds /\ Ongoing
    /\ part # "none" => Room
    /\ part = "more args" => params.type = "tool_use"
    /\ GeminiChunk(part, finish, usage)
    /\ Note(PhaseAfter(finish), IF part = "call" THEN 1 ELSE 0,
            If(translator = "antigravity" /\ part = "empty" /\ ~finish
                 /\ params.type \in {"thinking", "tool_use"}, "empty text")
            \cup If(translator = "antigravity" /\ part = "signature"
                      /\ params.type # "thinking", "lone signature")
            \cup If(translator # "gemini" /\ part = "more args", "split call")
            \cup If(translator # "antigravity" /\ finish /\ usage # "candidates", "no tokens")
            \cup If(translator # "antigravity" /\ finish /\ client.used > 0
                      /\ part \notin {"call", "more args"}, "earlier call"))
    /\ UNCHANGED <<translator, openai>>

\* Usage in a chunk of its own, which the filter of the executor lets pass.
GeminiUsage ==
    /\ translator = "antigravity" /\ upstream.phase = "finished" /\ ~params.usage
    /\ GeminiChunk("none", FALSE, "candidates")
    /\ UNCHANGED <<translator, openai, upstream>>

GeminiEnds ==
    /\ translator \in GeminiKinds /\ upstream.phase # "over"
    /\ GeminiDone
    /\ Note("over", 0, If(upstream.phase # "finished", "cut"))
    /\ UNCHANGED <<translator, openai>>

\* The finish reason tells of tools if there was a call.
WhyOf(finish, calls) == IF finish THEN Reason(calls > 0) ELSE "none"

OpenAISends(part, finish, usage) ==
    /\ translator = "openai" /\ Ongoing
    /\ part \in {"text", "thought"} => Room
    /\ LET s == Started(client, openai)
       IN  Finish(Delta(s.c, s.o, part), WhyOf(finish, upstream.calls), usage)
    /\ Note(PhaseAfter(finish), 0, {})
    /\ UNCHANGED <<translator, params>>

\* Part of a call: its name comes first, and once.
OpenAICalls(i, named, finish, usage) ==
    /\ translator = "openai" /\ Ongoing /\ Room
    /\ LET s   == Started(client, openai)
           new == <<openai.tools[i].index, "tool_use">> \notin client.open
       IN  /\ Finish(ToolCall(s.c, s.o, i, named), WhyOf(finish, 1), usage)
           /\ Note(PhaseAfter(finish), IF named /\ new THEN 1 ELSE 0,
                   If(named /\ openai.tools[i].index # NoBlock, "name again")
                   \cup If(~named /\ new, "no name"))
    /\ UNCHANGED <<translator, params>>

\* The chunk without choices that has the usage.
OpenAIUsage ==
    /\ translator = "openai" /\ upstream.phase = "finished"
    /\ Finish([c |-> client, o |-> openai], "none", TRUE)
    /\ Note("finished", 0, If(openai.delta, "usage again"))
    /\ UNCHANGED <<translator, params>>

OpenAIEnds ==
    /\ translator = "openai" /\ upstream.phase # "over"
    /\ OpenAIDone
    /\ Note("over", 0, If(upstream.phase # "finished", "cut"))
    /\ UNCHANGED <<translator, params>>

\* The connection ends without "[DONE]": nobody calls the translator again.
OpenAICut ==
    /\ translator = "openai" /\ upstream.phase # "over"
    /\ Note("over", 0, If(upstream.phase # "finished" \/ ~openai.stop, "cut"))
    /\ UNCHANGED <<translator, client, params, openai>>

CodexSends ==
    /\ translator = "codex"
    /\ \/ upstream.phase = "new" /\ CodexCreated /\ Note("answer", 0, {})
       \/ /\ upstream.phase = "answer" /\ upstream.item = "none" /\ CodexCompleted
          /\ Note("finished", 0, {})
       \/ /\ upstream.phase # "over" /\ UNCHANGED <<client, params>>
          /\ Note("over", 0, If(upstream.phase # "finished", "cut"))
    /\ UNCHANGED <<translator, openai>>

CodexItem(type) ==
    /\ translator = "codex" /\ upstream.phase = "answer"
    /\ \/ /\ upstream.item = "none" /\ Room /\ CodexAdded(type)
          /\ upstream' = [upstream EXCEPT !.item = type,
                              !.calls = IF type = "tool_use" THEN @ + 1 ELSE @]
       \/ upstream.item = type /\ CodexDelta(type) /\ UNCHANGED upstream
       \/ /\ upstream.item = type /\ CodexDone
          /\ upstream' = [upstream EXCEPT !.item = "none"]
    /\ UNCHANGED <<translator, openai>>

ClaudeNext ==
    \/ \E part \in Parts, finish \in BOOLEAN, usage \in {"none", "other", "candidates"} :
          GeminiSends(part, finish, usage)
    \/ GeminiUsage \/ GeminiEnds
    \/ \E part \in Deltas, finish, usage \in BOOLEAN : OpenAISends(part, finish, usage)
    \/ \E i \in ToolIndexes, named, finish, usage \in BOOLEAN :
          OpenAICalls(i, named, finish, usage)
    \/ OpenAIUsage \/ OpenAIEnds \/ OpenAICut
    \/ CodexSends
    \/ \E type \in BlockTypes : CodexItem(type)

ClaudeSpec == ClaudeInit /\ [][ClaudeNext]_claudeVars

-----------------------------------------------------------------------------
(* Properties *)

ClientType ==
    [ok : BOOLEAN, message : {"none", "open", "told", "stopped"},
     open : SUBSET (Nat \X BlockTypes), count : Nat,
     reason : {"none", "tool_use", "end_turn"}, used : Nat]
ParamsType ==
    [first : BOOLEAN, type : {"none"} \cup BlockTypes, index : Nat, content : BOOLEAN,
     finish : BOOLEAN, usage : BOOLEAN, final : BOOLEAN, tool : BOOLEAN]
ToolType == [index : Nat \cup {NoBlock}, args : BOOLEAN]
OpenAIType ==
    [started : BOOLEAN, text : Nat \cup {NoBlock}, thinking : Nat \cup {NoBlock},
     next : Nat, tools : [ToolIndexes -> ToolType],
     finish : {"none", "tool_use", "end_turn"}, stopped : BOOLEAN, delta : BOOLEAN,
     stop : BOOLEAN]
Lapses == {"empty text", "lone signature", "split call", "no tokens", "earlier call",
           "name again", "no name", "usage again", "cut"}
UpstreamType ==
    [phase : {"new", "answer", "finished", "over"}, item : {"none"} \cup BlockTypes,
     calls : Nat, lapses : SUBSET Lapses]

\* Types.
ClaudeTypeOK ==
    /\ translator \in Kinds
    /\ client \in ClientType /\ params \in ParamsType /\ openai \in OpenAIType
    /\ upstream \in UpstreamType

\* "The function maintains state across multiple calls to ensure proper SSE
\* event sequencing": whatever chunks arrive, no event names a block that is not
\* open, opens one out of order or comes after the end.  Said of answers whose
\* signatures belong to a thought.
EventsInSequence == "lone signature" \notin upstream.lapses => client.ok

\* What the clients refuse has one of these causes: an empty text where
\* Antigravity keeps the type of the block it has closed, a signature that it
\* forwards although no thinking is open, an answer of Gemini
\* that is cut off or ends without the tokens that its last events wait for, an
\* OpenAI answer that is cut off, names a call twice or not at all, or repeats its
\* usage.  Any other sequence of parts, interleaved calls included, is translated
\* into the order of the protocol.
RefusedOnlyAfterLapse ==
    ~client.ok =>
        upstream.lapses \cap {"empty text", "lone signature", "no tokens", "cut",
                              "name again", "no name", "usage again"} # {}

\* An answer that came to its end is a message that came to its end, with as
\* many tool calls as the upstream made, however its parts were cut into chunks
\* and wherever its usage was.
CompleteIsDelivered ==
    upstream.phase = "over" /\ upstream.lapses = {} /\ client.count > 0 =>
        client.message = "stopped" /\ client.reason # "none" /\ client.used = upstream.calls

\* To a client that has refused nothing a stop reason is true: it is only told of an
\* answer that has come to its end, and it says tool_use just when the client has
\* calls to make.  Two exceptions are in the code: Antigravity tells it of an answer
\* that was cut off, too, and Gemini forgets the calls of earlier chunks.
StopReasonTrue ==
    client.ok /\ client.reason # "none" =>
        /\ upstream.phase \in {"finished", "over"}
        /\ "cut" \in upstream.lapses => translator = "antigravity"
        /\ (client.reason = "tool_use") = (client.used > 0)
             \/ "earlier call" \in upstream.lapses
=============================================================================
