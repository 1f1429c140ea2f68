----------------------------- MODULE StreamPath -----------------------------
(***************************************************************************)
(* The way of one streamed answer from the upstream connection to the      *)
(* client, through four goroutines and four channels: an executor reads    *)
(* and translates (internal/runtime/executor), the manager's goroutine     *)
(* records the result and passes the chunks on (sdk/cliproxy/auth), the    *)
(* handlers' goroutine retries a stream that fails before its first        *)
(* payload (ExecuteStreamWithAuthManager), and the HTTP handler waits for  *)
(* the first chunk and forwards the others (ForwardStream).                *)
(*                                                                         *)
(* Sends on an unbuffered channel are one step of both sides.  Attempt 1   *)
(* is the stream the handler got, the later ones those of its retries.     *)
(***************************************************************************)
EXTENDS Naturals, FiniteSets

CONSTANTS
    Executors,  \* the executors' loops that may serve the request
    Retries,    \* StreamingBootstrapRetries: 0 by default
    MaxLines    \* bound: chunks with content an upstream sends

\* How the loops of the executors differ.  tail: what is sent whatever ended the
\* loop, the translation of [DONE] or the event that was begun.  strict: an answer without message_stop is an
\* error, and an error after it none.  lenient: a strict one that accepts an
\* end after visible content.  fallback: an answer without payload is replaced
\* by one that is not streamed.  ahead: the loop only starts once a meaningful
\* line has been read.  framed: messages say where the answer ends.
Plain == [tail |-> "none", strict |-> FALSE, lenient |-> FALSE, fallback |-> FALSE,
          ahead |-> FALSE, framed |-> FALSE]
GeminiLoop == [Plain EXCEPT !.tail = "done"]
GeminiVertexLoop == [Plain EXCEPT !.tail = "done"]
GeminiVertexKeyLoop == [Plain EXCEPT !.tail = "done"]
GeminiCLILoop == [Plain EXCEPT !.tail = "done"]
AntigravityLoop == [Plain EXCEPT !.tail = "done"]
KimiLoop == [Plain EXCEPT !.tail = "done"]
QwenLoop == [Plain EXCEPT !.tail = "done"]
IFlowLoop == Plain
CodexRelayLoop == [Plain EXCEPT !.tail = "event"]
CodexLoop == [Plain EXCEPT !.ahead = TRUE]
CodexChatLoop == [Plain EXCEPT !.ahead = TRUE]
CodexClaudeLoop == [Plain EXCEPT !.ahead = TRUE]
ClaudePassthroughLoop == [Plain EXCEPT !.strict = TRUE]
ClaudeLoop == [Plain EXCEPT !.strict = TRUE, !.tail = "event"]
ClaudeRelayLoop == [ClaudeLoop EXCEPT !.lenient = TRUE]
ClaudeTranslatedLoop == [Plain EXCEPT !.strict = TRUE]
CompatLoop == [Plain EXCEPT !.fallback = TRUE]
AIStudioLoop == [Plain EXCEPT !.framed = TRUE]

Loops == {GeminiLoop, GeminiVertexLoop, GeminiVertexKeyLoop, GeminiCLILoop, AntigravityLoop,
          KimiLoop, QwenLoop, IFlowLoop, CodexRelayLoop, CodexLoop, CodexChatLoop,
          CodexClaudeLoop, ClaudePassthroughLoop, ClaudeLoop, ClaudeRelayLoop,
          ClaudeTranslatedLoop, CompatLoop, AIStudioLoop}

ASSUME StreamAssumption ==
    Executors \subseteq Loops /\ Retries \in Nat /\ MaxLines \in Nat \ {0}

Attempts == 1 .. Retries + 1
\* "line": content; "stop": the last of an answer; "tail": the translation of
\* [DONE]; "error": a StreamChunk with Err.
Chunk == {"line", "stop", "tail", "error"}

VARIABLES
    kind,     \* of the executor: it stays the same over the retries
    limited,  \* the provider serves one call at a time
    ex,       \* [pc, msg, lines, stop, end] of each attempt's executor
    wr,       \* [pc, msg, failed, forward] of each manager's goroutine
    result,   \* what MarkResult was told of each attempt
    br,       \* [pc, msg, paid, cur] of the handlers' goroutine
    errs,     \* errChan holds an error
    shut,     \* which of errChan and dataChan are closed
    fwd,      \* of the HTTP handler: "peek", "loop" or "over"
    outcome,  \* how it ended: "done", "error" or "left"
    over,     \* the context of the request has ended
    gone,     \* the client has left
    shown     \* what the client has got: [from, told], attempts and ends

setup == <<kind, limited>>
goroutine == <<br, errs, shut>>
httpHandler == <<fwd, outcome, shown>>
streamVars == <<setup, ex, wr, result, goroutine, httpHandler, over, gone>>

Opened(k) == [pc |-> IF k.ahead THEN "send" ELSE "read", msg |-> "line",
              lines |-> IF k.ahead THEN 1 ELSE 0, stop |-> FALSE, end |-> "none"]
Listening == [pc |-> "recv", msg |-> "line", failed |-> FALSE, forward |-> TRUE]

StreamInit ==
    /\ kind \in Executors /\ limited \in BOOLEAN
    /\ ex = [a \in Attempts |-> IF a = 1 THEN Opened(kind) ELSE [Opened(kind) EXCEPT !.pc = "off"]]
    /\ wr = [a \in Attempts |-> IF a = 1 THEN Listening ELSE [Listening EXCEPT !.pc = "off"]]
    /\ result = [a \in Attempts |-> "none"]
    /\ br = [pc |-> "recv", msg |-> "line", paid |-> FALSE, cur |-> 1]
    /\ errs = FALSE /\ shut = {}
    /\ fwd = "peek" /\ outcome = "none"
    /\ over = FALSE /\ gone = FALSE
    /\ shown = [from |-> {}, told |-> {}]

-----------------------------------------------------------------------------
(* Executors. *)

Send(a, msg) == ex' = [ex EXCEPT ![a].pc = "send", ![a].msg = msg]

\* Content or the end of the answer is passed on.
Pass(a) ==
    /\ ~ex[a].stop
    /\ \/ /\ ex[a].lines < MaxLines
          /\ ex' = [ex EXCEPT ![a].pc = "send", ![a].msg = "line", ![a].lines = @ + 1]
       \/ ex' = [ex EXCEPT ![a].pc = "send", ![a].msg = "stop", ![a].stop = TRUE]

\* scanner.Scan returns a line, or a message of the relay comes in.
ReadLine(a) ==
    /\ ex[a].pc = "read"
    /\ Pass(a)
    /\ UNCHANGED <<setup, wr, result, goroutine, httpHandler, over, gone>>

\* It returns false: the answer has ended, or the connection or the context.
ReadEnds(a) ==
    /\ ex[a].pc = "read"
    /\ \E end \in {"eof", "error"} :
          ex' = [ex EXCEPT ![a].end = end, ![a].pc = IF kind.tail = "none" THEN "judge" ELSE "tail"]
    /\ UNCHANGED <<setup, wr, result, goroutine, httpHandler, over, gone>>

\* The tail; there may be nothing to send.
SendTail(a) ==
    /\ ex[a].pc = "tail"
    /\ \/ ex' = [ex EXCEPT ![a].pc = "judge"]
       \/ kind.tail = "done" /\ Send(a, "tail")
       \/ kind.tail = "event" /\ Pass(a)
    /\ UNCHANGED <<setup, wr, result, goroutine, httpHandler, over, gone>>

\* Mutant of Faulty: an end without message_stop is accepted.
FaultyUnread(a) ==
    /\ ex[a].end = "error"
    /\ kind.strict => ~over /\ ~ex[a].stop

\* Mutant of Faulty: an error after message_stop is passed on.
FaultyLate(a) ==
    IF kind.strict THEN ~over /\ (ex[a].end = "error" \/ ~ex[a].stop)
                   ELSE ex[a].end = "error"

\* What ended the loop is an error.
Faulty(a) ==
    IF kind.strict THEN ~over /\ ~ex[a].stop ELSE ex[a].end = "error"

\* A lenient relay may end after visible content without message_stop; of the
\* errors it overlooks the benign ones (the other disjunct of Judge).
Tolerated(a) == kind.lenient /\ ex[a].lines > 0

Empty(a) == ex[a].lines = 0 /\ ~ex[a].stop

\* After the loop: an error, a replacement of an empty answer, or the end.
Judge(a) ==
    /\ ex[a].pc = "judge"
    /\ \/ /\ Faulty(a) /\ ~(Tolerated(a) /\ ex[a].end = "eof")
          /\ Send(a, "error")
       \/ /\ Faulty(a) => Tolerated(a)
          /\ ~(kind.fallback /\ Empty(a))
          /\ ex' = [ex EXCEPT ![a].pc = "close"]
       \/ /\ kind.fallback /\ Empty(a)
          /\ \/ Send(a, "error")
             \/ ex' = [ex EXCEPT ![a].pc = "send", ![a].msg = "stop", ![a].stop = TRUE]
    /\ UNCHANGED <<setup, wr, result, goroutine, httpHandler, over, gone>>

\* The message that was sent is the last one.
Last(a) == ex[a].msg = "stop" /\ (kind.framed \/ (kind.fallback /\ ex[a].end # "none"))

\* Mutant of AfterSend: the loop goes on after an error.
AfterSendGoesOn(a) ==
    CASE Last(a) -> "close"
      [] ~Last(a) /\ ex[a].end # "none" /\ ex[a].msg # "error" -> "judge"
      [] OTHER -> "read"

\* Where an executor goes on once a chunk is taken from it.
AfterSend(a) ==
    CASE ex[a].msg = "error" \/ Last(a) -> "close"
      [] ex[a].msg # "error" /\ ~Last(a) /\ ex[a].end # "none" -> "judge"
      [] OTHER -> "read"

\* out <- chunk, and for chunk := range streamChunks: the first error is
\* recorded, and the chunk is passed on as long as there is someone to read it.
HandOver(a) ==
    /\ ex[a].pc = "send" /\ wr[a].pc = "recv"
    /\ ex' = [ex EXCEPT ![a].pc = AfterSend(a)]
    /\ wr' = [wr EXCEPT ![a].pc = IF wr[a].forward THEN "send" ELSE "recv",
                        ![a].msg = ex[a].msg,
                        ![a].failed = @ \/ ex[a].msg = "error"]
    /\ result' = IF ex[a].msg = "error" /\ ~wr[a].failed
                 THEN [result EXCEPT ![a] = "failed"] ELSE result
    /\ UNCHANGED <<setup, goroutine, httpHandler, over, gone>>

\* The executor closes its channel; the range ends, a success is recorded, the
\* provider slot is released and the next channel closed.
Complete(a) ==
    /\ ex[a].pc = "close" /\ wr[a].pc = "recv"
    /\ ex' = [ex EXCEPT ![a].pc = "done"]
    /\ wr' = [wr EXCEPT ![a].pc = "done"]
    /\ result' = IF wr[a].failed THEN result ELSE [result EXCEPT ![a] = "success"]
    /\ UNCHANGED <<setup, goroutine, httpHandler, over, gone>>

\* Mutant of Undeliverable: the goroutine returns at once.
UndeliverableLeaves(a) ==
    /\ wr[a].pc = "send" /\ over
    /\ wr' = [wr EXCEPT ![a].pc = "done"]
    /\ UNCHANGED <<setup, ex, result, goroutine, httpHandler, over, gone>>

\* <-streamCtx.Done(): nobody reads any more, and the rest is drained.
Undeliverable(a) ==
    /\ wr[a].pc = "send" /\ over
    /\ wr' = [wr EXCEPT ![a].pc = "recv", ![a].forward = FALSE]
    /\ UNCHANGED <<setup, ex, result, goroutine, httpHandler, over, gone>>

-----------------------------------------------------------------------------
(* The goroutine of ExecuteStreamWithAuthManager. *)

StepTo(l) == br' = [br EXCEPT !.pc = l]

\* Mutant of MayRetry: whether payload was sent is not looked at.
MayRetryPaid == br.cur <= Retries

MayRetry == ~br.paid /\ br.cur <= Retries

\* A chunk of the current stream: an error is retried when that is safe and
\* its status (the other disjunct) allows it.
TakeChunk(a) ==
    /\ br.pc = "recv" /\ br.cur = a /\ wr[a].pc = "send"
    /\ wr' = [wr EXCEPT ![a].pc = "recv"]
    /\ \/ /\ wr[a].msg = "error" /\ MayRetry /\ StepTo("retry")
       \/ /\ wr[a].msg = "error" /\ StepTo("error")
       \/ /\ wr[a].msg # "error"
          /\ br' = [br EXCEPT !.pc = "data", !.msg = wr[a].msg, !.paid = TRUE]
    /\ UNCHANGED <<setup, ex, result, errs, shut, httpHandler, over, gone>>

\* ExecuteStream once more.  A call to a limited provider waits for the slot
\* of the last attempt; it may fail, and does once the context has ended.
Retry ==
    /\ br.pc = "retry"
    /\ \/ /\ limited => wr[br.cur].pc = "done"
          /\ ~over
          /\ br' = [br EXCEPT !.pc = "recv", !.cur = @ + 1]
          /\ ex' = [ex EXCEPT ![br.cur + 1] = Opened(kind)]
          /\ wr' = [wr EXCEPT ![br.cur + 1] = Listening]
       \/ /\ limited => over \/ wr[br.cur].pc = "done"
          /\ StepTo("error")
          /\ UNCHANGED <<ex, wr>>
    /\ UNCHANGED <<setup, result, errs, shut, httpHandler, over, gone>>

\* The stream is closed, or the context over where the goroutine waits.
StopReading ==
    /\ \/ br.pc = "recv" /\ (over \/ wr[br.cur].pc = "done")
       \/ br.pc \in {"data", "error"} /\ over
    /\ StepTo("close")
    /\ UNCHANGED <<setup, ex, wr, result, errs, shut, httpHandler, over, gone>>

\* sendErr: the channel has room for the one error there is.
SendError ==
    /\ br.pc = "error"
    /\ errs' = TRUE
    /\ StepTo("close")
    /\ UNCHANGED <<setup, ex, wr, result, shut, httpHandler, over, gone>>

\* The deferred calls, the last one first.
Close ==
    /\ br.pc = "close" /\ shut # {"errs", "data"}
    /\ shut' = shut \cup {IF "errs" \in shut THEN "data" ELSE "errs"}
    /\ UNCHANGED <<setup, ex, wr, result, br, errs, httpHandler, over, gone>>

-----------------------------------------------------------------------------
(* The HTTP handler. *)

\* sendData, and the write of the chunk to the client.
Forward ==
    /\ br.pc = "data" /\ fwd \in {"peek", "loop"}
    /\ StepTo("recv")
    /\ fwd' = "loop"
    /\ shown' = [from |-> shown.from \cup {br.cur},
                 told |-> shown.told \cup ({br.msg} \ {"line"})]
    /\ UNCHANGED <<setup, ex, wr, result, errs, shut, outcome, over, gone>>

\* The handler ends and its context with it.
End(how) ==
    /\ fwd' = "over" /\ outcome' = how /\ over' = TRUE
    /\ UNCHANGED <<setup, ex, wr, result, goroutine, gone>>

\* An error: a status before the first chunk, else a terminal event.
ForwardError ==
    /\ fwd \in {"peek", "loop"} /\ errs
    /\ shown' = [shown EXCEPT !.told = @ \cup {"error"}]
    /\ End("error")

\* Mutant of ForwardEnd: a pending error is not looked at.
ForwardEndBlind ==
    /\ fwd = "loop" /\ "data" \in shut
    /\ UNCHANGED shown
    /\ End("done")

\* The data has ended: a pending error goes first.
ForwardEnd ==
    /\ fwd = "loop" /\ "data" \in shut /\ ~errs
    /\ UNCHANGED shown
    /\ End("done")

\* The data has ended before the first chunk: an empty answer.
PeekEnd ==
    /\ fwd = "peek" /\ "data" \in shut
    /\ UNCHANGED shown
    /\ End("done")

\* <-c.Request.Context().Done().
ForwardGone ==
    /\ fwd \in {"peek", "loop"} /\ gone
    /\ UNCHANGED shown
    /\ End("left")

ClientLeaves ==
    /\ ~gone /\ fwd # "over"
    /\ gone' = TRUE
    /\ UNCHANGED <<setup, ex, wr, result, goroutine, httpHandler, over>>

\* The goroutine of GetContextWithCancel.
CancelContext ==
    /\ gone /\ ~over
    /\ over' = TRUE
    /\ UNCHANGED <<setup, ex, wr, result, goroutine, httpHandler, gone>>

-----------------------------------------------------------------------------
ExecutorStep(a) == SendTail(a) \/ Judge(a) \/ HandOver(a) \/ Complete(a)
HandlerStep == Retry \/ StopReading \/ SendError \/ Close
ClientStep == Forward \/ ForwardError \/ ForwardEnd \/ PeekEnd \/ ForwardGone

StreamNext ==
    \/ \E a \in Attempts :
          \/ ReadLine(a) \/ ReadEnds(a) \/ ExecutorStep(a)
          \/ Undeliverable(a) \/ TakeChunk(a)
    \/ HandlerStep \/ ClientStep \/ CancelContext \/ ClientLeaves

StreamSpec == StreamInit /\ [][StreamNext]_streamVars

\* Steps that neither the upstream nor the client has to allow; a read returns
\* once its context is over.
Running ==
    \/ \E a \in Attempts :
          ExecutorStep(a) \/ Undeliverable(a) \/ TakeChunk(a) \/ (over /\ ReadEnds(a))
    \/ HandlerStep \/ ClientStep \/ CancelContext

\* Some goroutine that can go on does; a stream has finitely many steps, so
\* that this alone brings each of them to its end.
StreamFairSpec == StreamSpec /\ WF_streamVars(Running)

-----------------------------------------------------------------------------
ExecutorState == [pc : {"off", "read", "send", "tail", "judge", "close", "done"},
                  msg : Chunk, lines : 0 .. MaxLines, stop : BOOLEAN,
                  end : {"none", "eof", "error"}]
ManagerState == [pc : {"off", "recv", "send", "done"}, msg : Chunk,
                 failed : BOOLEAN, forward : BOOLEAN]
HandlerState == [pc : {"recv", "data", "retry", "error", "close"}, msg : Chunk,
                 paid : BOOLEAN, cur : Attempts]

StreamTypeOK ==
    /\ kind \in Executors /\ limited \in BOOLEAN
    /\ ex \in [Attempts -> ExecutorState] /\ wr \in [Attempts -> ManagerState]
    /\ br \in HandlerState
    /\ result \in [Attempts -> {"none", "failed", "success"}]
    /\ errs \in BOOLEAN /\ shut \in SUBSET {"errs", "data"}
    /\ fwd \in {"peek", "loop", "over"} /\ outcome \in {"none", "done", "error", "left"}
    /\ over \in BOOLEAN /\ gone \in BOOLEAN
    /\ shown \in [from : SUBSET Attempts, told : SUBSET {"stop", "tail", "error"}]

\* What reaches the client comes from one stream: a retry never continues
\* another attempt's text.
OneAttemptShown == Cardinality(shown.from) <= 1

\* An answer that has begun and is handed on as complete is one: the upstream
\* ended it without an error, for a strict executor with message_stop or, from
\* a lenient relay, with content.
DoneIsWhole ==
    outcome = "done" /\ ~gone /\ shown.from # {} =>
        \E e \in {ex[a] : a \in shown.from} :
            /\ e.end = "error" => kind.strict \/ kind.fallback
            /\ kind.strict => e.stop \/ (kind.lenient /\ e.lines > 0)

\* Client and manager agree on how a stream has ended: an answer that is
\* handed on as complete counts as a success of the credential it came from,
\* and an error as a failure.
OutcomeIsRecorded ==
    ~gone =>
        /\ outcome = "done" => \A a \in shown.from : result[a] = "success"
        /\ outcome = "error" => result[br.cur] = "failed"

\* From a strict executor, or one whose messages say where the answer ends,
\* the client never gets both an end and an error.
ToldOnce ==
    (kind.strict \/ kind.framed) /\ "error" \in shown.told => shown.told = {"error"}

AllDone ==
    /\ fwd = "over" /\ shut = {"errs", "data"}
    /\ \A a \in Attempts : wr[a].pc \in {"off", "done"} /\ ex[a].pc \in {"off", "done"}

\* Once the client has left, or the stream or the handler has ended, every
\* goroutine ends and every provider slot is released.
AllEnd == (gone \/ over \/ br.pc = "close") ~> AllDone

\* A retry is not kept waiting by the slot of the attempt it replaces.
RetryGetsItsSlot == br.pc = "retry" ~> br.pc # "retry"

\* "Upstream failed immediately. Return proper error status and JSON": a
\* stream that fails before its first chunk is told as an error.
FailureIsTold == outcome = "done" /\ ~gone => result[br.cur] # "failed"
=============================================================================
