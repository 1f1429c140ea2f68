-------------------------- MODULE StreamPathProofs --------------------------
(***************************************************************************)
(* Proofs about StreamPath, for any executors' loops, any number of        *)
(* retries and answers of any length.                                      *)
(***************************************************************************)
EXTENDS StreamPath, FiniteSetTheorems, TLAPS

LEMMA BoundsTyped == Retries \in Nat /\ MaxLines \in Nat \ {0}
  BY StreamAssumption

USE BoundsTyped

-----------------------------------------------------------------------------
(* The type invariant; a retry is only begun while one is left. *)

RetrySafe == br.pc = "retry" => ~br.paid /\ br.cur <= Retries

LEMMA OpenedTyped == Opened(kind) \in ExecutorState /\ Listening \in ManagerState
  BY DEF Opened, Listening, ExecutorState, ManagerState, Chunk

LEMMA PassTyped ==
    ASSUME StreamTypeOK, NEW a \in Attempts, Pass(a)
    PROVE  ex' \in [Attempts -> ExecutorState]
<1>1. ex \in [Attempts -> ExecutorState]
  BY DEF StreamTypeOK, ExecutorState
<1>2. ASSUME ex[a].lines < MaxLines PROVE ex[a].lines + 1 \in 0 .. MaxLines
  BY <1>1, <1>2 DEF ExecutorState
<1>3. "line" \in Chunk /\ "stop" \in Chunk
  BY DEF Chunk
<1> QED
  BY <1>1, <1>2, <1>3 DEF Pass, ExecutorState

LEMMA SendTyped ==
    ASSUME StreamTypeOK, NEW a \in Attempts, NEW msg \in Chunk, Send(a, msg)
    PROVE  ex' \in [Attempts -> ExecutorState]
<1>1. ex[a] \in ExecutorState
  BY DEF StreamTypeOK
<1>2. [ex[a] EXCEPT !.pc = "send", !.msg = msg] \in ExecutorState
  BY <1>1 DEF ExecutorState
<1>3. ex' = [ex EXCEPT ![a] = [ex[a] EXCEPT !.pc = "send", !.msg = msg]]
  BY DEF Send, StreamTypeOK
<1> QED
  BY <1>2, <1>3 DEF StreamTypeOK

LEMMA MovedTyped ==
    ASSUME StreamTypeOK, NEW a \in Attempts, NEW l \in {"recv", "done"},
           wr' = [wr EXCEPT ![a].pc = l]
    PROVE  wr' \in [Attempts -> ManagerState]
<1>1. wr[a] \in ManagerState
  BY DEF StreamTypeOK
<1>2. [wr[a] EXCEPT !.pc = l] \in ManagerState
  BY <1>1 DEF ManagerState
<1> QED
  BY <1>2 DEF StreamTypeOK

LEMMA TypeInit == StreamInit => StreamTypeOK /\ RetrySafe
<1> SUFFICES ASSUME StreamInit PROVE StreamTypeOK /\ RetrySafe
  OBVIOUS
<1>1. 1 \in Attempts
  BY DEF Attempts
<1>2. ex \in [Attempts -> ExecutorState] /\ wr \in [Attempts -> ManagerState]
  BY OpenedTyped DEF StreamInit, ExecutorState, ManagerState
<1> QED
  BY <1>1, <1>2 DEF StreamInit, StreamTypeOK, RetrySafe, HandlerState, Chunk

LEMMA RetrySafeStep ==
    ASSUME StreamTypeOK, RetrySafe, [StreamNext]_streamVars
    PROVE  RetrySafe'
<1>1. ASSUME NEW a \in Attempts, ReadLine(a) PROVE RetrySafe'
  BY <1>1 DEF ReadLine, RetrySafe, StreamTypeOK, HandlerState, setup, goroutine, httpHandler
<1>2. ASSUME NEW a \in Attempts, ReadEnds(a) PROVE RetrySafe'
  BY <1>2 DEF ReadEnds, RetrySafe, StreamTypeOK, HandlerState, setup, goroutine, httpHandler
<1>3. ASSUME NEW a \in Attempts, SendTail(a) PROVE RetrySafe'
  BY <1>3 DEF SendTail, RetrySafe, StreamTypeOK, HandlerState, setup, goroutine, httpHandler
<1>4. ASSUME NEW a \in Attempts, Judge(a) PROVE RetrySafe'
  BY <1>4 DEF Judge, RetrySafe, StreamTypeOK, HandlerState, setup, goroutine, httpHandler
<1>5. ASSUME NEW a \in Attempts, HandOver(a) PROVE RetrySafe'
  BY <1>5 DEF HandOver, RetrySafe, StreamTypeOK, HandlerState, setup, goroutine, httpHandler
<1>6. ASSUME NEW a \in Attempts, Complete(a) PROVE RetrySafe'
  BY <1>6 DEF Complete, RetrySafe, StreamTypeOK, HandlerState, setup, goroutine, httpHandler
<1>7. ASSUME NEW a \in Attempts, Undeliverable(a) PROVE RetrySafe'
  BY <1>7 DEF Undeliverable, RetrySafe, StreamTypeOK, HandlerState, setup, goroutine, httpHandler
<1>8. ASSUME NEW a \in Attempts, TakeChunk(a) PROVE RetrySafe'
  BY <1>8 DEF TakeChunk, MayRetry, StepTo, RetrySafe, StreamTypeOK, HandlerState, setup, goroutine, httpHandler
<1>9. CASE Retry
  BY <1>9 DEF Retry, StepTo, RetrySafe, StreamTypeOK, HandlerState, setup, goroutine, httpHandler
<1>10. CASE StopReading
  BY <1>10 DEF StopReading, StepTo, RetrySafe, StreamTypeOK, HandlerState, setup, goroutine, httpHandler
<1>11. CASE SendError
  BY <1>11 DEF SendError, StepTo, RetrySafe, StreamTypeOK, HandlerState, setup, goroutine, httpHandler
<1>12. CASE Close
  BY <1>12 DEF Close, RetrySafe, StreamTypeOK, HandlerState, setup, goroutine, httpHandler
<1>13. CASE Forward
  BY <1>13 DEF Forward, StepTo, RetrySafe, StreamTypeOK, HandlerState, setup, goroutine, httpHandler
<1>14. CASE ForwardError
  BY <1>14 DEF ForwardError, End, RetrySafe, StreamTypeOK, HandlerState, setup, goroutine, httpHandler
<1>15. CASE ForwardEnd
  BY <1>15 DEF ForwardEnd, End, RetrySafe, StreamTypeOK, HandlerState, setup, goroutine, httpHandler
<1>16. CASE PeekEnd
  BY <1>16 DEF PeekEnd, End, RetrySafe, StreamTypeOK, HandlerState, setup, goroutine, httpHandler
<1>17. CASE ForwardGone
  BY <1>17 DEF ForwardGone, End, RetrySafe, StreamTypeOK, HandlerState, setup, goroutine, httpHandler
<1>18. CASE CancelContext
  BY <1>18 DEF CancelContext, RetrySafe, StreamTypeOK, HandlerState, setup, goroutine, httpHandler
<1>19. CASE ClientLeaves
  BY <1>19 DEF ClientLeaves, RetrySafe, StreamTypeOK, HandlerState, setup, goroutine, httpHandler
<1>20. CASE UNCHANGED streamVars
  BY <1>20 DEF streamVars, setup, goroutine, httpHandler, RetrySafe
<1> QED
  BY <1>1, <1>2, <1>3, <1>4, <1>5, <1>6, <1>7, <1>8, <1>9, <1>10,
     <1>11, <1>12, <1>13, <1>14, <1>15, <1>16, <1>17, <1>18, <1>19, <1>20
     DEF StreamNext, ExecutorStep, HandlerStep, ClientStep

LEMMA TypeStep ==
    ASSUME StreamTypeOK, RetrySafe, [StreamNext]_streamVars
    PROVE  StreamTypeOK'
<1>1. ASSUME NEW a \in Attempts, ReadLine(a) PROVE StreamTypeOK'
  <2>1. ex' \in [Attempts -> ExecutorState]
    BY <1>1, PassTyped DEF ReadLine
  <2> QED
    BY <1>1, <2>1 DEF ReadLine, StreamTypeOK, setup, goroutine, httpHandler
<1>2. ASSUME NEW a \in Attempts, ReadEnds(a) PROVE StreamTypeOK'
  <2>1. ex' \in [Attempts -> ExecutorState]
    BY <1>2 DEF ReadEnds, StreamTypeOK, ExecutorState
  <2> QED
    BY <1>2, <2>1 DEF ReadEnds, StreamTypeOK, setup, goroutine, httpHandler
<1>3. ASSUME NEW a \in Attempts, SendTail(a) PROVE StreamTypeOK'
  <2>1. ex' \in [Attempts -> ExecutorState]
    BY <1>3, PassTyped, SendTyped DEF SendTail, StreamTypeOK, ExecutorState, Chunk
  <2> QED
    BY <1>3, <2>1 DEF SendTail, StreamTypeOK, setup, goroutine, httpHandler
<1>4. ASSUME NEW a \in Attempts, Judge(a) PROVE StreamTypeOK'
  <2>1. ex' \in [Attempts -> ExecutorState]
    BY <1>4, SendTyped DEF Judge, StreamTypeOK, ExecutorState, Chunk
  <2> QED
    BY <1>4, <2>1 DEF Judge, StreamTypeOK, setup, goroutine, httpHandler
<1>5. ASSUME NEW a \in Attempts, HandOver(a) PROVE StreamTypeOK'
  <2>1. ex' \in [Attempts -> ExecutorState]
    BY <1>5 DEF HandOver, AfterSend, StreamTypeOK, ExecutorState
  <2>2. ex[a].msg \in Chunk
    BY DEF StreamTypeOK, ExecutorState
  <2>3. wr' \in [Attempts -> ManagerState]
    <3> DEFINE new == [wr[a] EXCEPT !.pc = IF wr[a].forward THEN "send" ELSE "recv",
                                    !.msg = ex[a].msg,
                                    !.failed = wr[a].failed \/ ex[a].msg = "error"]
    <3>1. wr[a] \in ManagerState
      BY DEF StreamTypeOK
    <3>2. wr' = [wr EXCEPT ![a] = new]
      BY <1>5 DEF HandOver, StreamTypeOK
    <3>3. new \in ManagerState
      BY <2>2, <3>1 DEF ManagerState
    <3> HIDE DEF new
    <3> QED
      BY <3>2, <3>3 DEF StreamTypeOK
  <2>4. result' \in [Attempts -> {"none", "failed", "success"}]
    BY <1>5 DEF HandOver, StreamTypeOK
  <2> QED
    BY <1>5, <2>1, <2>3, <2>4 DEF HandOver, StreamTypeOK, setup, goroutine, httpHandler
<1>6. ASSUME NEW a \in Attempts, Complete(a) PROVE StreamTypeOK'
  <2>1. ex' \in [Attempts -> ExecutorState]
    BY <1>6 DEF Complete, StreamTypeOK, ExecutorState
  <2>2. wr' \in [Attempts -> ManagerState]
    BY <1>6, MovedTyped DEF Complete
  <2>3. result' \in [Attempts -> {"none", "failed", "success"}]
    BY <1>6 DEF Complete, StreamTypeOK
  <2> QED
    BY <1>6, <2>1, <2>2, <2>3 DEF Complete, StreamTypeOK, setup, goroutine, httpHandler
<1>7. ASSUME NEW a \in Attempts, Undeliverable(a) PROVE StreamTypeOK'
  <2>1. wr' \in [Attempts -> ManagerState]
    <3>1. wr[a] \in ManagerState
      BY DEF StreamTypeOK
    <3>2. [wr[a] EXCEPT !.pc = "recv", !.forward = FALSE] \in ManagerState
      BY <3>1 DEF ManagerState
    <3>3. wr' = [wr EXCEPT ![a] = [wr[a] EXCEPT !.pc = "recv", !.forward = FALSE]]
      BY <1>7 DEF Undeliverable, StreamTypeOK
    <3> QED
      BY <3>2, <3>3 DEF StreamTypeOK
  <2> QED
    BY <1>7, <2>1 DEF Undeliverable, StreamTypeOK, setup, goroutine, httpHandler
<1>8. ASSUME NEW a \in Attempts, TakeChunk(a) PROVE StreamTypeOK'
  <2>1. wr' \in [Attempts -> ManagerState] /\ wr[a].msg \in Chunk
    BY <1>8, MovedTyped DEF TakeChunk, StreamTypeOK, ManagerState
  <2>2. br' \in HandlerState
    BY <1>8, <2>1 DEF TakeChunk, StepTo, StreamTypeOK, HandlerState
  <2> QED
    BY <1>8, <2>1, <2>2 DEF TakeChunk, StreamTypeOK, setup, httpHandler
<1>9. CASE Retry
  <2>1. CASE StepTo("error") /\ UNCHANGED <<ex, wr>>
    <3>1. br' \in HandlerState
      BY <2>1 DEF StepTo, StreamTypeOK, HandlerState
    <3> QED
      BY <1>9, <2>1, <3>1 DEF Retry, StreamTypeOK, setup, httpHandler
  <2>2. CASE /\ br' = [br EXCEPT !.pc = "recv", !.cur = br.cur + 1]
             /\ ex' = [ex EXCEPT ![br.cur + 1] = Opened(kind)]
             /\ wr' = [wr EXCEPT ![br.cur + 1] = Listening]
    <3>1. br \in HandlerState /\ br.cur \in Attempts
      BY DEF StreamTypeOK, HandlerState
    <3>2. br.cur + 1 \in Attempts
      BY <1>9, <3>1 DEF RetrySafe, Attempts, Retry
    <3>3. br' \in HandlerState
      BY <2>2, <3>1, <3>2 DEF HandlerState, Attempts
    <3>4. ex' \in [Attempts -> ExecutorState] /\ wr' \in [Attempts -> ManagerState]
      BY <2>2, OpenedTyped DEF StreamTypeOK
    <3> QED
      BY <1>9, <3>3, <3>4 DEF Retry, StreamTypeOK, setup, httpHandler
  <2>3. \/ StepTo("error") /\ UNCHANGED <<ex, wr>>
        \/ /\ br' = [br EXCEPT !.pc = "recv", !.cur = br.cur + 1]
           /\ ex' = [ex EXCEPT ![br.cur + 1] = Opened(kind)]
           /\ wr' = [wr EXCEPT ![br.cur + 1] = Listening]
    BY <1>9 DEF Retry
  <2> QED
    BY <2>1, <2>2, <2>3
<1>10. CASE StopReading
  <2>1. br' \in HandlerState
    BY <1>10 DEF StopReading, StepTo, StreamTypeOK, HandlerState
  <2> QED
    BY <1>10, <2>1 DEF StopReading, StreamTypeOK, setup, httpHandler
<1>11. CASE SendError
  <2>1. br' \in HandlerState
    BY <1>11 DEF SendError, StepTo, StreamTypeOK, HandlerState
  <2> QED
    BY <1>11, <2>1 DEF SendError, StreamTypeOK, setup, httpHandler
<1>12. CASE Close
  BY <1>12 DEF Close, StreamTypeOK, setup, goroutine, httpHandler
<1>13. CASE Forward
  <2>1. br' \in HandlerState
    BY <1>13 DEF Forward, StepTo, StreamTypeOK, HandlerState
  <2>2. br.msg \in Chunk /\ br.cur \in Attempts
    BY DEF StreamTypeOK, HandlerState
  <2>3. shown' \in [from : SUBSET Attempts, told : SUBSET {"stop", "tail", "error"}]
    BY <1>13, <2>2 DEF Forward, StreamTypeOK, Chunk
  <2> QED
    BY <1>13, <2>1, <2>3 DEF Forward, StreamTypeOK, setup
<1>14. CASE ForwardError
  BY <1>14 DEF ForwardError, End, StreamTypeOK, setup, goroutine, httpHandler
<1>15. CASE ForwardEnd
  BY <1>15 DEF ForwardEnd, End, StreamTypeOK, setup, goroutine, httpHandler
<1>16. CASE PeekEnd
  BY <1>16 DEF PeekEnd, End, StreamTypeOK, setup, goroutine, httpHandler
<1>17. CASE ForwardGone
  BY <1>17 DEF ForwardGone, End, StreamTypeOK, setup, goroutine, httpHandler
<1>18. CASE CancelContext
  BY <1>18 DEF CancelContext, StreamTypeOK, setup, goroutine, httpHandler
<1>19. CASE ClientLeaves
  BY <1>19 DEF ClientLeaves, StreamTypeOK, setup, goroutine, httpHandler
<1>20. CASE UNCHANGED streamVars
  BY <1>20 DEF streamVars, setup, goroutine, httpHandler, StreamTypeOK
<1> QED
  BY <1>1, <1>2, <1>3, <1>4, <1>5, <1>6, <1>7, <1>8, <1>9, <1>10,
     <1>11, <1>12, <1>13, <1>14, <1>15, <1>16, <1>17, <1>18, <1>19, <1>20
     DEF StreamNext, ExecutorStep, HandlerStep, ClientStep

\* StreamPath is type correct.
THEOREM TypeCorrect == StreamSpec => []StreamTypeOK
<1>1. StreamInit => StreamTypeOK /\ RetrySafe
  BY TypeInit
<1>2. StreamTypeOK /\ RetrySafe /\ [StreamNext]_streamVars => StreamTypeOK' /\ RetrySafe'
  BY TypeStep, RetrySafeStep
<1> QED
  BY <1>1, <1>2, PTL DEF StreamSpec

-----------------------------------------------------------------------------
(* One attempt is shown: payload is only handed on from the current stream, *)
(* and once that has happened no retry begins.                              *)

Shown ==
    /\ shown.from \subseteq {br.cur}
    /\ shown.from # {} => br.paid /\ fwd # "peek"
    /\ br.pc = "data" => br.paid

LEMMA ShownStep ==
    ASSUME StreamTypeOK, RetrySafe, Shown, [StreamNext]_streamVars
    PROVE  Shown'
<1>1. ASSUME NEW a \in Attempts, ReadLine(a) PROVE Shown'
  BY <1>1 DEF ReadLine, Shown, RetrySafe, StreamTypeOK, HandlerState, setup, goroutine, httpHandler
<1>2. ASSUME NEW a \in Attempts, ReadEnds(a) PROVE Shown'
  BY <1>2 DEF ReadEnds, Shown, RetrySafe, StreamTypeOK, HandlerState, setup, goroutine, httpHandler
<1>3. ASSUME NEW a \in Attempts, SendTail(a) PROVE Shown'
  BY <1>3 DEF SendTail, Shown, RetrySafe, StreamTypeOK, HandlerState, setup, goroutine, httpHandler
<1>4. ASSUME NEW a \in Attempts, Judge(a) PROVE Shown'
  BY <1>4 DEF Judge, Shown, RetrySafe, StreamTypeOK, HandlerState, setup, goroutine, httpHandler
<1>5. ASSUME NEW a \in Attempts, HandOver(a) PROVE Shown'
  BY <1>5 DEF HandOver, Shown, RetrySafe, StreamTypeOK, HandlerState, setup, goroutine, httpHandler
<1>6. ASSUME NEW a \in Attempts, Complete(a) PROVE Shown'
  BY <1>6 DEF Complete, Shown, RetrySafe, StreamTypeOK, HandlerState, setup, goroutine, httpHandler
<1>7. ASSUME NEW a \in Attempts, Undeliverable(a) PROVE Shown'
  BY <1>7 DEF Undeliverable, Shown, RetrySafe, StreamTypeOK, HandlerState, setup, goroutine, httpHandler
<1>8. ASSUME NEW a \in Attempts, TakeChunk(a) PROVE Shown'
  BY <1>8 DEF TakeChunk, MayRetry, StepTo, Shown, RetrySafe, StreamTypeOK, HandlerState, setup, goroutine, httpHandler
<1>9. CASE Retry
  BY <1>9 DEF Retry, StepTo, Shown, RetrySafe, StreamTypeOK, HandlerState, setup, goroutine, httpHandler
<1>10. CASE StopReading
  BY <1>10 DEF StopReading, StepTo, Shown, RetrySafe, StreamTypeOK, HandlerState, setup, goroutine, httpHandler
<1>11. CASE SendError
  BY <1>11 DEF SendError, StepTo, Shown, RetrySafe, StreamTypeOK, HandlerState, setup, goroutine, httpHandler
<1>12. CASE Close
  BY <1>12 DEF Close, Shown, RetrySafe, StreamTypeOK, HandlerState, setup, goroutine, httpHandler
<1>13. CASE Forward
  BY <1>13 DEF Forward, StepTo, Shown, RetrySafe, StreamTypeOK, HandlerState, setup, goroutine, httpHandler
<1>14. CASE ForwardError
  BY <1>14 DEF ForwardError, End, Shown, RetrySafe, StreamTypeOK, HandlerState, setup, goroutine, httpHandler
<1>15. CASE ForwardEnd
  BY <1>15 DEF ForwardEnd, End, Shown, RetrySafe, StreamTypeOK, HandlerState, setup, goroutine, httpHandler
<1>16. CASE PeekEnd
  BY <1>16 DEF PeekEnd, End, Shown, RetrySafe, StreamTypeOK, HandlerState, setup, goroutine, httpHandler
<1>17. CASE ForwardGone
  BY <1>17 DEF ForwardGone, End, Shown, RetrySafe, StreamTypeOK, HandlerState, setup, goroutine, httpHandler
<1>18. CASE CancelContext
  BY <1>18 DEF CancelContext, Shown, RetrySafe, StreamTypeOK, HandlerState, setup, goroutine, httpHandler
<1>19. CASE ClientLeaves
  BY <1>19 DEF ClientLeaves, Shown, RetrySafe, StreamTypeOK, HandlerState, setup, goroutine, httpHandler
<1>20. CASE UNCHANGED streamVars
  BY <1>20 DEF streamVars, setup, goroutine, httpHandler, Shown
<1> QED
  BY <1>1, <1>2, <1>3, <1>4, <1>5, <1>6, <1>7, <1>8, <1>9, <1>10,
     <1>11, <1>12, <1>13, <1>14, <1>15, <1>16, <1>17, <1>18, <1>19, <1>20
     DEF StreamNext, ExecutorStep, HandlerStep, ClientStep

\* The client never gets the text of two attempts (handlers.go:626).
THEOREM OneAttempt == StreamSpec => []OneAttemptShown
<1>1. StreamInit => Shown
  BY DEF StreamInit, Shown
<1>2. Shown => OneAttemptShown
  <2> SUFFICES ASSUME Shown PROVE Cardinality(shown.from) <= 1
    BY DEF OneAttemptShown
  <2>1. CASE shown.from = {}
    BY <2>1, FS_EmptySet
  <2>2. CASE shown.from # {}
    <3>1. shown.from = {br.cur}
      BY <2>2 DEF Shown
    <3>2. Cardinality({br.cur}) = 1
      BY FS_Singleton
    <3> QED
      BY <3>1, <3>2
  <2> QED
    BY <2>1, <2>2
<1>3. StreamTypeOK /\ RetrySafe /\ Shown /\ [StreamNext]_streamVars
         => StreamTypeOK' /\ RetrySafe' /\ Shown'
  BY TypeStep, RetrySafeStep, ShownStep
<1> QED
  BY <1>1, <1>2, <1>3, TypeInit, PTL DEF StreamSpec

-----------------------------------------------------------------------------
(* The end the client is told is the end the manager records.               *)

\* What the manager's goroutine of an attempt has recorded.
Recorded(a) ==
    /\ wr[a].failed <=> result[a] = "failed"
    /\ wr[a].pc = "done" /\ ~wr[a].failed => result[a] = "success"
    /\ wr[a].pc = "send" /\ wr[a].msg = "error" => wr[a].failed
    /\ result[a] = "success" => wr[a].pc = "done"
    /\ a > br.cur => wr[a].pc = "off" /\ ~wr[a].failed

\* An error comes last, and as long as the request is alive it is either on
\* its way to the handlers' goroutine or known there.
ErrorKept ==
    /\ ~over =>
          /\ \A a \in Attempts : wr[a].forward
          /\ br.pc \in {"recv", "data"} /\ wr[br.cur].failed =>
                wr[br.cur].pc = "send" /\ wr[br.cur].msg = "error"
          /\ br.pc = "close" /\ ~errs => wr[br.cur].pc = "done" /\ ~wr[br.cur].failed
    /\ br.pc \in {"error", "retry"} => result[br.cur] = "failed"
    /\ errs => br.pc = "close" /\ result[br.cur] = "failed"
    /\ shut # {} => br.pc = "close"

\* The handler runs, and the request with it, until the client leaves.
Alive ==
    /\ fwd # "over" => outcome = "none"
    /\ fwd # "over" /\ ~gone => ~over
    /\ outcome = "error" => errs

SInv ==
    /\ StreamTypeOK /\ RetrySafe /\ Shown
    /\ \A a \in Attempts : Recorded(a)
    /\ ErrorKept /\ Alive /\ OutcomeIsRecorded

LEMMA RecordedStep ==
    ASSUME StreamTypeOK, RetrySafe, [StreamNext]_streamVars,
           \A b \in Attempts : Recorded(b), NEW c \in Attempts
    PROVE  Recorded(c)'
<1>1. ASSUME NEW a \in Attempts, ReadLine(a) PROVE Recorded(c)'
  BY <1>1 DEF ReadLine, Recorded, StreamTypeOK, ManagerState, HandlerState, setup, goroutine, httpHandler
<1>2. ASSUME NEW a \in Attempts, ReadEnds(a) PROVE Recorded(c)'
  BY <1>2 DEF ReadEnds, Recorded, StreamTypeOK, ManagerState, HandlerState, setup, goroutine, httpHandler
<1>3. ASSUME NEW a \in Attempts, SendTail(a) PROVE Recorded(c)'
  BY <1>3 DEF SendTail, Recorded, StreamTypeOK, ManagerState, HandlerState, setup, goroutine, httpHandler
<1>4. ASSUME NEW a \in Attempts, Judge(a) PROVE Recorded(c)'
  BY <1>4 DEF Judge, Recorded, StreamTypeOK, ManagerState, HandlerState, setup, goroutine, httpHandler
<1>5. ASSUME NEW a \in Attempts, HandOver(a) PROVE Recorded(c)'
  BY <1>5 DEF HandOver, Recorded, StreamTypeOK, ManagerState, HandlerState, setup, goroutine, httpHandler
<1>6. ASSUME NEW a \in Attempts, Complete(a) PROVE Recorded(c)'
  BY <1>6 DEF Complete, Recorded, StreamTypeOK, ManagerState, HandlerState, setup, goroutine, httpHandler
<1>7. ASSUME NEW a \in Attempts, Undeliverable(a) PROVE Recorded(c)'
  BY <1>7 DEF Undeliverable, Recorded, StreamTypeOK, ManagerState, HandlerState, setup, goroutine, httpHandler
<1>8. ASSUME NEW a \in Attempts, TakeChunk(a) PROVE Recorded(c)'
  <2>1. CASE c = a
    <3>1. wr'[a] = [wr[a] EXCEPT !.pc = "recv"] /\ wr[a] \in ManagerState
      BY <1>8 DEF TakeChunk, StreamTypeOK
    <3>2. br'.cur = br.cur /\ br.cur = a
      BY <1>8 DEF TakeChunk, StepTo, StreamTypeOK, HandlerState
    <3> QED
      BY <1>8, <2>1, <3>1, <3>2 DEF TakeChunk, Recorded, ManagerState, Attempts
  <2>2. CASE c # a
    <3>1. wr'[c] = wr[c] /\ br'.cur = br.cur
      BY <1>8, <2>2 DEF TakeChunk, StepTo, StreamTypeOK, HandlerState
    <3> QED
      BY <1>8, <3>1 DEF TakeChunk, Recorded
  <2> QED
    BY <2>1, <2>2
<1>9. CASE Retry
  <2>0. br \in HandlerState /\ br.cur \in Attempts
    BY DEF StreamTypeOK, HandlerState
  <2>1. CASE StepTo("error") /\ UNCHANGED <<ex, wr>>
    BY <1>9, <2>0, <2>1 DEF Retry, StepTo, Recorded, HandlerState
  <2>2. CASE /\ br' = [br EXCEPT !.pc = "recv", !.cur = br.cur + 1]
             /\ wr' = [wr EXCEPT ![br.cur + 1] = Listening]
    <3>1. br'.cur = br.cur + 1 /\ br.cur + 1 > br.cur
      BY <2>0, <2>2 DEF HandlerState, Attempts
    <3>2. CASE c = br.cur + 1
      <4>1. wr'[c] = Listening
        BY <2>2, <3>2 DEF StreamTypeOK
      <4> QED
        BY <1>9, <3>1, <3>2, <4>1 DEF Retry, Recorded, Listening, Attempts
    <3>3. CASE c # br.cur + 1
      <4>1. wr'[c] = wr[c]
        BY <2>2, <3>3 DEF StreamTypeOK
      <4>2. c > br.cur + 1 => c > br.cur
        BY <2>0 DEF Attempts
      <4> QED
        BY <1>9, <3>1, <4>1, <4>2 DEF Retry, Recorded
    <3> QED
      BY <3>2, <3>3
  <2>3. \/ StepTo("error") /\ UNCHANGED <<ex, wr>>
        \/ /\ br' = [br EXCEPT !.pc = "recv", !.cur = br.cur + 1]
           /\ wr' = [wr EXCEPT ![br.cur + 1] = Listening]
    BY <1>9 DEF Retry
  <2> QED
    BY <2>1, <2>2, <2>3
<1>10. CASE StopReading
  BY <1>10 DEF StopReading, StepTo, Recorded, StreamTypeOK, ManagerState, HandlerState, setup, goroutine, httpHandler
<1>11. CASE SendError
  BY <1>11 DEF SendError, StepTo, Recorded, StreamTypeOK, ManagerState, HandlerState, setup, goroutine, httpHandler
<1>12. CASE Close
  BY <1>12 DEF Close, Recorded, StreamTypeOK, ManagerState, HandlerState, setup, goroutine, httpHandler
<1>13. CASE Forward
  BY <1>13 DEF Forward, StepTo, Recorded, StreamTypeOK, ManagerState, HandlerState, setup, goroutine, httpHandler
<1>14. CASE ForwardError
  BY <1>14 DEF ForwardError, End, Recorded, StreamTypeOK, ManagerState, HandlerState, setup, goroutine, httpHandler
<1>15. CASE ForwardEnd
  BY <1>15 DEF ForwardEnd, End, Recorded, StreamTypeOK, ManagerState, HandlerState, setup, goroutine, httpHandler
<1>16. CASE PeekEnd
  BY <1>16 DEF PeekEnd, End, Recorded, StreamTypeOK, ManagerState, HandlerState, setup, goroutine, httpHandler
<1>17. CASE ForwardGone
  BY <1>17 DEF ForwardGone, End, Recorded, StreamTypeOK, ManagerState, HandlerState, setup, goroutine, httpHandler
<1>18. CASE CancelContext
  BY <1>18 DEF CancelContext, Recorded, StreamTypeOK, ManagerState, HandlerState, setup, goroutine, httpHandler
<1>19. CASE ClientLeaves
  BY <1>19 DEF ClientLeaves, Recorded, StreamTypeOK, ManagerState, HandlerState, setup, goroutine, httpHandler
<1>20. CASE UNCHANGED streamVars
  BY <1>20 DEF streamVars, setup, goroutine, httpHandler, Recorded
<1> QED
  BY <1>1, <1>2, <1>3, <1>4, <1>5, <1>6, <1>7, <1>8, <1>9, <1>10,
     <1>11, <1>12, <1>13, <1>14, <1>15, <1>16, <1>17, <1>18, <1>19, <1>20
     DEF StreamNext, ExecutorStep, HandlerStep, ClientStep

LEMMA ErrorKeptStep ==
    ASSUME StreamTypeOK, RetrySafe, [StreamNext]_streamVars,
           \A b \in Attempts : Recorded(b), ErrorKept
    PROVE  ErrorKept'
<1>1. ASSUME NEW a \in Attempts, ReadLine(a) PROVE ErrorKept'
  BY <1>1 DEF ReadLine, ErrorKept, Recorded, StreamTypeOK, ManagerState, HandlerState, setup, goroutine, httpHandler
<1>2. ASSUME NEW a \in Attempts, ReadEnds(a) PROVE ErrorKept'
  BY <1>2 DEF ReadEnds, ErrorKept, Recorded, StreamTypeOK, ManagerState, HandlerState, setup, goroutine, httpHandler
<1>3. ASSUME NEW a \in Attempts, SendTail(a) PROVE ErrorKept'
  BY <1>3 DEF SendTail, ErrorKept, Recorded, StreamTypeOK, ManagerState, HandlerState, setup, goroutine, httpHandler
<1>4. ASSUME NEW a \in Attempts, Judge(a) PROVE ErrorKept'
  BY <1>4 DEF Judge, ErrorKept, Recorded, StreamTypeOK, ManagerState, HandlerState, setup, goroutine, httpHandler
<1>5. ASSUME NEW a \in Attempts, HandOver(a) PROVE ErrorKept'
  BY <1>5 DEF HandOver, ErrorKept, Recorded, StreamTypeOK, ManagerState, HandlerState, setup, goroutine, httpHandler
<1>6. ASSUME NEW a \in Attempts, Complete(a) PROVE ErrorKept'
  BY <1>6 DEF Complete, ErrorKept, Recorded, StreamTypeOK, ManagerState, HandlerState, setup, goroutine, httpHandler
<1>7. ASSUME NEW a \in Attempts, Undeliverable(a) PROVE ErrorKept'
  BY <1>7 DEF Undeliverable, ErrorKept, Recorded, StreamTypeOK, ManagerState, HandlerState, setup, goroutine, httpHandler
<1>8. ASSUME NEW a \in Attempts, TakeChunk(a) PROVE ErrorKept'
  <2>1. wr[a].pc = "send" /\ br.cur = a /\ br.pc = "recv" /\ br'.cur = a
    BY <1>8 DEF TakeChunk, StepTo, StreamTypeOK, HandlerState
  <2>2. /\ \A b \in Attempts : wr'[b].failed = wr[b].failed /\ wr'[b].forward = wr[b].forward
        /\ UNCHANGED <<result, errs, shut, over>>
    BY <1>8 DEF TakeChunk, StreamTypeOK, ManagerState
  <2>3. CASE wr[a].msg = "error" /\ br'.pc \in {"retry", "error"}
    <3>1. result[a] = "failed"
      BY <2>1, <2>3 DEF Recorded
    <3> QED
      BY <2>1, <2>2, <2>3, <3>1 DEF ErrorKept
  <2>4. CASE wr[a].msg # "error" /\ br'.pc = "data"
    BY <2>1, <2>2, <2>4 DEF ErrorKept
  <2>5. \/ wr[a].msg = "error" /\ br'.pc \in {"retry", "error"}
        \/ wr[a].msg # "error" /\ br'.pc = "data"
    BY <1>8 DEF TakeChunk, StepTo, StreamTypeOK, HandlerState
  <2> QED
    BY <2>3, <2>4, <2>5
<1>9. CASE Retry
  <2>0. br \in HandlerState /\ br.cur \in Attempts /\ br.pc = "retry" /\ ~errs /\ shut = {}
    BY <1>9 DEF Retry, ErrorKept, StreamTypeOK, HandlerState
  <2>1. CASE StepTo("error") /\ UNCHANGED <<ex, wr>>
    BY <1>9, <2>0, <2>1 DEF Retry, StepTo, ErrorKept, HandlerState
  <2>2. CASE /\ br' = [br EXCEPT !.pc = "recv", !.cur = br.cur + 1]
             /\ wr' = [wr EXCEPT ![br.cur + 1] = Listening]
    <3>1. br'.cur = br.cur + 1 /\ br'.pc = "recv"
      BY <2>0, <2>2 DEF HandlerState
    <3>2. br.cur + 1 \in Attempts
      BY <2>0 DEF RetrySafe, Attempts
    <3>3. ~wr'[br.cur + 1].failed
      BY <2>2, <3>2 DEF StreamTypeOK, Listening
    <3>4. \A b \in Attempts : wr[b].forward => wr'[b].forward
      BY <2>2 DEF StreamTypeOK, Listening
    <3> QED
      BY <1>9, <2>0, <3>1, <3>3, <3>4 DEF Retry, ErrorKept
  <2>3. \/ StepTo("error") /\ UNCHANGED <<ex, wr>>
        \/ /\ br' = [br EXCEPT !.pc = "recv", !.cur = br.cur + 1]
           /\ wr' = [wr EXCEPT ![br.cur + 1] = Listening]
    BY <1>9 DEF Retry
  <2> QED
    BY <2>1, <2>2, <2>3
<1>10. CASE StopReading
  BY <1>10 DEF StopReading, StepTo, ErrorKept, Recorded, StreamTypeOK, ManagerState, HandlerState, setup, goroutine, httpHandler
<1>11. CASE SendError
  BY <1>11 DEF SendError, StepTo, ErrorKept, Recorded, StreamTypeOK, ManagerState, HandlerState, setup, goroutine, httpHandler
<1>12. CASE Close
  BY <1>12 DEF Close, ErrorKept, Recorded, StreamTypeOK, ManagerState, HandlerState, setup, goroutine, httpHandler
<1>13. CASE Forward
  BY <1>13 DEF Forward, StepTo, ErrorKept, Recorded, StreamTypeOK, ManagerState, HandlerState, setup, goroutine, httpHandler
<1>14. CASE ForwardError
  BY <1>14 DEF ForwardError, End, ErrorKept, Recorded, StreamTypeOK, ManagerState, HandlerState, setup, goroutine, httpHandler
<1>15. CASE ForwardEnd
  BY <1>15 DEF ForwardEnd, End, ErrorKept, Recorded, StreamTypeOK, ManagerState, HandlerState, setup, goroutine, httpHandler
<1>16. CASE PeekEnd
  BY <1>16 DEF PeekEnd, End, ErrorKept, Recorded, StreamTypeOK, ManagerState, HandlerState, setup, goroutine, httpHandler
<1>17. CASE ForwardGone
  BY <1>17 DEF ForwardGone, End, ErrorKept, Recorded, StreamTypeOK, ManagerState, HandlerState, setup, goroutine, httpHandler
<1>18. CASE CancelContext
  BY <1>18 DEF CancelContext, ErrorKept, Recorded, StreamTypeOK, ManagerState, HandlerState, setup, goroutine, httpHandler
<1>19. CASE ClientLeaves
  BY <1>19 DEF ClientLeaves, ErrorKept, Recorded, StreamTypeOK, ManagerState, HandlerState, setup, goroutine, httpHandler
<1>20. CASE UNCHANGED streamVars
  BY <1>20 DEF streamVars, setup, goroutine, httpHandler, ErrorKept
<1> QED
  BY <1>1, <1>2, <1>3, <1>4, <1>5, <1>6, <1>7, <1>8, <1>9, <1>10,
     <1>11, <1>12, <1>13, <1>14, <1>15, <1>16, <1>17, <1>18, <1>19, <1>20
     DEF StreamNext, ExecutorStep, HandlerStep, ClientStep

LEMMA AliveStep ==
    ASSUME StreamTypeOK, [StreamNext]_streamVars, ErrorKept, Alive
    PROVE  Alive'
<1>1. ASSUME NEW a \in Attempts, ReadLine(a) PROVE Alive'
  BY <1>1 DEF ReadLine, Alive, ErrorKept, StreamTypeOK, setup, goroutine, httpHandler
<1>2. ASSUME NEW a \in Attempts, ReadEnds(a) PROVE Alive'
  BY <1>2 DEF ReadEnds, Alive, ErrorKept, StreamTypeOK, setup, goroutine, httpHandler
<1>3. ASSUME NEW a \in Attempts, SendTail(a) PROVE Alive'
  BY <1>3 DEF SendTail, Alive, ErrorKept, StreamTypeOK, setup, goroutine, httpHandler
<1>4. ASSUME NEW a \in Attempts, Judge(a) PROVE Alive'
  BY <1>4 DEF Judge, Alive, ErrorKept, StreamTypeOK, setup, goroutine, httpHandler
<1>5. ASSUME NEW a \in Attempts, HandOver(a) PROVE Alive'
  BY <1>5 DEF HandOver, Alive, ErrorKept, StreamTypeOK, setup, goroutine, httpHandler
<1>6. ASSUME NEW a \in Attempts, Complete(a) PROVE Alive'
  BY <1>6 DEF Complete, Alive, ErrorKept, StreamTypeOK, setup, goroutine, httpHandler
<1>7. ASSUME NEW a \in Attempts, Undeliverable(a) PROVE Alive'
  BY <1>7 DEF Undeliverable, Alive, ErrorKept, StreamTypeOK, setup, goroutine, httpHandler
<1>8. ASSUME NEW a \in Attempts, TakeChunk(a) PROVE Alive'
  BY <1>8 DEF TakeChunk, MayRetry, StepTo, Alive, ErrorKept, StreamTypeOK, setup, goroutine, httpHandler
<1>9. CASE Retry
  BY <1>9 DEF Retry, StepTo, Alive, ErrorKept, StreamTypeOK, setup, goroutine, httpHandler
<1>10. CASE StopReading
  BY <1>10 DEF StopReading, StepTo, Alive, ErrorKept, StreamTypeOK, setup, goroutine, httpHandler
<1>11. CASE SendError
  BY <1>11 DEF SendError, StepTo, Alive, ErrorKept, StreamTypeOK, setup, goroutine, httpHandler
<1>12. CASE Close
  BY <1>12 DEF Close, Alive, ErrorKept, StreamTypeOK, setup, goroutine, httpHandler
<1>13. CASE Forward
  BY <1>13 DEF Forward, StepTo, Alive, ErrorKept, StreamTypeOK, setup, goroutine, httpHandler
<1>14. CASE ForwardError
  BY <1>14 DEF ForwardError, End, Alive, ErrorKept, StreamTypeOK, setup, goroutine, httpHandler
<1>15. CASE ForwardEnd
  BY <1>15 DEF ForwardEnd, End, Alive, ErrorKept, StreamTypeOK, setup, goroutine, httpHandler
<1>16. CASE PeekEnd
  BY <1>16 DEF PeekEnd, End, Alive, ErrorKept, StreamTypeOK, setup, goroutine, httpHandler
<1>17. CASE ForwardGone
  BY <1>17 DEF ForwardGone, End, Alive, ErrorKept, StreamTypeOK, setup, goroutine, httpHandler
<1>18. CASE CancelContext
  BY <1>18 DEF CancelContext, Alive, ErrorKept, StreamTypeOK, setup, goroutine, httpHandler
<1>19. CASE ClientLeaves
  BY <1>19 DEF ClientLeaves, Alive, ErrorKept, StreamTypeOK, setup, goroutine, httpHandler
<1>20. CASE UNCHANGED streamVars
  BY <1>20 DEF streamVars, setup, goroutine, httpHandler, Alive
<1> QED
  BY <1>1, <1>2, <1>3, <1>4, <1>5, <1>6, <1>7, <1>8, <1>9, <1>10,
     <1>11, <1>12, <1>13, <1>14, <1>15, <1>16, <1>17, <1>18, <1>19, <1>20
     DEF StreamNext, ExecutorStep, HandlerStep, ClientStep

LEMMA OutcomeStep ==
    ASSUME SInv, [StreamNext]_streamVars
    PROVE  OutcomeIsRecorded'
<1>1. ASSUME NEW a \in Attempts, ReadLine(a) PROVE OutcomeIsRecorded'
  BY <1>1 DEF ReadLine, OutcomeIsRecorded, SInv, Recorded, Alive, ErrorKept, Shown, StreamTypeOK, ManagerState, HandlerState, setup, goroutine, httpHandler
<1>2. ASSUME NEW a \in Attempts, ReadEnds(a) PROVE OutcomeIsRecorded'
  BY <1>2 DEF ReadEnds, OutcomeIsRecorded, SInv, Recorded, Alive, ErrorKept, Shown, StreamTypeOK, ManagerState, HandlerState, setup, goroutine, httpHandler
<1>3. ASSUME NEW a \in Attempts, SendTail(a) PROVE OutcomeIsRecorded'
  BY <1>3 DEF SendTail, OutcomeIsRecorded, SInv, Recorded, Alive, ErrorKept, Shown, StreamTypeOK, ManagerState, HandlerState, setup, goroutine, httpHandler
<1>4. ASSUME NEW a \in Attempts, Judge(a) PROVE OutcomeIsRecorded'
  BY <1>4 DEF Judge, OutcomeIsRecorded, SInv, Recorded, Alive, ErrorKept, Shown, StreamTypeOK, ManagerState, HandlerState, setup, goroutine, httpHandler
<1>5. ASSUME NEW a \in Attempts, HandOver(a) PROVE OutcomeIsRecorded'
  BY <1>5 DEF HandOver, OutcomeIsRecorded, SInv, Recorded, Alive, ErrorKept, Shown, StreamTypeOK, ManagerState, HandlerState, setup, goroutine, httpHandler
<1>6. ASSUME NEW a \in Attempts, Complete(a) PROVE OutcomeIsRecorded'
  BY <1>6 DEF Complete, OutcomeIsRecorded, SInv, Recorded, Alive, ErrorKept, Shown, StreamTypeOK, ManagerState, HandlerState, setup, goroutine, httpHandler
<1>7. ASSUME NEW a \in Attempts, Undeliverable(a) PROVE OutcomeIsRecorded'
  BY <1>7 DEF Undeliverable, OutcomeIsRecorded, SInv, Recorded, Alive, ErrorKept, Shown, StreamTypeOK, ManagerState, HandlerState, setup, goroutine, httpHandler
<1>8. ASSUME NEW a \in Attempts, TakeChunk(a) PROVE OutcomeIsRecorded'
  BY <1>8 DEF TakeChunk, MayRetry, StepTo, OutcomeIsRecorded, SInv, Recorded, Alive, ErrorKept, Shown, StreamTypeOK, ManagerState, HandlerState, setup, goroutine, httpHandler
<1>9. CASE Retry
  BY <1>9 DEF Retry, StepTo, OutcomeIsRecorded, SInv, Recorded, Alive, ErrorKept, Shown, StreamTypeOK, ManagerState, HandlerState, setup, goroutine, httpHandler
<1>10. CASE StopReading
  BY <1>10 DEF StopReading, StepTo, OutcomeIsRecorded, SInv, Recorded, Alive, ErrorKept, Shown, StreamTypeOK, ManagerState, HandlerState, setup, goroutine, httpHandler
<1>11. CASE SendError
  BY <1>11 DEF SendError, StepTo, OutcomeIsRecorded, SInv, Recorded, Alive, ErrorKept, Shown, StreamTypeOK, ManagerState, HandlerState, setup, goroutine, httpHandler
<1>12. CASE Close
  BY <1>12 DEF Close, OutcomeIsRecorded, SInv, Recorded, Alive, ErrorKept, Shown, StreamTypeOK, ManagerState, HandlerState, setup, goroutine, httpHandler
<1>13. CASE Forward
  BY <1>13 DEF Forward, StepTo, OutcomeIsRecorded, SInv, Recorded, Alive, ErrorKept, Shown, StreamTypeOK, ManagerState, HandlerState, setup, goroutine, httpHandler
<1>14. CASE ForwardError
  BY <1>14 DEF ForwardError, End, OutcomeIsRecorded, SInv, Recorded, Alive, ErrorKept, Shown, StreamTypeOK, ManagerState, HandlerState, setup, goroutine, httpHandler
<1>15. CASE ForwardEnd
  BY <1>15 DEF ForwardEnd, End, OutcomeIsRecorded, SInv, Recorded, Alive, ErrorKept, Shown, StreamTypeOK, ManagerState, HandlerState, setup, goroutine, httpHandler
<1>16. CASE PeekEnd
  BY <1>16 DEF PeekEnd, End, OutcomeIsRecorded, SInv, Recorded, Alive, ErrorKept, Shown, StreamTypeOK, ManagerState, HandlerState, setup, goroutine, httpHandler
<1>17. CASE ForwardGone
  BY <1>17 DEF ForwardGone, End, OutcomeIsRecorded, SInv, Recorded, Alive, ErrorKept, Shown, StreamTypeOK, ManagerState, HandlerState, setup, goroutine, httpHandler
<1>18. CASE CancelContext
  BY <1>18 DEF CancelContext, OutcomeIsRecorded, SInv, Recorded, Alive, ErrorKept, Shown, StreamTypeOK, ManagerState, HandlerState, setup, goroutine, httpHandler
<1>19. CASE ClientLeaves
  BY <1>19 DEF ClientLeaves, OutcomeIsRecorded, SInv, Recorded, Alive, ErrorKept, Shown, StreamTypeOK, ManagerState, HandlerState, setup, goroutine, httpHandler
<1>20. CASE UNCHANGED streamVars
  BY <1>20 DEF streamVars, setup, goroutine, httpHandler, OutcomeIsRecorded, SInv
<1> QED
  BY <1>1, <1>2, <1>3, <1>4, <1>5, <1>6, <1>7, <1>8, <1>9, <1>10,
     <1>11, <1>12, <1>13, <1>14, <1>15, <1>16, <1>17, <1>18, <1>19, <1>20
     DEF StreamNext, ExecutorStep, HandlerStep, ClientStep

LEMMA SInvInit == StreamInit => SInv
<1> SUFFICES ASSUME StreamInit PROVE SInv
  OBVIOUS
<1>1. StreamTypeOK /\ RetrySafe
  BY TypeInit
<1>2. Shown /\ Alive /\ OutcomeIsRecorded
  BY DEF StreamInit, Shown, Alive, OutcomeIsRecorded
<1>3. ASSUME NEW a \in Attempts PROVE Recorded(a) /\ wr[a].forward /\ ~wr[a].failed
  BY DEF StreamInit, Recorded, Listening, Attempts
<1>4. 1 \in Attempts
  BY DEF Attempts
<1>5. ErrorKept
  BY <1>3, <1>4 DEF StreamInit, ErrorKept
<1> QED
  BY <1>1, <1>2, <1>3, <1>5 DEF SInv

LEMMA SInvStep == SInv /\ [StreamNext]_streamVars => SInv'
<1> SUFFICES ASSUME SInv, [StreamNext]_streamVars PROVE SInv'
  OBVIOUS
<1>1. StreamTypeOK' /\ RetrySafe' /\ Shown'
  BY TypeStep, RetrySafeStep, ShownStep DEF SInv
<1>2. \A a \in Attempts : Recorded(a)'
  BY RecordedStep DEF SInv
<1>3. ErrorKept' /\ Alive' /\ OutcomeIsRecorded'
  BY ErrorKeptStep, AliveStep, OutcomeStep DEF SInv
<1> QED
  BY <1>1, <1>2, <1>3 DEF SInv

\* What the client is told is what the manager has recorded of the credential
\* (conductor.go:920, stream_forwarder.go:71).
THEOREM OutcomeRecorded == StreamSpec => []OutcomeIsRecorded
<1>1. SInv => OutcomeIsRecorded
  BY DEF SInv
<1> QED
  BY <1>1, SInvInit, SInvStep, PTL DEF StreamSpec

-----------------------------------------------------------------------------
(* What is handed on as complete is whole, and its end is told once.  Of the *)
(* executors' loops only this is used.                                       *)

LoopFact(k) ==
    /\ k.lenient => k.strict
    /\ k.strict => k.tail # "done" /\ ~k.fallback
    /\ k.framed => k.tail = "none" /\ ~k.strict /\ ~k.fallback

LEMMA LoopFacts == \A k \in Loops : LoopFact(k)
<1>1. /\ LoopFact(GeminiLoop) /\ LoopFact(GeminiVertexLoop) /\ LoopFact(GeminiVertexKeyLoop)
      /\ LoopFact(GeminiCLILoop) /\ LoopFact(AntigravityLoop) /\ LoopFact(KimiLoop)
      /\ LoopFact(QwenLoop)
  BY DEF LoopFact, Plain, GeminiLoop, GeminiVertexLoop, GeminiVertexKeyLoop, GeminiCLILoop,
         AntigravityLoop, KimiLoop, QwenLoop
<1>2. /\ LoopFact(IFlowLoop) /\ LoopFact(CodexRelayLoop) /\ LoopFact(CodexLoop)
      /\ LoopFact(CodexChatLoop) /\ LoopFact(CodexClaudeLoop) /\ LoopFact(CompatLoop)
      /\ LoopFact(AIStudioLoop)
  BY DEF LoopFact, Plain, IFlowLoop, CodexRelayLoop, CodexLoop, CodexChatLoop,
         CodexClaudeLoop, CompatLoop, AIStudioLoop
<1>3. /\ LoopFact(ClaudePassthroughLoop) /\ LoopFact(ClaudeLoop) /\ LoopFact(ClaudeRelayLoop)
      /\ LoopFact(ClaudeTranslatedLoop)
  BY DEF LoopFact, Plain, ClaudePassthroughLoop, ClaudeLoop, ClaudeRelayLoop,
         ClaudeTranslatedLoop
<1> QED
  BY <1>1, <1>2, <1>3 DEF Loops

\* An answer that ended as its loop demands.
Whole(e) ==
    /\ e.end = "error" => kind.strict \/ kind.fallback
    /\ kind.strict => e.stop \/ (kind.lenient /\ e.lines > 0)

\* An attempt on its way: its executor reads until the upstream ends, sends an
\* error last, and without one, in a live request, closes a whole answer.
Carried(a) ==
    /\ ex[a].pc = "read" => ex[a].end = "none"
    /\ ex[a].pc = "send" /\ ex[a].msg = "stop" => ex[a].stop /\ (kind.framed => ex[a].end = "none")
    /\ ex[a].pc = "send" /\ ex[a].msg = "tail" => kind.tail = "done"
    /\ wr[a].pc = "send" /\ wr[a].msg = "stop" => ex[a].stop
    /\ wr[a].pc = "send" /\ wr[a].msg = "tail" => kind.tail = "done"
    /\ wr[a].failed => ex[a].pc \in {"close", "done"}
    /\ wr[a].pc = "done" => ex[a].pc = "done"
    /\ ~over /\ ex[a].pc \in {"close", "done"} /\ ~wr[a].failed => Whole(ex[a])

\* Loops that know where an answer ends.
Sealed == kind.strict \/ kind.framed

\* After that end such a loop sends no error.
Final(a) ==
    Sealed /\ ex[a].stop =>
        /\ ~wr[a].failed
        /\ ex[a].pc = "send" => ex[a].msg # "error"
        /\ kind.framed => ex[a].pc \in {"close", "done"} \/ (ex[a].pc = "send" /\ ex[a].msg = "stop")

\* Steps of the handlers' goroutine and the client that no attempt notices.
LEMMA Elsewhere ==
    ASSUME \/ StopReading \/ SendError \/ Close \/ ClientStep \/ CancelContext
           \/ ClientLeaves \/ UNCHANGED streamVars
    PROVE  UNCHANGED <<kind, ex, wr, result>> /\ (over => over')
  BY DEF StopReading, SendError, Close, ClientStep, Forward, ForwardError, ForwardEnd, PeekEnd,
         ForwardGone, End, CancelContext, ClientLeaves, streamVars, setup, goroutine, httpHandler

LEMMA CarriedStep ==
    ASSUME StreamTypeOK, RetrySafe, [StreamNext]_streamVars, NEW c \in Attempts,
           Carried(c), Final(c)
    PROVE  Carried(c)' /\ Final(c)'
<1> DEFINE Goal == Carried(c)' /\ Final(c)'
<1>0. LoopFact(kind)
  BY LoopFacts, StreamAssumption DEF StreamTypeOK
<1>1. ASSUME NEW a \in Attempts, ReadLine(a) PROVE Goal
  BY <1>0, <1>1 DEF ReadLine, Pass, Carried, Final, Sealed, Whole, LoopFact, StreamTypeOK, ExecutorState, setup
<1>2. ASSUME NEW a \in Attempts, ReadEnds(a) PROVE Goal
  BY <1>0, <1>2 DEF ReadEnds, Carried, Final, Sealed, Whole, LoopFact, StreamTypeOK, ExecutorState, setup
<1>3. ASSUME NEW a \in Attempts, SendTail(a) PROVE Goal
  BY <1>0, <1>3 DEF SendTail, Send, Pass, Carried, Final, Sealed, Whole, LoopFact, StreamTypeOK, ExecutorState, setup
<1>4. ASSUME NEW a \in Attempts, Judge(a) PROVE Goal
  BY <1>0, <1>4 DEF Judge, Send, Faulty, Tolerated, Empty, Carried, Final, Sealed, Whole, LoopFact, StreamTypeOK, ExecutorState, setup
<1>5. ASSUME NEW a \in Attempts, HandOver(a) PROVE Goal
  BY <1>0, <1>5 DEF HandOver, AfterSend, Last, Carried, Final, Sealed, Whole, LoopFact, StreamTypeOK, ExecutorState, ManagerState, setup
<1>6. ASSUME NEW a \in Attempts, Complete(a) PROVE Goal
  BY <1>0, <1>6 DEF Complete, Carried, Final, Sealed, Whole, LoopFact, StreamTypeOK, ExecutorState, ManagerState, setup
<1>7. ASSUME NEW a \in Attempts, Undeliverable(a) PROVE Goal
  BY <1>0, <1>7 DEF Undeliverable, Carried, Final, Sealed, Whole, LoopFact, StreamTypeOK, ExecutorState, ManagerState, setup
<1>8. ASSUME NEW a \in Attempts, TakeChunk(a) PROVE Goal
  BY <1>0, <1>8 DEF TakeChunk, Carried, Final, Sealed, Whole, LoopFact, StreamTypeOK, ExecutorState, ManagerState, setup
<1>9. CASE Retry
  <2>1. kind' = kind /\ over' = over
    BY <1>9 DEF Retry, setup
  <2>2. /\ ex \in [Attempts -> ExecutorState] /\ wr \in [Attempts -> ManagerState]
    BY DEF StreamTypeOK
  <2>3. \/ ex' = ex /\ wr' = wr
        \/ \E n : ex' = [ex EXCEPT ![n] = Opened(kind)] /\ wr' = [wr EXCEPT ![n] = Listening]
    BY <1>9 DEF Retry
  <2>4. \/ ex'[c] = ex[c] /\ wr'[c] = wr[c]
        \/ ex'[c] = Opened(kind) /\ wr'[c] = Listening
    BY <2>2, <2>3
  <2>5. CASE ex'[c] = ex[c] /\ wr'[c] = wr[c]
    BY <2>1, <2>5 DEF Carried, Final, Sealed, Whole
  <2>6. CASE ex'[c] = Opened(kind) /\ wr'[c] = Listening
    <3>1. /\ ex'[c].pc \in {"send", "read"} /\ ex'[c].msg = "line" /\ ~ex'[c].stop
          /\ ex'[c].end = "none"
      BY <2>6 DEF Opened
    <3>2. wr'[c].pc = "recv" /\ ~wr'[c].failed
      BY <2>6 DEF Listening
    <3>3. Carried(c)'
      BY <3>1, <3>2 DEF Carried
    <3> QED
      BY <3>1, <3>3 DEF Final
  <2> QED
    BY <2>4, <2>5, <2>6
<1>10. CASE StopReading \/ SendError \/ Close \/ ClientStep \/ CancelContext \/ ClientLeaves \/ UNCHANGED streamVars
  BY <1>10, Elsewhere DEF Carried, Final, Sealed, Whole
<1> QED
  BY <1>1, <1>2, <1>3, <1>4, <1>5, <1>6, <1>7, <1>8, <1>9, <1>10
     DEF StreamNext, ExecutorStep, HandlerStep

\* What the client has been told comes from the current stream; an error is
\* the last of it.
Told ==
    /\ br.pc = "data" => br.msg # "error" /\ (br.msg = "stop" => ex[br.cur].stop)
    /\ br.pc = "data" /\ br.msg = "tail" => kind.tail = "done"
    /\ "stop" \in shown.told => br.cur \in shown.from /\ ex[br.cur].stop
    /\ "tail" \in shown.told => kind.tail = "done"
    /\ "error" \in shown.told => fwd = "over"

\* An answer handed on as complete stays whole.
Done ==
    outcome = "done" /\ ~gone =>
        \A a \in shown.from : ex[a].pc = "done" /\ Whole(ex[a])

DInv ==
    /\ SInv /\ Told /\ ToldOnce /\ Done
    /\ \A a \in Attempts : Carried(a) /\ Final(a)

\* An executor's step forgets no end of an answer, and only takes place before
\* it is done.
LEMMA StopKept ==
    ASSUME StreamTypeOK, NEW a \in Attempts,
           \/ ReadLine(a) \/ ReadEnds(a) \/ ExecutorStep(a) \/ Undeliverable(a)
    PROVE  /\ \A b \in Attempts : ex[b].stop => ex'[b].stop
           /\ \A b \in Attempts : ex[b].pc = "done" => ex'[b] = ex[b]
           /\ UNCHANGED <<kind, br, errs, shut, fwd, outcome, shown, over, gone>>
<1>1. CASE ReadLine(a)
  BY <1>1 DEF ReadLine, Pass, StreamTypeOK, ExecutorState, setup, goroutine, httpHandler
<1>2. CASE ReadEnds(a)
  BY <1>2 DEF ReadEnds, StreamTypeOK, ExecutorState, setup, goroutine, httpHandler
<1>3. CASE SendTail(a)
  <2>1. /\ ex[a].pc = "tail"
        /\ UNCHANGED <<kind, br, errs, shut, fwd, outcome, shown, over, gone>>
    BY <1>3 DEF SendTail, setup, goroutine, httpHandler
  <2>2. CASE ex' = [ex EXCEPT ![a].pc = "judge"] \/ Send(a, "tail")
    BY <2>1, <2>2 DEF Send, StreamTypeOK, ExecutorState
  <2>3. CASE Pass(a)
    BY <2>1, <2>3 DEF Pass, StreamTypeOK, ExecutorState
  <2> QED
    BY <1>3, <2>2, <2>3 DEF SendTail
<1>4. CASE Judge(a)
  BY <1>4 DEF Judge, Send, StreamTypeOK, ExecutorState, setup, goroutine, httpHandler
<1>5. CASE HandOver(a)
  <2>1. ex' = [ex EXCEPT ![a].pc = AfterSend(a)] /\ ex[a].pc = "send"
    BY <1>5 DEF HandOver
  <2>2. UNCHANGED <<kind, br, errs, shut, fwd, outcome, shown, over, gone>>
    BY <1>5 DEF HandOver, setup, goroutine, httpHandler
  <2> QED
    BY <2>1, <2>2 DEF StreamTypeOK, ExecutorState
<1>6. CASE Complete(a)
  BY <1>6 DEF Complete, StreamTypeOK, ExecutorState, setup, goroutine, httpHandler
<1>7. CASE Undeliverable(a)
  BY <1>7 DEF Undeliverable, setup, goroutine, httpHandler
<1> QED
  BY <1>1, <1>2, <1>3, <1>4, <1>5, <1>6, <1>7 DEF ExecutorStep

LEMMA ToldStep ==
    ASSUME DInv, [StreamNext]_streamVars
    PROVE  Told' /\ ToldOnce'
<1> DEFINE Goal == Told' /\ ToldOnce'
<1>0. /\ LoopFact(kind) /\ StreamTypeOK /\ Told /\ ToldOnce /\ RetrySafe /\ Shown /\ ErrorKept
      /\ \A a \in Attempts : Recorded(a) /\ Carried(a) /\ Final(a)
  BY LoopFacts, StreamAssumption DEF DInv, SInv, StreamTypeOK
<1>1. br \in HandlerState /\ br.cur \in Attempts
  BY <1>0 DEF StreamTypeOK, HandlerState
<1>2. ASSUME NEW a \in Attempts, ReadLine(a) \/ ReadEnds(a) \/ ExecutorStep(a) \/ Undeliverable(a)
      PROVE Goal
  BY <1>0, <1>1, <1>2, StopKept DEF Told, ToldOnce
<1>3. ASSUME NEW a \in Attempts, TakeChunk(a) PROVE Goal
  BY <1>0, <1>1, <1>3 DEF TakeChunk, StepTo, Told, ToldOnce, Carried, HandlerState, setup, httpHandler
<1>4. CASE Retry
  <2>1. shown.from = {}
    BY <1>0, <1>4 DEF Retry, RetrySafe, Shown
  <2>2. "stop" \notin shown.told /\ UNCHANGED <<kind, shown, fwd>> /\ br'.pc # "data"
    BY <1>0, <1>1, <1>4, <2>1 DEF Retry, StepTo, Told, HandlerState, setup, httpHandler
  <2> QED
    BY <1>0, <2>2 DEF Told, ToldOnce
<1>5. CASE StopReading \/ SendError \/ Close \/ CancelContext \/ ClientLeaves \/ UNCHANGED streamVars
  BY <1>0, <1>1, <1>5 DEF StopReading, SendError, Close, CancelContext, ClientLeaves, StepTo, Told,
     ToldOnce, HandlerState, streamVars, setup, goroutine, httpHandler
<1>6. CASE Forward
  <2>1. /\ br.pc = "data" /\ br' = [br EXCEPT !.pc = "recv"] /\ fwd # "over"
        /\ shown'.from = shown.from \cup {br.cur}
        /\ shown'.told = shown.told \cup ({br.msg} \ {"line"})
        /\ UNCHANGED <<kind, ex>>
    BY <1>6 DEF Forward, StepTo, setup
  <2>2. br'.cur = br.cur /\ br'.pc = "recv"
    BY <1>1, <2>1 DEF HandlerState
  <2>3. "error" \notin shown'.told
    BY <1>0, <1>1, <1>6, <2>1 DEF Told
  <2> QED
    BY <1>0, <2>1, <2>2, <2>3 DEF Told, ToldOnce
<1>7. CASE ForwardError
  <2>1. wr[br.cur].failed
    BY <1>0, <1>1, <1>7 DEF ForwardError, ErrorKept, Recorded
  <2>2. Sealed => "stop" \notin shown.told /\ "tail" \notin shown.told
    BY <1>0, <1>1, <2>1 DEF Told, Final, Sealed, LoopFact
  <2>3. shown'.told = shown.told \cup {"error"} /\ shown'.from = shown.from
    BY <1>0, <1>7 DEF ForwardError, StreamTypeOK
  <2>4. shown.told \subseteq {"stop", "tail", "error"}
    BY <1>0 DEF StreamTypeOK
  <2>5. UNCHANGED <<kind, ex, br>> /\ fwd' = "over"
    BY <1>7 DEF ForwardError, End, setup, goroutine
  <2>6. Told'
    BY <1>0, <2>3, <2>5 DEF Told
  <2>7. ToldOnce'
    BY <2>2, <2>3, <2>4, <2>5 DEF ToldOnce, Sealed
  <2> QED
    BY <2>6, <2>7
<1>8. CASE ForwardEnd \/ PeekEnd \/ ForwardGone
  BY <1>0, <1>1, <1>8 DEF ForwardEnd, PeekEnd, ForwardGone, End, Told, ToldOnce, setup, goroutine
<1> QED
  BY <1>2, <1>3, <1>4, <1>5, <1>6, <1>7, <1>8 DEF StreamNext, HandlerStep, ClientStep

LEMMA DoneStep ==
    ASSUME DInv, [StreamNext]_streamVars
    PROVE  Done'
<1>0. /\ StreamTypeOK /\ RetrySafe /\ Shown /\ ErrorKept /\ Alive /\ Done
      /\ \A a \in Attempts : Recorded(a) /\ Carried(a)
  BY DEF DInv, SInv
<1>1. br \in HandlerState /\ br.cur \in Attempts /\ shown.from \subseteq Attempts
  BY <1>0 DEF StreamTypeOK, HandlerState
<1>2. ASSUME NEW a \in Attempts, ReadLine(a) \/ ReadEnds(a) \/ ExecutorStep(a) \/ Undeliverable(a)
      PROVE Done'
  <2>1. /\ \A b \in Attempts : ex[b].pc = "done" => ex'[b] = ex[b]
        /\ UNCHANGED <<kind, outcome, shown, gone>>
    BY <1>0, <1>2, StopKept
  <2> QED
    BY <1>0, <1>1, <2>1 DEF Done, Whole
<1>3. ASSUME NEW a \in Attempts, TakeChunk(a) PROVE Done'
  BY <1>0, <1>3 DEF TakeChunk, Done, Whole, setup, httpHandler
<1>4. CASE Retry
  BY <1>0, <1>4 DEF Retry, RetrySafe, Shown, Done, setup, httpHandler
<1>5. CASE StopReading \/ SendError \/ Close \/ CancelContext \/ ClientLeaves \/ UNCHANGED streamVars
  BY <1>0, <1>5 DEF StopReading, SendError, Close, CancelContext, ClientLeaves, Done, Whole,
     streamVars, setup, goroutine, httpHandler
<1>6. CASE Forward \/ ForwardError \/ ForwardGone
  BY <1>0, <1>6 DEF Forward, ForwardError, ForwardGone, End, Alive, Done, setup
<1>7. CASE ForwardEnd
  <2>1. fwd = "loop" /\ shut # {} /\ ~errs /\ UNCHANGED <<kind, ex, shown, gone>>
    BY <1>7 DEF ForwardEnd, End, setup
  <2>2. ASSUME ~gone PROVE wr[br.cur].pc = "done" /\ ~wr[br.cur].failed /\ ~over
    BY <1>0, <2>1, <2>2 DEF Alive, ErrorKept
  <2>3. ASSUME ~gone PROVE ex[br.cur].pc = "done" /\ Whole(ex[br.cur])
    BY <1>0, <1>1, <2>2, <2>3 DEF Carried
  <2> QED
    BY <1>0, <2>1, <2>3 DEF Done, Shown, Whole
<1>8. CASE PeekEnd
  BY <1>0, <1>8 DEF PeekEnd, End, Shown, Done
<1> QED
  BY <1>2, <1>3, <1>4, <1>5, <1>6, <1>7, <1>8 DEF StreamNext, HandlerStep, ClientStep

LEMMA DInvInductive ==
    /\ StreamInit => DInv
    /\ DInv /\ [StreamNext]_streamVars => DInv'
<1>1. ASSUME StreamInit PROVE DInv
  <2>1. ASSUME NEW a \in Attempts PROVE Carried(a) /\ Final(a)
    BY <1>1 DEF StreamInit, Opened, Listening, Carried, Final
  <2>2. Told /\ ToldOnce /\ Done
    BY <1>1 DEF StreamInit, Told, ToldOnce, Done
  <2> QED
    BY <1>1, <2>1, <2>2, SInvInit DEF DInv
<1>2. ASSUME DInv, [StreamNext]_streamVars PROVE DInv'
  <2>1. SInv'
    BY <1>2, SInvStep DEF DInv
  <2>2. \A a \in Attempts : Carried(a)' /\ Final(a)'
    BY <1>2, CarriedStep DEF DInv, SInv
  <2>3. Told' /\ ToldOnce' /\ Done'
    BY <1>2, ToldStep, DoneStep
  <2> QED
    BY <2>1, <2>2, <2>3 DEF DInv
<1> QED
  BY <1>1, <1>2

\* An answer that has begun and is handed on as complete is one, whatever
\* executor it comes from (conductor.go:926, stream_forwarder.go:71).
THEOREM CompleteIsWhole == StreamSpec => []DoneIsWhole
<1>1. DInv => DoneIsWhole
  <2> SUFFICES ASSUME DInv, outcome = "done", ~gone, shown.from # {} PROVE DoneIsWhole
    BY DEF DoneIsWhole
  <2>1. PICK a \in shown.from : TRUE
    OBVIOUS
  <2>2. Whole(ex[a])
    BY <2>1 DEF DInv, Done
  <2> QED
    BY <2>1, <2>2 DEF DoneIsWhole, Whole
<1> QED
  BY <1>1, DInvInductive, PTL DEF StreamSpec

\* Where a loop knows the end of its answer, the client gets an end or an error,
\* never both (claude_executor.go:573, aistudio_executor.go:288).
THEOREM EndIsToldOnce == StreamSpec => []ToldOnce
<1>1. DInv => ToldOnce
  BY DEF DInv
<1> QED
  BY <1>1, DInvInductive, PTL DEF StreamSpec
=============================================================================
