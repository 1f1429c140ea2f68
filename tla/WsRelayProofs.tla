---------------------------- MODULE WsRelayProofs ----------------------------
(***************************************************************************)
(* Proofs about WsRelay, for any number of requests, any capacity of their *)
(* channels and any lengths of the answers.                                *)
(***************************************************************************)
EXTENDS WsRelay, TLAPS

USE RelayAssumption

-----------------------------------------------------------------------------
(* The inductive invariant. *)

\* The flag and the program counter of the cleanup agree.
OneCleanup ==
    /\ closed <=> cleaner.pc # "off"
    /\ cleaner.pc = "off" => cleaner.seen = {}
    /\ cleaner.pc = "visit" => cleaner.req \in Req /\ pc[cleaner.req] # "idle"

\* NoWaiterForgotten already holds while the request is being written.
Covered(r) ==
    pc[r] \in {"write", "wait"} /\ r \in open =>
        \/ r \in pending /\ (closed => cleaner.pc \in {"range", "visit"} /\ r \in cleaner.todo \ cleaner.seen)
        \/ cleaner.pc = "visit" /\ cleaner.req = r

\* Before a request is sent, nobody but cleanup knows of it.
Unknown(r) ==
    /\ pc[r] \in {"idle", "load", "write"} => watch[r] = "off"
    /\ pc[r] = "idle" => r \notin pending /\ r \in open /\ buf[r] = << >>

\* The reader only handles requests that were sent, and terminal messages
\* only of answers that have ended.
ReaderKnows ==
    reader.pc \in {"found", "finish"} =>
        /\ reader.req \in Req /\ watch[reader.req] # "off"
        /\ reader.msg \in Terminal => reader.req \in ended
        /\ reader.pc = "finish" => reader.msg \in Terminal

AllChunks(s) == \A i \in 1 .. Len(s) : s[i] = "chunk"
EndsAt(s, i) == s[i] = "end" /\ \A j \in 1 .. i - 1 : s[j] = "chunk"

\* While the session is up and every client stays, an entry in the map means
\* an open channel, and an entry whose answer is known to have ended is about
\* to be taken by the reader.
Calm == ~closed /\ \A r \in Req : ctx[r] # "left"
NoLateEntry ==
    Calm =>
        /\ pending \subseteq open
        /\ reader.pc = "found" => reader.req \in pending
        /\ \A r \in pending : pc[r] \in Results \/ ~AllChunks(buf[r]) =>
              reader.pc = "finish" /\ reader.req = r

\* The chunk of r that has been read and not yet been put into the channel.
InHand(r) == IF reader.pc = "found" /\ reader.req = r /\ reader.msg = "chunk" THEN 1 ELSE 0

\* Every chunk sent has been received, is in the channel or in the reader's
\* hand, as long as the channel holds no terminal message; an end in it
\* follows all of them.
Complete(r) ==
    /\ AllChunks(buf[r]) =>
          /\ r \in open
          /\ pc[r] \in {"write", "wait"} => r \in pending
          /\ reader.pc = "finish" => reader.req # r
          /\ sent[r] = got[r] + Len(buf[r]) + InHand(r)
    /\ \A i \in 1 .. Len(buf[r]) :
          EndsAt(buf[r], i) => r \in ended /\ sent[r] = got[r] + i - 1

\* The request is under way and no message for it was dropped.
Intact(r) == ~dead /\ pc[r] \notin Results /\ r \notin behind /\ ctx[r] # "left"

IInv ==
    /\ TypeOK /\ OneCleanup /\ ReaderKnows
    /\ \A r \in Req : Covered(r) /\ Unknown(r)
    /\ NoLateEntry /\ PanicNeedsOverlap
    /\ \A r \in Req : Intact(r) => Complete(r)
    /\ SuccessIsWhole

-----------------------------------------------------------------------------
(* The type invariant. *)

LEMMA TakeTyped ==
    ASSUME TypeOK, NEW r \in Req, Take(r)
    PROVE  pending' \subseteq Req /\ open' \subseteq Req
  BY DEF TypeOK, Take

LEMMA OfferTyped ==
    ASSUME TypeOK, NEW r \in Req, NEW msg \in Message, Offer(r, msg)
    PROVE  /\ buf' \in [Req -> Seq(Message)] /\ \A q \in Req : Len(buf'[q]) <= Cap
           /\ behind' \subseteq Req /\ dead' \in BOOLEAN
<1>1. CASE r \notin open
  BY <1>1 DEF TypeOK, Offer
<1>2. CASE r \in open /\ ~(Len(buf[r]) < Cap)
  BY <1>2 DEF TypeOK, Offer
<1>3. CASE r \in open /\ Len(buf[r]) < Cap
  <2>1. buf' = [buf EXCEPT ![r] = Append(@, msg)] /\ UNCHANGED <<behind, dead>>
    BY <1>3 DEF Offer
  <2>2. Append(buf[r], msg) \in Seq(Message) /\ Len(Append(buf[r], msg)) <= Cap
    BY <1>3 DEF TypeOK
  <2> QED
    BY <2>1, <2>2 DEF TypeOK
<1> QED
  BY <1>1, <1>2, <1>3

LEMMA TypeInit == Init => TypeOK
<1> SUFFICES ASSUME Init PROVE TypeOK
  OBVIOUS
<1>1. buf \in [Req -> Seq(Message)] /\ \A r \in Req : Len(buf[r]) <= Cap
  BY DEF Init
<1>2. /\ cleaner \in [pc : {"off", "range", "visit", "unlist", "done"},
                      req : Req \cup {NoReq}, seen : SUBSET Req, todo : SUBSET Req]
      /\ reader \in [pc : {"read", "found", "finish", "gone"},
                     req : Req \cup {NoReq}, msg : Message]
  BY DEF Init, Idle, Message
<1>3. /\ sent \in [Req -> Nat] /\ \A r \in Req : sent[r] <= Chunks[r]
      /\ got \in [Req -> Nat]
  BY DEF Init
<1> QED
  BY <1>1, <1>2, <1>3 DEF Init, Idle, TypeOK

LEMMA TypeStep == TypeOK /\ [Next]_vars => TypeOK'
<1> SUFFICES ASSUME TypeOK, [Next]_vars PROVE TypeOK'
  OBVIOUS
<1>1. ASSUME NEW r \in Req, Begin(r) PROVE TypeOK'
  BY <1>1 DEF Begin, Goto, TypeOK, session, client, Results
<1>2. ASSUME NEW r \in Req, Load(r) PROVE TypeOK'
  <2>1. pending' \subseteq Req /\ open' \subseteq Req
    BY <1>2, TakeTyped DEF Load, Refuse, TypeOK
  <2>2. /\ pc' \in [Req -> {"idle", "load", "write", "wait"} \cup Results]
        /\ watch' \in [Req -> {"off", "armed", "gone"}]
    BY <1>2 DEF Load, Refuse, Goto, TypeOK, Results
  <2> QED
    BY <1>2, <2>1, <2>2 DEF Load, TypeOK, session, client
<1>3. ASSUME NEW r \in Req, Write(r) PROVE TypeOK'
  <2>1. pending' \subseteq Req /\ open' \subseteq Req
    BY <1>3, TakeTyped DEF Write, Refuse, TypeOK
  <2>2. /\ pc' \in [Req -> {"idle", "load", "write", "wait"} \cup Results]
        /\ watch' \in [Req -> {"off", "armed", "gone"}]
    BY <1>3 DEF Write, Refuse, Goto, TypeOK, Results
  <2> QED
    BY <1>3, <2>1, <2>2 DEF Write, TypeOK, session, client
<1>4. ASSUME NEW r \in Req, Receive(r) PROVE TypeOK'
  <2>1. Head(buf[r]) \in Message /\ Tail(buf[r]) \in Seq(Message)
        /\ Len(Tail(buf[r])) <= Cap
    BY <1>4 DEF Receive, TypeOK
  <2>2. buf' \in [Req -> Seq(Message)] /\ \A q \in Req : Len(buf'[q]) <= Cap
    BY <1>4, <2>1 DEF Receive, TypeOK
  <2>3. got' \in [Req -> Nat]
    BY <1>4 DEF Receive, TypeOK
  <2>4. AfterMessage(Head(buf[r])) \in {"wait"} \cup Results
    BY <2>1 DEF AfterMessage, Message, Terminal, Results
  <2> QED
    BY <1>4, <2>2, <2>3, <2>4 DEF Receive, Goto, TypeOK, session, client
<1>5. ASSUME NEW r \in Req, ReceiveClosed(r) PROVE TypeOK'
  BY <1>5 DEF ReceiveClosed, AfterClose, Goto, TypeOK, session, client, Results
<1>6. ASSUME NEW r \in Req, GiveUp(r) PROVE TypeOK'
  <2>1. buf' \in [Req -> Seq(Message)] /\ \A q \in Req : Len(buf'[q]) <= Cap
    BY <1>6 DEF GiveUp, TypeOK
  <2> QED
    BY <1>6, <2>1 DEF GiveUp, Goto, TypeOK, session, client, Results
<1>7. ASSUME NEW r \in Req, WatchFires(r) PROVE TypeOK'
  BY <1>7, TakeTyped DEF WatchFires, TypeOK, session, client
<1>8. ASSUME NEW r \in Req, EndContext(r) PROVE TypeOK'
  BY <1>8 DEF EndContext, TypeOK, session, client
<1>9. ASSUME NEW r \in Req, NEW msg \in Message, Read(r, msg) PROVE TypeOK'
  <2>1. /\ reader' \in [pc : {"read", "found", "finish", "gone"},
                        req : Req \cup {NoReq}, msg : Message]
        /\ reader'.pc # "read" => reader'.req # NoReq
    BY <1>9 DEF Read, Idle, Message
  <2>2. sent' \in [Req -> Nat] /\ (\A q \in Req : sent'[q] <= Chunks[q]) /\ ended' \subseteq Req
    <3>1. CASE UNCHANGED sent
      BY <1>9, <3>1 DEF Read, TypeOK, client
    <3>2. CASE sent[r] < Chunks[r] /\ sent' = [sent EXCEPT ![r] = @ + 1] /\ UNCHANGED ended
      <4>1. Chunks[r] \in Nat /\ sent[r] \in Nat
        BY DEF TypeOK
      <4> QED
        BY <3>2, <4>1 DEF TypeOK
    <3> QED
      BY <1>9, <3>1, <3>2 DEF Read, client
  <2>3. UNCHANGED <<session, pending, buf, open, pc, watch, cleaner, got, ctx, behind, dead>>
    BY <1>9 DEF Read
  <2> QED
    BY <2>1, <2>2, <2>3 DEF TypeOK, session
<1>10. CASE Deliver
  <2>1. /\ reader' \in [pc : {"read", "found", "finish", "gone"},
                        req : Req \cup {NoReq}, msg : Message]
        /\ reader'.pc # "read" => reader'.req # NoReq
    BY <1>10 DEF Deliver, TypeOK, Idle, Message
  <2>2. reader.msg \in Message /\ reader.req \in Req
    BY <1>10 DEF Deliver, TypeOK
  <2>3. /\ buf' \in [Req -> Seq(Message)] /\ \A q \in Req : Len(buf'[q]) <= Cap
        /\ behind' \subseteq Req /\ dead' \in BOOLEAN
    BY <1>10, <2>2, OfferTyped DEF Deliver
  <2>4. UNCHANGED <<session, pending, open, pc, watch, cleaner, client, got, ctx>>
    BY <1>10 DEF Deliver
  <2> QED
    BY <2>1, <2>3, <2>4 DEF TypeOK, session, client
<1>11. CASE Finish
  <2>1. reader.req \in Req
    BY <1>11 DEF Finish, TypeOK
  <2> QED
    BY <1>11, <2>1, TakeTyped DEF Finish, Idle, Message, TypeOK, session, client
<1>12. CASE ReadFails
  BY <1>12 DEF ReadFails, Idle, Message, TypeOK, session, client
<1>13. ASSUME NEW r \in Req, Visit(r) PROVE TypeOK'
  BY <1>13 DEF Visit, TypeOK, session, client
<1>14. CASE Warn
  <2>1. "error" \in Message /\ cleaner.req \in Req
    BY <1>14 DEF Warn, TypeOK, Message, Terminal
  <2> QED
    BY <1>14, <2>1, OfferTyped DEF Warn, TypeOK, session, client
<1>15. CASE Reset
  BY <1>15 DEF Reset, TypeOK, client
<1>16. CASE Unlist
  BY <1>16 DEF Unlist, TypeOK, client
<1>17. CASE Stop
  BY <1>17 DEF Stop, TypeOK, client
<1>18. CASE Cleanup
  BY <1>18 DEF Cleanup, TypeOK, client
<1>19. CASE UNCHANGED vars
  BY <1>19 DEF vars, session, client, TypeOK
<1> QED
  BY <1>1, <1>2, <1>3, <1>4, <1>5, <1>6, <1>7, <1>8, <1>9, <1>10, <1>11, <1>12,
     <1>13, <1>14, <1>15, <1>16, <1>17, <1>18, <1>19
     DEF Next, Step, Over, Caller, Reader, Cleaner

\* WsRelay is type correct.
THEOREM TypeCorrect == Spec => []TypeOK
<1>1. Init => TypeOK
  BY TypeInit
<1>2. TypeOK /\ [Next]_vars => TypeOK'
  BY TypeStep
<1> QED
  BY <1>1, <1>2, PTL DEF Spec

-----------------------------------------------------------------------------
(* The cleanup and those who wait for it. *)

LEMMA ReceiveGoes ==
    ASSUME TypeOK, NEW r \in Req, Receive(r)
    PROVE  \E l \in {"wait"} \cup Results : pc' = [pc EXCEPT ![r] = l]
<1>1. Head(buf[r]) \in Message
  BY DEF Receive, TypeOK
<1>2. AfterMessage(Head(buf[r])) \in {"wait"} \cup Results
  BY <1>1 DEF AfterMessage, Message, Terminal, Results
<1> QED
  BY <1>2 DEF Receive, Goto

LEMMA OneCleanupStep ==
    ASSUME TypeOK, OneCleanup, \A q \in Req : Unknown(q), [Next]_vars
    PROVE  OneCleanup'
<1>1. ASSUME NEW r \in Req, Begin(r) PROVE OneCleanup'
  BY <1>1 DEF Begin, Goto, OneCleanup, Unknown, TypeOK, Results, session, client
<1>2. ASSUME NEW r \in Req, Load(r) PROVE OneCleanup'
  BY <1>2 DEF Load, Refuse, Take, Goto, OneCleanup, Unknown, TypeOK, Results, session, client
<1>3. ASSUME NEW r \in Req, Write(r) PROVE OneCleanup'
  BY <1>3 DEF Write, Refuse, Take, Goto, OneCleanup, Unknown, TypeOK, Results, session, client
<1>4. ASSUME NEW r \in Req, Receive(r) PROVE OneCleanup'
  BY <1>4, ReceiveGoes DEF Receive, OneCleanup, TypeOK, Results, session, client
<1>5. ASSUME NEW r \in Req, ReceiveClosed(r) PROVE OneCleanup'
  BY <1>5 DEF ReceiveClosed, AfterClose, Goto, OneCleanup, Unknown, TypeOK, Results, session, client
<1>6. ASSUME NEW r \in Req, GiveUp(r) PROVE OneCleanup'
  BY <1>6 DEF GiveUp, Goto, OneCleanup, Unknown, TypeOK, Results, session, client
<1>7. ASSUME NEW r \in Req, WatchFires(r) PROVE OneCleanup'
  BY <1>7 DEF WatchFires, Take, OneCleanup, Unknown, TypeOK, Results, session, client
<1>8. ASSUME NEW r \in Req, EndContext(r) PROVE OneCleanup'
  BY <1>8 DEF EndContext, OneCleanup, Unknown, TypeOK, Results, session, client
<1>9. ASSUME NEW r \in Req, NEW msg \in Message, Read(r, msg) PROVE OneCleanup'
  BY <1>9 DEF Read, Idle, OneCleanup, Unknown, TypeOK, Results, session, client
<1>10. CASE Deliver
  BY <1>10 DEF Deliver, Offer, Idle, OneCleanup, Unknown, TypeOK, Results, session, client
<1>11. CASE Finish
  BY <1>11 DEF Finish, Take, OneCleanup, Unknown, TypeOK, Results, session, client
<1>12. CASE ReadFails
  BY <1>12 DEF ReadFails, Idle, OneCleanup, Unknown, TypeOK, Results, session, client
<1>13. ASSUME NEW r \in Req, Visit(r) PROVE OneCleanup'
  BY <1>13 DEF Visit, OneCleanup, Unknown, TypeOK, Results, session, client
<1>14. CASE Warn
  BY <1>14 DEF Warn, Offer, OneCleanup, Unknown, TypeOK, Results, session, client
<1>15. CASE Reset
  BY <1>15 DEF Reset, OneCleanup, Unknown, TypeOK, Results, session, client
<1>16. CASE Unlist
  BY <1>16 DEF Unlist, OneCleanup, Unknown, TypeOK, Results, session, client
<1>17. CASE Stop
  BY <1>17 DEF Stop, OneCleanup, Unknown, TypeOK, Results, session, client
<1>18. CASE Cleanup
  BY <1>18 DEF Cleanup, OneCleanup, Unknown, TypeOK, Results, session, client
<1>19. CASE UNCHANGED vars
  BY <1>19 DEF vars, session, client, OneCleanup
<1> QED
  BY <1>1, <1>2, <1>3, <1>4, <1>5, <1>6, <1>7, <1>8, <1>9, <1>10,
     <1>11, <1>12, <1>13, <1>14, <1>15, <1>16, <1>17, <1>18, <1>19
     DEF Next, Step, Over, Caller, Reader, Cleaner

LEMMA CoveredStep ==
    ASSUME TypeOK, OneCleanup, \A q \in Req : Covered(q), [Next]_vars, NEW p \in Req
    PROVE  Covered(p)'
<1>1. ASSUME NEW r \in Req, Begin(r) PROVE Covered(p)'
  BY <1>1 DEF Begin, Goto, Covered, OneCleanup, TypeOK, Results, session, client
<1>2. ASSUME NEW r \in Req, Load(r) PROVE Covered(p)'
  BY <1>2 DEF Load, Refuse, Take, Goto, Covered, OneCleanup, TypeOK, Results, session, client
<1>3. ASSUME NEW r \in Req, Write(r) PROVE Covered(p)'
  <2>1. CASE Goto(r, "wait") /\ UNCHANGED <<open, pending>>
    BY <1>3, <2>1 DEF Write, Goto, Covered, TypeOK, session
  <2>2. CASE Refuse(r)
    BY <1>3, <2>2 DEF Write, Refuse, Take, Goto, Covered, TypeOK, session
  <2> QED
    BY <1>3, <2>1, <2>2 DEF Write
<1>4. ASSUME NEW r \in Req, Receive(r) PROVE Covered(p)'
  BY <1>4 DEF Receive, Goto, Covered, OneCleanup, TypeOK, Results, session, client
<1>5. ASSUME NEW r \in Req, ReceiveClosed(r) PROVE Covered(p)'
  BY <1>5 DEF ReceiveClosed, AfterClose, Goto, Covered, OneCleanup, TypeOK, Results, session, client
<1>6. ASSUME NEW r \in Req, GiveUp(r) PROVE Covered(p)'
  BY <1>6 DEF GiveUp, Goto, Covered, OneCleanup, TypeOK, Results, session, client
<1>7. ASSUME NEW r \in Req, WatchFires(r) PROVE Covered(p)'
  BY <1>7 DEF WatchFires, Take, Covered, OneCleanup, TypeOK, Results, session, client
<1>8. ASSUME NEW r \in Req, EndContext(r) PROVE Covered(p)'
  BY <1>8 DEF EndContext, Covered, OneCleanup, TypeOK, Results, session, client
<1>9. ASSUME NEW r \in Req, NEW msg \in Message, Read(r, msg) PROVE Covered(p)'
  BY <1>9 DEF Read, Idle, Covered, OneCleanup, TypeOK, Results, session, client
<1>10. CASE Deliver
  BY <1>10 DEF Deliver, Offer, Idle, Covered, OneCleanup, TypeOK, Results, session, client
<1>11. CASE Finish
  BY <1>11 DEF Finish, Take, Covered, OneCleanup, TypeOK, Results, session, client
<1>12. CASE ReadFails
  BY <1>12 DEF ReadFails, Idle, Covered, OneCleanup, TypeOK, Results, session, client
<1>13. ASSUME NEW r \in Req, Visit(r) PROVE Covered(p)'
  BY <1>13 DEF Visit, Covered, OneCleanup, TypeOK, Results, session, client
<1>14. CASE Warn
  BY <1>14 DEF Warn, Offer, Covered, OneCleanup, TypeOK, Results, session, client
<1>15. CASE Reset
  BY <1>15 DEF Reset, Covered, OneCleanup, TypeOK, Results, session, client
<1>16. CASE Unlist
  BY <1>16 DEF Unlist, Covered, OneCleanup, TypeOK, Results, session, client
<1>17. CASE Stop
  BY <1>17 DEF Stop, Covered, OneCleanup, TypeOK, Results, session, client
<1>18. CASE Cleanup
  BY <1>18 DEF Cleanup, Covered, OneCleanup, TypeOK, Results, session, client
<1>19. CASE UNCHANGED vars
  BY <1>19 DEF vars, session, client, Covered
<1> QED
  BY <1>1, <1>2, <1>3, <1>4, <1>5, <1>6, <1>7, <1>8, <1>9, <1>10,
     <1>11, <1>12, <1>13, <1>14, <1>15, <1>16, <1>17, <1>18, <1>19
     DEF Next, Step, Over, Caller, Reader, Cleaner

-----------------------------------------------------------------------------
(* What is known of a request, and what the reader knows. *)

LEMMA UnknownStep ==
    ASSUME TypeOK, OneCleanup, ReaderKnows, \A q \in Req : Unknown(q), [Next]_vars,
           NEW p \in Req
    PROVE  Unknown(p)'
<1>1. ASSUME NEW r \in Req, Begin(r) PROVE Unknown(p)'
  BY <1>1 DEF Begin, Goto, Unknown, OneCleanup, ReaderKnows, TypeOK, Results, session, client
<1>2. ASSUME NEW r \in Req, Load(r) PROVE Unknown(p)'
  <2>1. CASE p = r
    BY <1>2, <2>1 DEF Load, Refuse, Goto, Unknown, TypeOK, Results
  <2>2. CASE p # r
    BY <1>2, <2>2 DEF Load, Refuse, Take, Goto, Unknown, TypeOK
  <2> QED
    BY <2>1, <2>2
<1>3. ASSUME NEW r \in Req, Write(r) PROVE Unknown(p)'
  <2>1. CASE p = r
    BY <1>3, <2>1 DEF Write, Refuse, Goto, Unknown, TypeOK, Results
  <2>2. CASE p # r
    BY <1>3, <2>2 DEF Write, Refuse, Take, Goto, Unknown, TypeOK
  <2> QED
    BY <2>1, <2>2
<1>4. ASSUME NEW r \in Req, Receive(r) PROVE Unknown(p)'
  <2>1. CASE p = r
    BY <1>4, <2>1, ReceiveGoes DEF Receive, Unknown, TypeOK, Results
  <2>2. CASE p # r
    <3>1. buf'[p] = buf[p] /\ pc'[p] = pc[p]
      BY <1>4, <2>2 DEF Receive, Goto, TypeOK
    <3>2. UNCHANGED <<session, pending, open, watch, ctx>>
      BY <1>4 DEF Receive
    <3> QED
      BY <3>1, <3>2 DEF Unknown, session
  <2> QED
    BY <2>1, <2>2
<1>5. ASSUME NEW r \in Req, ReceiveClosed(r) PROVE Unknown(p)'
  BY <1>5 DEF ReceiveClosed, AfterClose, Goto, Unknown, OneCleanup, ReaderKnows, TypeOK, Results, session, client
<1>6. ASSUME NEW r \in Req, GiveUp(r) PROVE Unknown(p)'
  BY <1>6 DEF GiveUp, Goto, Unknown, OneCleanup, ReaderKnows, TypeOK, Results, session, client
<1>7. ASSUME NEW r \in Req, WatchFires(r) PROVE Unknown(p)'
  BY <1>7 DEF WatchFires, Take, Unknown, OneCleanup, ReaderKnows, TypeOK, Results, session, client
<1>8. ASSUME NEW r \in Req, EndContext(r) PROVE Unknown(p)'
  BY <1>8 DEF EndContext, Unknown, OneCleanup, ReaderKnows, TypeOK, Results, session, client
<1>9. ASSUME NEW r \in Req, NEW msg \in Message, Read(r, msg) PROVE Unknown(p)'
  BY <1>9 DEF Read, Idle, Unknown, OneCleanup, ReaderKnows, TypeOK, Results, session, client
<1>10. CASE Deliver
  BY <1>10 DEF Deliver, Offer, Idle, Unknown, OneCleanup, ReaderKnows, TypeOK, Results, session, client
<1>11. CASE Finish
  BY <1>11 DEF Finish, Take, Unknown, OneCleanup, ReaderKnows, TypeOK, Results, session, client
<1>12. CASE ReadFails
  BY <1>12 DEF ReadFails, Idle, Unknown, OneCleanup, ReaderKnows, TypeOK, Results, session, client
<1>13. ASSUME NEW r \in Req, Visit(r) PROVE Unknown(p)'
  BY <1>13 DEF Visit, Unknown, OneCleanup, ReaderKnows, TypeOK, Results, session, client
<1>14. CASE Warn
  BY <1>14 DEF Warn, Offer, Unknown, OneCleanup, ReaderKnows, TypeOK, Results, session, client
<1>15. CASE Reset
  BY <1>15 DEF Reset, Unknown, OneCleanup, ReaderKnows, TypeOK, Results, session, client
<1>16. CASE Unlist
  BY <1>16 DEF Unlist, Unknown, OneCleanup, ReaderKnows, TypeOK, Results, session, client
<1>17. CASE Stop
  BY <1>17 DEF Stop, Unknown, OneCleanup, ReaderKnows, TypeOK, Results, session, client
<1>18. CASE Cleanup
  BY <1>18 DEF Cleanup, Unknown, OneCleanup, ReaderKnows, TypeOK, Results, session, client
<1>19. CASE UNCHANGED vars
  BY <1>19 DEF vars, session, client, Unknown
<1> QED
  BY <1>1, <1>2, <1>3, <1>4, <1>5, <1>6, <1>7, <1>8, <1>9, <1>10,
     <1>11, <1>12, <1>13, <1>14, <1>15, <1>16, <1>17, <1>18, <1>19
     DEF Next, Step, Over, Caller, Reader, Cleaner

LEMMA ReaderKnowsStep ==
    ASSUME TypeOK, ReaderKnows, \A q \in Req : Unknown(q), [Next]_vars
    PROVE  ReaderKnows'
<1>1. ASSUME NEW r \in Req, Begin(r) PROVE ReaderKnows'
  BY <1>1 DEF Begin, Goto, ReaderKnows, Unknown, TypeOK, Results, session, client
<1>2. ASSUME NEW r \in Req, Load(r) PROVE ReaderKnows'
  BY <1>2 DEF Load, Refuse, Take, Goto, ReaderKnows, Unknown, TypeOK, Results, session, client
<1>3. ASSUME NEW r \in Req, Write(r) PROVE ReaderKnows'
  BY <1>3 DEF Write, Refuse, Take, Goto, ReaderKnows, Unknown, TypeOK, Results, session, client
<1>4. ASSUME NEW r \in Req, Receive(r) PROVE ReaderKnows'
  BY <1>4, ReceiveGoes DEF Receive, ReaderKnows, Unknown, TypeOK, Results, session, client
<1>5. ASSUME NEW r \in Req, ReceiveClosed(r) PROVE ReaderKnows'
  BY <1>5 DEF ReceiveClosed, AfterClose, Goto, ReaderKnows, Unknown, TypeOK, Results, session, client
<1>6. ASSUME NEW r \in Req, GiveUp(r) PROVE ReaderKnows'
  BY <1>6 DEF GiveUp, Goto, ReaderKnows, Unknown, TypeOK, Results, session, client
<1>7. ASSUME NEW r \in Req, WatchFires(r) PROVE ReaderKnows'
  BY <1>7 DEF WatchFires, Take, ReaderKnows, Unknown, TypeOK, Results, session, client
<1>8. ASSUME NEW r \in Req, EndContext(r) PROVE ReaderKnows'
  BY <1>8 DEF EndContext, ReaderKnows, Unknown, TypeOK, Results, session, client
<1>9. ASSUME NEW r \in Req, NEW msg \in Message, Read(r, msg) PROVE ReaderKnows'
  BY <1>9 DEF Read, Idle, Terminal, ReaderKnows, Unknown, TypeOK, Results, session, client
<1>10. CASE Deliver
  BY <1>10 DEF Deliver, Offer, Idle, ReaderKnows, Unknown, TypeOK, Results, session, client
<1>11. CASE Finish
  BY <1>11 DEF Finish, Take, Idle, ReaderKnows, Unknown, TypeOK, Results, session, client
<1>12. CASE ReadFails
  BY <1>12 DEF ReadFails, Idle, ReaderKnows, Unknown, TypeOK, Results, session, client
<1>13. ASSUME NEW r \in Req, Visit(r) PROVE ReaderKnows'
  BY <1>13 DEF Visit, ReaderKnows, Unknown, TypeOK, Results, session, client
<1>14. CASE Warn
  BY <1>14 DEF Warn, Offer, ReaderKnows, Unknown, TypeOK, Results, session, client
<1>15. CASE Reset
  BY <1>15 DEF Reset, ReaderKnows, Unknown, TypeOK, Results, session, client
<1>16. CASE Unlist
  BY <1>16 DEF Unlist, ReaderKnows, Unknown, TypeOK, Results, session, client
<1>17. CASE Stop
  BY <1>17 DEF Stop, ReaderKnows, Unknown, TypeOK, Results, session, client
<1>18. CASE Cleanup
  BY <1>18 DEF Cleanup, ReaderKnows, Unknown, TypeOK, Results, session, client
<1>19. CASE UNCHANGED vars
  BY <1>19 DEF vars, session, client, ReaderKnows
<1> QED
  BY <1>1, <1>2, <1>3, <1>4, <1>5, <1>6, <1>7, <1>8, <1>9, <1>10,
     <1>11, <1>12, <1>13, <1>14, <1>15, <1>16, <1>17, <1>18, <1>19
     DEF Next, Step, Over, Caller, Reader, Cleaner

-----------------------------------------------------------------------------
(* Channels. *)

LEMMA NoChunks == AllChunks(<< >>)
  BY DEF AllChunks

LEMMA AppendChunks ==
    ASSUME NEW s \in Seq(Message), NEW msg \in Message
    PROVE  /\ msg = "chunk" => (AllChunks(Append(s, msg)) <=> AllChunks(s))
           /\ msg # "chunk" => ~AllChunks(Append(s, msg))
<1>1. /\ Len(Append(s, msg)) = Len(s) + 1 /\ Append(s, msg)[Len(s) + 1] = msg
      /\ \A i \in 1 .. Len(s) : Append(s, msg)[i] = s[i]
      /\ Len(s) \in Nat
  OBVIOUS
<1> QED
  BY <1>1 DEF AllChunks

LEMMA TailChunks ==
    ASSUME NEW s \in Seq(Message), s # << >>, Head(s) = "chunk"
    PROVE  AllChunks(Tail(s)) <=> AllChunks(s)
<1>1. /\ Len(Tail(s)) = Len(s) - 1 /\ Len(s) \in Nat \ {0} /\ s[1] = "chunk"
      /\ \A i \in 1 .. Len(s) - 1 : Tail(s)[i] = s[i + 1]
  OBVIOUS
<1>2. ASSUME AllChunks(Tail(s)), NEW i \in 1 .. Len(s) PROVE s[i] = "chunk"
  <2>1. CASE i > 1
    <3>1. i - 1 \in 1 .. Len(s) - 1 /\ (i - 1) + 1 = i
      BY <1>1, <2>1
    <3> QED
      BY <1>1, <1>2, <3>1 DEF AllChunks
  <2> QED
    BY <1>1, <2>1
<1>3. ASSUME AllChunks(s), NEW i \in 1 .. Len(s) - 1 PROVE Tail(s)[i] = "chunk"
  <2>1. i + 1 \in 1 .. Len(s)
    BY <1>1
  <2> QED
    BY <1>1, <1>3, <2>1 DEF AllChunks
<1> QED
  BY <1>1, <1>2, <1>3 DEF AllChunks

LEMMA AppendEnd ==
    ASSUME NEW s \in Seq(Message), NEW msg \in Message,
           NEW i \in 1 .. Len(s) + 1, EndsAt(Append(s, msg), i)
    PROVE  \/ i \in 1 .. Len(s) /\ EndsAt(s, i)
           \/ i = Len(s) + 1 /\ msg = "end" /\ AllChunks(s)
<1>1. /\ Append(s, msg)[Len(s) + 1] = msg /\ Len(s) \in Nat
      /\ \A j \in 1 .. Len(s) : Append(s, msg)[j] = s[j]
  OBVIOUS
<1>2. CASE i \in 1 .. Len(s)
  <2>1. \A j \in 1 .. i - 1 : j \in 1 .. Len(s)
    BY <1>1, <1>2
  <2> QED
    BY <1>1, <1>2, <2>1 DEF EndsAt
<1>3. CASE i = Len(s) + 1
  BY <1>1, <1>3 DEF EndsAt, AllChunks
<1> QED
  BY <1>1, <1>2, <1>3

LEMMA TailEnd ==
    ASSUME NEW s \in Seq(Message), s # << >>, Head(s) = "chunk",
           NEW i \in 1 .. Len(Tail(s)), EndsAt(Tail(s), i)
    PROVE  i + 1 \in 1 .. Len(s) /\ EndsAt(s, i + 1)
<1>1. /\ Len(Tail(s)) = Len(s) - 1 /\ Len(s) \in Nat \ {0} /\ s[1] = "chunk"
      /\ \A j \in 1 .. Len(s) - 1 : Tail(s)[j] = s[j + 1]
  OBVIOUS
<1>2. i + 1 \in 1 .. Len(s) /\ s[i + 1] = "end"
  BY <1>1 DEF EndsAt
<1>3. ASSUME NEW j \in 1 .. i, j # 1 PROVE s[j] = "chunk"
  <2>1. j - 1 \in 1 .. i - 1 /\ j - 1 \in 1 .. Len(s) - 1 /\ (j - 1) + 1 = j
    BY <1>1, <1>3
  <2> QED
    BY <1>1, <2>1 DEF EndsAt
<1> QED
  BY <1>1, <1>2, <1>3 DEF EndsAt

-----------------------------------------------------------------------------
(* No send to a closed channel. *)

LEMMA CalmBefore ==
    ASSUME TypeOK, [Next]_vars, Calm'
    PROVE  Calm
<1>1. ASSUME NEW r \in Req, Begin(r) PROVE Calm
  BY <1>1 DEF Begin, Goto, Calm, TypeOK, session, client
<1>2. ASSUME NEW r \in Req, Load(r) PROVE Calm
  BY <1>2 DEF Load, Refuse, Take, Goto, Calm, TypeOK, session, client
<1>3. ASSUME NEW r \in Req, Write(r) PROVE Calm
  BY <1>3 DEF Write, Refuse, Take, Goto, Calm, TypeOK, session, client
<1>4. ASSUME NEW r \in Req, Receive(r) PROVE Calm
  BY <1>4, ReceiveGoes DEF Receive, Calm, TypeOK, session, client
<1>5. ASSUME NEW r \in Req, ReceiveClosed(r) PROVE Calm
  BY <1>5 DEF ReceiveClosed, AfterClose, Goto, Calm, TypeOK, session, client
<1>6. ASSUME NEW r \in Req, GiveUp(r) PROVE Calm
  BY <1>6 DEF GiveUp, Goto, Calm, TypeOK, session, client
<1>7. ASSUME NEW r \in Req, WatchFires(r) PROVE Calm
  BY <1>7 DEF WatchFires, Take, Calm, TypeOK, session, client
<1>8. ASSUME NEW r \in Req, EndContext(r) PROVE Calm
  BY <1>8 DEF EndContext, Calm, TypeOK, session, client
<1>9. ASSUME NEW r \in Req, NEW msg \in Message, Read(r, msg) PROVE Calm
  BY <1>9 DEF Read, Idle, Calm, TypeOK, session, client
<1>10. CASE Deliver
  BY <1>10 DEF Deliver, Offer, Idle, Calm, TypeOK, session, client
<1>11. CASE Finish
  BY <1>11 DEF Finish, Take, Calm, TypeOK, session, client
<1>12. CASE ReadFails
  BY <1>12 DEF ReadFails, Idle, Calm, TypeOK, session, client
<1>13. ASSUME NEW r \in Req, Visit(r) PROVE Calm
  BY <1>13 DEF Visit, Calm, TypeOK, session, client
<1>14. CASE Warn
  BY <1>14 DEF Warn, Offer, Calm, TypeOK, session, client
<1>15. CASE Reset
  BY <1>15 DEF Reset, Calm, TypeOK, session, client
<1>16. CASE Unlist
  BY <1>16 DEF Unlist, Calm, TypeOK, session, client
<1>17. CASE Stop
  BY <1>17 DEF Stop, Calm, TypeOK, session, client
<1>18. CASE Cleanup
  BY <1>18 DEF Cleanup, Calm, TypeOK, session, client
<1>19. CASE UNCHANGED vars
  BY <1>19 DEF vars, session, client, Calm
<1> QED
  BY <1>1, <1>2, <1>3, <1>4, <1>5, <1>6, <1>7, <1>8, <1>9, <1>10,
     <1>11, <1>12, <1>13, <1>14, <1>15, <1>16, <1>17, <1>18, <1>19
     DEF Next, Step, Over, Caller, Reader, Cleaner

LEMMA NoLateEntryStep ==
    ASSUME TypeOK, OneCleanup, ReaderKnows, \A q \in Req : Unknown(q), NoLateEntry,
           [Next]_vars
    PROVE  NoLateEntry'
<1>1. ASSUME NEW r \in Req, Begin(r) PROVE NoLateEntry'
  <2>1. AllChunks(buf[r])
    BY <1>1, NoChunks DEF Begin, Unknown
  <2> QED
    BY <1>1, <2>1 DEF Begin, Goto, NoLateEntry, Calm, Unknown, TypeOK, Results, session
<1>2. ASSUME NEW r \in Req, Load(r) PROVE NoLateEntry'
  BY <1>2 DEF Load, Refuse, Take, Goto, NoLateEntry, Calm, Unknown, OneCleanup, ReaderKnows, TypeOK, Results, session, client
<1>3. ASSUME NEW r \in Req, Write(r) PROVE NoLateEntry'
  BY <1>3 DEF Write, Refuse, Take, Goto, NoLateEntry, Calm, Unknown, OneCleanup, ReaderKnows, TypeOK, Results, session, client
<1>4. ASSUME NEW r \in Req, Receive(r) PROVE NoLateEntry'
  <2>1. CASE Calm' /\ Head(buf[r]) = "chunk"
    <3>1. buf' = [buf EXCEPT ![r] = Tail(@)] /\ pc'[r] = "wait" /\ pc[r] = "wait"
      BY <1>4, <2>1 DEF Receive, Goto, AfterMessage, TypeOK
    <3>2. AllChunks(buf'[r]) <=> AllChunks(buf[r])
      BY <1>4, <3>1, <2>1, TailChunks DEF Receive, TypeOK
    <3>3. \A q \in Req : q # r => buf'[q] = buf[q] /\ pc'[q] = pc[q]
      BY <1>4 DEF Receive, Goto, TypeOK
    <3> QED
      BY <1>4, <2>1, <3>1, <3>2, <3>3 DEF Receive, NoLateEntry, Calm, TypeOK, Results, session
  <2>2. CASE Calm' /\ Head(buf[r]) # "chunk"
    <3>1. ~AllChunks(buf[r])
      BY <1>4, <2>2 DEF Receive, AllChunks, TypeOK
    <3>2. \A q \in Req : q # r => buf'[q] = buf[q] /\ pc'[q] = pc[q]
      BY <1>4 DEF Receive, Goto, TypeOK
    <3> QED
      BY <1>4, <2>2, <3>1, <3>2 DEF Receive, NoLateEntry, Calm, TypeOK, session
  <2> QED
    BY <2>1, <2>2 DEF NoLateEntry
<1>5. ASSUME NEW r \in Req, ReceiveClosed(r) PROVE NoLateEntry'
  BY <1>5 DEF ReceiveClosed, AfterClose, Goto, NoLateEntry, Calm, Unknown, OneCleanup, ReaderKnows, TypeOK, Results, session, client
<1>6. ASSUME NEW r \in Req, GiveUp(r) PROVE NoLateEntry'
  BY <1>6 DEF GiveUp, Goto, NoLateEntry, Calm, Unknown, OneCleanup, ReaderKnows, TypeOK, Results, session, client
<1>7. ASSUME NEW r \in Req, WatchFires(r) PROVE NoLateEntry'
  BY <1>7 DEF WatchFires, Ended, Take, NoLateEntry, Calm, Unknown, OneCleanup, ReaderKnows, TypeOK, Results, session, client
<1>8. ASSUME NEW r \in Req, EndContext(r) PROVE NoLateEntry'
  BY <1>8 DEF EndContext, NoLateEntry, Calm, Unknown, OneCleanup, ReaderKnows, TypeOK, Results, session, client
<1>9. ASSUME NEW r \in Req, NEW msg \in Message, Read(r, msg) PROVE NoLateEntry'
  BY <1>9 DEF Read, Idle, NoLateEntry, Calm, Unknown, OneCleanup, ReaderKnows, TypeOK, Results, session, client
<1>10. CASE Deliver
  <2> DEFINE r == reader.req
  <2>1. SUFFICES ASSUME Calm' PROVE NoLateEntry'
    BY DEF NoLateEntry
  <2>2. /\ r \in Req /\ r \in pending /\ r \in open /\ pending \subseteq open
        /\ \A q \in pending : pc[q] \notin Results /\ AllChunks(buf[q])
    BY <1>10, <2>1 DEF Deliver, NoLateEntry, Calm, ReaderKnows, TypeOK, session
  <2>3. CASE reader.msg \in Terminal
    <3>1. reader' = [reader EXCEPT !.pc = "finish"]
      BY <1>10, <2>3 DEF Deliver
    <3>2. \A q \in Req : q # r => buf'[q] = buf[q]
      BY <1>10, <2>2 DEF Deliver, Offer, TypeOK
    <3>3. reader'.pc = "finish" /\ reader'.req = r
      BY <3>1 DEF TypeOK
    <3> QED
      BY <1>10, <2>2, <3>2, <3>3 DEF Deliver, NoLateEntry, TypeOK
  <2>4. CASE reader.msg = "chunk"
    <3>1. reader'.pc = "read"
      BY <1>10, <2>4 DEF Deliver, Terminal, Idle
    <3>2. \A q \in Req : buf'[q] = buf[q] \/ buf'[q] = Append(buf[q], "chunk")
      BY <1>10, <2>2, <2>4 DEF Deliver, Offer, TypeOK
    <3>3. ASSUME NEW q \in Req, AllChunks(buf[q]) PROVE AllChunks(buf'[q])
      <4>1. "chunk" \in Message /\ buf[q] \in Seq(Message)
        BY DEF TypeOK, Message
      <4>2. AllChunks(Append(buf[q], "chunk"))
        BY <3>3, <4>1, AppendChunks
      <4> QED
        BY <3>2, <3>3, <4>2
    <3> QED
      BY <1>10, <2>2, <3>1, <3>3 DEF Deliver, NoLateEntry, TypeOK
  <2> QED
    BY <2>3, <2>4 DEF TypeOK, Message
<1>11. CASE Finish
  <2>1. reader'.pc = "read"
    BY <1>11 DEF Finish, Idle
  <2> QED
    BY <1>11, <2>1 DEF Finish, Take, NoLateEntry, Calm, TypeOK, session
<1>12. CASE ReadFails
  BY <1>12 DEF ReadFails, Idle, NoLateEntry, Calm, Unknown, OneCleanup, ReaderKnows, TypeOK, Results, session, client
<1>13. ASSUME NEW r \in Req, Visit(r) PROVE NoLateEntry'
  BY <1>13 DEF Visit, NoLateEntry, Calm, Unknown, OneCleanup, ReaderKnows, TypeOK, Results, session, client
<1>14. CASE Warn
  BY <1>14 DEF Warn, Offer, NoLateEntry, Calm, Unknown, OneCleanup, ReaderKnows, TypeOK, Results, session, client
<1>15. CASE Reset
  BY <1>15 DEF Reset, NoLateEntry, Calm, Unknown, OneCleanup, ReaderKnows, TypeOK, Results, session, client
<1>16. CASE Unlist
  BY <1>16 DEF Unlist, NoLateEntry, Calm, Unknown, OneCleanup, ReaderKnows, TypeOK, Results, session, client
<1>17. CASE Stop
  BY <1>17 DEF Stop, NoLateEntry, Calm, Unknown, OneCleanup, ReaderKnows, TypeOK, Results, session, client
<1>18. CASE Cleanup
  BY <1>18 DEF Cleanup, NoLateEntry, Calm, Unknown, OneCleanup, ReaderKnows, TypeOK, Results, session, client
<1>19. CASE UNCHANGED vars
  BY <1>19 DEF vars, session, client, NoLateEntry, Calm
<1> QED
  BY <1>1, <1>2, <1>3, <1>4, <1>5, <1>6, <1>7, <1>8, <1>9, <1>10,
     <1>11, <1>12, <1>13, <1>14, <1>15, <1>16, <1>17, <1>18, <1>19
     DEF Next, Step, Over, Caller, Reader, Cleaner

LEMMA PanicStep ==
    ASSUME TypeOK, OneCleanup, NoLateEntry, PanicNeedsOverlap, [Next]_vars
    PROVE  PanicNeedsOverlap'
<1>1. ASSUME NEW r \in Req, Begin(r) PROVE PanicNeedsOverlap'
  BY <1>1 DEF Begin, Goto, PanicNeedsOverlap, NoLateEntry, Calm, OneCleanup, TypeOK, session, client
<1>2. ASSUME NEW r \in Req, Load(r) PROVE PanicNeedsOverlap'
  BY <1>2 DEF Load, Refuse, Take, Goto, PanicNeedsOverlap, NoLateEntry, Calm, OneCleanup, TypeOK, session, client
<1>3. ASSUME NEW r \in Req, Write(r) PROVE PanicNeedsOverlap'
  BY <1>3 DEF Write, Refuse, Take, Goto, PanicNeedsOverlap, NoLateEntry, Calm, OneCleanup, TypeOK, session, client
<1>4. ASSUME NEW r \in Req, Receive(r) PROVE PanicNeedsOverlap'
  BY <1>4, ReceiveGoes DEF Receive, PanicNeedsOverlap, NoLateEntry, Calm, OneCleanup, TypeOK, session, client
<1>5. ASSUME NEW r \in Req, ReceiveClosed(r) PROVE PanicNeedsOverlap'
  BY <1>5 DEF ReceiveClosed, AfterClose, Goto, PanicNeedsOverlap, NoLateEntry, Calm, OneCleanup, TypeOK, session, client
<1>6. ASSUME NEW r \in Req, GiveUp(r) PROVE PanicNeedsOverlap'
  BY <1>6 DEF GiveUp, Goto, PanicNeedsOverlap, NoLateEntry, Calm, OneCleanup, TypeOK, session, client
<1>7. ASSUME NEW r \in Req, WatchFires(r) PROVE PanicNeedsOverlap'
  BY <1>7 DEF WatchFires, Take, PanicNeedsOverlap, NoLateEntry, Calm, OneCleanup, TypeOK, session, client
<1>8. ASSUME NEW r \in Req, EndContext(r) PROVE PanicNeedsOverlap'
  BY <1>8 DEF EndContext, PanicNeedsOverlap, NoLateEntry, Calm, OneCleanup, TypeOK, session, client
<1>9. ASSUME NEW r \in Req, NEW msg \in Message, Read(r, msg) PROVE PanicNeedsOverlap'
  BY <1>9 DEF Read, Idle, PanicNeedsOverlap, NoLateEntry, Calm, OneCleanup, TypeOK, session, client
<1>10. CASE Deliver
  BY <1>10 DEF Deliver, Offer, Idle, PanicNeedsOverlap, NoLateEntry, Calm, OneCleanup, TypeOK, session, client
<1>11. CASE Finish
  BY <1>11 DEF Finish, Take, PanicNeedsOverlap, NoLateEntry, Calm, OneCleanup, TypeOK, session, client
<1>12. CASE ReadFails
  BY <1>12 DEF ReadFails, Idle, PanicNeedsOverlap, NoLateEntry, Calm, OneCleanup, TypeOK, session, client
<1>13. ASSUME NEW r \in Req, Visit(r) PROVE PanicNeedsOverlap'
  BY <1>13 DEF Visit, PanicNeedsOverlap, NoLateEntry, Calm, OneCleanup, TypeOK, session, client
<1>14. CASE Warn
  BY <1>14 DEF Warn, Offer, PanicNeedsOverlap, NoLateEntry, Calm, OneCleanup, TypeOK, session, client
<1>15. CASE Reset
  BY <1>15 DEF Reset, PanicNeedsOverlap, NoLateEntry, Calm, OneCleanup, TypeOK, session, client
<1>16. CASE Unlist
  BY <1>16 DEF Unlist, PanicNeedsOverlap, NoLateEntry, Calm, OneCleanup, TypeOK, session, client
<1>17. CASE Stop
  BY <1>17 DEF Stop, PanicNeedsOverlap, NoLateEntry, Calm, OneCleanup, TypeOK, session, client
<1>18. CASE Cleanup
  BY <1>18 DEF Cleanup, PanicNeedsOverlap, NoLateEntry, Calm, OneCleanup, TypeOK, session, client
<1>19. CASE UNCHANGED vars
  BY <1>19 DEF vars, session, client, PanicNeedsOverlap
<1> QED
  BY <1>1, <1>2, <1>3, <1>4, <1>5, <1>6, <1>7, <1>8, <1>9, <1>10,
     <1>11, <1>12, <1>13, <1>14, <1>15, <1>16, <1>17, <1>18, <1>19
     DEF Next, Step, Over, Caller, Reader, Cleaner

-----------------------------------------------------------------------------
(* No chunk is lost unless a message was dropped. *)

LEMMA SuccessStep ==
    ASSUME TypeOK, ~dead, \A q \in Req : Intact(q) => Complete(q), SuccessIsWhole, [Next]_vars,
           NEW p \in Req, pc'[p] = "ok", p \notin behind', ctx'[p] # "left"
    PROVE  p \in ended' /\ got'[p] = sent'[p]
<1>1. ASSUME NEW r \in Req, Begin(r) PROVE p \in ended' /\ got'[p] = sent'[p]
  BY <1>1 DEF Begin, Goto, SuccessIsWhole, TypeOK, Results, session, client
<1>2. ASSUME NEW r \in Req, Load(r) PROVE p \in ended' /\ got'[p] = sent'[p]
  BY <1>2 DEF Load, Refuse, Take, Goto, SuccessIsWhole, TypeOK, Results, session, client
<1>3. ASSUME NEW r \in Req, Write(r) PROVE p \in ended' /\ got'[p] = sent'[p]
  BY <1>3 DEF Write, Refuse, Take, Goto, SuccessIsWhole, TypeOK, Results, session, client
<1>4. ASSUME NEW r \in Req, Receive(r) PROVE p \in ended' /\ got'[p] = sent'[p]
  <2>1. CASE p = r
    <3>1. Head(buf[r]) = "end" /\ got' = got
      <4>1. Head(buf[r]) \in Message
        BY <1>4 DEF Receive, TypeOK
      <4>2. AfterMessage(Head(buf[r])) = "ok"
        BY <1>4, <2>1 DEF Receive, Goto, TypeOK
      <4>3. Head(buf[r]) = "end"
        BY <4>1, <4>2 DEF AfterMessage, Message, Terminal
      <4> QED
        BY <1>4, <4>3 DEF Receive, TypeOK
    <3>2. 1 \in 1 .. Len(buf[r]) /\ EndsAt(buf[r], 1)
      BY <1>4, <3>1 DEF Receive, EndsAt, TypeOK
    <3>3. Intact(r)
      BY <1>4, <2>1 DEF Receive, Intact, Results
    <3>4. r \in ended /\ sent[r] = got[r] + 1 - 1
      BY <3>2, <3>3 DEF Complete
    <3> QED
      BY <1>4, <2>1, <3>1, <3>4 DEF Receive, TypeOK, client
  <2>2. CASE p # r
    <3>1. pc'[p] = pc[p] /\ got'[p] = got[p]
      BY <1>4, <2>2 DEF Receive, Goto, TypeOK
    <3> QED
      BY <1>4, <3>1 DEF Receive, SuccessIsWhole, client
  <2> QED
    BY <2>1, <2>2
<1>5. ASSUME NEW r \in Req, ReceiveClosed(r) PROVE p \in ended' /\ got'[p] = sent'[p]
  <2>1. CASE p = r
    <3>1. Intact(r)
      BY <1>5, <2>1 DEF ReceiveClosed, Intact, Results
    <3>2. r \in open
      BY <1>5, <3>1, NoChunks DEF ReceiveClosed, Complete
    <3> QED
      BY <1>5, <3>2 DEF ReceiveClosed
  <2>2. CASE p # r
    BY <1>5, <2>2 DEF ReceiveClosed, Goto, SuccessIsWhole, TypeOK, client
  <2> QED
    BY <2>1, <2>2
<1>6. ASSUME NEW r \in Req, GiveUp(r) PROVE p \in ended' /\ got'[p] = sent'[p]
  BY <1>6 DEF GiveUp, Goto, SuccessIsWhole, TypeOK, Results, session, client
<1>7. ASSUME NEW r \in Req, WatchFires(r) PROVE p \in ended' /\ got'[p] = sent'[p]
  BY <1>7 DEF WatchFires, Take, SuccessIsWhole, TypeOK, Results, session, client
<1>8. ASSUME NEW r \in Req, EndContext(r) PROVE p \in ended' /\ got'[p] = sent'[p]
  BY <1>8 DEF EndContext, SuccessIsWhole, TypeOK, Results, session, client
<1>9. ASSUME NEW r \in Req, NEW msg \in Message, Read(r, msg) PROVE p \in ended' /\ got'[p] = sent'[p]
  BY <1>9 DEF Read, Idle, SuccessIsWhole, TypeOK, Results, session, client
<1>10. CASE Deliver
  BY <1>10 DEF Deliver, Offer, Idle, SuccessIsWhole, TypeOK, Results, session, client
<1>11. CASE Finish
  BY <1>11 DEF Finish, Take, SuccessIsWhole, TypeOK, Results, session, client
<1>12. CASE ReadFails
  BY <1>12 DEF ReadFails, Idle, SuccessIsWhole, TypeOK, Results, session, client
<1>13. ASSUME NEW r \in Req, Visit(r) PROVE p \in ended' /\ got'[p] = sent'[p]
  BY <1>13 DEF Visit, SuccessIsWhole, TypeOK, Results, session, client
<1>14. CASE Warn
  BY <1>14 DEF Warn, Offer, SuccessIsWhole, TypeOK, Results, session, client
<1>15. CASE Reset
  BY <1>15 DEF Reset, SuccessIsWhole, TypeOK, Results, session, client
<1>16. CASE Unlist
  BY <1>16 DEF Unlist, SuccessIsWhole, TypeOK, Results, session, client
<1>17. CASE Stop
  BY <1>17 DEF Stop, SuccessIsWhole, TypeOK, Results, session, client
<1>18. CASE Cleanup
  BY <1>18 DEF Cleanup, SuccessIsWhole, TypeOK, Results, session, client
<1>19. CASE UNCHANGED vars
  BY <1>19 DEF vars, session, client, SuccessIsWhole
<1> QED
  BY <1>1, <1>2, <1>3, <1>4, <1>5, <1>6, <1>7, <1>8, <1>9, <1>10,
     <1>11, <1>12, <1>13, <1>14, <1>15, <1>16, <1>17, <1>18, <1>19
     DEF Next, Step, Over, Caller, Reader, Cleaner

LEMMA IntactBefore ==
    ASSUME TypeOK, [Next]_vars, NEW p \in Req, Intact(p)'
    PROVE  Intact(p)
<1>1. ASSUME NEW r \in Req, Begin(r) PROVE Intact(p)
  BY <1>1 DEF Begin, Goto, Intact, TypeOK, Results, session, client
<1>2. ASSUME NEW r \in Req, Load(r) PROVE Intact(p)
  BY <1>2 DEF Load, Refuse, Take, Goto, Intact, TypeOK, Results, session, client
<1>3. ASSUME NEW r \in Req, Write(r) PROVE Intact(p)
  BY <1>3 DEF Write, Refuse, Take, Goto, Intact, TypeOK, Results, session, client
<1>4. ASSUME NEW r \in Req, Receive(r) PROVE Intact(p)
  <2>1. pc[r] \notin Results
    BY <1>4 DEF Receive, Results
  <2>2. p # r => pc'[p] = pc[p]
    BY <1>4 DEF Receive, Goto, TypeOK
  <2> QED
    BY <1>4, <2>1, <2>2 DEF Receive, Intact
<1>5. ASSUME NEW r \in Req, ReceiveClosed(r) PROVE Intact(p)
  BY <1>5 DEF ReceiveClosed, AfterClose, Goto, Intact, TypeOK, Results, session, client
<1>6. ASSUME NEW r \in Req, GiveUp(r) PROVE Intact(p)
  BY <1>6 DEF GiveUp, Goto, Intact, TypeOK, Results, session, client
<1>7. ASSUME NEW r \in Req, WatchFires(r) PROVE Intact(p)
  BY <1>7 DEF WatchFires, Take, Intact, TypeOK, Results, session, client
<1>8. ASSUME NEW r \in Req, EndContext(r) PROVE Intact(p)
  BY <1>8 DEF EndContext, Intact, TypeOK, Results, session, client
<1>9. ASSUME NEW r \in Req, NEW msg \in Message, Read(r, msg) PROVE Intact(p)
  BY <1>9 DEF Read, Idle, Intact, TypeOK, Results, session, client
<1>10. CASE Deliver
  BY <1>10 DEF Deliver, Offer, Idle, Intact, TypeOK, Results, session, client
<1>11. CASE Finish
  BY <1>11 DEF Finish, Take, Intact, TypeOK, Results, session, client
<1>12. CASE ReadFails
  BY <1>12 DEF ReadFails, Idle, Intact, TypeOK, Results, session, client
<1>13. ASSUME NEW r \in Req, Visit(r) PROVE Intact(p)
  BY <1>13 DEF Visit, Intact, TypeOK, Results, session, client
<1>14. CASE Warn
  BY <1>14 DEF Warn, Offer, Intact, TypeOK, Results, session, client
<1>15. CASE Reset
  BY <1>15 DEF Reset, Intact, TypeOK, Results, session, client
<1>16. CASE Unlist
  BY <1>16 DEF Unlist, Intact, TypeOK, Results, session, client
<1>17. CASE Stop
  BY <1>17 DEF Stop, Intact, TypeOK, Results, session, client
<1>18. CASE Cleanup
  BY <1>18 DEF Cleanup, Intact, TypeOK, Results, session, client
<1>19. CASE UNCHANGED vars
  BY <1>19 DEF vars, session, client, Intact
<1> QED
  BY <1>1, <1>2, <1>3, <1>4, <1>5, <1>6, <1>7, <1>8, <1>9, <1>10,
     <1>11, <1>12, <1>13, <1>14, <1>15, <1>16, <1>17, <1>18, <1>19
     DEF Next, Step, Over, Caller, Reader, Cleaner

LEMMA CompleteStep ==
    ASSUME TypeOK, OneCleanup, ReaderKnows, [Next]_vars,
           NEW p \in Req, Covered(p), Unknown(p), Intact(p), Complete(p), Intact(p)'
    PROVE  Complete(p)'
<1>1. ASSUME NEW r \in Req, Begin(r) PROVE Complete(p)'
  BY <1>1 DEF Begin, Goto, InHand, Complete, Intact, Unknown, TypeOK, session, client
<1>2. ASSUME NEW r \in Req, Load(r) PROVE Complete(p)'
  <2>1. UNCHANGED <<buf, reader, sent, ended, got>>
    BY <1>2 DEF Load, client
  <2>2. CASE p = r
    <3>1. pc'[p] \notin Results
      BY DEF Intact
    <3>2. ~Refuse(r)
      BY <1>2, <2>2, <3>1 DEF Load, Refuse, Goto, TypeOK, Results
    <3>3. UNCHANGED <<open, pending>> /\ (pc[p] = "load" => p \in pending)
      BY <1>2, <2>2, <3>2 DEF Load
    <3> QED
      BY <1>2, <2>1, <2>2, <3>3 DEF Load, Complete, InHand
  <2>3. CASE p # r
    <3>1. /\ pc'[p] = pc[p]
          /\ p \in open' <=> p \in open
          /\ p \in pending' <=> p \in pending
      BY <1>2, <2>3 DEF Load, Refuse, Take, Goto, TypeOK
    <3> QED
      BY <2>1, <3>1 DEF Complete, InHand
  <2> QED
    BY <2>2, <2>3
<1>3. ASSUME NEW r \in Req, Write(r) PROVE Complete(p)'
  <2>1. UNCHANGED <<buf, reader, sent, ended, got>>
    BY <1>3 DEF Write, client
  <2>2. CASE p = r
    <3>1. pc'[p] \notin Results
      BY DEF Intact
    <3>2. ~Refuse(r)
      BY <1>3, <2>2, <3>1 DEF Write, Refuse, Goto, TypeOK, Results
    <3>3. UNCHANGED <<open, pending>> /\ (pc[p] = "load" => p \in pending)
      BY <1>3, <2>2, <3>2 DEF Write
    <3> QED
      BY <1>3, <2>1, <2>2, <3>3 DEF Write, Complete, InHand
  <2>3. CASE p # r
    <3>1. /\ pc'[p] = pc[p]
          /\ p \in open' <=> p \in open
          /\ p \in pending' <=> p \in pending
      BY <1>3, <2>3 DEF Write, Refuse, Take, Goto, TypeOK
    <3> QED
      BY <2>1, <3>1 DEF Complete, InHand
  <2> QED
    BY <2>2, <2>3
<1>4. ASSUME NEW r \in Req, Receive(r) PROVE Complete(p)'
  <2>1. CASE p = r
    <3>1. Head(buf[r]) = "chunk"
      <4>1. Head(buf[r]) \in Message
        BY <1>4 DEF Receive, TypeOK
      <4>2. AfterMessage(Head(buf[r])) \notin Results
        BY <1>4, <2>1 DEF Receive, Goto, Intact, TypeOK
      <4> QED
        BY <4>1, <4>2 DEF AfterMessage, Message, Terminal, Results
    <3>2. /\ buf'[r] = Tail(buf[r]) /\ got'[r] = got[r] + 1 /\ pc'[r] = "wait"
          /\ pc[r] = "wait" /\ buf[r] # << >> /\ buf[r] \in Seq(Message)
      BY <1>4, <3>1 DEF Receive, Goto, AfterMessage, TypeOK
    <3>3. Len(buf'[r]) = Len(buf[r]) - 1 /\ Len(buf[r]) \in Nat /\ got[r] \in Nat
      BY <3>2 DEF TypeOK
    <3>4. AllChunks(buf'[r]) <=> AllChunks(buf[r])
      BY <3>1, <3>2, TailChunks
    <3>5. UNCHANGED <<open, pending, reader, sent, ended>>
      BY <1>4 DEF Receive, client
    <3>6. AllChunks(buf'[r]) =>
             /\ r \in open' /\ r \in pending'
             /\ reader'.pc = "finish" => reader'.req # r
             /\ sent'[r] = got'[r] + Len(buf'[r]) + InHand(r)'
      BY <2>1, <3>2, <3>3, <3>4, <3>5 DEF Complete, InHand
    <3>7. ASSUME NEW i \in 1 .. Len(buf'[r]), EndsAt(buf'[r], i)
          PROVE  r \in ended' /\ sent'[r] = got'[r] + i - 1
      <4>1. i + 1 \in 1 .. Len(buf[r]) /\ EndsAt(buf[r], i + 1)
        BY <3>1, <3>2, <3>7, TailEnd
      <4>2. r \in ended /\ sent[r] = got[r] + (i + 1) - 1
        BY <2>1, <4>1 DEF Complete
      <4> QED
        BY <3>2, <3>3, <3>5, <4>2
    <3> QED
      BY <2>1, <3>6, <3>7 DEF Complete
  <2>2. CASE p # r
    <3>1. buf'[p] = buf[p] /\ pc'[p] = pc[p] /\ got'[p] = got[p]
      BY <1>4, <2>2 DEF Receive, Goto, TypeOK
    <3> QED
      BY <1>4, <3>1 DEF Receive, Complete, InHand, client
  <2> QED
    BY <2>1, <2>2
<1>5. ASSUME NEW r \in Req, ReceiveClosed(r) PROVE Complete(p)'
  BY <1>5 DEF ReceiveClosed, AfterClose, Goto, InHand, Complete, Intact, Unknown, TypeOK, session, client
<1>6. ASSUME NEW r \in Req, GiveUp(r) PROVE Complete(p)'
  BY <1>6 DEF GiveUp, Goto, InHand, Complete, Intact, Unknown, TypeOK, session, client
<1>7. ASSUME NEW r \in Req, WatchFires(r) PROVE Complete(p)'
  BY <1>7 DEF WatchFires, Ended, Results, Take, InHand, Complete, Intact, Unknown, TypeOK, session, client
<1>8. ASSUME NEW r \in Req, EndContext(r) PROVE Complete(p)'
  BY <1>8 DEF EndContext, InHand, Complete, Intact, Unknown, TypeOK, session, client
<1>9. ASSUME NEW r \in Req, NEW msg \in Message, Read(r, msg) PROVE Complete(p)'
  <2>1. UNCHANGED <<buf, pc, open, pending, got>> /\ reader.pc = "read"
    BY <1>9 DEF Read
  <2>2. CASE p = r
    <3>1. pc[p] = "wait"
      BY <1>9, <2>2 DEF Read, Unknown, Intact, Results, TypeOK
    <3>2. reader'.pc # "finish" /\ (p \in pending => reader' = [pc |-> "found", req |-> r, msg |-> msg])
      BY <1>9, <2>2 DEF Read, Idle
    <3>3. CASE p \notin ended /\ msg = "chunk" /\ sent' = [sent EXCEPT ![r] = @ + 1] /\ UNCHANGED ended
      <4>1. sent'[p] = sent[p] + 1 /\ sent[p] \in Nat /\ got[p] \in Nat /\ Len(buf[p]) \in Nat
        BY <2>2, <3>3 DEF TypeOK
      <4>2. p \in pending => InHand(p)' = 1 /\ InHand(p) = 0
        BY <2>1, <2>2, <3>2, <3>3 DEF InHand
      <4> QED
        BY <2>1, <3>1, <3>2, <3>3, <4>1, <4>2 DEF Complete
    <3>4. CASE msg # "chunk" /\ UNCHANGED sent /\ ended \subseteq ended'
      <4>1. InHand(p) = 0 /\ InHand(p)' = 0
        BY <1>9, <2>1, <3>4 DEF InHand, Read, Idle
      <4> QED
        BY <2>1, <3>2, <3>4, <4>1 DEF Complete
    <3> QED
      BY <1>9, <2>2, <3>3, <3>4 DEF Read, Terminal, client
  <2>3. CASE p # r
    <3>1. sent'[p] = sent[p] /\ (p \in ended' <=> p \in ended)
      BY <1>9, <2>3 DEF Read, TypeOK, client
    <3>2. InHand(p) = 0 /\ InHand(p)' = 0 /\ reader'.pc # "finish"
      BY <1>9, <2>1, <2>3 DEF InHand, Read, Idle
    <3> QED
      BY <2>1, <3>1, <3>2 DEF Complete
  <2> QED
    BY <2>2, <2>3
<1>10. CASE Deliver
  <2> DEFINE r == reader.req
  <2>0. r \in Req /\ reader.msg \in Message /\ reader.pc = "found"
    BY <1>10 DEF Deliver, TypeOK
  <2>1. UNCHANGED <<pending, open, pc, got, sent, ended>>
    BY <1>10 DEF Deliver, client
  <2>2. reader'.pc = "finish" => reader'.req = r /\ reader.msg \in Terminal
    BY <1>10 DEF Deliver, Idle, TypeOK
  <2>3. reader'.pc # "found"
    BY <1>10 DEF Deliver, Idle, TypeOK
  <2>4. CASE p = r
    <3>1. buf'[p] = Append(buf[p], reader.msg) /\ buf[p] \in Seq(Message)
      BY <1>10, <2>0, <2>4 DEF Deliver, Offer, Intact, TypeOK
    <3>2. Len(buf'[p]) = Len(buf[p]) + 1 /\ Len(buf[p]) \in Nat /\ got[p] \in Nat
      BY <3>1 DEF TypeOK
    <3>3. AllChunks(buf'[p]) => reader.msg = "chunk" /\ AllChunks(buf[p])
      BY <2>0, <3>1, AppendChunks
    <3>4. ASSUME AllChunks(buf'[p])
          PROVE  /\ p \in open' /\ (pc'[p] \in {"write", "wait"} => p \in pending')
                 /\ reader'.pc # "finish"
                 /\ sent'[p] = got'[p] + Len(buf'[p]) + InHand(p)'
      BY <2>0, <2>1, <2>2, <2>3, <2>4, <3>2, <3>3, <3>4 DEF Complete, InHand, Terminal
    <3>5. ASSUME NEW i \in 1 .. Len(buf'[p]), EndsAt(buf'[p], i)
          PROVE  p \in ended' /\ sent'[p] = got'[p] + i - 1
      <4>1. \/ i \in 1 .. Len(buf[p]) /\ EndsAt(buf[p], i)
            \/ i = Len(buf[p]) + 1 /\ reader.msg = "end" /\ AllChunks(buf[p])
        BY <2>0, <3>1, <3>2, <3>5, AppendEnd
      <4>2. CASE i \in 1 .. Len(buf[p]) /\ EndsAt(buf[p], i)
        BY <2>1, <4>2 DEF Complete
      <4>3. CASE i = Len(buf[p]) + 1 /\ reader.msg = "end" /\ AllChunks(buf[p])
        <5>1. p \in ended
          BY <2>0, <2>4, <4>3 DEF ReaderKnows, Terminal
        <5>2. sent[p] = got[p] + Len(buf[p])
          BY <3>2, <4>3 DEF Complete, InHand
        <5> QED
          BY <2>1, <3>2, <4>3, <5>1, <5>2
      <4> QED
        BY <4>1, <4>2, <4>3
    <3> QED
      BY <3>4, <3>5 DEF Complete
  <2>5. CASE p # r
    <3>1. buf'[p] = buf[p]
      BY <1>10, <2>0, <2>5 DEF Deliver, Offer, TypeOK
    <3> QED
      BY <2>1, <2>2, <2>3, <2>5, <3>1 DEF Complete, InHand
  <2> QED
    BY <2>4, <2>5
<1>11. CASE Finish
  <2>1. /\ UNCHANGED <<buf, pc, sent, ended, got>>
        /\ reader.pc = "finish" /\ reader'.pc = "read"
    BY <1>11 DEF Finish, Idle, client
  <2>2. p # reader.req =>
           (p \in open' <=> p \in open) /\ (p \in pending' <=> p \in pending)
    BY <1>11 DEF Finish, Take
  <2> QED
    BY <2>1, <2>2 DEF Complete, InHand
<1>12. CASE ReadFails
  BY <1>12 DEF ReadFails, Idle, InHand, Complete, Intact, Unknown, TypeOK, session, client
<1>13. ASSUME NEW r \in Req, Visit(r) PROVE Complete(p)'
  BY <1>13 DEF Visit, InHand, Complete, Intact, Unknown, TypeOK, session, client
<1>14. CASE Warn
  <2>0. cleaner.req \in Req /\ "error" \in Message
    BY <1>14 DEF Warn, TypeOK, Message, Terminal
  <2>1. UNCHANGED <<pending, pc, got, sent, ended, reader>>
    BY <1>14 DEF Warn, client
  <2>2. CASE p = cleaner.req
    <3>1. buf'[p] = Append(buf[p], "error") /\ buf[p] \in Seq(Message)
      BY <1>14, <2>0, <2>2 DEF Warn, Offer, Intact, TypeOK
    <3>2. Len(buf'[p]) = Len(buf[p]) + 1 /\ Len(buf[p]) \in Nat
      BY <3>1
    <3>3. ~AllChunks(buf'[p])
      BY <2>0, <3>1, AppendChunks
    <3>4. ASSUME NEW i \in 1 .. Len(buf'[p]), EndsAt(buf'[p], i)
          PROVE  p \in ended' /\ sent'[p] = got'[p] + i - 1
      <4>1. i \in 1 .. Len(buf[p]) /\ EndsAt(buf[p], i)
        BY <2>0, <3>1, <3>2, <3>4, AppendEnd
      <4> QED
        BY <2>1, <4>1 DEF Complete
    <3> QED
      BY <3>3, <3>4 DEF Complete
  <2>3. CASE p # cleaner.req
    <3>1. buf'[p] = buf[p] /\ (p \in open' <=> p \in open)
      BY <1>14, <2>0, <2>3 DEF Warn, Offer, TypeOK
    <3> QED
      BY <2>1, <3>1 DEF Complete, InHand
  <2> QED
    BY <2>2, <2>3
<1>15. CASE Reset
  <2>1. UNCHANGED <<buf, open, pc, reader, sent, ended, got>>
    BY <1>15 DEF Reset, client
  <2>2. ~(pc[p] \in {"write", "wait"} /\ p \in open)
    BY <1>15 DEF Reset, Covered, OneCleanup
  <2> QED
    BY <2>1, <2>2 DEF Complete, InHand
<1>16. CASE Unlist
  BY <1>16 DEF Unlist, InHand, Complete, Intact, Unknown, TypeOK, session, client
<1>17. CASE Stop
  BY <1>17 DEF Stop, InHand, Complete, Intact, Unknown, TypeOK, session, client
<1>18. CASE Cleanup
  BY <1>18 DEF Cleanup, InHand, Complete, Intact, Unknown, TypeOK, session, client
<1>19. CASE UNCHANGED vars
  BY <1>19 DEF vars, session, client, Complete, InHand
<1> QED
  BY <1>1, <1>2, <1>3, <1>4, <1>5, <1>6, <1>7, <1>8, <1>9, <1>10,
     <1>11, <1>12, <1>13, <1>14, <1>15, <1>16, <1>17, <1>18, <1>19
     DEF Next, Step, Over, Caller, Reader, Cleaner

-----------------------------------------------------------------------------
(* The invariant and what it implies. *)

LEMMA InvInit == Init => IInv
<1> SUFFICES ASSUME Init PROVE IInv
  OBVIOUS
<1>1. TypeOK
  BY TypeInit
<1>2. OneCleanup /\ ReaderKnows /\ NoLateEntry /\ PanicNeedsOverlap /\ SuccessIsWhole
  BY DEF Init, Idle, OneCleanup, ReaderKnows, NoLateEntry, Calm, PanicNeedsOverlap,
         SuccessIsWhole
<1>3. ASSUME NEW r \in Req PROVE Covered(r) /\ Unknown(r)
  BY DEF Init, Covered, Unknown
<1>4. ASSUME NEW r \in Req PROVE Complete(r)
  BY DEF Init, Idle, Complete, InHand
<1> QED
  BY <1>1, <1>2, <1>3, <1>4 DEF IInv

LEMMA InvStep == IInv /\ [Next]_vars => IInv'
<1> SUFFICES ASSUME IInv, [Next]_vars PROVE IInv'
  OBVIOUS
<1>1. TypeOK' /\ OneCleanup' /\ ReaderKnows'
  BY TypeStep, OneCleanupStep, ReaderKnowsStep DEF IInv
<1>2. ASSUME NEW p \in Req PROVE Covered(p)' /\ Unknown(p)'
  BY CoveredStep, UnknownStep DEF IInv
<1>3. NoLateEntry' /\ PanicNeedsOverlap'
  BY NoLateEntryStep, PanicStep DEF IInv
<1>4. ASSUME NEW p \in Req, Intact(p)' PROVE Complete(p)'
  <2>1. Intact(p)
    BY <1>4, IntactBefore DEF IInv
  <2> QED
    BY <1>4, <2>1, CompleteStep DEF IInv
<1>5. SuccessIsWhole'
  <2>1. CASE ~dead
    BY <2>1, SuccessStep DEF IInv, SuccessIsWhole
  <2>2. CASE dead
    <3>1. UNCHANGED vars
      BY <2>2 DEF Next, Over
    <3> QED
      BY <3>1 DEF IInv, SuccessIsWhole, vars, client
  <2> QED
    BY <2>1, <2>2
<1> QED
  BY <1>1, <1>2, <1>3, <1>4, <1>5 DEF IInv

\* The inductive invariant of WsRelay.
THEOREM Invariant == Spec => []IInv
<1>1. Init => IInv
  BY InvInit
<1>2. IInv /\ [Next]_vars => IInv'
  BY InvStep
<1> QED
  BY <1>1, <1>2, PTL DEF Spec

\* Whoever waits for an answer, the cleanup will find (session.go:165).
THEOREM NoWaiterForgottenHolds == Spec => []NoWaiterForgotten
<1>1. IInv => NoWaiterForgotten
  BY DEF IInv, Covered, NoWaiterForgotten
<1> QED
  BY <1>1, Invariant, PTL

\* Without a client that leaves and without a cleanup, nothing sends to a
\* closed channel (session.go:109).
THEOREM PanicNeedsOverlapHolds == Spec => []PanicNeedsOverlap
<1>1. IInv => PanicNeedsOverlap
  BY DEF IInv
<1> QED
  BY <1>1, Invariant, PTL

\* An answer that counts as complete lacks nothing, for every length of it
\* and every capacity of the channels (http.go:65).
THEOREM SuccessIsWholeHolds == Spec => []SuccessIsWhole
<1>1. IInv => SuccessIsWhole
  BY DEF IInv
<1> QED
  BY <1>1, Invariant, PTL

=============================================================================
