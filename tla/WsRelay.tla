------------------------------ MODULE WsRelay ------------------------------
(***************************************************************************)
(* One websocket session of the relay and the requests it carries          *)
(* (internal/wsrelay): the goroutine that reads from the connection and    *)
(* dispatches, the one cleanup a session ever runs, whoever starts it, the *)
(* callers of Manager.Send with the goroutine that watches each context,   *)
(* and the consumers NonStream and Stream.                                 *)
(*                                                                         *)
(* A request's channel is closed by whoever takes its entry out of the     *)
(* pending map, and by cleanup for the entries it visits.  A send to a     *)
(* closed channel panics, also inside a select with a default case; in     *)
(* dispatch and cleanup nothing recovers it, and the process ends.         *)
(* Provider names are random per session (providerFactory is nil in the    *)
(* service), so that no session ever replaces another one.                 *)
(*                                                                         *)
(* Every access to the pending map is one step here.  The operations of a  *)
(* sync.Map are, but cleanup assigns a new map to the field without a lock *)
(* (session.go:182): what a torn read of it might do is left out.          *)
(***************************************************************************)
EXTENDS Naturals, Sequences

CONSTANTS
    Req,         \* requests for this provider
    Cap,         \* capacity of a request's channel: 8 in the code
    Chunks,      \* bound: the chunks of each request's answer
    NoReq        \* no request

ASSUME RelayAssumption == Cap \in Nat /\ Chunks \in [Req -> Nat] /\ NoReq \notin Req

VARIABLES
    listed,    \* the session is in Manager.sessions
    conn,      \* "up", or "closed" by cleanup
    closed,    \* the channel session.closed is closed
    pending,   \* keys of session.pending
    buf,       \* what each request's channel holds
    open,      \* requests whose channel has not been closed
    pc,        \* of the callers
    watch,     \* of the goroutine watching each context: "off", "armed"
               \* or "gone"
    reader,    \* [pc, req, msg] of session.run
    cleaner,   \* [pc, req, seen, todo] of session.cleanup
    sent,      \* chunks the client has sent for each request
    ended,     \* requests whose answer the client has ended
    got,       \* chunks each consumer has received
    ctx,       \* of each request: "live", or "left" (its client went away)
    behind,    \* history: requests that had a message dropped
    dead       \* the process has panicked

session == <<listed, conn, closed>>
client == <<sent, ended>>
vars == <<session, pending, buf, open, pc, watch, reader, cleaner, client,
          got, ctx, behind, dead>>

\* An http_response is an "end" to both consumers.
Terminal == {"end", "error"}
Message == Terminal \cup {"chunk"}
Results == {"ok", "failed"}
Idle == [pc |-> "read", req |-> NoReq, msg |-> "chunk"]

Init ==
    /\ listed = TRUE /\ conn = "up" /\ closed = FALSE
    /\ pending = {} /\ open = Req
    /\ buf = [r \in Req |-> << >>]
    /\ pc = [r \in Req |-> "idle"]
    /\ watch = [r \in Req |-> "off"]
    /\ reader = Idle
    /\ cleaner = [pc |-> "off", req |-> NoReq, seen |-> {}, todo |-> {}]
    /\ sent = [r \in Req |-> 0] /\ ended = {}
    /\ got = [r \in Req |-> 0]
    /\ ctx = [r \in Req |-> "live"] /\ behind = {} /\ dead = FALSE

Goto(r, l) == pc' = [pc EXCEPT ![r] = l]
Ended(r) == pc[r] \in Results

\* Mutant of Take: the entry is loaded, and stays in the map.
TakeLoad(r) ==
    /\ open' = IF r \in pending THEN open \ {r} ELSE open
    /\ UNCHANGED pending

\* LoadAndDelete, and close by the one who got the entry.  Nothing looks at
\* the entry between the two.
Take(r) ==
    /\ open' = IF r \in pending THEN open \ {r} ELSE open
    /\ pending' = pending \ {r}

\* select { case req.ch <- msg: default: }
Offer(r, msg) ==
    IF r \notin open
    THEN dead' = TRUE /\ UNCHANGED <<buf, behind>>
    ELSE /\ IF Len(buf[r]) < Cap
            THEN buf' = [buf EXCEPT ![r] = Append(@, msg)] /\ UNCHANGED behind
            ELSE behind' = behind \cup {r} /\ UNCHANGED buf
         /\ UNCHANGED dead

-----------------------------------------------------------------------------
(* Callers: Manager.Send and session.request. *)

\* Manager.session finds the session, and LoadOrStore adds the entry under a
\* fresh message id.
Begin(r) ==
    /\ pc[r] = "idle"
    /\ \/ /\ listed
          /\ pending' = pending \cup {r}
          /\ Goto(r, "load")
       \/ /\ ~listed
          /\ Goto(r, "failed")
          /\ UNCHANGED pending
    /\ UNCHANGED <<session, buf, open, watch, reader, cleaner, client, got, ctx,
                   behind, dead>>

\* request returns an error and takes its entry back.
Refuse(r) ==
    /\ Take(r)
    /\ Goto(r, "failed")
    /\ UNCHANGED watch

\* The entry is loaded again, and send looks at session.closed.  When cleanup
\* has replaced the map in between, the assertion on the entry's type panics.
\* In the goroutine of a handler the HTTP server recovers this panic; in the one that
\* retries a stream (ExecuteStreamWithAuthManager) nothing does, and the process ends.
\* The model has the first outcome only: the request fails.
Load(r) ==
    /\ pc[r] = "load"
    /\ \/ /\ r \in pending /\ ~closed
          /\ Goto(r, "write")
          /\ UNCHANGED <<open, pending, watch>>
       \/ /\ r \notin pending \/ closed
          /\ Refuse(r)
    /\ UNCHANGED <<session, buf, reader, cleaner, client, got, ctx, behind, dead>>

\* WriteJSON; it fails once the connection is closed, and may fail before.
Write(r) ==
    /\ pc[r] = "write"
    /\ \/ /\ conn = "up"
          /\ Goto(r, "wait")
          /\ watch' = [watch EXCEPT ![r] = "armed"]
          /\ UNCHANGED <<open, pending>>
       \/ Refuse(r)
    /\ UNCHANGED <<session, buf, reader, cleaner, client, got, ctx, behind, dead>>

\* The client of a request goes away before it has its answer.
EndContext(r) ==
    /\ watch[r] = "armed" /\ ctx[r] = "live" /\ pc[r] = "wait"
    /\ ctx' = [ctx EXCEPT ![r] = "left"]
    /\ UNCHANGED <<session, pending, buf, open, pc, watch, reader, cleaner,
                   client, got, behind, dead>>

\* The goroutine of request that waits for the context, which ends with its
\* client or with its handler; it may also leave once the session is closed,
\* and then takes nothing.
WatchFires(r) ==
    /\ watch[r] = "armed" /\ (ctx[r] = "left" \/ Ended(r))
    /\ Take(r)
    /\ watch' = [watch EXCEPT ![r] = "gone"]
    /\ UNCHANGED <<session, buf, pc, reader, cleaner, client, got, ctx, behind,
                   dead>>

-----------------------------------------------------------------------------
(* Consumers: the loops of NonStream and Stream. *)

\* What the next message means to NonStream; Stream forwards it and ends on
\* the same ones.
AfterMessage(msg) ==
    CASE msg = "chunk" -> "wait"
      [] msg = "error" -> "failed"
      [] msg = "end"   -> "ok"

\* A closed channel: NonStream returns what it has once it has seen a chunk,
\* and otherwise an error.  The other disjunct is Stream: "stream closed".
AfterClose(r) == IF got[r] > 0 THEN {"ok", "failed"} ELSE {"failed"}

\* What nobody will read any more is forgotten.
Receive(r) ==
    /\ pc[r] = "wait" /\ buf[r] # << >>
    /\ buf' = [buf EXCEPT ![r] = IF Head(@) = "chunk" THEN Tail(@) ELSE << >>]
    /\ got' = [got EXCEPT ![r] = IF Head(buf[r]) = "chunk" THEN @ + 1 ELSE @]
    /\ Goto(r, AfterMessage(Head(buf[r])))
    /\ UNCHANGED <<session, pending, open, watch, reader, cleaner, client,
                   ctx, behind, dead>>

ReceiveClosed(r) ==
    /\ pc[r] = "wait" /\ buf[r] = << >> /\ r \notin open
    /\ \E res \in AfterClose(r) : Goto(r, res)
    /\ UNCHANGED <<session, pending, buf, open, watch, reader, cleaner, client,
                   got, ctx, behind, dead>>

\* <-ctx.Done() in the select of the consumer.
GiveUp(r) ==
    /\ pc[r] = "wait" /\ ctx[r] = "left"
    /\ Goto(r, "failed")
    /\ buf' = [buf EXCEPT ![r] = << >>]
    /\ UNCHANGED <<session, pending, open, watch, reader, cleaner, client, got,
                   ctx, behind, dead>>

-----------------------------------------------------------------------------
(* session.run and dispatch. *)

\* ReadJSON and pending.Load.  The client answers a request with chunks and a
\* terminal message, and may send one more terminal message for it (a message
\* without an entry is ignored).
Read(r, msg) ==
    /\ reader.pc = "read" /\ conn = "up"
    /\ watch[r] # "off"
    /\ \/ /\ r \notin ended
          /\ \/ /\ msg = "chunk" /\ sent[r] < Chunks[r]
                /\ sent' = [sent EXCEPT ![r] = @ + 1]
                /\ UNCHANGED ended
             \/ /\ msg \in Terminal
                /\ ended' = ended \cup {r}
                /\ UNCHANGED sent
       \/ /\ r \in ended /\ msg = "error"
          /\ UNCHANGED client
    /\ reader' = IF r \in pending THEN [pc |-> "found", req |-> r, msg |-> msg] ELSE Idle
    /\ UNCHANGED <<session, pending, buf, open, pc, watch, cleaner, got,
                   ctx, behind, dead>>

\* The send of dispatch.
Deliver ==
    /\ reader.pc = "found"
    /\ Offer(reader.req, reader.msg)
    /\ reader' = IF reader.msg \in Terminal THEN [reader EXCEPT !.pc = "finish"] ELSE Idle
    /\ UNCHANGED <<session, pending, open, pc, watch, cleaner, client, got,
                   ctx>>

\* The entry is taken after a terminal message.
Finish ==
    /\ reader.pc = "finish"
    /\ Take(reader.req)
    /\ reader' = Idle
    /\ UNCHANGED <<session, buf, pc, watch, cleaner, client, got, ctx, behind,
                   dead>>

\* ReadJSON fails: the client has gone, is silent for too long, or the
\* connection was closed here.  run calls cleanup and waits for its end.
ReadFails ==
    /\ reader.pc = "read"
    /\ reader' = [Idle EXCEPT !.pc = "gone"]
    /\ UNCHANGED <<session, pending, buf, open, pc, watch, cleaner, client, got,
                   ctx, behind, dead>>

-----------------------------------------------------------------------------
(* session.cleanup: started by the reader, by a failed heartbeat or by
   Manager.Stop, and run once. *)

\* Manager.Stop empties the map of sessions before it cleans them up.
Stop ==
    /\ listed /\ cleaner.pc = "off"
    /\ listed' = FALSE
    /\ UNCHANGED <<conn, closed, pending, buf, open, pc, watch, reader, cleaner,
                   client, got, ctx, behind, dead>>

\* A heartbeat may fail at any time; the reader and Stop are certain to call.
Cleanup ==
    /\ cleaner.pc = "off"
    /\ closed' = TRUE
    /\ cleaner' = [cleaner EXCEPT !.pc = "range", !.todo = pending]
    /\ UNCHANGED <<listed, conn, pending, buf, open, pc, watch, reader, client,
                   got, ctx, behind, dead>>

\* Range visits every entry that stays in the map, and may visit later ones.
Visit(r) ==
    /\ cleaner.pc = "range" /\ r \in pending \ cleaner.seen
    /\ cleaner' = [cleaner EXCEPT !.pc = "visit", !.req = r, !.seen = @ \cup {r}]
    /\ UNCHANGED <<session, pending, buf, open, pc, watch, reader, client, got,
                   ctx, behind, dead>>

\* Mutant of Warn: the channel is closed without a message.
WarnSilently ==
    /\ cleaner.pc = "visit"
    /\ open' = open \ {cleaner.req}
    /\ cleaner' = [cleaner EXCEPT !.pc = "range", !.req = NoReq]
    /\ UNCHANGED <<session, pending, buf, pc, watch, reader, client, got, ctx,
                   behind, dead>>

\* Mutant of Warn: the channel stays open.
WarnOnly ==
    /\ cleaner.pc = "visit"
    /\ Offer(cleaner.req, "error")
    /\ cleaner' = [cleaner EXCEPT !.pc = "range", !.req = NoReq]
    /\ UNCHANGED <<session, pending, open, pc, watch, reader, client, got, ctx>>

\* The error is offered, and the channel closed.
Warn ==
    /\ cleaner.pc = "visit"
    /\ Offer(cleaner.req, "error")
    /\ open' = open \ {cleaner.req}
    /\ cleaner' = [cleaner EXCEPT !.pc = "range", !.req = NoReq]
    /\ UNCHANGED <<session, pending, pc, watch, reader, client, got, ctx>>

\* Mutant of Reset: the loop may stop early.
ResetEarly ==
    /\ cleaner.pc = "range"
    /\ pending' = {}
    /\ conn' = "closed"
    /\ cleaner' = [cleaner EXCEPT !.pc = "unlist", !.seen = {}, !.todo = {}]
    /\ UNCHANGED <<listed, closed, buf, open, pc, watch, reader, client, got,
                   ctx, behind, dead>>

\* A new map replaces the pending one, and the connection is closed.
Reset ==
    /\ cleaner.pc = "range" /\ cleaner.todo \cap pending \subseteq cleaner.seen
    /\ pending' = {}
    /\ conn' = "closed"
    /\ cleaner' = [cleaner EXCEPT !.pc = "unlist", !.seen = {}, !.todo = {}]
    /\ UNCHANGED <<listed, closed, buf, open, pc, watch, reader, client, got,
                   ctx, behind, dead>>

\* handleSessionClosed.
Unlist ==
    /\ cleaner.pc = "unlist"
    /\ listed' = FALSE
    /\ cleaner' = [cleaner EXCEPT !.pc = "done"]
    /\ UNCHANGED <<conn, closed, pending, buf, open, pc, watch, reader, client,
                   got, ctx, behind, dead>>

-----------------------------------------------------------------------------
Over ==
    /\ dead \/ (cleaner.pc = "done" /\ reader.pc = "gone" /\ \A r \in Req : Ended(r))
    /\ UNCHANGED vars

Caller(r) ==
    \/ Begin(r) \/ Load(r) \/ Write(r)
    \/ Receive(r) \/ ReceiveClosed(r) \/ GiveUp(r)
Reader == Deliver \/ Finish
Cleaner == (\E r \in Req : Visit(r)) \/ Warn \/ Reset \/ Unlist

Step ==
    \/ \E r \in Req : Caller(r) \/ WatchFires(r) \/ EndContext(r) \/ \E msg \in Message : Read(r, msg)
    \/ Reader \/ ReadFails \/ Cleaner \/ Stop \/ Cleanup

Next == (~dead /\ Step) \/ Over

Spec == Init /\ [][Next]_vars

\* Steps that nobody outside has to allow: a reader that has failed and a
\* manager that stops run the cleanup.  Nothing makes the client answer.
Running ==
    \/ \E r \in Req : Caller(r)
    \/ Reader \/ Cleaner
    \/ (reader.pc = "gone" \/ ~listed) /\ Cleanup
    \/ conn = "closed" /\ ReadFails

\* Some goroutine that can go on does.  A goroutine of a session has finitely
\* many steps, so that this alone brings each of them to its end.
FairSpec == Spec /\ WF_vars(~dead /\ Running)

-----------------------------------------------------------------------------
TypeOK ==
    /\ listed \in BOOLEAN /\ conn \in {"up", "closed"} /\ closed \in BOOLEAN
    /\ pending \subseteq Req /\ open \subseteq Req
    /\ buf \in [Req -> Seq(Message)] /\ \A r \in Req : Len(buf[r]) <= Cap
    /\ pc \in [Req -> {"idle", "load", "write", "wait"} \cup Results]
    /\ watch \in [Req -> {"off", "armed", "gone"}]
    /\ reader \in [pc : {"read", "found", "finish", "gone"},
                   req : Req \cup {NoReq}, msg : Message]
    /\ reader.pc \in {"found", "finish"} => reader.req # NoReq
    /\ cleaner \in [pc : {"off", "range", "visit", "unlist", "done"},
                    req : Req \cup {NoReq}, seen : SUBSET Req, todo : SUBSET Req]
    /\ cleaner.pc = "visit" => cleaner.req # NoReq
    /\ sent \in [Req -> Nat] /\ \A r \in Req : sent[r] <= Chunks[r]
    /\ ended \subseteq Req
    /\ got \in [Req -> Nat]
    /\ ctx \in [Req -> {"live", "left"}] /\ behind \subseteq Req /\ dead \in BOOLEAN

\* A caller never waits on a channel that nobody is left to close: its entry
\* is in the map, and cleanup has yet to begin or has it on its list; or
\* cleanup has just found it.
NoWaiterForgotten ==
    \A r \in Req : pc[r] = "wait" /\ r \in open =>
        \/ r \in pending /\ (closed => cleaner.pc \in {"range", "visit"} /\ r \in cleaner.todo \ cleaner.seen)
        \/ cleaner.pc = "visit" /\ cleaner.req = r

\* The process survives every run of messages, late and repeated ones
\* included, as long as no client goes away early and the session stays up.
PanicNeedsOverlap == dead => closed \/ \E r \in Req : ctx[r] = "left"

\* An answer that is handed on as complete has ended and lacks no chunk,
\* unless its consumer was behind a full channel or its client has left; the
\* loss of the connection alone never makes a truncated body a success.
SuccessIsWhole ==
    \A r \in Req : pc[r] = "ok" /\ r \notin behind /\ ctx[r] # "left" =>
        r \in ended /\ got[r] = sent[r]

\* Once the session is closed, whoever waits for an answer gets an end.
ClosingEndsRequests == closed ~> dead \/ \A r \in Req : pc[r] \in {"idle"} \cup Results
=============================================================================
