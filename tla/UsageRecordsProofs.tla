------------------------ MODULE UsageRecordsProofs ------------------------
(***************************************************************************)
(* Proofs about UsageRecords, for any numbers of requests, gin contexts,   *)
(* days and sinks, and queues of any capacity.                             *)
(***************************************************************************)
EXTENDS UsageRecords, SequenceTheorems, TLAPS

-----------------------------------------------------------------------------
(* Sequences of pieces: what they contain, and whether they are sound. *)

Among(q) == {q[i] : i \in DOMAIN q}

LEMMA LineTyped ==
    \A r \in Records : Line(r) \in Piece /\ FirstPart(r) \in Piece /\ LastPart(r) \in Piece
  BY DEF Line, FirstPart, LastPart, Piece

LEMMA InTyped == \A f \in Seq(Piece) : In(f) \subseteq Records
<1> SUFFICES ASSUME NEW f \in Seq(Piece), NEW i \in DOMAIN f PROVE f[i].rec \in Records
  BY DEF In
<1>1. f[i] \in Piece
  OBVIOUS
<1> QED
  BY <1>1 DEF Piece

LEMMA NoneIsNone ==
    None \notin Records \cup Contexts \cup Days \cup Sinks \cup Req /\ Blank \notin Req
  BY UsageAssumption DEF Records

LEMMA InConcat ==
    ASSUME NEW f \in Seq(Piece), NEW g \in Seq(Piece)
    PROVE  In(f \o g) = In(f) \cup In(g)
<1>1. ASSUME NEW r \in In(f \o g) PROVE r \in In(f) \cup In(g)
  <2>1. PICK i \in 1 .. Len(f) + Len(g) : r = (f \o g)[i].rec
    BY DEF In
  <2>2. CASE i <= Len(f)
    BY <2>1, <2>2 DEF In
  <2>3. CASE i > Len(f)
    <3>1. i - Len(f) \in DOMAIN g /\ (f \o g)[i] = g[i - Len(f)]
      BY <2>3
    <3> QED
      BY <2>1, <3>1 DEF In
  <2> QED
    BY <2>2, <2>3
<1>2. ASSUME NEW r \in In(f) PROVE r \in In(f \o g)
  <2>1. PICK i \in DOMAIN f : r = f[i].rec
    BY DEF In
  <2>2. i \in DOMAIN (f \o g) /\ (f \o g)[i] = f[i]
    OBVIOUS
  <2> QED
    BY <2>1, <2>2 DEF In
<1>3. ASSUME NEW r \in In(g) PROVE r \in In(f \o g)
  <2>1. PICK i \in DOMAIN g : r = g[i].rec
    BY DEF In
  <2>2. i + Len(f) \in DOMAIN (f \o g) /\ (f \o g)[i + Len(f)] = g[i]
    OBVIOUS
  <2> QED
    BY <2>1, <2>2 DEF In
<1> QED
  BY <1>1, <1>2, <1>3

LEMMA InAppend ==
    ASSUME NEW f \in Seq(Piece), NEW p \in Piece
    PROVE  Append(f, p) \in Seq(Piece) /\ In(Append(f, p)) = In(f) \cup {p.rec}
<1>1. ASSUME NEW r \in In(Append(f, p)) PROVE r \in In(f) \cup {p.rec}
  BY DEF In
<1>2. ASSUME NEW r \in In(f) PROVE r \in In(Append(f, p))
  <2>1. PICK i \in DOMAIN f : r = f[i].rec
    BY DEF In
  <2>2. i \in DOMAIN Append(f, p) /\ Append(f, p)[i] = f[i]
    OBVIOUS
  <2> QED
    BY <2>1, <2>2 DEF In
<1>3. p.rec \in In(Append(f, p))
  <2>1. Len(f) + 1 \in DOMAIN Append(f, p) /\ Append(f, p)[Len(f) + 1] = p
    OBVIOUS
  <2> QED
    BY <2>1 DEF In
<1> QED
  BY <1>1, <1>2, <1>3

LEMMA AppendConcat ==
    ASSUME NEW f \in Seq(Piece), NEW g \in Seq(Piece), NEW p \in Piece
    PROVE  f \o Append(g, p) = Append(f \o g, p)
<1>1. Append(g, p) = g \o <<p>> /\ <<p>> \in Seq(Piece)
  BY AppendIsConcat
<1>2. f \o g \in Seq(Piece) /\ Append(f \o g, p) = (f \o g) \o <<p>>
  BY ConcatProperties, AppendIsConcat
<1> QED
  BY <1>1, <1>2, ConcatAssociative

LEMMA SoundLine ==
    ASSUME NEW f \in Seq(Piece), Sound(f), NEW r \in Records
    PROVE  Sound(Append(f, Line(r)))
<1> DEFINE g == Append(f, Line(r))
<1>1. /\ Line(r) \in Piece /\ g \in Seq(Piece) /\ Len(g) = Len(f) + 1
      /\ \A i \in DOMAIN f : g[i] = f[i]
      /\ g[Len(f) + 1] = Line(r)
  BY LineTyped
<1>2. ASSUME NEW i \in DOMAIN g
      PROVE  /\ g[i].part = "head" => i < Len(g) /\ Joined(g[i], g[i + 1])
             /\ g[i].part = "tail" => i > 1 /\ Joined(g[i - 1], g[i])
  <2>1. CASE i = Len(f) + 1
    BY <1>1, <2>1 DEF Line
  <2>2. CASE i \in DOMAIN f
    <3>1. f[i].part = "head" => i + 1 \in DOMAIN f
      BY <2>2 DEF Sound
    <3>2. f[i].part = "tail" => i - 1 \in DOMAIN f
      BY <2>2 DEF Sound
    <3> QED
      BY <1>1, <2>2, <3>1, <3>2 DEF Sound
  <2> QED
    BY <1>1, <2>1, <2>2
<1> QED
  BY <1>2 DEF Sound

LEMMA SoundParts ==
    ASSUME NEW f \in Seq(Piece), Sound(f), NEW r \in Records
    PROVE  Sound(Append(Append(f, FirstPart(r)), LastPart(r)))
<1> DEFINE g == Append(Append(f, FirstPart(r)), LastPart(r))
<1>1. /\ g \in Seq(Piece) /\ Len(g) = Len(f) + 2
      /\ \A i \in DOMAIN f : g[i] = f[i]
      /\ g[Len(f) + 1] = FirstPart(r)
      /\ g[Len(f) + 2] = LastPart(r)
  BY LineTyped
<1>2. Joined(FirstPart(r), LastPart(r))
  BY DEF Joined, FirstPart, LastPart
<1>3. ASSUME NEW i \in DOMAIN g
      PROVE  /\ g[i].part = "head" => i < Len(g) /\ Joined(g[i], g[i + 1])
             /\ g[i].part = "tail" => i > 1 /\ Joined(g[i - 1], g[i])
  <2>1. CASE i = Len(f) + 1
    <3>1. g[i].part = "head"
      BY <1>1, <2>1 DEF FirstPart
    <3>2. i < Len(g) /\ i + 1 = Len(f) + 2
      BY <1>1, <2>1
    <3> QED
      BY <1>1, <1>2, <2>1, <3>1, <3>2
  <2>2. CASE i = Len(f) + 2
    <3>1. g[i].part = "tail"
      BY <1>1, <2>2 DEF LastPart
    <3>2. i > 1 /\ i - 1 = Len(f) + 1
      BY <1>1, <2>2
    <3> QED
      BY <1>1, <1>2, <2>2, <3>1, <3>2
  <2>3. CASE i \in DOMAIN f
    <3>1. f[i].part = "head" => i + 1 \in DOMAIN f
      BY <2>3 DEF Sound
    <3>2. f[i].part = "tail" => i - 1 \in DOMAIN f
      BY <2>3 DEF Sound
    <3> QED
      BY <1>1, <2>3, <3>1, <3>2 DEF Sound
  <2> QED
    BY <1>1, <2>1, <2>2, <2>3
<1> QED
  BY <1>3 DEF Sound

-----------------------------------------------------------------------------
(* The order of the sinks. *)

\* Only the sink of the runtime is alive, and none while a new one is opened; it
\* has to stop when its configuration waits for it.  A buffer belongs to a day.
SinksInOrder ==
    /\ \A s \in Sinks : s # sink => sinks[s].pc = "done"
    /\ config.pc = "open" => \A s \in Sinks : sinks[s].pc = "done"
    /\ sink # None /\ ~Locked => sinks[sink].pc = "run"
    /\ \A s \in Sinks : sinks[s].pc = "done" => sinks[s].day = None
    /\ \A s \in Sinks : sinks[s].day = None => sinks[s].buf = << >>

-----------------------------------------------------------------------------
(* The type invariant, in the groups of variables that actions leave alone. *)

RequestsTyped ==
    /\ context \in [Req -> Contexts \cup {None}] /\ holder \in [Contexts -> Req \cup {None}]
    /\ erred \subseteq Contexts /\ unpublished \subseteq Req

ManagerTyped ==
    /\ queue \in Seq(Req) /\ Len(queue) <= Buffer
    /\ failed \subseteq Req /\ own \subseteq Req /\ outrun \subseteq Req

DispatcherTyped ==
    /\ disp \in [pc : {"take", "record", "place", "capture", "offer"},
                 rec : Records, sink : Sinks \cup {None}]
    /\ disp.pc \in {"record", "place"} => disp.rec # Blank
    /\ disp.pc = "offer" => disp.sink # None

RuntimeTyped ==
    /\ on \in BOOLEAN
    /\ config \in [pc : {"idle", "swap", "wait", "open"}, enabled : BOOLEAN]
    /\ config.pc = "wait" => sink # None
    /\ sink \in Sinks \cup {None}

SinksTyped == sinks \in [Sinks -> SinkState] /\ \A s \in Sinks : Len(sinks[s].q) <= Cap
FilesTyped == file \in [Days -> Seq(Piece)]
CountsTyped ==
    /\ counted \in [Records -> Nat] /\ blamed \subseteq Req /\ memory \subseteq Records
    /\ lost \subseteq Records /\ crossed \subseteq Records

LEMMA TypeParts ==
    UsageTypeOK <=>
        /\ RequestsTyped /\ ManagerTyped /\ DispatcherTyped /\ RuntimeTyped
        /\ SinksTyped /\ FilesTyped /\ CountsTyped
  BY DEF UsageTypeOK, RequestsTyped, ManagerTyped, DispatcherTyped, RuntimeTyped, SinksTyped,
         FilesTyped, CountsTyped

LEMMA TypePartsNext ==
    /\ RequestsTyped' /\ ManagerTyped' /\ DispatcherTyped' /\ RuntimeTyped'
    /\ SinksTyped' /\ FilesTyped' /\ CountsTyped'
    => UsageTypeOK'
  BY DEF UsageTypeOK, RequestsTyped, ManagerTyped, DispatcherTyped, RuntimeTyped, SinksTyped,
         FilesTyped, CountsTyped

LEMMA FreshTyped == Fresh \in SinkState /\ Off \in SinkState
<1>1. Fresh \in SinkState
  BY EmptySeq DEF Fresh, SinkState
<1> QED
  BY <1>1 DEF Off, SinkState

LEMMA TypeInit == UsageInit => UsageTypeOK
<1> SUFFICES ASSUME UsageInit PROVE UsageTypeOK
  OBVIOUS
<1>1. RequestsTyped
  BY DEF UsageInit, RequestsTyped
<1>2. ManagerTyped
  BY UsageAssumption DEF UsageInit, ManagerTyped
<1>3. DispatcherTyped
  BY DEF UsageInit, DispatcherTyped, Idle, Records
<1>4. RuntimeTyped
  BY DEF UsageInit, RuntimeTyped, Applied
<1>5. SinksTyped
  <2>1. Off.q = << >>
    BY DEF Off, Fresh
  <2> QED
    BY <2>1, FreshTyped, UsageAssumption DEF UsageInit, SinksTyped
<1>6. FilesTyped
  BY EmptySeq DEF UsageInit, FilesTyped
<1>7. CountsTyped
  BY DEF UsageInit, CountsTyped
<1> QED
  BY <1>1, <1>2, <1>3, <1>4, <1>5, <1>6, <1>7, TypeParts

\* Forgetting a record leaves fewer.
LEMMA ForgetTyped ==
    ASSUME ManagerTyped, NEW r, Forget(r)
    PROVE  failed' \subseteq Req /\ own' \subseteq Req /\ outrun' \subseteq Req
  BY DEF ManagerTyped, Forget

LEMMA TailTyped ==
    ASSUME NEW S, NEW q \in Seq(S), q # << >>
    PROVE  /\ Head(q) \in S /\ Tail(q) \in Seq(S) /\ Len(Tail(q)) = Len(q) - 1
           /\ Len(q) \in Nat \ {0}
           /\ \A i \in DOMAIN Tail(q) : i + 1 \in DOMAIN q /\ Tail(q)[i] = q[i + 1]
           /\ 1 \in DOMAIN q /\ Head(q) = q[1]
           /\ \A i \in DOMAIN q : i # 1 => i - 1 \in DOMAIN Tail(q) /\ Tail(q)[i - 1] = q[i]
  BY HeadTailProperties, EmptySeq

LEMMA RequestsStepTyped ==
    ASSUME RequestsTyped, ManagerTyped, NEW r \in Req
    PROVE  /\ \A c \in Contexts : Serve(r, c) => RequestsTyped' /\ ManagerTyped'
           /\ Return(r) => RequestsTyped' /\ ManagerTyped'
           /\ \A fails \in BOOLEAN : Publish(r, fails) => RequestsTyped' /\ ManagerTyped'
<1>1. ASSUME NEW c \in Contexts, Serve(r, c) PROVE RequestsTyped' /\ ManagerTyped'
  BY <1>1 DEF Serve, RequestsTyped, ManagerTyped
<1>2. ASSUME Return(r) PROVE RequestsTyped' /\ ManagerTyped'
  BY <1>2 DEF Return, RequestsTyped, ManagerTyped
<1>3. ASSUME NEW fails \in BOOLEAN, Publish(r, fails) PROVE RequestsTyped' /\ ManagerTyped'
  <2>1. RequestsTyped'
    BY <1>3 DEF Publish, RequestsTyped
  <2>2. CASE Len(queue) < Buffer /\ queue' = Append(queue, r)
    <3>1. queue' \in Seq(Req) /\ Len(queue') = Len(queue) + 1
      BY <2>2, AppendProperties DEF ManagerTyped
    <3>2. Len(queue') <= Buffer
      BY <2>2, <3>1, UsageAssumption, LenProperties DEF ManagerTyped
    <3>3. failed' \subseteq Req /\ own' \subseteq Req /\ outrun' \subseteq Req
      BY <1>3, <2>2, UsageAssumption DEF Publish, ManagerTyped, Forget
    <3> QED
      BY <2>1, <3>1, <3>2, <3>3 DEF ManagerTyped
  <2>3. CASE Forget(r) /\ UNCHANGED queue
    BY <2>1, <2>3, ForgetTyped DEF ManagerTyped
  <2> QED
    BY <1>3, <2>1, <2>2, <2>3 DEF Publish
<1> QED
  BY <1>1, <1>2, <1>3

\* A step of one sink keeps the types of all.
LEMMA SinkReplaced ==
    ASSUME SinksTyped, NEW s \in Sinks, NEW x \in SinkState, Len(x.q) <= Cap,
           sinks' = [sinks EXCEPT ![s] = x]
    PROVE  /\ SinksTyped' /\ sinks'[s] = x
           /\ \A k \in Sinks : k # s => sinks'[k] = sinks[k]
  BY DEF SinksTyped

LEMMA SinkTyped ==
    ASSUME SinksTyped, NEW s \in Sinks
    PROVE  /\ sinks[s].pc \in {"run", "stop", "drain", "done"} /\ sinks[s].q \in Seq(Records)
           /\ sinks[s].day \in Days \cup {None} /\ sinks[s].buf \in Seq(Piece)
           /\ Len(sinks[s].q) <= Cap
  BY DEF SinksTyped, SinkState

LEMMA OfferDoes ==
    ASSUME SinksTyped, DispatcherTyped, Offer
    PROVE  /\ disp.sink \in Sinks /\ disp' = Idle
           /\ SinksTyped'
           /\ \A k \in Sinks : k # disp.sink => sinks'[k] = sinks[k]
           /\ \/ UNCHANGED sinks /\ sinks[disp.sink].pc = "done"
              \/ UNCHANGED sinks /\ disp.rec \in lost'
              \/ /\ sinks[disp.sink].pc # "done"
                 /\ sinks'[disp.sink].pc = sinks[disp.sink].pc
                 /\ sinks'[disp.sink].q = Append(sinks[disp.sink].q, disp.rec)
                 /\ sinks'[disp.sink].day = sinks[disp.sink].day
                 /\ sinks'[disp.sink].buf = sinks[disp.sink].buf
           /\ lost \subseteq lost'
<1> DEFINE k == disp.sink
           q == Append(sinks[k].q, disp.rec)
           x == [sinks[k] EXCEPT !.q = q]
<1>1. k \in Sinks /\ disp.rec \in Records /\ sinks[k] \in SinkState /\ disp' = Idle
  BY DEF Offer, DispatcherTyped, SinksTyped
<1>2. CASE UNCHANGED <<sinks, lost>> /\ sinks[k].pc = "done"
  BY <1>1, <1>2 DEF SinksTyped
<1>3. CASE lost' = lost \cup {disp.rec} /\ UNCHANGED sinks
  BY <1>1, <1>3 DEF SinksTyped
<1>4. CASE /\ sinks[k].pc # "done" /\ Len(sinks[k].q) < Cap
           /\ sinks' = [sinks EXCEPT ![k].q = Append(@, disp.rec)]
           /\ UNCHANGED lost
  <2>1. q \in Seq(Records) /\ Len(q) <= Cap
    BY <1>1, <1>4, SinkTyped, AppendProperties, LenProperties, UsageAssumption
  <2>2. sinks' = [sinks EXCEPT ![k] = x]
    BY <1>4
  <2>3. /\ x \in SinkState /\ Len(x.q) <= Cap
        /\ x.pc = sinks[k].pc /\ x.q = q /\ x.day = sinks[k].day /\ x.buf = sinks[k].buf
    BY <1>1, <2>1 DEF SinkState
  <2> HIDE DEF x
  <2>4. /\ SinksTyped' /\ sinks'[k] = x
        /\ \A s \in Sinks : s # k => sinks'[s] = sinks[s]
    BY <1>1, <2>2, <2>3, SinkReplaced
  <2> QED
    BY <1>1, <1>4, <2>3, <2>4
<1> QED
  BY <1>2, <1>3, <1>4 DEF Offer

LEMMA DispatchTyped ==
    ASSUME UsageTypeOK, Dispatch
    PROVE  UsageTypeOK'
<1>1. /\ RequestsTyped /\ ManagerTyped /\ DispatcherTyped /\ RuntimeTyped
      /\ SinksTyped /\ FilesTyped /\ CountsTyped
  BY TypeParts
<1>2. ManagerTyped /\ UNCHANGED manager => ManagerTyped'
  BY DEF ManagerTyped, manager
<1>3. RequestsTyped' /\ RuntimeTyped' /\ FilesTyped'
  <2>1. UNCHANGED requests /\ UNCHANGED runtime /\ UNCHANGED file
    BY DEF Dispatch, TakeRecord, Record, Place, Capture, Offer, disk
  <2> QED
    BY <1>1, <2>1 DEF RequestsTyped, RuntimeTyped, FilesTyped, requests, runtime
<1>4. Idle \in [pc : {"take", "record", "place", "capture", "offer"},
                rec : Records, sink : Sinks \cup {None}]
  BY DEF Idle, Records
<1>5. CASE TakeRecord
  <2>1. Head(queue) \in Req /\ queue' \in Seq(Req) /\ Len(queue') <= Buffer
    BY <1>1, <1>5, TailTyped, UsageAssumption DEF TakeRecord, ManagerTyped
  <2>2. ManagerTyped'
    BY <1>1, <1>5, <2>1, ForgetTyped DEF TakeRecord, ManagerTyped
  <2>3. DispatcherTyped'
    <3>1. CASE disp' = [Idle EXCEPT !.pc = "record", !.rec = Head(queue)]
      BY <2>1, <3>1, UsageAssumption DEF DispatcherTyped, Idle, Records
    <3>2. CASE UNCHANGED disp
      BY <1>1, <3>2 DEF DispatcherTyped
    <3> QED
      BY <1>5, <3>1, <3>2 DEF TakeRecord
  <2>4. SinksTyped' /\ CountsTyped'
    BY <1>1, <1>5 DEF TakeRecord, disk, statistics, SinksTyped, CountsTyped
  <2> QED
    BY <1>3, <2>2, <2>3, <2>4, TypePartsNext
<1>6. CASE Record
  <2>1. disp.rec \in Req
    BY <1>1, <1>6 DEF Record, DispatcherTyped, Records
  <2>2. ManagerTyped'
    BY <1>1, <1>6, ForgetTyped DEF Record, ManagerTyped
  <2>3. DispatcherTyped'
    BY <1>1, <1>6, <2>1 DEF Record, DispatcherTyped, Records
  <2>4. CountsTyped'
    <3>1. counted' \in [Records -> Nat]
      BY <1>1, <1>6 DEF Record, CountsTyped
    <3>2. blamed' \subseteq Req
      BY <1>1, <1>6, <2>1 DEF Record, CountsTyped
    <3> QED
      BY <1>1, <1>6, <3>1, <3>2 DEF Record, CountsTyped, disk
  <2>5. SinksTyped'
    BY <1>1, <1>6 DEF Record, disk, SinksTyped
  <2> QED
    BY <1>3, <2>2, <2>3, <2>4, <2>5, TypePartsNext
<1>7. CASE Place
  <2>1. DispatcherTyped'
    BY <1>1, <1>7 DEF Place, DispatcherTyped
  <2>2. CountsTyped'
    BY <1>1, <1>7 DEF Place, DispatcherTyped, CountsTyped, disk
  <2>3. SinksTyped'
    BY <1>1, <1>7 DEF Place, disk, SinksTyped
  <2> QED
    BY <1>1, <1>2, <1>3, <1>7, <2>1, <2>2, <2>3, TypePartsNext DEF Place
<1>8. CASE Capture
  <2>1. ASSUME sink = None /\ disp' = Idle PROVE DispatcherTyped'
    BY <1>4, <2>1 DEF DispatcherTyped, Idle
  <2>2. ASSUME sink # None /\ disp' = [disp EXCEPT !.pc = "offer", !.sink = sink]
        PROVE  DispatcherTyped'
    BY <1>1, <2>2 DEF DispatcherTyped, RuntimeTyped
  <2>3. DispatcherTyped'
    BY <1>8, <2>1, <2>2 DEF Capture
  <2>4. SinksTyped' /\ CountsTyped'
    BY <1>1, <1>8 DEF Capture, disk, statistics, SinksTyped, CountsTyped
  <2> QED
    BY <1>1, <1>2, <1>3, <1>8, <2>3, <2>4, TypePartsNext DEF Capture
<1>9. CASE Offer
  <2>1. DispatcherTyped'
    BY <1>4, <1>9 DEF Offer, DispatcherTyped, Idle
  <2>2. CountsTyped'
    BY <1>1, <1>9 DEF Offer, DispatcherTyped, CountsTyped, statistics
  <2>3. SinksTyped'
    BY <1>1, <1>9, OfferDoes
  <2> QED
    BY <1>1, <1>2, <1>3, <1>9, <2>1, <2>2, <2>3, TypePartsNext DEF Offer
<1> QED
  BY <1>5, <1>6, <1>7, <1>8, <1>9 DEF Dispatch

\* What goes to a file are the pieces of a buffer.
LEMMA FileTyped ==
    ASSUME FilesTyped, NEW d \in Days, NEW f \in Seq(Piece)
    PROVE  /\ [file EXCEPT ![d] = @ \o f] \in [Days -> Seq(Piece)]
           /\ [file EXCEPT ![d] = @ \o f][d] = file[d] \o f
           /\ \A e \in Days : e # d => [file EXCEPT ![d] = @ \o f][e] = file[e]
<1>1. file[d] \o f \in Seq(Piece)
  BY ConcatProperties DEF FilesTyped
<1> QED
  BY <1>1 DEF FilesTyped

\* flush: the buffer of s is added to the file of its day, and nothing else.
LEMMA FlushedTyped ==
    ASSUME SinksTyped, FilesTyped, NEW s \in Sinks
    PROVE  /\ Flushed(s) \in [Days -> Seq(Piece)]
           /\ \A d \in Days : Flushed(s)[d] = IF sinks[s].day = d THEN file[d] \o sinks[s].buf
                                             ELSE file[d]
           /\ \A d \in Days : Kept(s, d) \in [Days -> Seq(Piece)] /\ Kept(s, d)[d] = file[d]
           /\ \A d, e \in Days : d # e =>
                Kept(s, d)[e] = IF sinks[s].day = e THEN file[e] \o sinks[s].buf ELSE file[e]
<1> DEFINE day == sinks[s].day
           buf == sinks[s].buf
<1>1. day \in Days \cup {None} /\ buf \in Seq(Piece)
  BY SinkTyped
<1>2. file \in [Days -> Seq(Piece)]
  BY DEF FilesTyped
<1>3. None \notin Days
  BY UsageAssumption
<1>4. CASE day \in Days
  <2> DEFINE f == [file EXCEPT ![day] = @ \o buf]
  <2>1. /\ f \in [Days -> Seq(Piece)] /\ f[day] = file[day] \o buf
        /\ \A e \in Days : e # day => f[e] = file[e]
    BY <1>1, <1>4, FileTyped
  <2>2. Flushed(s) = f
    BY <1>4 DEF Flushed
  <2>3. \A d \in Days : Kept(s, d) = IF day # d THEN f ELSE file
    BY <1>4 DEF Kept
  <2> HIDE DEF f, day, buf
  <2>4. \A d \in Days : Kept(s, d) \in [Days -> Seq(Piece)] /\ Kept(s, d)[d] = file[d]
    BY <1>2, <2>1, <2>3
  <2>5. \A d, e \in Days : d # e =>
          Kept(s, d)[e] = IF day = e THEN file[e] \o buf ELSE file[e]
    BY <1>2, <2>1, <2>3
  <2>6. \A d \in Days : Flushed(s)[d] = IF day = d THEN file[d] \o buf ELSE file[d]
    BY <2>1, <2>2
  <2> QED
    BY <2>1, <2>2, <2>4, <2>5, <2>6 DEF day, buf
<1>5. CASE day = None
  <2>1. Flushed(s) = file /\ \A d \in Days : Kept(s, d) = file
    BY <1>3, <1>5 DEF Flushed, Kept
  <2> QED
    BY <1>2, <1>3, <1>5, <2>1
<1> QED
  BY <1>1, <1>4, <1>5

\* What writeRecord does to a sink and to the files.  `held` is the buffer of
\* the day of the record.
LEMMA WriteRecordDoes ==
    ASSUME SinksTyped, FilesTyped, NEW s \in Sinks, WriteRecord(s)
    PROVE  LET r == Head(sinks[s].q)
               d == DayOf[r]
               held == IF sinks[s].day = d THEN sinks[s].buf ELSE << >>
           IN  /\ sinks[s].q # << >> /\ sinks[s].pc # "done"
               /\ r \in Records /\ d \in Days /\ held \in Seq(Piece)
               /\ SinksTyped' /\ FilesTyped'
               /\ \A k \in Sinks : k # s => sinks'[k] = sinks[k]
               /\ sinks'[s].pc = sinks[s].pc /\ sinks'[s].day = d
               /\ sinks'[s].q = Tail(sinks[s].q)
               /\ \A e \in Days : e # d =>
                    file'[e] = IF sinks[s].day = e THEN file[e] \o sinks[s].buf ELSE file[e]
               /\ \/ sinks'[s].buf = Append(held, Line(r)) /\ file'[d] = file[d]
                  \/ /\ sinks[s].day = d
                     /\ sinks'[s].buf = <<LastPart(r)>>
                     /\ file'[d] = file[d] \o Append(sinks[s].buf, FirstPart(r))
<1> DEFINE r == Head(sinks[s].q)
           d == DayOf[r]
           held == IF sinks[s].day = d THEN sinks[s].buf ELSE << >>
           taken(b) == [sinks[s] EXCEPT !.q = Tail(@), !.day = d, !.buf = b]
<1>1. /\ sinks[s] \in SinkState /\ sinks[s].q \in Seq(Records) /\ sinks[s].buf \in Seq(Piece)
      /\ Len(sinks[s].q) <= Cap
  BY SinkTyped DEF SinksTyped
<1>2. sinks[s].q # << >> /\ sinks[s].pc # "done"
  BY DEF WriteRecord
<1>3. r \in Records /\ Tail(sinks[s].q) \in Seq(Records)
  BY <1>1, <1>2, TailTyped
<1>4. Len(Tail(sinks[s].q)) <= Cap
  BY <1>1, <1>2, TailTyped, UsageAssumption
<1>5. d \in Days
  BY <1>3, UsageAssumption
<1>6. held \in Seq(Piece)
  BY <1>1, EmptySeq
<1>7. \/ sinks' = [sinks EXCEPT ![s] = taken(Append(held, Line(r)))] /\ file' = Kept(s, d)
      \/ /\ held # << >>
         /\ sinks' = [sinks EXCEPT ![s] = taken(<<LastPart(r)>>)]
         /\ file' = [Kept(s, d) EXCEPT ![d] = @ \o Append(held, FirstPart(r))]
  <2>1. ASSUME NEW b
        PROVE  [sinks EXCEPT ![s].q = Tail(@), ![s].day = d, ![s].buf = b]
                 = [sinks EXCEPT ![s] = taken(b)]
    BY DEF SinksTyped
  <2> QED
    BY <2>1 DEF WriteRecord
<1>8. ASSUME NEW b \in Seq(Piece)
      PROVE  /\ taken(b) \in SinkState /\ Len(taken(b).q) <= Cap
             /\ taken(b).pc = sinks[s].pc /\ taken(b).day = d
             /\ taken(b).q = Tail(sinks[s].q) /\ taken(b).buf = b
  BY <1>1, <1>3, <1>4, <1>5, <1>8 DEF SinkState
<1>9. /\ Kept(s, d) \in [Days -> Seq(Piece)] /\ Kept(s, d)[d] = file[d]
      /\ \A e \in Days : e # d =>
            Kept(s, d)[e] = IF sinks[s].day = e THEN file[e] \o sinks[s].buf ELSE file[e]
  BY <1>5, FlushedTyped
<1> HIDE DEF r, d, held, taken
<1>10. CASE sinks' = [sinks EXCEPT ![s] = taken(Append(held, Line(r)))] /\ file' = Kept(s, d)
  <2>1. Append(held, Line(r)) \in Seq(Piece)
    BY <1>3, <1>6, LineTyped, AppendProperties
  <2>2. /\ SinksTyped' /\ sinks'[s] = taken(Append(held, Line(r)))
        /\ \A k \in Sinks : k # s => sinks'[k] = sinks[k]
    BY <1>8, <1>10, <2>1, SinkReplaced
  <2>3. FilesTyped'
    BY <1>9, <1>10 DEF FilesTyped
  <2>4. /\ sinks'[s].pc = sinks[s].pc /\ sinks'[s].day = d
        /\ sinks'[s].q = Tail(sinks[s].q) /\ sinks'[s].buf = Append(held, Line(r))
    BY <1>8, <2>1, <2>2
  <2>5. \A e \in Days : e # d =>
           file'[e] = IF sinks[s].day = e THEN file[e] \o sinks[s].buf ELSE file[e]
    BY <1>9, <1>10
  <2>6. file'[d] = file[d]
    BY <1>9, <1>10
  <2> QED
    BY <1>2, <1>3, <1>5, <1>6, <2>2, <2>3, <2>4, <2>5, <2>6 DEF r, d, held
<1>11. CASE /\ held # << >>
            /\ sinks' = [sinks EXCEPT ![s] = taken(<<LastPart(r)>>)]
            /\ file' = [Kept(s, d) EXCEPT ![d] = @ \o Append(held, FirstPart(r))]
  <2>1. <<LastPart(r)>> \in Seq(Piece)
    BY <1>3, LineTyped
  <2>2. /\ SinksTyped' /\ sinks'[s] = taken(<<LastPart(r)>>)
        /\ \A k \in Sinks : k # s => sinks'[k] = sinks[k]
    BY <1>8, <1>11, <2>1, SinkReplaced
  <2>3. sinks[s].day = d /\ held = sinks[s].buf
    BY <1>11 DEF held
  <2>4. file[d] \o Append(held, FirstPart(r)) \in Seq(Piece)
    BY <1>3, <1>5, <1>6, LineTyped, AppendProperties, ConcatProperties DEF FilesTyped
  <2>5. file' = [Kept(s, d) EXCEPT ![d] = file[d] \o Append(held, FirstPart(r))]
    BY <1>9, <1>11
  <2>6. FilesTyped' /\ file'[d] = file[d] \o Append(held, FirstPart(r))
    BY <1>5, <1>9, <2>4, <2>5 DEF FilesTyped
  <2>7. \A e \in Days : e # d =>
           file'[e] = IF sinks[s].day = e THEN file[e] \o sinks[s].buf ELSE file[e]
    BY <1>9, <2>5
  <2>8. /\ sinks'[s].pc = sinks[s].pc /\ sinks'[s].day = d
        /\ sinks'[s].q = Tail(sinks[s].q) /\ sinks'[s].buf = <<LastPart(r)>>
    BY <1>8, <2>1, <2>2
  <2> QED
    BY <1>2, <1>3, <1>5, <1>6, <2>2, <2>3, <2>6, <2>7, <2>8 DEF r, d, held
<1> QED
  BY <1>7, <1>10, <1>11

LEMMA FlushDoes ==
    ASSUME SinksTyped, FilesTyped, NEW s \in Sinks, Flush(s)
    PROVE  /\ SinksTyped' /\ FilesTyped' /\ file' = Flushed(s)
           /\ \A k \in Sinks : k # s => sinks'[k] = sinks[k]
           /\ sinks'[s].pc = sinks[s].pc /\ sinks'[s].pc # "done"
           /\ sinks'[s].q = sinks[s].q
           /\ sinks'[s].day = sinks[s].day /\ sinks'[s].buf = << >>
<1> DEFINE x == [sinks[s] EXCEPT !.buf = << >>]
<1>1. sinks' = [sinks EXCEPT ![s] = x]
  BY DEF Flush
<1>2. /\ x \in SinkState /\ Len(x.q) <= Cap
      /\ x.pc = sinks[s].pc /\ x.q = sinks[s].q /\ x.day = sinks[s].day /\ x.buf = << >>
  BY EmptySeq DEF SinksTyped, SinkState
<1> HIDE DEF x
<1>3. /\ SinksTyped' /\ sinks'[s] = x
      /\ \A k \in Sinks : k # s => sinks'[k] = sinks[k]
  BY <1>1, <1>2, SinkReplaced
<1>4. FilesTyped' /\ file' = Flushed(s)
  BY FlushedTyped DEF Flush, FilesTyped
<1>5. sinks[s].pc # "done"
  BY DEF Flush
<1> QED
  BY <1>2, <1>3, <1>4, <1>5

LEMMA DrainedDoes ==
    ASSUME SinksTyped, FilesTyped, NEW s \in Sinks, Drained(s)
    PROVE  /\ SinksTyped' /\ FilesTyped' /\ file' = Flushed(s)
           /\ \A k \in Sinks : k # s => sinks'[k] = sinks[k]
           /\ sinks[s].pc = "drain" /\ sinks[s].q = << >>
           /\ sinks'[s].pc = "done" /\ sinks'[s].q = << >>
           /\ sinks'[s].day = None /\ sinks'[s].buf = << >>
<1> DEFINE x == [sinks[s] EXCEPT !.pc = "done", !.day = None, !.buf = << >>]
<1>1. sinks' = [sinks EXCEPT ![s] = x]
  BY DEF Drained, SinksTyped
<1>2. /\ x \in SinkState /\ Len(x.q) <= Cap
      /\ x.pc = "done" /\ x.q = sinks[s].q /\ x.day = None /\ x.buf = << >>
  BY EmptySeq DEF SinksTyped, SinkState
<1> HIDE DEF x
<1>3. /\ SinksTyped' /\ sinks'[s] = x
      /\ \A k \in Sinks : k # s => sinks'[k] = sinks[k]
  BY <1>1, <1>2, SinkReplaced
<1>4. FilesTyped' /\ file' = Flushed(s)
  BY FlushedTyped DEF Drained, FilesTyped
<1>5. sinks[s].pc = "drain" /\ sinks[s].q = << >>
  BY DEF Drained
<1> QED
  BY <1>2, <1>3, <1>4, <1>5

\* A sink that is told to stop, or that has seen it.
LEMMA StopDoes ==
    ASSUME SinksTyped, NEW s \in Sinks, NEW pc \in {"stop", "drain"},
           sinks' = [sinks EXCEPT ![s].pc = pc]
    PROVE  /\ SinksTyped'
           /\ \A k \in Sinks : k # s => sinks'[k] = sinks[k]
           /\ sinks'[s].pc = pc /\ sinks'[s].q = sinks[s].q
           /\ sinks'[s].day = sinks[s].day /\ sinks'[s].buf = sinks[s].buf
<1> DEFINE x == [sinks[s] EXCEPT !.pc = pc]
<1>1. sinks' = [sinks EXCEPT ![s] = x]
  OBVIOUS
<1>2. /\ x \in SinkState /\ Len(x.q) <= Cap
      /\ x.pc = pc /\ x.q = sinks[s].q /\ x.day = sinks[s].day /\ x.buf = sinks[s].buf
  BY DEF SinksTyped, SinkState
<1> HIDE DEF x
<1>3. /\ SinksTyped' /\ sinks'[s] = x
      /\ \A k \in Sinks : k # s => sinks'[k] = sinks[k]
  BY <1>1, <1>2, SinkReplaced
<1> QED
  BY <1>2, <1>3

\* What a configuration opens is a sink that is over and that nobody holds.
LEMMA OpenDoes ==
    ASSUME SinksTyped, RuntimeTyped, DispatcherTyped, SinksInOrder, Open
    PROVE  /\ \A s \in Sinks : sinks[s].pc = "done"
           /\ SinksTyped' /\ RuntimeTyped' /\ config'.pc = "idle"
           /\ \/ sink' = None /\ UNCHANGED sinks
              \/ /\ sink' \in Sinks /\ sink' # disp.sink
                 /\ sinks'[sink'] = Fresh
                 /\ \A k \in Sinks : k # sink' => sinks'[k] = sinks[k]
<1>1. \A s \in Sinks : sinks[s].pc = "done"
  BY DEF Open, SinksInOrder
<1>2. config'.pc = "idle" /\ on' = on
      /\ config' \in [pc : {"idle", "swap", "wait", "open"}, enabled : BOOLEAN]
  BY DEF Open, Applied
<1>3. CASE sink' = None /\ UNCHANGED sinks
  <2>1. SinksTyped' /\ RuntimeTyped'
    BY <1>2, <1>3 DEF SinksTyped, RuntimeTyped
  <2> QED
    BY <1>1, <1>2, <1>3, <2>1
<1>4. CASE /\ sink' = CHOOSE s \in Sinks : sinks[s].pc = "done" /\ disp.sink # s
           /\ sinks' = [sinks EXCEPT ![sink'] = Fresh]
  <2>1. disp.sink \in Sinks \cup {None}
    BY DEF DispatcherTyped
  <2>2. \E s \in Sinks : sinks[s].pc = "done" /\ disp.sink # s
    BY <1>1, <2>1, UsageAssumption
  <2>3. sink' \in Sinks /\ sink' # disp.sink
    BY <1>4, <2>2
  <2>4. Fresh \in SinkState /\ Len(Fresh.q) <= Cap
    <3>1. Fresh.q = << >>
      BY DEF Fresh
    <3> QED
      BY <3>1, FreshTyped, UsageAssumption
  <2>5. /\ SinksTyped' /\ sinks'[sink'] = Fresh
        /\ \A k \in Sinks : k # sink' => sinks'[k] = sinks[k]
    BY <1>4, <2>3, <2>4, SinkReplaced
  <2>6. RuntimeTyped'
    BY <1>2, <2>3 DEF RuntimeTyped
  <2> QED
    BY <1>1, <1>2, <2>3, <2>5, <2>6
<1> QED
  BY <1>3, <1>4 DEF Open

LEMMA SwapDoes ==
    ASSUME SinksTyped, RuntimeTyped, Swap
    PROVE  /\ SinksTyped' /\ RuntimeTyped' /\ sink' = sink
           /\ \/ /\ sink = None /\ config'.pc = "open"
                 /\ UNCHANGED sinks
              \/ /\ sink \in Sinks /\ config'.pc = "wait"
                 /\ \A k \in Sinks : k # sink => sinks'[k] = sinks[k]
                 /\ sinks'[sink].pc = "stop" /\ sinks'[sink].q = sinks[sink].q
                 /\ sinks'[sink].day = sinks[sink].day /\ sinks'[sink].buf = sinks[sink].buf
<1>1. sink' = sink /\ on' = on
  BY DEF Swap
<1>2. RuntimeTyped' /\ config'.pc = IF sink = None THEN "open" ELSE "wait"
  BY <1>1 DEF Swap, RuntimeTyped
<1>3. CASE sink = None
  <2>1. UNCHANGED sinks
    BY <1>3 DEF Swap
  <2> QED
    BY <1>1, <1>2, <1>3, <2>1 DEF SinksTyped
<1>4. CASE sink # None
  <2>1. sink \in Sinks
    BY <1>4 DEF RuntimeTyped
  <2>2. sinks' = [sinks EXCEPT ![sink].pc = "stop"]
    BY <1>4 DEF Swap
  <2>3. /\ SinksTyped'
        /\ \A k \in Sinks : k # sink => sinks'[k] = sinks[k]
        /\ sinks'[sink].pc = "stop" /\ sinks'[sink].q = sinks[sink].q
        /\ sinks'[sink].day = sinks[sink].day /\ sinks'[sink].buf = sinks[sink].buf
    BY <2>1, <2>2, StopDoes
  <2> QED
    BY <1>1, <1>2, <1>4, <2>1, <2>3
<1> QED
  BY <1>3, <1>4

LEMMA TypeStep ==
    ASSUME UsageTypeOK, SinksInOrder, [UsageNext]_usageVars
    PROVE  UsageTypeOK'
<1>1. /\ RequestsTyped /\ ManagerTyped /\ DispatcherTyped /\ RuntimeTyped
      /\ SinksTyped /\ FilesTyped /\ CountsTyped
  BY TypeParts
<1>2. /\ UNCHANGED requests => RequestsTyped'
      /\ UNCHANGED manager => ManagerTyped'
      /\ UNCHANGED disp => DispatcherTyped'
      /\ UNCHANGED runtime => RuntimeTyped'
  BY <1>1 DEF RequestsTyped, ManagerTyped, DispatcherTyped, RuntimeTyped,
              requests, manager, runtime
<1>3. /\ UNCHANGED sinks => SinksTyped'
      /\ UNCHANGED file => FilesTyped'
      /\ UNCHANGED <<lost, statistics, crossed>> => CountsTyped'
  BY <1>1 DEF SinksTyped, FilesTyped, CountsTyped, statistics
<1>4. ASSUME NEW r \in Req, \/ Return(r)
                            \/ \E c \in Contexts : Serve(r, c)
                            \/ \E fails \in BOOLEAN : Publish(r, fails)
      PROVE  UsageTypeOK'
  <2>1. RequestsTyped' /\ ManagerTyped'
    BY <1>1, <1>4, RequestsStepTyped
  <2>2. UNCHANGED disp /\ UNCHANGED runtime /\ UNCHANGED disk /\ UNCHANGED statistics
        /\ UNCHANGED crossed
    BY <1>4 DEF Return, Serve, Publish
  <2> QED
    BY <1>2, <1>3, <2>1, <2>2, TypePartsNext DEF disk
<1>5. CASE Dispatch
  BY <1>5, DispatchTyped
<1>6. ASSUME NEW s \in Sinks, WriteRecord(s) \/ SeeStop(s) \/ Drained(s) \/ Flush(s)
      PROVE  UsageTypeOK'
  <2>1. /\ UNCHANGED requests /\ UNCHANGED manager /\ UNCHANGED disp /\ UNCHANGED runtime
        /\ UNCHANGED <<lost, statistics, crossed>>
    BY <1>6 DEF WriteRecord, SeeStop, Drained, Flush
  <2>2. CASE WriteRecord(s)
    BY <1>1, <1>2, <1>3, <2>1, <2>2, WriteRecordDoes, TypePartsNext
  <2>3. CASE SeeStop(s)
    <3>1. SinksTyped' /\ UNCHANGED file
      BY <1>1, <2>3, StopDoes DEF SeeStop
    <3> QED
      BY <1>2, <1>3, <2>1, <3>1, TypePartsNext
  <2>4. CASE Drained(s)
    BY <1>1, <1>2, <1>3, <2>1, <2>4, DrainedDoes, TypePartsNext
  <2>5. CASE Flush(s)
    BY <1>1, <1>2, <1>3, <2>1, <2>5, FlushDoes, TypePartsNext
  <2> QED
    BY <1>6, <2>2, <2>3, <2>4, <2>5
<1>7. CASE Swap
  <2>1. SinksTyped' /\ RuntimeTyped'
    BY <1>1, <1>7, SwapDoes
  <2>2. /\ UNCHANGED requests /\ UNCHANGED manager /\ UNCHANGED disp
        /\ UNCHANGED file /\ UNCHANGED <<lost, statistics>>
    BY <1>7 DEF Swap
  <2>3. CountsTyped'
    BY <1>1, <1>7, <2>2 DEF Swap, CountsTyped, DispatcherTyped, statistics
  <2> QED
    BY <1>2, <1>3, <2>1, <2>2, <2>3, TypePartsNext
<1>8. CASE SinkClosed
  <2>1. RuntimeTyped'
    BY <1>1, <1>8 DEF SinkClosed, RuntimeTyped
  <2>2. /\ UNCHANGED requests /\ UNCHANGED manager /\ UNCHANGED disp
        /\ UNCHANGED disk /\ UNCHANGED <<statistics, crossed>>
    BY <1>8 DEF SinkClosed
  <2> QED
    BY <1>2, <1>3, <2>1, <2>2, TypePartsNext DEF disk
<1>9. CASE Open
  <2>1. SinksTyped' /\ RuntimeTyped'
    BY <1>1, <1>9, OpenDoes
  <2>2. /\ UNCHANGED requests /\ UNCHANGED manager /\ UNCHANGED disp
        /\ UNCHANGED file /\ UNCHANGED <<lost, statistics, crossed>>
    BY <1>9 DEF Open
  <2> QED
    BY <1>2, <1>3, <2>1, <2>2, TypePartsNext
<1>10. ASSUME NEW enabled \in BOOLEAN, Switch(enabled) PROVE UsageTypeOK'
  <2>1. RuntimeTyped'
    BY <1>1, <1>10 DEF Switch, RuntimeTyped
  <2>2. /\ UNCHANGED requests /\ UNCHANGED manager /\ UNCHANGED disp
        /\ UNCHANGED disk /\ UNCHANGED <<statistics, crossed>>
    BY <1>10 DEF Switch
  <2> QED
    BY <1>2, <1>3, <2>1, <2>2, TypePartsNext DEF disk
<1>11. CASE Import
  <2>1. /\ UNCHANGED requests /\ UNCHANGED manager /\ UNCHANGED disp
        /\ UNCHANGED runtime /\ UNCHANGED disk
    BY <1>11 DEF Import
  <2>2. Loaded \subseteq Records
    <3>1. \A d \in Days : In(file[d]) \subseteq Records
      BY <1>1, InTyped DEF FilesTyped
    <3> QED
      BY <3>1 DEF Loaded
  <2>3. counted' \in [Records -> Nat] /\ memory' \subseteq Records
    BY <1>1, <1>11, <2>2 DEF Import, CountsTyped
  <2>4. CountsTyped'
    BY <1>1, <1>11, <2>1, <2>3 DEF Import, CountsTyped, disk
  <2> QED
    BY <1>2, <1>3, <2>1, <2>4, TypePartsNext DEF disk
<1>12. CASE UNCHANGED usageVars
  BY <1>2, <1>3, <1>12, TypePartsNext DEF usageVars, disk
<1> QED
  BY <1>4, <1>5, <1>6, <1>7, <1>8, <1>9, <1>10, <1>11, <1>12 DEF UsageNext, Writer, Configure

LEMMA OrderInit == UsageInit => SinksInOrder
  BY UsageAssumption DEF UsageInit, SinksInOrder, Off, Fresh, Applied

LEMMA OrderStep ==
    ASSUME UsageTypeOK, SinksInOrder, [UsageNext]_usageVars
    PROVE  SinksInOrder'
<1>1. DispatcherTyped /\ RuntimeTyped /\ SinksTyped /\ FilesTyped
  BY TypeParts
<1>2. CASE UNCHANGED <<config, sink, sinks>>
  BY <1>2 DEF SinksInOrder, Locked
<1>3. ASSUME NEW s \in Sinks, WriteRecord(s) \/ SeeStop(s) \/ Drained(s) \/ Flush(s)
      PROVE  SinksInOrder'
  <2>1. UNCHANGED <<config, sink>>
    BY <1>3 DEF WriteRecord, SeeStop, Drained, Flush, runtime
  <2>2. s = sink /\ sinks[s].pc # "done" /\ config.pc # "open"
    BY <1>3 DEF WriteRecord, SeeStop, Drained, Flush, SinksInOrder
  <2>3. \A k \in Sinks : k # s => sinks'[k] = sinks[k]
    BY <1>1, <1>3, WriteRecordDoes, DrainedDoes, FlushDoes, StopDoes DEF SeeStop
  <2>4. /\ sinks'[s].pc = "done" => sinks'[s].day = None
        /\ sinks'[s].day = None => sinks'[s].buf = << >>
    <3>1. CASE WriteRecord(s)
      <4>1. sinks'[s].pc = sinks[s].pc /\ sinks'[s].day \in Days
        BY <1>1, <3>1, WriteRecordDoes
      <4> QED
        BY <2>2, <4>1, NoneIsNone
    <3>2. CASE SeeStop(s)
      <4>1. sinks'[s].day = sinks[s].day /\ sinks'[s].buf = sinks[s].buf /\ sinks'[s].pc = "drain"
        BY <1>1, <3>2, StopDoes DEF SeeStop
      <4> QED
        BY <4>1 DEF SinksInOrder
    <3>3. CASE Drained(s)
      BY <1>1, <3>3, DrainedDoes
    <3>4. CASE Flush(s)
      BY <1>1, <3>4, FlushDoes DEF SinksInOrder
    <3> QED
      BY <1>3, <3>1, <3>2, <3>3, <3>4
  <2>5. ~Locked => sinks'[s].pc = "run"
    <3>1. CASE WriteRecord(s)
      <4>1. sinks'[s].pc = sinks[s].pc
        BY <1>1, <3>1, WriteRecordDoes
      <4> QED
        BY <2>2, <4>1, NoneIsNone DEF SinksInOrder
    <3>2. CASE Flush(s)
      BY <1>1, <3>2, <2>2, FlushDoes, NoneIsNone DEF SinksInOrder
    <3>3. CASE SeeStop(s) \/ Drained(s)
      BY <3>3, <2>2, NoneIsNone DEF SinksInOrder, SeeStop, Drained
    <3> QED
      BY <1>3, <3>1, <3>2, <3>3
  <2> QED
    BY <2>1, <2>2, <2>3, <2>4, <2>5 DEF SinksInOrder, Locked
<1>4. CASE Offer
  <2>1. UNCHANGED <<config, sink>>
    BY <1>4 DEF Offer, runtime
  <2>2. \A s \in Sinks : /\ sinks'[s].pc = sinks[s].pc /\ sinks'[s].day = sinks[s].day
                         /\ sinks'[s].buf = sinks[s].buf
    BY <1>1, <1>4, OfferDoes
  <2> QED
    BY <1>1, <2>1, <2>2 DEF SinksInOrder, Locked, RuntimeTyped
<1>5. CASE Swap
  <2>1. CASE sink = None
    BY <1>1, <1>5, <2>1, SwapDoes, UsageAssumption DEF SinksInOrder
  <2>2. CASE sink # None
    <3>1. /\ config'.pc = "wait" /\ sink' = sink
          /\ \A s \in Sinks : sinks'[s].day = sinks[s].day /\ sinks'[s].buf = sinks[s].buf
          /\ \A s \in Sinks : s # sink => sinks'[s].pc = sinks[s].pc
          /\ sinks'[sink].pc = "stop"
      BY <1>1, <1>5, <2>2, SwapDoes
    <3> QED
      BY <3>1 DEF SinksInOrder, Locked
  <2> QED
    BY <2>1, <2>2
<1>6. CASE SinkClosed
  BY <1>1, <1>6 DEF SinkClosed, SinksInOrder, Locked, RuntimeTyped, disk
<1>7. CASE Open
  <2>1. \A s \in Sinks : sinks[s].pc = "done" /\ sinks[s].day = None /\ sinks[s].buf = << >>
    BY <1>1, <1>7, OpenDoes DEF SinksInOrder
  <2>2. CASE sink' = None /\ UNCHANGED sinks
    BY <1>1, <1>7, <2>1, <2>2, OpenDoes DEF SinksInOrder
  <2>3. CASE /\ sink' \in Sinks /\ sinks'[sink'] = Fresh
             /\ \A k \in Sinks : k # sink' => sinks'[k] = sinks[k]
    <3>1. config'.pc = "idle"
      BY <1>1, <1>7, OpenDoes
    <3> QED
      BY <2>1, <2>3, <3>1 DEF SinksInOrder, Fresh
  <2> QED
    BY <1>1, <1>7, <2>2, <2>3, OpenDoes
<1>8. ASSUME NEW enabled \in BOOLEAN, Switch(enabled) PROVE SinksInOrder'
  BY <1>8 DEF Switch, SinksInOrder, Locked, disk
<1> QED
  <2>1. ASSUME NEW r \in Req, \/ Return(r)
                              \/ \E c \in Contexts : Serve(r, c)
                              \/ \E fails \in BOOLEAN : Publish(r, fails)
        PROVE  UNCHANGED <<config, sink, sinks>>
    BY <2>1 DEF Return, Serve, Publish, runtime, disk
  <2>2. ASSUME TakeRecord \/ Record \/ Place \/ Capture \/ Import
        PROVE  UNCHANGED <<config, sink, sinks>>
    BY <2>2 DEF TakeRecord, Record, Place, Capture, Import, runtime, disk
  <2>3. UNCHANGED usageVars => UNCHANGED <<config, sink, sinks>>
    BY DEF usageVars, runtime, disk
  <2> QED
    BY <1>2, <1>3, <1>4, <1>5, <1>6, <1>7, <1>8, <2>1, <2>2, <2>3
    DEF UsageNext, Dispatch, Writer, Configure

\* The values have their types: every record is counted as often as a natural
\* number says, no queue exceeds its capacity, and a sink that a configuration
\* opens exists.
THEOREM UsageTyped == UsageSpec => [](UsageTypeOK /\ SinksInOrder)
<1>1. UsageInit => UsageTypeOK /\ SinksInOrder
  BY TypeInit, OrderInit
<1>2. UsageTypeOK /\ SinksInOrder /\ [UsageNext]_usageVars => (UsageTypeOK /\ SinksInOrder)'
  BY TypeStep, OrderStep
<1> QED
  BY <1>1, <1>2, PTL DEF UsageSpec

-----------------------------------------------------------------------------
(* Where a record is. *)

\* What the sinks have in their queues and buffers.
Held(s, r) == r \in In(sinks[s].buf) \/ r \in Among(sinks[s].q)
Written(r) == \E d \in Days : r \in In(file[d])
Queued(r) == r \in Among(queue)

\* A record is in one place until it is counted: with its request, in the queue
\* or with the dispatcher.
Alone ==
    /\ \A i, j \in DOMAIN queue : queue[i] = queue[j] => i = j
    /\ \A r \in unpublished : ~Queued(r) /\ disp.rec # r
    /\ disp.pc # "take" => ~Queued(disp.rec)
    /\ disp.pc = "take" => disp.rec = Blank

\* Nothing else knows of a record that is still to be counted.
Unknown ==
    \A r \in Req : Pending(r) =>
        r \notin blamed \cup memory /\ ~Written(r) /\ \A s \in Sinks : ~Held(s, r)

\* The status of a context is the own answer of the records that ask for it, or
\* of a later request.
StatusKnown ==
    /\ \A c \in Contexts, q \in Req :
          holder[c] \in Req \ {q} /\ context[q] = c /\ Pending(q) => q \in outrun
    /\ \A q \in Req : context[q] \in erred /\ Pending(q) => q \in own \cup outrun

\* With what the sink of the day has in its buffer, every file is whole.
Rest(d) == IF sink # None /\ sinks[sink].day = d THEN sinks[sink].buf ELSE << >>
LinesInOrder == \A d \in Days : Sound(file[d] \o Rest(d))

\* A counted detail is safe once the dispatcher is done with it.
Safe(r) ==
    \/ r \in memory \cup lost \/ Written(r)
    \/ \E s \in Sinks : sinks[s].pc # "done" /\ Held(s, r)
DetailsSafe ==
    \A r \in Req : counted[r] > 0 /\ r \notin crossed =>
       /\ disp.rec # r \/ disp.pc = "record" => Safe(r)
       /\ disp.rec = r /\ disp.pc = "capture" => r \in memory \/ (sink # None /\ ~Locked)
       /\ disp.rec = r /\ disp.pc = "offer" => r \in memory \/ sinks[disp.sink].pc = "run"

-----------------------------------------------------------------------------
(* Lines. *)

LEMMA LinesInit == UsageInit => LinesInOrder
  BY DEF UsageInit, LinesInOrder, Rest, Sound

\* The files and the buffer are all that lines depend on.
LEMMA LinesKept ==
    ASSUME LinesInOrder, UNCHANGED <<file, sink>>,
           sink # None => sinks'[sink].day = sinks[sink].day /\ sinks'[sink].buf = sinks[sink].buf
    PROVE  LinesInOrder'
<1>1. \A d : Rest(d)' = Rest(d)
  BY DEF Rest
<1> QED
  BY <1>1 DEF LinesInOrder

LEMMA RestTyped ==
    ASSUME SinksTyped, RuntimeTyped, NEW d
    PROVE  Rest(d) \in Seq(Piece)
  BY SinkTyped, EmptySeq DEF Rest, RuntimeTyped

\* What a flush puts into the files completes their lines.
LEMMA FlushedLines ==
    ASSUME SinksTyped, RuntimeTyped, FilesTyped, SinksInOrder, LinesInOrder,
           NEW s \in Sinks, s = sink, NEW d \in Days
    PROVE  Sound(Flushed(s)[d])
<1>1. s # None
  BY NoneIsNone
<1>2. CASE sinks[s].day = d
  <2>1. Flushed(s)[d] = file[d] \o Rest(d)
    BY <1>1, <1>2, FlushedTyped DEF Rest
  <2> QED
    BY <2>1 DEF LinesInOrder
<1>3. CASE sinks[s].day # d
  <2>1. Flushed(s)[d] = file[d] /\ Rest(d) = << >>
    BY <1>1, <1>3, FlushedTyped DEF Rest
  <2>2. file[d] \o << >> = file[d]
    BY ConcatEmptySeq DEF FilesTyped
  <2> QED
    BY <2>1, <2>2 DEF LinesInOrder
<1> QED
  BY <1>2, <1>3

LEMMA LinesWritten ==
    ASSUME SinksTyped, RuntimeTyped, FilesTyped, SinksInOrder, LinesInOrder,
           NEW s \in Sinks, s = sink, WriteRecord(s)
    PROVE  LinesInOrder'
<1>1. PICK r \in Records, d \in Days, held \in Seq(Piece) :
         /\ held = IF sinks[s].day = d THEN sinks[s].buf ELSE << >>
         /\ FilesTyped'
         /\ sinks'[s].day = d
         /\ \A e \in Days : e # d =>
               file'[e] = IF sinks[s].day = e THEN file[e] \o sinks[s].buf ELSE file[e]
         /\ \/ sinks'[s].buf = Append(held, Line(r)) /\ file'[d] = file[d]
            \/ /\ sinks[s].day = d
               /\ sinks'[s].buf = <<LastPart(r)>>
               /\ file'[d] = file[d] \o Append(sinks[s].buf, FirstPart(r))
  BY WriteRecordDoes
<1>2. s # None /\ sink' = sink
  BY NoneIsNone DEF WriteRecord, runtime
<1>3. held = Rest(d)
  BY <1>1, <1>2 DEF Rest
<1>4. /\ file[d] \in Seq(Piece) /\ sinks[s].buf \in Seq(Piece)
      /\ Line(r) \in Piece /\ FirstPart(r) \in Piece /\ LastPart(r) \in Piece
      /\ file[d] \o held \in Seq(Piece)
  BY <1>1, SinkTyped, LineTyped, ConcatProperties DEF FilesTyped
<1>5. Sound(file[d] \o held)
  BY <1>1, <1>3 DEF LinesInOrder
<1>6. Rest(d)' = sinks'[s].buf
  BY <1>1, <1>2 DEF Rest
<1>7. Sound(file'[d] \o Rest(d)')
  <2>1. CASE sinks'[s].buf = Append(held, Line(r)) /\ file'[d] = file[d]
    <3>1. file[d] \o Append(held, Line(r)) = Append(file[d] \o held, Line(r))
      BY <1>4, AppendConcat
    <3> QED
      BY <1>1, <1>4, <1>5, <1>6, <2>1, <3>1, SoundLine
  <2>2. CASE /\ sinks[s].day = d
             /\ sinks'[s].buf = <<LastPart(r)>>
             /\ file'[d] = file[d] \o Append(sinks[s].buf, FirstPart(r))
    <3>1. sinks[s].buf = held
      BY <1>1, <2>2
    <3>2. file[d] \o Append(held, FirstPart(r)) = Append(file[d] \o held, FirstPart(r))
      BY <1>4, AppendConcat
    <3> DEFINE f == file[d] \o held
    <3>3. Append(f, FirstPart(r)) \in Seq(Piece)
      BY <1>4, AppendProperties
    <3>4. Append(f, FirstPart(r)) \o <<LastPart(r)>>
            = Append(Append(f, FirstPart(r)), LastPart(r))
      BY <1>4, <3>3, AppendIsConcat
    <3>5. Sound(Append(Append(f, FirstPart(r)), LastPart(r)))
      BY <1>1, <1>4, <1>5, SoundParts
    <3> QED
      BY <1>6, <2>2, <3>1, <3>2, <3>4, <3>5
  <2> QED
    BY <1>1, <2>1, <2>2
<1>8. ASSUME NEW e \in Days, e # d PROVE Sound(file'[e] \o Rest(e)')
  <2>1. Rest(e)' = << >>
    BY <1>1, <1>2, <1>8 DEF Rest
  <2>2. file'[e] = file[e] \o Rest(e)
    <3>1. file[e] \o << >> = file[e]
      BY ConcatEmptySeq DEF FilesTyped
    <3> QED
      BY <1>1, <1>2, <1>8, <3>1 DEF Rest
  <2>3. file'[e] \o << >> = file'[e]
    BY <1>1, ConcatEmptySeq DEF FilesTyped
  <2> QED
    BY <2>1, <2>2, <2>3 DEF LinesInOrder
<1> QED
  BY <1>7, <1>8 DEF LinesInOrder

LEMMA LinesStep ==
    ASSUME UsageTypeOK, SinksInOrder, LinesInOrder, [UsageNext]_usageVars
    PROVE  LinesInOrder'
<1>1. DispatcherTyped /\ RuntimeTyped /\ SinksTyped /\ FilesTyped
  BY TypeParts
<1>2. CASE UNCHANGED <<sink, sinks, file>>
  BY <1>2, LinesKept
<1>3. ASSUME NEW s \in Sinks, WriteRecord(s) PROVE LinesInOrder'
  <2>1. s = sink
    BY <1>3 DEF WriteRecord, SinksInOrder
  <2> QED
    BY <1>1, <1>3, <2>1, LinesWritten
<1>4. ASSUME NEW s \in Sinks, SeeStop(s) PROVE LinesInOrder'
  <2>1. s = sink /\ UNCHANGED <<file, sink>>
    BY <1>4 DEF SeeStop, SinksInOrder, runtime
  <2>2. sinks'[s].day = sinks[s].day /\ sinks'[s].buf = sinks[s].buf
    BY <1>1, <1>4, StopDoes DEF SeeStop
  <2> QED
    BY <2>1, <2>2, LinesKept
<1>5. ASSUME NEW s \in Sinks, Drained(s) \/ Flush(s) PROVE LinesInOrder'
  <2>1. s = sink /\ sink' = sink
    BY <1>5 DEF Drained, Flush, SinksInOrder, runtime
  <2>2. FilesTyped' /\ file' = Flushed(s) /\ sinks'[s].buf = << >>
    BY <1>1, <1>5, DrainedDoes, FlushDoes
  <2>3. \A d : Rest(d)' = << >>
    BY <2>1, <2>2 DEF Rest
  <2>4. \A d \in Days : Sound(file'[d])
    BY <1>1, <2>1, <2>2, FlushedLines
  <2>5. \A d \in Days : file'[d] \o << >> = file'[d]
    BY <2>2, ConcatEmptySeq DEF FilesTyped
  <2> QED
    BY <2>3, <2>4, <2>5 DEF LinesInOrder
<1>6. CASE Offer
  <2>1. UNCHANGED <<file, sink>>
    BY <1>6 DEF Offer, runtime
  <2>2. \A s \in Sinks : sinks'[s].day = sinks[s].day /\ sinks'[s].buf = sinks[s].buf
    BY <1>1, <1>6, OfferDoes
  <2> QED
    BY <1>1, <2>1, <2>2, LinesKept DEF RuntimeTyped
<1>7. CASE Swap
  <2>1. UNCHANGED file
    BY <1>7 DEF Swap
  <2>2. sink' = sink
        /\ (sink # None => sinks'[sink].day = sinks[sink].day /\ sinks'[sink].buf = sinks[sink].buf)
    BY <1>1, <1>7, SwapDoes
  <2> QED
    BY <2>1, <2>2, LinesKept
<1>8. CASE Open
  <2>1. \A s \in Sinks : sinks[s].day = None /\ sinks[s].buf = << >>
    BY <1>1, <1>8, OpenDoes DEF SinksInOrder
  <2>2. \A d \in Days : Rest(d) = << >>
    BY <1>1, <2>1 DEF Rest, RuntimeTyped
  <2>3. \A d \in Days : Rest(d)' = << >>
    <3>1. sink' # None => sinks'[sink'].buf = << >>
      BY <1>1, <1>8, <2>1, OpenDoes DEF Fresh
    <3> QED
      BY <3>1 DEF Rest
  <2>4. UNCHANGED file
    BY <1>8 DEF Open
  <2> QED
    BY <2>2, <2>3, <2>4 DEF LinesInOrder
<1> QED
  <2>1. ASSUME NEW r \in Req, \/ Return(r)
                              \/ \E c \in Contexts : Serve(r, c)
                              \/ \E fails \in BOOLEAN : Publish(r, fails)
        PROVE  UNCHANGED <<sink, sinks, file>>
    BY <2>1 DEF Return, Serve, Publish, runtime, disk
  <2>2. ASSUME TakeRecord \/ Record \/ Place \/ Capture \/ Import \/ SinkClosed
        PROVE  UNCHANGED <<sink, sinks, file>>
    BY <2>2 DEF TakeRecord, Record, Place, Capture, Import, SinkClosed, runtime, disk
  <2>3. ASSUME NEW enabled \in BOOLEAN, Switch(enabled) PROVE UNCHANGED <<sink, sinks, file>>
    BY <2>3 DEF Switch, disk
  <2>4. UNCHANGED usageVars => UNCHANGED <<sink, sinks, file>>
    BY DEF usageVars, runtime, disk
  <2> QED
    BY <1>2, <1>3, <1>4, <1>5, <1>6, <1>7, <1>8, <2>1, <2>2, <2>3, <2>4
    DEF UsageNext, Dispatch, Writer, Configure

\* The files stay readable while days change, lines are cut at the end of a
\* buffer, and sinks are closed and replaced: a line that is cut is completed by
\* what the sink of that day still has in its buffer.
THEOREM FilesReadable == UsageSpec => []LinesWhole
<1>1. UsageInit => UsageTypeOK /\ SinksInOrder /\ LinesInOrder
  BY TypeInit, OrderInit, LinesInit
<1>2. UsageTypeOK /\ SinksInOrder /\ LinesInOrder /\ [UsageNext]_usageVars
        => (UsageTypeOK /\ SinksInOrder /\ LinesInOrder)'
  BY TypeStep, OrderStep, LinesStep
<1>3. UsageTypeOK /\ SinksInOrder /\ LinesInOrder => LinesWhole
  <2> SUFFICES ASSUME UsageTypeOK, SinksInOrder, LinesInOrder, NEW d \in Days
               PROVE  \/ Sound(file[d])
                      \/ \E s \in Sinks : sinks[s].day = d /\ Sound(file[d] \o sinks[s].buf)
    BY DEF LinesWhole
  <2>1. RuntimeTyped /\ FilesTyped /\ Sound(file[d] \o Rest(d))
    BY TypeParts DEF LinesInOrder
  <2>2. CASE sink # None /\ sinks[sink].day = d
    BY <2>1, <2>2 DEF Rest, RuntimeTyped
  <2>3. CASE Rest(d) = << >>
    <3>1. file[d] \o << >> = file[d]
      BY <2>1, ConcatEmptySeq DEF FilesTyped
    <3> QED
      BY <2>1, <2>3, <3>1
  <2> QED
    BY <2>2, <2>3 DEF Rest
<1> QED
  BY <1>1, <1>2, <1>3, PTL DEF UsageSpec

-----------------------------------------------------------------------------
(* Records on their way. *)

LEMMA PendingIs ==
    \A r : Pending(r) <=> r \in unpublished \/ Queued(r) \/ (disp.pc = "record" /\ disp.rec = r)
  BY DEF Pending, Queued, Among

LEMMA PendingIsNext ==
    \A r : Pending(r)' <=>
        r \in unpublished' \/ r \in Among(queue') \/ (disp'.pc = "record" /\ disp'.rec = r)
  BY DEF Pending, Among

LEMMA AmongTail ==
    ASSUME NEW S, NEW q \in Seq(S), q # << >>
    PROVE  /\ Among(q) = Among(Tail(q)) \cup {Head(q)}
           /\ Among(q) \subseteq S /\ Head(q) \in S
           /\ (\A i, j \in DOMAIN q : q[i] = q[j] => i = j) =>
                /\ Head(q) \notin Among(Tail(q))
                /\ \A i, j \in DOMAIN Tail(q) : Tail(q)[i] = Tail(q)[j] => i = j
<1>1. /\ Head(q) \in S /\ Tail(q) \in Seq(S)
      /\ \A i \in DOMAIN Tail(q) :
            i \in Nat \ {0} /\ i + 1 \in DOMAIN q /\ Tail(q)[i] = q[i + 1]
      /\ 1 \in DOMAIN q /\ Head(q) = q[1]
      /\ \A i \in DOMAIN q : i # 1 => i - 1 \in DOMAIN Tail(q) /\ Tail(q)[i - 1] = q[i]
  BY TailTyped
<1>2. ASSUME NEW x \in Among(q) PROVE x \in Among(Tail(q)) \cup {Head(q)}
  <2>1. PICK i \in DOMAIN q : x = q[i]
    BY DEF Among
  <2>2. CASE i # 1
    <3>1. i - 1 \in DOMAIN Tail(q) /\ Tail(q)[i - 1] = x
      BY <1>1, <2>1, <2>2
    <3> QED
      BY <3>1 DEF Among
  <2> QED
    BY <1>1, <2>1, <2>2
<1>3. ASSUME NEW x \in Among(Tail(q)) PROVE x \in Among(q)
  BY <1>1 DEF Among
<1>4. Head(q) \in Among(q)
  BY <1>1 DEF Among
<1>5. Among(q) \subseteq S
  BY DEF Among
<1>6. ASSUME \A i, j \in DOMAIN q : q[i] = q[j] => i = j
      PROVE  /\ Head(q) \notin Among(Tail(q))
             /\ \A i, j \in DOMAIN Tail(q) : Tail(q)[i] = Tail(q)[j] => i = j
  <2>1. ASSUME NEW i \in DOMAIN Tail(q), Tail(q)[i] = Head(q) PROVE FALSE
    BY <1>1, <1>6, <2>1
  <2>2. ASSUME NEW i \in DOMAIN Tail(q), NEW j \in DOMAIN Tail(q), Tail(q)[i] = Tail(q)[j]
        PROVE  i = j
    BY <1>1, <1>6, <2>2
  <2> QED
    BY <2>1, <2>2 DEF Among
<1> QED
  BY <1>1, <1>2, <1>3, <1>4, <1>5, <1>6

LEMMA AmongAppend ==
    ASSUME NEW S, NEW q \in Seq(S), NEW x \in S
    PROVE  /\ Among(Append(q, x)) = Among(q) \cup {x}
           /\ (\A i, j \in DOMAIN q : q[i] = q[j] => i = j) /\ x \notin Among(q) =>
                \A i, j \in DOMAIN Append(q, x) : Append(q, x)[i] = Append(q, x)[j] => i = j
<1> DEFINE a == Append(q, x)
<1>1. /\ DOMAIN a = 1 .. Len(q) + 1 /\ DOMAIN q = 1 .. Len(q) /\ Len(q) \in Nat
      /\ a[Len(q) + 1] = x
      /\ \A i \in DOMAIN q : a[i] = q[i]
  BY AppendProperties, LenProperties
<1> HIDE DEF a
<1>2. Among(a) = Among(q) \cup {x}
  BY <1>1 DEF Among
<1>3. ASSUME \A i, j \in DOMAIN q : q[i] = q[j] => i = j, x \notin Among(q),
             NEW i \in DOMAIN a, NEW j \in DOMAIN a, a[i] = a[j]
      PROVE  i = j
  <2>1. \A k \in DOMAIN a : k \in DOMAIN q \/ k = Len(q) + 1
    BY <1>1
  <2>2. \A k \in DOMAIN q : q[k] # x
    BY <1>3 DEF Among
  <2> QED
    BY <1>1, <1>3, <2>1, <2>2
<1> QED
  BY <1>2, <1>3 DEF a

LEMMA AloneInit == UsageInit => Alone
  BY NoneIsNone DEF UsageInit, Alone, Queued, Among, Idle

LEMMA AloneStep ==
    ASSUME UsageTypeOK, Alone, [UsageNext]_usageVars
    PROVE  Alone' /\ \A r \in Req : Pending(r)' => Pending(r)
<1>1. RequestsTyped /\ ManagerTyped /\ DispatcherTyped /\ queue \in Seq(Req)
  BY TypeParts DEF ManagerTyped
<1>2. ~Queued(Blank) /\ Blank \notin unpublished
  BY <1>1, NoneIsNone DEF Queued, Among, RequestsTyped
<1>3. CASE UNCHANGED <<unpublished, queue, disp>>
  BY <1>3 DEF Alone, Queued, Pending
<1>4. ASSUME NEW r \in Req, NEW fails \in BOOLEAN, Publish(r, fails)
      PROVE  Alone' /\ \A q \in Req : Pending(q)' => Pending(q)
  <2>1. r \in unpublished /\ unpublished' = unpublished \ {r} /\ disp' = disp
    BY <1>4 DEF Publish
  <2>2. CASE queue' = queue
    BY <2>1, <2>2 DEF Alone, Queued, Pending
  <2>3. CASE queue' = Append(queue, r)
    <3>1. ~Queued(r) /\ disp.rec # r
      BY <2>1 DEF Alone
    <3>2. /\ Among(queue') = Among(queue) \cup {r}
          /\ \A i, j \in DOMAIN queue' : queue'[i] = queue'[j] => i = j
      BY <1>1, <2>3, <3>1, AmongAppend DEF Alone, Queued
    <3>3. Alone'
      BY <2>1, <3>1, <3>2 DEF Alone, Queued
    <3> QED
      BY <2>1, <3>2, <3>3, PendingIs, PendingIsNext DEF Queued
  <2> QED
    BY <1>4, <2>2, <2>3 DEF Publish
<1>5. CASE TakeRecord
  <2>1. /\ queue' = Tail(queue) /\ UNCHANGED unpublished
        /\ Among(queue) = Among(queue') \cup {Head(queue)}
        /\ Head(queue) \in Req /\ Head(queue) \notin Among(queue')
        /\ \A i, j \in DOMAIN queue' : queue'[i] = queue'[j] => i = j
    <3>1. queue # << >> /\ queue' = Tail(queue)
      BY <1>5 DEF TakeRecord
    <3>2. \A i, j \in DOMAIN queue : queue[i] = queue[j] => i = j
      BY DEF Alone
    <3> QED
      BY <1>1, <1>5, <3>1, <3>2, AmongTail DEF TakeRecord, requests
  <2>2. CASE disp' = [Idle EXCEPT !.pc = "record", !.rec = Head(queue)]
    <3>1. disp'.pc = "record" /\ disp'.rec = Head(queue)
      BY <2>2 DEF Idle
    <3>2. Alone'
      BY <2>1, <3>1 DEF Alone, Queued
    <3> QED
      BY <2>1, <3>1, <3>2, PendingIs, PendingIsNext DEF Queued
  <2>3. CASE disp' = disp
    <3>1. Alone'
      BY <2>1, <2>3 DEF Alone, Queued
    <3> QED
      BY <2>1, <2>3, <3>1, PendingIs, PendingIsNext DEF Queued
  <2> QED
    BY <1>5, <2>2, <2>3 DEF TakeRecord
<1>6. CASE Record \/ Place \/ Capture \/ Offer
  <2>1. UNCHANGED <<unpublished, queue>>
    BY <1>6 DEF Record, Place, Capture, Offer, requests, manager
  <2>2. /\ disp.pc # "take" /\ disp'.pc # "record"
        /\ disp'.rec \in {disp.rec, Blank}
        /\ disp'.pc = "take" => disp'.rec = Blank
    <3>1. ASSUME Record PROVE disp.pc = "record" /\ disp'.pc # "record" /\ disp'.pc # "take"
                              /\ disp'.rec \in {disp.rec, Blank}
      BY <1>1, <3>1 DEF Record, DispatcherTyped
    <3>2. ASSUME Place PROVE disp.pc = "place" /\ disp'.pc = "capture" /\ disp'.rec = disp.rec
      BY <1>1, <3>2 DEF Place, DispatcherTyped
    <3>3. ASSUME Capture
          PROVE  /\ disp.pc = "capture"
                 /\ disp' = Idle \/ (disp'.pc = "offer" /\ disp'.rec = disp.rec)
      <4>1. disp.pc = "capture"
        BY <3>3 DEF Capture
      <4>2. disp' = Idle \/ disp' = [disp EXCEPT !.pc = "offer", !.sink = sink]
        BY <3>3 DEF Capture
      <4>3. disp \in [pc : {"take", "record", "place", "capture", "offer"},
                      rec : Records, sink : Sinks \cup {None}]
        BY <1>1 DEF DispatcherTyped
      <4> QED
        BY <4>1, <4>2, <4>3
    <3>4. ASSUME Offer PROVE disp.pc = "offer" /\ disp' = Idle
      BY <3>4 DEF Offer
    <3>5. Idle.pc = "take" /\ Idle.rec = Blank
      BY DEF Idle
    <3> QED
      BY <1>6, <3>1, <3>2, <3>3, <3>4, <3>5
  <2>3. Alone'
    BY <1>2, <2>1, <2>2 DEF Alone, Queued
  <2> QED
    BY <2>1, <2>2, <2>3, PendingIs, PendingIsNext DEF Queued
<1> QED
  <2>1. ASSUME NEW r \in Req, Return(r) \/ \E c \in Contexts : Serve(r, c)
        PROVE  UNCHANGED <<unpublished, queue, disp>>
    BY <2>1 DEF Return, Serve
  <2>2. ASSUME NEW s \in Sinks, WriteRecord(s) \/ SeeStop(s) \/ Drained(s) \/ Flush(s)
        PROVE  UNCHANGED <<unpublished, queue, disp>>
    BY <2>2 DEF WriteRecord, SeeStop, Drained, Flush, requests, manager
  <2>3. ASSUME Swap \/ SinkClosed \/ Open \/ Import
        PROVE  UNCHANGED <<unpublished, queue, disp>>
    BY <2>3 DEF Swap, SinkClosed, Open, Import, requests, manager
  <2>4. ASSUME NEW enabled \in BOOLEAN, Switch(enabled)
        PROVE  UNCHANGED <<unpublished, queue, disp>>
    BY <2>4 DEF Switch, requests, manager
  <2>5. UNCHANGED usageVars => UNCHANGED <<unpublished, queue, disp>>
    BY DEF usageVars, requests, manager
  <2> QED
    BY <1>3, <1>4, <1>5, <1>6, <2>1, <2>2, <2>3, <2>4, <2>5
    DEF UsageNext, Dispatch, Writer, Configure

-----------------------------------------------------------------------------
(* What the sinks know. *)

\* writeRecord moves a record from the queue to the buffer, and the buffer to
\* the files; nothing is lost, and nothing else appears.
LEMMA WriteRecordKeeps ==
    ASSUME SinksTyped, FilesTyped, SinksInOrder, NEW s \in Sinks, WriteRecord(s), NEW r
    PROVE  Written(r)' \/ Held(s, r)' <=> Written(r) \/ Held(s, r)
<1>1. PICK x \in Records, d \in Days, held \in Seq(Piece) :
         /\ sinks[s].q # << >> /\ x = Head(sinks[s].q)
         /\ held = IF sinks[s].day = d THEN sinks[s].buf ELSE << >>
         /\ sinks'[s].q = Tail(sinks[s].q)
         /\ \A e \in Days : e # d =>
               file'[e] = IF sinks[s].day = e THEN file[e] \o sinks[s].buf ELSE file[e]
         /\ \/ sinks'[s].buf = Append(held, Line(x)) /\ file'[d] = file[d]
            \/ /\ sinks[s].day = d
               /\ sinks'[s].buf = <<LastPart(x)>>
               /\ file'[d] = file[d] \o Append(sinks[s].buf, FirstPart(x))
  BY WriteRecordDoes
<1> DEFINE b == sinks[s].buf
<1>2. b \in Seq(Piece) /\ \A e \in Days : file[e] \in Seq(Piece)
  BY SinkTyped DEF FilesTyped
<1>3. Among(sinks[s].q) = Among(sinks'[s].q) \cup {x}
  BY <1>1, SinkTyped, AmongTail
<1>4. \A e \in Days : e # d =>
         In(file'[e]) = IF sinks[s].day = e THEN In(file[e]) \cup In(b) ELSE In(file[e])
  <2> SUFFICES ASSUME NEW e \in Days, e # d
               PROVE  In(file'[e]) = IF sinks[s].day = e THEN In(file[e]) \cup In(b)
                                     ELSE In(file[e])
    OBVIOUS
  <2>1. In(file[e] \o b) = In(file[e]) \cup In(b)
    BY <1>2, InConcat
  <2>2. file'[e] = IF sinks[s].day = e THEN file[e] \o b ELSE file[e]
    BY <1>1
  <2> QED
    BY <2>1, <2>2
<1>5. In(<< >>) = {}
  BY DEF In
<1>6. In(held) = IF sinks[s].day = d THEN In(b) ELSE {}
  BY <1>1, <1>5
<1>7. sinks[s].day \notin Days => In(b) = {}
  BY <1>5, SinkTyped DEF SinksInOrder
<1>8. Line(x).rec = x /\ FirstPart(x).rec = x /\ LastPart(x).rec = x
  BY DEF Line, FirstPart, LastPart
<1>9. \/ In(sinks'[s].buf) = In(held) \cup {x} /\ In(file'[d]) = In(file[d])
      \/ /\ sinks[s].day = d
         /\ In(sinks'[s].buf) = {x}
         /\ In(file'[d]) = In(file[d]) \cup In(b) \cup {x}
  <2>1. CASE sinks'[s].buf = Append(held, Line(x)) /\ file'[d] = file[d]
    <3>1. Line(x) \in Piece
      BY LineTyped
    <3>2. In(Append(held, Line(x))) = In(held) \cup {x}
      BY <1>8, <3>1, InAppend
    <3> QED
      BY <2>1, <3>2
  <2>2. CASE /\ sinks[s].day = d
             /\ sinks'[s].buf = <<LastPart(x)>>
             /\ file'[d] = file[d] \o Append(sinks[s].buf, FirstPart(x))
    <3>1. In(<<LastPart(x)>>) = {x}
      BY <1>8 DEF In
    <3>2. FirstPart(x) \in Piece
      BY LineTyped
    <3>3. Append(b, FirstPart(x)) \in Seq(Piece) /\ In(Append(b, FirstPart(x))) = In(b) \cup {x}
      BY <1>2, <1>8, <3>2, InAppend
    <3>4. In(file'[d]) = In(file[d]) \cup In(Append(b, FirstPart(x)))
      BY <1>2, <2>2, <3>3, InConcat
    <3> QED
      BY <2>2, <3>1, <3>3, <3>4
  <2> QED
    BY <1>1, <2>1, <2>2
<1>10. Held(s, r) <=> r \in In(b) \/ r \in Among(sinks'[s].q) \/ r = x
  BY <1>3 DEF Held
<1>11. Held(s, r)' <=> r \in In(sinks'[s].buf) \/ r \in Among(sinks'[s].q)
  BY DEF Held
<1> HIDE DEF b
<1>12. CASE /\ In(sinks'[s].buf) = In(held) \cup {x}
            /\ In(file'[d]) = In(file[d])
  <2>1. Written(r)' <=> Written(r) \/ (sinks[s].day \in Days \ {d} /\ r \in In(b))
    BY <1>4, <1>12 DEF Written
  <2> QED
    BY <1>6, <1>7, <1>10, <1>11, <1>12, <2>1
<1>13. CASE /\ sinks[s].day = d
            /\ In(sinks'[s].buf) = {x}
            /\ In(file'[d]) = In(file[d]) \cup In(b) \cup {x}
  <2>1. Written(r)' <=> Written(r) \/ r \in In(b) \/ r = x
    BY <1>4, <1>13 DEF Written
  <2> QED
    BY <1>10, <1>11, <1>13, <2>1
<1> QED
  BY <1>9, <1>12, <1>13

\* So do a flush, and the last one.
LEMMA FlushKeeps ==
    ASSUME SinksTyped, FilesTyped, SinksInOrder, NEW s \in Sinks, Flush(s) \/ Drained(s), NEW r
    PROVE  Written(r)' \/ Held(s, r)' <=> Written(r) \/ Held(s, r)
<1> DEFINE b == sinks[s].buf
<1>1. file' = Flushed(s) /\ sinks'[s].buf = << >> /\ sinks'[s].q = sinks[s].q
  BY FlushDoes, DrainedDoes
<1>2. b \in Seq(Piece) /\ \A e \in Days : file[e] \in Seq(Piece)
  BY SinkTyped DEF FilesTyped
<1>3. In(<< >>) = {}
  BY DEF In
<1>4. \A e \in Days :
         In(file'[e]) = IF sinks[s].day = e THEN In(file[e]) \cup In(b) ELSE In(file[e])
  <2> SUFFICES ASSUME NEW e \in Days
               PROVE  In(file'[e]) = IF sinks[s].day = e THEN In(file[e]) \cup In(b)
                                     ELSE In(file[e])
    OBVIOUS
  <2>1. In(file[e] \o b) = In(file[e]) \cup In(b)
    BY <1>2, InConcat
  <2>2. file'[e] = IF sinks[s].day = e THEN file[e] \o b ELSE file[e]
    BY <1>1, FlushedTyped
  <2> QED
    BY <2>1, <2>2
<1>5. sinks[s].day \notin Days => In(b) = {}
  BY <1>3, SinkTyped DEF SinksInOrder
<1>6. Held(s, r) <=> r \in In(b) \/ r \in Among(sinks[s].q)
  BY DEF Held
<1>7. Held(s, r)' <=> r \in Among(sinks[s].q)
  BY <1>1, <1>3 DEF Held
<1> HIDE DEF b
<1>8. Written(r)' <=> Written(r) \/ r \in In(b)
  BY <1>4, <1>5 DEF Written
<1> QED
  BY <1>6, <1>7, <1>8

\* Steps that leave the files, queues and buffers of the sinks alone.
LEMMA SameContents ==
    ASSUME NEW s \in Sinks, sinks'[s].q = sinks[s].q, sinks'[s].buf = sinks[s].buf, NEW r
    PROVE  Held(s, r)' <=> Held(s, r)
  BY DEF Held

LEMMA WriterKeeps ==
    ASSUME SinksTyped, FilesTyped, SinksInOrder, NEW s \in Sinks,
           WriteRecord(s) \/ SeeStop(s) \/ Drained(s) \/ Flush(s), NEW r
    PROVE  /\ Written(r)' \/ Held(s, r)' <=> Written(r) \/ Held(s, r)
           /\ \A k \in Sinks : k # s => sinks'[k] = sinks[k] /\ (Held(k, r)' <=> Held(k, r))
           /\ sinks[s].pc # "done"
           /\ sinks'[s].pc = "done" => ~Held(s, r)'
<1>1. \A k \in Sinks : k # s => sinks'[k] = sinks[k]
  BY WriteRecordDoes, FlushDoes, DrainedDoes, StopDoes DEF SeeStop
<1>2. \A k \in Sinks : k # s => (Held(k, r)' <=> Held(k, r))
  BY <1>1 DEF Held
<1>3. Written(r)' \/ Held(s, r)' <=> Written(r) \/ Held(s, r)
  <2>1. CASE WriteRecord(s)
    BY <2>1, WriteRecordKeeps
  <2>2. CASE SeeStop(s)
    <3>1. UNCHANGED file /\ sinks'[s].q = sinks[s].q /\ sinks'[s].buf = sinks[s].buf
      BY <2>2, StopDoes DEF SeeStop
    <3> QED
      BY <3>1, SameContents DEF Written
  <2>3. CASE Drained(s) \/ Flush(s)
    BY <2>3, FlushKeeps
  <2> QED
    BY <2>1, <2>2, <2>3
<1>4. sinks[s].pc # "done"
  BY DEF WriteRecord, SeeStop, Drained, Flush
<1>5. sinks'[s].pc = "done" => ~Held(s, r)'
  <2>1. CASE WriteRecord(s) \/ Flush(s)
    BY <1>4, <2>1, WriteRecordDoes, FlushDoes
  <2>2. CASE SeeStop(s)
    BY <2>2, StopDoes DEF SeeStop
  <2>3. CASE Drained(s)
    <3>1. sinks'[s].q = << >> /\ sinks'[s].buf = << >>
      BY <2>3, DrainedDoes
    <3> QED
      BY <3>1 DEF Held, In, Among
  <2> QED
    BY <2>1, <2>2, <2>3
<1> QED
  BY <1>1, <1>2, <1>3, <1>4, <1>5

LEMMA OfferKeeps ==
    ASSUME SinksTyped, DispatcherTyped, Offer, NEW r, NEW s \in Sinks,
           NEW k, k = disp.sink, NEW x, x = disp.rec
    PROVE  /\ Held(s, r)' => Held(s, r) \/ r = x
           /\ Held(s, r) => Held(s, r)'
           /\ sinks'[s].pc = sinks[s].pc
           /\ k \in Sinks
           /\ sinks[k].pc = "done" \/ x \in lost' \/ Held(k, x)'
<1>1. k \in Sinks /\ x \in Records /\ \A j \in Sinks : j # k => sinks'[j] = sinks[j]
  BY OfferDoes DEF DispatcherTyped
<1>2. CASE UNCHANGED sinks /\ (sinks[k].pc = "done" \/ x \in lost')
  BY <1>1, <1>2 DEF Held
<1>3. CASE /\ sinks'[k].pc = sinks[k].pc
           /\ sinks'[k].q = Append(sinks[k].q, x)
           /\ sinks'[k].buf = sinks[k].buf
  <2>1. Among(sinks'[k].q) = Among(sinks[k].q) \cup {x}
    BY <1>1, <1>3, SinkTyped, AmongAppend
  <2>2. ASSUME NEW y PROVE Held(k, y)' <=> Held(k, y) \/ y = x
    <3>1. Held(k, y)' <=> y \in In(sinks'[k].buf) \/ y \in Among(sinks'[k].q)
      BY DEF Held
    <3>2. Held(k, y) <=> y \in In(sinks[k].buf) \/ y \in Among(sinks[k].q)
      BY DEF Held
    <3> QED
      BY <1>3, <2>1, <3>1, <3>2
  <2>3. s # k => sinks'[s] = sinks[s] /\ (Held(s, r)' <=> Held(s, r))
    BY <1>1 DEF Held
  <2>4. CASE s = k
    BY <1>1, <1>3, <2>2, <2>4
  <2>5. CASE s # k
    BY <1>1, <2>2, <2>3, <2>5
  <2> QED
    BY <2>4, <2>5
<1> QED
  BY <1>2, <1>3, OfferDoes

LEMMA UnknownInit == UsageInit => Unknown
  BY DEF UsageInit, Unknown, Written, Held, Off, Fresh, In, Among

LEMMA UnknownStep ==
    ASSUME UsageTypeOK, SinksInOrder, Alone, Unknown, [UsageNext]_usageVars
    PROVE  Unknown'
<1> SUFFICES ASSUME NEW r \in Req, Pending(r)'
             PROVE  /\ r \notin blamed' \cup memory' /\ ~Written(r)'
                    /\ \A s \in Sinks : ~Held(s, r)'
  BY DEF Unknown
<1>1. DispatcherTyped /\ RuntimeTyped /\ SinksTyped /\ FilesTyped
  BY TypeParts
<1>2. r \notin blamed \cup memory /\ ~Written(r) /\ \A s \in Sinks : ~Held(s, r)
  BY AloneStep DEF Unknown
<1>3. CASE UNCHANGED <<sinks, file, blamed, memory>>
  BY <1>2, <1>3 DEF Written, Held
<1>4. CASE Record \/ Place \/ Offer
  <2>1. disp.pc # "take" /\ disp'.pc # "record" /\ UNCHANGED <<unpublished, queue>>
    <3>1. ASSUME Record
          PROVE  /\ disp.pc # "take" /\ disp'.pc # "record" /\ UNCHANGED <<unpublished, queue>>
      BY <1>1, <3>1 DEF Record, DispatcherTyped, requests
    <3>2. ASSUME Place
          PROVE  /\ disp.pc # "take" /\ disp'.pc # "record" /\ UNCHANGED <<unpublished, queue>>
      BY <1>1, <3>2 DEF Place, DispatcherTyped, requests, manager
    <3>3. ASSUME Offer
          PROVE  /\ disp.pc # "take" /\ disp'.pc # "record" /\ UNCHANGED <<unpublished, queue>>
      BY <1>1, <3>3 DEF Offer, Idle, requests, manager
    <3> QED
      BY <1>4, <3>1, <3>2, <3>3
  <2>2. r # disp.rec
    BY <2>1, PendingIsNext DEF Alone, Queued
  <2>3. CASE Record
    <3>1. blamed' \subseteq blamed \cup {disp.rec} /\ UNCHANGED <<sinks, file, memory>>
      BY <2>3 DEF Record, disk
    <3> QED
      BY <1>2, <2>2, <3>1 DEF Written, Held
  <2>4. CASE Place
    <3>1. memory' \subseteq memory \cup {disp.rec} /\ UNCHANGED <<sinks, file, blamed>>
      BY <2>4 DEF Place, disk
    <3> QED
      BY <1>2, <2>2, <3>1 DEF Written, Held
  <2>5. CASE Offer
    <3>1. UNCHANGED <<file, blamed, memory>>
      BY <2>5 DEF Offer, statistics
    <3>2. \A s \in Sinks : ~Held(s, r)'
      <4>1. PICK k, x : k = disp.sink /\ x = disp.rec
        OBVIOUS
      <4> QED
        BY <1>1, <1>2, <2>2, <2>5, <4>1, OfferKeeps
    <3> QED
      BY <1>2, <3>1, <3>2 DEF Written
  <2> QED
    BY <1>4, <2>3, <2>4, <2>5
<1>5. CASE Import
  <2>1. memory' \subseteq memory \cup Loaded /\ UNCHANGED <<sinks, file, blamed>>
    BY <1>5 DEF Import, disk
  <2>2. r \notin Loaded
    BY <1>2 DEF Loaded, Written
  <2> QED
    BY <1>2, <2>1, <2>2 DEF Written, Held
<1>6. ASSUME NEW s \in Sinks, WriteRecord(s) \/ SeeStop(s) \/ Drained(s) \/ Flush(s)
      PROVE  /\ r \notin blamed' \cup memory' /\ ~Written(r)'
             /\ \A k \in Sinks : ~Held(k, r)'
  <2>1. UNCHANGED <<blamed, memory>>
    BY <1>6 DEF WriteRecord, SeeStop, Drained, Flush, statistics
  <2>2. /\ ~Written(r)' /\ ~Held(s, r)'
        /\ \A k \in Sinks : k # s => ~Held(k, r)'
    BY <1>1, <1>2, <1>6, WriterKeeps
  <2> QED
    BY <1>2, <2>1, <2>2
<1>7. CASE Swap
  <2>1. UNCHANGED <<file, blamed, memory>>
    BY <1>7 DEF Swap, statistics
  <2>2. \A s \in Sinks : sinks'[s].q = sinks[s].q /\ sinks'[s].buf = sinks[s].buf
    BY <1>1, <1>7, SwapDoes
  <2> QED
    BY <1>2, <2>1, <2>2, SameContents DEF Written
<1>8. CASE Open
  <2>1. UNCHANGED <<file, blamed, memory>>
    BY <1>8 DEF Open, statistics
  <2>2. \A s \in Sinks : sinks'[s] = Fresh \/ sinks'[s] = sinks[s]
    BY <1>1, <1>8, OpenDoes
  <2>3. \A s \in Sinks : ~Held(s, r)'
    BY <1>2, <2>2 DEF Held, Fresh, In, Among
  <2> QED
    BY <1>2, <2>1, <2>3 DEF Written
<1> QED
  <2>1. ASSUME NEW q \in Req, \/ Return(q)
                              \/ \E c \in Contexts : Serve(q, c)
                              \/ \E fails \in BOOLEAN : Publish(q, fails)
        PROVE  UNCHANGED <<sinks, file, blamed, memory>>
    BY <2>1 DEF Return, Serve, Publish, disk, statistics
  <2>2. ASSUME TakeRecord \/ Capture \/ SinkClosed
        PROVE  UNCHANGED <<sinks, file, blamed, memory>>
    BY <2>2 DEF TakeRecord, Capture, SinkClosed, disk, statistics
  <2>3. ASSUME NEW enabled \in BOOLEAN, Switch(enabled)
        PROVE  UNCHANGED <<sinks, file, blamed, memory>>
    BY <2>3 DEF Switch, disk, statistics
  <2>4. UNCHANGED usageVars => UNCHANGED <<sinks, file, blamed, memory>>
    BY DEF usageVars, disk, statistics
  <2> QED
    BY <1>3, <1>4, <1>5, <1>6, <1>7, <1>8, <2>1, <2>2, <2>3, <2>4
    DEF UsageNext, Dispatch, Writer, Configure

-----------------------------------------------------------------------------
(* The outcome of a record. *)

LEMMA StatusInit == UsageInit => StatusKnown
  BY NoneIsNone DEF UsageInit, StatusKnown

\* Only what is no longer on its way is forgotten.
LEMMA StatusKept ==
    ASSUME StatusKnown, UNCHANGED <<context, holder, erred>>,
           \A q \in Req : Pending(q)' => Pending(q),
           \A q \in Req : Pending(q)' => (q \in own => q \in own') /\ (q \in outrun => q \in outrun')
    PROVE  StatusKnown'
  BY DEF StatusKnown

LEMMA ForgetKeeps ==
    ASSUME NEW r, Forget(r), ~Pending(r)'
    PROVE  \A q \in Req : Pending(q)' => (q \in own => q \in own') /\ (q \in outrun => q \in outrun')
  BY DEF Forget

LEMMA StatusStep ==
    ASSUME UsageTypeOK, Alone, StatusKnown, [UsageNext]_usageVars
    PROVE  StatusKnown'
<1>1. RequestsTyped /\ ManagerTyped /\ DispatcherTyped
  BY TypeParts
<1>2. Alone' /\ \A q \in Req : Pending(q)' => Pending(q)
  BY AloneStep
<1>3. CASE UNCHANGED <<context, holder, erred, own, outrun>>
  BY <1>2, <1>3, StatusKept
<1>4. ASSUME NEW r \in Req, NEW c \in Contexts, Serve(r, c) PROVE StatusKnown'
  <2>1. /\ context' = [context EXCEPT ![r] = c] /\ context[r] = None
        /\ holder' = [holder EXCEPT ![c] = r] /\ holder[c] = None
        /\ erred' = erred \ {c} /\ own' = own
        /\ outrun' = outrun \cup {q \in Req : context[q] = c /\ Pending(q)}
    BY <1>4 DEF Serve
  <2>2. ASSUME NEW k \in Contexts, NEW q \in Req,
               holder'[k] \in Req \ {q}, context'[q] = k, Pending(q)
        PROVE  q \in outrun'
    <3>1. CASE k = c
      <4>1. q # r /\ context[q] = c
        BY <1>1, <2>1, <2>2, <3>1 DEF RequestsTyped
      <4> QED
        BY <2>1, <2>2, <4>1
    <3>2. CASE k # c
      <4>1. holder[k] \in Req \ {q} /\ context[q] = k
        BY <1>1, <2>1, <2>2, <3>2 DEF RequestsTyped
      <4> QED
        BY <2>1, <2>2, <4>1 DEF StatusKnown
    <3> QED
      BY <3>1, <3>2
  <2>3. ASSUME NEW q \in Req, context'[q] \in erred', Pending(q)
        PROVE  q \in own' \cup outrun'
    <3>1. context[q] \in erred
      BY <1>1, <2>1, <2>3 DEF RequestsTyped
    <3> QED
      BY <2>1, <2>3, <3>1 DEF StatusKnown
  <2> QED
    BY <1>2, <2>2, <2>3 DEF StatusKnown
<1>5. ASSUME NEW r \in Req, Return(r) PROVE StatusKnown'
  <2>1. PICK c \in Contexts :
          /\ holder[c] = r
          /\ holder' = [holder EXCEPT ![c] = None]
          /\ \/ UNCHANGED <<erred, own>>
             \/ erred' = erred \cup {c} /\ own' = IF Pending(r) THEN own \cup {r} ELSE own
          /\ UNCHANGED <<context, outrun>>
    BY <1>5 DEF Return
  <2>2. ASSUME NEW k \in Contexts, NEW q \in Req,
               holder'[k] \in Req \ {q}, context'[q] = k, Pending(q)
        PROVE  q \in outrun'
    <3>1. holder[k] \in Req \ {q} /\ context[q] = k
      BY <1>1, <2>1, <2>2, NoneIsNone DEF RequestsTyped
    <3> QED
      BY <2>1, <2>2, <3>1 DEF StatusKnown
  <2>3. ASSUME NEW q \in Req, context'[q] \in erred', Pending(q)
        PROVE  q \in own' \cup outrun'
    <3>1. CASE context[q] \in erred
      BY <2>1, <2>3, <3>1 DEF StatusKnown
    <3>2. CASE context[q] \notin erred
      <4>1. context[q] = c /\ own' = IF Pending(r) THEN own \cup {r} ELSE own
        BY <2>1, <2>3, <3>2
      <4>2. CASE q = r
        BY <2>3, <4>1, <4>2
      <4>3. CASE q # r
        BY <2>1, <2>3, <4>1, <4>3 DEF StatusKnown
      <4> QED
        BY <4>2, <4>3
    <3> QED
      BY <3>1, <3>2
  <2> QED
    BY <1>2, <2>2, <2>3 DEF StatusKnown
<1>6. ASSUME NEW r \in Req, NEW fails \in BOOLEAN, Publish(r, fails) PROVE StatusKnown'
  <2>1. /\ UNCHANGED <<context, holder, erred, disp>>
        /\ unpublished' = unpublished \ {r} /\ r \in unpublished
        /\ UNCHANGED <<own, outrun>> \/ (Forget(r) /\ UNCHANGED queue)
    BY <1>6 DEF Publish
  <2>2. CASE UNCHANGED <<own, outrun>>
    BY <1>3, <2>1, <2>2
  <2>3. CASE Forget(r) /\ UNCHANGED queue
    <3>1. ~Pending(r)'
      BY <2>1, <2>3, PendingIsNext DEF Alone, Queued
    <3> QED
      BY <1>2, <2>1, <2>3, <3>1, ForgetKeeps, StatusKept
  <2> QED
    BY <2>1, <2>2, <2>3
<1>7. CASE TakeRecord
  <2>1. /\ UNCHANGED <<context, holder, erred, unpublished>>
        /\ queue # << >> /\ queue' = Tail(queue) /\ disp.pc = "take"
        /\ UNCHANGED <<own, outrun>> \/ (Forget(Head(queue)) /\ UNCHANGED disp)
    BY <1>7 DEF TakeRecord, requests
  <2>2. CASE UNCHANGED <<own, outrun>>
    BY <1>3, <2>1, <2>2
  <2>3. CASE Forget(Head(queue)) /\ UNCHANGED disp
    <3> DEFINE x == Head(queue)
    <3>1. queue \in Seq(Req) /\ \A i, j \in DOMAIN queue : queue[i] = queue[j] => i = j
      BY <1>1 DEF ManagerTyped, Alone
    <3>2. x \notin Among(Tail(queue)) /\ x \in Among(queue)
      BY <2>1, <3>1, AmongTail
    <3>3. x \notin unpublished
      BY <3>2 DEF Alone, Queued
    <3> HIDE DEF x
    <3>4. ~(x \in unpublished' \/ x \in Among(queue') \/ (disp'.pc = "record" /\ disp'.rec = x))
      BY <2>1, <2>3, <3>2, <3>3
    <3>5. \A q \in Req : Pending(q)' => q # x
      BY <3>4, PendingIsNext
    <3>6. \A q \in Req : Pending(q)' => (q \in own => q \in own') /\ (q \in outrun => q \in outrun')
      BY <2>3, <3>5 DEF Forget, x
    <3> QED
      BY <1>2, <2>1, <3>6, StatusKept
  <2> QED
    BY <2>1, <2>2, <2>3
<1>8. CASE Record
  <2>1. UNCHANGED <<context, holder, erred, unpublished, queue>>
        /\ disp.pc = "record" /\ disp'.pc # "record" /\ Forget(disp.rec)
    BY <1>1, <1>8 DEF Record, DispatcherTyped, requests
  <2>2. \A q \in Req : Pending(q)' => q # disp.rec
    BY <2>1, PendingIsNext DEF Alone, Queued
  <2>3. \A q \in Req : Pending(q)' => (q \in own => q \in own') /\ (q \in outrun => q \in outrun')
    BY <2>1, <2>2 DEF Forget
  <2> QED
    BY <1>2, <2>1, <2>3, StatusKept
<1> QED
  <2>1. ASSUME Place \/ Capture \/ Offer \/ Swap \/ SinkClosed \/ Open \/ Import
        PROVE  UNCHANGED <<context, holder, erred, own, outrun>>
    BY <2>1 DEF Place, Capture, Offer, Swap, SinkClosed, Open, Import, requests, manager
  <2>2. ASSUME NEW s \in Sinks, WriteRecord(s) \/ SeeStop(s) \/ Drained(s) \/ Flush(s)
        PROVE  UNCHANGED <<context, holder, erred, own, outrun>>
    BY <2>2 DEF WriteRecord, SeeStop, Drained, Flush, requests, manager
  <2>3. ASSUME NEW enabled \in BOOLEAN, Switch(enabled)
        PROVE  UNCHANGED <<context, holder, erred, own, outrun>>
    BY <2>3 DEF Switch, requests, manager
  <2>4. UNCHANGED usageVars => UNCHANGED <<context, holder, erred, own, outrun>>
    BY DEF usageVars, requests, manager
  <2> QED
    BY <1>3, <1>4, <1>5, <1>6, <1>7, <1>8, <2>1, <2>2, <2>3, <2>4
    DEF UsageNext, Dispatch, Writer, Configure

\* What the counters say of a request is its own outcome, as long as its gin
\* context has not been given away: the dispatcher asks for the status of the
\* answer when the handler may be gone.
THEOREM OutcomesAreOwn == UsageSpec => OutcomeIsOwn
<1> DEFINE A == \A r \in Req :
                   disp.pc = "record" /\ disp.rec = r /\ counted'[r] > counted[r] =>
                      /\ r \in failed => r \in blamed'
                      /\ r \in blamed' => r \in failed \cup own \cup outrun
           I == UsageTypeOK /\ SinksInOrder /\ Alone /\ Unknown /\ StatusKnown
<1>1. UsageInit => I
  BY TypeInit, OrderInit, AloneInit, UnknownInit, StatusInit
<1>2. I /\ [UsageNext]_usageVars => I'
  BY TypeStep, OrderStep, AloneStep, UnknownStep, StatusStep
<1>3. I /\ [UsageNext]_usageVars => [A]_usageVars
  <2> SUFFICES ASSUME I, [UsageNext]_usageVars, NEW r \in Req,
                      disp.pc = "record", disp.rec = r, counted'[r] > counted[r]
               PROVE  /\ r \in failed => r \in blamed'
                      /\ r \in blamed' => r \in failed \cup own \cup outrun
    OBVIOUS
  <2>1. /\ r \notin blamed /\ ~Written(r)
        /\ context[r] \in erred => r \in own \cup outrun
    BY PendingIs DEF Unknown, StatusKnown
  <2>2. counted \in [Records -> Nat] /\ r \in Records
    BY DEF UsageTypeOK, Records
  <2>3. CASE UNCHANGED counted
    BY <2>2, <2>3
  <2>4. CASE Record
    <3>1. blamed' = IF Failure(r) THEN blamed \cup {r} ELSE blamed
      BY <2>2, <2>4 DEF Record
    <3> QED
      BY <2>1, <3>1 DEF Failure
  <2>5. CASE Import
    <3>1. r \notin Loaded
      BY <2>1 DEF Loaded, Written
    <3>2. counted'[r] = counted[r] + 0
      BY <2>2, <2>5, <3>1 DEF Import
    <3> QED
      BY <2>2, <3>2
  <2> QED
    <3>1. ASSUME NEW q \in Req, \/ Return(q)
                                \/ \E c \in Contexts : Serve(q, c)
                                \/ \E fails \in BOOLEAN : Publish(q, fails)
          PROVE  UNCHANGED counted
      BY <3>1 DEF Return, Serve, Publish, statistics
    <3>2. ASSUME TakeRecord \/ Place \/ Capture \/ Offer \/ Swap \/ SinkClosed \/ Open
          PROVE  UNCHANGED counted
      BY <3>2 DEF TakeRecord, Place, Capture, Offer, Swap, SinkClosed, Open, statistics
    <3>3. ASSUME NEW s \in Sinks, WriteRecord(s) \/ SeeStop(s) \/ Drained(s) \/ Flush(s)
          PROVE  UNCHANGED counted
      BY <3>3 DEF WriteRecord, SeeStop, Drained, Flush, statistics
    <3>4. ASSUME NEW enabled \in BOOLEAN, Switch(enabled) PROVE UNCHANGED counted
      BY <3>4 DEF Switch, statistics
    <3>5. UNCHANGED usageVars => UNCHANGED counted
      BY DEF usageVars, statistics
    <3> QED
      BY <2>3, <2>4, <2>5, <3>1, <3>2, <3>3, <3>4, <3>5
      DEF UsageNext, Dispatch, Writer, Configure
<1>4. UsageSpec => [][A]_usageVars
  <2> HIDE DEF A, I
  <2> QED
    BY <1>1, <1>2, <1>3, PTL DEF UsageSpec
<1> QED
  BY <1>4 DEF OutcomeIsOwn

-----------------------------------------------------------------------------
(* The details of counted requests. *)

LEMMA DetailsInit == UsageInit => DetailsSafe
<1> SUFFICES ASSUME UsageInit, NEW r \in Req PROVE ~(counted[r] > 0)
  BY DEF DetailsSafe
<1> QED
  BY DEF UsageInit, Records

\* The sinks' steps keep safe what is safe.
LEMMA WriterSafe ==
    ASSUME SinksTyped, FilesTyped, SinksInOrder, NEW s \in Sinks,
           WriteRecord(s) \/ SeeStop(s) \/ Drained(s) \/ Flush(s), NEW r, Safe(r)
    PROVE  Safe(r)'
<1>1. UNCHANGED <<memory, lost>>
  BY DEF WriteRecord, SeeStop, Drained, Flush, statistics
<1>2. CASE Written(r) \/ Held(s, r)
  <2>1. Written(r)' \/ (Held(s, r)' /\ sinks'[s].pc # "done")
    BY <1>2, WriterKeeps
  <2> QED
    BY <2>1 DEF Safe
<1>3. ASSUME NEW k \in Sinks, k # s, sinks[k].pc # "done", Held(k, r) PROVE Safe(r)'
  <2>1. sinks'[k].pc # "done" /\ Held(k, r)'
    BY <1>3, WriterKeeps
  <2> QED
    BY <2>1 DEF Safe
<1> QED
  BY <1>1, <1>2, <1>3 DEF Safe

\* Steps that leave the disk alone.
LEMMA SafeKept ==
    ASSUME NEW r, Safe(r), UNCHANGED <<sinks, file>>, memory \subseteq memory', lost \subseteq lost'
    PROVE  Safe(r)'
  BY DEF Safe, Written, Held

LEMMA DispatchSafe ==
    ASSUME UsageTypeOK, SinksInOrder, Alone, DetailsSafe, Dispatch
    PROVE  DetailsSafe'
<1>1. DispatcherTyped /\ RuntimeTyped /\ SinksTyped /\ CountsTyped /\ ManagerTyped
  BY TypeParts
<1> SUFFICES ASSUME NEW r \in Req, counted'[r] > 0, r \notin crossed'
             PROVE  /\ disp'.rec # r \/ disp'.pc = "record" => Safe(r)'
                    /\ disp'.rec = r /\ disp'.pc = "capture" =>
                         r \in memory' \/ (sink' # None /\ ~Locked')
                    /\ disp'.rec = r /\ disp'.pc = "offer" =>
                         r \in memory' \/ sinks'[disp'.sink].pc = "run"
  BY DEF DetailsSafe
<1>2. r # Blank /\ UNCHANGED <<crossed, file, runtime>>
  <2>1. UNCHANGED <<crossed, file, runtime>>
    BY DEF Dispatch, TakeRecord, Record, Place, Capture, Offer, disk
  <2> QED
    BY <2>1, NoneIsNone
<1>3. Idle.rec # r /\ Idle.pc = "take"
  BY <1>2 DEF Idle
<1>4. CASE TakeRecord
  <2>1. UNCHANGED <<counted, memory, lost, sinks>> /\ disp.pc = "take" /\ disp.rec # r
    BY <1>2, <1>4 DEF TakeRecord, statistics, disk, Alone
  <2>2. Safe(r)
    BY <1>2, <2>1 DEF DetailsSafe
  <2>3. Safe(r)'
    BY <1>2, <2>1, <2>2, SafeKept
  <2>4. disp'.pc \in {"take", "record"}
    BY <1>1, <1>4, <2>1 DEF TakeRecord, Idle
  <2> QED
    BY <2>3, <2>4
<1>5. CASE Record
  <2>1. UNCHANGED <<memory, lost, sinks>> /\ disp.pc = "record"
    BY <1>5 DEF Record, disk
  <2>2. disp'.pc \in {"place", "capture"} /\ (disp'.pc = "capture" => disp'.rec = Blank)
        /\ (disp'.pc = "place" => disp'.rec = disp.rec)
    BY <1>1, <1>5 DEF Record, DispatcherTyped
  <2>3. CASE disp'.rec = r
    BY <1>2, <2>2, <2>3
  <2>4. CASE disp'.rec # r
    <3>1. counted'[r] = counted[r]
      <4>1. CASE disp' = [disp EXCEPT !.pc = "place"]
        <5>1. disp.rec # r
          BY <1>1, <2>4, <4>1 DEF DispatcherTyped
        <5> QED
          BY <1>1, <1>5, <5>1 DEF Record, CountsTyped, Records
      <4>2. CASE UNCHANGED counted
        BY <4>2
      <4> QED
        BY <1>5, <4>1, <4>2 DEF Record
    <3>2. Safe(r)
      BY <1>2, <2>1, <3>1 DEF DetailsSafe
    <3>3. Safe(r)'
      BY <1>2, <2>1, <3>2, SafeKept
    <3> QED
      BY <2>2, <2>4, <3>3
  <2> QED
    BY <2>3, <2>4
<1>6. CASE Place
  <2>1. /\ UNCHANGED <<counted, lost, sinks>> /\ disp.pc = "place" /\ ~Locked
        /\ memory' = IF sink = None THEN memory \cup {disp.rec} ELSE memory
        /\ disp'.pc = "capture" /\ disp'.rec = disp.rec
    BY <1>1, <1>6 DEF Place, disk, DispatcherTyped
  <2>2. CASE disp.rec = r
    BY <1>2, <2>1, <2>2 DEF Locked, runtime
  <2>3. CASE disp.rec # r
    <3>1. Safe(r)
      BY <1>2, <2>1, <2>3 DEF DetailsSafe
    <3>2. Safe(r)'
      BY <1>2, <2>1, <3>1, SafeKept
    <3> QED
      BY <2>1, <2>3, <3>2
  <2> QED
    BY <2>2, <2>3
<1>7. CASE Capture
  <2>1. /\ UNCHANGED <<counted, memory, lost, sinks>> /\ disp.pc = "capture" /\ ~Locked
        /\ disp' = IF sink = None THEN Idle ELSE [disp EXCEPT !.pc = "offer", !.sink = sink]
    BY <1>7 DEF Capture, statistics, disk
  <2>2. disp.rec # r => Safe(r)'
    <3>1. disp.rec # r => Safe(r)
      BY <1>2, <2>1 DEF DetailsSafe
    <3> QED
      BY <1>2, <2>1, <3>1, SafeKept
  <2>3. CASE sink = None
    <3>1. disp.rec = r => r \in memory
      BY <1>2, <2>1, <2>3 DEF DetailsSafe
    <3>2. Safe(r)'
      BY <2>1, <2>2, <3>1 DEF Safe
    <3> QED
      BY <1>3, <2>1, <2>3, <3>2
  <2>4. CASE sink # None
    <3>1. disp' = [disp EXCEPT !.pc = "offer", !.sink = sink]
      BY <2>1, <2>4
    <3>2. disp'.pc = "offer" /\ disp'.rec = disp.rec /\ disp'.sink = sink
      BY <1>1, <3>1 DEF DispatcherTyped
    <3>3. sinks'[sink].pc = "run"
      BY <2>1, <2>4 DEF SinksInOrder
    <3> QED
      BY <2>2, <3>2, <3>3
  <2> QED
    BY <2>3, <2>4
<1>8. CASE Offer
  <2>1. PICK k, x : k = disp.sink /\ x = disp.rec
    OBVIOUS
  <2>2. UNCHANGED <<counted, memory>> /\ disp' = Idle /\ disp.pc = "offer" /\ lost \subseteq lost'
    BY <1>8 DEF Offer, statistics
  <2>3. /\ \A s \in Sinks : (Held(s, r) => Held(s, r)') /\ sinks'[s].pc = sinks[s].pc
        /\ k \in Sinks
        /\ sinks[k].pc = "done" \/ x \in lost' \/ Held(k, x)'
    <3>1. ASSUME NEW s \in Sinks
          PROVE  /\ Held(s, r) => Held(s, r)'
                 /\ sinks'[s].pc = sinks[s].pc
                 /\ k \in Sinks
                 /\ sinks[k].pc = "done" \/ x \in lost' \/ Held(k, x)'
      BY <1>1, <1>8, <2>1, OfferKeeps
    <3>2. k \in Sinks
      BY <1>1, <1>8, <2>1, OfferDoes
    <3> QED
      BY <3>1, <3>2
  <2>4. ASSUME x # r PROVE Safe(r)'
    <3>1. Safe(r)
      BY <1>2, <2>1, <2>2, <2>4 DEF DetailsSafe
    <3> QED
      BY <1>2, <2>2, <2>3, <3>1 DEF Safe, Written
  <2>5. ASSUME x = r PROVE Safe(r)'
    <3>1. r \in memory \/ sinks[k].pc = "run"
      BY <1>2, <2>1, <2>2, <2>5 DEF DetailsSafe
    <3>2. r \in memory' \/ r \in lost' \/ (sinks'[k].pc # "done" /\ Held(k, r)')
      BY <2>2, <2>3, <2>5, <3>1
    <3> QED
      BY <2>3, <3>2 DEF Safe
  <2> QED
    BY <1>3, <2>2, <2>4, <2>5
<1> QED
  BY <1>4, <1>5, <1>6, <1>7, <1>8 DEF Dispatch

LEMMA DetailsStep ==
    ASSUME UsageTypeOK, SinksInOrder, Alone, DetailsSafe, [UsageNext]_usageVars
    PROVE  DetailsSafe'
<1>1. DispatcherTyped /\ RuntimeTyped /\ SinksTyped /\ FilesTyped /\ CountsTyped
  BY TypeParts
<1>2. CASE Dispatch
  BY <1>2, DispatchSafe
<1>3. CASE UNCHANGED <<disp, runtime, disk, counted, memory, crossed>>
  BY <1>3 DEF DetailsSafe, Safe, Written, Held, Locked, runtime, disk
<1>4. ASSUME NEW s \in Sinks, WriteRecord(s) \/ SeeStop(s) \/ Drained(s) \/ Flush(s)
      PROVE  DetailsSafe'
  <2>1. UNCHANGED <<disp, runtime, counted, memory, lost, crossed>>
    BY <1>4 DEF WriteRecord, SeeStop, Drained, Flush, statistics
  <2>2. \A k \in Sinks : sinks[k].pc = "run" => sinks'[k].pc = "run"
    <3>1. \A k \in Sinks : k # s => sinks'[k] = sinks[k]
      BY <1>1, <1>4, WriterKeeps
    <3>2. sinks[s].pc = "run" => sinks'[s].pc = "run"
      <4>1. CASE WriteRecord(s)
        BY <1>1, <4>1, WriteRecordDoes
      <4>2. CASE Flush(s)
        BY <1>1, <4>2, FlushDoes
      <4>3. CASE SeeStop(s) \/ Drained(s)
        BY <4>3 DEF SeeStop, Drained
      <4> QED
        BY <1>4, <4>1, <4>2, <4>3
    <3> QED
      BY <3>1, <3>2
  <2>3. \A r : Safe(r) => Safe(r)'
    BY <1>1, <1>4, WriterSafe
  <2>4. disp.pc = "offer" => disp.sink \in Sinks
    BY <1>1 DEF DispatcherTyped
  <2> QED
    BY <2>1, <2>2, <2>3, <2>4 DEF DetailsSafe, Locked, runtime
<1>5. CASE Swap
  <2>1. /\ UNCHANGED <<disp, file, lost, counted, memory>>
        /\ crossed' = IF disp.pc \in {"capture", "offer"} THEN crossed \cup {disp.rec} ELSE crossed
    BY <1>5 DEF Swap, statistics
  <2>2. \A s \in Sinks : /\ sinks'[s].q = sinks[s].q /\ sinks'[s].buf = sinks[s].buf
                         /\ sinks[s].pc # "done" => sinks'[s].pc # "done"
    BY <1>1, <1>5, SwapDoes
  <2>3. \A r : Safe(r) => Safe(r)'
    <3> SUFFICES ASSUME NEW r, Safe(r) PROVE Safe(r)'
      OBVIOUS
    <3>1. \A s \in Sinks : Held(s, r)' <=> Held(s, r)
      BY <2>2, SameContents
    <3> QED
      BY <2>1, <2>2, <3>1 DEF Safe, Written
  <2> QED
    BY <2>1, <2>3 DEF DetailsSafe
<1>6. CASE Open
  <2>1. UNCHANGED <<disp, file, lost, counted, memory, crossed>> /\ config.pc = "open"
    BY <1>6 DEF Open, statistics
  <2>2. \A s \in Sinks : sinks[s].pc = "done"
    BY <1>1, <1>6, OpenDoes
  <2>3. \A r : Safe(r) => Safe(r)'
    BY <2>1, <2>2 DEF Safe, Written
  <2>4. disp.pc = "offer" => disp.sink \in Sinks
    BY <1>1 DEF DispatcherTyped
  <2>5. \A r \in Req : counted[r] > 0 /\ r \notin crossed /\ disp.rec = r
                         /\ disp.pc \in {"capture", "offer"} => r \in memory
    BY <2>1, <2>2, <2>4 DEF DetailsSafe, Locked
  <2> QED
    BY <2>1, <2>3, <2>5 DEF DetailsSafe
<1>7. CASE SinkClosed \/ \E enabled \in BOOLEAN : Switch(enabled)
  <2>1. UNCHANGED <<disp, disk, counted, memory, crossed, sink>>
    BY <1>7 DEF SinkClosed, Switch, statistics
  <2>2. ~Locked => ~Locked'
    <3>1. CASE SinkClosed
      BY <3>1 DEF SinkClosed, Locked
    <3>2. ASSUME NEW enabled \in BOOLEAN, Switch(enabled) PROVE ~Locked'
      BY <3>2 DEF Switch, Locked
    <3> QED
      BY <1>7, <3>1, <3>2
  <2> QED
    BY <2>1, <2>2 DEF DetailsSafe, Safe, Written, Held, disk
<1>8. CASE Import
  <2>1. UNCHANGED <<disp, sinks, file, lost, runtime, crossed>>
    BY <1>8 DEF Import, disk
  <2>2. \A r \in Req : /\ r \in memory => r \in memory'
                       /\ counted'[r] # counted[r] => r \in memory'
    BY <1>1, <1>8 DEF Import, CountsTyped, Records
  <2>3. \A r : Safe(r) => Safe(r)'
    <3>1. memory \subseteq memory'
      BY <1>8 DEF Import
    <3> QED
      BY <2>1, <3>1, SafeKept
  <2>4. \A r \in Req : r \in memory' => Safe(r)'
    BY DEF Safe
  <2> QED
    BY <2>1, <2>2, <2>3, <2>4 DEF DetailsSafe, Locked, runtime
<1> QED
  <2>1. ASSUME NEW r \in Req, \/ Return(r)
                              \/ \E c \in Contexts : Serve(r, c)
                              \/ \E fails \in BOOLEAN : Publish(r, fails)
        PROVE  UNCHANGED <<disp, runtime, disk, counted, memory, crossed>>
    BY <2>1 DEF Return, Serve, Publish, statistics
  <2>2. UNCHANGED usageVars => UNCHANGED <<disp, runtime, disk, counted, memory, crossed>>
    BY DEF usageVars, statistics
  <2> QED
    BY <1>2, <1>3, <1>4, <1>5, <1>6, <1>7, <1>8, <2>1, <2>2 DEF UsageNext, Writer, Configure

\* No detail of a counted request is lost unnoticed while sinks are told to
\* stop, drain, are closed and replaced, unless the sink was replaced while the
\* dispatcher had the record in its hands.
THEOREM DetailsKept == UsageSpec => []DetailKept
<1> DEFINE I == UsageTypeOK /\ SinksInOrder /\ Alone /\ DetailsSafe
<1>1. UsageInit => I
  BY TypeInit, OrderInit, AloneInit, DetailsInit
<1>2. I /\ [UsageNext]_usageVars => I'
  BY TypeStep, OrderStep, AloneStep, DetailsStep
<1>3. I => DetailKept
  BY DEF DetailsSafe, DetailKept, Safe, Written, Held, Among
<1> QED
  <2> HIDE DEF I
  <2> QED
    BY <1>1, <1>2, <1>3, PTL DEF UsageSpec
=============================================================================
