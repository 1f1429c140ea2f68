---------------------------- MODULE UsageRecords ----------------------------
(***************************************************************************)
(* What a request leaves in the usage statistics: the record it publishes  *)
(* (internal/runtime/executor/usage_helpers.go), the queue and dispatcher  *)
(* of sdk/cliproxy/usage, the counters and details of                      *)
(* internal/usage/logger_plugin.go, the sink that appends details to a     *)
(* file per day (detail_sink.go), and the configuration that replaces the  *)
(* sink while all of them run (runtime.go).                                *)
(*                                                                         *)
(* The dispatcher works behind the requests.  It asks the gin context of a *)
(* request for the status of its answer, when gin may have given the       *)
(* context to another request.  Details go to memory when there is no sink *)
(* and to the sink otherwise, which it asks for twice.                     *)
(*                                                                         *)
(* Left out: the windows after which details leave memory and files are    *)
(* deleted (no run lasts an hour), and errors of the file system.          *)
(***************************************************************************)
EXTENDS Naturals, Sequences

CONSTANTS
    Req,         \* requests
    Contexts,    \* gin contexts, which gin reuses
    Days, DayOf, \* the day of each record's timestamp
    Sinks,       \* detail sinks; one that is over and unused is used again, and
                 \* there is always one
    Buffer,      \* capacity of Manager.queue: 512 in the code
    Cap,         \* capacity of detailSink.queue: 4096 in the code
    Blank,       \* the record without content that HandleUsage may enqueue
    None

Records == Req \cup {Blank}

ASSUME UsageAssumption ==
    /\ Buffer \in Nat \ {0} /\ Cap \in Nat
    /\ DayOf \in [Records -> Days]
    /\ Blank \notin Req /\ None \notin Records \cup Contexts \cup Days \cup Sinks
    /\ \A s \in Sinks \cup {None} : \E t \in Sinks : t # s

VARIABLES
    context,   \* the gin context in each request's context.Context
    holder,    \* the request each gin context serves
    erred,     \* gin contexts with a status of 400 or more
    unpublished, \* requests that have not published their record
    failed,    \* of the records on their way, those published as failures
    queue,     \* Manager.queue
    disp,      \* [pc, rec, sink] of Manager.run, in LoggerPlugin.HandleUsage
    on,        \* statisticsEnabled
    config,    \* [pc, enabled] of the goroutine that applies a configuration
    sink,      \* defaultRuntime.sink
    sinks,     \* [pc, q, day, buf] of each sink
    file,      \* the pieces of lines in the file of each day
    counted,   \* how often each record is in the counters
    blamed,    \* records counted as failures
    memory,    \* details kept in memory
    lost,      \* records counted in a sink's dropped
    own,       \* history, while their records are on their way: requests
               \* answered with a status of 400 or more,
    outrun,    \* and requests whose context has been reused
    crossed    \* history: records given to a sink while it was replaced

requests == <<context, holder, erred, unpublished>>
manager == <<queue, failed, own, outrun>>
runtime == <<on, config, sink>>
statistics == <<counted, blamed, memory>>
disk == <<sinks, file, lost>>
usageVars == <<requests, manager, disp, runtime, disk, statistics, crossed>>

Idle == [pc |-> "take", rec |-> Blank, sink |-> None]
Fresh == [pc |-> "run", q |-> << >>, day |-> None, buf |-> << >>]
Off == [Fresh EXCEPT !.pc = "done"]
Applied == [pc |-> "idle", enabled |-> FALSE]

\* A process starts with statistics on and without a sink, whatever its
\* configuration says: UpdateClients looks for changes only.  Its files are new ones:
\* nothing closes the sink when a process ends, so that the file of a day on which an
\* earlier process ended may close with a cut line, to which the next one appends.
\* That loss is outside this module, as is the end of the process itself.
UsageInit ==
    /\ context = [r \in Req |-> None]
    /\ holder = [c \in Contexts |-> None] /\ erred = {}
    /\ unpublished = Req /\ failed = {} /\ own = {}
    /\ queue = << >> /\ disp = Idle
    /\ on = TRUE /\ config = Applied
    /\ sink = None /\ sinks = [s \in Sinks |-> Off]
    /\ file = [d \in Days |-> << >>]
    /\ counted = [r \in Records |-> 0] /\ blamed = {} /\ memory = {}
    /\ lost = {} /\ outrun = {} /\ crossed = {}

-----------------------------------------------------------------------------
(* Requests. *)

\* Records that are still to be counted.
Pending(r) ==
    \/ r \in unpublished
    \/ \E i \in DOMAIN queue : queue[i] = r
    \/ disp.pc = "record" /\ disp.rec = r

\* A record that is counted, ignored or dropped has nothing to remember.
Forget(r) ==
    /\ failed' = failed \ {r}
    /\ own' = own \ {r}
    /\ outrun' = outrun \ {r}

\* gin takes a context from its pool for a request, and resets its status.
Serve(r, c) ==
    /\ context[r] = None /\ holder[c] = None
    /\ context' = [context EXCEPT ![r] = c]
    /\ holder' = [holder EXCEPT ![c] = r]
    /\ erred' = erred \ {c}
    /\ outrun' = outrun \cup {q \in Req : context[q] = c /\ Pending(q)}
    /\ UNCHANGED <<unpublished, queue, failed, own, disp, runtime, disk, statistics, crossed>>

\* The handler answers, with an error or without, and returns; the context is
\* back in the pool.
Return(r) ==
    \E c \in Contexts :
        /\ holder[c] = r
        /\ holder' = [holder EXCEPT ![c] = None]
        /\ \/ UNCHANGED <<erred, own>>
           \/ /\ erred' = erred \cup {c}
              /\ own' = IF Pending(r) THEN own \cup {r} ELSE own
        /\ UNCHANGED <<context, unpublished, queue, failed, outrun, disp, runtime, disk,
                       statistics, crossed>>

\* Manager.Publish, once for each reporter; a stream whose client has left
\* publishes after its handler has returned.  A record is dropped when the
\* queue is full.
Publish(r, fails) ==
    /\ context[r] # None /\ r \in unpublished
    /\ unpublished' = unpublished \ {r}
    /\ \/ /\ Len(queue) < Buffer
          /\ queue' = Append(queue, r)
          /\ failed' = IF fails THEN failed \cup {r} ELSE failed
          /\ UNCHANGED <<own, outrun>>
       \/ /\ Len(queue) >= Buffer
          /\ Forget(r)
          /\ UNCHANGED queue
    /\ UNCHANGED <<context, holder, erred, disp, runtime, disk, statistics, crossed>>

-----------------------------------------------------------------------------
(* The dispatcher: Manager.run and LoggerPlugin.HandleUsage. *)

\* A configuration holds the lock of the runtime.
Locked == config.pc \in {"wait", "open"}

\* run takes a record, and HandleUsage asks whether statistics are on.
TakeRecord ==
    /\ disp.pc = "take" /\ queue # << >>
    /\ queue' = Tail(queue)
    /\ \/ /\ on
          /\ disp' = [Idle EXCEPT !.pc = "record", !.rec = Head(queue)]
          /\ UNCHANGED <<failed, own, outrun>>
       \/ /\ ~on
          /\ Forget(Head(queue))
          /\ UNCHANGED disp
    /\ UNCHANGED <<requests, runtime, disk, statistics, crossed>>

\* Mutant of Failure: the record's own outcome is overruled.
FailureOfStatus(r) == context[r] \in erred

\* resolveSuccess: a record that did not fail is counted by the status that its
\* gin context has now.
Failure(r) == r \in failed \/ context[r] \in erred

\* Record asks again, and counts the record; the statistics stay locked until
\* its detail has its place.  If they were switched off in between, HandleUsage
\* goes on with a blank record.
Record ==
    /\ disp.pc = "record"
    /\ \/ /\ on
          /\ counted' = [counted EXCEPT ![disp.rec] = @ + 1]
          /\ blamed' = IF Failure(disp.rec) THEN blamed \cup {disp.rec} ELSE blamed
          /\ disp' = [disp EXCEPT !.pc = "place"]
       \/ /\ ~on
          /\ disp' = [disp EXCEPT !.pc = "capture", !.rec = Blank]
          /\ UNCHANGED <<counted, blamed>>
    /\ Forget(disp.rec)
    /\ UNCHANGED <<requests, queue, runtime, disk, memory, crossed>>

\* updateAPIStats: without a sink the detail is kept in memory.
Place ==
    /\ disp.pc = "place" /\ ~Locked
    /\ memory' = IF sink = None THEN memory \cup {disp.rec} ELSE memory
    /\ disp' = [disp EXCEPT !.pc = "capture"]
    /\ UNCHANGED <<requests, manager, runtime, disk, counted, blamed, crossed>>

\* enqueueDetailRecord asks for the sink, and lets go of the lock.
Capture ==
    /\ disp.pc = "capture" /\ ~Locked
    /\ disp' = IF sink = None THEN Idle ELSE [disp EXCEPT !.pc = "offer", !.sink = sink]
    /\ UNCHANGED <<requests, manager, runtime, disk, statistics, crossed>>

\* Mutant of Offer: a detail that finds the queue full is not counted.
OfferQuietly ==
    /\ disp.pc = "offer"
    /\ sinks' = IF Len(sinks[disp.sink].q) < Cap
                THEN [sinks EXCEPT ![disp.sink].q = Append(@, disp.rec)]
                ELSE sinks
    /\ disp' = Idle
    /\ UNCHANGED <<requests, manager, runtime, file, lost, statistics, crossed>>

\* detailSink.Enqueue.  Nobody reads the queue of a sink that is over any more.
Offer ==
    /\ disp.pc = "offer"
    /\ \/ /\ sinks[disp.sink].pc = "done"
          /\ UNCHANGED <<sinks, lost>>
       \/ /\ sinks[disp.sink].pc # "done" /\ Len(sinks[disp.sink].q) < Cap
          /\ sinks' = [sinks EXCEPT ![disp.sink].q = Append(@, disp.rec)]
          /\ UNCHANGED lost
       \/ /\ sinks[disp.sink].pc # "done" /\ Len(sinks[disp.sink].q) >= Cap
          /\ lost' = lost \cup {disp.rec}
          /\ UNCHANGED sinks
    /\ disp' = Idle
    /\ UNCHANGED <<requests, manager, runtime, file, statistics, crossed>>

-----------------------------------------------------------------------------
(* The goroutine of a sink: detailSink.run. *)

Line(r) == [rec |-> r, part |-> "whole"]
FirstPart(r) == [rec |-> r, part |-> "head"]
LastPart(r) == [rec |-> r, part |-> "tail"]

\* ensureWriterLocked: the buffer of another day is flushed first.
Kept(s, d) ==
    IF sinks[s].day \in Days \ {d}
    THEN [file EXCEPT ![sinks[s].day] = @ \o sinks[s].buf]
    ELSE file

\* writeRecord.  A line that does not fit into the buffer fills it: the buffer
\* goes to the file with the first part of the line, and the rest stays.
WriteRecord(s) ==
    LET r == Head(sinks[s].q)
        d == DayOf[r]
        held == IF sinks[s].day = d THEN sinks[s].buf ELSE << >>
        taken(b) == [sinks EXCEPT ![s].q = Tail(@), ![s].day = d, ![s].buf = b]
    IN  /\ sinks[s].pc \in {"run", "stop", "drain"} /\ sinks[s].q # << >>
        /\ \/ /\ sinks' = taken(Append(held, Line(r)))
              /\ file' = Kept(s, d)
           \/ /\ held # << >>
              /\ sinks' = taken(<<LastPart(r)>>)
              /\ file' = [Kept(s, d) EXCEPT ![d] = @ \o Append(held, FirstPart(r))]
        /\ UNCHANGED <<requests, manager, disp, runtime, lost, statistics, crossed>>

\* Mutant of Flushed: the file is closed with lines in the buffer.
ClosedUnflushed(s) == file

\* The buffer goes to the file of its day.
Flushed(s) ==
    IF sinks[s].day \in Days THEN [file EXCEPT ![sinks[s].day] = @ \o sinks[s].buf] ELSE file

\* flushCurrent, every two seconds.
Flush(s) ==
    /\ sinks[s].pc \in {"run", "stop"} /\ sinks[s].buf # << >>
    /\ file' = Flushed(s)
    /\ sinks' = [sinks EXCEPT ![s].buf = << >>]
    /\ UNCHANGED <<requests, manager, disp, runtime, lost, statistics, crossed>>

\* The loop sees that it has to stop, and drains its queue.
SeeStop(s) ==
    /\ sinks[s].pc = "stop"
    /\ sinks' = [sinks EXCEPT ![s].pc = "drain"]
    /\ UNCHANGED <<requests, manager, disp, runtime, file, lost, statistics, crossed>>

\* drainAndClose finds the queue empty: the file is flushed and closed.
Drained(s) ==
    /\ sinks[s].pc = "drain" /\ sinks[s].q = << >>
    /\ file' = Flushed(s)
    /\ sinks' = [sinks EXCEPT ![s].pc = "done", ![s].day = None, ![s].buf = << >>]
    /\ UNCHANGED <<requests, manager, disp, runtime, lost, statistics, crossed>>

-----------------------------------------------------------------------------
(* The configuration: UpdateClients and ConfigureRuntime. *)

\* SetStatisticsEnabled comes first.
Switch(enabled) ==
    /\ config.pc = "idle"
    /\ on' = enabled
    /\ config' = [pc |-> "swap", enabled |-> enabled]
    /\ UNCHANGED <<requests, manager, disp, sink, disk, statistics, crossed>>

\* ConfigureRuntime locks the runtime and tells its sink to stop.
Swap ==
    /\ config.pc = "swap"
    /\ config' = [config EXCEPT !.pc = IF sink = None THEN "open" ELSE "wait"]
    /\ sinks' = IF sink = None THEN sinks ELSE [sinks EXCEPT ![sink].pc = "stop"]
    /\ crossed' = IF disp.pc \in {"capture", "offer"} THEN crossed \cup {disp.rec} ELSE crossed
    /\ UNCHANGED <<requests, manager, disp, on, sink, file, lost, statistics,
                   outrun>>

\* detailSink.Close waits until the goroutine of the sink is over.
SinkClosed ==
    /\ config.pc = "wait" /\ sinks[sink].pc = "done"
    /\ config' = [config EXCEPT !.pc = "open"]
    /\ UNCHANGED <<requests, manager, disp, on, sink, disk, statistics, crossed>>

\* Mutant of Open: the lock is not released.
OpenLocked == config.pc = "open" /\ UNCHANGED usageVars

\* newDetailSink, if statistics are on, and the lock is released.
Open ==
    /\ config.pc = "open"
    /\ config' = Applied
    /\ \/ /\ config.enabled
          /\ sink' = CHOOSE s \in Sinks : sinks[s].pc = "done" /\ disp.sink # s
          /\ sinks' = [sinks EXCEPT ![sink'] = Fresh]
       \/ /\ ~config.enabled
          /\ sink' = None
          /\ UNCHANGED sinks
    /\ UNCHANGED <<requests, manager, disp, on, file, lost, statistics, crossed>>

-----------------------------------------------------------------------------
(* Management: export and import. *)

\* Every head is followed by its tail, and every tail follows its head.
Joined(x, y) == x.part = "head" /\ y.part = "tail" /\ x.rec = y.rec
Sound(f) ==
    \A i \in DOMAIN f :
        /\ f[i].part = "head" => i < Len(f) /\ Joined(f[i], f[i + 1])
        /\ f[i].part = "tail" => i > 1 /\ Joined(f[i - 1], f[i])

In(f) == {f[i].rec : i \in DOMAIN f}

\* SnapshotWithPersistedDetails: one line that cannot be parsed fails the query
\* for every day, and the answer has the details of the memory only.
Loaded ==
    IF sink # None /\ \A d \in Days : Sound(file[d]) THEN UNION {In(file[d]) : d \in Days} ELSE {}

\* ExportUsageStatistics, and ImportUsageStatistics of what was exported:
\* MergeSnapshot counts what is not among the details in memory, and keeps it
\* there.  The statistics and the runtime must not be locked.
Import ==
    LET added == Loaded \ memory
    IN  /\ disp.pc # "place" /\ ~Locked
        /\ counted' = [r \in Records |-> counted[r] + IF r \in added THEN 1 ELSE 0]
        /\ memory' = memory \cup added
        /\ UNCHANGED <<requests, manager, disp, runtime, disk, blamed, crossed>>

-----------------------------------------------------------------------------
Dispatch == TakeRecord \/ Record \/ Place \/ Capture \/ Offer
Writer == \E s \in Sinks : WriteRecord(s) \/ SeeStop(s) \/ Drained(s)
Configure == Swap \/ SinkClosed \/ Open

UsageNext ==
    \/ \E r \in Req :
          \/ Return(r)
          \/ \E c \in Contexts : Serve(r, c)
          \/ \E fails \in BOOLEAN : Publish(r, fails)
    \/ Dispatch \/ Writer \/ Configure
    \/ \E s \in Sinks : Flush(s)
    \/ \E enabled \in BOOLEAN : Switch(enabled)
    \/ Import

UsageSpec == UsageInit /\ [][UsageNext]_usageVars

\* The goroutines go on; the dispatcher gets a lock that others let go of again
\* and again, since a RWMutex does not let writers starve its readers.
UsageFairness ==
    /\ SF_usageVars(Dispatch)
    /\ WF_usageVars(Writer) /\ WF_usageVars(Configure)

UsageFairSpec == UsageSpec /\ UsageFairness

-----------------------------------------------------------------------------
Piece == [rec : Records, part : {"whole", "head", "tail"}]
SinkState == [pc : {"run", "stop", "drain", "done"}, q : Seq(Records),
              day : Days \cup {None}, buf : Seq(Piece)]

UsageTypeOK ==
    /\ context \in [Req -> Contexts \cup {None}] /\ holder \in [Contexts -> Req \cup {None}]
    /\ erred \subseteq Contexts /\ unpublished \subseteq Req /\ own \subseteq Req
    /\ queue \in Seq(Req) /\ Len(queue) <= Buffer
    /\ failed \subseteq Req
    /\ disp \in [pc : {"take", "record", "place", "capture", "offer"},
                 rec : Records, sink : Sinks \cup {None}]
    /\ disp.pc \in {"record", "place"} => disp.rec # Blank
    /\ disp.pc = "offer" => disp.sink # None
    /\ on \in BOOLEAN
    /\ config \in [pc : {"idle", "swap", "wait", "open"}, enabled : BOOLEAN]
    /\ config.pc = "wait" => sink # None
    /\ sink \in Sinks \cup {None}
    /\ sinks \in [Sinks -> SinkState] /\ \A s \in Sinks : Len(sinks[s].q) <= Cap
    /\ file \in [Days -> Seq(Piece)]
    /\ counted \in [Records -> Nat] /\ blamed \subseteq Req /\ memory \subseteq Records
    /\ lost \subseteq Records
    /\ outrun \subseteq Req /\ crossed \subseteq Records

\* The files stay readable.  A line is cut only at the end of a file that a sink
\* is still writing, whose next flush completes it; days, buffers, and one sink
\* after another never mix their lines.
LinesWhole ==
    \A d \in Days :
        \/ Sound(file[d])
        \/ \E s \in Sinks : sinks[s].day = d /\ Sound(file[d] \o sinks[s].buf)

\* No detail of a counted request is lost unnoticed: it is in memory, on its way
\* or in a file, or counted as dropped, unless the sink was replaced while the
\* dispatcher was about to hand it over.
DetailKept ==
    \A r \in Req :
        counted[r] > 0 /\ disp.rec # r /\ r \notin crossed =>
            \/ r \in memory \cup lost
            \/ \E d \in Days : r \in In(file[d])
            \/ \E s \in Sinks :
                  /\ sinks[s].pc # "done"
                  /\ r \in In(sinks[s].buf) \/ \E i \in DOMAIN sinks[s].q : sinks[s].q[i] = r

\* The outcome counted for a request is its own: a failed record is a failure,
\* and another is one only if its own answer was an error, unless its gin context
\* was given to another request first.
OutcomeIsOwn ==
    [][\A r \in Req :
          disp.pc = "record" /\ disp.rec = r /\ counted'[r] > counted[r] =>
              /\ r \in failed => r \in blamed'
              /\ r \in blamed' => r \in failed \cup own \cup outrun]_usageVars

\* The dispatcher never stays behind: while sinks are closed and replaced and
\* files written, every published record is handled.
RecordsHandled == []<>(queue = << >> /\ disp.pc = "take")
=============================================================================
