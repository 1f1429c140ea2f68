--------------------------- MODULE CredentialSync ---------------------------
(***************************************************************************)
(* One credential file, the record in the manager, and everything between  *)
(* them, both ways.                                                        *)
(*                                                                         *)
(* From the record to the file: refreshes and management calls replace the *)
(* record and save it after the lock has been released; MarkResult saves   *)
(* it under the lock (sdk/cliproxy/auth/conductor.go, sdk/auth/filestore.go,*)
(* internal/api/handlers/management/auth_files.go).                        *)
(*                                                                         *)
(* From the file to the record (internal/watcher): two producers, the      *)
(* goroutine that handles file events and a reload of the configuration,   *)
(* read the directory without a lock, compare it with what they saw last   *)
(* under one, and hand on the difference under another; the pending update *)
(* goes through a queue to the service, which applies it.                  *)
(***************************************************************************)
EXTENDS Naturals, Sequences

CONSTANTS
    Versions,  \* bound: versions of the content at any one time, which the code only
               \* compares for equality
    MaxEvents, \* bound: file events not yet handled after a deletion
    QueueCap,  \* capacity of the update queue: 256 in the code
    Gone,      \* the file does not exist
    Empty,     \* nothing to be read: truncated and not yet written, or written by two at once
    None       \* no value

\* One refresh of a credential runs at a time, and one operator is at work.
Writers == {"refresh", "operator"}
Producers == {"events", "config"}
Content == [ver : Versions, off : BOOLEAN]

ASSUME SyncAssumption ==
    /\ Versions # {} /\ MaxEvents \in Nat \ {0} /\ QueueCap \in Nat \ {0}
    /\ Gone # Empty /\ None \notin {Gone, Empty, "result"} \cup Writers
    /\ Content \cap {Gone, Empty, None} = {}

VARIABLES
    file,     \* Content, Gone or Empty
    mem,      \* the record in the manager: Content or None
    events,   \* file events not yet handled: "write" and "remove"
    recent,   \* a removal was seen within authRemoveDebounceWindow
    hash,     \* lastAuthHashes: the content last seen by the event goroutine
    current,  \* currentAuths: the content last seen by a snapshot, or Gone
    producer, \* [pc, snap] of each producer
    pending,  \* pendingUpdates: content to put, Gone for a removal, or None
    queue,    \* authUpdates
    removing, \* the clone applyCoreAuthRemoval is about to put back, or None
    writer,   \* [pc, copy] of each writer
    store,    \* who holds the mutex of Save: a writer, "result", or None
    looked,   \* MarkResult has seen the file of a disabled record and waits for the mutex
    unlinked, \* what is being written under the mutex has been removed since
    raced,    \* history: see Race
    deleted   \* history: see Over

watched == <<recent, hash, current, producer>>
onway == <<pending, queue, removing>>
saving == <<writer, store, looked, unlinked>>
vars == <<file, mem, events, watched, onway, saving, raced, deleted>>

\* inotify merges an event with an equal one at the end of its queue.
Notify(kind) ==
    events' = IF events # << >> /\ events[Len(events)] = kind THEN events ELSE Append(events, kind)

Init ==
    /\ \E v \in Versions : file = [ver |-> v, off |-> FALSE]
    /\ mem = file
    /\ events = << >> /\ recent = FALSE
    /\ hash = file /\ current = file
    /\ producer = [p \in Producers |-> [pc |-> "idle", snap |-> Gone]]
    /\ pending = None /\ queue = << >> /\ removing = None
    /\ writer = [w \in Writers |-> [pc |-> "idle", copy |-> None]]
    /\ store = None /\ looked = FALSE /\ unlinked = FALSE
    /\ raced = FALSE /\ deleted = FALSE

-----------------------------------------------------------------------------
(* Writers of the record. *)

Seen(c) == c \notin {Gone, Empty}

\* New content differs from whatever anyone still holds.
Fresh ==
    LET held == {file, mem, hash, current, pending, removing}
                \cup {producer[p].snap : p \in Producers} \cup {queue[i] : i \in DOMAIN queue}
                \cup {writer[w].copy : w \in Writers}
    IN  {v \in Versions : \A c \in held : c \in Content => c.ver # v}

\* refreshAuth clones the record, and the provider issues a new version of it.
Refresh ==
    /\ writer["refresh"].pc = "idle" /\ mem # None /\ ~mem.off
    /\ \E v \in Fresh :
             writer' = [writer EXCEPT !["refresh"] =
                 [pc |-> "update", copy |-> [mem EXCEPT !.ver = v]]]
    /\ UNCHANGED <<file, mem, events, watched, onway, store, looked, unlinked>>

\* PatchAuthFileStatus: the record is got and changed.
Patch ==
    /\ writer["operator"].pc = "idle" /\ mem # None
    /\ \E off \in BOOLEAN :
           writer' = [writer EXCEPT !["operator"] = [pc |-> "update", copy |-> [mem EXCEPT !.off = off]]]
    /\ UNCHANGED <<file, mem, events, watched, onway, store, looked, unlinked>>

\* MarkResult keeps the manager's lock while it saves.
Locked == looked \/ store = "result"

\* os.Remove, also of a file that somebody has just created again.  MarkResult may
\* have looked for the file of a disabled record before that, and wait for the
\* mutex; when else it looks makes no difference to it.
Unlink ==
    /\ file' = Gone
    /\ Notify("remove")
    /\ unlinked' = (store # None)
    /\ \/ looked' = looked
       \/ mem # None /\ mem.off /\ ~Locked /\ looked' = TRUE

\* DeleteAuthFile removes the file.
Delete ==
    /\ writer["operator"].pc = "idle" /\ file # Gone /\ Len(events) < MaxEvents
    /\ Unlink
    /\ writer' = [writer EXCEPT !["operator"].pc = "record"]
    /\ UNCHANGED <<mem, watched, onway, store>>

\* Its deleteTokenRecord removes the same path once more, if there is a file.
DeleteRecord ==
    /\ writer["operator"].pc = "record"
    /\ IF file = Gone THEN UNCHANGED <<file, events, looked, unlinked>> ELSE Unlink
    /\ writer' = [writer EXCEPT !["operator"].pc = "disable"]
    /\ UNCHANGED <<mem, watched, onway, store>>

\* Its disableAuth gets the record and changes it.
Disable ==
    /\ writer["operator"].pc = "disable"
    /\ writer' = [writer EXCEPT !["operator"] =
           IF mem = None THEN [pc |-> "idle", copy |-> None]
           ELSE [pc |-> "update", copy |-> [mem EXCEPT !.off = TRUE]]]
    /\ UNCHANGED <<file, mem, events, watched, onway, store, looked, unlinked>>

\* Write to a file that is open at its beginning: over what another has written
\* since, an end of which may be left.
WriteOver(content) ==
    /\ file' \in IF file = Empty THEN {content} ELSE {content, Empty}
    /\ Notify("write")

\* UploadAuthFile, without the mutex of the store: the file is truncated ...
Upload ==
    /\ writer["operator"].pc = "idle"
    /\ \E v \in Fresh :
             writer' = [writer EXCEPT !["operator"] =
                 [pc |-> "upload", copy |-> [ver |-> v, off |-> FALSE]]]
    /\ file' = Empty
    /\ Notify("write")
    /\ UNCHANGED <<mem, watched, onway, store, looked, unlinked>>

\* ... and written; what is registered is the body, or for a form what the file
\* has after that.
UploadWrite ==
    /\ writer["operator"].pc = "upload"
    /\ WriteOver(writer["operator"].copy)
    /\ \E form \in BOOLEAN :
           writer' = [writer EXCEPT !["operator"].pc = IF form THEN "read" ELSE "update"]
    /\ UNCHANGED <<mem, watched, onway, store, looked, unlinked>>

UploadRead ==
    /\ writer["operator"].pc = "read" /\ Seen(file)
    /\ writer' = [writer EXCEPT !["operator"] =
           [pc |-> "update", copy |-> [file EXCEPT !.off = FALSE]]]
    /\ UNCHANGED <<file, mem, events, watched, onway, store, looked, unlinked>>

\* An upload is refused after it has overwritten the file: no credential can be
\* read from the body, or from the file of a form.  The record stays as it was: Next
\* counts this among the races.
UploadRefused ==
    /\ \/ /\ writer["operator"].pc = "upload"
          /\ file' = Empty
          /\ Notify("write")
       \/ /\ writer["operator"].pc = "read" /\ ~Seen(file)
          /\ UNCHANGED <<file, events>>
    /\ writer' = [writer EXCEPT !["operator"] = [pc |-> "idle", copy |-> None]]
    /\ UNCHANGED <<mem, watched, onway, store, looked, unlinked>>

\* Manager.Update or Register, up to the release of the lock.
Update(w) ==
    /\ writer[w].pc = "update" /\ ~Locked
    /\ mem' = writer[w].copy
    /\ writer' = [writer EXCEPT ![w].pc = IF writer[w].copy.off THEN "save" ELSE "open"]
    /\ UNCHANGED <<file, events, watched, onway, store, looked, unlinked>>

\* FileTokenStore.Save looks for the file of a disabled record before it takes
\* its mutex, and does not bring it back.
Barred(copy) == copy.off /\ file = Gone

Save(w) ==
    /\ writer[w].pc = "save"
    /\ writer' = IF Barred(writer[w].copy)
                 THEN [writer EXCEPT ![w] = [pc |-> "idle", copy |-> None]]
                 ELSE [writer EXCEPT ![w].pc = "open"]
    /\ UNCHANGED <<file, mem, events, watched, onway, store, looked, unlinked>>

\* Under the mutex: equal content is not written again; else the file is
\* truncated before it is written.
Open(w) ==
    /\ writer[w].pc = "open" /\ store = None
    /\ \/ /\ writer[w].copy = file
          /\ writer' = [writer EXCEPT ![w] = [pc |-> "idle", copy |-> None]]
          /\ UNCHANGED <<file, store, events>>
       \/ /\ writer[w].copy # file
          /\ file' = Empty /\ store' = w
          /\ Notify("write")
          /\ writer' = [writer EXCEPT ![w].pc = "write"]
    /\ UNCHANGED <<mem, watched, onway, looked, unlinked>>

\* What is written to a removed file is lost.
Close(content) ==
    /\ IF unlinked THEN UNCHANGED <<file, events>> ELSE WriteOver(content)
    /\ store' = None /\ unlinked' = FALSE

Write(w) ==
    /\ writer[w].pc = "write"
    /\ Close(writer[w].copy)
    /\ writer' = [writer EXCEPT ![w] = [pc |-> "idle", copy |-> None]]
    /\ UNCHANGED <<mem, watched, onway, looked>>

\* Under the mutex, again: MarkResult saves the record.
ResultOpen ==
    /\ store = None
    /\ IF mem = file THEN UNCHANGED <<file, events, store>>
       ELSE file' = Empty /\ store' = "result" /\ Notify("write")
    /\ looked' = FALSE
    /\ UNCHANGED <<mem, watched, onway, writer, unlinked>>

\* Mutant of Result: a disabled record is saved like any other.
ResultAnyway == mem # None /\ ResultOpen

\* A disabled record is not saved when its file was missed.
Result == mem # None /\ (looked \/ ~Barred(mem)) /\ ResultOpen

ResultWrite ==
    /\ store = "result"
    /\ Close(mem)
    /\ UNCHANGED <<mem, watched, onway, writer, looked>>

-----------------------------------------------------------------------------
(* The watcher. *)


\* handleEvent: content that cannot be read or has not changed is ignored, and
\* so is a removal within the window of another one or of an unknown file.
HandleEvent ==
    /\ producer["events"].pc = "idle" /\ events # << >>
    /\ events' = Tail(events)
    /\ \/ /\ Head(events) = "remove" /\ recent
          /\ UNCHANGED <<recent, hash, producer>>
       \/ /\ Head(events) = "write" \/ ~recent
          /\ recent' = (recent \/ Head(events) = "remove")
          /\ LET changed  == Seen(file) /\ file # hash
                 vanished == Head(events) = "remove" /\ file = Gone /\ hash # None
             IN  /\ hash' = IF changed THEN file ELSE IF vanished THEN None ELSE hash
                 /\ producer' = IF changed \/ vanished
                                THEN [producer EXCEPT !["events"].pc = "snapshot"] ELSE producer
    /\ UNCHANGED <<file, mem, current, onway, saving>>

\* The debounce window of the last removal ends.
WindowEnds ==
    /\ recent
    /\ recent' = FALSE
    /\ UNCHANGED <<file, mem, events, hash, current, producer, onway, saving>>

\* reloadClients after a change of the configuration: when the excluded models
\* of the provider changed, its entry is first dropped from currentAuths.
Reload ==
    /\ producer["config"].pc = "idle"
    /\ producer' = [producer EXCEPT !["config"].pc = "snapshot"]
    /\ current' \in {current, Gone}
    /\ UNCHANGED <<file, mem, events, recent, hash, onway, saving>>

\* SnapshotCoreAuths: a file that is missing or empty is not in the snapshot.
Snapshot(p) ==
    /\ producer[p].pc = "snapshot"
    /\ producer' = [producer EXCEPT ![p] =
           [pc |-> "prepare", snap |-> IF Seen(file) THEN file ELSE Gone]]
    /\ UNCHANGED <<file, mem, events, recent, hash, current, onway, saving>>

\* prepareAuthUpdatesLocked: the difference to the last snapshot.
Prepare(p) ==
    /\ producer[p].pc = "prepare"
    /\ \E force \in {FALSE, p = "config"} :
          LET snap == producer[p].snap
              differs == snap # current \/ (force /\ snap # Gone)
          IN  producer' = [producer EXCEPT ![p] =
                  IF differs THEN [pc |-> "dispatch", snap |-> snap]
                             ELSE [pc |-> "idle", snap |-> Gone]]
    /\ current' = producer[p].snap
    /\ UNCHANGED <<file, mem, events, recent, hash, onway, saving>>

\* Mutant of Dispatch: the first of two updates of a credential is kept.
DispatchFirst(p) ==
    /\ producer[p].pc = "dispatch"
    /\ pending' = IF pending = None THEN producer[p].snap ELSE pending
    /\ producer' = [producer EXCEPT ![p] = [pc |-> "idle", snap |-> Gone]]
    /\ UNCHANGED <<file, mem, events, recent, hash, current, queue, removing, saving>>

\* dispatchAuthUpdates: a pending update of the same credential is replaced.
Dispatch(p) ==
    /\ producer[p].pc = "dispatch"
    /\ pending' = producer[p].snap
    /\ producer' = [producer EXCEPT ![p] = [pc |-> "idle", snap |-> Gone]]
    /\ UNCHANGED <<file, mem, events, recent, hash, current, queue, removing, saving>>

\* dispatchLoop.
Forward ==
    /\ pending # None /\ Len(queue) < QueueCap
    /\ queue' = Append(queue, pending)
    /\ pending' = None
    /\ UNCHANGED <<file, mem, events, watched, removing, saving>>

\* handleAuthUpdate: applyCoreAuthAddOrUpdate replaces the record; for a
\* removal the record is got first.
Apply ==
    /\ queue # << >> /\ removing = None /\ ~Locked
    /\ queue' = Tail(queue)
    /\ \/ /\ Head(queue) # Gone
          /\ mem' = Head(queue)
          /\ UNCHANGED removing
       \/ /\ Head(queue) = Gone
          /\ removing' = mem
          /\ UNCHANGED mem
    /\ UNCHANGED <<file, events, watched, pending, saving>>

\* applyCoreAuthRemoval puts the record back, disabled.
Remove ==
    /\ removing # None /\ ~Locked
    /\ mem' = [removing EXCEPT !.off = TRUE]
    /\ removing' = None
    /\ UNCHANGED <<file, events, watched, pending, queue, saving>>

-----------------------------------------------------------------------------
(* The process is killed, and starts again with what is on disk: Manager.Load,
   then Watcher.Start, whose first reload runs beside the event goroutine. *)

Restart ==
    /\ mem' = IF Seen(file) THEN file ELSE None
    /\ hash' = IF Seen(file) THEN file ELSE None
    /\ current' = Gone
    /\ producer' = [p \in Producers |->
           [pc |-> IF p = "config" THEN "snapshot" ELSE "idle", snap |-> Gone]]
    /\ events' = << >> /\ recent' = FALSE
    /\ pending' = None /\ queue' = << >> /\ removing' = None
    /\ writer' = [w \in Writers |-> [pc |-> "idle", copy |-> None]]
    /\ store' = None /\ looked' = FALSE /\ unlinked' = FALSE
    /\ UNCHANGED file

\* What the agreement of file and record does not survive: two saves between
\* their updates and the file; a second removal within the debounce window; a
\* reload while a change of the file is written or handled; and a file that is back at
\* what the event goroutine saw last, after a snapshot has taken something else
\* in between: the event to come will be ignored.
Race ==
    \/ \A w \in Writers : writer[w].pc \in {"save", "open"}
    \/ recent /\ \E i \in DOMAIN events : events[i] = "remove"
    \/ producer["config"].pc # "idle" /\ (events # << >> \/ producer["events"].pc # "idle" \/ file = Empty)
    \/ events # << >> /\ current # file /\ (file = hash \/ (file = Gone /\ hash = None))

\* A credential is in use when its record is not disabled.
InUse == mem # None /\ ~mem.off

\* A deletion is over when the record is out of use, no save is on its way to the
\* file, and nobody holds a copy of the record or of the file any more.
Over ==
    /\ file = Gone /\ ~InUse /\ store = None /\ ~looked
    /\ \A w \in Writers : writer[w].copy = None
    /\ \A p \in Producers : producer[p].snap = Gone
    /\ pending \in {Gone, None} /\ \A i \in DOMAIN queue : queue[i] = Gone

\* The operator uploads the credential, or enables its record.
Revival == writer["operator"].copy # None /\ ~writer["operator"].copy.off

\* A race is remembered up to the next start, and a deletion until the operator
\* revives the credential.
Observed(A) ==
    /\ A
    /\ raced' = (raced \/ Race') /\ deleted' = (~Revival' /\ (deleted \/ Over'))

WriterStep(w) == Update(w) \/ Save(w) \/ Open(w) \/ Write(w)
ProducerStep(p) == Snapshot(p) \/ Prepare(p) \/ Dispatch(p)

Next ==
    \/ Observed(\/ \E w \in Writers : WriterStep(w)
                \/ Refresh \/ Patch \/ Delete \/ DeleteRecord \/ Disable
                \/ Upload \/ UploadWrite \/ UploadRead
                \/ Result \/ ResultWrite
                \/ HandleEvent \/ WindowEnds \/ Reload
                \/ \E p \in Producers : ProducerStep(p)
                \/ Forward \/ Apply \/ Remove)
    \/ UploadRefused /\ raced' = TRUE /\ UNCHANGED deleted
    \/ Restart /\ raced' = FALSE /\ UNCHANGED deleted

Spec == Init /\ [][Next]_vars

-----------------------------------------------------------------------------
TypeOK ==
    /\ file \in Content \cup {Gone, Empty} /\ mem \in Content \cup {None}
    /\ events \in Seq({"write", "remove"}) /\ recent \in BOOLEAN
    /\ hash \in Content \cup {None} /\ current \in Content \cup {Gone}
    /\ producer \in [Producers -> [pc : {"idle", "snapshot", "prepare", "dispatch"},
                                   snap : Content \cup {Gone}]]
    /\ pending \in Content \cup {Gone, None}
    /\ queue \in Seq(Content \cup {Gone}) /\ Len(queue) <= QueueCap
    /\ removing \in Content \cup {None}
    /\ writer \in [Writers -> [pc : {"idle", "update", "record", "disable", "upload", "read",
                                     "save", "open", "write"},
                               copy : Content \cup {None}]]
    /\ store \in Writers \cup {"result", None}
    /\ looked \in BOOLEAN /\ unlinked \in BOOLEAN /\ raced \in BOOLEAN /\ deleted \in BOOLEAN

\* Nothing is on its way in either direction.
AtRest ==
    /\ \A w \in Writers : writer[w].pc = "idle"
    /\ store = None /\ ~looked /\ events = << >>
    /\ \A p \in Producers : producer[p].pc = "idle"
    /\ pending = None /\ queue = << >> /\ removing = None

\* The manager knows what the file says, and uses no credential without one.
Agree == IF Seen(file) THEN mem = file ELSE ~InUse

\* Once everything has settled, record and file agree, whoever wrote them and
\* in whatever order, unless one of the named races has been met.
SettledMeansAgreed == AtRest /\ ~raced => Agree

\* A deleted credential stays deleted: once its deletion is over, no result, no
\* refresh, no file event, no reload and no restart, under way or to come, brings
\* the file back or the record into use; the operator alone does.
DeletedStaysDeleted == deleted => file = Gone /\ ~InUse
=============================================================================
