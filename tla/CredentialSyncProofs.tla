------------------------ MODULE CredentialSyncProofs ------------------------
(***************************************************************************)
(* Proofs about CredentialSync, for any number of versions of a content,   *)
(* any bound of the events that a deletion finds waiting, and update       *)
(* queues of any capacity.                                                 *)
(***************************************************************************)
EXTENDS CredentialSync, SequenceTheorems, TLAPS

-----------------------------------------------------------------------------
(* The type invariant, in the groups of variables that actions leave alone. *)

RecordTyped == file \in Content \cup {Gone, Empty} /\ mem \in Content \cup {None}

EventsTyped ==
    /\ events \in Seq({"write", "remove"}) /\ recent \in BOOLEAN
    /\ hash \in Content \cup {None}

ProducersTyped ==
    /\ current \in Content \cup {Gone}
    /\ producer \in [Producers -> [pc : {"idle", "snapshot", "prepare", "dispatch"},
                                   snap : Content \cup {Gone}]]

OnWayTyped ==
    /\ pending \in Content \cup {Gone, None}
    /\ queue \in Seq(Content \cup {Gone}) /\ Len(queue) <= QueueCap
    /\ removing \in Content \cup {None}

\* A writer that is past its beginning has the content it will put, and a result
\* is about a record.
WritersTyped ==
    /\ writer \in [Writers -> [pc : {"idle", "update", "record", "disable", "upload", "read",
                                     "save", "open", "write"},
                               copy : Content \cup {None}]]
    /\ store \in Writers \cup {"result", None} /\ looked \in BOOLEAN /\ unlinked \in BOOLEAN
    /\ \A w \in Writers :
          writer[w].pc \notin {"idle", "record", "disable"} => writer[w].copy \in Content
    /\ Locked => mem # None

SyncTypes ==
    /\ RecordTyped /\ EventsTyped /\ ProducersTyped /\ OnWayTyped /\ WritersTyped
    /\ raced \in BOOLEAN /\ deleted \in BOOLEAN

LEMMA Apart ==
    /\ Gone # Empty /\ None # Gone /\ None # Empty
    /\ \A c \in Content : c # Gone /\ c # Empty /\ c # None
<1>1. \A c \in Content : c \notin {Gone, Empty, None}
  BY SyncAssumption
<1>2. Gone # Empty /\ None \notin {Gone, Empty}
  BY SyncAssumption
<1> QED
  BY <1>1, <1>2

LEMMA NoneApart == None # "result" /\ None \notin Writers
  BY SyncAssumption

LEMMA OffTyped == \A c \in Content : c.off \in BOOLEAN
  BY DEF Content

LEMMA CapTyped == QueueCap \in Nat \ {0}
  BY SyncAssumption

LEMMA TypesInit == Init => SyncTypes
<1> SUFFICES ASSUME Init PROVE SyncTypes
  OBVIOUS
<1>1. file \in Content /\ hash = file /\ mem = file /\ current = file
  BY DEF Init, Content
<1>2. RecordTyped
  BY <1>1 DEF RecordTyped
<1>6. events = << >> /\ recent = FALSE
  BY DEF Init
<1>7. EventsTyped
  <2>1. << >> \in Seq({"write", "remove"})
    BY EmptySeq
  <2> QED
    BY <1>1, <1>6, <2>1 DEF EventsTyped
<1>3. ProducersTyped
  BY <1>1 DEF Init, ProducersTyped
<1>4. OnWayTyped
  BY CapTyped DEF Init, OnWayTyped
<1>5. WritersTyped
  BY NoneApart DEF Init, WritersTyped, Writers, Locked
<1> QED
  BY <1>2, <1>3, <1>4, <1>5, <1>7 DEF Init, SyncTypes

-----------------------------------------------------------------------------
(* The actions, those of the writers and those of the watcher and the service. *)

WriterAction ==
    \/ Refresh \/ Patch \/ Delete \/ DeleteRecord \/ Disable
    \/ Upload \/ UploadWrite \/ UploadRead
    \/ \E w \in Writers : Update(w) \/ Save(w) \/ Open(w) \/ Write(w)
    \/ Result \/ ResultWrite

WatcherAction ==
    \/ HandleEvent \/ WindowEnds \/ Reload \/ Forward \/ Apply \/ Remove
    \/ \E p \in Producers : Snapshot(p) \/ Prepare(p) \/ Dispatch(p)

LEMMA Actions ==
    [Next]_vars => \/ /\ (WriterAction \/ WatcherAction) /\ raced' = (raced \/ Race')
                      /\ deleted' = (~Revival' /\ (deleted \/ Over'))
                   \/ UploadRefused /\ raced' = TRUE /\ UNCHANGED deleted
                   \/ Restart /\ raced' = FALSE /\ UNCHANGED deleted
                   \/ UNCHANGED vars
  BY DEF Next, Observed, WriterStep, ProducerStep, WriterAction, WatcherAction

LEMMA WritersLeave == WriterAction \/ UploadRefused => UNCHANGED <<watched, onway>>
  BY DEF WriterAction, Refresh, Patch, Delete, DeleteRecord, Disable, Upload, UploadWrite,
         UploadRead, UploadRefused, Update, Save, Open, Write, Result, ResultOpen, ResultWrite

-----------------------------------------------------------------------------
(* The actions keep the types. *)

LEMMA TypesByWriters ==
    ASSUME SyncTypes,
           WriterAction \/ UploadRefused
    PROVE  RecordTyped' /\ WritersTyped' /\ events' \in Seq({"write", "remove"})
<1>0. RecordTyped /\ EventsTyped /\ WritersTyped
  BY DEF SyncTypes
<1>n. ASSUME NEW kind \in {"write", "remove"}, Notify(kind)
      PROVE  events' \in Seq({"write", "remove"})
  <2>1. Append(events, kind) \in Seq({"write", "remove"})
    BY <1>0, AppendProperties DEF EventsTyped
  <2> QED
    BY <1>0, <1>n, <2>1 DEF Notify, EventsTyped
<1>k. ASSUME UNCHANGED events PROVE events' \in Seq({"write", "remove"})
  BY <1>0, <1>k DEF EventsTyped
<1>u. ASSUME Unlink
      PROVE  /\ file' = Gone /\ events' \in Seq({"write", "remove"})
             /\ looked' \in BOOLEAN /\ unlinked' \in BOOLEAN /\ (looked' => looked \/ mem # None)
  <2>1. looked' = looked \/ (looked' = TRUE /\ mem # None)
    BY <1>u DEF Unlink
  <2>2. unlinked' = (store # None) /\ file' = Gone /\ Notify("remove")
    BY <1>u DEF Unlink
  <2>3. events' \in Seq({"write", "remove"})
    BY <1>n, <2>2
  <2>4. looked' \in BOOLEAN /\ (looked' => looked \/ mem # None)
    <3>1. looked \in BOOLEAN
      BY <1>0 DEF WritersTyped
    <3>2. CASE looked' = looked
      BY <3>1, <3>2
    <3>3. CASE looked' = TRUE /\ mem # None
      BY <3>3
    <3> QED
      BY <2>1, <3>2, <3>3
  <2> QED
    BY <2>2, <2>3, <2>4
<1>c. ASSUME NEW content \in Content, WriteOver(content)
      PROVE  file' \in Content \cup {Empty} /\ events' \in Seq({"write", "remove"})
  <2>1. file' \in Content \cup {Empty} /\ Notify("write")
    BY <1>c DEF WriteOver
  <2> QED
    BY <1>n, <2>1
<1>1. CASE Refresh
  <2>1. PICK v \in Fresh :
           writer' = [writer EXCEPT !["refresh"] =
                         [pc |-> "update", copy |-> [mem EXCEPT !.ver = v]]]
    BY <1>1 DEF Refresh
  <2>2. v \in Versions /\ mem \in Content
    BY <1>0, <1>1 DEF Fresh, Refresh, RecordTyped
  <2>3. [mem EXCEPT !.ver = v] \in Content
    BY <2>2 DEF Content
  <2>4. WritersTyped'
    BY <1>0, <1>1, <2>1, <2>3 DEF Refresh, WritersTyped, Writers, Locked
  <2> QED
    BY <1>0, <1>1, <1>k, <2>4 DEF Refresh, RecordTyped
<1>2. CASE Patch
  <2>1. PICK off \in BOOLEAN :
           writer' = [writer EXCEPT !["operator"] =
                         [pc |-> "update", copy |-> [mem EXCEPT !.off = off]]]
    BY <1>2 DEF Patch
  <2>2. [mem EXCEPT !.off = off] \in Content
    BY <1>0, <1>2 DEF Patch, RecordTyped, Content
  <2>3. WritersTyped'
    BY <1>0, <1>2, <2>1, <2>2 DEF Patch, WritersTyped, Writers, Locked
  <2> QED
    BY <1>0, <1>2, <1>k, <2>3 DEF Patch, RecordTyped
<1>3. CASE Delete \/ DeleteRecord
  <2>1. \/ Unlink
        \/ UNCHANGED <<file, events, looked, unlinked>>
    BY <1>3 DEF Delete, DeleteRecord
  <2>2. /\ UNCHANGED <<mem, store>>
        /\ \/ writer' = [writer EXCEPT !["operator"].pc = "record"]
           \/ writer' = [writer EXCEPT !["operator"].pc = "disable"]
    BY <1>3 DEF Delete, DeleteRecord
  <2>3. /\ file' \in Content \cup {Gone, Empty} /\ events' \in Seq({"write", "remove"})
        /\ looked' \in BOOLEAN /\ unlinked' \in BOOLEAN /\ (looked' => looked \/ mem # None)
    BY <1>0, <1>u, <1>k, <2>1 DEF RecordTyped, WritersTyped
  <2>4. RecordTyped'
    BY <1>0, <2>2, <2>3 DEF RecordTyped
  <2>5. WritersTyped'
    <3>1. Locked' => mem' # None
      BY <1>0, <2>2, <2>3 DEF WritersTyped, Locked
    <3>2. store' \in Writers \cup {"result", None}
      BY <1>0, <2>2 DEF WritersTyped
    <3> QED
      BY <1>0, <2>2, <2>3, <3>1, <3>2 DEF WritersTyped, Writers
  <2> QED
    BY <2>3, <2>4, <2>5
<1>4. CASE Disable
  <2>1. mem # None => [mem EXCEPT !.off = TRUE] \in Content
    BY <1>0 DEF RecordTyped, Content
  <2>2. WritersTyped'
    BY <1>0, <1>4, <2>1 DEF Disable, WritersTyped, Writers, Locked
  <2> QED
    BY <1>0, <1>4, <1>k, <2>2 DEF Disable, RecordTyped
<1>5. CASE Upload
  <2>1. PICK v \in Fresh :
           writer' = [writer EXCEPT !["operator"] =
                         [pc |-> "upload", copy |-> [ver |-> v, off |-> FALSE]]]
    BY <1>5 DEF Upload
  <2>2. [ver |-> v, off |-> FALSE] \in Content
    BY DEF Fresh, Content
  <2>3. WritersTyped'
    BY <1>0, <1>5, <2>1, <2>2 DEF Upload, WritersTyped, Writers, Locked
  <2>4. RecordTyped'
    BY <1>0, <1>5 DEF Upload, RecordTyped
  <2>5. events' \in Seq({"write", "remove"})
    BY <1>5, <1>n DEF Upload
  <2> QED
    BY <2>3, <2>4, <2>5
<1>6. CASE UploadWrite
  <2>1. writer["operator"].copy \in Content
    BY <1>0, <1>6 DEF UploadWrite, WritersTyped, Writers
  <2>2. WritersTyped'
    BY <1>0, <1>6, <2>1 DEF UploadWrite, WritersTyped, Writers, Locked
  <2>3. file' \in Content \cup {Empty} /\ events' \in Seq({"write", "remove"})
    BY <1>6, <1>c, <2>1 DEF UploadWrite
  <2>4. RecordTyped'
    BY <1>0, <1>6, <2>3 DEF UploadWrite, RecordTyped
  <2> QED
    BY <2>2, <2>3, <2>4
<1>13. CASE UploadRead
  <2>1. [file EXCEPT !.off = FALSE] \in Content
    BY <1>0, <1>13 DEF UploadRead, Seen, RecordTyped, Content
  <2>2. WritersTyped'
    BY <1>0, <1>13, <2>1 DEF UploadRead, WritersTyped, Writers, Locked
  <2> QED
    BY <1>0, <1>13, <1>k, <2>2 DEF UploadRead, RecordTyped
<1>14. CASE UploadRefused
  <2>1. WritersTyped'
    BY <1>0, <1>14 DEF UploadRefused, WritersTyped, Writers, Locked
  <2>2. RecordTyped'
    BY <1>0, <1>14 DEF UploadRefused, RecordTyped
  <2>3. events' \in Seq({"write", "remove"})
    BY <1>14, <1>n, <1>k DEF UploadRefused
  <2> QED
    BY <2>1, <2>2, <2>3
<1>7. ASSUME NEW w \in Writers, Update(w)
      PROVE  RecordTyped' /\ WritersTyped' /\ events' \in Seq({"write", "remove"})
  <2>1. writer[w].copy \in Content
    BY <1>0, <1>7 DEF Update, WritersTyped
  <2>2. RecordTyped'
    BY <1>0, <1>7, <2>1 DEF Update, RecordTyped
  <2>3. mem' # None
    BY <1>7, <2>1, Apart DEF Update
  <2>4. WritersTyped'
    BY <1>0, <1>7, <2>1, <2>3 DEF Update, WritersTyped
  <2> QED
    BY <1>7, <1>k, <2>2, <2>4 DEF Update
<1>8. ASSUME NEW w \in Writers, Save(w)
      PROVE  RecordTyped' /\ WritersTyped' /\ events' \in Seq({"write", "remove"})
  <2>1. WritersTyped'
    BY <1>0, <1>8 DEF Save, WritersTyped, Locked
  <2> QED
    BY <1>0, <1>8, <1>k, <2>1 DEF Save, RecordTyped
<1>9. ASSUME NEW w \in Writers, Open(w)
      PROVE  RecordTyped' /\ WritersTyped' /\ events' \in Seq({"write", "remove"})
  <2>1. WritersTyped'
    <3>1. CASE writer[w].copy = file
      BY <1>0, <1>9, <3>1 DEF Open, WritersTyped, Locked
    <3>2. CASE writer[w].copy # file
      <4>1. store' = w /\ w # "result" /\ writer' = [writer EXCEPT ![w].pc = "write"]
        BY <1>9, <3>2 DEF Open, Writers
      <4>2. writer[w].copy \in Content /\ UNCHANGED <<mem, looked, unlinked>>
        BY <1>0, <1>9 DEF Open, WritersTyped
      <4> QED
        BY <1>0, <4>1, <4>2 DEF WritersTyped, Locked
    <3> QED
      BY <3>1, <3>2
  <2>2. RecordTyped'
    BY <1>0, <1>9 DEF Open, RecordTyped
  <2>3. events' \in Seq({"write", "remove"})
    BY <1>9, <1>n, <1>k DEF Open
  <2> QED
    BY <2>1, <2>2, <2>3
<1>w. ASSUME NEW content \in Content, Close(content), UNCHANGED mem
      PROVE  /\ RecordTyped' /\ events' \in Seq({"write", "remove"})
             /\ store' = None /\ unlinked' = FALSE
  <2>1. UNCHANGED <<file, events>> \/ WriteOver(content)
    BY <1>w DEF Close
  <2>2. file' \in Content \cup {Gone, Empty} /\ events' \in Seq({"write", "remove"})
    BY <1>0, <1>c, <1>k, <2>1 DEF RecordTyped
  <2> QED
    BY <1>0, <1>w, <2>2 DEF Close, RecordTyped
<1>10. ASSUME NEW w \in Writers, Write(w)
      PROVE  RecordTyped' /\ WritersTyped' /\ events' \in Seq({"write", "remove"})
  <2>1. writer[w].copy \in Content
    BY <1>0, <1>10 DEF Write, WritersTyped
  <2>2. RecordTyped' /\ events' \in Seq({"write", "remove"}) /\ store' = None /\ unlinked' = FALSE
    BY <1>10, <1>w, <2>1 DEF Write
  <2>3. WritersTyped'
    BY <1>0, <1>10, <2>2, NoneApart DEF Write, WritersTyped, Locked
  <2> QED
    BY <2>2, <2>3
<1>11. CASE Result
  <2>1. ResultOpen /\ mem # None
    BY <1>11 DEF Result
  <2>2. WritersTyped'
    BY <1>0, <2>1 DEF ResultOpen, WritersTyped
  <2>3. RecordTyped'
    BY <1>0, <2>1 DEF ResultOpen, RecordTyped
  <2>4. events' \in Seq({"write", "remove"})
    BY <2>1, <1>n, <1>k DEF ResultOpen
  <2> QED
    BY <2>2, <2>3, <2>4
<1>12. CASE ResultWrite
  <2>1. mem \in Content
    BY <1>0, <1>12 DEF ResultWrite, WritersTyped, RecordTyped, Locked
  <2>2. RecordTyped' /\ events' \in Seq({"write", "remove"}) /\ store' = None /\ unlinked' = FALSE
    BY <1>12, <1>w, <2>1 DEF ResultWrite
  <2>3. WritersTyped'
    BY <1>0, <1>12, <2>2, NoneApart DEF ResultWrite, WritersTyped, Locked
  <2> QED
    BY <2>2, <2>3
<1> QED
  BY <1>1, <1>2, <1>3, <1>4, <1>5, <1>6, <1>7, <1>8, <1>9, <1>10, <1>11, <1>12, <1>13, <1>14
     DEF WriterAction

LEMMA TypesByWatcher ==
    ASSUME SyncTypes,
           WatcherAction
    PROVE  RecordTyped' /\ EventsTyped' /\ ProducersTyped' /\ OnWayTyped' /\ WritersTyped'
<1>0. RecordTyped /\ EventsTyped /\ ProducersTyped /\ OnWayTyped /\ WritersTyped
  BY DEF SyncTypes
<1>w. ASSUME UNCHANGED saving, UNCHANGED mem \/ mem' # None PROVE WritersTyped'
  BY <1>0, <1>w DEF saving, WritersTyped, Locked
<1>o. ASSUME UNCHANGED onway PROVE OnWayTyped'
  BY <1>0, <1>o DEF onway, OnWayTyped
<1>r. ASSUME UNCHANGED <<file, mem>> PROVE RecordTyped'
  BY <1>0, <1>r DEF RecordTyped
<1>e. ASSUME UNCHANGED <<events, recent, hash>> PROVE EventsTyped'
  BY <1>0, <1>e DEF EventsTyped
<1>p. ASSUME UNCHANGED <<current, producer>> PROVE ProducersTyped'
  BY <1>0, <1>p DEF ProducersTyped
<1>1. CASE HandleEvent
  <2>1. events' \in Seq({"write", "remove"})
    BY <1>0, <1>1, HeadTailProperties DEF HandleEvent, EventsTyped
  <2>2. Seen(file) => file \in Content
    BY <1>0 DEF Seen, RecordTyped
  <2>3. EventsTyped'
    BY <1>0, <1>1, <2>1, <2>2 DEF HandleEvent, EventsTyped
  <2>4. ProducersTyped'
    BY <1>0, <1>1 DEF HandleEvent, ProducersTyped, Producers
  <2> QED
    BY <1>1, <1>w, <1>o, <1>r, <2>3, <2>4 DEF HandleEvent
<1>2. CASE WindowEnds
  <2>1. EventsTyped'
    BY <1>0, <1>2 DEF WindowEnds, EventsTyped
  <2> QED
    BY <1>2, <1>w, <1>o, <1>r, <1>p, <2>1 DEF WindowEnds
<1>3. CASE Reload
  <2>1. ProducersTyped'
    BY <1>0, <1>3 DEF Reload, ProducersTyped, Producers
  <2> QED
    BY <1>3, <1>w, <1>o, <1>r, <1>e, <2>1 DEF Reload
<1>4. CASE Forward
  <2>1. pending \in Content \cup {Gone}
    BY <1>0, <1>4 DEF Forward, OnWayTyped
  <2>2. queue' \in Seq(Content \cup {Gone}) /\ Len(queue') <= QueueCap
    BY <1>0, <1>4, <2>1, AppendProperties, LenProperties, CapTyped DEF Forward, OnWayTyped
  <2>3. OnWayTyped'
    BY <1>0, <1>4, <2>2 DEF Forward, OnWayTyped
  <2> QED
    BY <1>4, <1>w, <1>r, <1>e, <1>p, <2>3 DEF Forward, watched
<1>5. CASE Apply
  <2>1. /\ Head(queue) \in Content \cup {Gone}
        /\ queue' \in Seq(Content \cup {Gone}) /\ Len(queue') <= QueueCap
    BY <1>0, <1>5, HeadTailProperties, LenProperties, CapTyped DEF Apply, OnWayTyped
  <2>2. OnWayTyped' /\ RecordTyped'
    BY <1>0, <1>5, <2>1 DEF Apply, OnWayTyped, RecordTyped
  <2>3. UNCHANGED mem \/ mem' # None
    BY <1>5, <2>1, Apart DEF Apply
  <2> QED
    BY <1>5, <1>w, <1>e, <1>p, <2>2, <2>3 DEF Apply, watched
<1>6. CASE Remove
  <2>1. mem' \in Content
    BY <1>0, <1>6 DEF Remove, OnWayTyped, Content
  <2>2. OnWayTyped' /\ RecordTyped'
    BY <1>0, <1>6, <2>1 DEF Remove, OnWayTyped, RecordTyped
  <2> QED
    BY <1>6, <1>w, <1>e, <1>p, <2>1, <2>2, Apart DEF Remove, watched
<1>7. ASSUME NEW p \in Producers, Snapshot(p)
      PROVE  RecordTyped' /\ EventsTyped' /\ ProducersTyped' /\ OnWayTyped' /\ WritersTyped'
  <2>1. Seen(file) => file \in Content
    BY <1>0 DEF Seen, RecordTyped
  <2>2. ProducersTyped'
    BY <1>0, <1>7, <2>1 DEF Snapshot, ProducersTyped
  <2> QED
    BY <1>7, <1>w, <1>o, <1>r, <1>e, <2>2 DEF Snapshot
<1>8. ASSUME NEW p \in Producers, Prepare(p)
      PROVE  RecordTyped' /\ EventsTyped' /\ ProducersTyped' /\ OnWayTyped' /\ WritersTyped'
  <2>1. producer[p].snap \in Content \cup {Gone}
    BY <1>0 DEF ProducersTyped
  <2>2. ProducersTyped'
    BY <1>0, <1>8, <2>1 DEF Prepare, ProducersTyped
  <2> QED
    BY <1>8, <1>w, <1>o, <1>r, <1>e, <2>2 DEF Prepare
<1>9. ASSUME NEW p \in Producers, Dispatch(p)
      PROVE  RecordTyped' /\ EventsTyped' /\ ProducersTyped' /\ OnWayTyped' /\ WritersTyped'
  <2>1. producer[p].snap \in Content \cup {Gone}
    BY <1>0 DEF ProducersTyped
  <2>2. ProducersTyped' /\ OnWayTyped'
    BY <1>0, <1>9, <2>1 DEF Dispatch, ProducersTyped, OnWayTyped
  <2> QED
    BY <1>9, <1>w, <1>r, <1>e, <2>2 DEF Dispatch
<1> QED
  BY <1>1, <1>2, <1>3, <1>4, <1>5, <1>6, <1>7, <1>8, <1>9 DEF WatcherAction

LEMMA TypesRestart == ASSUME SyncTypes, Restart PROVE
    RecordTyped' /\ EventsTyped' /\ ProducersTyped' /\ OnWayTyped' /\ WritersTyped'
<1>1. Seen(file) => file \in Content
  BY DEF SyncTypes, Seen, RecordTyped
<1>2. RecordTyped'
  BY <1>1 DEF Restart, SyncTypes, RecordTyped
<1>7. events' = << >> /\ recent' = FALSE /\ hash' \in Content \cup {None}
  BY <1>1 DEF Restart
<1>3. EventsTyped'
  <2>1. << >> \in Seq({"write", "remove"})
    BY EmptySeq
  <2> QED
    BY <1>7, <2>1 DEF EventsTyped
<1>4. ProducersTyped'
  BY DEF Restart, ProducersTyped
<1>5. OnWayTyped'
  BY CapTyped DEF Restart, OnWayTyped
<1>6. WritersTyped'
  BY NoneApart DEF Restart, WritersTyped, Locked
<1> QED
  BY <1>2, <1>3, <1>4, <1>5, <1>6

LEMMA TypesStep == SyncTypes /\ [Next]_vars => SyncTypes'
<1> SUFFICES ASSUME SyncTypes, [Next]_vars PROVE SyncTypes'
  OBVIOUS
<1>0. raced' \in BOOLEAN /\ deleted' \in BOOLEAN
  BY Actions DEF Race, vars, SyncTypes
<1>1. CASE WriterAction \/ UploadRefused
  <2>1. RecordTyped' /\ WritersTyped' /\ events' \in Seq({"write", "remove"})
    BY <1>1, TypesByWriters
  <2>2. UNCHANGED <<recent, hash, current, producer, pending, queue, removing>>
    BY <1>1, WritersLeave DEF watched, onway
  <2>3. EventsTyped' /\ ProducersTyped' /\ OnWayTyped'
    BY <2>1, <2>2 DEF SyncTypes, EventsTyped, ProducersTyped, OnWayTyped
  <2> QED
    BY <1>0, <2>1, <2>3 DEF SyncTypes
<1>2. CASE WatcherAction
  BY <1>0, <1>2, TypesByWatcher DEF SyncTypes
<1>3. CASE Restart
  BY <1>0, <1>3, TypesRestart DEF SyncTypes
<1>4. CASE UNCHANGED vars
  BY <1>4 DEF vars, watched, onway, saving, SyncTypes, RecordTyped, EventsTyped, ProducersTyped,
         OnWayTyped, WritersTyped, Locked
<1> QED
  BY <1>1, <1>2, <1>3, <1>4, Actions

\* File, record, watcher, pipe and writers are well typed; a writer past its beginning
\* has the content it will put, and MarkResult only saves a record there is.
THEOREM SyncTyped == Spec => [](TypeOK /\ SyncTypes)
<1>1. SyncTypes => TypeOK
  BY DEF SyncTypes, TypeOK, RecordTyped, EventsTyped, ProducersTyped, OnWayTyped, WritersTyped
<1> QED
  BY <1>1, TypesInit, TypesStep, PTL DEF Spec

-----------------------------------------------------------------------------
(* What holds as long as no race has been met. *)

Agreed(c) == IF c = Gone THEN mem = None \/ mem.off ELSE mem = c

\* A start that finds a truncated file: whatever happens next is a race.
Crashed ==
    /\ file = Empty /\ mem = None /\ events = << >> /\ ~recent
    /\ producer["config"].pc = "snapshot" /\ producer["events"].pc = "idle"
    /\ pending = None /\ queue = << >> /\ removing = None
    /\ store = None /\ ~looked /\ \A w \in Writers : writer[w].pc = "idle"

\* There is a record, or nothing but an upload that will bring one.
MemKnown ==
    mem = None =>
       /\ writer["refresh"].pc = "idle" /\ store = None /\ ~looked
       /\ \/ writer["operator"].pc = "idle" /\ file = Gone
          \/ writer["operator"].pc \in {"upload", "read", "update"}

\* The mutex is held by who writes.  A file with nothing to be read is being written
\* or has been written by an upload that is not saved yet, and a file that is being
\* written is such a file, or removed, or has just been uploaded.
Uploading == writer["operator"].pc \in {"read", "update", "save", "open"}
StoreKnown ==
    /\ \A w \in Writers : writer[w].pc = "write" <=> store = w
    /\ unlinked => store # None
    /\ file = Empty => writer["operator"].pc = "upload" \/ Uploading \/ (store # None /\ ~unlinked)
    /\ store # None /\ ~unlinked => file = Empty \/ (Seen(file) /\ Uploading)
    /\ looked \/ (store = "result" /\ unlinked) =>
          writer["operator"].pc \in {"record", "disable", "update"}

\* The last snapshot has the file as it is, or there will be another one.
Last ==
    IF producer["events"].pc = "prepare" THEN producer["events"].snap
    ELSE IF producer["config"].pc = "prepare" THEN producer["config"].snap
    ELSE current
Awaited(kind) == \E i \in DOMAIN events : events[i] = kind
SnapshotDue ==
    \/ \E p \in Producers : producer[p].pc = "snapshot"
    \/ events # << >> /\ (file = Gone => Awaited("remove"))
ChangeSeen == file # Empty => file = Last \/ SnapshotDue

\* The newest of the updates on their way has what the last snapshot had, unless
\* a reload has dropped the entry, when another update follows.
Resetting ==
    producer["config"].pc \in {"snapshot", "prepare"} /\ current = Gone /\ file # Gone
Dispatching == \E p \in Producers : producer[p].pc = "dispatch"
OnWay == Dispatching \/ pending # None \/ queue # << >> \/ removing # None
NewestIsCurrent ==
    /\ \A p \in Producers : producer[p].pc = "dispatch" => producer[p].snap = current
    /\ ~Dispatching /\ pending # None => pending = current \/ Resetting
    /\ ~Dispatching /\ pending = None /\ queue # << >> =>
          queue[Len(queue)] = current \/ Resetting
    /\ ~Dispatching /\ pending = None /\ queue = << >> /\ removing # None => current = Gone

\* With no update on its way the record is what the last snapshot had, unless
\* the file has something else by now, or a writer is about to put what the
\* record has into the file.
Changing(w) == writer[w].pc \in {"save", "open"} \/ (writer[w].pc = "write" /\ ~unlinked)
Covered ==
    \/ OnWay \/ Agreed(current)
    \/ file # Empty /\ file # current
    \/ store = "result" \/ writer["operator"].pc \in {"upload", "read", "record", "disable"}
    \/ \E w \in Writers : writer[w].pc = "update" \/ (Changing(w) /\ mem = writer[w].copy)
SavesCovered ==
    \A w \in Writers : writer[w].pc \in {"save", "open"} =>
       OnWay \/ Agreed(current) \/ Resetting \/ mem = writer[w].copy

Steady ==
    /\ ~Race /\ MemKnown /\ StoreKnown /\ ChangeSeen /\ NewestIsCurrent
    /\ Covered /\ SavesCovered

-----------------------------------------------------------------------------
(* Events and races. *)

LEMMA NotifyFacts ==
    ASSUME EventsTyped, NEW kind \in {"write", "remove"}, Notify(kind)
    PROVE  /\ events' # << >> /\ Awaited(kind)'
           /\ Awaited("remove") => Awaited("remove")'
<1>1. CASE events # << >> /\ events[Len(events)] = kind
  <2>1. events' = events
    BY <1>1 DEF Notify
  <2>2. Len(events) \in DOMAIN events
    BY <1>1, EmptySeq, LenProperties, EmptySeq DEF EventsTyped
  <2> QED
    BY <1>1, <2>1, <2>2 DEF Awaited
<1>2. CASE ~(events # << >> /\ events[Len(events)] = kind)
  <2>1. events' = Append(events, kind)
    BY <1>2 DEF Notify
  <2>2. /\ Append(events, kind) # << >>
        /\ Len(events) + 1 \in DOMAIN Append(events, kind)
        /\ Append(events, kind)[Len(events) + 1] = kind
        /\ \A i \in DOMAIN events : i \in DOMAIN Append(events, kind)
                                   /\ Append(events, kind)[i] = events[i]
    BY AppendProperties, LenProperties DEF EventsTyped
  <2> QED
    BY <2>1, <2>2 DEF Awaited
<1> QED
  BY <1>1, <1>2

\* Whoever changes the file leaves an event, and a removal one of its own.
LEMMA FileMoves ==
    ASSUME SyncTypes, WriterAction
    PROVE  \/ UNCHANGED <<file, events>>
           \/ /\ events' # << >> /\ (file' = Gone => Awaited("remove")')
              /\ Awaited("remove") => Awaited("remove")'
<1>0. EventsTyped /\ RecordTyped /\ WritersTyped
  BY DEF SyncTypes
<1>1. CASE Unlink
  <2>1. Notify("remove")
    BY <1>1 DEF Unlink
  <2> QED
    BY <1>0, <2>1, NotifyFacts
<1>2. CASE Upload \/ (Result /\ mem # file) \/ \E w \in Writers : Open(w) /\ writer[w].copy # file
  <2>1. Notify("write") /\ file' # Gone
    BY <1>0, <1>2, Apart DEF Upload, Result, ResultOpen, Open
  <2> QED
    BY <1>0, <2>1, NotifyFacts
<1>3. ASSUME NEW content \in Content, WriteOver(content)
      PROVE  events' # << >> /\ file' # Gone /\ (Awaited("remove") => Awaited("remove")')
  <2>1. Notify("write") /\ file' # Gone
    BY <1>3, Apart DEF WriteOver
  <2> QED
    BY <1>0, <2>1, NotifyFacts
<1>7. CASE UploadWrite
  <2>1. writer["operator"].copy \in Content /\ WriteOver(writer["operator"].copy)
    BY <1>0, <1>7 DEF UploadWrite, WritersTyped, Writers
  <2> QED
    BY <1>3, <2>1
<1>4. CASE ResultWrite
  <2>1. mem \in Content /\ Close(mem)
    BY <1>0, <1>4 DEF ResultWrite, WritersTyped, RecordTyped, Locked
  <2>2. CASE unlinked
    BY <2>1, <2>2 DEF Close
  <2> QED
    BY <1>3, <2>1, <2>2 DEF Close
<1>5. ASSUME NEW w \in Writers, Write(w)
      PROVE  \/ UNCHANGED <<file, events>>
             \/ events' # << >> /\ file' # Gone /\ (Awaited("remove") => Awaited("remove")')
  <2>1. writer[w].copy \in Content /\ Close(writer[w].copy)
    BY <1>0, <1>5 DEF Write, WritersTyped
  <2>2. CASE unlinked
    BY <2>1, <2>2 DEF Close
  <2> QED
    BY <1>3, <2>1, <2>2 DEF Close
<1>6. CASE \/ Refresh \/ Patch \/ Disable \/ UploadRead \/ (Result /\ mem = file)
           \/ \E w \in Writers : Update(w) \/ Save(w) \/ (Open(w) /\ writer[w].copy = file)
  BY <1>6 DEF Refresh, Patch, Disable, UploadRead, Result, ResultOpen, Update, Save, Open
<1>8. CASE Delete \/ DeleteRecord
  <2>1. Unlink \/ UNCHANGED <<file, events>>
    BY <1>8 DEF Delete, DeleteRecord
  <2> QED
    BY <1>1, <2>1
<1> QED
  BY <1>2, <1>4, <1>5, <1>6, <1>7, <1>8 DEF WriterAction

\* While a reload is under way the file stays as it is.
LEMMA ReloadAlone ==
    ASSUME SyncTypes, WriterAction, producer["config"].pc # "idle", ~Race'
    PROVE  UNCHANGED <<file, events>>
  BY FileMoves, WritersLeave DEF Race, watched

LEMMA CrashedEnds ==
    ASSUME SyncTypes, Crashed, WriterAction \/ WatcherAction
    PROVE  Race'
<1>0. EventsTyped
  BY DEF SyncTypes
<1>1. CASE Delete \/ Upload
  <2>1. events' # << >>
    BY <1>0, <1>1, NotifyFacts DEF Delete, Unlink, Upload
  <2> QED
    BY <1>1, <2>1 DEF Delete, Upload, watched, Crashed, Race
<1>2. ASSUME NEW p \in Producers, Snapshot(p) PROVE Race'
  <2>1. p = "config"
    BY <1>2 DEF Snapshot, Crashed, Producers
  <2>2. producer'["config"].pc = "prepare" /\ file' = Empty
    BY <1>2, <2>1 DEF Snapshot, Crashed, SyncTypes, ProducersTyped, Producers
  <2> QED
    BY <2>2 DEF Race
<1>3. ~(\/ Refresh \/ Patch \/ DeleteRecord \/ Disable \/ UploadWrite \/ UploadRead
        \/ Result \/ ResultWrite \/ \E w \in Writers : Update(w) \/ Save(w) \/ Open(w) \/ Write(w))
  BY NoneApart DEF Refresh, Patch, DeleteRecord, Disable, UploadWrite, UploadRead, Result, ResultWrite,
         Update, Save, Open, Write, Crashed, Writers
<1>4. ~(\/ HandleEvent \/ WindowEnds \/ Reload \/ Forward \/ Apply \/ Remove
        \/ \E p \in Producers : Prepare(p) \/ Dispatch(p))
  BY DEF HandleEvent, WindowEnds, Reload, Forward, Apply, Remove, Prepare, Dispatch, Crashed, Producers
<1> QED
  BY <1>1, <1>2, <1>3, <1>4 DEF WriterAction, WatcherAction

-----------------------------------------------------------------------------
(* The record, the mutex and the truncated file. *)

LEMMA MemStep ==
    ASSUME SyncTypes, MemKnown, StoreKnown, WriterAction \/ WatcherAction
    PROVE  MemKnown'
<1>0. RecordTyped /\ WritersTyped /\ OnWayTyped
  BY DEF SyncTypes
<1>1. CASE Refresh \/ Patch \/ Disable
  BY <1>0, <1>1 DEF Refresh, Patch, Disable, MemKnown, WritersTyped, Writers
<1>8. CASE Delete \/ DeleteRecord
  <2>1. mem # None
    BY <1>8 DEF Delete, DeleteRecord, MemKnown
  <2> QED
    BY <1>8, <2>1 DEF Delete, DeleteRecord, MemKnown
<1>2. CASE Upload \/ UploadWrite \/ UploadRead
  BY <1>0, <1>2 DEF Upload, UploadWrite, UploadRead, MemKnown, WritersTyped, Writers
<1>3. ASSUME NEW w \in Writers, Update(w) PROVE MemKnown'
  <2>1. mem' # None
    BY <1>0, <1>3, Apart DEF Update, WritersTyped
  <2> QED
    BY <2>1 DEF MemKnown
<1>4. ASSUME NEW w \in Writers, Save(w) \/ Open(w) \/ Write(w) PROVE MemKnown'
  <2>1. mem # None
    BY <1>4 DEF Save, Open, Write, MemKnown, Writers
  <2> QED
    BY <1>4, <2>1 DEF Save, Open, Write, MemKnown
<1>5. CASE Result \/ ResultWrite
  <2>1. mem # None /\ UNCHANGED mem
    BY <1>0, <1>5 DEF Result, ResultOpen, ResultWrite, WritersTyped, Locked
  <2> QED
    BY <2>1 DEF MemKnown
<1>6. CASE Apply \/ Remove
  <2>1. queue # << >> => Head(queue) \in Content \cup {Gone}
    BY <1>0, HeadTailProperties DEF OnWayTyped
  <2>2. Remove => mem' \in Content
    BY <1>0 DEF Remove, OnWayTyped, Content
  <2>3. mem' = None => mem = None
    BY <1>6, <2>1, <2>2, Apart DEF Apply, Remove
  <2> QED
    BY <1>6, <2>3 DEF Apply, Remove, MemKnown, saving
<1>7. CASE \/ HandleEvent \/ WindowEnds \/ Reload \/ Forward
           \/ \E p \in Producers : Snapshot(p) \/ Prepare(p) \/ Dispatch(p)
  BY <1>7 DEF HandleEvent, WindowEnds, Reload, Forward, Snapshot, Prepare, Dispatch, MemKnown, saving
<1> QED
  BY <1>1, <1>2, <1>3, <1>4, <1>5, <1>6, <1>7, <1>8 DEF WriterAction, WatcherAction

LEMMA StoreStep ==
    ASSUME SyncTypes, MemKnown, StoreKnown, WriterAction \/ WatcherAction
    PROVE  StoreKnown'
<1>0. RecordTyped /\ WritersTyped
  BY DEF SyncTypes
<1>1. CASE Refresh \/ Patch
  BY <1>0, <1>1 DEF Refresh, Patch, StoreKnown, Uploading, WritersTyped, Writers
<1>2. CASE Delete \/ DeleteRecord
  <2>1. /\ file' = Gone /\ UNCHANGED store
        /\ unlinked' = (store # None) \/ (file = Gone /\ UNCHANGED unlinked)
    BY <1>2 DEF Delete, DeleteRecord, Unlink
  <2>2. /\ writer'["operator"].pc \in {"record", "disable"}
        /\ writer["operator"].pc \in {"idle", "record"}
        /\ writer'["refresh"] = writer["refresh"]
    BY <1>0, <1>2 DEF Delete, DeleteRecord, WritersTyped, Writers
  <2>3. \A w \in Writers : writer'[w].pc = "write" <=> store' = w
    BY <2>1, <2>2 DEF StoreKnown, Writers
  <2>4. unlinked' => store' # None
    BY <2>1 DEF StoreKnown
  <2>5. ~(store' # None /\ ~unlinked')
    BY <2>1, <2>2, Apart DEF StoreKnown, Seen, Uploading
  <2> QED
    BY <2>1, <2>2, <2>3, <2>4, <2>5, Apart DEF StoreKnown
<1>3. CASE Disable
  BY <1>0, <1>3 DEF Disable, StoreKnown, Uploading, WritersTyped, Locked, Writers
<1>4. CASE Upload
  BY <1>0, <1>4 DEF Upload, StoreKnown, Uploading, WritersTyped, Writers
<1>5. CASE UploadWrite
  <2>1. file' = Empty \/ file' \in Content
    BY <1>0, <1>5 DEF UploadWrite, WriteOver, WritersTyped, Writers
  <2>2. file' = Empty \/ Seen(file')
    BY <2>1, Apart DEF Seen
  <2> QED
    BY <1>0, <1>5, <2>2, Apart DEF UploadWrite, StoreKnown, Uploading, WritersTyped, Writers, Seen
<1>13. CASE UploadRead
  BY <1>0, <1>13 DEF UploadRead, StoreKnown, Uploading, WritersTyped, Writers
<1>6. ASSUME NEW w \in Writers, Update(w) PROVE StoreKnown'
  BY <1>0, <1>6 DEF Update, StoreKnown, Uploading, Locked, WritersTyped, Writers
<1>7. ASSUME NEW w \in Writers, Save(w) PROVE StoreKnown'
  BY <1>0, <1>7, Apart DEF Save, Barred, StoreKnown, Uploading, WritersTyped, Writers, Seen
<1>8. ASSUME NEW w \in Writers, Open(w) PROVE StoreKnown'
  <2>1. writer[w].copy # Empty
    BY <1>0, <1>8, Apart DEF Open, WritersTyped
  <2> QED
    BY <1>0, <1>8, <2>1, NoneApart DEF Open, StoreKnown, Uploading, WritersTyped, Writers
<1>c. ASSUME NEW content \in Content, Close(content),
             UNCHANGED looked, writer'["operator"] = writer["operator"]
                               \/ (writer["operator"].pc = "write" /\ writer'["operator"].pc = "idle"),
             \A w \in Writers : writer'[w].pc # "write", store # None
      PROVE  StoreKnown'
  <2>1. content # Empty /\ store' = None /\ unlinked' = FALSE
    BY <1>c, Apart DEF Close
  <2>2. file' = Empty => writer["operator"].pc = "upload" \/ Uploading
    BY <1>c, <2>1 DEF Close, WriteOver, StoreKnown
  <2>3. file' = Empty => (writer["operator"].pc = "upload" \/ Uploading)'
    BY <1>c, <2>2 DEF Uploading
  <2> QED
    BY <1>c, <2>1, <2>3, NoneApart DEF StoreKnown
<1>9. ASSUME NEW w \in Writers, Write(w) PROVE StoreKnown'
  <2>1. writer[w].copy \in Content /\ store = w /\ store # None
    BY <1>0, <1>9, NoneApart DEF Write, WritersTyped, StoreKnown
  <2>2. \A v \in Writers : writer'[v].pc # "write" /\ (v # w => writer'[v] = writer[v])
    BY <1>0, <1>9, <2>1 DEF Write, WritersTyped, StoreKnown
  <2>3. writer'["operator"] = writer["operator"]
        \/ (writer["operator"].pc = "write" /\ writer'["operator"].pc = "idle")
    BY <1>0, <1>9, <2>2 DEF Write, WritersTyped, Writers
  <2> QED
    BY <1>9, <1>c, <2>1, <2>2, <2>3 DEF Write
<1>10. CASE Result
  <2>1. mem # Empty /\ ResultOpen
    BY <1>0, <1>10, Apart DEF Result, RecordTyped
  <2> QED
    BY <1>0, <2>1, NoneApart DEF ResultOpen, StoreKnown, Uploading, WritersTyped, Writers
<1>11. CASE ResultWrite
  <2>1. mem \in Content /\ store = "result"
    BY <1>0, <1>11 DEF ResultWrite, WritersTyped, RecordTyped, Locked
  <2>2. \A w \in Writers : writer[w].pc # "write"
    BY <2>1 DEF StoreKnown, Writers
  <2> QED
    BY <1>11, <1>c, <2>1, <2>2, NoneApart DEF ResultWrite
<1>12. CASE WatcherAction
  <2>1. UNCHANGED <<file, writer, store, looked, unlinked>>
    BY <1>12 DEF WatcherAction, HandleEvent, WindowEnds, Reload, Forward, Snapshot, Prepare, Dispatch,
           Apply, Remove, saving
  <2> QED
    BY <2>1 DEF StoreKnown, Uploading, Seen
<1> QED
  BY <1>1, <1>2, <1>3, <1>4, <1>5, <1>6, <1>7, <1>8, <1>9, <1>10, <1>11, <1>12, <1>13
     DEF WriterAction

-----------------------------------------------------------------------------
(* The snapshots. *)

LEMMA ChangeStep ==
    ASSUME SyncTypes, ~Race, ~Race', ChangeSeen, WriterAction \/ WatcherAction
    PROVE  ChangeSeen'
<1>0. RecordTyped /\ EventsTyped /\ ProducersTyped /\ OnWayTyped
  BY DEF SyncTypes
<1>1. CASE WriterAction
  <2>1. UNCHANGED <<current, producer>>
    BY <1>1, WritersLeave DEF watched
  <2>2. CASE UNCHANGED <<file, events>>
    BY <2>1, <2>2 DEF ChangeSeen, Last, SnapshotDue, Awaited
  <2>3. CASE events' # << >> /\ (file' = Gone => Awaited("remove")')
    BY <2>3 DEF ChangeSeen, SnapshotDue
  <2> QED
    BY <1>1, <2>2, <2>3, FileMoves
<1>2. CASE HandleEvent
  <2>1. /\ producer["config"].pc = "idle" /\ producer["events"].pc = "idle"
        /\ UNCHANGED <<file, current>> /\ events # << >>
    BY <1>2 DEF HandleEvent, Race
  <2>2. CASE current = file \/ file = Empty
    <3>1. producer'["config"].pc = "idle" /\ producer'["events"].pc # "prepare"
      BY <1>0, <1>2, <2>1 DEF HandleEvent, ProducersTyped, Producers
    <3> QED
      BY <2>1, <2>2, <3>1 DEF ChangeSeen, Last
  <2>3. CASE current # file /\ Seen(file)
    <3>1. file # hash
      BY <2>1, <2>3 DEF Race
    <3>2. ~(Head(events) = "remove" /\ recent)
      <4>1. Head(events) = events[1] /\ 1 \in DOMAIN events
        BY <1>0, <2>1, HeadTailProperties, LenProperties, EmptySeq DEF EventsTyped
      <4> QED
        BY <4>1 DEF Race
    <3>3. producer' = [producer EXCEPT !["events"].pc = "snapshot"]
      BY <1>2, <2>3, <3>1, <3>2 DEF HandleEvent
    <3> QED
      BY <1>0, <3>3 DEF ChangeSeen, SnapshotDue, ProducersTyped, Producers
  <2>4. CASE current # file /\ file = Gone
    <3>1. hash # None
      BY <2>1, <2>4 DEF Race
    <3>2. Head(events) = events[1] /\ 1 \in DOMAIN events
      BY <1>0, <2>1, HeadTailProperties, LenProperties, EmptySeq DEF EventsTyped
    <3>3. CASE Head(events) = "remove"
      <4>1. ~recent
        BY <3>2, <3>3 DEF Race
      <4>2. producer' = [producer EXCEPT !["events"].pc = "snapshot"]
        BY <1>2, <2>4, <3>1, <3>3, <4>1 DEF HandleEvent
      <4> QED
        BY <1>0, <4>2 DEF ChangeSeen, SnapshotDue, ProducersTyped, Producers
    <3>4. CASE Head(events) # "remove"
      <4>1. Awaited("remove")
        BY <1>0, <2>1, <2>4, Apart DEF ChangeSeen, Last, SnapshotDue, ProducersTyped, Producers
      <4>2. PICK i \in DOMAIN events : events[i] = "remove"
        BY <4>1 DEF Awaited
      <4>3. /\ i \in 2 .. Len(events) /\ events' = Tail(events)
            /\ i - 1 \in DOMAIN events' /\ events'[i - 1] = events[i]
        BY <1>0, <1>2, <2>1, <3>2, <3>4, <4>2, HeadTailProperties, LenProperties
           DEF EventsTyped, HandleEvent
      <4>4. Awaited("remove")' /\ events' # << >>
        BY <4>2, <4>3 DEF Awaited
      <4> QED
        BY <4>4 DEF ChangeSeen, SnapshotDue
    <3> QED
      BY <3>3, <3>4
  <2> QED
    BY <2>2, <2>3, <2>4 DEF Seen
<1>3. CASE WindowEnds \/ Forward \/ Apply \/ Remove
  BY <1>3 DEF WindowEnds, Forward, Apply, Remove, watched, ChangeSeen, Last, SnapshotDue, Awaited
<1>4. CASE Reload
  BY <1>0, <1>4 DEF Reload, ChangeSeen, SnapshotDue, ProducersTyped, Producers
<1>5. ASSUME NEW p \in Producers, Snapshot(p) PROVE ChangeSeen'
  <2>1. CASE file = Empty
    BY <1>5, <2>1 DEF Snapshot, ChangeSeen
  <2>2. CASE file # Empty
    <3>1. producer'[p].pc = "prepare" /\ producer'[p].snap = file /\ file' = file
      BY <1>0, <1>5, <2>2 DEF Snapshot, Seen, ProducersTyped
    <3>2. p = "config" => producer'["events"].pc = "idle"
      BY <3>1 DEF Race
    <3> QED
      BY <3>1, <3>2 DEF ChangeSeen, Last, Producers
  <2> QED
    BY <2>1, <2>2
<1>6. ASSUME NEW p \in Producers, Prepare(p) PROVE ChangeSeen'
  <2>1. CASE SnapshotDue
    BY <1>0, <1>6, <2>1 DEF Prepare, ChangeSeen, SnapshotDue, Awaited, ProducersTyped
  <2>2. CASE file # Empty /\ file = Last
    <3>1. p = "config" => producer["events"].pc = "idle"
      BY <1>6 DEF Prepare, Race
    <3>2. Last = producer[p].snap
      BY <1>6, <3>1 DEF Prepare, Last, Producers
    <3>3. \A q \in Producers : producer'[q].pc # "prepare"
      BY <1>0, <1>6, <3>1 DEF Prepare, ProducersTyped, Producers, Race
    <3>4. Last' = producer[p].snap
      BY <1>6, <3>3 DEF Prepare, Last, Producers
    <3> QED
      BY <1>6, <2>2, <3>2, <3>4 DEF Prepare, ChangeSeen
  <2>3. CASE file = Empty
    BY <1>6, <2>3 DEF Prepare, ChangeSeen
  <2> QED
    BY <2>1, <2>2, <2>3 DEF ChangeSeen
<1>7. ASSUME NEW p \in Producers, Dispatch(p) PROVE ChangeSeen'
  BY <1>0, <1>7 DEF Dispatch, ChangeSeen, Last, SnapshotDue, Awaited, ProducersTyped, Producers
<1> QED
  BY <1>1, <1>2, <1>3, <1>4, <1>5, <1>6, <1>7 DEF WatcherAction

-----------------------------------------------------------------------------
(* The updates on their way. *)

LEMMA LastOfTail ==
    ASSUME NEW S, NEW q \in Seq(S), q # << >>
    PROVE  /\ Tail(q) = << >> => Head(q) = q[Len(q)]
           /\ Tail(q) # << >> => Tail(q)[Len(Tail(q))] = q[Len(q)]
<1>1. /\ Len(q) \in Nat \ {0} /\ Head(q) = q[1] /\ Tail(q) \in Seq(S)
      /\ Len(Tail(q)) = Len(q) - 1
      /\ \A i \in 1 .. Len(Tail(q)) : Tail(q)[i] = q[i + 1]
  BY HeadTailProperties, LenProperties, EmptySeq
<1>2. Tail(q) = << >> => Len(q) = 1
  BY <1>1, EmptySeq
<1>3. Tail(q) # << >> => Len(Tail(q)) \in 1 .. Len(Tail(q))
  BY <1>1, LenProperties, EmptySeq
<1>4. CASE Tail(q) = << >>
  BY <1>1, <1>2, <1>4
<1>5. CASE Tail(q) # << >>
  BY <1>1, <1>3, <1>5
<1> QED
  BY <1>4, <1>5

\* A reload begins when the last snapshot has the file as it is.
LEMMA ReloadStart ==
    ASSUME SyncTypes, ~Race', ChangeSeen, Reload
    PROVE  /\ file # Empty /\ file = current
           /\ \A p \in Producers : producer[p].pc = "idle"
<1>1. producer["config"].pc = "idle" /\ UNCHANGED <<file, events>>
  BY DEF Reload
<1>2. producer'["config"].pc = "snapshot" /\ producer'["events"] = producer["events"]
  BY DEF Reload, SyncTypes, ProducersTyped, Producers
<1> QED
  BY <1>1, <1>2 DEF Race, ChangeSeen, SnapshotDue, Last, Producers

\* Without a difference a snapshot changes nothing, and no reload had dropped the
\* entry.
LEMMA NothingNew ==
    ASSUME SyncTypes, ~Race, ChangeSeen, NEW p \in Producers, Prepare(p)
    PROVE  /\ ~Dispatching
           /\ UNCHANGED <<file, mem, events, onway, saving>>
           /\ \/ Dispatching' /\ producer'[p].pc = "dispatch" /\ producer'[p].snap = current'
              \/ ~Dispatching' /\ current' = current /\ ~Resetting
           /\ \A q \in Producers : producer'[q].pc = "dispatch" => q = p
<1>0. ProducersTyped
  BY DEF SyncTypes
<1>1. producer[p].pc = "prepare" /\ current' = producer[p].snap
  BY DEF Prepare
<1>2. \A q \in Producers : q # p => producer[q].pc = "idle" /\ producer'[q].pc = "idle"
  BY <1>0, <1>1 DEF Prepare, Race, Producers, ProducersTyped
<1>3. CASE producer' = [producer EXCEPT ![p] = [pc |-> "dispatch", snap |-> producer[p].snap]]
  BY <1>0, <1>1, <1>2, <1>3 DEF Prepare, Dispatching, ProducersTyped
<1>4. CASE /\ producer' = [producer EXCEPT ![p] = [pc |-> "idle", snap |-> Gone]]
           /\ producer[p].snap = current
  <2>1. ~Resetting
    <3>1. SUFFICES ASSUME Resetting PROVE FALSE
      OBVIOUS
    <3>2. p = "config" /\ current = Gone /\ file # Gone
      BY <1>1, <1>2, <3>1 DEF Resetting, Producers
    <3>3. file # Empty /\ events = << >> /\ producer["events"].pc = "idle"
      BY <1>1, <3>2 DEF Race
    <3>4. ~SnapshotDue /\ Last = producer[p].snap
      BY <1>1, <3>2, <3>3 DEF SnapshotDue, Last, Producers
    <3> QED
      BY <1>4, <3>2, <3>3, <3>4 DEF ChangeSeen
  <2>2. ~Dispatching /\ ~Dispatching'
    BY <1>0, <1>1, <1>2, <1>4 DEF Dispatching, ProducersTyped
  <2>3. \A q \in Producers : producer'[q].pc # "dispatch"
    BY <2>2 DEF Dispatching
  <2> QED
    BY <1>1, <1>4, <2>1, <2>2, <2>3 DEF Prepare
<1> QED
  BY <1>3, <1>4 DEF Prepare

LEMMA NewestStep ==
    ASSUME SyncTypes, ~Race, ~Race', ChangeSeen, NewestIsCurrent, WriterAction \/ WatcherAction
    PROVE  NewestIsCurrent'
<1>0. ProducersTyped /\ OnWayTyped
  BY DEF SyncTypes
<1>k. ASSUME UNCHANGED <<current, producer, onway>>, Resetting => Resetting' PROVE NewestIsCurrent'
  BY <1>k DEF onway, NewestIsCurrent, Dispatching
<1>1. CASE WriterAction
  <2>1. UNCHANGED <<current, producer, onway>>
    BY <1>1, WritersLeave DEF watched
  <2>2. Resetting => Resetting'
    BY <1>1, <2>1, ReloadAlone DEF Resetting
  <2> QED
    BY <1>k, <2>1, <2>2
<1>2. CASE HandleEvent
  <2>1. /\ UNCHANGED <<current, onway>> /\ ~Resetting
        /\ \A p \in Producers :
              producer'[p] = producer[p] \/ (producer[p].pc = "idle" /\ producer'[p].pc = "snapshot")
    BY <1>0, <1>2 DEF HandleEvent, Race, Resetting, ProducersTyped, Producers
  <2>2. Dispatching' = Dispatching
    BY <2>1 DEF Dispatching
  <2> QED
    BY <2>1, <2>2 DEF NewestIsCurrent, onway
<1>3. CASE WindowEnds
  BY <1>3, <1>k DEF WindowEnds, Resetting
<1>4. CASE Reload
  <2>1. file # Empty /\ file = current /\ ~Dispatching /\ ~Resetting
    BY <1>4, ReloadStart DEF Dispatching, Resetting, Producers
  <2>2. ~Dispatching' /\ producer'["config"].pc = "snapshot" /\ UNCHANGED <<file, onway>>
    BY <1>0, <1>4, <2>1 DEF Reload, Dispatching, ProducersTyped, Producers
  <2>3. current' = current \/ Resetting'
    BY <1>4, <2>1, <2>2 DEF Reload, Resetting
  <2>4. current = Gone => current' = Gone
    BY <1>4 DEF Reload
  <2> QED
    BY <2>1, <2>2, <2>3, <2>4 DEF NewestIsCurrent, Dispatching, onway
<1>5. ASSUME NEW p \in Producers, Snapshot(p) PROVE NewestIsCurrent'
  <2>1. /\ UNCHANGED <<current, onway, file>>
        /\ \A q \in Producers :
              producer'[q] = producer[q] \/ (producer[q].pc = "snapshot" /\ producer'[q].pc = "prepare")
    BY <1>0, <1>5 DEF Snapshot, ProducersTyped
  <2>2. Dispatching' = Dispatching /\ (Resetting => Resetting')
    BY <2>1 DEF Dispatching, Resetting, Producers
  <2> QED
    BY <2>1, <2>2 DEF NewestIsCurrent, onway
<1>6. ASSUME NEW p \in Producers, Prepare(p) PROVE NewestIsCurrent'
  BY <1>6, NothingNew DEF NewestIsCurrent, Dispatching, onway
<1>7. ASSUME NEW p \in Producers, Dispatch(p) PROVE NewestIsCurrent'
  <2>1. producer[p].snap = current /\ producer[p].snap # None
    BY <1>0, <1>7, Apart DEF Dispatch, NewestIsCurrent, ProducersTyped
  <2>2. \A q \in Producers : producer'[q].pc # "dispatch"
    BY <1>0, <1>7 DEF Dispatch, Race, ProducersTyped, Producers
  <2> QED
    BY <1>7, <2>1, <2>2 DEF Dispatch, NewestIsCurrent, Dispatching
<1>8. CASE Forward
  <2>1. /\ UNCHANGED <<file, current, producer, removing>> /\ pending # None /\ pending' = None
        /\ queue' = Append(queue, pending) /\ pending \in Content \cup {Gone}
    BY <1>0, <1>8 DEF Forward, watched, OnWayTyped
  <2>2. queue' # << >> /\ queue'[Len(queue')] = pending
    BY <1>0, <2>1, AppendProperties DEF OnWayTyped
  <2> QED
    BY <2>1, <2>2 DEF NewestIsCurrent, Dispatching, Resetting
<1>9. CASE Apply
  <2>1. /\ UNCHANGED <<file, current, producer, pending>> /\ queue # << >> /\ queue' = Tail(queue)
        /\ removing = None /\ (removing' # None => Head(queue) = Gone)
    BY <1>9 DEF Apply, watched
  <2>2. /\ queue' = << >> => Head(queue) = queue[Len(queue)]
        /\ queue' # << >> => queue'[Len(queue')] = queue[Len(queue)]
    BY <1>0, <2>1, LastOfTail DEF OnWayTyped
  <2> QED
    BY <2>1, <2>2 DEF NewestIsCurrent, Dispatching, Resetting
<1>10. CASE Remove
  BY <1>10 DEF Remove, watched, NewestIsCurrent, Dispatching, Resetting
<1> QED
  BY <1>1, <1>2, <1>3, <1>4, <1>5, <1>6, <1>7, <1>8, <1>9, <1>10 DEF WatcherAction

-----------------------------------------------------------------------------
(* The record and the last snapshot. *)

\* What the steps of the watcher do to the pipe.
LEMMA QuietSteps ==
    ASSUME SyncTypes, ~Race, ~Race', HandleEvent \/ WindowEnds \/ \E p \in Producers : Snapshot(p)
    PROVE  UNCHANGED <<mem, file, current, saving>> /\ OnWay' = OnWay /\ (Resetting => Resetting')
<1>0. ProducersTyped
  BY DEF SyncTypes
<1>1. CASE HandleEvent
  <2>1. \A p \in Producers :
              producer'[p] = producer[p] \/ (producer[p].pc = "idle" /\ producer'[p].pc = "snapshot")
    BY <1>0, <1>1 DEF HandleEvent, ProducersTyped, Producers
  <2>2. Dispatching' = Dispatching /\ ~Resetting
    BY <1>1, <2>1 DEF HandleEvent, Race, Dispatching, Resetting
  <2> QED
    BY <1>1, <2>2 DEF HandleEvent, OnWay, onway
<1>2. CASE WindowEnds
  BY <1>2 DEF WindowEnds, OnWay, onway, Dispatching, Resetting
<1>3. ASSUME NEW p \in Producers, Snapshot(p)
      PROVE  UNCHANGED <<mem, file, current, saving>> /\ OnWay' = OnWay /\ (Resetting => Resetting')
  <2>1. \A q \in Producers :
              producer'[q] = producer[q] \/ (producer[q].pc = "snapshot" /\ producer'[q].pc = "prepare")
    BY <1>0, <1>3 DEF Snapshot, ProducersTyped
  <2>2. Dispatching' = Dispatching
    BY <2>1 DEF Dispatching
  <2>3. Resetting => Resetting'
    BY <1>3, <2>1 DEF Snapshot, Resetting, Producers
  <2> QED
    BY <1>3, <2>2, <2>3 DEF Snapshot, OnWay, onway
<1> QED
  BY <1>1, <1>2, <1>3

LEMMA ReloadSteps ==
    ASSUME SyncTypes, ~Race', ChangeSeen, Reload
    PROVE  /\ UNCHANGED <<mem, file, saving>> /\ file # Empty /\ OnWay' = OnWay /\ ~Resetting
           /\ current' = current \/ (Resetting' /\ file # current')
<1>0. ProducersTyped
  BY DEF SyncTypes
<1>1. file # Empty /\ file = current /\ \A p \in Producers : producer[p].pc = "idle"
  BY ReloadStart
<1>2. producer'["config"].pc = "snapshot" /\ \A p \in Producers : producer'[p].pc # "dispatch"
  BY <1>0, <1>1 DEF Reload, ProducersTyped, Producers
<1>3. OnWay' = OnWay /\ ~Resetting
  BY <1>1, <1>2 DEF Reload, OnWay, onway, Dispatching, Resetting, Producers
<1>4. current' = current \/ (Resetting' /\ file # current')
  BY <1>1, <1>2 DEF Reload, Resetting
<1> QED
  BY <1>1, <1>3, <1>4 DEF Reload

LEMMA MoveSteps ==
    ASSUME SyncTypes, Forward \/ \E p \in Producers : Dispatch(p)
    PROVE  OnWay'
<1>0. ProducersTyped /\ OnWayTyped
  BY DEF SyncTypes
<1>1. CASE Forward
  <2>1. queue' = Append(queue, pending) /\ pending \in Content \cup {Gone}
    BY <1>0, <1>1 DEF Forward, OnWayTyped
  <2>2. queue' # << >>
    BY <1>0, <2>1, AppendProperties DEF OnWayTyped
  <2> QED
    BY <2>2 DEF OnWay
<1>2. ASSUME NEW p \in Producers, Dispatch(p) PROVE OnWay'
  <2>1. pending' \in Content \cup {Gone}
    BY <1>0, <1>2 DEF Dispatch, ProducersTyped
  <2> QED
    BY <2>1, Apart DEF OnWay
<1> QED
  BY <1>1, <1>2

\* What an update that leaves the pipe has put into the record.
LEMMA LastApplied ==
    ASSUME SyncTypes, ~Race, NewestIsCurrent, Apply \/ Remove, ~OnWay'
    PROVE  /\ Agreed(current)' \/ Resetting'
           /\ UNCHANGED <<file, current, producer>>
<1>0. OnWayTyped
  BY DEF SyncTypes
<1>1. UNCHANGED <<file, current, producer, pending>>
  BY DEF Apply, Remove, watched
<1>2. ~Dispatching /\ pending = None /\ queue' = << >> /\ removing' = None
  BY <1>1 DEF OnWay, Dispatching
<1>3. CASE Apply
  <2>1. Head(queue) = queue[Len(queue)] /\ queue # << >>
    BY <1>0, <1>2, <1>3, LastOfTail DEF Apply, OnWayTyped
  <2>2. Head(queue) = current \/ Resetting
    BY <1>2, <2>1 DEF NewestIsCurrent
  <2>3. CASE Head(queue) # Gone
    BY <1>1, <1>3, <2>2, <2>3 DEF Apply, Agreed, Resetting
  <2>4. CASE Head(queue) = Gone
    <3>1. mem' = None /\ current' = Gone
      BY <1>1, <1>2, <1>3, <2>2, <2>4 DEF Apply, Resetting
    <3> QED
      BY <1>1, <3>1 DEF Agreed
  <2> QED
    BY <1>1, <2>3, <2>4
<1>4. CASE Remove
  <2>1. queue = << >> /\ removing # None
    BY <1>2, <1>4 DEF Remove
  <2>2. current = Gone
    BY <1>2, <2>1 DEF NewestIsCurrent
  <2>3. mem' = [removing EXCEPT !.off = TRUE] /\ removing \in Content
    BY <1>0, <1>4, <2>1 DEF Remove, OnWayTyped
  <2>4. mem'.off
    BY <2>3 DEF Content
  <2> QED
    BY <1>1, <2>2, <2>4 DEF Agreed
<1> QED
  BY <1>3, <1>4

LEMMA SavesStep ==
    ASSUME SyncTypes, ~Race, ~Race', MemKnown, ChangeSeen, NewestIsCurrent, SavesCovered,
           WriterAction \/ WatcherAction
    PROVE  SavesCovered'
<1>0. ProducersTyped /\ OnWayTyped /\ WritersTyped
  BY DEF SyncTypes
<1>1. CASE WriterAction
  <2>1. UNCHANGED <<current, producer, onway>>
    BY <1>1, WritersLeave DEF watched
  <2>2. (Resetting => Resetting') /\ OnWay' = OnWay
    BY <1>1, <2>1, ReloadAlone DEF Resetting, OnWay, Dispatching, onway
  <2>k. ASSUME UNCHANGED mem,
               \A w \in Writers : writer'[w].pc \in {"save", "open"} =>
                  writer[w].pc \in {"save", "open"} /\ writer'[w].copy = writer[w].copy
        PROVE  SavesCovered'
    BY <2>1, <2>2, <2>k DEF SavesCovered, Agreed
  <2>3. CASE \/ Refresh \/ Patch \/ Delete \/ DeleteRecord \/ Disable
             \/ Upload \/ UploadWrite \/ UploadRead
    BY <1>0, <2>3, <2>k
       DEF Refresh, Patch, Delete, DeleteRecord, Disable, Upload, UploadWrite, UploadRead,
           WritersTyped, Writers
  <2>4. ASSUME NEW w \in Writers, Save(w) \/ Open(w) \/ Write(w) PROVE SavesCovered'
    BY <1>0, <2>4, <2>k DEF Save, Open, Write, WritersTyped
  <2>5. CASE Result \/ ResultWrite
    BY <2>5, <2>k DEF Result, ResultOpen, ResultWrite
  <2>6. ASSUME NEW w \in Writers, Update(w) PROVE SavesCovered'
    <3>1. /\ writer'[w].pc \in {"save", "open"} /\ mem' = writer'[w].copy
      BY <1>0, <2>6 DEF Update, WritersTyped
    <3>2. \A v \in Writers : writer'[v].pc \in {"save", "open"} => v = w
      BY <3>1 DEF Race, Writers
    <3> QED
      BY <3>1, <3>2 DEF SavesCovered
  <2> QED
    BY <1>1, <2>3, <2>4, <2>5, <2>6 DEF WriterAction
<1>2. CASE WatcherAction
  <2>1. UNCHANGED writer
    BY <1>2 DEF WatcherAction, HandleEvent, WindowEnds, Reload, Forward, Snapshot, Prepare, Dispatch,
           Apply, Remove, saving
  <2>k. ASSUME UNCHANGED <<mem, current>>, OnWay => OnWay', Resetting => Resetting'
        PROVE  SavesCovered'
    BY <2>1, <2>k DEF SavesCovered, Agreed
  <2>w. ASSUME OnWay' \/ Agreed(current)' \/ Resetting' PROVE SavesCovered'
    BY <2>w DEF SavesCovered
  <2>3. CASE HandleEvent \/ WindowEnds \/ \E p \in Producers : Snapshot(p)
    BY <2>3, <2>k, QuietSteps
  <2>4. CASE Reload
    BY <2>4, <2>k, <2>w, ReloadSteps
  <2>5. ASSUME NEW p \in Producers, Prepare(p) PROVE SavesCovered'
    BY <2>5, <2>k, <2>w, NothingNew DEF OnWay, onway
  <2>6. CASE Forward \/ \E p \in Producers : Dispatch(p)
    BY <2>6, <2>w, MoveSteps
  <2>7. CASE Apply \/ Remove
    BY <2>7, <2>w, LastApplied
  <2> QED
    BY <1>2, <2>3, <2>4, <2>5, <2>6, <2>7 DEF WatcherAction
<1> QED
  BY <1>1, <1>2

LEMMA CoveredByWriters ==
    ASSUME SyncTypes, ~Race, ~Race', MemKnown, StoreKnown, Covered, SavesCovered, WriterAction
    PROVE  Covered'
<1>0. RecordTyped /\ WritersTyped
  BY DEF SyncTypes
<1>1. UNCHANGED <<current, producer, onway>> /\ OnWay' = OnWay
  BY WritersLeave DEF watched, onway, OnWay, Dispatching
<1>o. CASE OnWay
  BY <1>1, <1>o DEF Covered
<1>2. CASE Refresh \/ Patch \/ Delete \/ DeleteRecord \/ Upload \/ UploadWrite \/ UploadRead
  <2>1. \E w \in Writers :
           writer'[w].pc = "update" \/ (w = "operator" /\ writer'[w].pc \in {"upload", "read", "record", "disable"})
    BY <1>0, <1>2 DEF Refresh, Patch, Delete, DeleteRecord, Upload, UploadWrite, UploadRead,
                      WritersTyped, Writers
  <2> QED
    BY <2>1 DEF Covered
\* What is written over an upload that is not saved yet.
<1>u. ASSUME Uploading, UNCHANGED mem, writer'["operator"] = writer["operator"], events' # << >>
      PROVE  Covered'
  <2>1. CASE writer["operator"].pc \in {"read", "update"}
    BY <1>u, <2>1 DEF Covered, Writers
  <2>2. CASE writer["operator"].pc \in {"save", "open"}
    <3>1. ~Resetting
      BY <1>1, <1>u DEF Race, Resetting
    <3>2. OnWay \/ Agreed(current) \/ mem = writer["operator"].copy
      BY <2>2, <3>1 DEF SavesCovered, Writers
    <3>3. mem = writer["operator"].copy => Covered'
      BY <1>u, <2>2 DEF Covered, Changing, Writers
    <3> QED
      BY <1>1, <1>u, <3>2, <3>3 DEF Covered, Agreed
  <2> QED
    BY <1>u, <2>1, <2>2 DEF Uploading
<1>w. ASSUME NEW content \in Content, WriteOver(content) PROVE events' # << >>
  <2>1. EventsTyped /\ Notify("write")
    BY <1>w DEF SyncTypes, WriteOver
  <2> QED
    BY <2>1, NotifyFacts
<1>3. CASE Disable
  <2>1. mem # None
    BY <1>3 DEF Disable, MemKnown
  <2> QED
    BY <1>0, <1>3, <2>1 DEF Disable, Covered, WritersTyped, Writers
<1>4. ASSUME NEW w \in Writers, Update(w) PROVE Covered'
  <2>1. writer'[w].pc \in {"save", "open"} /\ mem' = writer'[w].copy
    BY <1>0, <1>4 DEF Update, WritersTyped
  <2> QED
    BY <2>1 DEF Covered, Changing
<1>5. ASSUME NEW w \in Writers, Save(w) PROVE Covered'
  <2>1. CASE Barred(writer[w].copy)
    <3>1. writer[w].copy.off /\ file = Gone /\ UNCHANGED <<mem, file>> /\ ~Resetting
      BY <1>5, <2>1 DEF Save, Barred, Resetting
    <3>2. OnWay \/ Agreed(current) \/ mem = writer[w].copy
      BY <1>5, <3>1 DEF Save, SavesCovered
    <3>3. CASE OnWay \/ Agreed(current)
      BY <1>1, <3>1, <3>3 DEF Covered, Agreed
    <3>4. CASE mem = writer[w].copy
      BY <1>1, <3>1, <3>4, Apart DEF Covered, Agreed
    <3> QED
      BY <3>2, <3>3, <3>4
  <2>2. CASE ~Barred(writer[w].copy)
    <3>1. /\ writer[w].pc = "save" /\ writer' = [writer EXCEPT ![w].pc = "open"]
          /\ UNCHANGED <<mem, file, store, unlinked>>
      BY <1>5, <2>2 DEF Save
    <3>2. /\ \A v \in Writers : v # w => writer'[v] = writer[v]
          /\ writer'[w].pc = "open" /\ writer'[w].copy = writer[w].copy
      BY <1>0, <3>1 DEF WritersTyped
    <3>3. writer["operator"].pc \in {"upload", "read", "record", "disable"}
             => writer'["operator"].pc \in {"upload", "read", "record", "disable"}
      BY <3>1, <3>2 DEF Writers
    <3>4. \A v \in Writers :
             /\ writer[v].pc = "update" => writer'[v].pc = "update"
             /\ Changing(v) /\ mem = writer[v].copy => (Changing(v) /\ mem = writer[v].copy)'
      BY <3>1, <3>2 DEF Changing
    <3> QED
      BY <1>1, <3>1, <3>3, <3>4 DEF Covered, Agreed
  <2> QED
    BY <2>1, <2>2
<1>6. ASSUME NEW w \in Writers, Open(w) PROVE Covered'
  <2>0. writer[w].pc = "open" /\ store = None /\ ~unlinked /\ UNCHANGED mem /\ writer[w].copy \in Content
    BY <1>0, <1>6, NoneApart DEF Open, StoreKnown, WritersTyped
  <2>1. OnWay \/ Agreed(current) \/ Resetting \/ mem = writer[w].copy
    BY <2>0 DEF SavesCovered
  <2>2. CASE writer[w].copy = file
    <3>1. file' = file /\ file # Empty /\ file # Gone
      BY <1>6, <2>0, <2>2, Apart DEF Open
    <3> QED
      BY <1>1, <2>0, <2>1, <2>2, <3>1 DEF Covered, Agreed, Resetting
  <2>3. CASE writer[w].copy # file
    <3>1. events' # << >>
      <4>1. EventsTyped /\ Notify("write")
        BY <1>6, <2>3 DEF SyncTypes, Open
      <4> QED
        BY <4>1, NotifyFacts
    <3>2. ~Resetting
      BY <1>1, <3>1 DEF Race, Resetting
    <3>3. writer'[w].pc = "write" /\ ~unlinked' /\ writer'[w].copy = writer[w].copy
      BY <1>0, <1>6, <2>0, <2>3 DEF Open, WritersTyped
    <3> QED
      BY <1>1, <2>0, <2>1, <3>2, <3>3 DEF Covered, Changing, Agreed
  <2> QED
    BY <2>2, <2>3
<1>7. ASSUME NEW w \in Writers, Write(w) PROVE Covered'
  <2>0. /\ writer[w].pc = "write" /\ store = w /\ w # "result" /\ UNCHANGED mem
        /\ writer[w].copy \in Content
    BY <1>0, <1>7 DEF Write, StoreKnown, WritersTyped, Writers
  <2>1. /\ \A v \in Writers : v # w => writer'[v] = writer[v]
        /\ unlinked' = FALSE
    BY <1>0, <1>7 DEF Write, Close, WritersTyped
  <2>2. /\ writer["operator"].pc \in {"upload", "read", "record", "disable"}
             => writer'["operator"].pc \in {"upload", "read", "record", "disable"}
        /\ \A v \in Writers : writer[v].pc = "update" => writer'[v].pc = "update"
    BY <2>0, <2>1 DEF Writers
  <2>3. \A v \in Writers \ {w} : Changing(v) /\ mem = writer[v].copy => (Changing(v) /\ mem = writer[v].copy)'
    BY <2>0, <2>1 DEF Changing
  <2>4. CASE unlinked
    <3>1. UNCHANGED file /\ ~Changing(w)
      BY <1>7, <2>0, <2>4 DEF Write, Close, Changing
    <3> QED
      BY <1>1, <2>0, <2>2, <2>3, <3>1 DEF Covered, Agreed
  <2>5. CASE ~unlinked
    <3>1. WriteOver(writer[w].copy) /\ events' # << >>
      BY <1>7, <1>w, <2>0, <2>5 DEF Write, Close
    <3>2. CASE file # Empty
      <4>1. Uploading /\ w # "operator"
        BY <2>0, <2>5, <3>2, NoneApart DEF StoreKnown, Uploading
      <4>2. writer'["operator"] = writer["operator"]
        BY <2>1, <4>1 DEF Writers
      <4> QED
        BY <1>u, <2>0, <3>1, <4>1, <4>2
    <3>3. CASE file = Empty
      <4>1. file' = writer[w].copy /\ file' # Empty /\ file' # Gone
        BY <2>0, <3>1, <3>3, Apart DEF WriteOver
      <4>2. CASE file' # current
        BY <1>1, <4>1, <4>2 DEF Covered
      <4>3. CASE file' = current /\ mem = writer[w].copy
        BY <1>1, <2>0, <4>1, <4>3 DEF Covered, Agreed
      <4>4. CASE mem # writer[w].copy
        BY <1>1, <2>0, <2>2, <2>3, <3>3, <4>4 DEF Covered, Agreed
      <4> QED
        BY <4>1, <4>2, <4>3, <4>4
    <3> QED
      BY <3>2, <3>3
  <2> QED
    BY <2>4, <2>5
<1>8. CASE Result
  <2>0. ResultOpen /\ mem \in Content /\ UNCHANGED mem
    BY <1>0, <1>8 DEF Result, ResultOpen, RecordTyped
  <2>1. CASE mem = file
    <3>1. file' = mem /\ file' # Empty /\ file' # Gone
      BY <2>0, <2>1, Apart DEF ResultOpen
    <3> QED
      BY <1>1, <2>0, <3>1 DEF Covered, Agreed
  <2>2. CASE mem # file
    BY <2>0, <2>2 DEF ResultOpen, Covered
  <2> QED
    BY <2>1, <2>2
<1>9. CASE ResultWrite
  <2>0. mem \in Content /\ UNCHANGED <<mem, writer>> /\ store = "result"
    BY <1>0, <1>9 DEF ResultWrite, WritersTyped, RecordTyped, Locked
  <2>1. CASE unlinked
    <3>1. writer["operator"].pc \in {"record", "disable", "update"}
      BY <2>0, <2>1 DEF StoreKnown
    <3> QED
      BY <2>0, <3>1 DEF Covered, Writers
  <2>2. CASE ~unlinked
    <3>1. WriteOver(mem) /\ events' # << >>
      BY <1>9, <1>w, <2>0, <2>2 DEF ResultWrite, Close
    <3>2. CASE file # Empty
      <4>1. Uploading
        BY <2>0, <2>2, <3>2, NoneApart DEF StoreKnown
      <4> QED
        BY <1>u, <2>0, <3>1, <4>1
    <3>3. CASE file = Empty
      <4>1. file' = mem /\ file' # Empty /\ file' # Gone
        BY <2>0, <3>1, <3>3, Apart DEF WriteOver
      <4> QED
        BY <1>1, <2>0, <4>1 DEF Covered, Agreed
    <3> QED
      BY <3>2, <3>3
  <2> QED
    BY <2>1, <2>2
<1> QED
  BY <1>2, <1>3, <1>4, <1>5, <1>6, <1>7, <1>8, <1>9 DEF WriterAction

LEMMA CoveredByWatcher ==
    ASSUME SyncTypes, ~Race, ~Race', ChangeSeen, NewestIsCurrent, Covered, WatcherAction
    PROVE  Covered'
<1>k. ASSUME UNCHANGED <<mem, file, current, saving>>, OnWay => OnWay' PROVE Covered'
  BY <1>k DEF saving, Covered, Agreed, Changing
<1>w. ASSUME OnWay' \/ Agreed(current)' \/ (file # Empty /\ file # current)' PROVE Covered'
  BY <1>w DEF Covered
<1>1. CASE HandleEvent \/ WindowEnds \/ \E p \in Producers : Snapshot(p)
  BY <1>1, <1>k, QuietSteps
<1>2. CASE Reload
  BY <1>2, <1>k, <1>w, ReloadSteps
<1>3. ASSUME NEW p \in Producers, Prepare(p) PROVE Covered'
  BY <1>3, <1>k, <1>w, NothingNew DEF OnWay, onway
<1>4. CASE Forward \/ \E p \in Producers : Dispatch(p)
  BY <1>4, <1>w, MoveSteps
<1>5. CASE Apply \/ Remove
  <2>1. Resetting' => (file # Empty /\ file # current)'
    BY DEF Resetting, Race
  <2> QED
    BY <1>5, <1>w, <2>1, LastApplied
<1> QED
  BY <1>1, <1>2, <1>3, <1>4, <1>5 DEF WatcherAction

-----------------------------------------------------------------------------
(* The invariant, and what it says of rest. *)

SyncInv == SyncTypes /\ (raced \/ Crashed \/ Steady)

LEMMA SyncInit == Init => SyncInv
<1> SUFFICES ASSUME Init PROVE SyncInv
  OBVIOUS
<1>1. SyncTypes
  BY TypesInit
<1>2. file \in Content /\ file # Empty /\ file # Gone /\ mem = file /\ current = file
  <2>1. file \in Content /\ mem = file /\ current = file
    BY DEF Init, Content
  <2> QED
    BY <2>1, Apart
<1>3. /\ events = << >> /\ recent = FALSE /\ pending = None /\ queue = << >> /\ removing = None
      /\ store = None /\ looked = FALSE /\ unlinked = FALSE
      /\ \A w \in Writers : writer[w].pc = "idle"
      /\ \A p \in Producers : producer[p].pc = "idle"
  BY DEF Init
<1>4. ~Race
  BY <1>3 DEF Race, Producers, Writers
<1>5. MemKnown /\ StoreKnown
  BY <1>2, <1>3, NoneApart, Apart DEF MemKnown, StoreKnown, Uploading, Writers
<1>6. ChangeSeen /\ NewestIsCurrent
  BY <1>2, <1>3 DEF ChangeSeen, Last, NewestIsCurrent, Producers
<1>7. Covered /\ SavesCovered
  BY <1>2, <1>3 DEF Covered, SavesCovered, Agreed
<1> QED
  BY <1>1, <1>4, <1>5, <1>6, <1>7 DEF SyncInv, Steady

LEMMA SyncRestart == ASSUME SyncTypes, Restart PROVE Crashed' \/ Steady'
<1>0. RecordTyped
  BY DEF SyncTypes
<1>1. /\ events' = << >> /\ recent' = FALSE /\ pending' = None /\ queue' = << >> /\ removing' = None
      /\ store' = None /\ looked' = FALSE /\ unlinked' = FALSE /\ current' = Gone /\ file' = file
      /\ \A w \in Writers : writer'[w].pc = "idle"
      /\ producer'["events"].pc = "idle" /\ producer'["config"].pc = "snapshot"
      /\ mem' = IF Seen(file) THEN file ELSE None
  BY DEF Restart, Producers
<1>2. CASE file = Empty
  BY <1>1, <1>2 DEF Crashed, Seen
<1>3. CASE file # Empty
  <2>1. ~Race'
    BY <1>1, <1>3 DEF Race, Producers, Writers
  <2>2. MemKnown' /\ StoreKnown'
    <3>1. mem' = None => file = Gone
      BY <1>0, <1>1, <1>3, Apart DEF Seen, RecordTyped
    <3> QED
      BY <1>1, <1>3, <3>1, NoneApart, Apart DEF MemKnown, StoreKnown, Uploading, Writers
  <2>3. ChangeSeen' /\ NewestIsCurrent'
    BY <1>1 DEF ChangeSeen, SnapshotDue, NewestIsCurrent, Producers
  <2>4. Covered' /\ SavesCovered'
    BY <1>1, <1>3 DEF Covered, SavesCovered, Agreed, Seen
  <2> QED
    BY <2>1, <2>2, <2>3, <2>4 DEF Steady
<1> QED
  BY <1>2, <1>3

LEMMA SyncStep == SyncInv /\ [Next]_vars => SyncInv'
<1> SUFFICES ASSUME SyncInv, [Next]_vars PROVE SyncInv'
  OBVIOUS
<1>0. SyncTypes /\ SyncTypes'
  BY TypesStep DEF SyncInv
<1>1. CASE (WriterAction \/ WatcherAction) /\ raced' = (raced \/ Race')
  <2>1. CASE Crashed
    BY <1>0, <1>1, <2>1, CrashedEnds DEF SyncInv
  <2>3. CASE raced \/ Race'
    BY <1>0, <1>1, <2>3 DEF SyncInv
  <2>2. CASE Steady /\ ~Race'
    <3>1. MemKnown' /\ StoreKnown' /\ ChangeSeen' /\ NewestIsCurrent'
      BY <1>0, <1>1, <2>2, MemStep, StoreStep, ChangeStep, NewestStep DEF Steady
    <3>2. SavesCovered' /\ Covered'
      BY <1>0, <1>1, <2>2, SavesStep, CoveredByWriters, CoveredByWatcher DEF Steady
    <3> QED
      BY <1>0, <2>2, <3>1, <3>2 DEF SyncInv, Steady
  <2> QED
    BY <1>0, <1>1, <2>1, <2>2, <2>3 DEF SyncInv
<1>2. CASE Restart /\ raced' = FALSE
  BY <1>0, <1>2, SyncRestart DEF SyncInv
<1>3. CASE UNCHANGED vars
  <2>1. UNCHANGED <<file, mem, events, recent, hash, current, producer, pending, queue, removing,
                    writer, store, looked, unlinked, raced>>
    BY <1>3 DEF vars, watched, onway, saving
  <2>2. Crashed' = Crashed /\ Race' = Race
    BY <2>1 DEF Crashed, Race
  <2>3. MemKnown' = MemKnown /\ StoreKnown' = StoreKnown /\ ChangeSeen' = ChangeSeen
    BY <2>1 DEF MemKnown, StoreKnown, Uploading, Seen, ChangeSeen, Last, SnapshotDue, Awaited
  <2>4. /\ NewestIsCurrent' = NewestIsCurrent /\ Covered' = Covered /\ SavesCovered' = SavesCovered
    BY <2>1 DEF NewestIsCurrent, Covered, SavesCovered, Dispatching, OnWay, Resetting, Changing, Agreed
  <2> QED
    BY <1>0, <2>1, <2>2, <2>3, <2>4 DEF SyncInv, Steady
<1>4. CASE raced' = TRUE
  BY <1>0, <1>4 DEF SyncInv
<1> QED
  BY <1>1, <1>2, <1>3, <1>4, Actions

LEMMA RestAgrees == ASSUME SyncInv, AtRest, ~raced PROVE Agree
<1>1. Steady
  BY DEF SyncInv, Crashed, AtRest, Producers
<1>2. file # Empty
  BY <1>1, NoneApart DEF AtRest, Steady, StoreKnown, Uploading, Writers
<1>3. file = current
  BY <1>1, <1>2 DEF AtRest, Steady, ChangeSeen, Last, SnapshotDue, Producers
<1>4. Agreed(current)
  BY <1>1, <1>2, <1>3, NoneApart
     DEF AtRest, Steady, Covered, OnWay, Dispatching, Changing, Writers
<1> QED
  BY <1>2, <1>3, <1>4 DEF Agree, Agreed, Seen, InUse

\* Once everything has settled, record and file agree, whoever wrote them and in
\* whatever order, unless one of the named races has been met (MarkResult, Update,
\* Save, the watcher's handlers and handleAuthUpdate).
THEOREM SettledAgrees == Spec => []SettledMeansAgreed
<1>1. SyncInv => SettledMeansAgreed
  BY RestAgrees DEF SettledMeansAgreed
<1> QED
  BY <1>1, SyncInit, SyncStep, PTL DEF Spec

-----------------------------------------------------------------------------
(* Deletions. *)

\* A deletion that is over: the file is gone, the record out of use, nothing is being
\* saved, and whatever is under way has a missing file or a disabled record in hand.
Deleted ==
    /\ file = Gone /\ ~InUse /\ store = None /\ ~looked
    /\ \A w \in Writers :
          /\ writer[w].copy = None \/ (w = "operator" /\ writer[w].copy.off)
          /\ writer[w].pc \notin {"upload", "read", "open", "write"}
    /\ \A p \in Producers : producer[p].snap = Gone
    /\ pending \in {Gone, None} /\ \A i \in DOMAIN queue : queue[i] = Gone

DeletedInv == SyncTypes /\ (deleted => Deleted)

LEMMA OverDeleted == ASSUME SyncTypes', Over' PROVE Deleted'
<1>1. \A w \in Writers : writer'[w].pc \in {"idle", "record", "disable"}
  BY Apart DEF SyncTypes, WritersTyped, Over
<1> QED
  BY <1>1 DEF Over, Deleted

\* A writer finds no file, and no record that it may save or refresh.
LEMMA DeletedByWriters ==
    ASSUME SyncTypes, Deleted, WriterAction, ~Revival'
    PROVE  Deleted'
<1>0. RecordTyped /\ WritersTyped
  BY DEF SyncTypes
<1>1. UNCHANGED <<producer, pending, queue>>
  BY WritersLeave DEF watched, onway
<1>k. ASSUME UNCHANGED <<file, mem, store, looked>>,
             \A w \in Writers :
                /\ writer'[w].copy = None \/ (w = "operator" /\ writer'[w].copy.off)
                /\ writer'[w].pc \notin {"upload", "read", "open", "write"}
      PROVE  Deleted'
  BY <1>1, <1>k DEF Deleted, InUse
<1>2. CASE Patch
  <2>1. writer' = [writer EXCEPT !["operator"] = writer'["operator"]] /\ writer'["operator"].pc = "update"
    BY <1>0, <1>2 DEF Patch, WritersTyped, Writers
  <2>2. writer'["operator"].copy = None \/ writer'["operator"].copy.off
    BY DEF Revival
  <2>3. writer'["refresh"] = writer["refresh"]
    BY <1>0, <1>2 DEF Patch, WritersTyped, Writers
  <2> QED
    BY <1>2, <1>k, <2>1, <2>2, <2>3 DEF Patch, Deleted, Writers
<1>3. CASE DeleteRecord
  <2>1. writer' = [writer EXCEPT !["operator"].pc = "disable"] /\ UNCHANGED <<file, mem, store, looked>>
    BY <1>3 DEF DeleteRecord, Deleted
  <2> QED
    BY <1>0, <1>k, <2>1 DEF Deleted, WritersTyped, Writers
<1>4. CASE Disable
  <2>1. mem # None => [mem EXCEPT !.off = TRUE].off
    BY <1>0 DEF RecordTyped, Content
  <2>2. \/ writer'["operator"].copy = None /\ writer'["operator"].pc = "idle"
        \/ writer'["operator"].copy.off /\ writer'["operator"].pc = "update"
    BY <1>0, <1>4, <2>1 DEF Disable, WritersTyped, Writers
  <2>3. writer'["refresh"] = writer["refresh"]
    BY <1>0, <1>4 DEF Disable, WritersTyped, Writers
  <2> QED
    BY <1>4, <1>k, <2>2, <2>3 DEF Disable, Deleted, Writers
<1>5. ~Upload
  <2>1. ASSUME Upload PROVE writer'["operator"].copy # None /\ ~writer'["operator"].copy.off
    <3>1. PICK v \in Fresh :
             writer' = [writer EXCEPT !["operator"] =
                           [pc |-> "upload", copy |-> [ver |-> v, off |-> FALSE]]]
      BY <2>1 DEF Upload
    <3>2. [ver |-> v, off |-> FALSE] \in Content
      BY DEF Fresh, Content
    <3>3. writer'["operator"].copy = [ver |-> v, off |-> FALSE]
      BY <1>0, <3>1 DEF WritersTyped, Writers
    <3>4. writer'["operator"].copy # None
      BY <3>2, <3>3, Apart
    <3>5. writer'["operator"].copy.off = FALSE
      BY <3>3
    <3> QED
      BY <3>4, <3>5
  <2> QED
    BY <2>1 DEF Revival
<1>6. ASSUME NEW w \in Writers, Update(w) PROVE Deleted'
  <2>1. writer[w].copy \in Content /\ writer[w].copy.off
    BY <1>0, <1>6, Apart DEF Update, WritersTyped, Deleted
  <2>2. writer' = [writer EXCEPT ![w].pc = "save"] /\ mem' = writer[w].copy /\ UNCHANGED <<file, store, looked>>
    BY <1>6, <2>1 DEF Update
  <2>3. \A v \in Writers :
           /\ writer'[v].copy = None \/ (v = "operator" /\ writer'[v].copy.off)
           /\ writer'[v].pc \notin {"upload", "read", "open", "write"}
    BY <1>0, <2>2 DEF WritersTyped, Deleted
  <2> QED
    BY <1>1, <2>1, <2>2, <2>3 DEF Deleted, InUse
<1>7. ASSUME NEW w \in Writers, Save(w) PROVE Deleted'
  <2>1. Barred(writer[w].copy)
    BY <1>0, <1>7, Apart DEF Save, WritersTyped, Deleted, Barred
  <2>2. writer' = [writer EXCEPT ![w] = [pc |-> "idle", copy |-> None]] /\ UNCHANGED <<file, mem, store, looked>>
    BY <1>7, <2>1 DEF Save
  <2> QED
    BY <1>0, <1>k, <2>2 DEF WritersTyped, Deleted
<1>8. ~(\/ Refresh \/ Delete \/ UploadWrite \/ UploadRead \/ Result \/ ResultWrite
        \/ \E w \in Writers : Open(w) \/ Write(w))
  BY NoneApart DEF Refresh, Delete, UploadWrite, UploadRead, Result, ResultWrite, Open, Write,
         Barred, InUse, Deleted, Writers
<1> QED
  BY <1>2, <1>3, <1>4, <1>5, <1>6, <1>7, <1>8 DEF WriterAction

\* The watcher sees no file, and the service applies nothing but removals.
LEMMA DeletedByWatcher ==
    ASSUME SyncTypes, Deleted, WatcherAction
    PROVE  Deleted'
<1>0. ProducersTyped /\ OnWayTyped
  BY DEF SyncTypes
<1>1. UNCHANGED <<file, writer, store, looked>>
  BY DEF WatcherAction, HandleEvent, WindowEnds, Reload, Forward, Snapshot, Prepare, Dispatch,
         Apply, Remove, saving
<1>2. \A p \in Producers : producer'[p].snap = Gone
  <2>1. CASE HandleEvent \/ Reload
    BY <1>0, <2>1 DEF HandleEvent, Reload, ProducersTyped, Producers, Deleted
  <2>2. ASSUME NEW p \in Producers, Snapshot(p) PROVE \A q \in Producers : producer'[q].snap = Gone
    BY <1>0, <2>2 DEF Snapshot, Seen, ProducersTyped, Deleted
  <2>3. ASSUME NEW p \in Producers, Prepare(p) \/ Dispatch(p)
        PROVE  \A q \in Producers : producer'[q].snap = Gone
    BY <1>0, <2>3 DEF Prepare, Dispatch, ProducersTyped, Deleted
  <2>4. CASE WindowEnds \/ Forward \/ Apply \/ Remove
    BY <2>4 DEF WindowEnds, Forward, Apply, Remove, watched, Deleted
  <2> QED
    BY <2>1, <2>2, <2>3, <2>4 DEF WatcherAction
<1>3. pending' \in {Gone, None}
  BY DEF WatcherAction, HandleEvent, WindowEnds, Reload, Forward, Snapshot, Prepare, Dispatch,
         Apply, Remove, onway, Deleted
<1>4. \A i \in DOMAIN queue' : queue'[i] = Gone
  <2>1. CASE Forward
    <3>1. pending = Gone /\ queue' = Append(queue, pending)
      BY <2>1 DEF Forward, Deleted
    <3>2. /\ DOMAIN queue' = 1 .. Len(queue) + 1 /\ queue'[Len(queue) + 1] = Gone
          /\ \A i \in 1 .. Len(queue) : queue'[i] = queue[i]
          /\ DOMAIN queue = 1 .. Len(queue) /\ Len(queue) \in Nat
      BY <1>0, <3>1, AppendProperties, LenProperties DEF OnWayTyped
    <3> QED
      BY <3>2 DEF Deleted
  <2>2. CASE Apply
    <3>1. queue' = Tail(queue) /\ queue # << >>
      BY <2>2 DEF Apply
    <3>2. /\ DOMAIN queue' = 1 .. Len(queue) - 1 /\ DOMAIN queue = 1 .. Len(queue) /\ Len(queue) \in Nat
          /\ \A i \in 1 .. Len(queue) - 1 : queue'[i] = queue[i + 1]
      BY <1>0, <3>1, HeadTailProperties, LenProperties DEF OnWayTyped
    <3> QED
      BY <3>2 DEF Deleted
  <2>3. CASE ~Forward /\ ~Apply
    BY <2>3 DEF WatcherAction, HandleEvent, WindowEnds, Reload, Snapshot, Prepare, Dispatch,
           Remove, onway, Deleted
  <2> QED
    BY <2>1, <2>2, <2>3
<1>5. ~InUse'
  <2>1. CASE Apply
    <3>1. queue # << >> /\ Head(queue) = queue[1] /\ 1 \in DOMAIN queue
      BY <1>0, <2>1, HeadTailProperties, LenProperties, EmptySeq DEF Apply, OnWayTyped
    <3>2. UNCHANGED mem
      BY <2>1, <3>1 DEF Apply, Deleted
    <3> QED
      BY <3>2 DEF Deleted, InUse
  <2>2. CASE Remove
    <3>1. [removing EXCEPT !.off = TRUE].off
      BY <1>0, <2>2 DEF Remove, OnWayTyped, Content
    <3> QED
      BY <2>2, <3>1 DEF Remove, InUse
  <2>3. CASE ~Apply /\ ~Remove
    <3>1. UNCHANGED mem
      BY <2>3 DEF WatcherAction, HandleEvent, WindowEnds, Reload, Forward, Snapshot, Prepare, Dispatch
    <3> QED
      BY <3>1 DEF Deleted, InUse
  <2> QED
    BY <2>1, <2>2, <2>3
<1> QED
  BY <1>1, <1>2, <1>3, <1>4, <1>5 DEF Deleted

LEMMA DeletedByRestart == ASSUME SyncTypes, Deleted, Restart PROVE Deleted'
<1>1. file' = Gone /\ mem' = None /\ queue' = << >> /\ pending' = None /\ store' = None /\ looked' = FALSE
  BY DEF Restart, Seen, Deleted
<1>2. \A w \in Writers : writer'[w].copy = None /\ writer'[w].pc = "idle"
  BY DEF Restart
<1>3. \A p \in Producers : producer'[p].snap = Gone
  BY DEF Restart
<1> QED
  BY <1>1, <1>2, <1>3 DEF Deleted, InUse

LEMMA DeletedStep == DeletedInv /\ [Next]_vars => DeletedInv'
<1> SUFFICES ASSUME DeletedInv, [Next]_vars PROVE DeletedInv'
  OBVIOUS
<1>0. SyncTypes /\ SyncTypes' /\ (deleted => Deleted)
  BY TypesStep DEF DeletedInv
<1>1. CASE (WriterAction \/ WatcherAction) /\ deleted' = (~Revival' /\ (deleted \/ Over'))
  <2>1. CASE Over'
    <3>1. Deleted'
      BY <1>0, <2>1, OverDeleted
    <3> QED
      BY <1>0, <3>1 DEF DeletedInv
  <2>2. CASE deleted /\ ~Revival'
    <3>1. Deleted'
      BY <1>0, <1>1, <2>2, DeletedByWriters, DeletedByWatcher
    <3> QED
      BY <1>0, <3>1 DEF DeletedInv
  <2> QED
    BY <1>0, <1>1, <2>1, <2>2 DEF DeletedInv
<1>2. CASE UploadRefused /\ UNCHANGED deleted
  <2>1. ~Deleted
    BY <1>2 DEF UploadRefused, Deleted, Writers
  <2> QED
    BY <1>0, <1>2, <2>1 DEF DeletedInv
<1>3. CASE Restart /\ UNCHANGED deleted
  BY <1>0, <1>3, DeletedByRestart DEF DeletedInv
<1>4. CASE UNCHANGED vars
  <2>1. UNCHANGED <<file, mem, producer, pending, queue, writer, store, looked, deleted>>
    BY <1>4 DEF vars, watched, onway, saving
  <2>2. Deleted' = Deleted
    BY <2>1 DEF Deleted, InUse
  <2> QED
    BY <1>0, <2>1, <2>2 DEF DeletedInv
<1> QED
  BY <1>1, <1>2, <1>3, <1>4, Actions

\* A deletion is final from the moment nobody holds a copy of the record or of the
\* file and no save is under way: whatever results, refreshes, file events, reloads,
\* updates and restarts come then, races or none, the file stays away and the record
\* out of use, until the operator uploads or enables the credential (DeleteAuthFile,
\* Save, MarkResult, refreshAuth, applyCoreAuthRemoval, Manager.Load).
THEOREM DeletionHolds == Spec => []DeletedStaysDeleted
<1>1. Init => DeletedInv
  BY TypesInit DEF Init, DeletedInv
<1>2. DeletedInv => DeletedStaysDeleted
  BY DEF DeletedInv, Deleted, DeletedStaysDeleted
<1> QED
  BY <1>1, <1>2, DeletedStep, PTL DEF Spec
=============================================================================
