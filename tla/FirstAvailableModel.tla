------------------------ MODULE FirstAvailableModel ------------------------
(***************************************************************************)
(* The lock of the model registry under a request for the model "auto"     *)
(* (internal/registry/model_registry.go).  GetFirstAvailableModel holds    *)
(* the read lock while it calls GetAvailableModels and, for each model     *)
(* listed, GetModelCount, and both take the read lock again.  Go's RWMutex *)
(* keeps new readers out as soon as a writer waits.                        *)
(***************************************************************************)
EXTENDS Naturals, FiniteSets

CONSTANTS
    Resolvable, \* models that "auto" may stand for
    Callers,    \* goroutines in GetFirstAvailableModel
    Writers,    \* goroutines in RegisterClient, SuspendClientModel, ...
    Writes,     \* bound: write operations per writer
    Nil

ASSUME LockAssumption ==
    /\ Callers \cap Writers = {} /\ IsFiniteSet(Callers) /\ IsFiniteSet(Writers)
    /\ Writes \in Nat
    /\ Nil \notin Resolvable \cup Writers

VARIABLES
    state,    \* "up": GetModelCount > 0; "cooling": listed with a count of 0
    held,     \* held[c]: read locks caller c holds
    waiting,  \* writers inside Lock
    owner,    \* the writer that holds the lock
    step,     \* where each goroutine is
    list,     \* what is left of the caller's list of models
    answer,   \* what GetFirstAvailableModel returns
    written   \* completed operations of each writer

lockVars == <<state, held, waiting, owner, step, list, answer, written>>

LockInit ==
    /\ state \in [Resolvable -> {"up", "cooling", "gone"}]
    /\ held = [c \in Callers |-> 0]
    /\ waiting = {} /\ owner = Nil
    /\ step = [p \in Callers \cup Writers |-> "idle"]
    /\ list = [c \in Callers |-> {}]
    /\ answer = [c \in Callers |-> Nil]
    /\ written = [w \in Writers |-> 0]

-----------------------------------------------------------------------------
(* sync.RWMutex *)

\* RLock gets through unless a writer holds the lock or waits for it.
RLock(c) ==
    /\ owner = Nil /\ waiting = {}
    /\ held' = [held EXCEPT ![c] = @ + 1]

RUnlock(c) == held' = [held EXCEPT ![c] = @ - 1]

-----------------------------------------------------------------------------

\* Mutant of EnterFirst: the outer lock is not taken.
EnterFirstUnlocked(c) ==
    /\ step[c] = "idle"
    /\ step' = [step EXCEPT ![c] = "list"]
    /\ UNCHANGED <<state, held, waiting, owner, list, answer, written>>

\* GetFirstAvailableModel takes the read lock.
EnterFirst(c) ==
    /\ step[c] = "idle"
    /\ RLock(c)
    /\ step' = [step EXCEPT ![c] = "list"]
    /\ UNCHANGED <<state, waiting, owner, list, answer, written>>

\* GetAvailableModels takes it again, and lists the models that have a client
\* or whose clients only cool down.
ListModels(c) ==
    /\ step[c] = "list"
    /\ RLock(c)
    /\ list' = [list EXCEPT ![c] = {m \in Resolvable : state[m] # "gone"}]
    /\ step' = [step EXCEPT ![c] = "listed"]
    /\ UNCHANGED <<state, waiting, owner, answer, written>>

ListDone(c) ==
    /\ step[c] = "listed"
    /\ RUnlock(c)
    /\ step' = [step EXCEPT ![c] = "scan"]
    /\ UNCHANGED <<state, waiting, owner, list, answer, written>>

\* GetModelCount of the next model takes the read lock once more.
Count(c) ==
    /\ step[c] = "scan"
    /\ RLock(c)
    /\ \E m \in list[c] :
          /\ list' = [list EXCEPT ![c] = @ \ {m}]
          /\ answer' = [answer EXCEPT ![c] = IF state[m] = "up" THEN m ELSE Nil]
    /\ step' = [step EXCEPT ![c] = "counted"]
    /\ UNCHANGED <<state, waiting, owner, written>>

Counted(c) ==
    /\ step[c] = "counted"
    /\ RUnlock(c)
    /\ step' = [step EXCEPT ![c] = IF answer[c] = Nil THEN "scan" ELSE "found"]
    /\ UNCHANGED <<state, waiting, owner, list, answer, written>>

\* GetFirstAvailableModel returns a model, or an error when none is left.
Return(c) ==
    /\ step[c] = "found" \/ (step[c] = "scan" /\ list[c] = {})
    /\ RUnlock(c)
    /\ step' = [step EXCEPT ![c] = "done"]
    /\ UNCHANGED <<state, waiting, owner, list, answer, written>>

-----------------------------------------------------------------------------
(* Writers *)

\* Lock announces the writer: readers that come later wait.
Announce(w) ==
    /\ step[w] = "idle" /\ written[w] < Writes
    /\ waiting' = waiting \cup {w}
    /\ step' = [step EXCEPT ![w] = "locking"]
    /\ UNCHANGED <<state, held, owner, list, answer, written>>

Acquire(w) ==
    /\ step[w] = "locking" /\ owner = Nil
    /\ \A c \in Callers : held[c] = 0
    /\ owner' = w
    /\ waiting' = waiting \ {w}
    /\ step' = [step EXCEPT ![w] = "writing"]
    /\ UNCHANGED <<state, held, list, answer, written>>

\* The operation changes one model's availability; then Unlock.
Write(w) ==
    /\ step[w] = "writing"
    /\ \E m \in Resolvable, s \in {"up", "cooling", "gone"} : state' = [state EXCEPT ![m] = s]
    /\ owner' = Nil
    /\ written' = [written EXCEPT ![w] = @ + 1]
    /\ step' = [step EXCEPT ![w] = "idle"]
    /\ UNCHANGED <<held, waiting, list, answer>>

CallerStep(c) ==
    EnterFirst(c) \/ ListModels(c) \/ ListDone(c) \/ Count(c) \/ Counted(c) \/ Return(c)

WriterStep(w) == Announce(w) \/ Acquire(w) \/ Write(w)

LockNext ==
    \/ \E c \in Callers : CallerStep(c)
    \/ \E w \in Writers : WriterStep(w)

\* RLock is granted to a reader that stays possible; the goroutines run on.
LockFairness ==
    /\ \A c \in Callers : SF_lockVars(CallerStep(c))
    /\ \A w \in Writers : SF_lockVars(WriterStep(w))

LockSpec == LockInit /\ [][LockNext]_lockVars
LockFairSpec == LockSpec /\ LockFairness

-----------------------------------------------------------------------------

LockTypeOK ==
    /\ state \in [Resolvable -> {"up", "cooling", "gone"}]
    /\ held \in [Callers -> 0 .. 2]
    /\ waiting \subseteq Writers /\ owner \in Writers \cup {Nil}
    /\ \A c \in Callers : step[c] \in {"idle", "list", "listed", "scan", "counted", "found", "done"}
    /\ \A w \in Writers : step[w] \in {"idle", "locking", "writing"}
    /\ list \in [Callers -> SUBSET Resolvable]
    /\ answer \in [Callers -> Resolvable \cup {Nil}]
    /\ written \in [Writers -> 0 .. Writes]

\* The model "auto" resolves to still has an available client when
\* GetFirstAvailableModel is about to return it, although it was found by
\* calls that released their own lock: what the outer lock is for.
AnswerStillAvailable == \A c \in Callers : step[c] = "found" => state[answer[c]] = "up"

\* "GetFirstAvailableModel returns the first available model": it returns,
\* while other goroutines update the registry.
FirstModelReturns == \A c \in Callers : step[c] = "list" ~> step[c] = "done"

=============================================================================
