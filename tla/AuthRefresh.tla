---------------------------- MODULE AuthRefresh ----------------------------
(***************************************************************************)
(* The record of one OAuth credential in the manager and those who write   *)
(* it (sdk/cliproxy/auth/conductor.go): the refresh loop and the refreshes *)
(* it starts, MarkResult, and management calls that disable or enable the  *)
(* credential (internal/api/handlers/management/auth_files.go).            *)
(*                                                                         *)
(* MarkResult and the loop change the record in place, under the lock; a   *)
(* refresh and a management call take a clone and later replace the whole  *)
(* record by it.  Times are kept as what is left of them.                  *)
(***************************************************************************)
EXTENDS Naturals, FiniteSets

CONSTANTS
    Refreshers,     \* goroutines that may run refreshAuth
    Operators,      \* management calls
    PendingBackoff, \* refreshPendingBackoff
    FailureBackoff, \* refreshFailureBackoff
    CallTime,       \* bound: time between the claim of a refresh and its end; it may
                    \* be longer than refreshPendingBackoff
    Cooldown,       \* the cooldown a failed request leaves
    MaxToken        \* bound: tokens the provider issues

ASSUME RefreshAssumption ==
    /\ IsFiniteSet(Refreshers) /\ Refreshers \cap Operators = {}
    /\ PendingBackoff \in Nat \ {0} /\ FailureBackoff \in Nat \ {0}
    /\ CallTime \in Nat /\ Cooldown \in Nat /\ MaxToken \in Nat \ {0}

VARIABLES
    auth,    \* Manager.auths[id]
    issued,  \* the newest token a refresh has received; the provider accepts
             \* no older one, and may refuse this one too
    loop,    \* "idle", or "mark": the loop saw the credential due in a snapshot
    pc,      \* of refreshers and management calls
    clone,   \* the copy each of them works on
    age,     \* time since a running refresh claimed the credential
    outdated, \* history: a management call has put back an older token or time
    overrun  \* history: since no refresh was running, one has outlived its claim

vars == <<auth, issued, loop, pc, clone, age, outdated, overrun>>

Actors == Refreshers \cup Operators
Record ==
    [token : 1 .. MaxToken, fresh : BOOLEAN, disabled : BOOLEAN,
     next : (0 .. PendingBackoff) \cup (0 .. FailureBackoff), cooling : 0 .. Cooldown]
First == [token |-> 1, fresh |-> TRUE, disabled |-> FALSE, next |-> 0, cooling |-> 0]

Init ==
    /\ auth = First /\ issued = 1 /\ loop = "idle"
    /\ pc = [p \in Actors |-> "idle"]
    /\ clone = [p \in Actors |-> First]
    /\ age = [f \in Refreshers |-> 0]
    /\ outdated = FALSE /\ overrun = FALSE

Goto(p, l) == pc' = [pc EXCEPT ![p] = l]

Running(f) == pc[f] # "idle"

\* A goroutine or call ends, and its locals are gone.
Finish(p) ==
    /\ Goto(p, "idle")
    /\ clone' = [clone EXCEPT ![p] = First]
    /\ age' = [f \in Refreshers |-> IF f = p THEN 0 ELSE age[f]]
    /\ overrun' = (overrun /\ \E f \in Refreshers \ {p} : Running(f))

-----------------------------------------------------------------------------
(* The refresh loop: checkRefreshes. *)

\* Mutant of Due: a credential that cools down is not refreshed.
DueUncooled == ~auth.disabled /\ auth.next = 0 /\ ~auth.fresh /\ auth.cooling = 0

\* shouldRefresh of a snapshot: enabled, its time has come, and it expires.
Due == ~auth.disabled /\ auth.next = 0 /\ ~auth.fresh

Check ==
    /\ loop = "idle" /\ Due
    /\ loop' = "mark"
    /\ UNCHANGED <<auth, issued, pc, clone, age, outdated, overrun>>

\* What markRefreshPending looks at again under the lock.
Unclaimed == ~auth.disabled /\ auth.next = 0

\* Mutant of Claimed: the record is not changed.
ClaimedNot == auth

Claimed == [auth EXCEPT !.next = PendingBackoff]

\* markRefreshPending puts the next refresh off, and refreshAuth is started.
Mark(f) ==
    /\ loop = "mark" /\ pc[f] = "idle"
    /\ loop' = "idle"
    /\ \/ /\ Unclaimed
          /\ auth' = Claimed
          /\ Goto(f, "start")
          /\ age' = [age EXCEPT ![f] = 0]
       \/ /\ ~Unclaimed
          /\ UNCHANGED <<auth, pc, age>>
    /\ UNCHANGED <<issued, clone, outdated, overrun>>

-----------------------------------------------------------------------------
(* refreshAuth *)

\* The record is cloned.  Nobody reads the times of this clone before the
\* refresh sets them, so that they are set here.
Start(f) ==
    /\ pc[f] = "start"
    /\ clone' = [clone EXCEPT ![f] = [auth EXCEPT !.fresh = TRUE, !.next = 0]]
    /\ Goto(f, "network")
    /\ UNCHANGED <<auth, issued, loop, age, outdated, overrun>>

\* The provider accepts the token, and issues the next one in its place.
Granted(f) ==
    /\ pc[f] = "network" /\ clone[f].token = issued /\ issued < MaxToken
    /\ issued' = issued + 1
    /\ clone' = [clone EXCEPT ![f].token = issued + 1]
    /\ Goto(f, "update")
    /\ UNCHANGED <<auth, loop, age, outdated, overrun>>

AfterFailure == [auth EXCEPT !.next = FailureBackoff]

\* The provider refuses the token, cannot be reached, or its answer is lost.
Denied(f) ==
    /\ pc[f] = "network"
    /\ auth' = AfterFailure
    /\ Finish(f)
    /\ UNCHANGED <<issued, loop, outdated>>

\* The context of the loop is cancelled: nothing is recorded.
Canceled(f) ==
    /\ pc[f] = "network"
    /\ Finish(f)
    /\ UNCHANGED <<auth, issued, loop, outdated>>

\* Mutant of Written: only the refreshed clone's time is written back.
WrittenTime(f) == [auth EXCEPT !.next = 0]

Written(f) == clone[f]

\* Update replaces the record by the refreshed clone.
Update(f) ==
    /\ pc[f] = "update"
    /\ auth' = Written(f)
    /\ Finish(f)
    /\ UNCHANGED <<issued, loop, outdated>>

-----------------------------------------------------------------------------
(* The other writers. *)

\* MarkResult, in place: a failure starts a cooldown, a success ends it.
MarkResult(cooling) ==
    /\ auth' = [auth EXCEPT !.cooling = cooling]
    /\ UNCHANGED <<issued, loop, pc, clone, age, outdated, overrun>>

\* PatchAuthFileStatus or disableAuth: GetByID, then Update.
Get(o, off) ==
    /\ pc[o] = "idle"
    /\ clone' = [clone EXCEPT ![o] = [auth EXCEPT !.disabled = off]]
    /\ Goto(o, "put")
    /\ UNCHANGED <<auth, issued, loop, age, outdated, overrun>>

Put(o) ==
    /\ pc[o] = "put"
    /\ auth' = clone[o]
    /\ outdated' = (outdated \/ clone[o].token # auth.token \/ clone[o].next # auth.next)
    /\ Finish(o)
    /\ UNCHANGED <<issued, loop>>

\* Time passes; a running refresh ends within CallTime.  Records hold points in
\* time, so that clones age too.  A claim lasts as long as PendingBackoff: nothing
\* ends the refresh with it, so that the loop may start another beside it.
Older(r) == [r EXCEPT !.next = IF @ > 0 THEN @ - 1 ELSE 0,
                      !.cooling = IF @ > 0 THEN @ - 1 ELSE 0]

Tick ==
    /\ \A f \in Refreshers : Running(f) => age[f] < CallTime
    /\ auth' = Older(auth)
    /\ clone' = [p \in Actors |-> Older(clone[p])]
    /\ age' = [f \in Refreshers |-> IF Running(f) THEN age[f] + 1 ELSE 0]
    /\ overrun' = (overrun \/ \E f \in Refreshers : Running(f) /\ age[f] + 1 >= PendingBackoff)
    /\ UNCHANGED <<issued, loop, pc, outdated>>

\* The token comes close to its expiry.
Expire ==
    /\ auth.fresh
    /\ auth' = [auth EXCEPT !.fresh = FALSE]
    /\ UNCHANGED <<issued, loop, pc, clone, age, outdated, overrun>>

Refresh(f) == Start(f) \/ Granted(f) \/ Denied(f) \/ Canceled(f) \/ Update(f)

Next ==
    \/ Check \/ Tick \/ Expire
    \/ \E f \in Refreshers : Mark(f) \/ Refresh(f)
    \/ \E cooling \in {0, Cooldown} : MarkResult(cooling)
    \/ \E o \in Operators : (\E off \in BOOLEAN : Get(o, off)) \/ Put(o)

\* The loop and its refreshes go on, a management call writes what it has
\* read, and time passes.  That one refresh goes on is enough: time waits for
\* every one of them.
Working == Check \/ \E f \in Refreshers : Mark(f) \/ Refresh(f)
Writing == \E o \in Operators : Put(o)
Fairness == WF_vars(Working) /\ WF_vars(Writing) /\ WF_vars(Tick)

Spec == Init /\ [][Next]_vars
FairSpec == Spec /\ Fairness

-----------------------------------------------------------------------------

TypeOK ==
    /\ auth \in Record /\ clone \in [Actors -> Record]
    /\ issued \in 1 .. MaxToken
    /\ loop \in {"idle", "mark"}
    /\ pc \in [Actors -> {"idle", "start", "network", "update", "put"}]
    /\ age \in [Refreshers -> 0 .. CallTime]
    /\ outdated \in BOOLEAN /\ overrun \in BOOLEAN

\* markRefreshPending keeps the refreshes of a credential apart: at most one
\* runs, as long as none has outlived its claim since the last time none ran, and
\* no management call has put back a record older than the claim.
OneRefreshAtATime ==
    ~outdated /\ ~overrun => Cardinality({f \in Refreshers : Running(f)}) <= 1

\* The newest token is in the record or with the refresh that is about to
\* write it: neither the loop nor a refresh, however long it takes and whoever
\* runs beside it, nor MarkResult puts an older one, which the provider has
\* retired, back.
TokenNotLost ==
    \/ outdated
    \/ auth.token = issued
    \/ \E f \in Refreshers : pc[f] = "update" /\ clone[f].token = issued

-----------------------------------------------------------------------------
(* What the two rest on, as long as no management call has put back an older *)
(* record.                                                                   *)

\* Refreshes run one after the other as long as their claims last: the claim of a
\* refresh is PendingBackoff long, and nobody but itself shortens it.
Exclusive ==
    /\ \A f, g \in Refreshers : Running(f) /\ Running(g) => f = g
    /\ \A f \in Refreshers : Running(f) =>
           age[f] < PendingBackoff /\ auth.next + age[f] >= PendingBackoff

\* No token is newer than the newest; the provider accepts that one alone, so that
\* of several refreshes one is granted and nobody else holds its token until it
\* has written; before and after that the record has the token.
TokensHeld ==
    LET holding == {f \in Refreshers : pc[f] \in {"network", "update"}}
        granted == {f \in Refreshers : pc[f] = "update"}
    IN  /\ auth.token <= issued /\ \A f \in holding : clone[f].token <= issued
        /\ \A f \in granted :
               /\ auth.token # issued /\ clone[f].token = issued
               /\ \A g \in holding \ {f} : clone[g].token # issued
        /\ granted = {} => auth.token = issued

\* Refreshers refresh, and management calls put.
PlacesTyped ==
    /\ \A f \in Refreshers : pc[f] # "put"
    /\ \A o \in Operators : pc[o] \in {"idle", "put"}

IInv == TypeOK /\ PlacesTyped /\ (outdated \/ ((overrun \/ Exclusive) /\ TokensHeld))

-----------------------------------------------------------------------------

\* An expiring credential is not forgotten: it is refreshed, disabled, or a
\* refresh of it is tried, again and again.
ExpiringIsTried ==
    []<>(auth.fresh \/ auth.disabled \/ \E f \in Refreshers : pc[f] = "network")

\* "Disabled indicates the auth is intentionally disabled by operator": only a
\* management call enables a disabled credential again.
DisabledByOperator ==
    [][auth.disabled /\ ~auth'.disabled => \E o \in Operators : pc[o] = "put" /\ pc'[o] = "idle"]_vars

=============================================================================
