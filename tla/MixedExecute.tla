---------------------------- MODULE MixedExecute ----------------------------
(***************************************************************************)
(* Non-streaming execution with routing engine v1: the retry loop of       *)
(* Manager.Execute and the failover loop of executeMixedOnce               *)
(* (sdk/cliproxy/auth/conductor.go), with pickNextMixed, request affinity  *)
(* (affinity.go) and the retry decision, for requests that run at the same *)
(* time, ask for the same model and share its credentials.                 *)
(*                                                                         *)
(* The cooldowns are those CooldownSpec promises (AuthCooldown shows that  *)
(* MarkResult implements it).  They are kept as the time that is left, so  *)
(* that a passing unit of time is one action and no clock is needed.       *)
(***************************************************************************)
EXTENDS Integers, FiniteSets

CONSTANTS
    Requests,
    Auths,
    Sessions,
    SessionOf,   \* the session a request names, NoSession if none
    Retries,     \* effective request-retry of each credential
    Priority,    \* authPriority of each credential
    MaxWait,     \* max-retry-interval
    Codes,       \* failures other than a cancelled or an invalid request
    Toggled,     \* credentials an operator disables and enables
    CoolOf,      \* the cooldown MarkResult gives for each code, 0 for none
    None, NoSession

ASSUME ExecuteAssumption ==
    /\ SessionOf \in [Requests -> Sessions \cup {NoSession}]
    /\ Retries \in [Auths -> Nat] /\ Priority \in [Auths -> Nat]
    /\ MaxWait \in Nat
    /\ CoolOf \in [Codes -> Nat]
    /\ Toggled \subseteq Auths
    /\ NoSession \notin Sessions /\ None \notin Auths
    /\ {"none", "invalid", "cooldown", "unavailable"} \cap Codes = {}

VARIABLES
    enabled,  \* ~auth.Disabled
    left,     \* left[a]: time until the model's cooldown on a ends
    sticky,   \* requestAffinity.items: session -> credential
    stage,
    attempt,  \* loop counter of Execute
    tried,    \* the "tried" set of the current attempt
    seen,     \* candidates cloned by pickNextMixed, with their time left
    cur,      \* credential in use
    wait,     \* time left of waitForCooldown
    result,   \* the error the attempt returns, "none" so far
    calls,    \* history: calls[r][a], executor calls r made with a
    excused   \* history: credentials seen blocked or disabled this attempt

executeVars == <<enabled, left, sticky, stage, attempt, tried, seen, cur, wait,
                 result, calls, excused>>
shared == <<enabled, left, sticky>>

MostRetries == CHOOSE n \in {Retries[a] : a \in Auths} : \A a \in Auths : Retries[a] <= n

\* Bound of the history of calls, above what CallsBounded allows.
MaxCalls == MostRetries + 2

NoSight == [a \in Auths |-> -1]
NoCalls == [a \in Auths |-> 0]

ExecuteInit ==
    /\ enabled = [a \in Auths |-> TRUE]
    /\ left = [a \in Auths |-> 0]
    /\ sticky = [s \in Sessions |-> None]
    /\ stage = [r \in Requests |-> "start"]
    /\ attempt = [r \in Requests |-> 0]
    /\ tried = [r \in Requests |-> {}]
    /\ seen = [r \in Requests |-> NoSight]
    /\ cur = [r \in Requests |-> None]
    /\ wait = [r \in Requests |-> 0]
    /\ result = [r \in Requests |-> "none"]
    /\ calls = [r \in Requests |-> NoCalls]
    /\ excused = [r \in Requests |-> {}]

\* The credentials that were out of reach at some instant of r's attempt.
Excuse ==
    excused' = [r \in Requests |->
        IF attempt'[r] # attempt[r] \/ stage[r] = "start" \/ stage'[r] = "done" THEN {}
        ELSE excused[r] \cup {a \in Auths : left[a] > 0 \/ ~enabled[a]}]

-----------------------------------------------------------------------------
(* One attempt: executeMixedOnce. *)

Begin(r) ==
    /\ stage[r] = "start"
    /\ stage' = [stage EXCEPT ![r] = "pick"]
    /\ UNCHANGED <<shared, attempt, tried, seen, cur, wait, result, calls>>
    /\ Excuse

\* The attempt is over with an error; an earlier credential's error is
\* preferred to that of the pick.
Stop(r, err) ==
    /\ stage' = [stage EXCEPT ![r] = "decide"]
    /\ result' = [result EXCEPT ![r] = IF @ = "none" THEN err ELSE @]

\* pickNextMixed, under the read lock: the candidates are cloned.
Snapshot(r) ==
    LET cands == {a \in Auths : enabled[a] /\ a \notin tried[r]}
    IN  /\ stage[r] = "pick"
        /\ \/ /\ cands = {}
              /\ Stop(r, "unavailable")
              /\ UNCHANGED seen
           \/ /\ cands # {}
              /\ seen' = [seen EXCEPT ![r] = [a \in Auths |-> IF a \in cands THEN left[a] ELSE -1]]
              /\ stage' = [stage EXCEPT ![r] = "choose"]
              /\ UNCHANGED result
        /\ UNCHANGED <<shared, attempt, tried, cur, wait, calls>>
        /\ Excuse

Candidates(r) == {a \in Auths : seen[r][a] >= 0}
Available(r) == {a \in Auths : seen[r][a] = 0}

\* Mutant of Call: a credential is not remembered as tried.
CallUntried(r, a) ==
    /\ cur' = [cur EXCEPT ![r] = a]
    /\ calls' = [calls EXCEPT ![r][a] = IF @ < MaxCalls THEN @ + 1 ELSE @]
    /\ stage' = [stage EXCEPT ![r] = "upstream"]
    /\ UNCHANGED <<tried, result>>

\* The credential is used: it counts as tried, and the executor is called.
Call(r, a) ==
    /\ cur' = [cur EXCEPT ![r] = a]
    /\ tried' = [tried EXCEPT ![r] = @ \cup {a}]
    /\ calls' = [calls EXCEPT ![r][a] = IF @ < MaxCalls THEN @ + 1 ELSE @]
    /\ stage' = [stage EXCEPT ![r] = "upstream"]
    /\ UNCHANGED result

\* Mutant of Select: only the best priority of all candidates is looked at.
SelectTop(r) ==
    LET best == {a \in Candidates(r) : \A b \in Candidates(r) : Priority[a] >= Priority[b]}
    IN  \/ \E a \in best \cap Available(r) : Call(r, a)
        \/ /\ best \cap Available(r) = {}
           /\ Stop(r, "unavailable")
           /\ UNCHANGED <<cur, tried, calls>>

\* selector.Pick: any selector takes one of the unblocked credentials of the
\* best priority that has one.
Select(r) ==
    \/ \E a \in Available(r) :
          /\ \A b \in Available(r) : Priority[a] >= Priority[b]
          /\ Call(r, a)
    \/ /\ Available(r) = {}
       /\ Stop(r, "cooldown")
       /\ UNCHANGED <<cur, tried, calls>>

\* pickCandidateByAffinity, then the selector.  The session's credential is
\* used if it is a candidate, unblocked, and not so loaded that the session
\* moves on (which needs another candidate); else its entry is deleted.
Choose(r) ==
    LET s == SessionOf[r]
        a == IF s = NoSession THEN None ELSE sticky[s]
    IN  /\ stage[r] = "choose"
        /\ seen' = [seen EXCEPT ![r] = NoSight]
        /\ \/ /\ a = None
              /\ Select(r)
              /\ UNCHANGED sticky
           \/ /\ a # None
              /\ a \in Available(r)
              /\ Call(r, a)
              /\ UNCHANGED sticky
           \/ /\ a # None
              /\ a \notin Available(r) \/ Cardinality(Candidates(r)) > 1
              /\ sticky' = [sticky EXCEPT ![s] = None]
              /\ Select(r)
        /\ UNCHANGED <<enabled, left, attempt, wait>>
        /\ Excuse

\* The executor succeeded: MarkResult clears the cooldown.
Succeed(r) ==
    /\ stage[r] = "upstream"
    /\ left' = [left EXCEPT ![cur[r]] = 0]
    /\ stage' = [stage EXCEPT ![r] = "remember"]
    /\ UNCHANGED <<enabled, sticky, attempt, tried, seen, cur, wait, result, calls>>
    /\ Excuse

\* Execute returns: its locals go, and the histories with them.
Return(r) ==
    /\ stage' = [stage EXCEPT ![r] = "done"]
    /\ attempt' = [attempt EXCEPT ![r] = 0]
    /\ tried' = [tried EXCEPT ![r] = {}]
    /\ cur' = [cur EXCEPT ![r] = None]
    /\ wait' = [wait EXCEPT ![r] = 0]
    /\ result' = [result EXCEPT ![r] = "none"]
    /\ calls' = [calls EXCEPT ![r] = NoCalls]
    /\ UNCHANGED seen

\* rememberRequestAffinity, and the response is returned.
Remember(r) ==
    /\ stage[r] = "remember"
    /\ sticky' = IF SessionOf[r] = NoSession THEN sticky
                 ELSE [sticky EXCEPT ![SessionOf[r]] = cur[r]]
    /\ Return(r)
    /\ UNCHANGED <<enabled, left>>
    /\ Excuse

\* The executor failed: MarkResult sets the cooldown of the code.
Fail(r, code) ==
    /\ stage[r] = "upstream"
    /\ left' = [left EXCEPT ![cur[r]] = CoolOf[code]]
    /\ result' = [result EXCEPT ![r] = code]
    /\ stage' = [stage EXCEPT ![r] = "forget"]
    /\ UNCHANGED <<enabled, sticky, attempt, tried, seen, cur, wait, calls>>
    /\ Excuse

\* clearRequestAffinity removes the session's entry if it still names the
\* failed credential; then the next credential is picked.
Forget(r) ==
    /\ stage[r] = "forget"
    /\ sticky' = [s \in Sessions |-> IF s = SessionOf[r] /\ sticky[s] = cur[r]
                                     THEN None ELSE sticky[s]]
    /\ cur' = [cur EXCEPT ![r] = None]
    /\ stage' = [stage EXCEPT ![r] = "pick"]
    /\ UNCHANGED <<enabled, left, attempt, tried, seen, wait, result, calls>>
    /\ Excuse

\* An invalid request: a result without a cooldown of its own is recorded, and
\* no other credential is tried.
Reject(r) ==
    /\ stage[r] = "upstream"
    /\ left' = [left EXCEPT ![cur[r]] = 0]
    /\ result' = [result EXCEPT ![r] = "invalid"]
    /\ cur' = [cur EXCEPT ![r] = None]
    /\ stage' = [stage EXCEPT ![r] = "decide"]
    /\ UNCHANGED <<enabled, sticky, attempt, tried, seen, wait, calls>>
    /\ Excuse

\* The client went away during the call or a wait: nothing is recorded.
Cancel(r) ==
    /\ stage[r] \in {"upstream", "wait"}
    /\ Return(r)
    /\ UNCHANGED shared
    /\ Excuse

-----------------------------------------------------------------------------
(* The retry loop: Execute. *)

\* closestCooldownWait: the blocked credentials that allow another attempt.
Cooling(r) == {a \in Auths : enabled[a] /\ left[a] > 0 /\ attempt[r] < Retries[a]}

\* shouldRetryAfterError and the start of waitForCooldown.
Decide(r) ==
    /\ stage[r] = "decide"
    /\ \/ \E a \in Cooling(r) :
             /\ result[r] # "invalid"
             /\ \A b \in Cooling(r) : left[a] <= left[b]
             /\ MaxWait > 0 /\ left[a] <= MaxWait
             /\ wait' = [wait EXCEPT ![r] = left[a]]
             /\ stage' = [stage EXCEPT ![r] = "wait"]
             /\ UNCHANGED <<attempt, tried, seen, cur, result, calls>>
       \/ /\ \/ result[r] = "invalid"
             \/ MaxWait = 0
             \/ \A a \in Cooling(r) : left[a] > MaxWait
          /\ Return(r)
    /\ UNCHANGED shared
    /\ Excuse

\* The timer fires and the next attempt starts with every credential.
Wake(r) ==
    /\ stage[r] = "wait" /\ wait[r] = 0
    /\ attempt' = [attempt EXCEPT ![r] = @ + 1]
    /\ tried' = [tried EXCEPT ![r] = {}]
    /\ result' = [result EXCEPT ![r] = "none"]
    /\ stage' = [stage EXCEPT ![r] = "pick"]
    /\ UNCHANGED <<shared, seen, cur, wait, calls>>
    /\ Excuse

-----------------------------------------------------------------------------
(* The environment. *)

\* Time passes, unless a timer is due.
PassTime ==
    LET less(n) == IF n > 0 THEN n - 1 ELSE n
    IN  /\ \A r \in Requests : stage[r] = "wait" => wait[r] > 0
        /\ (\E a \in Auths : left[a] > 0) \/ (\E r \in Requests : wait[r] > 0)
        /\ left' = [a \in Auths |-> less(left[a])]
        /\ seen' = [r \in Requests |-> [a \in Auths |-> less(seen[r][a])]]
        /\ wait' = [r \in Requests |-> less(wait[r])]
        /\ UNCHANGED <<enabled, sticky, stage, attempt, tried, cur, result, calls>>
        /\ Excuse

\* A credential is disabled or enabled.
Toggle(a) ==
    /\ enabled' = [enabled EXCEPT ![a] = ~@]
    /\ UNCHANGED <<left, sticky, stage, attempt, tried, seen, cur, wait, result, calls>>
    /\ Excuse

\* An affinity entry reaches its time to live.
Forgotten(s) ==
    /\ sticky[s] # None
    /\ sticky' = [sticky EXCEPT ![s] = None]
    /\ UNCHANGED <<enabled, left, stage, attempt, tried, seen, cur, wait, result, calls>>
    /\ Excuse

Advance(r) ==
    \/ Begin(r) \/ Snapshot(r) \/ Choose(r) \/ Succeed(r) \/ Remember(r)
    \/ (\E code \in Codes : Fail(r, code)) \/ Forget(r) \/ Reject(r) \/ Cancel(r)
    \/ Decide(r) \/ Wake(r)

ExecuteNext ==
    \/ \E r \in Requests : Advance(r)
    \/ PassTime
    \/ \E a \in Toggled : Toggle(a)
    \/ \E s \in Sessions : Forgotten(s)

\* A request under way goes on and time passes; no request has to come.  The
\* requests of an instance make finitely many steps, so that it is enough to
\* ask that one of them goes on.
GoesOn == PassTime \/ \E r \in Requests : stage[r] # "start" /\ Advance(r)
ExecuteFairness == WF_executeVars(GoesOn)

ExecuteSpec == ExecuteInit /\ [][ExecuteNext]_executeVars
ExecuteFairSpec == ExecuteSpec /\ ExecuteFairness

-----------------------------------------------------------------------------

ExecuteTypeOK ==
    /\ enabled \in [Auths -> BOOLEAN]
    /\ left \in [Auths -> Nat]
    /\ sticky \in [Sessions -> Auths \cup {None}]
    /\ stage \in [Requests -> {"start", "pick", "choose", "upstream", "remember",
                               "forget", "decide", "wait", "done"}]
    /\ attempt \in [Requests -> Nat]
    /\ tried \in [Requests -> SUBSET Auths]
    /\ seen \in [Requests -> [Auths -> Nat \cup {-1}]]
    /\ cur \in [Requests -> Auths \cup {None}]
    /\ wait \in [Requests -> 0 .. MaxWait]
    /\ result \in [Requests -> Codes \cup {"none", "invalid", "cooldown", "unavailable"}]
    /\ calls \in [Requests -> [Auths -> Nat]]
    /\ excused \in [Requests -> SUBSET Auths]

\* One request cannot hammer a credential: it calls it at most once per
\* attempt, and makes at most one attempt more than the largest request-retry,
\* whatever the other requests and the clock do meanwhile.
CallsBounded ==
    \A r \in Requests :
        /\ attempt[r] > 0 => \E a \in Auths : attempt[r] <= Retries[a]
        /\ \A a \in Auths : calls[r][a] <= attempt[r] + 1

\* A request that gives up has a reason for every credential: it failed on it
\* in this last attempt, or the credential was cooling down or disabled at some
\* instant of the attempt.  The candidates are chosen from clones that other
\* requests and operators outdate.
GiveUpJustified ==
    \A r \in Requests :
        stage[r] = "decide" /\ result[r] \in Codes \cup {"cooldown", "unavailable"}
            => tried[r] \cup excused[r] = Auths

\* Every request that has begun ends: retries, waits and failover terminate,
\* however often credentials are disabled, enabled and cooled down meanwhile.
RequestsEnd == []<>(\A r \in Requests : stage[r] \in {"start", "done"})

=============================================================================
