---------------------------- MODULE AuthCooldown ----------------------------
(***************************************************************************)
(* The availability record of one credential: Manager.MarkResult under the *)
(* manager's lock (sdk/cliproxy/auth/conductor.go), and the reading side,  *)
(* isAuthBlockedForModel (selector.go).                                    *)
(*                                                                         *)
(* Requests of many goroutines use the credential at the same time, so the *)
(* results of requests that started before a cooldown keep arriving while  *)
(* it lasts: a result may come at any time and in any order.               *)
(*                                                                         *)
(* Time is a counter that starts at 1; 0 is Go's zero time.Time.  Error    *)
(* texts are reduced to what MarkResult derives from them.                 *)
(***************************************************************************)
EXTENDS Integers

CONSTANTS
    Graded,          \* models with results for this credential
    Base,            \* canonicalModelKey: the model without its thinking suffix
    CoolingDisabled, \* quotaCooldownDisabledForAuth
    Unauthorized,    \* 30 min after 401
    Payment,         \* 30 min after 402 or 403
    NotFound,        \* 12 h after 404 or "model not supported"
    Transient,       \* 1 min after 408, 500, 502, 503, 504
    Transport,       \* 15 s instead, with cooling disabled
    BackoffBase,     \* quotaBackoffBase
    BackoffMax,      \* quotaBackoffMax
    Day,             \* distance between two daily quota resets
    RetryAfters,     \* delays an upstream Retry-After header may ask for
    MaxLevel,        \* the level whose backoff reaches BackoffMax
    MaxTime          \* bound: the clock stops here

\* 1 << n.
Pow2[n \in 0 .. MaxLevel] == IF n = 0 THEN 1 ELSE 2 * Pow2[n - 1]

ASSUME CooldownAssumption ==
    /\ Base \in [Graded -> Graded]
    /\ CoolingDisabled \in BOOLEAN
    /\ {Unauthorized, Payment, NotFound, Transient, Transport, Day,
        BackoffBase, BackoffMax} \subseteq Nat \ {0}
    /\ RetryAfters \subseteq Nat
    /\ RetryAfters = {} \/ \E d \in RetryAfters : \A e \in RetryAfters : e <= d
    /\ MaxLevel \in Nat /\ MaxTime \in Nat
    /\ Pow2 \in [0 .. MaxLevel -> Nat \ {0}]
    /\ BackoffBase * Pow2[MaxLevel] >= BackoffMax

NoRetryAfter == -1
NoModel == "no model"

\* Classes of failures that MarkResult tells apart.  "transport" is a failure
\* of the transient class whose message is that of a broken connection;
\* "other" is everything without a case of its own, as 400 and 422.
Failures == {"unauthorized", "payment", "daily_quota", "not_found", "quota",
             "transient", "transport", "other"}

VARIABLES
    now,     \* time.Now()
    states,  \* auth.ModelStates
    auth,    \* the credential's own fields
    scope    \* history: NoModel if the last result had no model

cooldownVars == <<now, states, auth, scope>>

NoQuota == [exceeded |-> FALSE, recover |-> 0, level |-> 0]

\* ModelState: present is FALSE for a model without an entry in the map.
Fresh == [present |-> FALSE, unavailable |-> FALSE, status |-> "active",
          retry |-> 0, err |-> FALSE, quota |-> NoQuota]
Active == [Fresh EXCEPT !.present = TRUE]

FreshAuth == [unavailable |-> FALSE, status |-> "active", retry |-> 0,
              err |-> FALSE, quota |-> NoQuota]

CooldownInit ==
    /\ now = 1
    /\ states = [m \in Graded |-> Fresh]
    /\ auth = FreshAuth
    /\ scope = "model"

-----------------------------------------------------------------------------
(* The cooldown that a failure asks for. *)

\* nextQuotaCooldown.
Backoff(level) ==
    IF CoolingDisabled THEN [delay |-> 0, level |-> level]
    ELSE LET d == BackoffBase * Pow2[level] IN
         IF d >= BackoffMax THEN [delay |-> BackoffMax, level |-> level]
         ELSE [delay |-> d, level |-> level + 1]

\* Mutant of NextMidnight: a day late.
MidnightAfterNext == (now \div Day + 2) * Day

\* nextDailyQuotaResumeAtChinaMidnightUTC.
NextMidnight == (now \div Day + 1) * Day

\* A delay counted from now, where none is the zero time.
After(d) == IF d > 0 THEN now + d ELSE 0

\* The quota fields after a 429: backoff, unless the upstream named a delay.
QuotaAfter(level, ra) ==
    IF ra # NoRetryAfter
    THEN [exceeded |-> TRUE, recover |-> now + ra, level |-> level]
    ELSE LET b == Backoff(level)
         IN  [exceeded |-> TRUE, recover |-> After(b.delay), level |-> b.level]

\* NextRetryAfter of a failure that is not about quota.
RetryTime(k) ==
    CASE k = "unauthorized" -> now + Unauthorized
      [] k = "payment"      -> now + Payment
      [] k = "not_found"    -> now + NotFound
      [] k = "transient"    -> IF CoolingDisabled THEN 0 ELSE now + Transient
      [] k = "transport"    -> now + (IF CoolingDisabled THEN Transport ELSE Transient)
      [] k = "other"        -> 0

-----------------------------------------------------------------------------
(* updateAggregatedAvailability *)

Known(st) == {m \in Graded : st[m].present}

\* Mutant of Expire: the quota fields go with the block.
ExpireQuota(s) ==
    IF s.unavailable /\ s.retry # 0 /\ s.retry <= now
    THEN [s EXCEPT !.unavailable = FALSE, !.retry = 0, !.quota = NoQuota]
    ELSE s

\* A block that has run out is cleared; its quota fields and error stay.
Expire(s) ==
    IF s.unavailable /\ s.retry # 0 /\ s.retry <= now
    THEN [s EXCEPT !.unavailable = FALSE, !.retry = 0]
    ELSE s

Waiting(s) == s.unavailable /\ s.retry > now

Earliest(T) == IF T = {} THEN 0 ELSE CHOOSE t \in T : \A u \in T : t <= u
Highest(T) == CHOOSE t \in T : \A u \in T : t >= u

\* Mutant of AggregateAuth: one blocked model is enough.
AggregateAny(a, st) ==
    LET blocked == {m \in Known(st) : Waiting(st[m])}
    IN  [a EXCEPT !.unavailable = blocked # {},
                  !.retry = Earliest({st[m].retry : m \in blocked})]

\* The credential is unavailable when all of its known models are, until the
\* first of them recovers; quota fields combine those of all known models.
AggregateAuth(a, st) ==
    LET blocked == {m \in Known(st) : Waiting(st[m])}
        over    == {m \in Known(st) : st[m].quota.exceeded}
        all     == blocked = Known(st)
    IN  [a EXCEPT !.unavailable = all,
                  !.retry = IF all THEN Earliest({st[m].retry : m \in blocked}) ELSE 0,
                  !.quota = IF over = {} THEN NoQuota
                            ELSE [exceeded |-> TRUE,
                                  recover |-> Earliest({st[m].quota.recover : m \in over} \ {0}),
                                  level |-> Highest({st[m].quota.level : m \in over})]]

\* Stores new model states and the credential fields that follow from them.
Aggregate(st, a) ==
    LET expired == [m \in Graded |-> IF st[m].present THEN Expire(st[m]) ELSE st[m]]
    IN  /\ states' = expired
        /\ auth' = AggregateAuth(a, expired)

-----------------------------------------------------------------------------
(* MarkResult *)

\* Mutant of HasModelError: only blocked models count.
HasBlockedModel(st) == \E m \in Known(st) : Waiting(st[m])

\* hasModelError, on the states as Aggregate leaves them.
HasModelError(st) ==
    \E m \in Known(st) : \/ st[m].err
                         \/ st[m].status = "error" /\ st[m].unavailable
                               /\ (st[m].retry = 0 \/ st[m].retry > now)

\* A success of model m.
MarkSuccess(m) ==
    LET st == [states EXCEPT ![m] = Active]
    IN  /\ Aggregate(st, IF HasModelError([x \in Graded |-> Expire(st[x])])
                         THEN auth
                         ELSE [auth EXCEPT !.err = FALSE, !.status = "active"])
        /\ scope' = "model"
        /\ UNCHANGED now

\* The state of a model after a failure: a quota failure replaces the quota
\* fields, any other keeps them.
FailedState(s, k, ra) ==
    LET q == IF k = "quota" THEN QuotaAfter(s.quota.level, ra)
             ELSE IF k = "daily_quota" THEN [exceeded |-> TRUE, recover |-> NextMidnight, level |-> 0]
             ELSE s.quota
    IN  [present |-> TRUE, unavailable |-> TRUE, status |-> "error", err |-> TRUE,
         retry |-> IF k \in {"quota", "daily_quota"} THEN q.recover ELSE RetryTime(k),
         quota |-> q]

MarkFailure(m, k, ra) ==
    /\ Aggregate([states EXCEPT ![m] = FailedState(@, k, ra)],
                 [auth EXCEPT !.err = TRUE, !.status = "error"])
    /\ scope' = "model"
    /\ UNCHANGED now

\* clearAuthStateOnSuccess: a success without a model name.
MarkAuthSuccess ==
    /\ auth' = FreshAuth
    /\ scope' = NoModel
    /\ UNCHANGED <<now, states>>

\* applyAuthFailureState: a failure without a model name.  "other" leaves
\* NextRetryAfter as it was.
MarkAuthFailure(k, ra) ==
    LET q == IF k = "quota" THEN QuotaAfter(auth.quota.level, ra)
             ELSE IF k = "daily_quota"
                  THEN [auth.quota EXCEPT !.exceeded = TRUE, !.recover = NextMidnight]
             ELSE auth.quota
    IN  /\ auth' = [unavailable |-> TRUE, status |-> "error", err |-> TRUE, quota |-> q,
                    retry |-> IF k \in {"quota", "daily_quota"} THEN q.recover
                              ELSE IF k = "other" THEN auth.retry ELSE RetryTime(k)]
        /\ scope' = NoModel
        /\ UNCHANGED <<now, states>>

\* Manager.Update with a record built from a changed credential file
\* (service.applyCoreAuthAddOrUpdate): it has no model states.
Replace ==
    /\ states' = [m \in Graded |-> Fresh]
    /\ auth' = FreshAuth
    /\ scope' = "model"
    /\ UNCHANGED now

Tick ==
    /\ now < MaxTime
    /\ now' = now + 1
    /\ UNCHANGED <<states, auth, scope>>

\* Only a 429 carries a delay that MarkResult looks at.
RetryAfterOf(k) == IF k = "quota" THEN RetryAfters \cup {NoRetryAfter} ELSE {NoRetryAfter}

CooldownNext ==
    \/ \E m \in Graded : MarkSuccess(m)
    \/ \E m \in Graded, k \in Failures : \E ra \in RetryAfterOf(k) : MarkFailure(m, k, ra)
    \/ MarkAuthSuccess
    \/ \E k \in Failures : \E ra \in RetryAfterOf(k) : MarkAuthFailure(k, ra)
    \/ Replace
    \/ Tick

ResultsSpec == CooldownInit /\ [][CooldownNext]_cooldownVars

-----------------------------------------------------------------------------
(* isAuthBlockedForModel *)

\* A model without an entry of its own is judged by its base model's.
Judged(m) == IF states[m].present THEN states[m] ELSE states[Base[m]]

\* Is model m of the credential skipped by the selectors?
Blocked(m) == Waiting(Judged(m))

-----------------------------------------------------------------------------
(* Properties *)

Times == Nat
QuotaType == [exceeded : BOOLEAN, recover : Times, level : 0 .. MaxLevel]

\* Types; the bound on the level keeps 1 << level from overflowing.
CooldownTypeOK ==
    /\ now \in Nat \ {0}
    /\ states \in [Graded -> [present : BOOLEAN, unavailable : BOOLEAN,
                             status : {"active", "error"}, retry : Times,
                             err : BOOLEAN, quota : QuotaType]]
    /\ auth \in [unavailable : BOOLEAN, status : {"active", "error"}, retry : Times,
                 err : BOOLEAN, quota : QuotaType]
    /\ scope \in {"model", NoModel}

\* The credential's own Unavailable and NextRetryAfter, which are computed when
\* a result arrives and then read for as long as no other arrives, agree at
\* every later instant with the states of its models.
AggregateHonest ==
    scope = "model" /\ Known(states) # {} =>
        (auth.unavailable /\ auth.retry > now
            <=> \A m \in Known(states) : Waiting(states[m]))

\* The success of one model turns the credential "active" again only when no
\* other model has failed since its own last success, whatever order the
\* results of different models arrive in.
ActiveMeansClean ==
    [][auth.status = "error" /\ auth'.status = "active" /\ scope' = "model"
         => \A m \in Graded : ~states'[m].err]_cooldownVars

\* The backoff of repeated quota errors is only ever given up on a success, on
\* a daily quota (which has a reset time of its own) or with the whole record:
\* no other failure, and no expiry, restarts it from the base.
BackoffKept ==
    [][\A m \in Graded :
          states'[m].quota.level < states[m].quota.level =>
              \/ states'[m].quota = NoQuota /\ ~states'[m].err
              \/ states'[m].quota.recover = NextMidnight]_cooldownVars

\* The longest block a failure can cause.
MaxBlock == Highest({Unauthorized, Payment, NotFound, Transient, Transport, Day, BackoffMax}
                    \cup RetryAfters)

\* As the selectors see them, the models behave like the abstract cooldown:
\* MarkResult's expiry, quota and aggregation bookkeeping never blocks a model
\* that neither failed nor follows one that did, never prolongs a block and
\* never lets one outlive the longest cooldown.
Abstract == INSTANCE CooldownSpec
    WITH until <- [m \in Graded |-> IF Blocked(m) THEN Judged(m).retry ELSE 0]
AbstractSpec == Abstract!Spec

=============================================================================
