--------------------------- MODULE LayeredRouting ---------------------------
(***************************************************************************)
(* One attempt of routing engine v2 (sdk/cliproxy/auth/routing.go):        *)
(* executeLayeredOnce walks through the fallback models, per model through *)
(* the providers, per provider through the credentials, and what a failure *)
(* blocks depends on its class.  The attempt context is the request's own; *)
(* the cooldowns and the provider offset are shared with other requests.   *)
(***************************************************************************)
EXTENDS Integers, Sequences, FiniteSets

CONSTANTS
    Auths,
    Providers,
    ProviderOf,      \* the provider of a credential
    ModelCandidates, \* RoutingPlan: the requested model and its fallbacks
    Upstream,        \* upstream models
    Supports,        \* Supports[n]: credentials that support model name n
    Resolve,         \* Resolve[a][n]: n's upstream model on a; None if refused
    SwitchProject,   \* quota-exceeded.switch-project
    SwitchPreview,   \* quota-exceeded.switch-preview-model
    Codes,           \* classes of failure that occur
    CoolingCodes,    \* those after which MarkResult blocks credential and model
    Contended,       \* <<credential, name>> pairs whose cooldowns others change
    None

Names == {ModelCandidates[i] : i \in DOMAIN ModelCandidates}
Models == Names \cup Upstream

Classes == {"protocol", "bad_request", "unauthorized", "forbidden", "daily_quota",
            "not_found", "quota", "transient", "other"}

ASSUME RoutingAssumption ==
    /\ ProviderOf \in [Auths -> Providers] /\ IsFiniteSet(Providers)
    /\ Len(ModelCandidates) \in Nat \ {0} /\ DOMAIN ModelCandidates = 1 .. Len(ModelCandidates)
    /\ Supports \in [Names -> SUBSET Auths]
    /\ Resolve \in [Auths -> [Names -> Upstream \cup {None}]]
    /\ SwitchProject \in BOOLEAN /\ SwitchPreview \in BOOLEAN
    /\ Codes \subseteq Classes /\ CoolingCodes \subseteq Codes
    /\ Contended \subseteq Auths \X Names
    /\ None \notin Providers \cup Upstream

VARIABLES
    cooling,    \* <<credential, model>> pairs isAuthBlockedForModel blocks
    offset,     \* Manager.providerOffsets of the requested model
    pc,
    depth,      \* CurrentFallbackDepth, from 1
    provider,   \* CurrentProvider
    chosen,     \* PrimaryRouteChosen
    tried,      \* TriedRouteKeys, as <<credential, model>>
    blockedA,   \* BlockedAuths
    blockedPM,  \* BlockedProviderModels
    reason,     \* LastFailureReason
    route,      \* the CandidateRoute in use
    failures,   \* history: routes that failed, with the class
    throttled   \* history: pairs seen cooling since the attempt began

plan == <<offset, chosen>>
attempt == <<depth, provider, tried, blockedA, blockedPM, reason>>
vars == <<cooling, plan, attempt, pc, route, failures, throttled>>

NoRoute == [auth |-> None, model |-> None, name |-> None]
Name == ModelCandidates[depth]

Init ==
    /\ cooling \in SUBSET Contended
    /\ offset \in 0 .. Cardinality(Providers) - 1
    /\ pc = "provider" /\ depth = 1 /\ provider = None /\ chosen = FALSE
    /\ tried = {} /\ blockedA = {} /\ blockedPM = {} /\ reason = "none"
    /\ route = NoRoute
    /\ failures = {} /\ throttled = cooling

Watch == throttled' = throttled \cup cooling'

-----------------------------------------------------------------------------
(* pickNextRouteFromPlan *)

Usable == {p \in Providers : <<p, Name>> \notin blockedPM}

\* advancePrimaryProviderOffset
Advance(o) == (o + 1) % Cardinality(Providers)

\* pickNextProvider: the current provider stays while it is not blocked for
\* the model; else the next one in the order of offset and runtime score,
\* which is any; the first choice moves the shared offset on.
NextProvider ==
    /\ pc = "provider" /\ Usable # {}
    /\ \/ /\ provider \in Usable
          /\ UNCHANGED <<provider, plan>>
       \/ /\ provider \notin Usable
          /\ provider' \in Usable
          /\ chosen' = TRUE
          /\ offset' = IF chosen THEN offset ELSE Advance(offset)
    /\ pc' = "auth"
    /\ UNCHANGED <<cooling, depth, tried, blockedA, blockedPM, reason, route, failures>>
    /\ Watch

\* canAdvanceFallbackModel
CanFallBack ==
    /\ SwitchPreview /\ depth < Len(ModelCandidates)
    /\ reason \in {"none", "quota", "not_found", "transient"}

\* No provider is left for the model: the next fallback model, or the end.
NoProvider ==
    /\ pc = "provider" /\ Usable = {}
    /\ provider' = None
    /\ \/ /\ CanFallBack
          /\ depth' = depth + 1
          /\ UNCHANGED pc
       \/ /\ ~CanFallBack
          /\ pc' = "done"
          /\ UNCHANGED depth
    /\ UNCHANGED <<cooling, plan, tried, blockedA, blockedPM, reason, route, failures>>
    /\ Watch

\* collectAuthCandidates
Candidates ==
    {a \in Supports[Name] : /\ ProviderOf[a] = provider
                            /\ a \notin blockedA
                            /\ <<a, Name>> \notin tried}
Ready == {a \in Candidates : <<a, Name>> \notin cooling}

\* Mutant of NoAuth: one cooling credential is enough to leave the provider.
NoAuthAny ==
    /\ pc = "auth" /\ (Ready = {} \/ Ready # Candidates)
    /\ blockedPM' = blockedPM \cup {<<provider, Name>>}
    /\ provider' = None
    /\ pc' = "provider"
    /\ UNCHANGED <<cooling, plan, depth, tried, blockedA, reason, route, failures>>
    /\ Watch

\* No credential, or none that the selector would take: the provider is left.
NoAuth ==
    /\ pc = "auth" /\ Ready = {}
    /\ blockedPM' = blockedPM \cup {<<provider, Name>>}
    /\ provider' = None
    /\ pc' = "provider"
    /\ UNCHANGED <<cooling, plan, depth, tried, blockedA, reason, route, failures>>
    /\ Watch

\* Mutant of Refused: a resolved model already tried is not noticed.
Unrefused(a) == Resolve[a][Name] = None

\* The selected credential does not serve the model, or serves it with an
\* upstream model it was tried with.
Refused(a) == Resolve[a][Name] = None \/ <<a, Resolve[a][Name]>> \in tried

\* What is marked then: the resolved model, or the name if there is none.
Skip(a) ==
    /\ pc = "auth" /\ a \in Ready /\ Refused(a)
    /\ tried' = tried \cup {<<a, IF Resolve[a][Name] = None THEN Name ELSE Resolve[a][Name]>>}
    /\ pc' = "provider"
    /\ UNCHANGED <<cooling, plan, depth, provider, blockedA, blockedPM, reason, route, failures>>
    /\ Watch

\* Any selector, or the request's affinity, takes a credential that is ready.
Choose(a) ==
    /\ pc = "auth" /\ a \in Ready /\ ~Refused(a)
    /\ route' = [auth |-> a, model |-> Resolve[a][Name], name |-> Name]
    /\ pc' = "upstream"
    /\ UNCHANGED <<cooling, plan, attempt, failures>>
    /\ Watch

-----------------------------------------------------------------------------
(* executeLayeredOnce: the call, MarkResult and applyRoutingFailure *)

Used == <<route.auth, route.model>>

Succeed ==
    /\ pc = "upstream"
    /\ cooling' = cooling \ {Used}
    /\ route' = NoRoute
    /\ pc' = "done"
    /\ UNCHANGED <<plan, attempt, failures>>
    /\ Watch

\* classifyRoutingFailure
BlocksAuth(code) ==
    code \in {"unauthorized", "forbidden"} \/ (code = "daily_quota" /\ SwitchProject)

\* Mutant of BlocksProvider: switch-project is not looked at for a quota.
BlocksProviderOther(code) ==
    code = "protocol" \/ (code \in {"daily_quota", "not_found"} /\ ~SwitchProject)

BlocksProvider(code) ==
    code = "protocol" \/ (code \in {"daily_quota", "not_found", "quota"} /\ ~SwitchProject)

\* markRouteTried: the upstream model and the name it was chosen for, which the code
\* leaves out when both are the same, as the set does.
Marks == {Used, <<route.auth, route.name>>}

Fail(code) ==
    LET p == ProviderOf[route.auth]
    IN  /\ pc = "upstream"
        /\ cooling' = IF code \in CoolingCodes THEN cooling \cup {Used} ELSE cooling \ {Used}
        /\ tried' = tried \cup Marks
        /\ reason' = code
        /\ blockedA' = blockedA \cup (IF BlocksAuth(code) THEN {route.auth} ELSE {})
        /\ blockedPM' = blockedPM \cup (IF BlocksProvider(code) THEN {<<p, route.name>>} ELSE {})
        /\ provider' = IF BlocksProvider(code) THEN None ELSE provider
        /\ failures' = failures \cup {[route |-> route, code |-> code]}
        /\ route' = NoRoute
        /\ pc' = "provider"
        /\ UNCHANGED <<plan, depth>>
        /\ Watch

\* An invalid request (recorded without a cooldown), or a client that has gone
\* (not recorded): the attempt ends.
Abort ==
    /\ pc = "upstream"
    /\ cooling' \in {cooling, cooling \ {Used}}
    /\ route' = NoRoute
    /\ pc' = "done"
    /\ UNCHANGED <<plan, attempt, failures>>
    /\ Watch

-----------------------------------------------------------------------------

\* Other requests' results and the clock start and end cooldowns.
Cool(c) ==
    /\ pc # "done"
    /\ cooling' = IF c \in cooling THEN cooling \ {c} ELSE cooling \cup {c}
    /\ UNCHANGED <<plan, attempt, pc, route, failures>>
    /\ Watch

Step ==
    \/ NextProvider \/ NoProvider \/ NoAuth \/ Succeed \/ Abort
    \/ \E a \in Auths : Skip(a) \/ Choose(a)
    \/ \E code \in Codes : Fail(code)

Next == Step \/ \E c \in Contended : Cool(c)

Spec == Init /\ [][Next]_vars
FairSpec == Spec /\ WF_vars(Step)

-----------------------------------------------------------------------------

TypeOK ==
    /\ cooling \subseteq Auths \X Models /\ throttled \subseteq Auths \X Models
    /\ offset \in 0 .. Cardinality(Providers) - 1 /\ chosen \in BOOLEAN
    /\ pc \in {"provider", "auth", "upstream", "done"}
    /\ depth \in DOMAIN ModelCandidates
    /\ provider \in Providers \cup {None}
    /\ tried \subseteq Auths \X Models
    /\ blockedA \subseteq Auths /\ blockedPM \subseteq Providers \X Names
    /\ reason \in Codes \cup {"none"}
    /\ route \in {NoRoute} \cup [auth : Auths, model : Upstream, name : Names]
    /\ failures \subseteq [route : [auth : Auths, model : Upstream, name : Names], code : Codes]

\* An attempt never calls a credential with the same upstream model again
\* after it failed with it, not even under the name of a fallback model.
NoRouteTwice ==
    pc = "upstream" =>
        \A f \in failures : <<f.route.auth, f.route.model>> # <<route.auth, route.model>>

\* After 401 or 403 the credential is out for the whole attempt; without
\* switch-project a provider is out for a model once one of its credentials
\* met a quota; and after a protocol mismatch in any case.
FailuresRespected ==
    pc = "upstream" =>
        \A f \in failures :
            /\ f.code \in {"unauthorized", "forbidden"} => f.route.auth # route.auth
            /\ f.code = "protocol" \/ (f.code = "quota" /\ ~SwitchProject) =>
                  \/ ProviderOf[f.route.auth] # ProviderOf[route.auth]
                  \/ f.route.name # route.name

\* A fallback model is only used when the credentials for the model before it
\* are used up: each of them failed, was out by an earlier failure, does not
\* serve the model, or was seen cooling down.
FallbackIsLast ==
    [][depth' > depth =>
          \A a \in Supports[Name] :
              \/ a \in blockedA
              \/ <<a, Name>> \in tried \cup throttled
              \/ \E f \in failures : /\ ProviderOf[f.route.auth] = ProviderOf[a]
                                     /\ f.route.name = Name
                                     /\ BlocksProvider(f.code)]_vars

\* What the three properties rest on: what a failure leaves in the attempt, what
\* the choice of a route has checked, and why a provider is blocked.
FailuresMarked ==
    \A f \in failures :
        /\ <<f.route.auth, f.route.model>> \in tried
        /\ f.code \in {"unauthorized", "forbidden"} => f.route.auth \in blockedA
        /\ BlocksProvider(f.code) => <<ProviderOf[f.route.auth], f.route.name>> \in blockedPM

RouteOpen ==
    /\ pc = "auth" => provider \in Usable
    /\ pc = "upstream" =>
          /\ route \in [auth : Auths, model : Upstream, name : Names]
          /\ Used \notin tried /\ route.auth \notin blockedA
          /\ <<ProviderOf[route.auth], route.name>> \notin blockedPM

Excused(p, n) ==
    \/ \E f \in failures : /\ ProviderOf[f.route.auth] = p /\ f.route.name = n
                            /\ BlocksProvider(f.code)
    \/ \A a \in Supports[n] :
          ProviderOf[a] = p => a \in blockedA \/ <<a, n>> \in tried \cup throttled

BlocksJustified ==
    /\ cooling \subseteq throttled
    /\ \A p \in Providers, n \in Names : <<p, n>> \in blockedPM => Excused(p, n)

IInv == TypeOK /\ FailuresMarked /\ RouteOpen /\ BlocksJustified

\* The attempt ends, whatever fails and cools down meanwhile.
AttemptEnds == <>(pc = "done")

=============================================================================
