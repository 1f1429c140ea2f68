---------------------------- MODULE ModelRegistry ----------------------------
(***************************************************************************)
(* The reference-counted model registry (internal/registry/                *)
(* model_registry.go) and the results Manager.MarkResult publishes to it   *)
(* after it has released its own lock (sdk/cliproxy/auth/conductor.go).    *)
(*                                                                         *)
(* Every registry operation runs under the registry's lock: it is one      *)
(* action.  A client may list a model more than once (two upstream names   *)
(* with one alias), so that what it supplies is a bag of models.           *)
(***************************************************************************)
EXTENDS Integers, FiniteSets

CONSTANTS
    Clients,    \* credentials
    Supplied,   \* models
    Suppliers,  \* provider identifiers, without the empty one
    NoSupplier, \* the empty identifier
    MaxCopies,  \* bound: copies of a model in one client's list
    Workers     \* requests whose result may be on its way at the same time

ASSUME RegistryAssumption ==
    /\ IsFiniteSet(Clients) /\ IsFiniteSet(Suppliers)
    /\ NoSupplier \notin Suppliers
    /\ MaxCopies \in Nat \ {0}

VARIABLES
    count,     \* ModelRegistration.Count; 0 when the model has no entry
    provs,     \* ModelRegistration.Providers; 0 when the key is missing
    quota,     \* QuotaExceededClients
    suspended, \* SuspendedClients, with their reasons
    supply,    \* clientModels: copies of each model a client lists
    supplier,  \* clientProviders
    inflight   \* what MarkResult has still to publish, per worker

registry == <<count, provs, quota, suspended>>
clients == <<supply, supplier>>
registryVars == <<registry, clients, inflight>>

Reasons == {"quota", "other"}
\* "silent": a failure that is not published (408, 5xx and unknown codes).
Outcomes == {"success", "silent"} \cup Reasons
Idle == [step |-> "none"]
Nothing == [m \in Supplied |-> 0]
Lists == [Supplied -> 0 .. MaxCopies]
NoReason == [c \in Clients |-> "none"]

RegistryInit ==
    /\ count = [m \in Supplied |-> 0]
    /\ provs = [m \in Supplied |-> [p \in Suppliers |-> 0]]
    /\ quota = [m \in Supplied |-> {}]
    /\ suspended = [m \in Supplied |-> NoReason]
    /\ supply = [c \in Clients |-> Nothing]
    /\ supplier = [c \in Clients |-> NoSupplier]
    /\ inflight = [w \in Workers |-> Idle]

Smaller(i, j) == IF i <= j THEN i ELSE j
Less(i, j) == IF i <= j THEN 0 ELSE i - j    \* map entries vanish at zero

-----------------------------------------------------------------------------
(* RegisterClient and UnregisterClient: c, which supplied `old` as provider
   op, now supplies `new` as provider np.  Each model is reconciled by itself. *)

\* Mutant of Providing: the copies that stay are not moved to the new provider.
ProvidingStale(m, old, new, op, np) ==
    [p \in Suppliers |->
        LET taken == IF p = op THEN Less(old, new) ELSE 0
            added == IF p = np THEN Less(new, old) ELSE 0
        IN  Less(provs[m][p], taken) + added]

\* Providers of m: copies that stay move with a change of provider, copies too
\* many leave the old provider, missing copies enter the new one.
Providing(m, old, new, op, np) ==
    [p \in Suppliers |->
        LET moved == IF op # np THEN Smaller(old, new) ELSE 0
            taken == IF p = op THEN moved + Less(old, new) ELSE 0
            added == IF p = np THEN moved + Less(new, old) ELSE 0
        IN  Less(provs[m][p], taken) + added]

Counting(m, old, new) == Less(count[m], Less(old, new)) + Less(new, old)

\* The models whose marks of c are dropped: those c supplied, and those it
\* supplies from now on unless it is new to the registry.
Cleared(c, new) == {m \in Supplied : supply[c] # Nothing /\ supply[c][m] + new[m] > 0}

\* A model nobody supplies loses its entry, marks included.
Reconcile(c, new, np) ==
    /\ count' = [m \in Supplied |-> Counting(m, supply[c][m], new[m])]
    /\ provs' = [m \in Supplied |->
          IF count'[m] = 0 THEN [p \in Suppliers |-> 0]
          ELSE Providing(m, supply[c][m], new[m], supplier[c], np)]
    /\ quota' = [m \in Supplied |->
          IF count'[m] = 0 THEN {} ELSE {d \in quota[m] : d # c \/ m \notin Cleared(c, new)}]
    /\ suspended' = [m \in Supplied |->
          IF count'[m] = 0 THEN NoReason
          ELSE IF m \in Cleared(c, new) THEN [suspended[m] EXCEPT ![c] = "none"]
          ELSE suspended[m]]
    /\ supply' = [supply EXCEPT ![c] = new]
    /\ supplier' = [supplier EXCEPT ![c] = np]

\* An empty list unregisters the client.
RegisterClient(c, new, np) ==
    /\ Reconcile(c, new, IF new = Nothing THEN NoSupplier ELSE np)
    /\ UNCHANGED inflight

UnregisterClient(c) ==
    /\ Reconcile(c, Nothing, NoSupplier)
    /\ UNCHANGED inflight

-----------------------------------------------------------------------------
(* MarkResult: under the manager's lock the result is recorded, then the
   quota mark and the suspension are published in two registry calls. *)

\* A request is sent to a client the registry lists for the model.
Start(w, c, m) ==
    /\ inflight[w] = Idle /\ supply[c][m] > 0
    /\ inflight' = [inflight EXCEPT ![w] =
          [client |-> c, model |-> m, outcome |-> "none", step |-> "upstream"]]
    /\ UNCHANGED <<registry, clients>>

\* The part of MarkResult under the manager's lock.
Record(w, o) ==
    /\ inflight[w].step = "upstream"
    /\ inflight' = [inflight EXCEPT ![w] =
          IF o = "silent" THEN Idle
          ELSE [@ EXCEPT !.outcome = o, !.step = IF o = "other" THEN "suspend" ELSE "quota"]]
    /\ UNCHANGED <<registry, clients>>

\* SetModelQuotaExceeded after a 429, ClearModelQuotaExceeded after a success:
\* both only if the model has an entry.
PublishQuota(w) ==
    /\ inflight[w].step = "quota"
    /\ LET i == inflight[w]
       IN  quota' = [quota EXCEPT ![i.model] =
              IF i.outcome = "success" THEN @ \ {i.client}
              ELSE IF count[i.model] > 0 THEN @ \cup {i.client} ELSE @]
    /\ inflight' = [inflight EXCEPT ![w].step = "suspend"]
    /\ UNCHANGED <<count, provs, suspended, clients>>

\* Mutant of PublishSuspend: a model without an entry gets a suspension.
PublishSuspendAlways(w) ==
    /\ inflight[w].step = "suspend"
    /\ LET i == inflight[w]
       IN  suspended' = [suspended EXCEPT ![i.model][i.client] =
              IF i.outcome = "success" THEN "none"
              ELSE IF @ = "none" THEN i.outcome ELSE @]
    /\ inflight' = [inflight EXCEPT ![w] = Idle]
    /\ UNCHANGED <<count, provs, quota, clients>>

\* ResumeClientModel after a success, else SuspendClientModel, which keeps the
\* reason of a client already suspended.
PublishSuspend(w) ==
    /\ inflight[w].step = "suspend"
    /\ LET i == inflight[w]
       IN  suspended' = [suspended EXCEPT ![i.model][i.client] =
              IF i.outcome = "success" THEN "none"
              ELSE IF count[i.model] > 0 /\ @ = "none" THEN i.outcome ELSE @]
    /\ inflight' = [inflight EXCEPT ![w] = Idle]
    /\ UNCHANGED <<count, provs, quota, clients>>

\* A quota mark is five minutes old: it no longer counts (and
\* CleanupExpiredQuotas would drop it).
QuotaExpires(m, c) ==
    /\ c \in quota[m]
    /\ quota' = [quota EXCEPT ![m] = @ \ {c}]
    /\ UNCHANGED <<count, provs, suspended, clients, inflight>>

Publish(w) == PublishQuota(w) \/ PublishSuspend(w)

RegistryNext ==
    \/ \E c \in Clients, new \in Lists, np \in Suppliers \cup {NoSupplier} :
          RegisterClient(c, new, np)
    \/ \E c \in Clients : UnregisterClient(c)
    \/ \E w \in Workers, c \in Clients, m \in Supplied : Start(w, c, m)
    \/ \E w \in Workers, o \in Outcomes : Record(w, o)
    \/ \E w \in Workers : Publish(w)
    \/ \E m \in Supplied, c \in Clients : QuotaExpires(m, c)

RegistrySpec == RegistryInit /\ [][RegistryNext]_registryVars

-----------------------------------------------------------------------------
(* What the registry answers. *)

Reported(m) == {c \in Clients : suspended[m][c] # "none"}
Cooling(m) == {c \in Clients : suspended[m][c] = "quota"}

GetModelCount(m) == Less(count[m], Cardinality(quota[m]) + Cardinality(Reported(m)))

\* GetAvailableModels.
Listed(m) ==
    LET others == Cardinality(Reported(m) \ Cooling(m))
    IN  \/ count[m] > Cardinality(quota[m]) + others
        \/ count[m] > 0 /\ others = 0 /\ quota[m] \cup Cooling(m) # {}

-----------------------------------------------------------------------------

\* How many copies of m the clients of S list, as a set of numbered copies.
Copies(m, S) == Cardinality({x \in S \X (1 .. MaxCopies) : x[2] <= supply[x[1]][m]})

RegistryTypeOK ==
    /\ count \in [Supplied -> Nat]
    /\ provs \in [Supplied -> [Suppliers -> Nat]]
    /\ quota \in [Supplied -> SUBSET Clients]
    /\ suspended \in [Supplied -> [Clients -> Reasons \cup {"none"}]]
    /\ supply \in [Clients -> Lists]
    /\ supplier \in [Clients -> Suppliers \cup {NoSupplier}]
    /\ inflight \in [Workers -> {Idle} \cup
          [client : Clients, model : Supplied, outcome : Outcomes \cup {"none"},
           step : {"upstream", "quota", "suspend"}]]

\* Reconciling lists, copies and providers in whatever order never drifts: a
\* model's count is the number of copies its clients list, and its count under
\* a provider the number of copies that provider's clients list.  (A model
\* routed to a provider without clients, or hidden though supplied, is what a
\* drift would mean.)
CountsExact ==
    \A m \in Supplied :
        /\ count[m] = Copies(m, Clients)
        /\ \A p \in Suppliers : provs[m][p] = Copies(m, {c \in Clients : supplier[c] = p})

\* Marks of late results never outlive the model's entry: once no client is registered
\* for a model there are no marks of it, and when it is registered anew every client is
\* available.  (While another client keeps the entry, a late result does mark a client
\* that has been unregistered.)
NoOrphanMarks ==
    \A m \in Supplied : count[m] = 0 => quota[m] = {} /\ Reported(m) = {}

\* "automatically hide models when no clients are available", and no others: a
\* model supplied by a client without any mark is listed and has a count, at
\* least while every mark is that of a client that still supplies it.
AvailableIsOffered ==
    \A m \in Supplied :
        LET marked == quota[m] \cup Reported(m)
        IN  (\A c \in marked : supply[c][m] > 0) /\ (\E c \in Clients \ marked : supply[c][m] > 0)
               => Listed(m) /\ GetModelCount(m) > 0

=============================================================================
